---------------------------- MODULE BuilderProofs ----------------------------
(***************************************************************************)
(* Proofs about two parts of virt-builder: IndexSelection, which picks a   *)
(* template, and TemplateCache, which keeps what was downloaded.           *)
(***************************************************************************)
EXTENDS IndexSelection, TemplateCache, FiniteSetTheorems, SequenceTheorems,
        WellFoundedInduction, TLAPS

-----------------------------------------------------------------------------
(***************************************************************************)
(* IndexSelection, for indexes of any length and any names, architectures, *)
(* aliases and revisions.  How revisions are compared does not matter to   *)
(* any of the theorems.                                                    *)
(***************************************************************************)

(* The inductive invariant, in named parts.                                *)

Positions == 1..Len(index)
SameId(p, q) == IdOf(index[p]) = IdOf(index[q])
IsRevisionOf(p, id) == IdOf(index[p]) = id /\ index[p].revision = nseen[id]

SelectionTypeOK ==
  /\ index \in Seq(Entry)
  /\ phase \in {"fill", "filter", "select", "selected", "not found"}
  /\ k \in 1..(Len(index) + 1)
  /\ kept \in Seq(Nat)

(* First scan: every template looked at is in the table, with a revision   *)
(* that some entry looked at has.                                          *)
FillInv == phase = "fill" =>
  /\ kept = << >>
  /\ \A p \in 1..(k - 1) : IdOf(index[p]) \in DOMAIN nseen
  /\ \A id \in DOMAIN nseen : \E p \in 1..(k - 1) : IsRevisionOf(p, id)

(* Second scan: a template is in the table until one entry of it is kept.  *)
(* As long as it is in the table, an entry with the revision of the table  *)
(* is still to come and none has been passed.                              *)
Pending(id) ==
  /\ \E p \in k..Len(index) : IsRevisionOf(p, id)
  /\ \A p \in 1..(k - 1) : ~IsRevisionOf(p, id)
  /\ \A q \in KeptPositions : IdOf(index[q]) # id

FilterInv == phase = "filter" =>
  /\ \A p \in Positions :
       IdOf(index[p]) \in DOMAIN nseen \/ \E q \in KeptPositions : SameId(p, q)
  /\ \A id \in DOMAIN nseen : Pending(id)

(* What was kept: positions that have been passed, in increasing order, of *)
(* different templates, and the earliest with their revision.              *)
KeptInv ==
  /\ KeptPositions \subseteq 1..(k - 1)
  /\ \A q, r \in KeptPositions : SameId(q, r) => q = r
  /\ EarlierSourceWins

(* The outcome of the search for the os-version: what is selected is the   *)
(* first entry of that name for that architecture.                         *)
FirstWanted(j) == j \in Wanted /\ \A l \in Wanted : j <= l
SelectedInv ==
  /\ phase = "not found" => Wanted = {}
  /\ phase = "selected" => \E j \in DOMAIN kept : FirstWanted(j) /\ item = kept[j]

SelectionIInv ==
  SelectionTypeOK /\ FillInv /\ FilterInv /\ KeptInv /\ EachTemplateOnce /\ SelectedInv

-----------------------------------------------------------------------------
(* Lemmas about the operators.                                             *)

LEMMA Appending ==
  ASSUME kept \in Seq(Nat), NEW p \in Nat, kept' = Append(kept, p)
  PROVE  /\ kept' \in Seq(Nat)
         /\ Len(kept') = Len(kept) + 1 /\ Len(kept) \in Nat
         /\ \A j \in 1..Len(kept) : kept'[j] = kept[j]
         /\ kept'[Len(kept) + 1] = p
         /\ KeptPositions' = KeptPositions \cup {p}
<1>1. /\ kept' \in Seq(Nat)
      /\ Len(kept') = Len(kept) + 1 /\ Len(kept) \in Nat
      /\ \A j \in 1..Len(kept) : kept'[j] = kept[j]
      /\ kept'[Len(kept) + 1] = p
  BY AppendProperties
<1>2. 1..Len(kept') = 1..Len(kept) \cup {Len(kept) + 1}
  BY <1>1
<1> QED
  BY <1>1, <1>2 DEF KeptPositions

LEMMA KeptEntries ==
  ASSUME SelectionTypeOK, NEW q \in KeptPositions
  PROVE  \E j \in DOMAIN kept : kept[j] = q
<1>1. kept \in Seq(Nat)
  BY DEF SelectionTypeOK
<1>2. DOMAIN kept = 1..Len(kept)
  BY <1>1, LenProperties
<1> QED
  BY <1>2 DEF KeptPositions

LEMMA KeptAreEntries ==
  ASSUME SelectionTypeOK, KeptInv
  PROVE  KeptPositions \subseteq 1..Len(index)
<1>1. PICK n \in Nat : n = Len(index)
  BY LenProperties DEF SelectionTypeOK
<1>2. k \in 1..(n + 1)
  BY <1>1 DEF SelectionTypeOK
<1>3. \A q \in 1..(k - 1) : q \in 1..n
  BY <1>2
<1> QED
  BY <1>1, <1>3 DEF KeptInv

LEMMA SameKept ==
  ASSUME index' = index, kept' = kept, k' = k
  PROVE  /\ KeptInv => KeptInv'
         /\ EachTemplateOnce /\ Filtered => EachTemplateOnce'
<1>1. KeptPositions' = KeptPositions
  BY DEF KeptPositions
<1>2. EarlierSourceWins' <=> EarlierSourceWins
  BY <1>1 DEF EarlierSourceWins
<1>3. \A q, r : SameId(q, r)' <=> SameId(q, r)
  BY DEF SameId
<1> QED
  BY <1>1, <1>2, <1>3 DEF KeptInv, EachTemplateOnce

LEMMA SameSearch ==
  ASSUME index' = index, kept' = kept, arg' = arg, arch' = arch
  PROVE  /\ Wanted' = Wanted
         /\ \A j : FirstWanted(j)' <=> FirstWanted(j)
<1>1. Wanted' = Wanted
  BY DEF Wanted, Aliased, IsWanted, ResolvedArg, First, HasAlias
<1> QED
  BY <1>1 DEF FirstWanted

(* A set of natural numbers that is not empty has a least element: the     *)
(* strict subset ordering of the sets 0..n is well founded.                *)
LEMMA LeastNumber ==
  ASSUME NEW S, S \subseteq Nat, S # {}
  PROVE  \E n \in S : \A m \in S : n <= m
<1> DEFINE Upto == {0..n : n \in S}
<1>1. Upto \subseteq FiniteSubsetsOf(Nat)
  <2> SUFFICES ASSUME NEW n \in S
               PROVE  0..n \in FiniteSubsetsOf(Nat)
    OBVIOUS
  <2>1. IsFiniteSet(0..n)
    BY FS_Interval
  <2> QED
    BY <2>1 DEF FiniteSubsetsOf
<1>2. Upto # {}
  OBVIOUS
<1>3. \E U \in Upto : \A V \in Upto : ~(<<V, U>> \in StrictSubsetOrdering(Nat))
  <2> HIDE DEF Upto
  <2> QED
    BY <1>1, <1>2, FS_StrictSubsetOrderingWellFounded, WFMin
<1>4. PICK n \in S : \A m \in S : ~(<<0..m, 0..n>> \in StrictSubsetOrdering(Nat))
  BY <1>3
<1>5. ASSUME NEW m \in S, m < n
      PROVE  FALSE
  <2>1. 0..m \subseteq 0..n /\ n \in 0..n /\ n \notin 0..m
    BY <1>5
  <2>2. 0..m \subseteq Nat /\ 0..n \subseteq Nat
    OBVIOUS
  <2> QED
    BY <1>4, <2>1, <2>2 DEF StrictSubsetOrdering
<1> QED
  BY <1>5

-----------------------------------------------------------------------------
(* The steps.                                                              *)

LEMMA InitIInv == SelectionInit => SelectionIInv
<1> SUFFICES ASSUME SelectionInit
             PROVE  SelectionIInv
  OBVIOUS
<1>1. index \in Seq(Entry)
  BY IsASeq DEF SelectionInit
<1>2. Len(index) \in Nat
  BY <1>1, LenProperties
<1>3. kept = << >> /\ kept \in Seq(Nat) /\ Len(kept) = 0 /\ KeptPositions = {}
  BY DEF SelectionInit, KeptPositions
<1>4. SelectionTypeOK
  BY <1>1, <1>2, <1>3 DEF SelectionInit, SelectionTypeOK
<1>5. FillInv
  BY <1>3 DEF SelectionInit, FillInv
<1>6. KeptInv
  BY <1>3 DEF KeptInv, EarlierSourceWins
<1> QED
  BY <1>4, <1>5, <1>6
    DEF SelectionInit, SelectionIInv, FilterInv, EachTemplateOnce, Filtered, SelectedInv

LEMMA FillStep == SelectionIInv /\ Fill => SelectionIInv'
<1> SUFFICES ASSUME SelectionIInv, Fill
             PROVE  SelectionIInv'
  OBVIOUS
<1>1. /\ SelectionTypeOK /\ FillInv /\ KeptInv
      /\ phase = "fill" /\ k <= Len(index) /\ k' = k + 1
      /\ index' = index /\ phase' = phase /\ kept' = kept
  BY DEF SelectionIInv, Fill
<1>2. k \in Nat \ {0} /\ Len(index) \in Nat
  BY <1>1, LenProperties DEF SelectionTypeOK
<1>3. SelectionTypeOK'
  BY <1>1, <1>2 DEF SelectionTypeOK
<1>4. KeptPositions = {} /\ KeptPositions' = {}
  BY <1>1 DEF FillInv, KeptPositions
<1>5. FillInv'
  <2> DEFINE id == IdOf(index[k])
  <2> SUFFICES /\ \A p \in 1..k : IdOf(index[p]) \in DOMAIN nseen'
               /\ \A i \in DOMAIN nseen' : \E p \in 1..k : IsRevisionOf(p, i)'
    BY <1>1, <1>2 DEF FillInv
  <2>1. 1..k = 1..(k - 1) \cup {k}
    BY <1>2
  <2>2. CASE nseen' = Bind(nseen, id, index[k].revision)
    <3>1. DOMAIN nseen' = DOMAIN nseen \cup {id}
      BY <2>2 DEF Bind
    <3>2. \A i \in DOMAIN nseen' :
            nseen'[i] = IF i = id THEN index[k].revision ELSE nseen[i]
      BY <2>2, <3>1 DEF Bind
    <3>3. ASSUME NEW i \in DOMAIN nseen'
          PROVE  \E p \in 1..k : IsRevisionOf(p, i)'
      <4>1. CASE i = id
        BY <1>1, <2>1, <3>2, <4>1 DEF IsRevisionOf
      <4>2. CASE i # id
        BY <1>1, <2>1, <3>1, <3>2, <4>2 DEF IsRevisionOf, FillInv
      <4> QED
        BY <4>1, <4>2
    <3> QED
      BY <1>1, <2>1, <3>1, <3>3 DEF FillInv
  <2>3. CASE nseen' = nseen /\ id \in DOMAIN nseen
    BY <1>1, <2>1, <2>3 DEF FillInv, IsRevisionOf
  <2> QED
    BY <2>2, <2>3 DEF Fill
<1>6. KeptInv'
  <2>1. kept' = << >> /\ Len(kept') = 0
    BY <1>1 DEF FillInv
  <2> QED
    BY <1>4, <2>1 DEF KeptInv, EarlierSourceWins
<1> QED
  BY <1>1, <1>3, <1>5, <1>6
     DEF SelectionIInv, FilterInv, EachTemplateOnce, Filtered, SelectedInv

LEMMA FillDoneStep == SelectionIInv /\ FillDone => SelectionIInv'
<1> SUFFICES ASSUME SelectionIInv, FillDone
             PROVE  SelectionIInv'
  OBVIOUS
<1>1. /\ SelectionTypeOK /\ FillInv
      /\ phase = "fill" /\ k > Len(index) /\ k' = 1 /\ phase' = "filter"
      /\ index' = index /\ nseen' = nseen /\ kept' = kept
  BY DEF SelectionIInv, FillDone
<1>2. k = Len(index) + 1 /\ Len(index) \in Nat
  BY <1>1, LenProperties DEF SelectionTypeOK
<1>3. SelectionTypeOK'
  BY <1>1, <1>2 DEF SelectionTypeOK
<1>4. kept' = << >> /\ Len(kept') = 0 /\ KeptPositions' = {}
  BY <1>1 DEF FillInv, KeptPositions
<1>5. FilterInv'
  <2>1. 1..(k - 1) = Positions /\ Positions' = Positions /\ 1..(k' - 1) = {}
    BY <1>1, <1>2 DEF Positions
  <2>2. \A p \in Positions : IdOf(index[p]) \in DOMAIN nseen
    BY <1>1, <2>1 DEF FillInv
  <2>3. \A id \in DOMAIN nseen : \E p \in Positions : IsRevisionOf(p, id)
    BY <1>1, <2>1 DEF FillInv
  <2>4. ASSUME NEW id \in DOMAIN nseen
        PROVE  Pending(id)'
    BY <1>1, <1>4, <2>1, <2>3 DEF Pending, IsRevisionOf, Positions
  <2> QED
    BY <1>1, <2>1, <2>2, <2>4 DEF FilterInv
<1>6. KeptInv'
  BY <1>4 DEF KeptInv, EarlierSourceWins
<1> QED
  BY <1>1, <1>3, <1>5, <1>6
     DEF SelectionIInv, FillInv, EachTemplateOnce, Filtered, SelectedInv

(* An entry that is taken is the only one kept of its template, and the    *)
(* first with its revision.                                                *)
LEMMA TakenStep ==
  ASSUME SelectionIInv, Filter, Taken(index[k])
  PROVE  FilterInv' /\ KeptInv'
<1> DEFINE id == IdOf(index[k])
<1>1. /\ SelectionTypeOK /\ FilterInv /\ KeptInv
      /\ phase = "filter" /\ k <= Len(index) /\ k' = k + 1
      /\ index' = index /\ phase' = phase
      /\ kept' = Append(kept, k) /\ nseen' = Unbind(nseen, id)
      /\ id \in DOMAIN nseen /\ nseen[id] = index[k].revision
  BY DEF SelectionIInv, Filter, Taken
<1>2. k \in Nat \ {0} /\ Len(index) \in Nat /\ k \in Positions
  BY <1>1, LenProperties DEF SelectionTypeOK, Positions
<1>3. /\ Len(kept') = Len(kept) + 1 /\ Len(kept) \in Nat
      /\ \A j \in 1..Len(kept) : kept'[j] = kept[j]
      /\ kept'[Len(kept) + 1] = k
      /\ KeptPositions' = KeptPositions \cup {k}
  BY <1>1, <1>2, Appending DEF SelectionTypeOK
<1>4. /\ DOMAIN nseen' = DOMAIN nseen \ {id}
      /\ \A i \in DOMAIN nseen' : nseen'[i] = nseen[i]
  BY <1>1 DEF Unbind
<1>5. Pending(id)
  BY <1>1 DEF FilterInv
<1>6. 1..k = 1..(k - 1) \cup {k} /\ KeptPositions \subseteq 1..(k - 1)
  BY <1>1, <1>2 DEF KeptInv
<1>7. FilterInv'
  <2>1. ASSUME NEW p \in Positions
        PROVE  IdOf(index[p]) \in DOMAIN nseen' \/ \E q \in KeptPositions' : SameId(p, q)
    BY <1>1, <1>3, <1>4 DEF FilterInv, SameId
  <2>2. ASSUME NEW i \in DOMAIN nseen'
        PROVE  Pending(i)'
    <3>1. Pending(i) /\ i # id /\ nseen'[i] = nseen[i]
      BY <1>1, <1>4 DEF FilterInv
    <3>2. PICK p \in k..Len(index) : IsRevisionOf(p, i)
      BY <3>1 DEF Pending
    <3>3. p # k /\ p \in (k + 1)..Len(index)
      BY <1>2, <3>1, <3>2 DEF IsRevisionOf
    <3>4. \A q \in 1..k : ~IsRevisionOf(q, i)
      BY <1>6, <3>1 DEF Pending, IsRevisionOf
    <3>5. \A q \in KeptPositions' : IdOf(index[q]) # i
      BY <1>3, <3>1 DEF Pending
    <3> QED
      BY <1>1, <1>2, <3>1, <3>2, <3>3, <3>4, <3>5 DEF Pending, IsRevisionOf
  <2> QED
    BY <1>1, <2>1, <2>2 DEF FilterInv, Positions, SameId
<1>8. KeptInv'
  <2>1. KeptPositions' \subseteq 1..(k' - 1)
    BY <1>1, <1>2, <1>3, <1>6
  <2>2. ASSUME NEW q \in KeptPositions
        PROVE  ~SameId(q, k)
    BY <1>5 DEF Pending, SameId
  <2>3. \A q, r \in KeptPositions' : SameId(q, r)' => q = r
    BY <1>1, <1>3, <2>2 DEF KeptInv, SameId
  <2>4. ASSUME NEW j \in 1..Len(kept'), NEW l \in 1..Len(kept'), j < l
        PROVE  kept'[j] < kept'[l]
    <3>1. CASE l \in 1..Len(kept)
      BY <1>1, <1>3, <2>4, <3>1 DEF KeptInv, EarlierSourceWins
    <3>2. CASE l = Len(kept) + 1
      <4>1. j \in 1..Len(kept)
        BY <1>3, <2>4, <3>2
      <4>2. kept[j] \in KeptPositions
        BY <4>1 DEF KeptPositions
      <4>3. kept[j] \in 1..(k - 1)
        BY <1>6, <4>2
      <4> QED
        BY <1>2, <1>3, <3>2, <4>1, <4>3
    <3> QED
      BY <1>3, <3>1, <3>2
  <2>5. ASSUME NEW q \in KeptPositions', NEW p \in 1..Len(index),
               IdOf(index[p]) = IdOf(index[q]) /\ index[p].revision = index[q].revision
        PROVE  q <= p
    <3>1. CASE q \in KeptPositions
      BY <1>1, <2>5, <3>1 DEF KeptInv, EarlierSourceWins
    <3>2. CASE q = k
      <4>1. IsRevisionOf(p, id)
        BY <1>1, <2>5, <3>2 DEF IsRevisionOf
      <4>2. p \notin 1..(k - 1)
        BY <1>5, <4>1 DEF Pending
      <4> QED
        BY <1>2, <3>2, <4>2
    <3> QED
      BY <1>3, <3>1, <3>2
  <2>6. EarlierSourceWins'
    BY <1>1, <2>4, <2>5 DEF EarlierSourceWins
  <2> QED
    BY <2>1, <2>3, <2>6 DEF KeptInv
<1> QED
  BY <1>7, <1>8

LEMMA PassedStep ==
  ASSUME SelectionIInv, Filter, ~Taken(index[k])
  PROVE  FilterInv' /\ KeptInv'
<1>1. /\ SelectionTypeOK /\ FilterInv /\ KeptInv
      /\ phase = "filter" /\ k <= Len(index) /\ k' = k + 1
      /\ index' = index /\ phase' = phase /\ kept' = kept /\ nseen' = nseen
  BY DEF SelectionIInv, Filter
<1>2. k \in Nat \ {0} /\ Len(index) \in Nat /\ k \in Positions
  BY <1>1, LenProperties DEF SelectionTypeOK, Positions
<1>3. KeptPositions' = KeptPositions /\ 1..k = 1..(k - 1) \cup {k}
  BY <1>1, <1>2 DEF KeptPositions
<1>4. FilterInv'
  <2>1. ASSUME NEW i \in DOMAIN nseen
        PROVE  Pending(i)'
    <3>1. Pending(i) /\ ~IsRevisionOf(k, i)
      BY <1>1 DEF FilterInv, Taken, IsRevisionOf
    <3>2. PICK p \in k..Len(index) : IsRevisionOf(p, i)
      BY <3>1 DEF Pending
    <3>3. p \in (k + 1)..Len(index)
      BY <1>2, <3>1, <3>2
    <3>4. \A q \in 1..k : ~IsRevisionOf(q, i)
      BY <1>3, <3>1 DEF Pending
    <3> QED
      BY <1>1, <1>2, <1>3, <3>1, <3>2, <3>3, <3>4 DEF Pending, IsRevisionOf
  <2> QED
    BY <1>1, <1>3, <2>1 DEF FilterInv, Positions, SameId
<1>5. KeptInv'
  BY <1>1, <1>2, <1>3 DEF KeptInv, SameId, EarlierSourceWins
<1> QED
  BY <1>4, <1>5

LEMMA FilterStep == SelectionIInv /\ Filter => SelectionIInv'
<1> SUFFICES ASSUME SelectionIInv, Filter
             PROVE  SelectionIInv'
  OBVIOUS
<1>1. /\ SelectionTypeOK /\ phase = "filter" /\ k <= Len(index) /\ k' = k + 1
      /\ index' = index /\ phase' = phase
  BY DEF SelectionIInv, Filter
<1>2. k \in Nat \ {0} /\ Len(index) \in Nat
  BY <1>1, LenProperties DEF SelectionTypeOK
<1>3. kept' \in Seq(Nat)
  BY <1>1, <1>2, Appending DEF Filter, SelectionTypeOK
<1>4. SelectionTypeOK'
  BY <1>1, <1>2, <1>3 DEF SelectionTypeOK
<1> QED
  BY <1>1, <1>4, TakenStep, PassedStep
     DEF SelectionIInv, FillInv, EachTemplateOnce, Filtered, SelectedInv

(* The table is empty at the end, so an entry of every template was kept.  *)
LEMMA FilterDoneStep == SelectionIInv /\ FilterDone => SelectionIInv'
<1> SUFFICES ASSUME SelectionIInv, FilterDone
             PROVE  SelectionIInv'
  OBVIOUS
<1>1. /\ SelectionTypeOK /\ FilterInv /\ KeptInv
      /\ phase = "filter" /\ k > Len(index) /\ k' = k /\ phase' = "select"
      /\ index' = index /\ nseen' = nseen /\ kept' = kept
  BY DEF SelectionIInv, FilterDone
<1>2. k..Len(index) = {}
  <2>1. Len(index) \in Nat /\ k \in Nat
    BY <1>1, LenProperties DEF SelectionTypeOK
  <2> QED
    BY <1>1, <2>1
<1>3. DOMAIN nseen = {}
  BY <1>1, <1>2 DEF FilterInv, Pending
<1>4. EachTemplateOnce'
  <2>1. \A p \in 1..Len(index) :
          \E q \in KeptPositions :
            /\ IdOf(index[q]) = IdOf(index[p])
            /\ \A r \in KeptPositions : IdOf(index[r]) = IdOf(index[p]) => r = q
    <3> SUFFICES ASSUME NEW p \in 1..Len(index)
                 PROVE  \E q \in KeptPositions :
                          /\ IdOf(index[q]) = IdOf(index[p])
                          /\ \A r \in KeptPositions :
                               IdOf(index[r]) = IdOf(index[p]) => r = q
      OBVIOUS
    <3>1. PICK q \in KeptPositions : SameId(p, q)
      BY <1>1, <1>3 DEF FilterInv, Positions
    <3> QED
      BY <1>1, <3>1 DEF KeptInv, SameId
  <2>2. KeptPositions' = KeptPositions /\ index' = index
    BY <1>1 DEF KeptPositions
  <2> QED
    BY <2>1, <2>2 DEF EachTemplateOnce
<1>5. KeptInv'
  BY <1>1, SameKept
<1> QED
  BY <1>1, <1>4, <1>5 DEF SelectionIInv, SelectionTypeOK, FillInv, FilterInv, SelectedInv

LEMMA SelectStep == SelectionIInv /\ Select => SelectionIInv'
<1> SUFFICES ASSUME SelectionIInv, Select
             PROVE  SelectionIInv'
  OBVIOUS
<1>1. /\ SelectionTypeOK /\ KeptInv /\ EachTemplateOnce
      /\ phase = "select" /\ phase' \in {"selected", "not found"}
      /\ index' = index /\ kept' = kept /\ k' = k /\ arg' = arg /\ arch' = arch
      /\ phase' = "not found" => Wanted = {}
      /\ phase' = "selected" => /\ Wanted # {}
                               /\ item' = First(Wanted)
  BY DEF SelectionIInv, Select
<1>2. KeptInv'
  BY <1>1, SameKept
<1>3. EachTemplateOnce'
  BY <1>1, SameKept DEF Filtered
<1>4. SelectedInv'
  <2>1. ASSUME phase' = "selected"
        PROVE  \E j \in DOMAIN kept : FirstWanted(j) /\ item' = kept[j]
    <3>1. DOMAIN kept \subseteq Nat
      <4>1. DOMAIN kept = 1..Len(kept) /\ Len(kept) \in Nat
        BY <1>1, LenProperties DEF SelectionTypeOK
      <4> QED
        BY <4>1
    <3>2. Wanted \subseteq DOMAIN kept
      BY DEF Wanted
    <3>3. Wanted \subseteq Nat /\ Wanted # {}
      BY <1>1, <2>1, <3>1, <3>2
    <3>4. \E j \in Wanted : \A l \in Wanted : j <= l
      BY <3>3, LeastNumber
    <3> DEFINE j == CHOOSE j \in Wanted : \A l \in Wanted : j <= l
    <3>5. FirstWanted(j)
      BY <3>4 DEF FirstWanted
    <3>6. item' = kept[j]
      BY <1>1, <2>1 DEF First
    <3> QED
      BY <3>2, <3>5, <3>6 DEF FirstWanted
  <2> QED
    BY <1>1, <2>1, SameSearch DEF SelectedInv
<1> QED
  BY <1>1, <1>2, <1>3, <1>4 DEF SelectionIInv, SelectionTypeOK, FillInv, FilterInv

LEMMA StutterStep == SelectionIInv /\ UNCHANGED selection_vars => SelectionIInv'
<1> SUFFICES ASSUME SelectionIInv, UNCHANGED selection_vars
             PROVE  SelectionIInv'
  OBVIOUS
<1>1. /\ index' = index /\ kept' = kept /\ k' = k /\ arg' = arg /\ arch' = arch
      /\ item' = item /\ phase' = phase /\ nseen' = nseen /\ KeptPositions' = KeptPositions
  BY DEF selection_vars, KeptPositions
<1>2. SelectionTypeOK' /\ KeptInv' /\ EachTemplateOnce'
  BY <1>1, SameKept DEF SelectionIInv, SelectionTypeOK, EachTemplateOnce, Filtered
<1>3. FillInv' /\ FilterInv'
  BY <1>1 DEF SelectionIInv, FillInv, FilterInv, Pending, IsRevisionOf, Positions, SameId
<1>4. SelectedInv'
  BY <1>1, SameSearch DEF SelectionIInv, SelectedInv
<1> QED
  BY <1>2, <1>3, <1>4 DEF SelectionIInv

-----------------------------------------------------------------------------
(* Theorems.                                                               *)

(* The inductive invariant of remove_duplicates and selected_cli_item.     *)
THEOREM SelectionInvariance == SelectionSpec => []SelectionIInv
<1>1. SelectionIInv /\ [SelectionNext]_selection_vars => SelectionIInv'
  BY FillStep, FillDoneStep, FilterStep, FilterDoneStep, SelectStep, StutterStep DEF SelectionNext
<1> QED
  BY InitIInv, <1>1, PTL DEF SelectionSpec

(* Every template of every source is in the index without duplicates, and  *)
(* no template is in it twice (builder.ml 37-77).                          *)
THEOREM NoTemplateIsLost == SelectionSpec => []EachTemplateOnce
<1>1. SelectionIInv => EachTemplateOnce
  BY DEF SelectionIInv
<1> QED
  BY <1>1, SelectionInvariance, PTL

(* The order of the sources decides between equal revisions and is kept.   *)
THEOREM PreferenceIsRespected == SelectionSpec => []EarlierSourceWins
<1>1. SelectionIInv => EarlierSourceWins
  BY DEF SelectionIInv, KeptInv
<1> QED
  BY <1>1, SelectionInvariance, PTL

(* An os-version that is offered for the architecture is found, unless it  *)
(* is hidden behind an alias (selected_cli_item, builder.ml 80-102).       *)
THEOREM OfferedTemplatesAreFound == SelectionSpec => []OfferedIsFound
<1>1. SelectionIInv => OfferedIsFound
  <2> SUFFICES ASSUME SelectionIInv, phase = "not found",
                      \A p \in 1..Len(index) : arg \notin index[p].aliases,
                      NEW p \in 1..Len(index),
                      index[p].name = arg /\ Normal[index[p].arch] = arch
               PROVE  FALSE
    BY DEF OfferedIsFound
  <2>1. SelectionTypeOK /\ KeptInv /\ Wanted = {}
    BY DEF SelectionIInv, SelectedInv
  <2>2. KeptPositions \subseteq 1..Len(index)
    BY <2>1, KeptAreEntries
  <2>3. ResolvedArg = arg
    <3>1. ASSUME NEW j \in DOMAIN kept
          PROVE  kept[j] \in 1..Len(index)
      <4>1. DOMAIN kept = 1..Len(kept)
        BY <2>1, LenProperties DEF SelectionTypeOK
      <4> QED
        BY <2>2, <4>1 DEF KeptPositions
    <3>2. Aliased = {}
      BY <3>1 DEF Aliased, HasAlias
    <3> QED
      BY <3>2 DEF ResolvedArg
  <2>4. PICK q \in KeptPositions : IdOf(index[q]) = IdOf(index[p])
    BY DEF SelectionIInv, EachTemplateOnce, Filtered
  <2>5. index[q].name = arg /\ Normal[index[q].arch] = arch
    BY <2>4 DEF IdOf
  <2>6. PICK j \in DOMAIN kept : kept[j] = q
    BY <2>1, KeptEntries
  <2> QED
    BY <2>1, <2>3, <2>5, <2>6 DEF Wanted, Aliased, IsWanted
<1> QED
  BY <1>1, SelectionInvariance, PTL

(* What is selected is a template of the os-version that the argument      *)
(* stands for, made for the architecture that was asked for, and the first *)
(* such entry (selected_cli_item, builder.ml 80-102).                      *)
SelectedIsWanted ==
  phase = "selected" =>
    \E j \in DOMAIN kept :
      /\ item = kept[j]
      /\ index[item].name = ResolvedArg /\ Normal[index[item].arch] = arch
      /\ \A l \in DOMAIN kept : IsWanted(index[kept[l]]) => j <= l

THEOREM SelectedTemplateIsWanted == SelectionSpec => []SelectedIsWanted
<1>1. SelectionIInv => SelectedIsWanted
  <2> SUFFICES ASSUME SelectionIInv, phase = "selected"
               PROVE  SelectedIsWanted
    BY DEF SelectedIsWanted
  <2>1. PICK j \in DOMAIN kept : FirstWanted(j) /\ item = kept[j]
    BY DEF SelectionIInv, SelectedInv
  <2> QED
    BY <2>1 DEF SelectedIsWanted, FirstWanted, Wanted, IsWanted
<1> QED
  BY <1>1, SelectionInvariance, PTL

-----------------------------------------------------------------------------
(***************************************************************************)
(* TemplateCache, for any number of instances of virt-builder and of       *)
(* revisions, and whatever goes wrong in a history.                        *)
(***************************************************************************)

(* The inductive invariant, in named parts.                                *)

Place == {"start", "lookup", "head", "get", "transfer", "rename", "verify",
          "detached", "use", "exiting", "failing", "done", "failed", "killed"}

TypeOK ==
  /\ setup \in Setups
  /\ site_index \in Revision
  /\ site_file \in Revision
  /\ site_sig \in Revision
  /\ directory \in BOOLEAN
  /\ cache \in [Revision -> Contents \cup {Partial, Absent}]
  /\ temp \in [Instance -> Contents \cup {Partial, Absent}]
  /\ deleting \in BOOLEAN
  /\ pc \in [Instance -> Place]
  /\ mode \in [Instance -> {"install", "cache all"}]
  /\ use_cache \in [Instance -> BOOLEAN]
  /\ revision \in [Instance -> Revision]
  /\ unlinks \in [Instance -> SUBSET {"filename_new", "template"}]
  /\ private \in [Instance -> Contents \cup {Partial, Absent}]
  /\ sigfile \in [Instance -> Contents \cup {Absent}]
  /\ used \in [Instance -> Contents \cup {Partial, Absent}]
  /\ replaced \subseteq Instance

(* What an instance renames has been downloaded to its end.                *)
TransferredInv == \A p \in Instance : At(p, "rename") => temp[p] # Partial

(* What is being downloaded was handed to On_exit before, and no file of   *)
(* the cache ever is.                                                      *)
RegisteredInv ==
  \A p \in Instance :
    /\ pc[p] \in {"head", "get", "transfer", "rename"} => "filename_new" \in unlinks[p]
    /\ temp[p] # Absent => "filename_new" \in unlinks[p]
    /\ use_cache[p] => "template" \notin unlinks[p]

(* The guest is built in the last step, and a template with a checksum     *)
(* does not need a signature.                                              *)
UnusedInv ==
  \A p \in Instance :
    /\ pc[p] \in {"start", "lookup", "head", "get", "transfer", "rename", "verify",
                 "detached", "use"}
         => used[p] = Absent
    /\ At(p, "detached") => setup.entry # "checksum"

(* Between the verification and the use of a file it changes only when it  *)
(* is deleted, or when another instance replaces it.                       *)
VerifiedInv ==
  \A p \in Instance \ replaced :
    At(p, "use") => Template(p) = Absent \/ Promised(p, Template(p))

IInv == /\ TypeOK /\ TransferredInv /\ RegisteredInv /\ UnusedInv /\ VerifiedInv
        /\ NoPartialInCache /\ UsedWasVerified

-----------------------------------------------------------------------------
LEMMA NextRevision ==
  ASSUME NEW r \in Revision, r < MaxRevision
  PROVE  r + 1 \in Revision
  BY ConstantsAssumption DEF ConstantsAssumption, Revision

LEMMA InitTypeOK == Init => TypeOK
<1> SUFFICES ASSUME Init
             PROVE  TypeOK
  OBVIOUS
<1>1. 1 \in Revision
  BY ConstantsAssumption DEF ConstantsAssumption, Revision
<1> QED
  BY <1>1 DEF Init, TypeOK, Place

(* A lookup moves the instance on and hands something to On_exit.          *)
LEMMA LookupEffect ==
  ASSUME TypeOK, NEW p \in Instance, Lookup(p)
  PROVE  /\ \/ \E l \in {"verify", "exiting"} : pc' = [pc EXCEPT ![p] = l]
            \/ /\ pc' = [pc EXCEPT ![p] = "head"]
               /\ "filename_new" \in unlinks'[p]
         /\ unlinks' \in [Instance -> SUBSET {"filename_new", "template"}]
         /\ unlinks[p] \subseteq unlinks'[p]
         /\ \A q \in Instance \ {p} : unlinks'[q] = unlinks[q]
         /\ "template" \in unlinks'[p] => "template" \in unlinks[p] \/ ~use_cache[p]
<1> USE DEF TypeOK, Unlink
<1>1. ASSUME Return(p)
      PROVE  /\ \E l \in {"verify", "exiting"} : pc' = [pc EXCEPT ![p] = l]
             /\ Unlink(p, IF mode[p] = "install" /\ ~use_cache[p] THEN {"template"} ELSE {})
  BY <1>1 DEF Return, Goto, AfterDownload, DeleteOnExit
<1>2. CASE Return(p)
  <2>1. \E l \in {"verify", "exiting"} : pc' = [pc EXCEPT ![p] = l]
    BY <1>1, <1>2
  <2>2. PICK what \in SUBSET {"template"} :
          /\ unlinks' = [unlinks EXCEPT ![p] = @ \cup what]
          /\ "template" \in what => ~use_cache[p]
    <3>1. CASE mode[p] = "install" /\ ~use_cache[p]
      BY <1>1, <1>2, <3>1
    <3>2. CASE ~(mode[p] = "install" /\ ~use_cache[p])
      <4>1. unlinks' = [unlinks EXCEPT ![p] = @ \cup {}]
        BY <1>1, <1>2, <3>2
      <4>2. {} \in SUBSET {"template"} /\ "template" \notin {}
        OBVIOUS
      <4> HIDE DEF TypeOK
      <4> QED
        BY <4>1, <4>2
    <3> QED
      BY <3>1, <3>2
  <2>3. /\ unlinks' \in [Instance -> SUBSET {"filename_new", "template"}]
        /\ unlinks'[p] = unlinks[p] \cup what
        /\ \A q \in Instance \ {p} : unlinks'[q] = unlinks[q]
    BY <2>2
  <2> QED
    BY <2>1, <2>2, <2>3
<1>3. CASE Goto(p, "head") /\ Unlink(p, {"filename_new"})
  BY <1>3 DEF Goto
<1> QED
  BY <1>2, <1>3 DEF Lookup

LEMMA TypeStep == TypeOK /\ [Next]_vars => TypeOK'
<1> SUFFICES ASSUME TypeOK, [Next]_vars
             PROVE  TypeOK'
  OBVIOUS
<1> USE DEF TypeOK, Place, Goto, At, site, dir_vars, choices, own
<1>1. CASE PublishFile
  <2>1. site_file' \in Revision
    BY <1>1, NextRevision DEF PublishFile
  <2> QED
    BY <1>1, <2>1 DEF PublishFile
<1>2. CASE PublishIndex
  <2>1. site_index' \in Revision
    BY <1>2, NextRevision DEF PublishIndex
  <2> QED
    BY <1>2, <2>1 DEF PublishIndex
<1>3. ASSUME NEW p \in Instance, Start(p)
      PROVE  TypeOK'
  BY <1>3 DEF Start
<1>4. ASSUME NEW p \in Instance, Lookup(p)
      PROVE  TypeOK'
  <2>1. UNCHANGED <<setup, site_index, site_file, site_sig, directory, cache, temp, deleting,
                    mode, use_cache, revision, private, sigfile, used, replaced>>
    BY <1>4 DEF Lookup
  <2>2. \E l \in Place : pc' = [pc EXCEPT ![p] = l]
    BY <1>4, LookupEffect
  <2>3. pc' \in [Instance -> Place]
    BY <2>2
  <2>4. unlinks' \in [Instance -> SUBSET {"filename_new", "template"}]
    BY <1>4, LookupEffect
  <2> QED
    BY <2>1, <2>3, <2>4
<1>5. ASSUME NEW p \in Instance, HeadRequest(p)
      PROVE  TypeOK'
  BY <1>5 DEF HeadRequest
<1>6. ASSUME NEW p \in Instance, Get(p)
      PROVE  TypeOK'
  BY <1>6 DEF Get
<1>7. ASSUME NEW p \in Instance, Transfer(p)
      PROVE  TypeOK'
  <2>1. PICK body \in Contents :
          temp' = [temp EXCEPT ![p] = IF @ = Absent THEN Absent ELSE body]
    BY <1>7 DEF Transfer, Served, Contents
  <2> QED
    BY <1>7, <2>1 DEF Transfer
<1>8. ASSUME NEW p \in Instance, Rename(p)
      PROVE  TypeOK'
  BY <1>8 DEF Rename, Return, AfterDownload, Unlink
<1>9. ASSUME NEW p \in Instance, Verify(p)
      PROVE  TypeOK'
  BY <1>9 DEF Verify
<1>10. ASSUME NEW p \in Instance, Use(p)
       PROVE  TypeOK'
  BY <1>10 DEF Use, Template
<1>11. ASSUME NEW p \in Instance, Fail(p)
       PROVE  TypeOK'
  BY <1>11 DEF Fail
<1>12. ASSUME NEW p \in Instance, Exit(p)
       PROVE  TypeOK'
  BY <1>12 DEF Exit
<1>13. ASSUME NEW p \in Instance, Kill(p)
       PROVE  TypeOK'
  BY <1>13 DEF Kill
<1>14. CASE DeleteBegin
  BY <1>14 DEF DeleteBegin
<1>15. CASE DeleteFile
  BY <1>15 DEF DeleteFile
<1>16. CASE DeleteEnd
  BY <1>16 DEF DeleteEnd, EmptyDirectory
<1>17. CASE UNCHANGED vars
  BY <1>17 DEF vars
<1>18. CASE PublishSignature
  <2>1. site_sig' \in Revision
    BY <1>18, NextRevision DEF PublishSignature
  <2> QED
    BY <1>18, <2>1 DEF PublishSignature
<1>19. ASSUME NEW p \in Instance, GetSignature(p)
       PROVE  TypeOK'
  <2>1. sigfile' \in [Instance -> Contents \cup {Absent}]
    <3>1. Served(site_sig) \subseteq Contents
      BY DEF Served, Contents
    <3>2. CASE sigfile' = sigfile
      BY <3>2
    <3>3. ASSUME NEW body \in Served(site_sig), sigfile' = [sigfile EXCEPT ![p] = body]
          PROVE  sigfile' \in [Instance -> Contents \cup {Absent}]
      BY <3>1, <3>3
    <3> QED
      BY <1>19, <3>2, <3>3 DEF GetSignature
  <2> QED
    BY <1>19, <2>1 DEF GetSignature
<1>20. ASSUME NEW p \in Instance, VerifyDetached(p)
       PROVE  TypeOK'
  BY <1>20 DEF VerifyDetached
<1> QED
  BY <1>1, <1>2, <1>3, <1>4, <1>5, <1>6, <1>7, <1>8, <1>9, <1>10, <1>11, <1>12,
     <1>13, <1>14, <1>15, <1>16, <1>17, <1>18, <1>19, <1>20 DEF Next, Build

LEMMA PartialIsOther == Partial # Absent /\ Partial \notin Contents
<1>1. Partial \notin Revision
  BY ConstantsAssumption DEF ConstantsAssumption, Revision
<1> QED
  BY <1>1, ConstantsAssumption DEF ConstantsAssumption, Contents

(* A download reaches its final name only when it is complete.             *)
LEMMA NoPartialStep ==
  TypeOK /\ TransferredInv /\ NoPartialInCache /\ [Next]_vars
    => (TransferredInv /\ NoPartialInCache)'
<1> SUFFICES ASSUME TypeOK, TransferredInv, NoPartialInCache, [Next]_vars
             PROVE  (TransferredInv /\ NoPartialInCache)'
  OBVIOUS
<1> USE DEF TypeOK, Place, Goto, At, site, dir_vars, choices, own,
            TransferredInv, NoPartialInCache
<1>1. CASE PublishFile
  BY <1>1 DEF PublishFile
<1>2. CASE PublishIndex
  BY <1>2 DEF PublishIndex
<1>3. ASSUME NEW p \in Instance, Start(p)
      PROVE  (TransferredInv /\ NoPartialInCache)'
  BY <1>3 DEF Start
<1>4. ASSUME NEW p \in Instance, Lookup(p)
      PROVE  (TransferredInv /\ NoPartialInCache)'
  BY <1>4 DEF Lookup, Return, AfterDownload, Unlink
<1>5. ASSUME NEW p \in Instance, HeadRequest(p)
      PROVE  (TransferredInv /\ NoPartialInCache)'
  BY <1>5 DEF HeadRequest
<1>6. ASSUME NEW p \in Instance, Get(p)
      PROVE  (TransferredInv /\ NoPartialInCache)'
  BY <1>6 DEF Get
<1>7. ASSUME NEW p \in Instance, Transfer(p)
      PROVE  (TransferredInv /\ NoPartialInCache)'
  <2>1. PICK body \in Contents :
          temp' = [temp EXCEPT ![p] = IF @ = Absent THEN Absent ELSE body]
    BY <1>7 DEF Transfer, Served, Contents
  <2> QED
    BY <1>7, <2>1, PartialIsOther DEF Transfer
<1>8. ASSUME NEW p \in Instance, Rename(p)
      PROVE  (TransferredInv /\ NoPartialInCache)'
  BY <1>8 DEF Rename, Return, AfterDownload, Unlink
<1>9. ASSUME NEW p \in Instance, Verify(p)
      PROVE  (TransferredInv /\ NoPartialInCache)'
  BY <1>9 DEF Verify
<1>10. ASSUME NEW p \in Instance, Use(p)
       PROVE  (TransferredInv /\ NoPartialInCache)'
  BY <1>10 DEF Use
<1>11. ASSUME NEW p \in Instance, Fail(p)
       PROVE  (TransferredInv /\ NoPartialInCache)'
  BY <1>11 DEF Fail
<1>12. ASSUME NEW p \in Instance, Exit(p)
       PROVE  (TransferredInv /\ NoPartialInCache)'
  <2>1. TransferredInv'
    BY <1>12 DEF Exit
  <2>2. cache' = cache \/ cache' = [cache EXCEPT ![revision[p]] = Absent]
    BY <1>12 DEF Exit
  <2>3. NoPartialInCache'
    BY <2>2, PartialIsOther
  <2> QED
    BY <2>1, <2>3
<1>13. ASSUME NEW p \in Instance, Kill(p)
       PROVE  (TransferredInv /\ NoPartialInCache)'
  BY <1>13 DEF Kill
<1>14. CASE DeleteBegin
  BY <1>14 DEF DeleteBegin
<1>15. CASE DeleteFile
  <2>1. ASSUME NEW r \in Revision, cache' = [cache EXCEPT ![r] = Absent], temp' = temp
        PROVE  (TransferredInv /\ NoPartialInCache)'
    BY <1>15, <2>1, PartialIsOther DEF DeleteFile
  <2>2. ASSUME NEW p \in Instance, temp' = [temp EXCEPT ![p] = Absent], cache' = cache
        PROVE  (TransferredInv /\ NoPartialInCache)'
    BY <1>15, <2>2, PartialIsOther DEF DeleteFile
  <2> QED
    BY <1>15, <2>1, <2>2 DEF DeleteFile
<1>16. CASE DeleteEnd
  BY <1>16 DEF DeleteEnd
<1>17. CASE UNCHANGED vars
  BY <1>17 DEF vars
<1>18. CASE PublishSignature
  BY <1>18 DEF PublishSignature
<1>19. ASSUME NEW p \in Instance, GetSignature(p)
       PROVE  (TransferredInv /\ NoPartialInCache)'
  BY <1>19 DEF GetSignature
<1>20. ASSUME NEW p \in Instance, VerifyDetached(p)
       PROVE  (TransferredInv /\ NoPartialInCache)'
  BY <1>20 DEF VerifyDetached
<1> QED
  BY <1>1, <1>2, <1>3, <1>4, <1>5, <1>6, <1>7, <1>8, <1>9, <1>10, <1>11, <1>12,
     <1>13, <1>14, <1>15, <1>16, <1>17, <1>18, <1>19, <1>20 DEF Next, Build

(* The name is handed to On_exit before anything is written to it.         *)
LEMMA RegisteredStep ==
  TypeOK /\ RegisteredInv /\ [Next]_vars => RegisteredInv'
<1> SUFFICES ASSUME TypeOK, RegisteredInv, [Next]_vars
             PROVE  RegisteredInv'
  OBVIOUS
<1> USE DEF TypeOK, Place, Goto, At, site, dir_vars, choices, own, RegisteredInv
<1>1. CASE PublishFile
  BY <1>1 DEF PublishFile
<1>2. CASE PublishIndex
  BY <1>2 DEF PublishIndex
<1>3. ASSUME NEW p \in Instance, Start(p)
      PROVE  RegisteredInv'
  BY <1>3 DEF Start
<1>4. ASSUME NEW p \in Instance, Lookup(p)
      PROVE  RegisteredInv'
  <2>1. UNCHANGED <<setup, site_index, site_file, site_sig, directory, cache, temp, deleting,
                    mode, use_cache, revision, private, sigfile, used, replaced>>
    BY <1>4 DEF Lookup
  <2> QED
    BY <1>4, <2>1, LookupEffect
<1>5. ASSUME NEW p \in Instance, HeadRequest(p)
      PROVE  RegisteredInv'
  BY <1>5 DEF HeadRequest
<1>6. ASSUME NEW p \in Instance, Get(p)
      PROVE  RegisteredInv'
  BY <1>6 DEF Get
<1>7. ASSUME NEW p \in Instance, Transfer(p)
      PROVE  RegisteredInv'
  BY <1>7 DEF Transfer
<1>8. ASSUME NEW p \in Instance, Rename(p)
      PROVE  RegisteredInv'
  BY <1>8 DEF Rename, Return, AfterDownload, Unlink, DeleteOnExit
<1>9. ASSUME NEW p \in Instance, Verify(p)
      PROVE  RegisteredInv'
  BY <1>9 DEF Verify
<1>10. ASSUME NEW p \in Instance, Use(p)
       PROVE  RegisteredInv'
  BY <1>10 DEF Use
<1>11. ASSUME NEW p \in Instance, Fail(p)
       PROVE  RegisteredInv'
  BY <1>11 DEF Fail
<1>12. ASSUME NEW p \in Instance, Exit(p)
       PROVE  RegisteredInv'
  BY <1>12 DEF Exit
<1>13. ASSUME NEW p \in Instance, Kill(p)
       PROVE  RegisteredInv'
  BY <1>13 DEF Kill
<1>14. CASE DeleteBegin
  BY <1>14 DEF DeleteBegin
<1>15. CASE DeleteFile
  BY <1>15 DEF DeleteFile
<1>16. CASE DeleteEnd
  BY <1>16 DEF DeleteEnd
<1>17. CASE UNCHANGED vars
  BY <1>17 DEF vars
<1>18. CASE PublishSignature
  BY <1>18 DEF PublishSignature
<1>19. ASSUME NEW p \in Instance, GetSignature(p)
       PROVE  RegisteredInv'
  BY <1>19 DEF GetSignature
<1>20. ASSUME NEW p \in Instance, VerifyDetached(p)
       PROVE  RegisteredInv'
  BY <1>20 DEF VerifyDetached
<1> QED
  BY <1>1, <1>2, <1>3, <1>4, <1>5, <1>6, <1>7, <1>8, <1>9, <1>10, <1>11, <1>12,
     <1>13, <1>14, <1>15, <1>16, <1>17, <1>18, <1>19, <1>20 DEF Next, Build

LEMMA UnusedStep == TypeOK /\ UnusedInv /\ [Next]_vars => UnusedInv'
<1> SUFFICES ASSUME TypeOK, UnusedInv, [Next]_vars
             PROVE  UnusedInv'
  OBVIOUS
<1> USE DEF TypeOK, Place, Goto, At, site, dir_vars, choices, own, UnusedInv
<1>1. CASE PublishFile
  BY <1>1 DEF PublishFile
<1>2. CASE PublishIndex
  BY <1>2 DEF PublishIndex
<1>3. ASSUME NEW p \in Instance, Start(p)
      PROVE  UnusedInv'
  BY <1>3 DEF Start
<1>4. ASSUME NEW p \in Instance, Lookup(p)
      PROVE  UnusedInv'
  BY <1>4 DEF Lookup, Return, AfterDownload, Unlink
<1>5. ASSUME NEW p \in Instance, HeadRequest(p)
      PROVE  UnusedInv'
  BY <1>5 DEF HeadRequest
<1>6. ASSUME NEW p \in Instance, Get(p)
      PROVE  UnusedInv'
  BY <1>6 DEF Get
<1>7. ASSUME NEW p \in Instance, Transfer(p)
      PROVE  UnusedInv'
  BY <1>7 DEF Transfer
<1>8. ASSUME NEW p \in Instance, Rename(p)
      PROVE  UnusedInv'
  BY <1>8 DEF Rename, Return, AfterDownload, Unlink
<1>9. ASSUME NEW p \in Instance, Verify(p)
      PROVE  UnusedInv'
  BY <1>9 DEF Verify
<1>10. ASSUME NEW p \in Instance, Use(p)
       PROVE  UnusedInv'
  BY <1>10 DEF Use
<1>11. ASSUME NEW p \in Instance, Fail(p)
       PROVE  UnusedInv'
  BY <1>11 DEF Fail
<1>12. ASSUME NEW p \in Instance, Exit(p)
       PROVE  UnusedInv'
  BY <1>12 DEF Exit
<1>13. ASSUME NEW p \in Instance, Kill(p)
       PROVE  UnusedInv'
  BY <1>13 DEF Kill
<1>14. CASE DeleteBegin
  BY <1>14 DEF DeleteBegin
<1>15. CASE DeleteFile
  BY <1>15 DEF DeleteFile
<1>16. CASE DeleteEnd
  BY <1>16 DEF DeleteEnd
<1>17. CASE UNCHANGED vars
  BY <1>17 DEF vars
<1>18. CASE PublishSignature
  BY <1>18 DEF PublishSignature
<1>19. ASSUME NEW p \in Instance, GetSignature(p)
       PROVE  UnusedInv'
  BY <1>19 DEF GetSignature
<1>20. ASSUME NEW p \in Instance, VerifyDetached(p)
       PROVE  UnusedInv'
  BY <1>20 DEF VerifyDetached
<1> QED
  BY <1>1, <1>2, <1>3, <1>4, <1>5, <1>6, <1>7, <1>8, <1>9, <1>10, <1>11, <1>12,
     <1>13, <1>14, <1>15, <1>16, <1>17, <1>18, <1>19, <1>20 DEF Next, Build

(* Who renames a file over one that was verified puts its owner into       *)
(* replaced.                                                               *)
LEMMA VerifiedStep == TypeOK /\ UnusedInv /\ VerifiedInv /\ [Next]_vars => VerifiedInv'
<1> SUFFICES ASSUME TypeOK, UnusedInv, VerifiedInv, [Next]_vars
             PROVE  VerifiedInv'
  OBVIOUS
<1> USE DEF TypeOK, Place, Goto, At, site, dir_vars, choices, own, VerifiedInv, Template, Promised, Checks
<1>1. CASE PublishFile
  BY <1>1 DEF PublishFile
<1>2. CASE PublishIndex
  BY <1>2 DEF PublishIndex
<1>3. ASSUME NEW p \in Instance, Start(p)
      PROVE  VerifiedInv'
  BY <1>3 DEF Start
<1>4. ASSUME NEW p \in Instance, Lookup(p)
      PROVE  VerifiedInv'
  <2>1. UNCHANGED <<setup, cache, use_cache, revision, private, sigfile, replaced>>
    BY <1>4 DEF Lookup
  <2>2. \A q \in Instance : pc'[q] = "use" => pc[q] = "use"
    BY <1>4, LookupEffect
  <2> QED
    BY <2>1, <2>2
<1>5. ASSUME NEW p \in Instance, HeadRequest(p)
      PROVE  VerifiedInv'
  BY <1>5 DEF HeadRequest
<1>6. ASSUME NEW p \in Instance, Get(p)
      PROVE  VerifiedInv'
  BY <1>6 DEF Get
<1>7. ASSUME NEW p \in Instance, Transfer(p)
      PROVE  VerifiedInv'
  BY <1>7 DEF Transfer
<1>8. ASSUME NEW p \in Instance, Rename(p)
      PROVE  VerifiedInv'
  <2> SUFFICES ASSUME NEW q \in Instance \ replaced', At(q, "use")'
               PROVE  (Template(q) = Absent \/ Promised(q, Template(q)))'
    OBVIOUS
  <2>1. q # p /\ At(q, "use") /\ q \notin replaced
    BY <1>8 DEF Rename, Return, AfterDownload, Unlink
  <2>2. use_cache[p] /\ use_cache[q] => revision[q] # revision[p]
    BY <1>8, <2>1 DEF Rename
  <2>3. revision[q] \in Revision /\ revision[p] \in Revision
    OBVIOUS
  <2>4. CASE use_cache[p]
    BY <1>8, <2>1, <2>2, <2>3, <2>4 DEF Rename
  <2>5. CASE ~use_cache[p]
    BY <1>8, <2>1, <2>5 DEF Rename
  <2> QED
    BY <2>4, <2>5
<1>9. ASSUME NEW p \in Instance, Verify(p)
      PROVE  VerifiedInv'
  BY <1>9 DEF Verify, ChecksumIsGood
<1>10. ASSUME NEW p \in Instance, Use(p)
       PROVE  VerifiedInv'
  BY <1>10 DEF Use
<1>11. ASSUME NEW p \in Instance, Fail(p)
       PROVE  VerifiedInv'
  BY <1>11 DEF Fail
<1>12. ASSUME NEW p \in Instance, Exit(p)
       PROVE  VerifiedInv'
  BY <1>12 DEF Exit
<1>13. ASSUME NEW p \in Instance, Kill(p)
       PROVE  VerifiedInv'
  BY <1>13 DEF Kill
<1>14. CASE DeleteBegin
  BY <1>14 DEF DeleteBegin
<1>15. CASE DeleteFile
  <2> SUFFICES ASSUME NEW q \in Instance \ replaced', At(q, "use")'
               PROVE  (Template(q) = Absent \/ Promised(q, Template(q)))'
    OBVIOUS
  <2>1. Template(q) = Absent \/ Promised(q, Template(q))
    BY <1>15 DEF DeleteFile
  <2>2. revision[q] \in Revision /\ revision' = revision
    BY <1>15 DEF DeleteFile
  <2>3. ASSUME NEW r \in Revision, cache' = [cache EXCEPT ![r] = Absent]
        PROVE  (Template(q) = Absent \/ Promised(q, Template(q)))'
    BY <1>15, <2>1, <2>2, <2>3 DEF DeleteFile
  <2>4. ASSUME cache' = cache
        PROVE  (Template(q) = Absent \/ Promised(q, Template(q)))'
    BY <1>15, <2>1, <2>2, <2>4 DEF DeleteFile
  <2> QED
    BY <1>15, <2>3, <2>4 DEF DeleteFile
<1>16. CASE DeleteEnd
  BY <1>16 DEF DeleteEnd
<1>17. CASE UNCHANGED vars
  BY <1>17 DEF vars
<1>18. CASE PublishSignature
  BY <1>18 DEF PublishSignature
<1>19. ASSUME NEW p \in Instance, GetSignature(p)
       PROVE  VerifiedInv'
  BY <1>19 DEF GetSignature
<1>20. ASSUME NEW p \in Instance, VerifyDetached(p)
       PROVE  VerifiedInv'
  <2>1. UNCHANGED <<setup, cache, use_cache, revision, private, sigfile, replaced>>
    BY <1>20 DEF VerifyDetached
  <2>2. setup.entry # "checksum"
    BY <1>20 DEF VerifyDetached, UnusedInv
  <2>3. Promised(p, Template(p))
    BY <1>20, <2>2 DEF VerifyDetached, SignatureIsGood
  <2>4. \A q \in Instance \ {p} : pc'[q] = pc[q]
    BY <1>20 DEF VerifyDetached
  <2> QED
    BY <2>1, <2>3, <2>4
<1> QED
  BY <1>1, <1>2, <1>3, <1>4, <1>5, <1>6, <1>7, <1>8, <1>9, <1>10, <1>11, <1>12,
     <1>13, <1>14, <1>15, <1>16, <1>17, <1>18, <1>19, <1>20 DEF Next, Build

LEMMA UsedStep ==
  TypeOK /\ UnusedInv /\ VerifiedInv /\ UsedWasVerified /\ [Next]_vars
    => UsedWasVerified'
<1> SUFFICES ASSUME TypeOK, UnusedInv, VerifiedInv, UsedWasVerified, [Next]_vars
             PROVE  UsedWasVerified'
  OBVIOUS
<1> USE DEF TypeOK, Place, Goto, At, site, dir_vars, choices, own,
            UnusedInv, VerifiedInv, UsedWasVerified, Template, Promised, Checks
<1>1. CASE PublishFile
  BY <1>1 DEF PublishFile
<1>2. CASE PublishIndex
  BY <1>2 DEF PublishIndex
<1>3. ASSUME NEW p \in Instance, Start(p)
      PROVE  UsedWasVerified'
  BY <1>3 DEF Start
<1>4. ASSUME NEW p \in Instance, Lookup(p)
      PROVE  UsedWasVerified'
  BY <1>4 DEF Lookup, Return, AfterDownload, Unlink
<1>5. ASSUME NEW p \in Instance, HeadRequest(p)
      PROVE  UsedWasVerified'
  BY <1>5 DEF HeadRequest
<1>6. ASSUME NEW p \in Instance, Get(p)
      PROVE  UsedWasVerified'
  BY <1>6 DEF Get
<1>7. ASSUME NEW p \in Instance, Transfer(p)
      PROVE  UsedWasVerified'
  BY <1>7 DEF Transfer
<1>8. ASSUME NEW p \in Instance, Rename(p)
      PROVE  UsedWasVerified'
  BY <1>8 DEF Rename, Return, AfterDownload, Unlink
<1>9. ASSUME NEW p \in Instance, Verify(p)
      PROVE  UsedWasVerified'
  BY <1>9 DEF Verify
<1>10. ASSUME NEW p \in Instance, Use(p)
       PROVE  UsedWasVerified'
  BY <1>10 DEF Use
<1>11. ASSUME NEW p \in Instance, Fail(p)
       PROVE  UsedWasVerified'
  BY <1>11 DEF Fail
<1>12. ASSUME NEW p \in Instance, Exit(p)
       PROVE  UsedWasVerified'
  BY <1>12 DEF Exit
<1>13. ASSUME NEW p \in Instance, Kill(p)
       PROVE  UsedWasVerified'
  BY <1>13 DEF Kill
<1>14. CASE DeleteBegin
  BY <1>14 DEF DeleteBegin
<1>15. CASE DeleteFile
  BY <1>15 DEF DeleteFile
<1>16. CASE DeleteEnd
  BY <1>16 DEF DeleteEnd
<1>17. CASE UNCHANGED vars
  BY <1>17 DEF vars
<1>18. CASE PublishSignature
  BY <1>18 DEF PublishSignature
<1>19. ASSUME NEW p \in Instance, GetSignature(p)
       PROVE  UsedWasVerified'
  BY <1>19 DEF GetSignature
<1>20. ASSUME NEW p \in Instance, VerifyDetached(p)
       PROVE  UsedWasVerified'
  BY <1>20 DEF VerifyDetached
<1> QED
  BY <1>1, <1>2, <1>3, <1>4, <1>5, <1>6, <1>7, <1>8, <1>9, <1>10, <1>11, <1>12,
     <1>13, <1>14, <1>15, <1>16, <1>17, <1>18, <1>19, <1>20 DEF Next, Build

-----------------------------------------------------------------------------
(* Theorems.                                                               *)

(* The inductive invariant holds for any number of instances and whatever  *)
(* goes wrong.                                                             *)
THEOREM Invariance == Spec => []IInv
<1>1. Init => IInv
  <2> SUFFICES ASSUME Init
               PROVE  IInv
    OBVIOUS
  <2>1. TransferredInv /\ RegisteredInv /\ UnusedInv /\ VerifiedInv /\ UsedWasVerified
    BY DEF Init, TransferredInv, RegisteredInv, UnusedInv, VerifiedInv, UsedWasVerified, At
  <2>2. NoPartialInCache
    BY PartialIsOther DEF Init, NoPartialInCache
  <2> QED
    BY <2>1, <2>2, InitTypeOK DEF IInv
<1>2. IInv /\ [Next]_vars => IInv'
  BY TypeStep, NoPartialStep, RegisteredStep, UnusedStep, VerifiedStep, UsedStep
     DEF IInv
<1> QED
  BY <1>1, <1>2, PTL DEF Spec

(* Every variable stays in its type.                                       *)
THEOREM TypeCorrect == Spec => []TypeOK
<1>1. IInv => TypeOK
  BY DEF IInv
<1> QED
  BY <1>1, Invariance, PTL

(* Whatever is killed, fails or is deleted, and however many instances     *)
(* download the same template, no partial download is in the cache         *)
(* (downloader.ml, "To avoid partial downloads in the cache").             *)
THEOREM CacheIsNeverPartial == Spec => []NoPartialInCache
<1>1. IInv => NoPartialInCache
  BY DEF IInv
<1> QED
  BY <1>1, Invariance, PTL

(* An instance that ends by itself has removed what it began to download,  *)
(* and nothing from the cache it shares with the others.                   *)
THEOREM InstancesEndCleanly == Spec => EndsCleanly
<1>1. IInv /\ [Next]_vars =>
        [\A p \in Instance :
           pc'[p] # pc[p] /\ pc'[p] \in {"done", "failed"} =>
             temp'[p] = Absent /\ private'[p] = Absent /\ cache' = cache]_vars
  <2> SUFFICES ASSUME IInv, Next, NEW p \in Instance,
                      pc'[p] # pc[p], pc'[p] \in {"done", "failed"}
               PROVE  temp'[p] = Absent /\ private'[p] = Absent /\ cache' = cache
    OBVIOUS
  <2>1. Exit(p)
    <3>1. pc \in [Instance -> Place]
      BY DEF IInv, TypeOK
    <3>2. ASSUME NEW q \in Instance, Build(q) \/ Kill(q), ~Exit(q)
          PROVE  FALSE
      <4>1. PICK l : pc' = [pc EXCEPT ![q] = l] /\ l \notin {"done", "failed"}
        BY <3>2 DEF Build, Start, Lookup, HeadRequest, Get, Transfer, Rename, Return,
                    AfterDownload, Verify, GetSignature, VerifyDetached, Use, Fail, Kill, Goto
      <4> QED
        BY <3>1, <4>1
    <3>3. PICK q \in Instance : Exit(q)
      BY <3>2 DEF Next, PublishFile, PublishSignature, PublishIndex, DeleteBegin,
                  DeleteFile, DeleteEnd
    <3> QED
      BY <3>1, <3>3 DEF Exit, Goto
  <2>2. temp[p] # Absent => "filename_new" \in unlinks[p]
    BY DEF IInv, RegisteredInv
  <2>3. use_cache[p] => "template" \notin unlinks[p]
    BY DEF IInv, RegisteredInv
  <2> QED
    BY <2>1, <2>2, <2>3 DEF Exit, IInv, TypeOK
<1> QED
  BY <1>1, Invariance, PTL DEF Spec, EndsCleanly

(* A guest is built from the template that has the checksum of the index   *)
(* entry or, without one, the signature, if that is checked; unless        *)
(* another instance replaced the file after it was verified.               *)
THEOREM GuestsAreVerified == Spec => []UsedWasVerified
<1>1. IInv => UsedWasVerified
  BY DEF IInv
<1> QED
  BY <1>1, Invariance, PTL

(* A template appears in the cache at once and only by the rename of a     *)
(* download that is complete (downloader.ml 136-143); it disappears only   *)
(* while --delete-cache runs.                                              *)
CacheChange(r) ==
  \/ deleting /\ cache'[r] = Absent
  \/ \E p \in Instance : /\ At(p, "rename") /\ use_cache[p] /\ revision[p] = r
                         /\ temp[p] \in Contents /\ cache'[r] = temp[p]

THEOREM TemplatesAppearAtOnce ==
  Spec => [][\A r \in Revision : cache'[r] # cache[r] => CacheChange(r)]_vars
<1>1. IInv /\ [Next]_vars =>
        [\A r \in Revision : cache'[r] # cache[r] => CacheChange(r)]_vars
  <2> SUFFICES ASSUME IInv, Next, NEW r \in Revision, cache'[r] # cache[r]
               PROVE  CacheChange(r)
    OBVIOUS
  <2>0. DOMAIN cache = Revision
    BY DEF IInv, TypeOK
  <2>1. CASE DeleteFile
    BY <2>0, <2>1 DEF DeleteFile, CacheChange
  <2>2. ASSUME NEW p \in Instance, Rename(p) PROVE CacheChange(r)
    <3>1. temp[p] \in Contents
      BY <2>2 DEF Rename, IInv, TypeOK, TransferredInv
    <3>2. use_cache[p] /\ revision[p] = r /\ cache'[r] = temp[p]
      BY <2>0, <2>2 DEF Rename
    <3> QED
      BY <2>2, <3>1, <3>2 DEF Rename, CacheChange
  <2>3. CASE ~DeleteFile /\ \A p \in Instance : ~Rename(p)
    BY <2>3 DEF Next, Build, PublishFile, PublishSignature, PublishIndex, Start, Lookup,
                HeadRequest, Get, Transfer, Verify, GetSignature, VerifyDetached, Use, Fail,
                Exit, IInv, RegisteredInv, Kill, DeleteBegin, DeleteEnd, dir_vars
  <2> QED
    BY <2>1, <2>2, <2>3
<1> QED
  BY <1>1, Invariance, PTL DEF Spec
=============================================================================
