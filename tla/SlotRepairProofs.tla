-------------------------- MODULE SlotRepairProofs --------------------------
(***************************************************************************)
(* Theorems about SlotRepair, for every layout, every hash function and    *)
(* any number of foreign writes: undo restores byte for byte or refuses,   *)
(* and one pass repairs whatever is well formed.                           *)
(***************************************************************************)
EXTENDS SlotRepair, TLAPS

USE CellsAssumption, LayoutsAssumption, TampersAssumption

Ind == Types /\ Whole /\ TrailOfChanges /\ TrailKeeps /\ NothingUnderCMS /\ HalfUndone

-----------------------------------------------------------------------------
(* Lemmas about bytes.                                                     *)

(* Patching keeps an array of cells one.                                   *)
LEMMA PatchType ==
    ASSUME NEW T, NEW d \in [Cells -> T], NEW S \in SUBSET Cells, NEW f \in [S -> T]
    PROVE  Patch(d, f) \in [Cells -> T]
BY DEF Patch

(* A layout's slots are slots.                                             *)
LEMMA SlotOfLayout ==
    ASSUME Types, NEW i \in 1..Len(slots)
    PROVE  /\ slots \in Seq(SlotType)
           /\ slots[i].cells \in SUBSET Cells
           /\ slots[i].page \in SUBSET Cells
<1>1. layout \in LayoutType
  BY DEF Types
<1>2. slots \in Seq(SlotType)
  BY <1>1 DEF slots, LayoutType
<1>3. slots[i] \in SlotType
  BY <1>2
<1> QED
  BY <1>2, <1>3 DEF SlotType

(* The hash of a page is as long as its slot.                              *)
LEMMA SumType ==
    ASSUME Types, NEW i \in 1..Len(slots), NEW d \in Bytes
    PROVE  Sum(slots[i], d) \in [slots[i].cells -> Values]
BY SumAssumption DEF Types, slots

-----------------------------------------------------------------------------
(* Types.                                                                  *)

(* The slot in hand, its hash and what the cells hold are of their types.  *)
LEMMA FixSlotType ==
    ASSUME Types, Whole, pc = "fix", k <= LastSlot
    PROVE  /\ k \in 1..Len(slots)
           /\ slots[k].cells \in SUBSET Cells
           /\ Sum(slots[k], buf) \in [slots[k].cells -> Values]
           /\ Held(buf, slots[k].cells) \in [slots[k].cells -> Values]
           /\ Patch(buf, Sum(slots[k], buf)) \in [Cells -> Values]
<1>1. slots \in Seq(SlotType)
  BY DEF Types, slots, LayoutType
<1>2. k \in 1..Len(slots)
  BY <1>1 DEF Types, Whole, LastSlot
<1>3. slots[k].cells \in SUBSET Cells
  BY <1>2, SlotOfLayout
<1>4. Sum(slots[k], buf) \in [slots[k].cells -> Values]
  BY <1>2, SumType DEF Types
<1>5. buf \in [Cells -> Values]
  BY DEF Whole
<1>6. Held(buf, slots[k].cells) \in [slots[k].cells -> Values]
  BY <1>3, <1>5 DEF Held
<1>7. Patch(buf, Sum(slots[k], buf)) \in [Cells -> Values]
  BY <1>3, <1>4, <1>5, PatchType
<1> QED
  BY <1>2, <1>3, <1>4, <1>6, <1>7

(* The change a repair journals is one.                                    *)
LEMMA ChangeIsChange ==
    ASSUME NEW S \in SUBSET Cells, NEW f \in [S -> Values], NEW g \in [S -> Values]
    PROVE  [old |-> f, new |-> g] \in ChangeType
BY DEF ChangeType

(* A change covers cells.                                                  *)
LEMMA OverCells ==
    ASSUME Types, NEW i \in 1..Len(changes)
    PROVE  /\ Over(i) \in SUBSET Cells
           /\ changes[i].old \in [Over(i) -> Values]
           /\ changes[i].new \in [DOMAIN changes[i].new -> Values]
<1>1. changes[i] \in ChangeType
  BY DEF Types
<1> QED
  BY <1>1 DEF ChangeType, Over

(* Every step keeps the types, and the file whole until the repair is over. *)
LEMMA TypesInductive ==
    Types /\ Whole /\ [Next]_vars => Types' /\ Whole'
<1> SUFFICES ASSUME Types, Whole, [Next]_vars
             PROVE  Types' /\ Whole'
  OBVIOUS
<1>1. CASE Read
  BY <1>1 DEF Read, Types, Whole, Bytes, Labels, inputVars
<1>2. CASE RefuseCMS
  BY <1>2 DEF RefuseCMS, Types, Whole, Labels, inputVars
<1>3. CASE FixSlot
  <2>1. /\ pc = "fix" /\ k <= LastSlot /\ k' = k + 1
        /\ UNCHANGED <<inputVars, file, base, pc, tampers>>
    BY <1>3 DEF FixSlot
  <2>2. CASE UNCHANGED <<buf, trail, changes>>
    BY <2>1, <2>2 DEF Types, Whole, inputVars
  <2>3. CASE /\ buf' = Patch(buf, Sum(slots[k], buf))
             /\ trail' = Append(trail, Patch(buf, Sum(slots[k], buf)))
             /\ changes' = Append(changes, [old |-> Held(buf, slots[k].cells),
                                            new |-> Sum(slots[k], buf)])
    <3>1. buf' \in [Cells -> Values] /\ trail' \in Seq([Cells -> Values])
      BY <2>1, <2>3, FixSlotType DEF Types
    <3>2. changes' \in Seq(ChangeType)
      <4> DEFINE ch == [old |-> Held(buf, slots[k].cells), new |-> Sum(slots[k], buf)]
      <4>1. /\ slots[k].cells \in SUBSET Cells
            /\ Sum(slots[k], buf) \in [slots[k].cells -> Values]
            /\ Held(buf, slots[k].cells) \in [slots[k].cells -> Values]
        BY <2>1, FixSlotType
      <4>2. ch \in ChangeType
        BY <4>1, ChangeIsChange
      <4> HIDE DEF ch
      <4>3. changes \in Seq(ChangeType) /\ Append(changes, ch) \in Seq(ChangeType)
        BY <4>2 DEF Types
      <4> QED
        BY <2>3, <4>3 DEF ch
    <3> QED
      BY <2>1, <3>1, <3>2 DEF Types, Whole, Bytes, inputVars
  <2> QED
    BY <1>3, <2>2, <2>3 DEF FixSlot
<1>4. CASE VerifyRepair
  BY <1>4 DEF VerifyRepair, Types, Whole, Labels, inputVars
<1>5. CASE Write
  BY <1>5 DEF Write, Types, Whole, Labels, inputVars
<1>6. CASE UndoRead
  BY <1>6 DEF UndoRead, Types, Whole, Labels, inputVars
<1>7. CASE UndoChange
  <2>1. CASE /\ buf' = Patch(buf, ToUndo(k).old) /\ k > 0 /\ k' = k - 1
             /\ pc' = pc /\ pc = "undo"
             /\ UNCHANGED <<inputVars, file, base, trail, changes, tampers>>
    <3>1. k \in 1..Len(changes)
      BY <2>1 DEF Types
    <3>2. changes[k].old \in [Over(k) -> Values] /\ Over(k) \in SUBSET Cells
      BY <3>1, OverCells
    <3>3. buf' \in Bytes
      <4>1. changes[k].old \in [Over(k) -> Values \cup {NoByte}]
        BY <3>2
      <4>2. buf \in [Cells -> Values \cup {NoByte}]
        BY DEF Types, Bytes
      <4>3. Patch(buf, changes[k].old) \in [Cells -> Values \cup {NoByte}]
        BY <3>2, <4>1, <4>2, PatchType
      <4> QED
        BY <2>1, <4>3 DEF Bytes, ToUndo
    <3> QED
      BY <2>1, <3>3 DEF Types, Whole, inputVars
  <2>2. CASE /\ pc' = "kept"
             /\ UNCHANGED <<inputVars, file, buf, base, trail, changes, k, tampers>>
    BY <2>2 DEF Types, Whole, Labels, inputVars
  <2> QED
    BY <1>7, <2>1, <2>2 DEF UndoChange
<1>8. CASE UndoWrite
  BY <1>8 DEF UndoWrite, Types, Whole, Labels, inputVars
<1>9. CASE Tamper
  <2>1. /\ tampers < MaxTampers /\ tampers' = tampers + 1
        /\ UNCHANGED <<inputVars, buf, base, trail, changes, k, pc>>
    BY <1>9 DEF Tamper
  <2>2. file' \in Bytes /\ (~Journaled => file' \in [Cells -> Values] \/ file \notin [Cells -> Values])
    <3>1. PICK c \in Cells :
              \/ \E v \in Values : file' = [file EXCEPT ![c] = v]
              \/ Journaled /\ file' = [d \in Cells |-> IF d < c THEN file[d] ELSE NoByte]
      BY <1>9 DEF Tamper
    <3> QED
      BY <3>1 DEF Types, Bytes
  <2> QED
    BY <2>1, <2>2 DEF Types, Whole, inputVars, Journaled
<1>10. CASE Refused \/ UNCHANGED vars
  BY <1>10 DEF Refused, Types, Whole, vars
<1> QED
  BY <1>1, <1>2, <1>3, <1>4, <1>5, <1>6, <1>7, <1>8, <1>9, <1>10 DEF Next

-----------------------------------------------------------------------------
(* The trail of the changes.                                               *)

(* What one change adds to the journal and to the trail.                   *)
LEMMA ChangeExtendsTrail ==
    ASSUME Types, Whole, TrailOfChanges, TrailKeeps, FixSlot, changes' # changes
    PROVE  /\ TrailOfChanges'
           /\ TrailKeeps'
<1> DEFINE s == slots[k]
           n == Len(changes)
<1>1. /\ pc = "fix" /\ pc' = pc /\ k <= LastSlot
      /\ buf' = Patch(buf, Sum(s, buf))
      /\ trail' = Append(trail, buf')
      /\ changes' = Append(changes, [old |-> Held(buf, s.cells), new |-> Sum(s, buf)])
  BY DEF FixSlot
<1>2. /\ s.cells \in SUBSET Cells
      /\ Sum(s, buf) \in [s.cells -> Values]
      /\ Held(buf, s.cells) \in [s.cells -> Values]
      /\ buf' \in [Cells -> Values]
  BY <1>1, FixSlotType
<1> HIDE DEF s
<1>3. /\ n \in Nat /\ Len(trail) = n + 1 /\ trail[n + 1] = buf
      /\ trail \in Seq([Cells -> Values]) /\ changes \in Seq(ChangeType)
  BY <1>1 DEF TrailOfChanges, Types, Repaired
<1>4. /\ Len(changes') = n + 1
      /\ changes'[n + 1] = [old |-> Held(buf, s.cells), new |-> Sum(s, buf)]
      /\ \A i \in 1..n : changes'[i] = changes[i]
  BY <1>1, <1>3
<1>5. /\ Len(trail') = n + 2
      /\ trail'[n + 2] = buf'
      /\ \A i \in 1..(n + 1) : trail'[i] = trail[i]
  BY <1>1, <1>2, <1>3
<1> HIDE DEF n
<1>6. \A i \in 1..(n + 1) : Leads(i)'
  <2> TAKE i \in 1..(n + 1)
  <2>1. CASE i \in 1..n
    <3>1. Leads(i)
      BY <2>1 DEF TrailOfChanges, n
    <3>2. changes'[i] = changes[i] /\ trail'[i] = trail[i] /\ trail'[i + 1] = trail[i + 1]
      BY <1>3, <1>4, <1>5, <2>1
    <3> QED
      BY <3>1, <3>2 DEF Leads, Over
  <2>2. CASE i = n + 1
    <3>1. trail'[i] = buf /\ trail'[i + 1] = buf'
      BY <1>3, <1>5, <2>2
    <3>2. changes'[i].old = Held(buf, s.cells) /\ changes'[i].new = Sum(s, buf)
      BY <1>4, <2>2
    <3>3. DOMAIN changes'[i].old = s.cells /\ DOMAIN changes'[i].new = s.cells
      BY <1>2, <3>2
    <3>4. buf' = Patch(buf, changes'[i].new)
      BY <1>1, <3>2 DEF s
    <3> QED
      BY <3>1, <3>2, <3>3, <3>4 DEF Leads, Over, Patch, Held
  <2> QED
    BY <1>3, <2>1, <2>2
<1>7. TrailOfChanges'
  BY <1>1, <1>3, <1>4, <1>5, <1>6 DEF TrailOfChanges, Repaired
<1>8. TrailKeeps'
  <2> SUFFICES ASSUME NEW i \in 1..(n + 2), NEW c \in Cells, c \notin CoveredAfter(i - 1)'
               PROVE  trail'[i][c] = buf'[c]
    BY <1>3, <1>5 DEF TrailKeeps, Repaired
  <2>1. CASE i = n + 2
    BY <2>1, <1>5
  <2>2. CASE i \in 1..(n + 1)
    <3>1. c \notin CoveredAfter(i - 1)
      BY <1>3, <1>4, <2>2 DEF CoveredAfter, Over, n
    <3>2. trail[i][c] = buf[c]
      BY <1>3, <2>2, <3>1 DEF TrailKeeps, Repaired
    <3>3. c \notin s.cells
      <4>1. n + 1 \in 1..Len(changes') /\ n + 1 > i - 1
        BY <1>3, <1>4, <2>2
      <4>2. DOMAIN changes'[n + 1].old = s.cells
        BY <1>2, <1>4
      <4> QED
        BY <4>1, <4>2 DEF CoveredAfter, Over
    <3>4. buf'[c] = buf[c]
      BY <1>1, <1>2, <3>3 DEF Patch
    <3> QED
      BY <1>5, <2>2, <3>2, <3>4
  <2> QED
    BY <1>3, <2>1, <2>2
<1> QED
  BY <1>7, <1>8

(* A step that leaves the journal and the trail alone keeps what holds     *)
(* between them.                                                           *)
LEMMA TrailStays ==
    ASSUME TrailOfChanges, TrailKeeps, UNCHANGED <<trail, changes>>
    PROVE  /\ TrailKeeps'
           /\ Len(trail') = Len(changes') + 1
           /\ \A i \in 1..Len(changes') : Leads(i)'
           /\ Repaired' = Repaired
BY DEF TrailOfChanges, TrailKeeps, Leads, Over, CoveredAfter, Repaired

(* Every step keeps the trail.                                             *)
LEMMA TrailInductive ==
    Types /\ Whole /\ TrailOfChanges /\ TrailKeeps /\ [Next]_vars
        => TrailOfChanges' /\ TrailKeeps'
<1> SUFFICES ASSUME Types, Whole, TrailOfChanges, TrailKeeps, [Next]_vars
             PROVE  TrailOfChanges' /\ TrailKeeps'
  OBVIOUS
<1>1. CASE Read
  <2>1. /\ trail' = <<file>> /\ changes' = <<>> /\ buf' = file /\ pc' = "fix"
    BY <1>1 DEF Read, TrailOfChanges
  <2> QED
    BY <2>1 DEF TrailOfChanges, TrailKeeps, Repaired, CoveredAfter
<1>2. CASE FixSlot
  <2>1. CASE changes' # changes
    BY <1>2, <2>1, ChangeExtendsTrail
  <2>2. CASE changes' = changes
    <3>1. UNCHANGED <<buf, trail, changes, pc>>
      <4>1. changes \in Seq(ChangeType)
        BY DEF Types
      <4>2. changes # Append(changes, [old |-> Held(buf, slots[k].cells), new |-> Sum(slots[k], buf)])
        BY <4>1
      <4> QED
        BY <1>2, <2>2, <4>2 DEF FixSlot
    <3> QED
      BY <3>1, TrailStays DEF TrailOfChanges
  <2> QED
    BY <2>1, <2>2
<1>3. CASE UNCHANGED <<buf, trail, changes>> /\ (pc' # pc => pc' # "idle" /\ pc # "undo")
           /\ (pc' \in {"fix", "refused", "write"} => pc \in {"fix", "refused", "write"})
  BY <1>3, TrailStays DEF TrailOfChanges
<1>4. CASE UNCHANGED <<trail, changes>> /\ pc' \in {"undo", "kept", "restored", "repaired"}
  BY <1>4, TrailStays DEF TrailOfChanges
<1>5. RefuseCMS \/ VerifyRepair => UNCHANGED <<buf, trail, changes>> /\ pc = "fix" /\ pc' \in {"refused", "write"}
  BY DEF RefuseCMS, VerifyRepair
<1>6. Write \/ UndoRead \/ UndoChange \/ UndoWrite =>
          UNCHANGED <<trail, changes>> /\ pc' \in {"undo", "kept", "restored", "repaired"}
  BY DEF Write, UndoRead, UndoChange, UndoWrite
<1>7. Tamper \/ Refused \/ UNCHANGED vars => UNCHANGED <<buf, trail, changes, pc>>
  BY DEF Tamper, Refused, vars
<1> QED
  BY <1>1, <1>2, <1>3, <1>4, <1>5, <1>6, <1>7 DEF Next

-----------------------------------------------------------------------------
(* Undo.                                                                   *)

(* The cells the changes from the n-th on cover.                           *)
LEMMA CoveredStep ==
    ASSUME Types, NEW n \in 1..Len(changes)
    PROVE  CoveredAfter(n - 1) = CoveredAfter(n) \cup Over(n)
<1>1. Over(n) \subseteq Cells
  BY OverCells
<1>2. \A j \in 1..Len(changes) : j > n - 1 <=> j > n \/ j = n
  OBVIOUS
<1> QED
  BY <1>1, <1>2 DEF CoveredAfter

(* Un-applying the change in hand leads to the state before it.            *)
LEMMA UndoOneChange ==
    ASSUME Types, TrailOfChanges, TrailKeeps, HalfUndone, UndoChange, pc' = "undo"
    PROVE  HalfUndone'
<1>1. /\ pc = "undo" /\ k \in 1..Len(changes) /\ k' = k - 1
      /\ buf' = Patch(buf, changes[k].old)
      /\ legacy \/ HoldsNew(changes[k])
      /\ UNCHANGED <<legacy, base, trail, changes>>
  BY DEF UndoChange, ToUndo, Types, inputVars
<1>2. /\ CoveredAfter(k)' = CoveredAfter(k) \cup Over(k)
      /\ Repaired' = Repaired
  <2>1. CoveredAfter(k)' = CoveredAfter(k - 1)
    BY <1>1 DEF CoveredAfter, Over
  <2> QED
    BY <1>1, <2>1, CoveredStep DEF Repaired
<1>3. /\ Leads(k)
      /\ Over(k) \subseteq Cells
  BY <1>1, OverCells DEF TrailOfChanges
<1>4. ASSUME NEW c \in Cells
      PROVE  buf'[c] = IF c \in CoveredAfter(k) \cup Over(k) THEN trail[k][c] ELSE base[c]
  <2>1. CASE c \in Over(k)
    BY <1>1, <1>3, <2>1 DEF Leads, Patch, Over, Held
  <2>2. CASE c \notin Over(k)
    <3>1. buf'[c] = buf[c]
      BY <1>1, <2>2 DEF Patch, Over
    <3>2. trail[k + 1][c] = trail[k][c]
      BY <1>3, <2>2 DEF Leads, Patch, Over
    <3> QED
      BY <1>1, <2>2, <3>1, <3>2 DEF HalfUndone
  <2> QED
    BY <2>1, <2>2
<1>5. legacy \/ \A c \in CoveredAfter(k) \cup Over(k) : base[c] = Repaired[c]
  <2> SUFFICES ASSUME ~legacy, NEW c \in Over(k), c \notin CoveredAfter(k)
               PROVE  base[c] = Repaired[c]
    BY <1>1 DEF HalfUndone
  <2>1. c \in Cells /\ buf[c] = base[c]
    BY <1>1, <1>3 DEF HalfUndone
  <2>2. buf[c] = trail[k + 1][c]
    <3>1. buf[c] = changes[k].new[c]
      BY <1>1, <1>3 DEF HoldsNew, Held, Leads, Over
    <3> QED
      BY <1>3, <2>1, <3>1 DEF Leads, Patch
  <2>3. trail[k + 1][c] = Repaired[c]
    BY <1>1, <2>1 DEF TrailKeeps, TrailOfChanges
  <2> QED
    BY <2>1, <2>2, <2>3
<1> QED
  BY <1>1, <1>2, <1>4, <1>5 DEF HalfUndone

(* Every step of undo keeps what is said of it.                            *)
LEMMA UndoInductive ==
    Types /\ TrailOfChanges /\ TrailKeeps /\ HalfUndone /\ [Next]_vars => HalfUndone'
<1> SUFFICES ASSUME Types, TrailOfChanges, TrailKeeps, HalfUndone, [Next]_vars, pc' = "undo"
             PROVE  HalfUndone'
  BY DEF HalfUndone
<1>1. CASE UndoRead
  <2>1. /\ buf' = file /\ base' = file /\ k' = Len(changes')
        /\ Len(changes') \in Nat
    BY <1>1 DEF UndoRead, Types
  <2>2. \A c : c \notin CoveredAfter(k)'
    BY <2>1 DEF CoveredAfter
  <2> QED
    BY <2>1, <2>2 DEF HalfUndone
<1>2. CASE UndoChange
  BY <1>2, UndoOneChange
<1>3. CASE UNCHANGED <<legacy, buf, base, trail, changes, k, pc>>
  BY <1>3 DEF HalfUndone, CoveredAfter, Over, Repaired
<1>4. Tamper \/ Refused \/ UNCHANGED vars => UNCHANGED <<legacy, buf, base, trail, changes, k, pc>>
  BY DEF Tamper, Refused, vars, inputVars
<1>5. ~(Read \/ RefuseCMS \/ FixSlot \/ VerifyRepair \/ Write \/ UndoWrite)
  BY DEF Read, RefuseCMS, FixSlot, VerifyRepair, Write, UndoWrite
<1> QED
  BY <1>1, <1>2, <1>3, <1>4, <1>5 DEF Next

-----------------------------------------------------------------------------
(* The invariant.                                                          *)

(* A change is only ever made where no slice carries a CMS signature.      *)
LEMMA CMSInductive ==
    NothingUnderCMS /\ [Next]_vars => NothingUnderCMS'
BY DEF NothingUnderCMS, Next, vars, inputVars, CarriesCMS, Read, RefuseCMS, FixSlot,
       VerifyRepair, Write, UndoRead, UndoChange, UndoWrite, Tamper, Refused

(* The invariant holds initially.                                          *)
LEMMA InitInd == Init => Ind
<1> SUFFICES ASSUME Init PROVE Ind
  OBVIOUS
<1>1. /\ trail = <<file>> /\ changes = <<>> /\ buf = file /\ k = 1 /\ pc = "idle"
      /\ file \in [Cells -> Values] /\ file \in Bytes
  BY DEF Init, Bytes
<1>2. Types /\ Whole
  BY <1>1 DEF Init, Types, Whole, Labels
<1>3. TrailOfChanges /\ TrailKeeps
  BY <1>1 DEF TrailOfChanges, TrailKeeps, Repaired, CoveredAfter
<1> QED
  BY <1>1, <1>2, <1>3 DEF Ind, NothingUnderCMS, HalfUndone

(* The invariant is inductive.                                             *)
LEMMA NextInd == Ind /\ [Next]_vars => Ind'
BY TypesInductive, TrailInductive, CMSInductive, UndoInductive DEF Ind

(* The invariant always holds.                                             *)
LEMMA AlwaysInd == Spec => []Ind
BY InitInd, NextInd, PTL DEF Spec

-----------------------------------------------------------------------------
(* The theorems.                                                           *)

(* A repair that meets a CMS signature has not touched a byte, wherever in *)
(* the container the signed slice lies.                                    *)
THEOREM CMSIsLeftAlone == Spec => []RefusalTouchesNothing
<1>1. Ind => RefusalTouchesNothing
  BY DEF Ind, NothingUnderCMS, TrailOfChanges, RefusalTouchesNothing, Repaired, Original
<1> QED
  BY <1>1, AlwaysInd, PTL

(* What undo writes.                                                       *)
LEMMA UndoesStep ==
    ASSUME Ind, [Next]_vars, Undoes
    PROVE  /\ k = 0 /\ pc = "undo" /\ file' = buf
           /\ Original = trail[1]
           /\ \A c \in Cells : buf[c] = IF c \in Covered THEN Original[c] ELSE base[c]
           /\ legacy \/ \A c \in Covered : base[c] = Repaired[c]
<1>1. UndoWrite
  BY DEF Undoes, Next, vars, Read, RefuseCMS, FixSlot, VerifyRepair, Write, UndoRead,
         UndoChange, Tamper, Refused, Journaled
<1>2. k = 0 /\ pc = "undo" /\ file' = buf
  BY <1>1 DEF UndoWrite
<1> QED
  BY <1>2 DEF Ind, HalfUndone, Covered, Original

(* Undo is byte-exact for every layout, overlapping slots and journals     *)
(* without New included, and whatever was written to the file before.      *)
THEOREM UndoIsExact == Spec => UndoRestores
<1>1. Ind /\ [Next]_vars =>
          [Undoes => \A c \in Cells :
              file'[c] = IF c \in Covered THEN Original[c] ELSE base[c]]_vars
  BY UndoesStep
<1> QED
  BY <1>1, AlwaysInd, PTL DEF Spec, UndoRestores

(* Undo writes only where every journaled cell held the repaired bytes     *)
(* when it read the file.                                                  *)
THEOREM UndoIsVerified == Spec => UndoVerifies
<1>1. Ind /\ [Next]_vars =>
          [Undoes /\ ~legacy => \A c \in Covered : base[c] = Repaired[c]]_vars
  BY UndoesStep
<1> QED
  BY <1>1, AlwaysInd, PTL DEF Spec, UndoVerifies

(* The verification holds of the change in hand when the file was not      *)
(* written to.                                                             *)
LEMMA UntouchedHoldsNew ==
    ASSUME Ind, pc = "undo", k > 0, base = Repaired
    PROVE  HoldsNew(changes[k])
<1>1. k \in 1..Len(changes) /\ Len(trail) = Len(changes) + 1
  BY DEF Ind, Types, TrailOfChanges
<1>2. Leads(k) /\ Over(k) \subseteq Cells
  BY <1>1, OverCells DEF Ind, TrailOfChanges
<1>3. changes[k].new \in [Over(k) -> Values]
  BY <1>1, <1>2, OverCells DEF Ind, Leads
<1>4. \A c \in Over(k) : buf[c] = changes[k].new[c]
  <2> TAKE c \in Over(k)
  <2>1. c \in Cells /\ buf[c] = trail[k + 1][c]
    <3>1. c \in Cells
      BY <1>2
    <3>2. CASE c \in CoveredAfter(k)
      BY <3>1, <3>2 DEF Ind, HalfUndone
    <3>3. CASE c \notin CoveredAfter(k)
      <4>1. k + 1 \in 1..Len(trail) /\ (k + 1) - 1 = k
        BY <1>1
      <4>2. trail[k + 1][c] = Repaired[c]
        BY <3>1, <3>3, <4>1 DEF Ind, TrailKeeps
      <4> QED
        BY <3>1, <3>3, <4>2 DEF Ind, HalfUndone
    <3> QED
      BY <3>1, <3>2, <3>3
  <2> QED
    BY <1>2, <2>1 DEF Leads, Patch
<1> QED
  BY <1>3, <1>4 DEF HoldsNew, Held

(* A file that holds what the repair wrote is restored, never refused.     *)
THEOREM UndoIsAccepted == Spec => []UndoAccepts
<1>1. Init => UndoAccepts
  BY DEF Init, UndoAccepts
<1>2. Ind /\ UndoAccepts /\ [Next]_vars => UndoAccepts'
  <2> SUFFICES ASSUME Ind, UndoAccepts, [Next]_vars, pc' = "kept"
               PROVE  base' # Repaired'
    BY DEF UndoAccepts
  <2>1. CASE UndoRead
    <3>1. ~InBounds(file) /\ base' = file /\ trail' = trail
      BY <2>1 DEF UndoRead
    <3>2. PICK i \in 1..Len(changes) : \E c \in Over(i) : file[c] = NoByte
      BY <3>1 DEF InBounds, Present, Over
    <3>3. Over(i) \subseteq Cells
      BY OverCells DEF Ind
    <3>4. Repaired \in [Cells -> Values]
      BY DEF Ind, Types, TrailOfChanges, Repaired
    <3> QED
      BY <3>1, <3>2, <3>3, <3>4 DEF Repaired
  <2>2. CASE UndoChange
    <3>1. /\ pc = "undo" /\ k > 0 /\ ~HoldsNew(changes[k])
          /\ UNCHANGED <<base, trail>>
      BY <2>2 DEF UndoChange, ToUndo
    <3> QED
      BY <3>1, UntouchedHoldsNew DEF Repaired
  <2>3. CASE UNCHANGED <<base, trail, pc>>
    BY <2>3 DEF UndoAccepts, Repaired
  <2>4. Tamper \/ Refused \/ UNCHANGED vars => UNCHANGED <<base, trail, pc>>
    BY DEF Tamper, Refused, vars
  <2>5. ~(Read \/ RefuseCMS \/ FixSlot \/ VerifyRepair \/ Write \/ UndoWrite)
    BY DEF Read, RefuseCMS, FixSlot, VerifyRepair, Write, UndoWrite
  <2> QED
    BY <2>1, <2>2, <2>3, <2>4, <2>5 DEF Next
<1> QED
  BY <1>1, <1>2, AlwaysInd, PTL DEF Spec

-----------------------------------------------------------------------------
(* One pass is enough.                                                     *)

(* The hash of a page that two arrays of bytes agree on is the same.       *)
LEMMA SumOfPage ==
    ASSUME Types, NEW i \in 1..Len(slots), NEW d \in Bytes, NEW e \in Bytes,
           \A c \in slots[i].page : d[c] = e[c]
    PROVE  Sum(slots[i], d) = Sum(slots[i], e)
BY SumIsLocal DEF Types, slots

(* In a well-formed container the slot in hand gets right, and the slots   *)
(* before it stay right.                                                   *)
LEMMA FixSlotIsRight ==
    ASSUME Types, Whole, WellFormed, FixSlot, TakenAreRight
    PROVE  \A i \in 1..Len(slots) : i < k + 1 => ~Differs(slots[i], buf')
<1>1. pc = "fix" /\ k <= LastSlot
  BY DEF FixSlot
<1>2. k \in 1..Len(slots)
  BY <1>1, FixSlotType
<1>3. \A i \in 1..Len(slots) : i < k => ~Differs(slots[i], buf)
  BY <1>1 DEF TakenAreRight
<1>4. CASE ~Differs(slots[k], buf)
  BY <1>2, <1>3, <1>4 DEF FixSlot, Types
<1>5. CASE Differs(slots[k], buf)
  <2>1. buf' = Patch(buf, Sum(slots[k], buf))
    BY <1>5 DEF FixSlot
  <2>2. /\ slots[k].cells \subseteq Cells
        /\ Sum(slots[k], buf) \in [slots[k].cells -> Values]
        /\ buf \in Bytes /\ buf' \in Bytes
    BY <1>1, <2>1, FixSlotType DEF Types, Bytes
  <2>3. /\ \A c \in slots[k].cells : buf'[c] = Sum(slots[k], buf)[c]
        /\ \A c \in Cells \ slots[k].cells : buf'[c] = buf[c]
    BY <2>1, <2>2 DEF Patch
  <2>4. ASSUME NEW i \in 1..Len(slots)
        PROVE  Sum(slots[i], buf') = Sum(slots[i], buf)
    <3>1. slots[i].page \subseteq Cells
      BY SlotOfLayout
    <3>2. slots[k].cells \cap slots[i].page = {}
      BY <1>2 DEF WellFormed
    <3>3. \A c \in slots[i].page : buf'[c] = buf[c]
      BY <2>3, <3>1, <3>2
    <3> QED
      BY <2>2, <3>3, SumOfPage
  <2>5. ~Differs(slots[k], buf')
    <3>1. Held(buf', slots[k].cells) = Sum(slots[k], buf)
      BY <2>2, <2>3 DEF Held
    <3> QED
      BY <1>2, <2>4, <3>1 DEF Differs
  <2>6. ASSUME NEW i \in 1..Len(slots), i < k
        PROVE  ~Differs(slots[i], buf')
    <3>1. slots[i].cells \subseteq Cells
      BY SlotOfLayout
    <3>2. slots[i].cells \cap slots[k].cells = {}
      BY <1>2, <2>6 DEF WellFormed
    <3>3. Held(buf', slots[i].cells) = Held(buf, slots[i].cells)
      BY <2>3, <3>1, <3>2 DEF Held
    <3> QED
      BY <1>3, <2>4, <2>6, <3>3 DEF Differs
  <2>7. \A i \in 1..Len(slots) : i < k + 1 => i < k \/ i = k
    BY <1>2
  <2> QED
    BY <2>5, <2>6, <2>7
<1> QED
  BY <1>4, <1>5

(* The slots that were taken stay right.                                   *)
LEMMA TakenInductive ==
    Types /\ Whole /\ TakenAreRight /\ [Next]_vars => TakenAreRight'
<1> SUFFICES ASSUME Types, Whole, TakenAreRight, [Next]_vars
             PROVE  TakenAreRight'
  OBVIOUS
<1>1. CASE FixSlot
  <2>1. pc' = "fix" /\ k' = k + 1 /\ layout' = layout
    BY <1>1 DEF FixSlot, inputVars
  <2>2. WellFormed' => WellFormed
    BY <2>1 DEF WellFormed, slots
  <2>3. WellFormed => \A i \in 1..Len(slots) : i < k + 1 => ~Differs(slots[i], buf')
    BY <1>1, FixSlotIsRight
  <2> QED
    BY <2>1, <2>2, <2>3 DEF TakenAreRight, slots, Differs
<1>2. CASE Read
  <2>1. pc' = "fix" /\ k' = 1
    BY <1>2 DEF Read, TakenAreRight
  <2>2. \A i \in 1..Len(slots)' : ~(i < k')
    BY <2>1
  <2> QED
    BY <2>1, <2>2 DEF TakenAreRight
<1>3. CASE UNCHANGED <<layout, buf, k, pc>>
  BY <1>3 DEF TakenAreRight, WellFormed, slots, Differs
<1>4. CASE pc' \notin {"idle", "fix"}
  BY <1>4 DEF TakenAreRight
<1>5. RefuseCMS \/ VerifyRepair \/ Write \/ UndoRead \/ UndoChange \/ UndoWrite
          => pc' \notin {"idle", "fix"}
  BY DEF RefuseCMS, VerifyRepair, Write, UndoRead, UndoChange, UndoWrite
<1>6. Tamper \/ Refused \/ UNCHANGED vars => UNCHANGED <<layout, buf, k, pc>>
  BY DEF Tamper, Refused, vars, inputVars
<1> QED
  BY <1>1, <1>2, <1>3, <1>4, <1>5, <1>6 DEF Next

(* One pass over the slots of a well-formed container leaves none that     *)
(* differs: a repair that changed something is never discarded.            *)
THEOREM OnePassIsEnough == Spec => []OnePassRepairs
<1>1. Init => TakenAreRight /\ OnePassRepairs
  BY DEF Init, TakenAreRight, OnePassRepairs
<1>2. Ind /\ TakenAreRight /\ OnePassRepairs /\ [Next]_vars => OnePassRepairs'
  <2> SUFFICES ASSUME Ind, TakenAreRight, OnePassRepairs, [Next]_vars,
                      WellFormed', pc' = "refused"
               PROVE  changes' = <<>>
    BY DEF OnePassRepairs
  <2>1. layout' = layout
    BY DEF Next, vars, inputVars, Read, RefuseCMS, FixSlot, VerifyRepair, Write,
           UndoRead, UndoChange, UndoWrite, Tamper, Refused
  <2>2. WellFormed
    BY <2>1 DEF WellFormed, slots
  <2>3. CASE VerifyRepair
    <3>1. pc = "fix" /\ k > Len(slots) /\ ~Accepted(buf) /\ changes' = changes
      BY <2>3 DEF VerifyRepair, LastSlot
    <3>2. slots \in Seq(SlotType) /\ k \in Nat
      BY DEF Ind, Types, slots, LayoutType
    <3>3. \A i \in 1..Len(slots) : ~Differs(slots[i], buf)
      BY <2>2, <3>1, <3>2 DEF TakenAreRight
    <3>4. ~Stale(buf)
      BY <2>2, <3>3 DEF Stale, WellFormed
    <3> QED
      BY <3>1, <3>4 DEF Accepted
  <2>4. ~RefuseCMS
    BY <2>2 DEF RefuseCMS, CarriesCMS, WellFormed
  <2>5. CASE UNCHANGED <<pc, changes>>
    BY <2>2, <2>5 DEF OnePassRepairs
  <2>6. Tamper \/ Refused \/ UNCHANGED vars => UNCHANGED <<pc, changes>>
    BY DEF Tamper, Refused, vars
  <2>7. ~(Read \/ FixSlot \/ Write \/ UndoRead \/ UndoChange \/ UndoWrite)
    BY DEF Read, FixSlot, Write, UndoRead, UndoChange, UndoWrite
  <2> QED
    BY <2>3, <2>4, <2>5, <2>6, <2>7 DEF Next
<1>3. Ind /\ TakenAreRight /\ [Next]_vars => TakenAreRight'
  BY TakenInductive DEF Ind
<1> QED
  BY <1>1, <1>2, <1>3, AlwaysInd, PTL DEF Spec

-----------------------------------------------------------------------------
(* What is written.                                                        *)

(* What waits to be written passed the check and is not touched before.    *)
LEMMA VerifiedInductive == Verified /\ [Next]_vars => Verified'
<1> SUFFICES ASSUME Verified, [Next]_vars, pc' = "write" PROVE ~Stale(buf)'
  BY DEF Verified
<1>1. CASE VerifyRepair
  <2>1. Accepted(buf) /\ UNCHANGED <<layout, buf>>
    BY <1>1 DEF VerifyRepair, inputVars
  <2> QED
    BY <2>1 DEF Accepted, Stale, slots, Differs
<1>2. CASE UNCHANGED <<layout, buf, pc>>
  BY <1>2 DEF Verified, Stale, slots, Differs
<1>3. Tamper \/ Refused \/ UNCHANGED vars => UNCHANGED <<layout, buf, pc>>
  BY DEF Tamper, Refused, vars, inputVars
<1>4. ~(Read \/ RefuseCMS \/ FixSlot \/ Write \/ UndoRead \/ UndoChange \/ UndoWrite)
  BY DEF Read, RefuseCMS, FixSlot, Write, UndoRead, UndoChange, UndoWrite
<1> QED
  BY <1>1, <1>2, <1>3, <1>4 DEF Next

(* Whatever a repair writes passes the check, for every layout and hash    *)
(* and whatever happens to the file meanwhile.                             *)
THEOREM RepairWritesValid == Spec => OnlyValidIsWritten
<1>1. Init => Verified
  BY DEF Init, Verified
<1>2. Verified /\ [Next]_vars => [Write => ~Stale(file')]_vars
  BY DEF Verified, Write, Stale, slots, Differs
<1> QED
  BY <1>1, <1>2, VerifiedInductive, PTL DEF Spec, OnlyValidIsWritten

(* Bytes without NoByte have no holes.                                     *)
LEMMA WholeHasNoHoles ==
    ASSUME NEW d \in [Cells -> Values]
    PROVE  NoHoles(d)
BY DEF NoHoles

(* What undo writes has no holes: the journaled cells lie within the file  *)
(* it read, and of the others it keeps what it read.                       *)
LEMMA UndoWritesNoHoles ==
    ASSUME Ind, NowhereHoles, UndoWrite
    PROVE  NoHoles(file')
<1>1. pc = "undo" /\ k = 0 /\ file' = buf /\ NoHoles(base) /\ InBounds(base)
  BY DEF UndoWrite, NowhereHoles
<1>2. \A c \in Cells : buf[c] = IF c \in Covered THEN Original[c] ELSE base[c]
  BY <1>1 DEF Ind, HalfUndone, Covered, Original
<1>3. \A c \in Covered : base[c] # NoByte
  BY <1>1 DEF InBounds, Present, Covered, CoveredAfter, Over
<1>4. Original \in [Cells -> Values]
  BY DEF Ind, Types, TrailOfChanges, Original
<1>5. \A c \in Covered : buf[c] # NoByte
  BY <1>2, <1>4 DEF Covered, CoveredAfter
<1> QED
  BY <1>1, <1>2, <1>3, <1>5 DEF NoHoles

(* Somebody else's write leaves no hole.                                   *)
LEMMA TamperLeavesNoHoles ==
    ASSUME Types, NoHoles(file), Tamper
    PROVE  NoHoles(file')
<1>1. file \in [Cells -> Values \cup {NoByte}]
  BY DEF Types, Bytes
<1>2. ASSUME NEW c \in Cells, NEW v \in Values, file[c] # NoByte,
             file' = [file EXCEPT ![c] = v]
      PROVE  NoHoles(file')
  BY <1>1, <1>2 DEF NoHoles
<1>3. ASSUME NEW c \in Cells,
             file' = [d \in Cells |-> IF d < c THEN file[d] ELSE NoByte]
      PROVE  NoHoles(file')
  BY <1>3 DEF NoHoles
<1> QED
  BY <1>2, <1>3 DEF Tamper

(* No step makes a hole.                                                   *)
LEMMA HolesInductive == Ind /\ NowhereHoles /\ [Next]_vars => NowhereHoles'
<1> SUFFICES ASSUME Ind, NowhereHoles, [Next]_vars PROVE NowhereHoles'
  OBVIOUS
<1>1. CASE Write
  <2>1. file' \in [Cells -> Values] /\ pc' # "undo"
    BY <1>1 DEF Write, Ind, Whole
  <2> QED
    BY <2>1, WholeHasNoHoles DEF NowhereHoles
<1>2. CASE UndoRead
  BY <1>2 DEF UndoRead, NowhereHoles, InBounds
<1>3. CASE UndoWrite
  BY <1>3, UndoWritesNoHoles DEF NowhereHoles, UndoWrite
<1>4. CASE Tamper
  BY <1>4, TamperLeavesNoHoles DEF NowhereHoles, Ind, Tamper, InBounds
<1>5. CASE UNCHANGED <<file, base, changes, pc>>
  BY <1>5 DEF NowhereHoles, InBounds
<1>6. CASE UNCHANGED file /\ pc' # "undo"
  BY <1>6 DEF NowhereHoles
<1>7. UndoChange => \/ UNCHANGED <<file, base, changes, pc>>
                    \/ UNCHANGED file /\ pc' # "undo"
  BY DEF UndoChange
<1>8. Read \/ RefuseCMS \/ FixSlot \/ VerifyRepair => UNCHANGED file /\ pc' # "undo"
  BY DEF Read, RefuseCMS, FixSlot, VerifyRepair
<1>9. Refused \/ UNCHANGED vars => UNCHANGED <<file, base, changes, pc>>
  BY DEF Refused, vars
<1> QED
  BY <1>1, <1>2, <1>3, <1>4, <1>5, <1>6, <1>7, <1>8, <1>9 DEF Next

(* Every variable keeps to its type, and neither a repair nor an undo, of  *)
(* a file that was truncated in between included, leaves a hole.           *)
THEOREM TypesAreKept == Spec => []TypeOK
<1>1. Init => NowhereHoles
  <2> SUFFICES ASSUME Init PROVE NowhereHoles
    OBVIOUS
  <2>1. file \in [Cells -> Values] /\ pc # "undo"
    BY DEF Init
  <2> QED
    BY <2>1, WholeHasNoHoles DEF NowhereHoles
<1>2. Ind /\ NowhereHoles => TypeOK
  BY DEF Ind, NowhereHoles, TypeOK
<1> QED
  BY <1>1, <1>2, HolesInductive, AlwaysInd, PTL DEF Spec

=============================================================================
