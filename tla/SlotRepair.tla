----------------------------- MODULE SlotRepair -----------------------------
(***************************************************************************)
(* One file: engine.Repair on its bytes, the verification and the write    *)
(* of doctor's repairFileHardlinkSafe, and undoFile, which may be run any  *)
(* number of times with the journal entry of that repair.  The file may    *)
(* change at any moment.                                                   *)
(*                                                                         *)
(* A file is an array of cells.  A hash slot is a set of cells and covers  *)
(* a page, another set of cells; the two may overlap, and slots may        *)
(* overlap each other, as nothing in a signature's offsets rules it out.   *)
(* What the hash of a page is, is left open.                               *)
(***************************************************************************)
EXTENDS Naturals, Sequences

CONSTANTS
    Cells,          \* offsets
    Values,         \* what a cell may hold
    NoByte,         \* what a cell beyond the end of the file holds
    Layouts,        \* the containers: their slots and what else is signed how
    Sum(_, _),      \* Sum(s, d): the hash of the page of slot s in the bytes d
    MaxTampers      \* bound: how often somebody else writes to the file

Bytes == [Cells -> Values \cup {NoByte}]

(* A slot of a CodeDirectory of a slice, in the order fixupSlice takes     *)
(* them.                                                                   *)
SlotType == [cells : SUBSET Cells, page : SUBSET Cells, slice : Nat]

(* cms: the slices with a non-empty CMS blob.  unverifiable: something of  *)
(* the signature cannot be parsed, so that no check of the file passes.    *)
LayoutType == [slots : Seq(SlotType), cms : SUBSET Nat, unverifiable : BOOLEAN]

ASSUME CellsAssumption == Cells \subseteq Nat /\ NoByte \notin Values
ASSUME LayoutsAssumption == Layouts \subseteq LayoutType
ASSUME SumAssumption ==
    \A l \in Layouts, d \in Bytes :
        \A i \in 1..Len(l.slots) : Sum(l.slots[i], d) \in [l.slots[i].cells -> Values]
ASSUME SumIsLocal ==
    \A l \in Layouts, d, e \in Bytes :
        \A i \in 1..Len(l.slots) :
            (\A c \in l.slots[i].page : d[c] = e[c]) => Sum(l.slots[i], d) = Sum(l.slots[i], e)
ASSUME TampersAssumption == MaxTampers \in Nat

VARIABLES
    layout,
    legacy,     \* the journal was written before Change had the field New
    file,       \* the bytes on disk
    buf,        \* the bytes in memory
    base,       \* history: the bytes as the operation in hand read them
    trail,      \* history: the bytes in memory before and after each change
    changes,    \* the journal entry
    k,          \* the slot or the change in hand
    pc,
    tampers

vars == <<layout, legacy, file, buf, base, trail, changes, k, pc, tampers>>
inputVars == <<layout, legacy>>

slots == layout.slots

Patch(d, f) == [c \in Cells |-> IF c \in DOMAIN f THEN f[c] ELSE d[c]]

Present(d, S) == \A c \in S : d[c] # NoByte

Held(d, S) == [c \in S |-> d[c]]

Differs(s, d) == Held(d, s.cells) # Sum(s, d)

(* engine.Check.                                                           *)
Stale(d) ==
    \/ layout.unverifiable
    \/ \E i \in 1..Len(slots) : Differs(slots[i], d)

-----------------------------------------------------------------------------
Init ==
    /\ layout \in Layouts
    /\ legacy \in BOOLEAN
    /\ file \in [Cells -> Values]
    /\ buf = file
    /\ base = file
    /\ trail = <<file>>
    /\ changes = <<>>
    /\ k = 1
    /\ pc = "idle"
    /\ tampers = 0

(* The os.ReadFile of planFileRepair.                                      *)
Read ==
    /\ pc = "idle"
    /\ buf' = file
    /\ base' = file
    /\ trail' = <<file>>
    /\ pc' = "fix"
    /\ UNCHANGED <<inputVars, file, changes, k, tampers>>

(* Mutant: a slice is looked at when its turn comes, not before the first. *)
SliceCarriesCMS(i) == i \in 1..Len(slots) /\ slots[i].slice \in layout.cms

(* All slices are searched for a CMS blob before any is repaired.          *)
CarriesCMS(i) == layout.cms # {}

RefuseCMS ==
    /\ pc = "fix"
    /\ CarriesCMS(k)
    /\ pc' = "refused"
    /\ UNCHANGED <<inputVars, file, buf, base, trail, changes, k, tampers>>

(* Mutant: the last slot, a page of its own when the code does not end at  *)
(* a page boundary, is left out.                                           *)
FullPages == Len(slots) - 1

LastSlot == Len(slots)

(* One turn of the loops of fixupSlice.                                    *)
FixSlot ==
    /\ pc = "fix"
    /\ ~CarriesCMS(k)
    /\ k <= LastSlot
    /\ k' = k + 1
    /\ LET s == slots[k]
       IN IF Differs(s, buf)
          THEN /\ buf' = Patch(buf, Sum(s, buf))
               /\ trail' = Append(trail, Patch(buf, Sum(s, buf)))
               /\ changes' = Append(changes, [old |-> Held(buf, s.cells), new |-> Sum(s, buf)])
          ELSE UNCHANGED <<buf, trail, changes>>
    /\ UNCHANGED <<inputVars, file, base, pc, tampers>>

(* Mutant: what was modified is taken for what is valid.                   *)
Trusted(d) == changes # <<>>

(* Never trust our own repair: nothing modified or still stale is an error. *)
Accepted(d) == changes # <<>> /\ ~Stale(d)

VerifyRepair ==
    /\ pc = "fix"
    /\ ~CarriesCMS(k)
    /\ k > LastSlot
    /\ pc' = IF Accepted(buf) THEN "write" ELSE "refused"
    /\ UNCHANGED <<inputVars, file, buf, base, trail, changes, k, tampers>>

Write ==
    /\ pc = "write"
    /\ file' = buf
    /\ pc' = "repaired"
    /\ UNCHANGED <<inputVars, buf, base, trail, changes, k, tampers>>

-----------------------------------------------------------------------------
(* undoFile with the journal entry of the repair.                          *)

Journaled == pc \in {"repaired", "restored", "kept"}

(* Mutant: the bounds are not validated up front.                          *)
Unbounded(d) == TRUE

InBounds(d) == \A i \in 1..Len(changes) : Present(d, DOMAIN changes[i].old)

(* Read the file; every journaled offset must lie within it.  A path that  *)
(* is no regular file by then is refused before, which changes nothing.    *)
UndoRead ==
    /\ Journaled
    /\ buf' = file
    /\ base' = file
    /\ k' = Len(changes)
    /\ pc' = IF InBounds(file) THEN "undo" ELSE "kept"
    /\ UNCHANGED <<inputVars, file, trail, changes, tampers>>

(* Mutant: the entries are un-applied in the order of the repair.          *)
FirstUndoneFirst(i) == changes[Len(changes) + 1 - i]

ToUndo(i) == changes[i]

(* Mutant: the verification looks at the bytes as they were read.          *)
HeldAsRead(c) == Held(base, DOMAIN c.new) = c.new

(* Mutant: the verification is gone.                                       *)
HeldOrNot(c) == TRUE

HoldsNew(c) == Held(buf, DOMAIN c.new) = c.new

UndoChange ==
    /\ pc = "undo"
    /\ k > 0
    /\ LET c == ToUndo(k)
       IN IF legacy \/ HoldsNew(c)
          THEN /\ buf' = Patch(buf, c.old)
               /\ k' = k - 1
               /\ UNCHANGED pc
          ELSE /\ pc' = "kept"
               /\ UNCHANGED <<buf, k>>
    /\ UNCHANGED <<inputVars, file, base, trail, changes, tampers>>

UndoWrite ==
    /\ pc = "undo"
    /\ k = 0
    /\ file' = buf
    /\ pc' = "restored"
    /\ UNCHANGED <<inputVars, buf, base, trail, changes, k, tampers>>

-----------------------------------------------------------------------------
(* Somebody else writes a cell of the file, or, once the repair is over,   *)
(* truncates it.                                                           *)
Tamper ==
    /\ tampers < MaxTampers
    /\ tampers' = tampers + 1
    /\ \E c \in Cells :
          \/ \E v \in Values : /\ file[c] # NoByte
                               /\ file' = [file EXCEPT ![c] = v]
          \/ /\ Journaled
             /\ file' = [d \in Cells |-> IF d < c THEN file[d] ELSE NoByte]
    /\ UNCHANGED <<inputVars, buf, base, trail, changes, k, pc>>

Refused == pc = "refused" /\ UNCHANGED vars

Next == \/ Read \/ RefuseCMS \/ FixSlot \/ VerifyRepair \/ Write
        \/ UndoRead \/ UndoChange \/ UndoWrite
        \/ Tamper \/ Refused

Spec == Init /\ [][Next]_vars

-----------------------------------------------------------------------------
(* What holds between the parts of the state, for the proofs.              *)

Original == trail[1]
Repaired == trail[Len(trail)]

Over(i) == DOMAIN changes[i].old

(* The cells of the changes after the first n.                             *)
CoveredAfter(n) == {c \in Cells : \E j \in 1..Len(changes) : j > n /\ c \in Over(j)}

(* Until the repair is over the file is whole; slots are counted from 1.   *)
Whole == pc \notin {"repaired", "undo", "kept", "restored"} =>
             /\ file \in [Cells -> Values]
             /\ buf \in [Cells -> Values]
             /\ k > 0

(* Each change leads from one state of the buffer to the next.             *)
Leads(i) == /\ DOMAIN changes[i].new = Over(i)
            /\ changes[i].old = Held(trail[i], Over(i))
            /\ trail[i + 1] = Patch(trail[i], changes[i].new)

TrailOfChanges ==
    /\ Len(trail) = Len(changes) + 1
    /\ \A i \in 1..Len(changes) : Leads(i)
    /\ pc \in {"idle", "fix", "refused", "write"} => buf = Repaired
    /\ pc = "idle" => changes = <<>>

(* A cell that no later change covers keeps its value to the end.          *)
TrailKeeps ==
    \A i \in 1..Len(trail), c \in Cells :
        c \notin CoveredAfter(i - 1) => trail[i][c] = Repaired[c]

(* A CMS signature is met before the first change.                         *)
NothingUnderCMS == layout.cms # {} => changes = <<>>

(* What undo has done so far.                                              *)
HalfUndone ==
    pc = "undo" =>
        /\ \A c \in Cells :
              buf[c] = IF c \in CoveredAfter(k) THEN trail[k + 1][c] ELSE base[c]
        /\ legacy \/ \A c \in CoveredAfter(k) : base[c] = Repaired[c]

(* Slots and pages do not overlap, and there is nothing to refuse.         *)
WellFormed ==
    /\ ~layout.unverifiable
    /\ layout.cms = {}
    /\ \A i, j \in 1..Len(slots) :
          /\ slots[i].cells \cap slots[j].page = {}
          /\ i # j => slots[i].cells \cap slots[j].cells = {}

(* The slots that were taken are right, and stay so.                       *)
TakenAreRight == 
    /\ pc = "idle" => k = 1
    /\ WellFormed /\ pc = "fix" =>
          \A i \in 1..Len(slots) : i < k => ~Differs(slots[i], buf)

(* What waits to be written passes the check.                              *)
Verified == pc = "write" => ~Stale(buf)

NoHoles(d) == \A a, b \in Cells : d[a] = NoByte /\ a < b => d[b] = NoByte

(* The file, and what undo read of it, have no holes, and undo read all    *)
(* the journaled cells.                                                    *)
NowhereHoles ==
    /\ NoHoles(file)
    /\ pc = "undo" => NoHoles(base) /\ InBounds(base)

-----------------------------------------------------------------------------
(* Properties.                                                             *)

Labels == {"idle", "fix", "refused", "write", "repaired", "undo", "kept", "restored"}

ChangeType == [old : UNION {[S -> Values] : S \in SUBSET Cells},
               new : UNION {[S -> Values] : S \in SUBSET Cells}]

Types ==
    /\ layout \in Layouts
    /\ legacy \in BOOLEAN
    /\ file \in Bytes
    /\ buf \in Bytes
    /\ base \in Bytes
    /\ trail \in Seq([Cells -> Values])
    /\ changes \in Seq(ChangeType)
    /\ k \in Nat
    /\ pc = "undo" => k <= Len(changes)
    /\ pc \in Labels
    /\ tampers \in 0..MaxTampers

(* Every variable keeps to its type, and no operation leaves a hole in the *)
(* file.                                                                   *)
TypeOK == Types /\ NoHoles(file)

Covered == CoveredAfter(0)

(* Only bytes that pass the check are ever written by a repair             *)
(* (doctor.go:685-690): the file that results is valid.                    *)
OnlyValidIsWritten == [][Write => ~Stale(file')]_vars

(* A repair that meets a CMS signature in any slice has not touched a byte *)
(* by then (engine.go:519-521, 549-552).                                   *)
RefusalTouchesNothing == pc = "refused" /\ layout.cms # {} => buf = Original

(* In a container whose slots and pages do not overlap, which is all that  *)
(* ld and codesign produce, one pass leaves nothing stale: what a check    *)
(* finds stale and parses, a repair can repair (engine.go:435-460).        *)
OnePassRepairs == WellFormed /\ pc = "refused" => changes = <<>>

Undoes == pc = "undo" /\ pc' = "restored"

(* Undo is byte-exact: the journaled cells get back what they held before  *)
(* the repair, also when slots overlap and also from a journal without     *)
(* New, and every other cell keeps what it held when undo read the file    *)
(* (doctor.go:779-784).                                                    *)
UndoRestores ==
    [][Undoes => \A c \in Cells :
          file'[c] = IF c \in Covered THEN Original[c] ELSE base[c]]_vars

(* Undo refuses unless every journaled offset holds the repaired bytes     *)
(* (doctor.go:779-780): a journaled cell that was written to since the     *)
(* repair makes it refuse, unless the journal has no New.                  *)
UndoVerifies ==
    [][Undoes /\ ~legacy => \A c \in Covered : base[c] = Repaired[c]]_vars

(* Undo of a file that holds what the repair wrote is not refused, also    *)
(* when slots overlap.                                                     *)
UndoAccepts == pc = "kept" => base # Repaired

=============================================================================
