-------------------------------- MODULE Undo --------------------------------
(***************************************************************************)
(* `machokeeper undo JOURNAL`, run once beside the invocations of Doctor   *)
(* with a journal that one of them wrote: each file of it is turned back,  *)
(* through a temporary file and a rename, if it still holds what the       *)
(* repair wrote.  What undoFile does to the bytes is in SlotRepair.  An    *)
(* undo takes no lock and leaves the database alone.  Kills and what nix   *)
(* does meanwhile are in Doctor's own runs, not here.                      *)
(***************************************************************************)
EXTENDS Doctor

CONSTANT Undoer     \* the process that runs it, idle as a doctor

ASSUME UndoerAssumption == Undoer \in Procs

VARIABLES
    upc,        \* where it is
    left,       \* the entries it has not come to the end of
    rc,         \* its exit status so far
    given,      \* history: the entries of its journal
    restored    \* history: the files it turned back

undoVars == <<upc, left, rc, given, restored>>
allVars == <<vars, undoVars>>

UndoLabels == {"idle", "read", "temp", "rename", "cleanup", "exit0", "exit1"}

Undoing == upc \in {"read", "temp", "rename", "cleanup"}

UndoInit ==
    /\ Init
    /\ upc = "idle"
    /\ left = {} /\ given = {} /\ restored = {}
    /\ rc = "exit0"

(* Undo reads the journal first.                                           *)
Open ==
    /\ upc = "idle"
    /\ Concurrent \/ Quiet
    /\ \/ /\ \E s \in Seconds : journals[s] # {} /\ given' = journals[s]
          /\ left' = given'
          /\ upc' = "read"
       \/ /\ "open" \in Faults \/ \A s \in Seconds : journals[s] = {}
          /\ upc' = "exit1"
          /\ UNCHANGED <<left, given>>
    /\ UNCHANGED <<vars, rc, restored>>

(* The entry in hand; their order is that of the file names here.          *)
Entry == {f \in left : \A g \in left : f <= g}

(* Mutant: the status is that of the last entry.                           *)
LastOutcome(outcome) == outcome

WorstOutcome(outcome) == IF outcome = "exit1" THEN outcome ELSE rc

EndEntry(f, outcome) ==
    /\ left' = left \ {f}
    /\ rc' = WorstOutcome(outcome)
    /\ upc' = "read"

(* undoFile: read and compare.  Only what a repair leaves is turned back.  *)
ReadEntry(f) ==
    /\ upc = "read"
    /\ \/ /\ Content(f) = "valid"
          /\ upc' = "temp"
          /\ UNCHANGED <<left, rc>>
       \/ /\ Content(f) # "valid" \/ "read" \in Faults
          /\ EndEntry(f, "exit1")
    /\ UNCHANGED <<vars, given, restored>>

(* replaceFile, as for a repair.                                           *)
UndoTemp(f) ==
    /\ upc = "temp"
    /\ \/ /\ Exists(f)
          /\ CreateTemp(Undoer, f)
          /\ \/ upc' = "rename"
             \/ "write" \in Faults /\ upc' = "cleanup"
          /\ UNCHANGED <<left, rc>>
       \/ /\ ~Exists(f) \/ "temp" \in Faults
          /\ EndEntry(f, "exit1")
          /\ UNCHANGED fileVars
    /\ UNCHANGED <<row, useVars, lockVars, doctorVars, given, restored>>

UndoRename(f) ==
    /\ upc = "rename"
    /\ \/ /\ temp[Undoer] = f
          /\ RenameOver(Undoer, f, "stale")
          /\ restored' = restored \cup {f}
          /\ EndEntry(f, "exit0")
       \/ /\ temp[Undoer] # f \/ "rename" \in Faults
          /\ upc' = "cleanup"
          /\ UNCHANGED <<fileVars, left, rc, restored>>
    /\ UNCHANGED <<row, useVars, lockVars, doctorVars, given>>

UndoCleanup(f) ==
    /\ upc = "cleanup"
    /\ RemoveTemp(Undoer)
    /\ EndEntry(f, "exit1")
    /\ UNCHANGED <<row, useVars, lockVars, doctorVars, given, restored>>

UndoEnd ==
    /\ upc = "read"
    /\ left = {}
    /\ upc' = rc
    /\ UNCHANGED <<vars, left, rc, given, restored>>

UndoStep ==
    \/ Open \/ UndoEnd
    \/ \E f \in Entry : ReadEntry(f) \/ UndoTemp(f) \/ UndoRename(f) \/ UndoCleanup(f)

DoctorStep ==
    /\ Concurrent \/ ~Undoing
    /\ \E q \in Procs \ {Undoer} : Step(q)
    /\ UNCHANGED undoVars

NextSecond == Tick /\ UNCHANGED undoVars

AllEnded ==
    /\ \A q \in Procs \ {Undoer} : pc[q] \in Ended
    /\ upc \in {"exit0", "exit1"}
    /\ UNCHANGED allVars

UndoNext == UndoStep \/ DoctorStep \/ NextSecond \/ AllEnded

UndoSpec == UndoInit /\ [][UndoNext]_allVars

-----------------------------------------------------------------------------
(* What holds between the parts of the state, for the proofs.              *)

UndoTypeOK ==
    /\ TypeOK
    /\ upc \in UndoLabels
    /\ left \subseteq given
    /\ given \subseteq Files
    /\ restored \subseteq given
    /\ upc = "idle" => given = {}
    /\ rc \in {"exit0", "exit1"}
    /\ pc[Undoer] = "idle"

(* No undo record is of a file of a content-addressed path.                *)
Allowed == {f \in Files : PathOf[f] \notin ContentAddressed}

RecordsAreAllowed ==
    /\ \A q \in Procs : mem[q] \subseteq Allowed
    /\ \A s \in Seconds : journals[s] \subseteq Allowed
    /\ given \subseteq Allowed

(* Unless it has failed, an undo has turned back every entry it is past.   *)
PassedIsRestored ==
    /\ Undoing => Quiet /\ given # {}
    /\ Undoing /\ rc = "exit0" => \A f \in given \ left : Content(f) = "stale"
    /\ upc = "idle" => rc = "exit0"

(* Only an undo at work has a temporary file, beside a file of its journal *)
(* that is still as a repair left it.                                      *)
UndoIsTidy ==
    /\ temp[Undoer] # NoFile => upc \in {"rename", "cleanup"} /\ Exists(temp[Undoer])
    /\ upc \in {"temp", "rename"} => \A f \in Entry : Content(f) = "valid"
    /\ \A f \in given : \E q \in Procs : f \in mem[q]
    /\ \A s \in Seconds : \A f \in journals[s] : \E q \in Procs : f \in mem[q]

(* The findings a repair has counted as fixed, or still may.               *)
Countable(q) ==
    fixed[q] + (IF pc[q] \in InGroup THEN grp[q] ELSE 0)
        + Cardinality(queue[q]) + Cardinality(work[q])

Tallied(q) ==
    /\ IsFiniteSet(found[q])
    /\ pc[q] \in {"idle", "walk", "scan"} => fixed[q] = 0
    /\ pc[q] \in Repairing => Countable(q) <= Cardinality(found[q])
    /\ pc[q] \notin InGroup \ {"dump", "register"} => work[q] = {}

(* Whoever made a row wrong will set it right, is bound to exit with 2 or  *)
(* has done so, or is an undo.                                             *)
Accounted(p) ==
    \/ \E q \in Procs : pc[q] = "exit2"
    \/ \E q \in Procs : pc[q] \in Repairing /\ Countable(q) < Cardinality(found[q])
    \/ \E q \in Procs : pc[q] \in InGroup /\ cur[q] = p /\ grp[q] > 0
    \/ \E f \in restored : PathOf[f] = p

WrongIsAccounted ==
    \A p \in Paths :
        row[p] # NoRow /\ row[p].files # NarOf(p).files => Accounted(p)

-----------------------------------------------------------------------------
(* Properties.                                                             *)

(* When nothing runs, a path whose row is not the hash of what it holds    *)
(* was reported: a repair exited with 2, or undo, which leaves the row to  *)
(* `nix store verify --repair` (doctor.go:750-751), turned a file of it    *)
(* back.                                                                   *)
MismatchIsKnown ==
    Quiet /\ ~Undoing =>
        \A p \in Paths : Mismatched(p) =>
            \/ \E q \in Procs : pc[q] = "exit2"
            \/ \E f \in restored : PathOf[f] = p

(* An undo that ends with 0 has turned back every entry of its journal     *)
(* (doctor.go:767-776): all of them are stale again at that moment, so the *)
(* journal is spent.                                                       *)
UndoIsComplete ==
    [][upc # "exit0" /\ upc' = "exit0" =>
          given # {} /\ \A f \in given : Content(f) = "stale"]_allVars

=============================================================================
