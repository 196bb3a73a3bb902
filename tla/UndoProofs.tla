------------------------------ MODULE UndoProofs ------------------------------
(***************************************************************************)
(* What holds of an undo beside any number of other invocations: it keeps  *)
(* to its types and never touches a content-addressed path.  When no       *)
(* repair runs at the same time, its status 0 means that the whole journal *)
(* was turned back, repairs and undo implement RepairContract, and every   *)
(* row they leave wrong is known of.                                       *)
(***************************************************************************)
EXTENDS Undo, DoctorSafety

(* The steps Undo takes over from Doctor.                                  *)
Others == DoctorStep \/ NextSecond

(* What a repair does is a step of Doctor, whatever undo is up to.         *)
LEMMA OthersAreNext ==
    ASSUME Others
    PROVE  Next /\ UNCHANGED undoVars
BY DEF Others, DoctorStep, NextSecond, Next

-----------------------------------------------------------------------------
(* Types.                                                                  *)

(* Before anything runs nothing is journaled, opened or turned back.       *)
LEMMA InitUndo == UndoInit => UndoTypeOK /\ RecordsAreAllowed /\ PassedIsRestored
BY InitTypeOK, UndoerAssumption
DEF UndoInit, Init, UndoTypeOK, RecordsAreAllowed, PassedIsRestored, UndoLabels, Undoing

(* The outcome of an entry is a status.                                    *)
LEMMA EndEntryType ==
    ASSUME UndoTypeOK, NEW f, NEW outcome \in {"exit0", "exit1"}, EndEntry(f, outcome),
           given' = given
    PROVE  /\ upc' \in UndoLabels \ {"idle"}
           /\ left' \subseteq given'
           /\ rc' \in {"exit0", "exit1"}
BY DEF UndoTypeOK, EndEntry, WorstOutcome, UndoLabels

(* Every step of the undo and of the others keeps the types.               *)
LEMMA UndoTypeInductive == UndoTypeOK /\ [UndoNext]_allVars => UndoTypeOK'
<1> SUFFICES ASSUME UndoTypeOK, [UndoNext]_allVars PROVE UndoTypeOK'
  OBVIOUS
<1>0. /\ TypeOK /\ StoreTypeOK /\ Undoer \in Procs
      /\ \A f \in Entry : f \in left /\ f \in Files /\ f \in given
  BY UndoerAssumption DEF UndoTypeOK, TypeOK, Entry
<1>1. ASSUME Others PROVE UndoTypeOK'
  <2>1. TypeOK'
    BY <1>0, <1>1, OthersAreNext, NextTypeOK
  <2>2. pc'[Undoer] = pc[Undoer]
    <3>1. CASE DoctorStep
      BY <1>0, <3>1, OtherStaysPut DEF DoctorStep
    <3>2. CASE NextSecond
      BY <3>2 DEF NextSecond, Tick
    <3> QED
      BY <1>1, <3>1, <3>2 DEF Others
  <2> QED
    BY <1>1, <2>1, <2>2, OthersAreNext DEF UndoTypeOK, undoVars
<1>2. ASSUME Open PROVE UndoTypeOK'
  <2>1. TypeOK'
    BY <1>0, <1>2, NextTypeOK DEF Open
  <2>2. given' \subseteq Files
    BY <1>0, <1>2 DEF Open, TypeOK, JournalTypeOK, UndoTypeOK
  <2>3. restored' \subseteq given' /\ upc' # "idle"
    BY <1>2 DEF Open, UndoTypeOK
  <2> QED
    BY <1>2, <2>1, <2>2, <2>3 DEF Open, UndoTypeOK, UndoLabels, vars, doctorVars
<1>3. ASSUME NEW f \in Entry, ReadEntry(f) PROVE UndoTypeOK'
  <2>1. TypeOK'
    BY <1>0, <1>3, NextTypeOK DEF ReadEntry
  <2> QED
    BY <1>0, <1>3, <2>1, EndEntryType
    DEF ReadEntry, UndoTypeOK, UndoLabels, vars, doctorVars
<1>4. ASSUME NEW f \in Entry, UndoTemp(f) PROVE UndoTypeOK'
  <2>1. StoreTypeOK'
    BY <1>0, <1>4 DEF UndoTemp, CreateTemp, fileVars, useVars, lockVars, StoreTypeOK
  <2>2. TypeOK'
    BY <1>0, <1>4, <2>1, FrameTypeOK
    DEF UndoTemp, doctorVars, TypeOK, inputVars, scanVars, groupVars, journalVars
  <2> QED
    BY <1>0, <1>4, <2>2, EndEntryType DEF UndoTemp, UndoTypeOK, UndoLabels, doctorVars
<1>5. ASSUME NEW f \in Entry, UndoRename(f) PROVE UndoTypeOK'
  <2>1. StoreTypeOK'
    <3>1. CASE RenameOver(Undoer, f, "stale")
      BY <1>0, <1>5, <3>1, RenameOverType DEF UndoRename, Classes
    <3>2. CASE UNCHANGED fileVars
      BY <1>0, <1>5, <3>2 DEF UndoRename, fileVars, useVars, lockVars, StoreTypeOK
    <3> QED
      BY <1>5, <3>1, <3>2 DEF UndoRename
  <2>2. TypeOK'
    BY <1>0, <1>5, <2>1, FrameTypeOK
    DEF UndoRename, doctorVars, TypeOK, inputVars, scanVars, groupVars, journalVars
  <2> QED
    BY <1>0, <1>5, <2>2, EndEntryType DEF UndoRename, UndoTypeOK, UndoLabels, doctorVars
<1>6. ASSUME NEW f \in Entry, UndoCleanup(f) PROVE UndoTypeOK'
  <2>1. StoreTypeOK'
    BY <1>0, <1>6 DEF UndoCleanup, RemoveTemp, fileVars, useVars, lockVars, StoreTypeOK
  <2>2. TypeOK'
    BY <1>0, <1>6, <2>1, FrameTypeOK
    DEF UndoCleanup, doctorVars, TypeOK, inputVars, scanVars, groupVars, journalVars
  <2> QED
    BY <1>0, <1>6, <2>2, EndEntryType DEF UndoCleanup, UndoTypeOK, UndoLabels, doctorVars
<1>7. ASSUME UndoEnd PROVE UndoTypeOK'
  <2>1. TypeOK'
    BY <1>0, <1>7, NextTypeOK DEF UndoEnd
  <2> QED
    BY <1>7, <2>1 DEF UndoEnd, UndoTypeOK, UndoLabels, vars, doctorVars
<1>8. ASSUME UNCHANGED allVars PROVE UndoTypeOK'
  <2>1. TypeOK'
    BY <1>0, <1>8, NextTypeOK DEF allVars
  <2> QED
    BY <1>8, <2>1 DEF allVars, undoVars, vars, doctorVars, UndoTypeOK
<1> QED
  BY <1>1, <1>2, <1>3, <1>4, <1>5, <1>6, <1>7, <1>8
  DEF UndoNext, UndoStep, Others, AllEnded


-----------------------------------------------------------------------------
(* The refusals.                                                           *)

(* Repairs record no file of a content-addressed path, as they rename none *)
(* (doctor.go:546); the journals hold what was recorded.                   *)
LEMMA RecordsStep ==
    ASSUME TypeOK, GroupIsOnePath, RecordsAreAllowed, Next
    PROVE  /\ \A q \in Procs : mem'[q] \subseteq Allowed
           /\ \A s \in Seconds : journals'[s] \subseteq Allowed
<1> USE DEF RecordsAreAllowed, TypeOK, JournalTypeOK, ControlTypeOK
<1>1. ASSUME NEW q \in Procs, Rename(q), mem' # mem
      PROVE  /\ \A r \in Procs : mem'[r] \subseteq Allowed
             /\ journals' = journals
  <2>1. PICK x \in First(work[q]) : JournalFile(q, x.file)
    BY <1>1 DEF Rename, journalVars
  <2>2. x \in work[q] /\ x.file \in Files
    BY <2>1, FirstSubset DEF GroupTypeOK, Findings
  <2>3. x.file \in Allowed
    BY <1>1, <2>2 DEF Rename, GroupIsOnePath, InGroup, Allowed
  <2> QED
    BY <2>1, <2>3 DEF JournalFile
<1>2. ASSUME NEW q \in Procs, WriteJournal(q)
      PROVE  mem' = mem /\ \A s \in Seconds : journals'[s] \subseteq Allowed
  BY <1>2 DEF WriteJournal, SaveJournal
<1>3. CASE UNCHANGED <<mem, journals>>
  BY <1>3
<1>4. ASSUME NEW q \in Procs, Rename(q), mem' = mem PROVE journals' = journals
  BY <1>4 DEF Rename, JournalFile, journalVars
<1>5. ASSUME NEW q \in Procs, Step(q) \/ Crash(q), ~Rename(q), ~WriteJournal(q)
      PROVE  UNCHANGED <<mem, journals>>
  <2>1. CASE Start(q) \/ Walk(q) \/ EndScan(q) \/ Report(q) \/ Crash(q)
    BY <2>1 DEF Start, Walk, EndScan, Report, Crash, journalVars
  <2>2. CASE \E f \in Files : ScanFile(q, f)
    BY <2>2 DEF ScanFile, journalVars
  <2>3. CASE Lock(q) \/ NextGroup(q) \/ NoMoreGroups(q) \/ CheckCA(q) \/ CheckBlockers(q)
    BY <2>3 DEF Lock, NextGroup, NoMoreGroups, CheckCA, CheckBlockers, CheckUse, journalVars
  <2>4. CASE Plan(q) \/ MakeTemp(q) \/ Cleanup(q) \/ Dump(q) \/ Register(q) \/ Release(q)
    BY <2>4 DEF Plan, MakeTemp, Cleanup, Dump, Register, Release, journalVars
  <2> QED
    BY <1>5, <2>1, <2>2, <2>3, <2>4 DEF Step
<1>6. CASE NixUse \/ NixCollect \/ NixEndGC \/ Tick \/ Terminated
  BY <1>6 DEF NixUse, NixCollect, NixEndGC, Tick, Terminated, vars, doctorVars, journalVars
<1> QED
  BY <1>1, <1>2, <1>3, <1>4, <1>5, <1>6 DEF Next

(* An undo is given what the journals hold and records nothing.            *)
LEMMA RecordsInductive ==
    UndoTypeOK /\ GroupIsOnePath /\ RecordsAreAllowed /\ [UndoNext]_allVars =>
        RecordsAreAllowed'
<1> SUFFICES ASSUME UndoTypeOK, GroupIsOnePath, RecordsAreAllowed, [UndoNext]_allVars
             PROVE  RecordsAreAllowed'
  OBVIOUS
<1>1. CASE Others
  BY <1>1, OthersAreNext, RecordsStep DEF UndoTypeOK, RecordsAreAllowed, undoVars
<1>2. CASE Open
  BY <1>2 DEF Open, RecordsAreAllowed, vars, doctorVars
<1>3. CASE UNCHANGED <<mem, journals, given>>
  BY <1>3 DEF RecordsAreAllowed
<1> QED
  BY <1>1, <1>2, <1>3
  DEF UndoNext, UndoStep, Others, AllEnded, ReadEntry, UndoTemp, UndoRename, UndoCleanup,
      UndoEnd, allVars, undoVars, vars, doctorVars

(* What Doctor's invariants speak of, an undo leaves alone.                *)
LEMMA ScopeInductive ==
    UndoTypeOK /\ WorkIsFound /\ GroupIsOnePath /\ [UndoNext]_allVars =>
        WorkIsFound' /\ GroupIsOnePath'
<1> SUFFICES ASSUME UndoTypeOK, WorkIsFound, GroupIsOnePath, [UndoNext]_allVars
             PROVE  WorkIsFound' /\ GroupIsOnePath'
  OBVIOUS
<1>1. CASE Others
  BY <1>1, OthersAreNext, WorkIsFoundInductive, GroupIsOnePathInductive DEF UndoTypeOK
<1>2. CASE UNCHANGED doctorVars
  BY <1>2 DEF doctorVars, WorkIsFound, GroupIsOnePath, Scope, Fixing
<1> QED
  BY <1>1, <1>2
  DEF UndoNext, UndoStep, Others, AllEnded, Open, ReadEntry, UndoTemp, UndoRename,
      UndoCleanup, UndoEnd, allVars, vars

(* The only step of an undo that gives a file other bytes is its rename,   *)
(* of a file in its journal (doctor.go:742).                               *)
LEMMA UndoRefusalsStep ==
    UndoTypeOK /\ WorkIsFound /\ GroupIsOnePath /\ RecordsAreAllowed /\ [UndoNext]_allVars =>
        [WritesInScope]_vars
<1> SUFFICES ASSUME UndoTypeOK, WorkIsFound, GroupIsOnePath, RecordsAreAllowed,
                    [UndoNext]_allVars
             PROVE  [WritesInScope]_vars
  OBVIOUS
<1>1. CASE Others
  BY <1>1, OthersAreNext, RefusalsStep DEF UndoTypeOK
<1>2. ASSUME NEW f \in Entry, UndoRename(f) PROVE WritesInScope
  <2>1. f \in Allowed /\ f \in Files /\ Undoer \in Procs
    BY UndoerAssumption DEF Entry, UndoTypeOK, RecordsAreAllowed
  <2>2. \A g \in Files \ {f} : dir'[g] = dir[g]
    BY <1>2, <2>1, RenameOverDir DEF UndoRename, fileVars, UndoTypeOK, TypeOK
  <2>3. dir'[f] # dir[f] => Writes(Undoer, f)
    BY <1>2 DEF UndoRename, fileVars, Writes, UndoTypeOK
  <2> QED
    BY <2>1, <2>2, <2>3 DEF WritesInScope, Allowed
<1>3. ASSUME UNCHANGED dir PROVE WritesInScope
  BY <1>3 DEF WritesInScope
<1> QED
  BY <1>1, <1>2, <1>3
  DEF UndoNext, UndoStep, Others, AllEnded, Open, ReadEntry, UndoTemp, UndoCleanup,
      UndoEnd, CreateTemp, RemoveTemp, allVars, vars, storeVars, fileVars

(* An undo, beside whatever repairs, respects the refusals as they do: no  *)
(* file of a content-addressed path gets other bytes, and nobody writes    *)
(* outside what it was given.                                              *)
THEOREM RefusalsHoldWithUndo == UndoSpec => RefusalsHold
<1>1. UndoInit => WorkIsFound /\ GroupIsOnePath
  BY DEF UndoInit, Init, WorkIsFound, GroupIsOnePath, Scope, Repairing, InGroup
<1> QED
  BY <1>1, InitUndo, UndoTypeInductive, ScopeInductive, RecordsInductive,
     UndoRefusalsStep, PTL DEF UndoSpec, RefusalsHold

-----------------------------------------------------------------------------
(* Completeness.                                                           *)

(* While an undo runs alone, the entries behind it stay turned back.       *)
LEMMA PassedIsRestoredInductive ==
    ASSUME ~Concurrent
    PROVE  UndoTypeOK /\ PassedIsRestored /\ [UndoNext]_allVars => PassedIsRestored'
<1> SUFFICES ASSUME UndoTypeOK, PassedIsRestored, [UndoNext]_allVars PROVE PassedIsRestored'
  OBVIOUS
<1> USE DEF PassedIsRestored
<1>0. /\ StoreTypeOK
      /\ \A f \in Entry : f \in left /\ f \in Files
  BY DEF UndoTypeOK, TypeOK, Entry
<1>1. CASE DoctorStep
  BY <1>1 DEF DoctorStep, Undoing, undoVars
<1>2. CASE UNCHANGED <<dir, bytes, pc, upc, given, left, rc>>
  BY <1>2 DEF Undoing, Quiet, Running, Content
<1>3. CASE Open
  BY <1>3 DEF Open, Undoing, Quiet, Running, vars, doctorVars
<1>4. ASSUME NEW f \in Entry, UndoRename(f) PROVE PassedIsRestored'
  <2>1. pc' = pc /\ given' = given
    BY <1>4 DEF UndoRename, doctorVars
  <2>2. CASE RenameOver(Undoer, f, "stale") /\ EndEntry(f, "exit0")
    <3>1. rc' = rc /\ left' = left \ {f}
      BY <2>2 DEF EndEntry, WorstOutcome
    <3>2. \A g \in Files : Content(g)' = IF g = f THEN "stale" ELSE Content(g)
      BY <1>0, <2>2, RenameOverContent
    <3> QED
      BY <1>4, <2>1, <2>2, <3>1, <3>2
      DEF UndoRename, EndEntry, Undoing, Quiet, Running, UndoTypeOK
  <2>3. CASE UNCHANGED <<fileVars, left, rc>> /\ upc' = "cleanup"
    BY <1>4, <2>1, <2>3 DEF UndoRename, Undoing, Quiet, Running, Content, fileVars
  <2> QED
    BY <1>4, <2>2, <2>3 DEF UndoRename
<1>5. ASSUME NEW f \in Entry, ReadEntry(f) \/ UndoTemp(f) \/ UndoCleanup(f)
      PROVE  PassedIsRestored'
  <2>1. UNCHANGED <<dir, bytes, pc, given>>
    BY <1>5 DEF ReadEntry, UndoTemp, UndoCleanup, CreateTemp, RemoveTemp, fileVars,
                vars, storeVars, doctorVars
  <2>2. UNCHANGED <<left, rc>> \/ rc' = "exit1"
    BY <1>5 DEF ReadEntry, UndoTemp, UndoCleanup, EndEntry, WorstOutcome
  <2>3. Undoing /\ upc' # "idle"
    BY <1>5 DEF ReadEntry, UndoTemp, UndoCleanup, EndEntry, Undoing
  <2> QED
    BY <2>1, <2>2, <2>3 DEF Undoing, Quiet, Running, Content
<1>6. CASE UndoEnd
  BY <1>6 DEF UndoEnd, Undoing, UndoTypeOK
<1>7. CASE NextSecond
  BY <1>2, <1>7 DEF NextSecond, Tick, storeVars, undoVars
<1>8. CASE UNCHANGED allVars
  BY <1>2, <1>8 DEF allVars, undoVars, vars, storeVars, doctorVars
<1> QED
  BY <1>1, <1>3, <1>4, <1>5, <1>6, <1>7, <1>8 DEF UndoNext, UndoStep, AllEnded

(* When no repair runs at the same time, an undo that ends with 0 has      *)
(* turned back every file of its journal.                                  *)
THEOREM ZeroMeansUndone ==
    ASSUME ~Concurrent
    PROVE  UndoSpec => UndoIsComplete
<1> DEFINE Complete == upc # "exit0" /\ upc' = "exit0" =>
                           given # {} /\ \A f \in given : Content(f) = "stale"
<1>1. UndoTypeOK /\ PassedIsRestored /\ [UndoNext]_allVars => [Complete]_allVars
  <2> SUFFICES ASSUME UndoTypeOK, PassedIsRestored, [UndoNext]_allVars,
                      upc # "exit0", upc' = "exit0"
               PROVE  given # {} /\ \A f \in given : Content(f) = "stale"
    OBVIOUS
  <2>1. UndoEnd
    BY DEF UndoNext, UndoStep, DoctorStep, NextSecond, AllEnded, Open, ReadEntry, UndoTemp,
           UndoRename, UndoCleanup, EndEntry, allVars, undoVars
  <2> QED
    BY <2>1 DEF UndoEnd, PassedIsRestored, Undoing
<1> QED
  BY <1>1, InitUndo, UndoTypeInductive, PassedIsRestoredInductive, PTL
  DEF UndoSpec, UndoIsComplete

-----------------------------------------------------------------------------
(* The contract, with an undo.                                             *)

(* What the undo and the repairs rely on when they do not overlap.         *)
InTurn ==
    /\ OneAtATime
    /\ Undoing => Quiet
    /\ \A q \in Procs \ {Undoer} : Undisturbed(q)
    /\ \A q \in Procs : NarIsCurrent(q)
    /\ \A p \in Paths : row[p] # NoRow
    /\ \A f \in Files : Exists(f)

(* While no undo is at work, nobody but those that repair has a temporary  *)
(* file.                                                                   *)
LEMMA AllAreUndisturbed ==
    ASSUME UndoTypeOK, InTurn, UndoIsTidy, ~Undoing
    PROVE  \A q \in Procs : Undisturbed(q)
<1>1. temp[Undoer] \notin Files /\ pc[Undoer] = "idle"
  BY FilesAssumption DEF UndoTypeOK, UndoIsTidy, Undoing
<1>2. Undisturbed(Undoer)
  BY <1>1 DEF Undisturbed, TempHasFile, StaleAhead
<1> QED
  BY <1>2 DEF InTurn

(* Without collections, a path stays valid once it is.                     *)
LEMMA RowsStay ==
    ASSUME TypeOK, NEW q \in Procs, NarIsCurrent(q), Step(q), \A p \in Paths : row[p] # NoRow
    PROVE  \A p \in Paths : row'[p] # NoRow
<1>1. CASE UNCHANGED row
  BY <1>1
<1>2. CASE Register(q) /\ RegisterValidity(cur[q], nar[q])
  BY <1>2 DEF Register, RegisterValidity, NarIsCurrent, TypeOK, StoreTypeOK
<1> QED
  BY <1>1, <1>2, OnlyRegisterRecords

(* The undo opens no files and leaves the repairs' variables alone.        *)
LEMMA UndoKeepsDoctor ==
    ASSUME UndoTypeOK, UndoStep
    PROVE  /\ UNCHANGED <<doctorVars, row, litter>>
           /\ \A q \in Procs \ {Undoer} : temp'[q] = temp[q]
<1> USE DEF vars, storeVars, fileVars, useVars, lockVars, doctorVars
<1>1. CASE Open \/ UndoEnd
  BY <1>1 DEF Open, UndoEnd
<1>2. ASSUME NEW f \in Entry, ReadEntry(f) \/ UndoTemp(f) \/ UndoRename(f) \/ UndoCleanup(f)
      PROVE  /\ UNCHANGED <<doctorVars, row, litter>>
             /\ \A q \in Procs \ {Undoer} : temp'[q] = temp[q]
  BY <1>2 DEF ReadEntry, UndoTemp, UndoRename, UndoCleanup, CreateTemp, RemoveTemp,
              RenameOver, UndoTypeOK, TypeOK, StoreTypeOK
<1> QED
  BY <1>1, <1>2 DEF UndoStep

(* What the undo does to the temporary files and the contents.             *)
LEMMA UndoFiles ==
    ASSUME UndoTypeOK, UndoStep
    PROVE  \/ UNCHANGED <<dir, bytes>>
           \/ \E f \in Entry :
                 /\ UndoRename(f) /\ temp[Undoer] = f
                 /\ RenameOver(Undoer, f, "stale")
BY DEF UndoStep, Open, UndoEnd, ReadEntry, UndoTemp, UndoRename, UndoCleanup,
       CreateTemp, RemoveTemp, vars, storeVars, fileVars

LEMMA InTurnInductive ==
    ASSUME ~Concurrent
    PROVE  UndoTypeOK /\ InTurn /\ UndoIsTidy /\ [UndoNext]_allVars => InTurn'
<1> SUFFICES ASSUME UndoTypeOK, InTurn, UndoIsTidy, [UndoNext]_allVars PROVE InTurn'
  OBVIOUS
<1>0. TypeOK
  BY DEF UndoTypeOK
<1>1. CASE DoctorStep
  <2>1. PICK q \in Procs \ {Undoer} : Step(q)
    BY <1>1 DEF DoctorStep
  <2>2. ~Undoing /\ ~Undoing'
    BY <1>1 DEF DoctorStep, Undoing, undoVars
  <2>3. \A r \in Procs \ {q} : ~Running(r)
    BY <2>1, OthersRest DEF InTurn
  <2>4. OneAtATime'
    BY <1>0, <2>1, OneAtATimeInductive DEF InTurn, Next
  <2>5. \A r \in Procs \ {Undoer} : Undisturbed(r)'
    BY <1>0, <2>1, <2>3, UndisturbedStep, RestingUndisturbed DEF InTurn
  <2>6. \A r \in Procs : NarIsCurrent(r)'
    BY <1>0, <2>1, <2>3, NarIsCurrentStep, RestingUndisturbed DEF InTurn
  <2>7. \A p \in Paths : row'[p] # NoRow
    BY <1>0, <2>1, RowsStay DEF InTurn
  <2>8. \A f \in Files : Exists(f)'
    <3>1. ~\E p \in Paths : Collect(p)
      BY <1>0, <2>7 DEF Collect, TypeOK, StoreTypeOK
    <3> QED
      BY <1>0, <2>1, <3>1, OnlyCollectUnlinks DEF InTurn, Next
  <2> QED
    BY <2>2, <2>4, <2>5, <2>6, <2>7, <2>8 DEF InTurn
<1>2. CASE UndoStep
  <2>1. UNCHANGED doctorVars /\ row' = row /\ \A q \in Procs \ {Undoer} : temp'[q] = temp[q]
    BY <1>2, UndoKeepsDoctor
  <2>2. Quiet /\ Quiet'
    BY <1>2, <2>1 DEF InTurn, UndoStep, Open, UndoEnd, ReadEntry, UndoTemp, UndoRename,
                      UndoCleanup, Undoing, Quiet, Running, doctorVars
  <2>3. \A q \in Procs : pc[q] \in {"idle"} \cup Ended
    BY <1>0, <2>2 DEF Quiet, Running, TypeOK, ControlTypeOK
  <2>4. \A q \in Procs \ {Undoer} : Undisturbed(q)'
    BY <2>1, <2>3 DEF InTurn, Undisturbed, TempHasFile, StaleAhead, Ended, Exits, doctorVars
  <2>5. \A q \in Procs : NarIsCurrent(q)'
    BY <2>1, <2>3 DEF NarIsCurrent, Ended, Exits, doctorVars
  <2>6. OneAtATime'
    BY <2>2 DEF OneAtATime, Quiet
  <2>7. \A f \in Files : Exists(f)'
    BY <1>0, <1>2, UndoFiles, InodesAssumption
    DEF InTurn, RenameOver, FreshInode, Exists, TypeOK, StoreTypeOK
  <2> QED
    BY <2>1, <2>2, <2>4, <2>5, <2>6, <2>7 DEF InTurn
<1>3. CASE UNCHANGED <<dir, bytes, temp, row, gcShared, pc, work, cur, nar, upc>>
  BY <1>3, SameFiles DEF InTurn, OneAtATime, Undoing, Quiet, Running, Undisturbed,
                         TempHasFile, StaleAhead, NarIsCurrent
<1> QED
  BY <1>1, <1>2, <1>3
  DEF UndoNext, NextSecond, Tick, AllEnded, allVars, undoVars, vars, storeVars, doctorVars,
      groupVars, lockVars

(* A journal on disk is the memory of a repair, which only grows.          *)
LEMMA JournalsAreRecords ==
    ASSUME TypeOK, NEW q \in Procs, Step(q),
           \A s \in Seconds : \A f \in journals[s] : \E r \in Procs : f \in mem[r]
    PROVE  /\ \A r \in Procs : mem[r] \subseteq mem'[r]
           /\ \A s \in Seconds : \A f \in journals'[s] : \E r \in Procs : f \in mem'[r]
<1> USE DEF TypeOK, JournalTypeOK, journalVars
<1>1. CASE Start(q) \/ Walk(q) \/ EndScan(q) \/ Report(q)
  BY <1>1 DEF Start, Walk, EndScan, Report
<1>2. CASE \E f \in Files : ScanFile(q, f)
  BY <1>2 DEF ScanFile
<1>3. CASE Lock(q) \/ NextGroup(q) \/ NoMoreGroups(q) \/ CheckCA(q) \/ CheckBlockers(q)
  BY <1>3 DEF Lock, NextGroup, NoMoreGroups, CheckCA, CheckBlockers, CheckUse
<1>4. CASE Plan(q) \/ MakeTemp(q) \/ Cleanup(q) \/ Dump(q) \/ Register(q) \/ Release(q)
  BY <1>4 DEF Plan, MakeTemp, Cleanup, Dump, Register, Release
<1>5. CASE Rename(q)
  <2>1. \A r \in Procs : mem[r] \subseteq mem'[r]
    BY <1>5 DEF Rename, JournalFile
  <2>2. journals' = journals
    BY <1>5 DEF Rename, JournalFile
  <2> QED
    BY <2>1, <2>2
<1>6. CASE WriteJournal(q)
  BY <1>6 DEF WriteJournal, SaveJournal
<1> QED
  BY <1>1, <1>2, <1>3, <1>4, <1>5, <1>6 DEF Step

(* The entry in hand is one file.                                          *)
LEMMA EntryIsOneFile ==
    ASSUME UndoTypeOK, NEW f \in Entry, NEW g \in Entry
    PROVE  f = g /\ f \in Files
<1>1. f \in Files /\ g \in Files /\ f <= g /\ g <= f
  BY DEF Entry, UndoTypeOK
<1> QED
  BY <1>1, FilesAssumption

LEMMA UndoIsTidyInductive ==
    ASSUME ~Concurrent
    PROVE  UndoTypeOK /\ UndoIsTidy /\ [UndoNext]_allVars => UndoIsTidy'
<1> SUFFICES ASSUME UndoTypeOK, UndoIsTidy, [UndoNext]_allVars PROVE UndoIsTidy'
  OBVIOUS
<1> USE DEF UndoIsTidy
<1>0. TypeOK /\ StoreTypeOK /\ Undoer \in Procs
  BY UndoerAssumption DEF UndoTypeOK, TypeOK
<1>1. CASE DoctorStep
  <2>1. PICK q \in Procs \ {Undoer} : Step(q)
    BY <1>1 DEF DoctorStep
  <2>2. ~Undoing /\ UNCHANGED <<upc, given>> /\ temp'[Undoer] = temp[Undoer]
    BY <1>0, <1>1, <2>1, OtherKeepsGroup DEF DoctorStep, undoVars
  <2>3. upc \notin {"temp", "rename", "cleanup"}
    BY <2>2 DEF Undoing
  <2>4. /\ \A r \in Procs : mem[r] \subseteq mem'[r]
        /\ \A s \in Seconds : \A f \in journals'[s] : \E r \in Procs : f \in mem'[r]
    BY <1>0, <2>1, JournalsAreRecords
  <2> QED
    BY <2>2, <2>3, <2>4
<1>2. CASE Open
  BY <1>2 DEF Open, vars, storeVars, doctorVars, Exists
<1>3. ASSUME NEW f \in Entry, ReadEntry(f) PROVE UndoIsTidy'
  <2>1. UNCHANGED <<dir, bytes, temp, mem, journals, given>> /\ upc = "read"
    BY <1>3 DEF ReadEntry, vars, storeVars, doctorVars, journalVars
  <2>2. \/ Content(f) = "valid" /\ upc' = "temp" /\ left' = left
        \/ upc' = "read"
    BY <1>3 DEF ReadEntry, EndEntry
  <2> QED
    BY <2>1, <2>2, SameFiles, EntryIsOneFile DEF Entry
<1>4. ASSUME NEW f \in Entry, UndoTemp(f) PROVE UndoIsTidy'
  <2>1. UNCHANGED <<dir, bytes, mem, journals, given>> /\ upc = "temp"
    BY <1>4 DEF UndoTemp, CreateTemp, fileVars, doctorVars, journalVars
  <2>2. \/ /\ Exists(f) /\ temp'[Undoer] = f /\ left' = left
           /\ upc' \in {"rename", "cleanup"}
        \/ temp' = temp /\ upc' = "read"
    BY <1>0, <1>4 DEF UndoTemp, CreateTemp, EndEntry, fileVars, StoreTypeOK
  <2> QED
    BY <2>1, <2>2, SameFiles DEF Entry
<1>5. ASSUME NEW f \in Entry, UndoRename(f) PROVE UndoIsTidy'
  <2>1. UNCHANGED <<mem, journals, given>>
    BY <1>5 DEF UndoRename, doctorVars, journalVars
  <2>2. CASE RenameOver(Undoer, f, "stale") /\ EndEntry(f, "exit0")
    <3>1. temp'[Undoer] = NoFile /\ upc' = "read"
      BY <1>0, <2>2 DEF RenameOver, EndEntry, StoreTypeOK
    <3> QED
      BY <2>1, <3>1
  <2>3. CASE UNCHANGED fileVars /\ upc' = "cleanup"
    BY <1>5, <2>1, <2>3, SameFiles DEF fileVars, UndoRename
  <2> QED
    BY <1>5, <2>2, <2>3 DEF UndoRename
<1>6. ASSUME NEW f \in Entry, UndoCleanup(f) PROVE UndoIsTidy'
  BY <1>0, <1>6 DEF UndoCleanup, RemoveTemp, EndEntry, doctorVars, journalVars, StoreTypeOK
<1>7. CASE UndoEnd
  BY <1>7 DEF UndoEnd, vars, storeVars, doctorVars, UndoTypeOK
<1>8. CASE UNCHANGED <<dir, bytes, temp, mem, journals, upc, left, given>>
  BY <1>8, SameFiles DEF Entry
<1> QED
  BY <1>1, <1>2, <1>3, <1>4, <1>5, <1>6, <1>7, <1>8
  DEF UndoNext, UndoStep, NextSecond, Tick, AllEnded, allVars, undoVars, vars, storeVars,
      doctorVars, journalVars

(* An undo turns back files that a repair made valid, one at a time.       *)
LEMMA UndoRestores ==
    ASSUME UndoTypeOK, UndoIsTidy, UndoStep
    PROVE  [Contract!Next]_(Contract!contractVars)
<1>0. UNCHANGED <<row, mem>>
  BY UndoKeepsDoctor DEF doctorVars
<1>1. CASE UNCHANGED <<dir, bytes>>
  BY <1>0, <1>1, ContractStutters
<1>2. ASSUME NEW f \in Entry, UndoRename(f), RenameOver(Undoer, f, "stale")
      PROVE  Contract!Restore(f) /\ f \in Files
  <2>1. f \in Files /\ f \in given /\ StoreTypeOK
    BY DEF Entry, UndoTypeOK, TypeOK
  <2>2. Content(f) = "valid" /\ \E q \in Procs : f \in mem[q]
    BY <1>2, <2>1 DEF UndoRename, UndoIsTidy
  <2>3. \A g \in Files : Content(g)' = IF g = f THEN "stale" ELSE Content(g)
    BY <1>2, <2>1, RenameOverContent
  <2>4. FileContents' = [FileContents EXCEPT ![f] = "stale"]
    BY <2>1, <2>3 DEF FileContents
  <2>5. f \in MadeValid /\ MadeValid' = MadeValid \ {f}
    BY <1>0, <2>1, <2>2, <2>3 DEF MadeValid
  <2>6. RecordedContents' = RecordedContents
    BY <1>0 DEF RecordedContents
  <2> QED
    BY <2>1, <2>4, <2>5, <2>6 DEF Contract!Restore
<1> QED
  BY <1>1, <1>2, UndoFiles DEF Contract!Next

(* Everything that holds of repairs and an undo that do not overlap.       *)
UndoInd ==
    /\ UndoTypeOK /\ GroupIsOnePath /\ InTurn /\ UndoIsTidy /\ Tidy /\ NoTempRecorded

LEMMA UndoIndInit == UndoInit => UndoInd
<1> SUFFICES ASSUME UndoInit PROVE UndoInd
  OBVIOUS
<1>1. Init /\ TypeOK /\ UndoTypeOK
  BY InitUndo, InitTypeOK DEF UndoInit
<1>2. GroupIsOnePath /\ OneAtATime /\ Tidy
  BY <1>1 DEF Init, GroupIsOnePath, InGroup, OneAtATime, Running, Tidy
<1>3. \A q \in Procs : Undisturbed(q) /\ NarIsCurrent(q)
  BY <1>1, FilesAssumption DEF Init, Undisturbed, TempHasFile, StaleAhead, NarIsCurrent
<1>4. NoTempRecorded
  BY <1>1, FilesAssumption DEF Init, NoTempRecorded, NarOf, TempIn
<1>5. /\ \A p \in Paths : row[p] # NoRow
      /\ \A f \in Files : Exists(f)
  BY <1>1, NarType, RowAssumption, HomeAssumption, InodesAssumption DEF Init, TypeOK, Exists
<1>6. UndoIsTidy /\ ~Undoing
  BY <1>1, UndoerAssumption DEF UndoInit, Init, UndoIsTidy, Undoing
<1> QED
  BY <1>1, <1>2, <1>3, <1>4, <1>5, <1>6 DEF UndoInd, InTurn

LEMMA UndoIndInductive ==
    ASSUME ~Concurrent
    PROVE  UndoInd /\ [UndoNext]_allVars => UndoInd'
<1> SUFFICES ASSUME UndoInd, [UndoNext]_allVars PROVE UndoInd'
  OBVIOUS
<1> USE DEF UndoInd
<1>1. UndoTypeOK' /\ InTurn' /\ UndoIsTidy'
  BY UndoTypeInductive, InTurnInductive, UndoIsTidyInductive
<1>2. CASE DoctorStep
  <2>1. PICK q \in Procs \ {Undoer} : Step(q)
    BY <1>2 DEF DoctorStep
  <2>2. ~Undoing
    BY <1>2 DEF DoctorStep
  <2>3. \A r \in Procs \ {q} : ~Running(r)
    BY <2>1, OthersRest DEF InTurn
  <2>4. \A r \in Procs : TempHasFile(r)
    BY <2>2, AllAreUndisturbed DEF Undisturbed
  <2>5. Tidy' /\ NoTempRecorded'
    BY <2>1, <2>3, <2>4, TidyStep DEF UndoTypeOK
  <2>6. GroupIsOnePath'
    BY <2>1, GroupIsOnePathInductive DEF UndoTypeOK, Next
  <2> QED
    BY <1>1, <2>5, <2>6
<1>3. CASE UNCHANGED <<pc, work, cur, litter, nar, row>>
  BY <1>1, <1>3 DEF GroupIsOnePath, Tidy, NoTempRecorded
<1>4. CASE UndoStep
  BY <1>3, <1>4, UndoKeepsDoctor DEF doctorVars, groupVars
<1> QED
  BY <1>2, <1>3, <1>4
  DEF UndoNext, NextSecond, Tick, AllEnded, allVars, vars, storeVars, doctorVars, groupVars

(* Repairs and an undo, one after the other in any order, keep to the      *)
(* contract whatever call fails, the lock's included: an undo only turns   *)
(* back what a repair made valid.                                          *)
THEOREM UndoImplementsContract ==
    ASSUME ~Concurrent
    PROVE  UndoSpec => ImplementsContract
<1>1. UndoInd /\ [UndoNext]_allVars => [Contract!Next]_(Contract!contractVars)
  <2> SUFFICES ASSUME UndoInd, [UndoNext]_allVars
               PROVE  [Contract!Next]_(Contract!contractVars)
    OBVIOUS
  <2> USE DEF UndoInd
  <2>1. CASE DoctorStep
    <3>1. PICK q \in Procs \ {Undoer} : Step(q)
      BY <2>1 DEF DoctorStep
    <3>2. pc[q] = "register" => cur[q] \in Paths
      BY DEF InTurn, NarIsCurrent, UndoTypeOK, TypeOK, GroupTypeOK
    <3> QED
      BY <3>1, <3>2, ContractStep, FirstIsOneFile DEF InTurn, Held, UndoTypeOK
  <2>2. CASE UndoStep
    BY <2>2, UndoRestores
  <2>3. CASE UNCHANGED <<dir, bytes, row, mem>>
    BY <2>3, ContractStutters
  <2> QED
    BY <2>1, <2>2, <2>3
    DEF UndoNext, NextSecond, Tick, AllEnded, allVars, vars, storeVars, doctorVars, journalVars
<1> QED
  BY <1>1, UndoIndInit, UndoIndInductive, ContractInit, PTL
  DEF UndoSpec, UndoInit, ImplementsContract, Contract!Spec

(* Nor does the database ever record a temporary file of the undo.         *)
THEOREM NoTempIsRecordedWithUndo ==
    ASSUME ~Concurrent
    PROVE  UndoSpec => []NoTempRecorded
<1>1. UndoInd => NoTempRecorded
  BY DEF UndoInd
<1> QED
  BY <1>1, UndoIndInit, UndoIndInductive, PTL DEF UndoSpec

-----------------------------------------------------------------------------
(* Wrong rows.                                                             *)

(* Adding up what is counted and what is left.                             *)
LEMMA TallySizes ==
    ASSUME TypeOK, WorkIsFound, NEW q \in Procs, Tallied(q)
    PROVE  /\ IsFiniteSet(found[q]) /\ IsFiniteSet(queue[q]) /\ IsFiniteSet(work[q])
           /\ Cardinality(found[q]) \in Nat /\ Cardinality(queue[q]) \in Nat
           /\ Cardinality(work[q]) \in Nat /\ fixed[q] \in Nat /\ grp[q] \in Nat
           /\ Countable(q) \in Nat
<1>1. IsFiniteSet(found[q]) /\ queue[q] \in SUBSET found[q] /\ work[q] \in SUBSET found[q]
  BY DEF Tallied, WorkIsFound
<1>2. IsFiniteSet(queue[q]) /\ IsFiniteSet(work[q])
  BY <1>1, FS_Subset, Zenon
<1>3. /\ Cardinality(found[q]) \in Nat /\ Cardinality(queue[q]) \in Nat
      /\ Cardinality(work[q]) \in Nat
  BY <1>1, <1>2, FS_CardinalityType, Zenon
<1>4. fixed[q] \in Nat /\ grp[q] \in Nat
  BY DEF TypeOK, GroupTypeOK
<1> QED
  BY <1>1, <1>2, <1>3, <1>4 DEF Countable

(* A group given up leaves what it did uncounted.                          *)
LEMMA GiveUpCounts ==
    ASSUME TypeOK, WorkIsFound, NEW q \in Procs, Tallied(q), pc[q] \in InGroup,
           GiveUpGroup(q)
    PROVE  /\ pc'[q] = "group" /\ work'[q] = {}
           /\ Countable(q)' \in Nat /\ Countable(q)' <= Countable(q)
           /\ grp[q] > 0 => Countable(q)' < Countable(q)
<1>1. /\ pc'[q] = "group" /\ work'[q] = {}
      /\ queue' = queue /\ grp' = grp /\ fixed' = fixed
  BY DEF GiveUpGroup, GoTo, TypeOK, ControlTypeOK, GroupTypeOK
<1>2. Cardinality(work'[q]) = 0
  BY <1>1, FS_EmptySet, Zenon
<1>3. Countable(q)' = fixed[q] + Cardinality(queue[q])
  BY <1>1, <1>2, TallySizes DEF Countable, InGroup
<1>4. Countable(q) = fixed[q] + grp[q] + Cardinality(queue[q]) + Cardinality(work[q])
  BY DEF Countable
<1> QED
  BY <1>1, <1>3, <1>4, TallySizes

(* The next group is taken from the queue.                                 *)
LEMMA NextGroupCounts ==
    ASSUME TypeOK, WorkIsFound, NEW q \in Procs, Tallied(q), NextGroup(q)
    PROVE  pc'[q] \in {"ca", "plan"} /\ Countable(q)' = Countable(q)
<1>1. PICK x \in First(queue[q]) :
          LET group == {y \in queue[q] : KeyOf(y.file) = KeyOf(x.file)}
          IN /\ work' = [work EXCEPT ![q] = group]
             /\ queue' = [queue EXCEPT ![q] = @ \ group]
             /\ GoTo(q, IF PathOf[x.file] = NoPath THEN "plan" ELSE "ca")
  BY DEF NextGroup
<1> DEFINE group == {y \in queue[q] : KeyOf(y.file) = KeyOf(x.file)}
<1>2. /\ work'[q] = group /\ queue'[q] = queue[q] \ group /\ pc'[q] \in {"ca", "plan"}
      /\ pc[q] = "group" /\ grp'[q] = 0 /\ fixed'[q] = fixed[q]
  BY <1>1 DEF NextGroup, ResetCount, GoTo, InGroup, TypeOK, ControlTypeOK, GroupTypeOK
<1>3. group \in SUBSET queue[q] /\ queue[q] \cap group = group
  OBVIOUS
<1> HIDE DEF group
<1>4. /\ Cardinality(queue[q] \ group) = Cardinality(queue[q]) - Cardinality(group)
      /\ Cardinality(group) \in Nat
  BY <1>3, TallySizes, FS_Difference, FS_Subset, FS_CardinalityType, Zenon
<1>5. work[q] = {} /\ Cardinality(work[q]) = 0
  BY <1>2, FS_EmptySet DEF Tallied, InGroup
<1>6. Countable(q) = fixed[q] + Cardinality(queue[q])
  BY <1>2, <1>5, TallySizes DEF Countable, InGroup
<1>7. Countable(q)' = fixed[q] + 0 + Cardinality(queue[q] \ group) + Cardinality(group)
  BY <1>2 DEF Countable, InGroup
<1> QED
  BY <1>2, <1>4, <1>6, <1>7, TallySizes

(* A file that is repaired moves from what is left to what is counted.     *)
LEMMA RenameTallies ==
    ASSUME TypeOK, WorkIsFound, NEW q \in Procs, Tallied(q), pc[q] = "rename",
           NEW x \in First(work[q]), CountRepaired(q, x)
    PROVE  /\ Countable(q)' = Countable(q)
           /\ cur' = cur
           /\ pc'[q] \notin InGroup \ {"dump", "register"} => work'[q] = {}
           /\ \/ pc'[q] \in InGroup /\ grp'[q] = grp[q] + 1
              \/ pc'[q] = "group" /\ cur[q] = NoPath
<1>1. /\ work'[q] = work[q] \ {x} /\ queue' = queue /\ cur' = cur
      /\ grp'[q] = grp[q] + 1
      /\ pc'[q] # "plan" => work'[q] = {}
      /\ \/ pc'[q] \in {"plan", "dump"} /\ fixed'[q] = fixed[q]
         \/ /\ pc'[q] = "group" /\ fixed'[q] = fixed[q] + grp[q] + 1
            /\ cur[q] = NoPath
  BY DEF CountRepaired, GoTo, InGroup, TypeOK, ControlTypeOK, GroupTypeOK
<1>2. x \in work[q]
  BY FirstSubset
<1>3. Cardinality(work[q] \ {x}) = Cardinality(work[q]) - 1
  BY <1>2, TallySizes, FS_RemoveElement, Zenon
<1>4. Countable(q) = fixed[q] + grp[q] + Cardinality(queue[q]) + Cardinality(work[q])
  BY DEF Countable, InGroup
<1>5. CASE pc'[q] \in {"plan", "dump"} /\ fixed'[q] = fixed[q]
  BY <1>1, <1>3, <1>4, <1>5, TallySizes DEF Countable, InGroup
<1>6. CASE /\ pc'[q] = "group" /\ fixed'[q] = fixed[q] + grp[q] + 1
           /\ cur[q] = NoPath
  BY <1>1, <1>3, <1>4, <1>6, TallySizes DEF Countable, InGroup
<1> QED
  BY <1>1, <1>5, <1>6

(* What a step of a repair counts.                                         *)
Counted(q) ==
    /\ Countable(q)' \in Nat /\ Countable(q)' <= Countable(q)
    /\ pc'[q] \notin InGroup \ {"dump", "register"} => work'[q] = {}
    /\ pc[q] \in InGroup =>
          \/ pc'[q] \in InGroup /\ cur'[q] = cur[q] /\ grp'[q] \in {grp[q], grp[q] + 1}
          \/ grp[q] > 0 => Countable(q)' < Countable(q)
          \/ Register(q) /\ RegisterValidity(cur[q], nar[q])
          \/ cur[q] = NoPath

(* A step that only moves on within a group, or between groups.            *)
LEMMA MovesOn ==
    ASSUME TypeOK, WorkIsFound, NEW q \in Procs, Tallied(q), UNCHANGED groupVars,
           \/ pc[q] \in InGroup /\ pc'[q] \in InGroup \ {"dump", "register"}
           \/ pc[q] \notin InGroup /\ pc'[q] \notin InGroup
    PROVE  Counted(q)
<1>1. Countable(q)' = Countable(q)
  BY DEF groupVars, Countable
<1>2. work' = work /\ cur' = cur /\ grp' = grp
  BY DEF groupVars
<1> QED
  BY <1>1, <1>2, TallySizes DEF Counted, Tallied

LEMMA RepairCounts ==
    ASSUME TypeOK, WorkIsFound, NEW q \in Procs, Tallied(q), Step(q),
           pc[q] \in Repairing, pc'[q] \in Repairing
    PROVE  Counted(q) /\ found' = found
<1> USE DEF TypeOK, ControlTypeOK, GoTo
<1>1. CASE Start(q) \/ Walk(q) \/ EndScan(q) \/ Report(q)
  BY <1>1 DEF Start, Walk, EndScan, Report, Repairing, InGroup
<1>2. CASE \E f \in Files : ScanFile(q, f)
  BY <1>2 DEF ScanFile, Repairing, InGroup
<1>3. CASE Lock(q) \/ NoMoreGroups(q) \/ Release(q)
  BY <1>3, MovesOn DEF Lock, NoMoreGroups, Release, InGroup, scanVars
<1>4. CASE NextGroup(q)
  <2>1. pc[q] = "group" /\ found' = found
    BY <1>4 DEF NextGroup, scanVars
  <2>2. pc'[q] \in {"ca", "plan"} /\ Countable(q)' = Countable(q)
    BY <1>4, NextGroupCounts
  <2> QED
    BY <2>1, <2>2, TallySizes DEF Counted, InGroup
<1> DEFINE Onward == /\ UNCHANGED <<groupVars, found>>
                     /\ pc[q] \in InGroup /\ pc'[q] \in InGroup \ {"dump", "register"}
           Over == GiveUpGroup(q) /\ pc[q] \in InGroup /\ found' = found
<1>5. CASE Onward
  BY <1>5, MovesOn
<1>6. CASE Over
  BY <1>6, GiveUpCounts, TallySizes DEF Counted
<1>7. CASE CheckCA(q) \/ CheckBlockers(q)
  <2>1. Onward \/ Over
    BY <1>7 DEF CheckCA, CheckBlockers, CheckUse, scanVars, InGroup
  <2> QED
    BY <1>5, <1>6, <2>1
<1>8. CASE Plan(q) \/ MakeTemp(q) \/ Cleanup(q)
  <2>1. Onward \/ Over
    BY <1>8 DEF Plan, MakeTemp, Cleanup, scanVars, InGroup
  <2> QED
    BY <1>5, <1>6, <2>1
<1>9. CASE Rename(q)
  <2>1. CASE UNCHANGED groupVars /\ GoTo(q, "cleanup")
    <3>1. Onward
      BY <1>9, <2>1 DEF Rename, scanVars, InGroup
    <3> QED
      BY <1>5, <3>1
  <2>2. ASSUME NEW x \in First(work[q]), CountRepaired(q, x) PROVE Counted(q)
    BY <1>9, <2>2, RenameTallies, TallySizes DEF Counted, Rename
  <2>3. found' = found
    BY <1>9 DEF Rename, scanVars
  <2> QED
    BY <1>9, <2>1, <2>2, <2>3 DEF Rename
<1>10. CASE Dump(q)
  <2>1. CASE Over
    BY <1>6, <2>1
  <2>2. CASE /\ GoTo(q, "register")
             /\ UNCHANGED <<queue, work, cur, grp, fixed>>
    <3>1. pc'[q] = "register" /\ pc[q] = "dump" /\ found' = found
      BY <1>10, <2>2 DEF Dump, scanVars
    <3>2. Countable(q)' = Countable(q)
      BY <2>2, <3>1 DEF Countable, InGroup
    <3> QED
      BY <2>2, <3>1, <3>2, TallySizes DEF Counted, InGroup, Tallied
  <2> QED
    BY <1>10, <2>1, <2>2 DEF Dump, scanVars, InGroup
<1>11. CASE Register(q)
  <2>1. CASE Over
    BY <1>6, <2>1
  <2>2. CASE /\ RegisterValidity(cur[q], nar[q])
             /\ fixed' = [fixed EXCEPT ![q] = @ + grp[q]]
             /\ GoTo(q, "group")
             /\ UNCHANGED <<queue, work, cur, nar, grp>>
    <3>1. /\ pc'[q] = "group" /\ pc[q] = "register" /\ found' = found
          /\ fixed'[q] = fixed[q] + grp[q]
      BY <1>11, <2>2 DEF Register, scanVars, GroupTypeOK
    <3>2. Countable(q)' = Countable(q) - Cardinality(work[q]) + Cardinality(work[q])
      BY <2>2, <3>1, TallySizes DEF Countable, InGroup
    <3> QED
      BY <1>11, <2>2, <3>1, <3>2, TallySizes DEF Counted, InGroup, Tallied
  <2> QED
    BY <1>11, <2>1, <2>2 DEF Register, GiveUpRegistration, scanVars, InGroup
<1>12. CASE WriteJournal(q)
  BY <1>12 DEF WriteJournal, SaveJournal, ExitOf, Repairing, InGroup
<1> QED
  BY <1>1, <1>2, <1>3, <1>4, <1>7, <1>8, <1>9, <1>10, <1>11, <1>12 DEF Step

(* A repair starts with no more work than it found.                        *)
LEMMA ReportCounts ==
    ASSUME TypeOK, WorkIsFound, NEW q \in Procs, Tallied(q), Report(q),
           pc'[q] \in Repairing
    PROVE  Countable(q)' <= Cardinality(found[q]) /\ UNCHANGED <<found, work>>
<1>1. /\ pc[q] = "walk" /\ pc'[q] \notin InGroup
      /\ queue'[q] = Repairable(q) /\ UNCHANGED <<found, work, fixed>>
  BY DEF Report, GoTo, scanVars, TypeOK, ControlTypeOK, GroupTypeOK, Repairing, InGroup
<1>2. fixed[q] = 0 /\ work[q] = {} /\ Cardinality(work[q]) = 0
  BY <1>1, FS_EmptySet DEF Tallied, InGroup
<1>3. Repairable(q) \in SUBSET found[q] /\ IsFiniteSet(found[q])
  BY RepairableSubset, TallySizes
<1>4. Cardinality(Repairable(q)) <= Cardinality(found[q])
  BY <1>3, FS_Subset, Zenon
<1>5. Cardinality(Repairable(q)) \in Nat
  BY <1>3, FS_Subset, FS_CardinalityType, Zenon
<1>6. Countable(q)' = Cardinality(Repairable(q))
  BY <1>1, <1>2, <1>5 DEF Countable
<1> QED
  BY <1>1, <1>4, <1>6

(* Every step of a repair keeps its own tally.                             *)
LEMMA TallyStep ==
    ASSUME TypeOK, WorkIsFound, NEW q \in Procs, Tallied(q), Step(q)
    PROVE  Tallied(q)'
<1> USE DEF TypeOK, ControlTypeOK, ScanTypeOK, GroupTypeOK, GoTo
<1>1. CASE pc[q] \in Repairing /\ pc'[q] \in Repairing
  <2>1. Counted(q) /\ found' = found
    BY <1>1, RepairCounts
  <2>2. Countable(q)' <= Cardinality(found[q])
    BY <1>1, <2>1, TallySizes DEF Counted, Tallied
  <2> QED
    BY <1>1, <2>1, <2>2 DEF Counted, Tallied, Repairing, InGroup
<1>2. CASE pc[q] \notin Repairing /\ pc'[q] \in Repairing
  <2>1. Report(q)
    BY <1>2 DEF Step, Start, Walk, EndScan, ScanFile, Lock, NextGroup, NoMoreGroups, CheckCA,
           CheckBlockers, CheckUse, Plan, MakeTemp, Rename, Cleanup, Dump, Register, Release,
           WriteJournal, SaveJournal, Repairing, InGroup
  <2>2. pc[q] = "walk" /\ pc'[q] \notin InGroup
    BY <2>1 DEF Report, InGroup
  <2> QED
    BY <1>2, <2>1, <2>2, ReportCounts DEF Tallied, InGroup, Repairing
<1>4. ASSUME NEW f \in Files, ScanFile(q, f) PROVE Tallied(q)'
  <2>1. UNCHANGED <<pc, fixed, work>> /\ pc[q] = "scan"
    BY <1>4 DEF ScanFile, groupVars
  <2>2. found'[q] \in {found[q], found[q] \cup FindingsAbout(f, nth[q])}
    BY <1>4 DEF ScanFile
  <2>3. IsFiniteSet(found[q]) /\ IsFiniteSet(FindingsAbout(f, nth[q]))
    BY TallySizes, FindingsAboutFinite
  <2>4. IsFiniteSet(found[q] \cup FindingsAbout(f, nth[q]))
    BY <2>3, FS_Union, Zenon
  <2> QED
    BY <2>1, <2>2, <2>3, <2>4 DEF Tallied, Repairing, InGroup
<1>5. CASE pc'[q] \notin Repairing /\ \A f \in Files : ~ScanFile(q, f)
  <2>1. \/ Start(q) \/ Walk(q) \/ EndScan(q) \/ Report(q)
        \/ WriteJournal(q)
    BY <1>5 DEF Step, Lock, NextGroup, NoMoreGroups, CheckCA, CheckBlockers, CheckUse, Plan, MakeTemp,
           Rename, Cleanup, Dump, Register, Release, GiveUpGroup, CountRepaired,
           GiveUpRegistration, Repairing, InGroup
  <2>2. UNCHANGED <<found, fixed, work>>
    BY <2>1 DEF Start, Walk, EndScan, Report, WriteJournal, SaveJournal, scanVars, groupVars
  <2>3. pc[q] \in {"idle", "walk", "scan"} \/ pc'[q] \notin {"idle", "walk", "scan"}
    BY <2>1 DEF Start, Walk, EndScan, Report, WriteJournal, SaveJournal, ExitOf
  <2>4. pc[q] \notin InGroup
    BY <2>1 DEF Start, Walk, EndScan, Report, WriteJournal, SaveJournal, InGroup
  <2> QED
    BY <1>5, <2>2, <2>3, <2>4 DEF Tallied, InGroup, Repairing
<1> QED
  BY <1>1, <1>2, <1>4, <1>5

(* What an invocation counts, another leaves alone.                        *)
LEMMA OtherKeepsTally ==
    ASSUME TypeOK, NEW q \in Procs, NEW r \in Procs \ {q}, Step(q)
    PROVE  /\ UNCHANGED <<pc[r], found[r], fixed[r], grp[r], queue[r], work[r], cur[r]>>
           /\ Countable(r)' = Countable(r)
           /\ Tallied(r) => Tallied(r)'
BY OtherStaysPut, OtherKeepsGroup DEF Countable, Tallied

(* A row that is not what the path holds.                                  *)
Wrong(p) == row[p] # NoRow /\ row[p].files # NarOf(p).files

(* A path is made wrong by a rename within it, right by its registration.  *)
LEMMA BecomesWrong ==
    ASSUME TypeOK, GroupIsOnePath, NEW q \in Procs, Step(q), NarIsCurrent(q),
           NEW p \in Paths, row[p] # NoRow, Wrong(p)'
    PROVE  /\ ~(Register(q) /\ RegisterValidity(cur[q], nar[q]) /\ cur[q] = p)
           /\ \/ Wrong(p)
              \/ /\ cur[q] = p
                 /\ \E x \in First(work[q]) : CountRepaired(q, x)
                 /\ pc[q] = "rename"
<1>1. CASE Register(q) /\ RegisterValidity(cur[q], nar[q])
  <2>1. row' = [row EXCEPT ![cur[q]] = nar[q]] /\ UNCHANGED <<dir, bytes>>
    BY <1>1 DEF Register, RegisterValidity, fileVars
  <2>2. NarOf(p)'.files = NarOf(p).files
    BY <2>1, SameFiles
  <2>3. nar[q].files = NarOf(cur[q]).files
    BY <1>1 DEF Register, NarIsCurrent
  <2> QED
    BY <2>1, <2>2, <2>3 DEF Wrong, TypeOK, StoreTypeOK
<1>2. CASE /\ UNCHANGED <<row, dir, bytes>>
           /\ ~(Register(q) /\ RegisterValidity(cur[q], nar[q]))
  BY <1>2, SameFiles DEF Wrong
<1>3. CASE UNCHANGED row /\ ~UNCHANGED <<dir, bytes>>
  <2>1. Rename(q)
    BY <1>3
    DEF Step, Start, Walk, EndScan, Report, ScanFile, Lock, NextGroup, NoMoreGroups, CheckCA,
        CheckBlockers, CheckUse, Plan, MakeTemp, CreateTemp, Cleanup, RemoveTemp, Dump, Register,
        Release, WriteJournal, SaveJournal, storeVars, fileVars
  <2>2. PICK x \in First(work[q]) : RenameOver(q, x.file, "valid") /\ CountRepaired(q, x)
    BY <1>3, <2>1 DEF Rename, fileVars
  <2>3. x \in work[q] /\ x.file \in Files /\ pc[q] = "rename"
    BY <2>1, FirstSubset, FirstIsOneFile DEF Rename
  <2>4. PathOf[x.file] = cur[q]
    BY <2>3 DEF GroupIsOnePath, InGroup
  <2>5. \A g \in Files : Content(g)' = IF g = x.file THEN "valid" ELSE Content(g)
    BY <2>2, <2>3, RenameOverContent DEF TypeOK
  <2>6. cur[q] # p => NarOf(p)'.files = NarOf(p).files
    BY <2>4, <2>5 DEF NarOf
  <2> QED
    BY <1>3, <2>1, <2>2, <2>3, <2>6 DEF Wrong, Register
<1> QED
  BY <1>1, <1>2, <1>3, OnlyRegisterRecords

(* What accounts for a wrong row goes on to do so until the row is right.  *)
LEMMA StaysAccounted ==
    ASSUME TypeOK, WorkIsFound, NEW q \in Procs, Tallied(q), Step(q), restored' = restored,
           NEW p \in Paths, Accounted(p),
           ~(Register(q) /\ RegisterValidity(cur[q], nar[q]) /\ cur[q] = p)
    PROVE  Accounted(p)'
<1>1. ASSUME NEW r \in Procs \ {q},
             \/ pc[r] = "exit2"
             \/ pc[r] \in Repairing /\ Countable(r) < Cardinality(found[r])
             \/ pc[r] \in InGroup /\ cur[r] = p /\ grp[r] > 0
      PROVE  Accounted(p)'
  BY <1>1, OtherKeepsTally DEF Accounted
<1>2. pc[q] # "exit2"
  BY DEF Step, Start, Walk, EndScan, Report, ScanFile, Lock, NextGroup, NoMoreGroups,
         CheckCA, CheckBlockers, CheckUse, Plan, MakeTemp, Rename, Cleanup, Dump, Register, Release,
         WriteJournal, SaveJournal
<1>3. CASE pc[q] \in Repairing /\ pc'[q] \notin Repairing
  <2>1. WriteJournal(q)
    BY <1>3 DEF Step, Start, Walk, EndScan, Report, ScanFile, Lock, NextGroup, NoMoreGroups,
           CheckCA, CheckBlockers, CheckUse, Plan, MakeTemp, Rename, Cleanup, Dump, Register, Release,
           GoTo, GiveUpGroup, CountRepaired, GiveUpRegistration, Repairing, InGroup, TypeOK,
           ControlTypeOK
  <2>2. pc[q] = "journal" /\ pc'[q] = ExitOf(q)
    BY <2>1 DEF WriteJournal, SaveJournal, GoTo, TypeOK, ControlTypeOK
  <2>3. fixed[q] <= Countable(q)
    BY <2>2, TallySizes DEF Countable, InGroup
  <2>4. Countable(q) < Cardinality(found[q]) => pc'[q] = "exit2"
    BY <2>2, <2>3, TallySizes DEF ExitOf
  <2> QED
    BY <1>1, <1>2, <2>2, <2>4 DEF Accounted, InGroup
<1>4. CASE pc[q] \in Repairing /\ pc'[q] \in Repairing
  <2>1. Counted(q) /\ found' = found
    BY <1>4, RepairCounts
  <2>2. Countable(q) < Cardinality(found[q]) => Countable(q)' < Cardinality(found'[q])
    BY <2>1, TallySizes DEF Counted
  <2>3. CASE pc[q] \in InGroup /\ cur[q] = p /\ grp[q] > 0
    <3>1. CASE pc'[q] \in InGroup /\ cur'[q] = cur[q] /\ grp'[q] \in {grp[q], grp[q] + 1}
      <4>1. grp'[q] > 0
        BY <2>3, <3>1, TallySizes
      <4> QED
        BY <2>3, <3>1, <4>1 DEF Accounted
    <3>2. CASE Countable(q)' < Countable(q)
      <4>1. Countable(q)' < Cardinality(found'[q])
        BY <1>4, <2>1, <3>2, TallySizes DEF Counted, Tallied
      <4> QED
        BY <1>4, <4>1 DEF Accounted
    <3>4. cur[q] # NoPath
      BY <2>3, PathsAssumption
    <3> QED
      BY <2>1, <2>3, <3>1, <3>2, <3>4 DEF Counted
  <2> QED
    BY <1>1, <1>2, <1>4, <2>2, <2>3 DEF Accounted
<1>5. CASE pc[q] \notin Repairing
  BY <1>1, <1>2, <1>5 DEF Accounted, Repairing
<1> QED
  BY <1>3, <1>4, <1>5

(* Everything the accounts rest on, and the accounts.                      *)
AccountsInd ==
    /\ UndoInd /\ WorkIsFound
    /\ \A q \in Procs : Tallied(q)
    /\ WrongIsAccounted

LEMMA AccountsInit == UndoInit => AccountsInd
<1> SUFFICES ASSUME UndoInit PROVE AccountsInd
  OBVIOUS
<1>1. Init /\ UndoInd
  BY UndoIndInit DEF UndoInit
<1>2. WorkIsFound
  BY <1>1, InitWork
<1>3. \A q \in Procs : Tallied(q)
  <2>1. \A q \in Procs : /\ found[q] = {} /\ pc[q] = "idle" /\ fixed[q] = 0 /\ work[q] = {}
    BY <1>1 DEF Init
  <2>2. IsFiniteSet({})
    BY FS_EmptySet, Zenon
  <2> QED
    BY <2>1, <2>2 DEF Tallied, Repairing, InGroup
<1>4. WrongIsAccounted
  BY <1>1 DEF Init, WrongIsAccounted
<1> QED
  BY <1>1, <1>2, <1>3, <1>4 DEF AccountsInd

LEMMA AccountsInductive ==
    ASSUME ~Concurrent
    PROVE  AccountsInd /\ [UndoNext]_allVars => AccountsInd'
<1> SUFFICES ASSUME AccountsInd, [UndoNext]_allVars PROVE AccountsInd'
  OBVIOUS
<1> USE DEF AccountsInd
<1>0. TypeOK /\ UndoTypeOK /\ GroupIsOnePath
  BY DEF UndoInd, UndoTypeOK
<1>1. UndoInd' /\ WorkIsFound'
  BY <1>0, UndoIndInductive, ScopeInductive
<1>2. CASE DoctorStep
  <2>1. PICK q \in Procs \ {Undoer} : Step(q)
    BY <1>2 DEF DoctorStep
  <2>2. restored' = restored
    BY <1>2 DEF DoctorStep, undoVars
  <2>3. \A r \in Procs : Tallied(r)'
    BY <1>0, <2>1, TallyStep, OtherKeepsTally
  <2>4. ASSUME NEW p \in Paths, Wrong(p)' PROVE Accounted(p)'
    <3>1. row[p] # NoRow /\ NarIsCurrent(q)
      BY <2>1 DEF UndoInd, InTurn
    <3>2. CASE Wrong(p) /\ ~(Register(q) /\ RegisterValidity(cur[q], nar[q]) /\ cur[q] = p)
      <4>1. Accounted(p)
        BY <3>2 DEF Wrong, WrongIsAccounted
      <4> QED
        BY <1>0, <2>1, <2>2, <3>2, <4>1, StaysAccounted
    <3>3. ASSUME cur[q] = p, pc[q] = "rename", NEW x \in First(work[q]), CountRepaired(q, x)
          PROVE  Accounted(p)'
      <4>1. pc'[q] \in InGroup /\ grp'[q] = grp[q] + 1 /\ cur' = cur
        BY <1>0, <3>3, RenameTallies, PathsAssumption
      <4>2. grp'[q] > 0
        BY <1>0, <4>1, TallySizes
      <4> QED
        BY <3>3, <4>1, <4>2 DEF Accounted
    <3> QED
      BY <1>0, <2>1, <2>4, <3>1, <3>2, <3>3, BecomesWrong
  <2> QED
    BY <1>1, <2>3, <2>4 DEF WrongIsAccounted, Wrong
<1>3. ASSUME UNCHANGED doctorVars, restored \subseteq restored'
      PROVE  /\ \A q \in Procs : Tallied(q)'
             /\ \A p \in Paths : Accounted(p) => Accounted(p)'
  BY <1>3 DEF doctorVars, groupVars, scanVars, Tallied, Countable, Accounted
<1>4. CASE UndoStep
  <2>1. UNCHANGED doctorVars /\ row' = row
    BY <1>0, <1>4, UndoKeepsDoctor
  <2>2. restored \subseteq restored'
    BY <1>4 DEF UndoStep, Open, UndoEnd, ReadEntry, UndoTemp, UndoRename, UndoCleanup
  <2>3. ASSUME NEW p \in Paths, Wrong(p)' PROVE Accounted(p)'
    <3>1. CASE UNCHANGED <<dir, bytes>>
      BY <1>3, <2>1, <2>2, <2>3, <3>1, SameFiles DEF Wrong, WrongIsAccounted
    <3>2. ASSUME NEW f \in Entry, UndoRename(f), temp[Undoer] = f,
                 RenameOver(Undoer, f, "stale")
          PROVE  Accounted(p)'
      <4>1. f \in Files
        BY <1>0, EntryIsOneFile
      <4>2. \A g \in Files : Content(g)' = IF g = f THEN "stale" ELSE Content(g)
        BY <1>0, <3>2, <4>1, RenameOverContent DEF TypeOK
      <4>3. PathOf[f] # p => NarOf(p)'.files = NarOf(p).files
        BY <4>2 DEF NarOf
      <4>4. temp'[Undoer] = NoFile
        BY <1>0, <3>2, UndoerAssumption DEF RenameOver, TypeOK, StoreTypeOK
      <4>5. temp' # temp
        BY <3>2, <4>1, <4>4, FilesAssumption
      <4>6. f \in restored'
        BY <3>2, <4>5 DEF UndoRename, fileVars
      <4> QED
        BY <1>3, <2>1, <2>2, <2>3, <4>3, <4>6 DEF Wrong, WrongIsAccounted, Accounted
    <3> QED
      BY <1>0, <1>4, <3>1, <3>2, UndoFiles
  <2> QED
    BY <1>1, <1>3, <2>1, <2>2, <2>3 DEF WrongIsAccounted, Wrong
<1>5. CASE UNCHANGED <<doctorVars, dir, bytes, row, restored>>
  BY <1>1, <1>3, <1>5, SameFiles DEF WrongIsAccounted
<1>6. CASE NextSecond
  <2>1. UNCHANGED <<dir, bytes, row, restored, pc, found, groupVars>>
    BY <1>6 DEF NextSecond, Tick, storeVars, scanVars, undoVars
  <2>2. \A q \in Procs : Tallied(q)'
    BY <2>1 DEF Tallied, Countable, groupVars
  <2>3. \A p \in Paths : Accounted(p) => Accounted(p)'
    BY <2>1 DEF Accounted, Countable, groupVars
  <2> QED
    BY <1>1, <2>1, <2>2, <2>3, SameFiles DEF WrongIsAccounted
<1> QED
  BY <1>2, <1>4, <1>5, <1>6 DEF UndoNext, AllEnded, allVars, undoVars, vars, storeVars, doctorVars

(* When invocations and an undo do not overlap, whatever fails: at rest, a *)
(* row that is not the hash of what its path holds was reported by a       *)
(* status 2 or is the work of an undo.                                     *)
THEOREM MismatchIsAlwaysKnown ==
    ASSUME ~Concurrent
    PROVE  UndoSpec => []MismatchIsKnown
<1>1. AccountsInd => MismatchIsKnown
  <2> SUFFICES ASSUME AccountsInd, Quiet, ~Undoing, NEW p \in Paths, Mismatched(p)
               PROVE  \/ \E q \in Procs : pc[q] = "exit2"
                      \/ \E f \in restored : PathOf[f] = p
    BY DEF MismatchIsKnown
  <2> USE DEF AccountsInd, UndoInd
  <2>1. StoreTypeOK
    BY DEF UndoTypeOK, TypeOK
  <2>2. \A q \in Procs : pc[q] \notin Repairing
    BY DEF Quiet, Running, Repairing, InGroup, Ended, Exits
  <2>3. \A q \in Procs : temp[q] = NoFile
    BY <2>1, <2>2, AllAreUndisturbed
    DEF Undisturbed, TempHasFile, StoreTypeOK, Repairing, InGroup
  <2>4. ~NarOf(p).temps /\ ~row[p].temps
    BY <2>3 DEF NarOf, TempIn, Tidy, NoTempRecorded, Mismatched
  <2>5. row[p] \in Nars /\ NarOf(p) \in Nars /\ row[p] # NarOf(p)
    BY <2>1, NarType DEF Mismatched, StoreTypeOK
  <2>6. row[p].files # NarOf(p).files
    BY <2>4, <2>5 DEF Nars
  <2>7. Accounted(p)
    BY <2>6 DEF Mismatched, WrongIsAccounted
  <2> QED
    BY <2>2, <2>7 DEF Accounted, Repairing
<1> QED
  BY <1>1, AccountsInit, AccountsInductive, PTL DEF UndoSpec

=============================================================================
