---------------------------- MODULE DoctorSafety ----------------------------
(***************************************************************************)
(* Safety of Doctor, proved for any number of invocations, files, paths    *)
(* and argument lists: the journal covers every replaced file, refused     *)
(* paths are never written to, nor paths in use without consent, no path   *)
(* is registered that a collection deleted, files change one at a time,    *)
(* and exit status 0 means that nothing broken is left.  Invocations in    *)
(* succession implement RepairContract.                                    *)
(***************************************************************************)
EXTENDS DoctorProofs, FiniteSetTheorems

USE DEF scanVars, groupVars, journalVars, inputVars, doctorVars,
        fileVars, useVars, lockVars, storeVars

-----------------------------------------------------------------------------
(* Which steps change a file's inode.                                      *)

(* A file that a rename does not touch keeps its inode.                    *)
LEMMA RenameOverDir ==
    ASSUME NEW q \in Procs, NEW f \in Files, NEW c, RenameOver(q, f, c),
           StoreTypeOK
    PROVE  /\ \A g \in Files \ {f} : dir'[g] = dir[g]
           /\ dir'[f] \in Inodes
BY DEF RenameOver, FreshInode, StoreTypeOK

(* Only a rename links a name to another inode.                            *)
LEMMA OnlyRenameLinks ==
    ASSUME TypeOK, [Next]_vars, NEW f \in Files, dir'[f] \notin {dir[f], NoInode}
    PROVE  \E q \in Procs : /\ Rename(q)
                            /\ \E x \in First(work[q]) :
                                  /\ x.file = f
                                  /\ temp[q] = f
                                  /\ JournalFile(q, f)
<1> SUFFICES ASSUME ~\E q \in Procs : /\ Rename(q)
                                      /\ \E x \in First(work[q]) :
                                            /\ x.file = f
                                            /\ temp[q] = f
                                            /\ JournalFile(q, f)
             PROVE  FALSE
  OBVIOUS
<1>1. ASSUME NEW q \in Procs, Start(q) PROVE FALSE
  BY <1>1 DEF Start
<1>2. ASSUME NEW q \in Procs, Walk(q) PROVE FALSE
  BY <1>2 DEF Walk
<1>3. ASSUME NEW q \in Procs, EndScan(q) PROVE FALSE
  BY <1>3 DEF EndScan
<1>4. ASSUME NEW q \in Procs, Report(q) PROVE FALSE
  BY <1>4 DEF Report
<1>5. ASSUME NEW q \in Procs, Lock(q) PROVE FALSE
  BY <1>5 DEF Lock
<1>6. ASSUME NEW q \in Procs, NextGroup(q) PROVE FALSE
  BY <1>6 DEF NextGroup
<1>7. ASSUME NEW q \in Procs, NoMoreGroups(q) PROVE FALSE
  BY <1>7 DEF NoMoreGroups
<1>8. ASSUME NEW q \in Procs, CheckCA(q) PROVE FALSE
  BY <1>8 DEF CheckCA
<1>9. ASSUME NEW q \in Procs, CheckBlockers(q) PROVE FALSE
  BY <1>9 DEF CheckBlockers, CheckUse
<1>10. ASSUME NEW q \in Procs, Plan(q) PROVE FALSE
  BY <1>10 DEF Plan
<1>11. ASSUME NEW q \in Procs, MakeTemp(q) PROVE FALSE
  BY <1>11 DEF MakeTemp, CreateTemp
<1>12. ASSUME NEW q \in Procs, Rename(q) PROVE FALSE
  <2>1. PICK x \in First(work[q]) :
            \/ /\ temp[q] = x.file
               /\ RenameOver(q, x.file, "valid")
               /\ JournalFile(q, x.file)
            \/ UNCHANGED fileVars
    BY <1>12 DEF Rename
  <2>2. x.file \in Files
    BY FirstSubset DEF TypeOK, GroupTypeOK, Findings
  <2>3. x.file # f
    BY <2>1, <1>12
  <2> QED
    BY <2>1, <2>2, <2>3, RenameOverDir DEF TypeOK
<1>13. ASSUME NEW q \in Procs, Cleanup(q) PROVE FALSE
  BY <1>13 DEF Cleanup, RemoveTemp
<1>14. ASSUME NEW q \in Procs, Dump(q) PROVE FALSE
  BY <1>14 DEF Dump
<1>15. ASSUME NEW q \in Procs, Register(q) PROVE FALSE
  BY <1>15 DEF Register, GiveUpRegistration
<1>16. ASSUME NEW q \in Procs, Release(q) PROVE FALSE
  BY <1>16 DEF Release
<1>17. ASSUME NEW q \in Procs, WriteJournal(q) PROVE FALSE
  BY <1>17 DEF WriteJournal, SaveJournal
<1>18. ASSUME NEW q \in Procs, Crash(q) PROVE FALSE
  BY <1>18 DEF Crash, AbandonFiles
<1>19. ASSUME NEW q \in Procs, NEW g \in Files, ScanFile(q, g) PROVE FALSE
  BY <1>19 DEF ScanFile
<1>20. CASE NixUse
  BY <1>20 DEF NixUse, BeginUse, EndUse
<1>21. CASE NixCollect
  BY <1>21 DEF NixCollect, BeginGC, Collect
<1>22. CASE NixEndGC
  BY <1>22 DEF NixEndGC, EndGC
<1>23. CASE Tick
  BY <1>23 DEF Tick
<1>24. CASE UNCHANGED vars
  BY <1>24 DEF vars
<1> QED
  BY <1>1, <1>2, <1>3, <1>4, <1>5, <1>6, <1>7, <1>8, <1>9, <1>10, <1>11,
     <1>12, <1>13, <1>14, <1>15, <1>16, <1>17, <1>18, <1>19, <1>20, <1>21,
     <1>22, <1>23, <1>24
  DEF Next, Step, Terminated

-----------------------------------------------------------------------------
(* The journal.                                                            *)

(* Before its repair phase an invocation has journaled nothing.            *)
LEMMA EarlyIsEmptyInductive ==
    EarlyIsEmpty /\ TypeOK /\ [Next]_vars => EarlyIsEmpty'
<1> SUFFICES ASSUME EarlyIsEmpty, TypeOK, [Next]_vars PROVE EarlyIsEmpty'
  OBVIOUS
<1> USE DEF EarlyIsEmpty, TypeOK, ControlTypeOK, JournalTypeOK
<1>1. ASSUME NEW q \in Procs, Start(q) PROVE EarlyIsEmpty'
  BY <1>1 DEF Start, GoTo, GiveUpGroup
<1>2. ASSUME NEW q \in Procs, Walk(q) PROVE EarlyIsEmpty'
  BY <1>2 DEF Walk, GoTo, GiveUpGroup
<1>3. ASSUME NEW q \in Procs, EndScan(q) PROVE EarlyIsEmpty'
  BY <1>3 DEF EndScan, GoTo, GiveUpGroup
<1>4. ASSUME NEW q \in Procs, Report(q) PROVE EarlyIsEmpty'
  BY <1>4 DEF Report, GoTo, GiveUpGroup
<1>5. ASSUME NEW q \in Procs, Lock(q) PROVE EarlyIsEmpty'
  BY <1>5 DEF Lock, GoTo, GiveUpGroup
<1>6. ASSUME NEW q \in Procs, NextGroup(q) PROVE EarlyIsEmpty'
  BY <1>6 DEF NextGroup, GoTo, GiveUpGroup
<1>7. ASSUME NEW q \in Procs, NoMoreGroups(q) PROVE EarlyIsEmpty'
  BY <1>7 DEF NoMoreGroups, GoTo, GiveUpGroup
<1>8. ASSUME NEW q \in Procs, CheckCA(q) PROVE EarlyIsEmpty'
  BY <1>8 DEF CheckCA, GoTo, GiveUpGroup
<1>9. ASSUME NEW q \in Procs, CheckBlockers(q) PROVE EarlyIsEmpty'
  BY <1>9 DEF CheckBlockers, CheckUse, GoTo, GiveUpGroup
<1>10. ASSUME NEW q \in Procs, Plan(q) PROVE EarlyIsEmpty'
  BY <1>10 DEF Plan, GoTo, GiveUpGroup
<1>11. ASSUME NEW q \in Procs, MakeTemp(q) PROVE EarlyIsEmpty'
  BY <1>11 DEF MakeTemp, GoTo, GiveUpGroup
<1>12. ASSUME NEW q \in Procs, Rename(q) PROVE EarlyIsEmpty'
  BY <1>12 DEF Rename, GoTo, JournalFile, CountRepaired
<1>13. ASSUME NEW q \in Procs, Cleanup(q) PROVE EarlyIsEmpty'
  BY <1>13 DEF Cleanup, GoTo, GiveUpGroup
<1>14. ASSUME NEW q \in Procs, Dump(q) PROVE EarlyIsEmpty'
  BY <1>14 DEF Dump, GoTo, GiveUpGroup
<1>15. ASSUME NEW q \in Procs, Register(q) PROVE EarlyIsEmpty'
  BY <1>15 DEF Register, GiveUpRegistration, GoTo, GiveUpGroup
<1>16. ASSUME NEW q \in Procs, Release(q) PROVE EarlyIsEmpty'
  BY <1>16 DEF Release, GoTo, GiveUpGroup
<1>17. ASSUME NEW q \in Procs, WriteJournal(q) PROVE EarlyIsEmpty'
  BY <1>17 DEF WriteJournal, SaveJournal, GoTo, ExitOf
<1>18. ASSUME NEW q \in Procs, Crash(q) PROVE EarlyIsEmpty'
  BY <1>18 DEF Crash, GoTo, GiveUpGroup
<1>19. ASSUME NEW q \in Procs, NEW f \in Files, ScanFile(q, f) PROVE EarlyIsEmpty'
  BY <1>19 DEF ScanFile, GoTo, GiveUpGroup
<1>20. CASE NixUse
  BY <1>20 DEF NixUse, BeginUse, EndUse, GoTo, GiveUpGroup
<1>21. CASE NixCollect
  BY <1>21 DEF NixCollect, BeginGC, Collect, GoTo, GiveUpGroup
<1>22. CASE NixEndGC
  BY <1>22 DEF NixEndGC, EndGC, GoTo, GiveUpGroup
<1>23. CASE Tick
  BY <1>23 DEF Tick, GoTo, GiveUpGroup
<1>24. CASE UNCHANGED vars
  BY <1>24 DEF vars, GoTo, GiveUpGroup
<1> QED
  BY <1>1, <1>2, <1>3, <1>4, <1>5, <1>6, <1>7, <1>8, <1>9, <1>10, <1>11,
     <1>12, <1>13, <1>14, <1>15, <1>16, <1>17, <1>18, <1>19, <1>20, <1>21,
     <1>22, <1>23, <1>24
  DEF Next, Step, Terminated

(* What an invocation has recorded is on disk once it has ended by itself, *)
(* if it could write its journal.                                          *)
Recorded(q, f) == /\ f \in mem[q]
                  /\ pc[q] \in Exits => f \in journals[stamp[q]] \/ q \in unsaved

(* An invocation that has not ended keeps its records, and takes them to   *)
(* disk when it ends by itself.                                            *)
LEMMA RecordsAreSaved ==
    ASSUME EarlyIsEmpty, TypeOK, [Next]_vars,
           NEW r \in Procs, NEW f \in Files, f \in mem[r], pc[r] \notin Exits
    PROVE  Recorded(r, f)'
<1> USE DEF EarlyIsEmpty, TypeOK, ControlTypeOK, JournalTypeOK, Recorded,
            Ended, Exits, Running
<1>1. ASSUME NEW q \in Procs, Start(q) PROVE Recorded(r, f)'
  BY <1>1 DEF Start, GoTo, GiveUpGroup
<1>2. ASSUME NEW q \in Procs, Walk(q) PROVE Recorded(r, f)'
  BY <1>2 DEF Walk, GoTo
<1>3. ASSUME NEW q \in Procs, EndScan(q) PROVE Recorded(r, f)'
  BY <1>3 DEF EndScan, GoTo, GiveUpGroup
<1>4. ASSUME NEW q \in Procs, Report(q) PROVE Recorded(r, f)'
  BY <1>4 DEF Report, GoTo
<1>5. ASSUME NEW q \in Procs, Lock(q) PROVE Recorded(r, f)'
  BY <1>5 DEF Lock, GoTo, GiveUpGroup
<1>6. ASSUME NEW q \in Procs, NextGroup(q) PROVE Recorded(r, f)'
  BY <1>6 DEF NextGroup, GoTo, GiveUpGroup
<1>7. ASSUME NEW q \in Procs, NoMoreGroups(q) PROVE Recorded(r, f)'
  BY <1>7 DEF NoMoreGroups, GoTo, GiveUpGroup
<1>8. ASSUME NEW q \in Procs, CheckCA(q) PROVE Recorded(r, f)'
  BY <1>8 DEF CheckCA, GoTo, GiveUpGroup
<1>9. ASSUME NEW q \in Procs, CheckBlockers(q) PROVE Recorded(r, f)'
  BY <1>9 DEF CheckBlockers, CheckUse, GoTo, GiveUpGroup
<1>10. ASSUME NEW q \in Procs, Plan(q) PROVE Recorded(r, f)'
  BY <1>10 DEF Plan, GoTo, GiveUpGroup
<1>11. ASSUME NEW q \in Procs, MakeTemp(q) PROVE Recorded(r, f)'
  BY <1>11 DEF MakeTemp, GoTo, GiveUpGroup
<1>12. ASSUME NEW q \in Procs, Rename(q) PROVE Recorded(r, f)'
  BY <1>12 DEF Rename, GoTo, JournalFile, CountRepaired
<1>13. ASSUME NEW q \in Procs, Cleanup(q) PROVE Recorded(r, f)'
  BY <1>13 DEF Cleanup, GoTo, GiveUpGroup
<1>14. ASSUME NEW q \in Procs, Dump(q) PROVE Recorded(r, f)'
  BY <1>14 DEF Dump, GoTo, GiveUpGroup
<1>15. ASSUME NEW q \in Procs, Register(q) PROVE Recorded(r, f)'
  BY <1>15 DEF Register, GiveUpRegistration, GoTo, GiveUpGroup
<1>16. ASSUME NEW q \in Procs, Release(q) PROVE Recorded(r, f)'
  BY <1>16 DEF Release, GoTo, GiveUpGroup
<1>17. ASSUME NEW q \in Procs, WriteJournal(q) PROVE Recorded(r, f)'
  <2>1. CASE r = q
    BY <1>17, <2>1 DEF WriteJournal, SaveJournal, GoTo
  <2>2. CASE r # q
    BY <1>17, <2>2 DEF WriteJournal, SaveJournal, GoTo
  <2> QED
    BY <2>1, <2>2
<1>18. ASSUME NEW q \in Procs, Crash(q) PROVE Recorded(r, f)'
  BY <1>18 DEF Crash, GoTo, GiveUpGroup
<1>19. ASSUME NEW q \in Procs, NEW g \in Files, ScanFile(q, g) PROVE Recorded(r, f)'
  BY <1>19 DEF ScanFile, GoTo, GiveUpGroup
<1>20. CASE NixUse
  BY <1>20 DEF NixUse, BeginUse, EndUse, GoTo, GiveUpGroup
<1>21. CASE NixCollect
  BY <1>21 DEF NixCollect, BeginGC, Collect, GoTo, GiveUpGroup
<1>22. CASE NixEndGC
  BY <1>22 DEF NixEndGC, EndGC, GoTo, GiveUpGroup
<1>23. CASE Tick
  BY <1>23 DEF Tick, GoTo, GiveUpGroup
<1>24. CASE UNCHANGED vars
  BY <1>24 DEF vars, GoTo, GiveUpGroup
<1> QED
  BY <1>1, <1>2, <1>3, <1>4, <1>5, <1>6, <1>7, <1>8, <1>9, <1>10, <1>11,
     <1>12, <1>13, <1>14, <1>15, <1>16, <1>17, <1>18, <1>19, <1>20, <1>21,
     <1>22, <1>23, <1>24
  DEF Next, Step, Terminated

(* What has ended by itself takes no step, and no step but the writing of  *)
(* a journal changes what the journals hold.                               *)
LEMMA EndedStays ==
    ASSUME TypeOK, [Next]_vars, NEW r \in Procs, pc[r] \in Exits
    PROVE  /\ pc'[r] = pc[r] /\ mem'[r] = mem[r] /\ stamp'[r] = stamp[r]
           /\ unsaved \subseteq unsaved'
           /\ journals' = journals \/ \E q \in Procs : WriteJournal(q)
<1> USE DEF TypeOK, ControlTypeOK, JournalTypeOK, GoTo, GiveUpGroup, Exits
<1>1. ASSUME NEW q \in Procs, Step(q) \/ Crash(q) PROVE q # r
  BY <1>1 DEF Step, Crash, Running, Ended, Start, Walk, EndScan, Report, ScanFile, Lock,
     NextGroup, NoMoreGroups, CheckCA, CheckBlockers, Plan, MakeTemp, Rename, Cleanup,
     Dump, Register, Release, WriteJournal
<1>2. ASSUME NEW q \in Procs, Step(q) \/ Crash(q)
      PROVE  /\ pc'[r] = pc[r] /\ mem'[r] = mem[r] /\ stamp'[r] = stamp[r]
             /\ unsaved \subseteq unsaved'
             /\ journals' = journals \/ WriteJournal(q)
  <2>1. CASE Start(q) \/ Walk(q) \/ EndScan(q) \/ Report(q) \/ (\E f \in Files : ScanFile(q, f))
    BY <1>1, <2>1 DEF Start, Walk, EndScan, Report, ScanFile
  <2>2. CASE Lock(q) \/ NextGroup(q) \/ NoMoreGroups(q) \/ CheckCA(q) \/ CheckBlockers(q)
    BY <1>1, <2>2 DEF Lock, NextGroup, NoMoreGroups, CheckCA, CheckBlockers, CheckUse
  <2>3. CASE Plan(q) \/ MakeTemp(q) \/ Cleanup(q) \/ Dump(q)
    BY <1>1, <2>3 DEF Plan, MakeTemp, Cleanup, Dump
  <2>4. CASE Rename(q)
    BY <1>1, <2>4 DEF Rename, JournalFile, CountRepaired
  <2>5. CASE Register(q) \/ Release(q) \/ Crash(q)
    BY <1>1, <2>5 DEF Register, GiveUpRegistration, Release, Crash
  <2>6. CASE WriteJournal(q)
    BY <1>1, <2>6 DEF WriteJournal
  <2> QED
    BY <1>2, <2>1, <2>2, <2>3, <2>4, <2>5, <2>6 DEF Step
<1>3. CASE NixUse \/ NixCollect \/ NixEndGC \/ Tick \/ UNCHANGED vars
  BY <1>3 DEF NixUse, NixCollect, NixEndGC, Tick, vars
<1> QED
  BY <1>2, <1>3 DEF Next, Terminated

(* The disjunct of ReplacedIsJournaled about one invocation.               *)
Covers(q, f) == /\ f \in mem[q]
                /\ pc[q] \in Exits =>
                      f \in journals[stamp[q]] \/ q \in unsaved \/ Overwritten(q)

(* A journal that is written, or not quite, takes the place of another of  *)
(* its second; no other journal is touched.                                *)
LEMMA WriteOverwrites ==
    ASSUME TypeOK, NEW r \in Procs, pc[r] \in Exits,
           stamp'[r] = stamp[r], NEW q \in Procs, WriteJournal(q)
    PROVE  Overwritten(r)' \/ journals'[stamp'[r]] = journals[stamp[r]]
<1> USE DEF TypeOK, ControlTypeOK, JournalTypeOK
<1>1. q # r /\ mem' = mem /\ stamp' = stamp /\ pc'[q] \in Exits
  BY DEF WriteJournal, GoTo, ExitOf, Exits
<1>2. CASE mem[q] = {} \/ stamp[q] # stamp[r]
  BY <1>1, <1>2 DEF WriteJournal, SaveJournal
<1>3. CASE mem[q] # {} /\ stamp[q] = stamp[r]
  <2>1. journals'[stamp[r]] = mem[q] \/ q \in unsaved'
    BY <1>3 DEF WriteJournal, SaveJournal
  <2> QED
    BY <1>1, <1>3, <2>1 DEF Overwritten
<1> QED
  BY <1>2, <1>3

(* What another invocation has done to a journal's file stays done.        *)
LEMMA OverwrittenStays ==
    ASSUME TypeOK, [Next]_vars, NEW r \in Procs, pc[r] \in Exits, Overwritten(r)
    PROVE  Overwritten(r)'
<1>1. PICK s \in Procs \ {r} :
          /\ pc[s] \in Exits /\ mem[s] # {} /\ stamp[s] = stamp[r]
          /\ journals[stamp[r]] = mem[s] \/ s \in unsaved
  BY DEF Overwritten
<1>2. /\ pc'[s] = pc[s] /\ mem'[s] = mem[s] /\ stamp'[s] = stamp[s]
      /\ unsaved \subseteq unsaved'
  BY <1>1, EndedStays
<1>3. /\ stamp'[r] = stamp[r]
      /\ journals' = journals \/ \E q \in Procs : WriteJournal(q)
  BY EndedStays
<1>4. CASE journals'[stamp'[r]] = journals[stamp[r]]
  BY <1>1, <1>2, <1>3, <1>4 DEF Overwritten
<1> QED
  BY <1>3, <1>4, WriteOverwrites

(* An invocation that covers a file goes on covering it.                   *)
LEMMA CoversInductive ==
    ASSUME EarlyIsEmpty, TypeOK, [Next]_vars,
           NEW r \in Procs, NEW f \in Files, Covers(r, f)
    PROVE  Covers(r, f)'
<1>1. CASE pc[r] \notin Exits
  BY <1>1, RecordsAreSaved DEF Covers, Recorded
<1>2. CASE pc[r] \in Exits
  <2>1. /\ pc'[r] = pc[r] /\ mem'[r] = mem[r] /\ stamp'[r] = stamp[r]
        /\ unsaved \subseteq unsaved'
        /\ journals' = journals \/ \E q \in Procs : WriteJournal(q)
    BY <1>2, EndedStays
  <2>2. CASE Overwritten(r)
    BY <1>2, <2>1, <2>2, OverwrittenStays DEF Covers
  <2>3. CASE r \in unsaved
    BY <2>1, <2>3 DEF Covers
  <2>4. CASE f \in journals[stamp[r]]
    BY <1>2, <2>1, <2>4, WriteOverwrites DEF Covers
  <2> QED
    BY <1>2, <2>2, <2>3, <2>4 DEF Covers
<1> QED
  BY <1>1, <1>2

(* A step that replaces a file journals it, and a journaled file stays     *)
(* covered.                                                                *)
LEMMA ReplacedIsJournaledInductive ==
    ReplacedIsJournaled /\ EarlyIsEmpty /\ TypeOK /\ [Next]_vars => ReplacedIsJournaled'
<1> SUFFICES ASSUME ReplacedIsJournaled, EarlyIsEmpty, TypeOK, [Next]_vars,
                    NEW f \in Files, Replaced(f)'
             PROVE  \E q \in Procs : Covers(q, f)'
  BY DEF ReplacedIsJournaled, Covers
<1>1. CASE Replaced(f)
  <2>1. PICK q \in Procs : Covers(q, f)
    BY <1>1 DEF ReplacedIsJournaled, Covers
  <2> QED
    BY <2>1, CoversInductive
<1>2. CASE ~Replaced(f)
  <2>1. dir'[f] \notin {dir[f], NoInode}
    BY <1>2, HomeAssumption, InodesAssumption DEF Replaced
  <2>2. PICK q \in Procs : Rename(q) /\ JournalFile(q, f)
    BY <2>1, OnlyRenameLinks
  <2>3. f \in mem'[q]
    BY <2>2 DEF JournalFile, TypeOK, JournalTypeOK
  <2>4. pc'[q] \notin Exits
    BY <2>2 DEF Rename, GoTo, CountRepaired, TypeOK, ControlTypeOK, Exits
  <2> QED
    BY <2>3, <2>4 DEF Covers
<1> QED
  BY <1>1, <1>2

(* In every reachable state, whatever fails and whatever runs beside it,   *)
(* the undo record of a replaced file is in the memory of a live run or in *)
(* a journal on disk, with the exceptions ReplacedIsJournaled names.       *)
THEOREM JournalCoversReplaced == Spec => []ReplacedIsJournaled
<1>1. Init => EarlyIsEmpty /\ ReplacedIsJournaled
  BY HomeAssumption DEF Init, EarlyIsEmpty, ReplacedIsJournaled, Replaced
<1> QED
  BY <1>1, EarlyIsEmptyInductive, ReplacedIsJournaledInductive, TypeCorrect, PTL DEF Spec

-----------------------------------------------------------------------------
(* The refusals.                                                           *)

(* The files a walk of the next argument lists are in the scope.           *)
LEMMA WalkInScope ==
    ASSUME TypeOK, NEW q \in Procs, nth[q] < Len(argv[q])
    PROVE  Under[argv[q][nth[q] + 1]] \subseteq Scope(q)
<1>1. nth[q] \in Nat /\ argv[q] \in Seq(DOMAIN Under)
  BY ArgsAssumption DEF TypeOK, ScanTypeOK, ControlTypeOK
<1>2. nth[q] + 1 \in 1..Len(argv[q])
  BY <1>1, LenProperties
<1> QED
  BY <1>2 DEF Scope

(* A scan only finds files it scans.                                       *)
LEMMA FindingsAboutFile ==
    ASSUME NEW f, NEW n, NEW x \in FindingsAbout(f, n)
    PROVE  x.file = f
BY DEF FindingsAbout

(* Every step takes its work from what the invocation found in its scope.  *)
LEMMA WorkIsFoundInductive == WorkIsFound /\ TypeOK /\ [Next]_vars => WorkIsFound'
<1> SUFFICES ASSUME WorkIsFound, TypeOK, [Next]_vars PROVE WorkIsFound'
  OBVIOUS
<1> USE DEF WorkIsFound, TypeOK, ControlTypeOK, ScanTypeOK, GroupTypeOK,
            Repairing, InGroup, Fixing
<1>1. ASSUME NEW q \in Procs, Start(q) PROVE WorkIsFound'
  BY <1>1 DEF Start, GoTo, GiveUpGroup, Scope
<1>2. ASSUME NEW q \in Procs, Walk(q) PROVE WorkIsFound'
  <2>1. todo'[q] \subseteq Scope(q)
    BY <1>2, WalkInScope DEF Walk
  <2>2. \A r \in Procs : Scope(r)' = Scope(r)
    BY <1>2 DEF Walk, Scope
  <2>3. \A r \in Procs : r # q => todo'[r] = todo[r]
    BY <1>2 DEF Walk
  <2>4. \A r \in Procs : pc'[r] \in Repairing => pc[r] \in Repairing
    BY <1>2 DEF Walk, GoTo
  <2> QED
    BY <1>2, <2>1, <2>2, <2>3, <2>4 DEF Walk
<1>3. ASSUME NEW q \in Procs, EndScan(q) PROVE WorkIsFound'
  BY <1>3 DEF EndScan, GoTo, GiveUpGroup, Scope
<1>4. ASSUME NEW q \in Procs, Report(q) PROVE WorkIsFound'
  BY <1>4, RepairableSubset DEF Report, GoTo, Scope
<1>5. ASSUME NEW q \in Procs, Lock(q) PROVE WorkIsFound'
  BY <1>5 DEF Lock, GoTo, GiveUpGroup, Scope
<1>6. ASSUME NEW q \in Procs, NextGroup(q) PROVE WorkIsFound'
  BY <1>6 DEF NextGroup, ResetCount, GoTo, Scope
<1>7. ASSUME NEW q \in Procs, NoMoreGroups(q) PROVE WorkIsFound'
  BY <1>7 DEF NoMoreGroups, GoTo, GiveUpGroup, Scope
<1>8. ASSUME NEW q \in Procs, CheckCA(q) PROVE WorkIsFound'
  BY <1>8 DEF CheckCA, GoTo, GiveUpGroup, Scope
<1>9. ASSUME NEW q \in Procs, CheckBlockers(q) PROVE WorkIsFound'
  <2>1. /\ UNCHANGED <<cmd, argv, todo, found>>
        /\ \A r \in Procs : queue'[r] = queue[r] /\ work'[r] \subseteq work[r]
    BY <1>9 DEF CheckBlockers, CheckUse, GiveUpGroup
  <2>2. pc[q] \in Repairing /\ \A r \in Procs : pc'[r] = pc[r] \/ r = q
    BY <1>9 DEF CheckBlockers, CheckUse, GiveUpGroup, GoTo
  <2> QED
    BY <2>1, <2>2 DEF Scope
<1>10. ASSUME NEW q \in Procs, Plan(q) PROVE WorkIsFound'
  BY <1>10 DEF Plan, GoTo, GiveUpGroup, Scope
<1>11. ASSUME NEW q \in Procs, MakeTemp(q) PROVE WorkIsFound'
  BY <1>11 DEF MakeTemp, GoTo, GiveUpGroup, Scope
<1>12. ASSUME NEW q \in Procs, Rename(q) PROVE WorkIsFound'
  BY <1>12 DEF Rename, GoTo, CountRepaired, Scope
<1>13. ASSUME NEW q \in Procs, Cleanup(q) PROVE WorkIsFound'
  BY <1>13 DEF Cleanup, GoTo, GiveUpGroup, Scope
<1>14. ASSUME NEW q \in Procs, Dump(q) PROVE WorkIsFound'
  BY <1>14 DEF Dump, GoTo, GiveUpGroup, Scope
<1>15. ASSUME NEW q \in Procs, Register(q) PROVE WorkIsFound'
  BY <1>15 DEF Register, GiveUpRegistration, GoTo, GiveUpGroup, Scope
<1>16. ASSUME NEW q \in Procs, Release(q) PROVE WorkIsFound'
  BY <1>16 DEF Release, GoTo, GiveUpGroup, Scope
<1>17. ASSUME NEW q \in Procs, WriteJournal(q) PROVE WorkIsFound'
  BY <1>17 DEF WriteJournal, SaveJournal, GoTo, ExitOf, Scope
<1>18. ASSUME NEW q \in Procs, Crash(q) PROVE WorkIsFound'
  BY <1>18 DEF Crash, GoTo, GiveUpGroup, Scope
<1>19. ASSUME NEW q \in Procs, NEW f \in Files, ScanFile(q, f) PROVE WorkIsFound'
  <2>1. \A x \in found'[q] : x \in found[q] \/ x.file = f
    BY <1>19, FindingsAboutFile DEF ScanFile
  <2>2. f \in Scope(q)
    BY <1>19 DEF ScanFile
  <2> QED
    BY <1>19, <2>1, <2>2 DEF ScanFile, Scope
<1>20. CASE NixUse
  BY <1>20 DEF NixUse, BeginUse, EndUse, GoTo, GiveUpGroup, Scope
<1>21. CASE NixCollect
  BY <1>21 DEF NixCollect, BeginGC, Collect, GoTo, GiveUpGroup, Scope
<1>22. CASE NixEndGC
  BY <1>22 DEF NixEndGC, EndGC, GoTo, GiveUpGroup, Scope
<1>23. CASE Tick
  BY <1>23 DEF Tick, GoTo, GiveUpGroup, Scope
<1>24. CASE UNCHANGED vars
  BY <1>24 DEF vars, GoTo, GiveUpGroup, Scope
<1> QED
  BY <1>1, <1>2, <1>3, <1>4, <1>5, <1>6, <1>7, <1>8, <1>9, <1>10, <1>11,
     <1>12, <1>13, <1>14, <1>15, <1>16, <1>17, <1>18, <1>19, <1>20, <1>21,
     <1>22, <1>23, <1>24
  DEF Next, Step, Terminated

(* A group's key stands for one store path, or for one file outside.       *)
LEMMA KeyOfPath ==
    ASSUME NEW f \in Files, NEW g \in Files, KeyOf(f) = KeyOf(g)
    PROVE  PathOf[f] = PathOf[g]
BY PathsAssumption DEF KeyOf

(* The group in hand stays in one path that was found not to be            *)
(* content-addressed.                                                      *)
LEMMA GroupIsOnePathInductive ==
    GroupIsOnePath /\ TypeOK /\ [Next]_vars => GroupIsOnePath'
<1> SUFFICES ASSUME GroupIsOnePath, TypeOK, [Next]_vars PROVE GroupIsOnePath'
  OBVIOUS
<1> USE DEF GroupIsOnePath, TypeOK, ControlTypeOK, GroupTypeOK, InGroup
<1>1. ASSUME NEW q \in Procs, Start(q) PROVE GroupIsOnePath'
  BY <1>1 DEF Start, GoTo, GiveUpGroup
<1>2. ASSUME NEW q \in Procs, Walk(q) PROVE GroupIsOnePath'
  BY <1>2 DEF Walk, GoTo, GiveUpGroup
<1>3. ASSUME NEW q \in Procs, EndScan(q) PROVE GroupIsOnePath'
  BY <1>3 DEF EndScan, GoTo, GiveUpGroup
<1>4. ASSUME NEW q \in Procs, Report(q) PROVE GroupIsOnePath'
  BY <1>4 DEF Report, GoTo, GiveUpGroup
<1>5. ASSUME NEW q \in Procs, Lock(q) PROVE GroupIsOnePath'
  BY <1>5 DEF Lock, GoTo, GiveUpGroup
<1>6. ASSUME NEW q \in Procs, NextGroup(q) PROVE GroupIsOnePath'
  <2>1. PICK x \in First(queue[q]) :
            LET group == {y \in queue[q] : KeyOf(y.file) = KeyOf(x.file)}
            IN /\ work' = [work EXCEPT ![q] = group]
               /\ cur' = [cur EXCEPT ![q] = PathOf[x.file]]
               /\ GoTo(q, IF PathOf[x.file] = NoPath THEN "plan" ELSE "ca")
    BY <1>6 DEF NextGroup, StorePath
  <2>2. x.file \in Files /\ \A y \in queue[q] : y.file \in Files
    BY FirstSubset DEF Findings
  <2>3. \A y \in work'[q] : PathOf[y.file] = PathOf[x.file]
    BY <2>1, <2>2, KeyOfPath
  <2>4. NoPath \notin ContentAddressed
    BY PathsAssumption, ContentAddressedAssumption
  <2> QED
    BY <2>1, <2>3, <2>4 DEF GoTo
<1>7. ASSUME NEW q \in Procs, NoMoreGroups(q) PROVE GroupIsOnePath'
  BY <1>7 DEF NoMoreGroups, GoTo, GiveUpGroup
<1>8. ASSUME NEW q \in Procs, CheckCA(q) PROVE GroupIsOnePath'
  BY <1>8 DEF CheckCA, OnlyIfNotCA, CAAnswers, GoTo, GiveUpGroup
<1>9. ASSUME NEW q \in Procs, CheckBlockers(q) PROVE GroupIsOnePath'
  BY <1>9 DEF CheckBlockers, CheckUse, GoTo, GiveUpGroup
<1>10. ASSUME NEW q \in Procs, Plan(q) PROVE GroupIsOnePath'
  BY <1>10 DEF Plan, GoTo, GiveUpGroup
<1>11. ASSUME NEW q \in Procs, MakeTemp(q) PROVE GroupIsOnePath'
  BY <1>11 DEF MakeTemp, GoTo, GiveUpGroup
<1>12. ASSUME NEW q \in Procs, Rename(q) PROVE GroupIsOnePath'
  BY <1>12 DEF Rename, GoTo, CountRepaired
<1>13. ASSUME NEW q \in Procs, Cleanup(q) PROVE GroupIsOnePath'
  BY <1>13 DEF Cleanup, GoTo, GiveUpGroup
<1>14. ASSUME NEW q \in Procs, Dump(q) PROVE GroupIsOnePath'
  BY <1>14 DEF Dump, GoTo, GiveUpGroup
<1>15. ASSUME NEW q \in Procs, Register(q) PROVE GroupIsOnePath'
  BY <1>15 DEF Register, GiveUpRegistration, GoTo, GiveUpGroup
<1>16. ASSUME NEW q \in Procs, Release(q) PROVE GroupIsOnePath'
  BY <1>16 DEF Release, GoTo, GiveUpGroup
<1>17. ASSUME NEW q \in Procs, WriteJournal(q) PROVE GroupIsOnePath'
  BY <1>17 DEF WriteJournal, SaveJournal, GoTo, ExitOf
<1>18. ASSUME NEW q \in Procs, Crash(q) PROVE GroupIsOnePath'
  BY <1>18 DEF Crash, GoTo, GiveUpGroup
<1>19. ASSUME NEW q \in Procs, NEW f \in Files, ScanFile(q, f) PROVE GroupIsOnePath'
  BY <1>19 DEF ScanFile, GoTo, GiveUpGroup
<1>20. CASE NixUse
  BY <1>20 DEF NixUse, BeginUse, EndUse, GoTo, GiveUpGroup
<1>21. CASE NixCollect
  BY <1>21 DEF NixCollect, BeginGC, Collect, GoTo, GiveUpGroup
<1>22. CASE NixEndGC
  BY <1>22 DEF NixEndGC, EndGC, GoTo, GiveUpGroup
<1>23. CASE Tick
  BY <1>23 DEF Tick, GoTo, GiveUpGroup
<1>24. CASE UNCHANGED vars
  BY <1>24 DEF vars, GoTo, GiveUpGroup
<1> QED
  BY <1>1, <1>2, <1>3, <1>4, <1>5, <1>6, <1>7, <1>8, <1>9, <1>10, <1>11,
     <1>12, <1>13, <1>14, <1>15, <1>16, <1>17, <1>18, <1>19, <1>20, <1>21,
     <1>22, <1>23, <1>24
  DEF Next, Step, Terminated

(* A step that links a file to other bytes is a permitted rename.          *)
LEMMA RefusalsStep ==
    WorkIsFound /\ GroupIsOnePath /\ TypeOK /\ [Next]_vars =>
        [WritesInScope]_vars
<1> SUFFICES ASSUME WorkIsFound, GroupIsOnePath, TypeOK, [Next]_vars,
                    NEW f \in Files, dir'[f] \notin {dir[f], NoInode}
             PROVE  /\ PathOf[f] \notin ContentAddressed
                    /\ \E q \in Procs : Writes(q, f)
  BY DEF WritesInScope
<1>1. PICK q \in Procs : Rename(q) /\ \E x \in First(work[q]) : x.file = f /\ temp[q] = f
  BY OnlyRenameLinks
<1>2. PICK x \in work[q] : x.file = f
  BY <1>1, FirstSubset
<1>3. pc[q] = "rename"
  BY <1>1 DEF Rename
<1>4. PathOf[f] \notin ContentAddressed
  BY <1>2, <1>3 DEF GroupIsOnePath, InGroup
<1>5. Fixing(q) /\ f \in Scope(q)
  BY <1>2, <1>3 DEF WorkIsFound, Repairing, InGroup
<1> QED
  BY <1>1, <1>3, <1>4, <1>5 DEF Writes

(* Before the first step nothing is found.                                 *)
LEMMA InitWork == Init => WorkIsFound
BY DEF Init, WorkIsFound, Scope, Repairing, InGroup

(* No step of any invocation gives a file of a content-addressed path new  *)
(* bytes, and only a rename of a repairing command whose arguments cover   *)
(* the file gives it new bytes at all.                                     *)
THEOREM RefusalsAlwaysHold == Spec => RefusalsHold
<1>1. Init => WorkIsFound /\ GroupIsOnePath
  BY InitWork DEF Init, GroupIsOnePath, InGroup
<1> QED
  BY <1>1, WorkIsFoundInductive, GroupIsOnePathInductive, RefusalsStep,
     TypeCorrect, PTL DEF Spec, RefusalsHold

-----------------------------------------------------------------------------
(* The GC lock.                                                            *)

(* When the lock can be had, collections and repairs exclude each other,   *)
(* and what is about to be registered is valid.                            *)
LEMMA LockDisciplineInductive ==
    ASSUME "lock" \notin Faults
    PROVE  LockDiscipline /\ TypeOK /\ [Next]_vars => LockDiscipline'
<1> SUFFICES ASSUME LockDiscipline, TypeOK, [Next]_vars PROVE LockDiscipline'
  OBVIOUS
<1> USE DEF LockDiscipline, TypeOK, StoreTypeOK, ControlTypeOK, GroupTypeOK, InGroup
<1>1. ASSUME NEW q \in Procs, Start(q) PROVE LockDiscipline'
  BY <1>1 DEF Start, GoTo, GiveUpGroup
<1>2. ASSUME NEW q \in Procs, Walk(q) PROVE LockDiscipline'
  BY <1>2 DEF Walk, GoTo, GiveUpGroup
<1>3. ASSUME NEW q \in Procs, EndScan(q) PROVE LockDiscipline'
  BY <1>3 DEF EndScan, GoTo, GiveUpGroup
<1>4. ASSUME NEW q \in Procs, Report(q) PROVE LockDiscipline'
  BY <1>4 DEF Report, GoTo
<1>5. ASSUME NEW q \in Procs, Lock(q) PROVE LockDiscipline'
  BY <1>5 DEF Lock, LockShared, GoTo
<1>6. ASSUME NEW q \in Procs, NextGroup(q) PROVE LockDiscipline'
  <2>1. PICK x \in First(queue[q]) :
            /\ \E group : queue' = [queue EXCEPT ![q] = @ \ group]
            /\ cur' = [cur EXCEPT ![q] = PathOf[x.file]]
            /\ GoTo(q, IF PathOf[x.file] = NoPath THEN "plan" ELSE "ca")
    BY <1>6 DEF NextGroup, StorePath
  <2>2. x \in queue[q]
    BY FirstSubset
  <2> QED
    BY <1>6, <2>1, <2>2 DEF NextGroup, GoTo
<1>7. ASSUME NEW q \in Procs, NoMoreGroups(q) PROVE LockDiscipline'
  BY <1>7 DEF NoMoreGroups, GoTo, GiveUpGroup
<1>8. ASSUME NEW q \in Procs, CheckCA(q) PROVE LockDiscipline'
  BY <1>8 DEF CheckCA, GoTo, GiveUpGroup
<1>9. ASSUME NEW q \in Procs, CheckBlockers(q) PROVE LockDiscipline'
  BY <1>9 DEF CheckBlockers, CheckUse, GoTo, GiveUpGroup
<1>10. ASSUME NEW q \in Procs, Plan(q) PROVE LockDiscipline'
  BY <1>10 DEF Plan, GoTo, GiveUpGroup
<1>11. ASSUME NEW q \in Procs, MakeTemp(q) PROVE LockDiscipline'
  BY <1>11 DEF MakeTemp, GoTo, GiveUpGroup
<1>12. ASSUME NEW q \in Procs, Rename(q) PROVE LockDiscipline'
  BY <1>12 DEF Rename, GoTo, CountRepaired
<1>13. ASSUME NEW q \in Procs, Cleanup(q) PROVE LockDiscipline'
  BY <1>13 DEF Cleanup, GoTo, GiveUpGroup
<1>14. ASSUME NEW q \in Procs, Dump(q) PROVE LockDiscipline'
  BY <1>14, NarType, RowAssumption DEF Dump, GoTo, GiveUpGroup
<1>15. ASSUME NEW q \in Procs, Register(q) PROVE LockDiscipline'
  BY <1>15 DEF Register, GiveUpRegistration, RegisterValidity, GoTo, GiveUpGroup
<1>16. ASSUME NEW q \in Procs, Release(q) PROVE LockDiscipline'
  BY <1>16 DEF Release, Unlock, GoTo
<1>17. ASSUME NEW q \in Procs, WriteJournal(q) PROVE LockDiscipline'
  BY <1>17 DEF WriteJournal, SaveJournal, GoTo, ExitOf
<1>18. ASSUME NEW q \in Procs, Crash(q) PROVE LockDiscipline'
  BY <1>18 DEF Crash, AbandonFiles, GoTo
<1>19. ASSUME NEW q \in Procs, NEW f \in Files, ScanFile(q, f) PROVE LockDiscipline'
  BY <1>19 DEF ScanFile, GoTo, GiveUpGroup
<1>20. CASE NixUse
  BY <1>20 DEF NixUse, BeginUse, EndUse, GoTo, GiveUpGroup
<1>21. CASE NixCollect
  BY <1>21 DEF NixCollect, BeginGC, Collect, GoTo, GiveUpGroup
<1>22. CASE NixEndGC
  BY <1>22 DEF NixEndGC, EndGC, GoTo, GiveUpGroup
<1>23. CASE Tick
  BY <1>23 DEF Tick, GoTo, GiveUpGroup
<1>24. CASE UNCHANGED vars
  BY <1>24 DEF vars, GoTo, GiveUpGroup
<1> QED
  BY <1>1, <1>2, <1>3, <1>4, <1>5, <1>6, <1>7, <1>8, <1>9, <1>10, <1>11,
     <1>12, <1>13, <1>14, <1>15, <1>16, <1>17, <1>18, <1>19, <1>20, <1>21,
     <1>22, <1>23, <1>24
  DEF Next, Step, Terminated

(* With the lock, only a collection deletes files, and it deletes the row  *)
(* with them.                                                              *)
LEMMA ValidPathExistsInductive ==
    ValidPathExists /\ LockDiscipline /\ TypeOK /\ [Next]_vars => ValidPathExists'
<1> SUFFICES ASSUME ValidPathExists, LockDiscipline, TypeOK, [Next]_vars
             PROVE  ValidPathExists'
  OBVIOUS
<1> USE DEF ValidPathExists, Exists, FilesIn, TypeOK, StoreTypeOK
<1>1. ASSUME NEW q \in Procs, Start(q) PROVE ValidPathExists'
  BY <1>1 DEF Start
<1>2. ASSUME NEW q \in Procs, Walk(q) PROVE ValidPathExists'
  BY <1>2 DEF Walk
<1>3. ASSUME NEW q \in Procs, EndScan(q) PROVE ValidPathExists'
  BY <1>3 DEF EndScan
<1>4. ASSUME NEW q \in Procs, Report(q) PROVE ValidPathExists'
  BY <1>4 DEF Report
<1>5. ASSUME NEW q \in Procs, Lock(q) PROVE ValidPathExists'
  BY <1>5 DEF Lock
<1>6. ASSUME NEW q \in Procs, NextGroup(q) PROVE ValidPathExists'
  BY <1>6 DEF NextGroup
<1>7. ASSUME NEW q \in Procs, NoMoreGroups(q) PROVE ValidPathExists'
  BY <1>7 DEF NoMoreGroups
<1>8. ASSUME NEW q \in Procs, CheckCA(q) PROVE ValidPathExists'
  BY <1>8 DEF CheckCA
<1>9. ASSUME NEW q \in Procs, CheckBlockers(q) PROVE ValidPathExists'
  BY <1>9 DEF CheckBlockers, CheckUse
<1>10. ASSUME NEW q \in Procs, Plan(q) PROVE ValidPathExists'
  BY <1>10 DEF Plan
<1>11. ASSUME NEW q \in Procs, MakeTemp(q) PROVE ValidPathExists'
  BY <1>11 DEF MakeTemp, CreateTemp
<1>12. ASSUME NEW q \in Procs, Rename(q) PROVE ValidPathExists'
  <2>1. \A f \in Files : dir'[f] # dir[f] => dir'[f] \in Inodes
    BY <1>12 DEF Rename, RenameOver
  <2>2. row' = row
    BY <1>12 DEF Rename
  <2> QED
    BY <2>1, <2>2, InodesAssumption
<1>13. ASSUME NEW q \in Procs, Cleanup(q) PROVE ValidPathExists'
  BY <1>13 DEF Cleanup, RemoveTemp
<1>14. ASSUME NEW q \in Procs, Dump(q) PROVE ValidPathExists'
  BY <1>14 DEF Dump
<1>15. ASSUME NEW q \in Procs, Register(q) PROVE ValidPathExists'
  <2>1. \A p \in Paths : row'[p] # NoRow => row[p] # NoRow
    BY <1>15 DEF Register, RegisterValidity, LockDiscipline
  <2>2. dir' = dir
    BY <1>15 DEF Register
  <2> QED
    BY <2>1, <2>2
<1>16. ASSUME NEW q \in Procs, Release(q) PROVE ValidPathExists'
  BY <1>16 DEF Release
<1>17. ASSUME NEW q \in Procs, WriteJournal(q) PROVE ValidPathExists'
  BY <1>17 DEF WriteJournal, SaveJournal
<1>18. ASSUME NEW q \in Procs, Crash(q) PROVE ValidPathExists'
  BY <1>18 DEF Crash, AbandonFiles
<1>19. ASSUME NEW q \in Procs, NEW f \in Files, ScanFile(q, f) PROVE ValidPathExists'
  BY <1>19 DEF ScanFile
<1>20. CASE NixUse
  BY <1>20 DEF NixUse, BeginUse, EndUse
<1>21. CASE NixCollect
  BY <1>21 DEF NixCollect, BeginGC, Collect
<1>22. CASE NixEndGC
  BY <1>22 DEF NixEndGC, EndGC
<1>23. CASE Tick
  BY <1>23 DEF Tick
<1>24. CASE UNCHANGED vars
  BY <1>24 DEF vars
<1> QED
  BY <1>1, <1>2, <1>3, <1>4, <1>5, <1>6, <1>7, <1>8, <1>9, <1>10, <1>11,
     <1>12, <1>13, <1>14, <1>15, <1>16, <1>17, <1>18, <1>19, <1>20, <1>21,
     <1>22, <1>23, <1>24
  DEF Next, Step, Terminated

(* When the GC lock can be had, a valid path always has its files: no      *)
(* repair registers a path that a collection deleted meanwhile.            *)
THEOREM ValidPathsExist ==
    ASSUME "lock" \notin Faults
    PROVE  Spec => []ValidPathExists
<1>1. Init => LockDiscipline /\ ValidPathExists
  BY HomeAssumption, InodesAssumption
  DEF Init, LockDiscipline, ValidPathExists, Exists, FilesIn, InGroup
<1> QED
  BY <1>1, LockDisciplineInductive, ValidPathExistsInductive, TypeCorrect, PTL DEF Spec


-----------------------------------------------------------------------------
(* The exit status.  Status 0 follows from a comparison of numbers, so it  *)
(* has to be shown that each file counted as fixed is one of the findings, *)
(* counted once; and that no file of the scope escapes the findings.       *)

(* An invocation changes its own variables only.                           *)
LEMMA OtherStaysPut ==
    ASSUME TypeOK, NEW q \in Procs, NEW r \in Procs \ {q}, Step(q) \/ Crash(q)
    PROVE  /\ pc'[r] = pc[r] /\ nth'[r] = nth[r] /\ todo'[r] = todo[r]
           /\ found'[r] = found[r] /\ work'[r] = work[r] /\ grp'[r] = grp[r]
           /\ fixed'[r] = fixed[r] /\ mem'[r] = mem[r]
           /\ argv' = argv
<1> USE DEF TypeOK, ControlTypeOK, ScanTypeOK, GroupTypeOK, JournalTypeOK, GoTo, GiveUpGroup,
            GiveUpRegistration
<1>1. CASE Start(q) \/ Walk(q) \/ EndScan(q)
  BY <1>1 DEF Start, Walk, EndScan
<1>2. CASE Report(q)
  BY <1>2 DEF Report
<1>3. CASE \E f \in Files : ScanFile(q, f)
  BY <1>3 DEF ScanFile
<1>4. CASE Lock(q) \/ NextGroup(q) \/ NoMoreGroups(q)
  BY <1>4 DEF Lock, NextGroup, NoMoreGroups, ResetCount
<1>5. CASE CheckCA(q) \/ CheckBlockers(q)
  BY <1>5 DEF CheckCA, CheckBlockers, CheckUse
<1>6. CASE Plan(q) \/ MakeTemp(q) \/ Cleanup(q)
  BY <1>6 DEF Plan, MakeTemp, Cleanup
<1>7. CASE Rename(q)
  BY <1>7 DEF Rename, CountRepaired, JournalFile
<1>8. CASE Dump(q) \/ Register(q)
  BY <1>8 DEF Dump, Register
<1>9. CASE Release(q) \/ WriteJournal(q) \/ Crash(q)
  BY <1>9 DEF Release, WriteJournal, SaveJournal, Crash
<1> QED
  BY <1>1, <1>2, <1>3, <1>4, <1>5, <1>6, <1>7, <1>8, <1>9 DEF Step

(* A rename gives the file the new bytes and no other file different ones. *)
LEMMA RenameOverContent ==
    ASSUME StoreTypeOK, NEW q, NEW f \in Files, NEW c, RenameOver(q, f, c)
    PROVE  \A g \in Files : Content(g)' = IF g = f THEN c ELSE Content(g)
BY InodesAssumption DEF StoreTypeOK, RenameOver, FreshInode, Unlinked, Content

(* Only a rename gives an inode other bytes.                               *)
LEMMA OnlyRenameWrites ==
    ASSUME [Next]_vars, \A q \in Procs : ~Rename(q)
    PROVE  UNCHANGED bytes
<1>1. ASSUME NEW q \in Procs, Step(q) \/ Crash(q) PROVE UNCHANGED bytes
  <2>1. CASE Start(q) \/ Walk(q) \/ EndScan(q) \/ Report(q)
    BY <2>1 DEF Start, Walk, EndScan, Report
  <2>2. CASE \E f \in Files : ScanFile(q, f)
    BY <2>2 DEF ScanFile
  <2>3. CASE Lock(q) \/ NextGroup(q) \/ NoMoreGroups(q) \/ CheckCA(q) \/ CheckBlockers(q)
    BY <2>3 DEF Lock, NextGroup, NoMoreGroups, CheckCA, CheckBlockers, CheckUse
  <2>4. CASE Plan(q) \/ MakeTemp(q) \/ Cleanup(q) \/ Dump(q)
    BY <2>4 DEF Plan, MakeTemp, CreateTemp, Cleanup, RemoveTemp, Dump
  <2>5. CASE Register(q) \/ Release(q) \/ WriteJournal(q) \/ Crash(q)
    BY <2>5 DEF Register, Release, WriteJournal, SaveJournal, Crash, AbandonFiles
  <2> QED
    BY <1>1, <2>1, <2>2, <2>3, <2>4, <2>5 DEF Step
<1>2. CASE NixUse \/ NixCollect \/ NixEndGC
  BY <1>2 DEF NixUse, BeginUse, EndUse, NixCollect, BeginGC, Collect, NixEndGC, EndGC
<1>3. CASE Tick \/ UNCHANGED vars
  BY <1>3 DEF Tick, vars
<1> QED
  BY <1>1, <1>2, <1>3 DEF Next, Terminated

Sound(f) == Content(f) \in {"valid", "absent"}

(* What is sound stays sound: no step of a repair or of nix breaks a file. *)
LEMMA SoundStays ==
    ASSUME TypeOK, [Next]_vars, NEW f \in Files, Sound(f)
    PROVE  Sound(f)'
<1>1. ASSUME NEW q \in Procs, Rename(q) PROVE Sound(f)'
  <2>1. PICK x \in First(work[q]) : RenameOver(q, x.file, "valid") \/ UNCHANGED fileVars
    BY <1>1 DEF Rename
  <2>2. x.file \in Files
    BY FirstSubset DEF TypeOK, GroupTypeOK, Findings
  <2>3. CASE RenameOver(q, x.file, "valid")
    BY <2>2, <2>3, RenameOverContent DEF TypeOK, Sound
  <2> QED
    BY <2>1, <2>3 DEF Sound, Content
<1>2. CASE \A q \in Procs : ~Rename(q)
  <2>1. UNCHANGED bytes /\ dir'[f] \in {dir[f], NoInode}
    BY <1>2, OnlyRenameWrites, OnlyRenameLinks
  <2> QED
    BY <2>1 DEF Sound, Content
<1> QED
  BY <1>1, <1>2

(* A scan finds what is not sound.                                         *)
LEMMA FindingsAboutBroken ==
    ASSUME NEW f, NEW n, ~Sound(f)
    PROVE  \E x \in FindingsAbout(f, n) : x.file = f
<1> DEFINE b == Content(f) = "stale"
           x == [file |-> f, arg |-> n, repairable |-> b]
<1>1. FindingsAbout(f, n) = {x}
  BY DEF FindingsAbout, Sound
<1>2. x.file = f
  OBVIOUS
<1> HIDE DEF x
<1> QED
  BY <1>1, <1>2

(* Every file of the arguments scanned so far is sound, still to be read,  *)
(* or among the findings.                                                  *)
Covered(q, n) ==
    \A f \in Under[argv[q][n]] : \/ Sound(f)
                                 \/ f \in todo[q]
                                 \/ \E x \in found[q] : x.file = f

ScanInd(q) ==
    /\ \A n \in 1..nth[q] : Covered(q, n)
    /\ nth[q] <= Len(argv[q])
    /\ pc[q] \in {"idle", "walk", "exit0"} \cup Repairing => todo[q] = {}
    /\ pc[q] \in {"exit0"} \cup Repairing => nth[q] = Len(argv[q])

(* The files a walk lists are files.                                       *)
LEMMA UnderFiles ==
    ASSUME TypeOK, NEW q \in Procs, NEW n \in Nat, n \in 1..Len(argv[q])
    PROVE  Under[argv[q][n]] \subseteq Files
BY ArgsAssumption DEF TypeOK, ControlTypeOK

(* Where neither the arguments nor what was scanned of them change, the    *)
(* coverage stays: bytes only get sound.                                   *)
LEMMA CoverageStays ==
    ASSUME TypeOK, [Next]_vars, NEW q \in Procs, ScanInd(q),
           argv' = argv, nth'[q] = nth[q], todo'[q] = todo[q], found'[q] = found[q]
    PROVE  (\A n \in 1..nth[q] : Covered(q, n))'
<1>1. nth[q] \in Nat /\ Len(argv[q]) \in Nat
  BY ArgsAssumption, LenProperties DEF TypeOK, ScanTypeOK, ControlTypeOK
<1> SUFFICES ASSUME NEW n \in 1..nth[q] PROVE Covered(q, n)'
  OBVIOUS
<1>2. n \in Nat /\ n \in 1..Len(argv[q])
  BY <1>1 DEF ScanInd
<1>3. Under[argv[q][n]] \subseteq Files
  BY <1>2, UnderFiles
<1>4. Covered(q, n)
  BY DEF ScanInd
<1> QED
  BY <1>3, <1>4, SoundStays DEF Covered

(* The scan loses no file: the next argument is covered by its list, and a *)
(* file leaves the list sound or found (doctor.go:96-172, 405-409).        *)
LEMMA ScanIndStep ==
    ASSUME "open" \notin Faults, "walk" \notin Faults,
           TypeOK, NEW q \in Procs, ScanInd(q), Step(q) \/ Crash(q)
    PROVE  ScanInd(q)'
<1> USE DEF TypeOK, ControlTypeOK, ScanTypeOK
<1>0. /\ nth[q] \in Nat /\ Len(argv[q]) \in Nat
      /\ [Next]_vars
  BY ArgsAssumption, LenProperties DEF Next
<1>1. CASE Walk(q)
  <2>1. /\ nth'[q] = nth[q] + 1 /\ nth'[q] <= Len(argv[q])
        /\ todo[q] = {} /\ found' = found /\ argv' = argv /\ UNCHANGED <<dir, bytes>>
        /\ pc'[q] \in {"scan", "walk", "exit1"}
        /\ pc'[q] = "walk" => todo' = todo
    BY <1>0, <1>1 DEF Walk, ScanInd, GoTo
  <2>2. ASSUME NEW n \in 1..nth[q] PROVE Covered(q, n)'
    BY <2>1, <2>2 DEF ScanInd, Covered, Sound, Content
  <2>3. ASSUME NEW m \in Nat, m = nth[q] + 1 PROVE Covered(q, m)'
    <3> DEFINE U == Under[argv[q][nth[q] + 1]]
    <3>1. \A f \in U : Sound(f) \/ f \in todo'[q]
      <4>1. CASE todo'[q] = {f \in U : Exists(f)}
        BY <4>1 DEF Exists, Sound, Content
      <4>2. CASE \A f \in U : ~Exists(f)
        BY <4>2 DEF Exists, Sound, Content
      <4> QED
        BY <1>1, <4>1, <4>2 DEF Walk
    <3> QED
      BY <2>1, <2>3, <3>1 DEF Covered, Sound, Content
  <2>4. (\A n \in 1..nth[q] : Covered(q, n))'
    <3>1. \A m \in Nat : \A n \in 1..(m + 1) : n \in 1..m \/ n = m + 1
      OBVIOUS
    <3> SUFFICES ASSUME NEW n \in 1..nth'[q] PROVE Covered(q, n)'
      OBVIOUS
    <3>2. n \in 1..nth[q] \/ (n \in Nat /\ n = nth[q] + 1)
      BY <1>0, <2>1, <3>1
    <3> QED
      BY <2>2, <2>3, <3>2
  <2>5. pc'[q] \in {"idle", "walk", "exit0"} \cup Repairing => todo'[q] = {}
    BY <2>1 DEF Repairing, InGroup
  <2>6. pc'[q] \notin {"exit0"} \cup Repairing
    BY <2>1 DEF Repairing, InGroup
  <2>7. nth'[q] <= Len(argv'[q])
    BY <2>1
  <2> QED
    BY <2>4, <2>5, <2>6, <2>7 DEF ScanInd
<1>2. ASSUME NEW f \in Files, ScanFile(q, f) PROVE ScanInd(q)'
  <2>1. /\ nth' = nth /\ argv' = argv /\ pc' = pc /\ pc[q] = "scan"
        /\ todo'[q] = todo[q] \ {f} /\ UNCHANGED <<dir, bytes>>
        /\ found'[q] = found[q] \cup FindingsAbout(f, nth[q])
    BY <1>2 DEF ScanFile
  <2>2. Sound(f) \/ \E x \in found'[q] : x.file = f
    BY <2>1, FindingsAboutBroken DEF TypeOK
  <2>3. ASSUME NEW n \in 1..nth[q] PROVE Covered(q, n)'
    BY <2>1, <2>2, <2>3 DEF ScanInd, Covered, Sound, Content
  <2> QED
    BY <2>1, <2>3 DEF ScanInd, Repairing, InGroup
<1>3. CASE UNCHANGED <<argv, nth, todo, found>>
  <2>1. (\A n \in 1..nth[q] : Covered(q, n))'
    BY <1>0, <1>3, CoverageStays
  <2>2. CASE Start(q) \/ EndScan(q)
    BY <1>3, <2>1, <2>2 DEF Start, EndScan, GoTo, ScanInd, Repairing, InGroup
  <2>3. CASE Report(q)
    BY <1>3, <2>1, <2>3 DEF Report, GoTo, ScanInd, Repairing, InGroup
  <2>4. CASE pc[q] \in Repairing
    BY <1>3, <2>1, <2>4 DEF ScanInd, Repairing, InGroup
  <2>5. CASE Crash(q)
    BY <1>3, <2>1, <2>5 DEF Crash, GoTo, ScanInd, Repairing, InGroup
  <2>6. Start(q) \/ EndScan(q) \/ Report(q) \/ Crash(q) \/ Walk(q) \/ pc[q] \in Repairing
        \/ \E f \in Files : ScanFile(q, f)
    BY DEF Step, Repairing, InGroup, Lock, NextGroup, NoMoreGroups, CheckCA, CheckBlockers, CheckUse,
           Plan, MakeTemp, Rename, Cleanup, Dump, Register, Release, WriteJournal, SaveJournal
  <2> QED
    BY <1>1, <1>2, <2>2, <2>3, <2>4, <2>5, <2>6
<1> QED
  BY <1>1, <1>2, <1>3
  DEF Step, Start, EndScan, Report, Crash, Lock, NextGroup, NoMoreGroups, CheckCA,
      CheckBlockers, CheckUse, Plan, MakeTemp, Rename, Cleanup, Dump, Register, Release, WriteJournal, SaveJournal


(* An invariant of each invocation that survives its own steps, and the    *)
(* steps of others, which leave its variables alone, is an invariant.      *)
LEMMA ScanInductive ==
    ASSUME "open" \notin Faults, "walk" \notin Faults
    PROVE  TypeOK /\ (\A q \in Procs : ScanInd(q)) /\ [Next]_vars =>
               (\A q \in Procs : ScanInd(q))'
<1> SUFFICES ASSUME TypeOK, \A q \in Procs : ScanInd(q), [Next]_vars, NEW r \in Procs
             PROVE  ScanInd(r)'
  OBVIOUS
<1>1. CASE Step(r) \/ Crash(r)
  BY <1>1, ScanIndStep
<1>2. CASE /\ pc'[r] = pc[r] /\ nth'[r] = nth[r] /\ todo'[r] = todo[r]
           /\ found'[r] = found[r] /\ argv' = argv
  BY <1>2, CoverageStays DEF ScanInd
<1>3. CASE \E q \in Procs \ {r} : Step(q) \/ Crash(q)
  BY <1>2, <1>3, OtherStaysPut
<1>4. CASE NixUse \/ NixCollect \/ NixEndGC \/ Tick \/ UNCHANGED vars
  BY <1>2, <1>4 DEF NixUse, NixCollect, NixEndGC, Tick, vars
<1> QED
  BY <1>1, <1>3, <1>4 DEF Next, Terminated

(* What is journaled is sound and was found, and there is as much of it as *)
(* was counted: in the group in hand and in those done.  The file about to *)
(* be replaced is not journaled yet, so that it counts once even when      *)
(* overlapping arguments found it twice.                                   *)
CountInd(q) ==
    /\ IsFiniteSet(found[q]) /\ IsFiniteSet(mem[q])
    /\ \A f \in mem[q] : Sound(f) /\ \E x \in found[q] : x.file = f
    /\ fixed[q] + (IF pc[q] \in InGroup THEN grp[q] ELSE 0) <= Cardinality(mem[q])
    /\ pc[q] \in {"temp", "rename"} => \A x \in First(work[q]) : x.file \notin mem[q]
    /\ pc[q] = "exit0" => \A x \in found[q] : Sound(x.file)

(* As many files journaled as findings: every finding is journaled.        *)
LEMMA AllFixed ==
    ASSUME TypeOK, NEW q \in Procs, CountInd(q), pc[q] \notin InGroup,
           ~(fixed[q] < Cardinality(found[q]))
    PROVE  \A x \in found[q] : x.file \in mem[q]
<1> DEFINE h == [f \in mem[q] |-> CHOOSE x \in found[q] : x.file = f]
<1>1. \A f \in mem[q] : h[f] \in found[q] /\ h[f].file = f
  BY DEF CountInd
<1>2. h \in Injection(mem[q], found[q])
  <2>1. h \in [mem[q] -> found[q]]
    BY <1>1
  <2>2. \A f, g \in mem[q] : h[f] = h[g] => f = g
    BY <1>1
  <2> HIDE DEF h
  <2> QED
    BY <2>1, <2>2 DEF Injection, IsInjective
<1> HIDE DEF h
<1>3. /\ Cardinality(mem[q]) <= Cardinality(found[q])
      /\ Cardinality(mem[q]) = Cardinality(found[q]) => h \in Surjection(mem[q], found[q])
  BY <1>2, FS_Injection DEF CountInd
<1>4. Cardinality(mem[q]) \in Nat /\ Cardinality(found[q]) \in Nat
  BY FS_CardinalityType DEF CountInd
<1>5. fixed[q] \in Nat /\ fixed[q] <= Cardinality(mem[q])
  BY DEF CountInd, TypeOK, GroupTypeOK
<1>6. h \in Surjection(mem[q], found[q])
  BY <1>3, <1>4, <1>5
<1> QED
  BY <1>1, <1>6 DEF Surjection

(* The steps that count nothing.                                           *)
LEMMA CountStays ==
    ASSUME TypeOK, [Next]_vars, NEW q \in Procs, CountInd(q),
           found'[q] = found[q], mem'[q] = mem[q], fixed'[q] = fixed[q],
           pc'[q] \in InGroup => grp'[q] = 0 \/ (pc[q] \in InGroup /\ grp'[q] = grp[q]),
           pc'[q] \in {"temp", "rename"} =>
               \A x \in First(work'[q]) : x.file \notin mem[q],
           pc'[q] = "exit0" => \A x \in found[q] : Sound(x.file)'
    PROVE  CountInd(q)'
<1>1. mem[q] \subseteq Files
  BY DEF TypeOK, JournalTypeOK
<1>2. \A f \in mem[q] : Sound(f)'
  BY <1>1, SoundStays DEF CountInd
<1>3. fixed'[q] + (IF pc'[q] \in InGroup THEN grp'[q] ELSE 0) <= Cardinality(mem'[q])
  <2>1. fixed[q] \in Nat /\ grp[q] \in Nat /\ Cardinality(mem[q]) \in Nat
    BY FS_CardinalityType DEF TypeOK, GroupTypeOK, CountInd
  <2> QED
    BY <2>1 DEF CountInd
<1>4. (IsFiniteSet(found[q]) /\ IsFiniteSet(mem[q]))'
  BY DEF CountInd
<1>5. (\A f \in mem[q] : \E x \in found[q] : x.file = f)'
  BY DEF CountInd
<1>6. (pc[q] \in {"temp", "rename"} => \A x \in First(work[q]) : x.file \notin mem[q])'
  BY DEF First
<1> QED
  BY <1>2, <1>3, <1>4, <1>5, <1>6 DEF CountInd

(* A rename adds one file to the journal and one to the count              *)
(* (doctor.go:537-549).                                                    *)
LEMMA RenameCounts ==
    ASSUME TypeOK, WorkIsFound, NEW q \in Procs, CountInd(q), Rename(q)
    PROVE  CountInd(q)'
<1> USE DEF TypeOK, ControlTypeOK, GroupTypeOK, JournalTypeOK
<1>1. pc[q] = "rename" /\ [Next]_vars /\ found' = found
  BY DEF Rename, Next, Step
<1>2. PICK x \in First(work[q]) :
          \/ /\ RenameOver(q, x.file, "valid")
             /\ JournalFile(q, x.file)
             /\ CountRepaired(q, x)
          \/ GoTo(q, "cleanup") /\ UNCHANGED <<journalVars, groupVars>>
  BY DEF Rename
<1>3. CASE GoTo(q, "cleanup") /\ UNCHANGED <<journalVars, groupVars>>
  BY <1>1, <1>3, CountStays DEF GoTo, InGroup
<1>4. CASE RenameOver(q, x.file, "valid") /\ JournalFile(q, x.file) /\ CountRepaired(q, x)
  <2>1. x \in found[q] /\ x.file \in Files
    BY FirstSubset DEF WorkIsFound, Findings
  <2>2. x.file \notin mem[q] /\ mem'[q] = mem[q] \cup {x.file}
    BY <1>1, <1>4 DEF CountInd, JournalFile
  <2>3. IsFiniteSet(mem'[q]) /\ Cardinality(mem'[q]) = Cardinality(mem[q]) + 1
    <3>1. IsFiniteSet(mem[q])
      BY DEF CountInd
    <3>2. /\ IsFiniteSet(mem[q] \cup {x.file})
          /\ x.file \notin mem[q] =>
                 Cardinality(mem[q] \cup {x.file}) = Cardinality(mem[q]) + 1
      BY <3>1, FS_AddElement, Zenon
    <3> QED
      BY <2>2, <3>2
  <2>4. fixed'[q] + (IF pc'[q] \in InGroup THEN grp'[q] ELSE 0) <= Cardinality(mem'[q])
    <3>1. fixed[q] + grp[q] <= Cardinality(mem[q])
      BY <1>1 DEF CountInd, InGroup
    <3>2. fixed[q] \in Nat /\ grp[q] \in Nat /\ Cardinality(mem[q]) \in Nat
      BY FS_CardinalityType DEF CountInd
    <3>3. \/ pc'[q] \in InGroup /\ fixed'[q] = fixed[q] /\ grp'[q] = grp[q] + 1
          \/ pc'[q] = "group" /\ fixed'[q] = fixed[q] + grp[q] + 1
      BY <1>4 DEF CountRepaired, GoTo, InGroup
    <3> QED
      BY <2>3, <3>1, <3>2, <3>3 DEF InGroup
  <2>5. \A f \in mem'[q] : Sound(f)'
    <3>1. Sound(x.file)'
      BY <1>4, <2>1, RenameOverContent DEF Sound
    <3>2. \A f \in mem[q] : f \in Files /\ Sound(f)
      BY DEF CountInd
    <3> QED
      BY <1>1, <2>2, <3>1, <3>2, SoundStays
  <2>6. pc'[q] \notin {"temp", "rename", "exit0"}
    BY <1>4 DEF CountRepaired, GoTo
  <2>7. \A f \in mem'[q] : \E y \in found'[q] : y.file = f
    BY <1>1, <2>1, <2>2 DEF CountInd
  <2> QED
    BY <1>1, <2>3, <2>4, <2>5, <2>6, <2>7 DEF CountInd
<1> QED
  BY <1>2, <1>3, <1>4

(* What is added to a finite set of findings is finite.                    *)
LEMMA FindingsAboutFinite == ASSUME NEW f, NEW n PROVE IsFiniteSet(FindingsAbout(f, n))
<1>1. \E x : FindingsAbout(f, n) = {} \/ FindingsAbout(f, n) = {x}
  BY DEF FindingsAbout
<1>2. ASSUME NEW x PROVE IsFiniteSet({x})
  BY FS_Singleton, Zenon
<1>3. IsFiniteSet({})
  BY FS_EmptySet, Zenon
<1> QED
  BY <1>1, <1>2, <1>3

(* Every step of an invocation keeps its own accounts.                     *)
LEMMA CountIndStep ==
    ASSUME TypeOK, WorkIsFound, NEW q \in Procs, CountInd(q), Step(q) \/ Crash(q)
    PROVE  CountInd(q)'
<1> USE DEF TypeOK, ControlTypeOK, ScanTypeOK, GroupTypeOK, JournalTypeOK
<1>0. [Next]_vars
  BY DEF Next
<1>1. ASSUME NEW f \in Files, ScanFile(q, f) PROVE CountInd(q)'
  <2>1. /\ found'[q] = found[q] \cup FindingsAbout(f, nth[q])
           \/ found'[q] = found[q]
        /\ pc' = pc /\ pc[q] = "scan" /\ mem' = mem /\ fixed' = fixed
        /\ UNCHANGED <<dir, bytes>>
    BY <1>1 DEF ScanFile
  <2>2. IsFiniteSet(found'[q]) /\ found[q] \subseteq found'[q]
    <3>1. IsFiniteSet(found[q]) /\ IsFiniteSet(FindingsAbout(f, nth[q]))
      BY FindingsAboutFinite DEF CountInd
    <3>2. IsFiniteSet(found[q] \cup FindingsAbout(f, nth[q]))
      BY <3>1, FS_Union, Zenon
    <3> QED
      BY <2>1, <3>1, <3>2
  <2> QED
    BY <2>1, <2>2 DEF CountInd, InGroup, Sound, Content
<1>2. CASE Start(q) \/ Walk(q) \/ EndScan(q) \/ Lock(q) \/ NoMoreGroups(q) \/ Release(q)
           \/ Crash(q)
  <2>1. /\ found' = found /\ mem' = mem /\ fixed' = fixed
        /\ pc'[q] \notin InGroup \cup {"exit0"}
    BY <1>2 DEF Start, Walk, EndScan, Lock, NoMoreGroups, Release, Crash, GoTo, InGroup
  <2> QED
    BY <1>0, <2>1, CountStays DEF InGroup
<1>3. CASE Report(q)
  <2>1. /\ found' = found /\ mem' = mem /\ fixed' = fixed
        /\ pc'[q] \notin InGroup
        /\ pc'[q] = "exit0" => found[q] = {}
    BY <1>3 DEF Report, GoTo, InGroup
  <2> QED
    BY <1>0, <2>1, CountStays DEF InGroup
<1>4. CASE NextGroup(q)
  <2>1. /\ found' = found /\ mem' = mem /\ fixed' = fixed
        /\ pc'[q] \in {"plan", "ca"} /\ grp'[q] = 0
    BY <1>4 DEF NextGroup, GoTo, ResetCount
  <2> QED
    BY <1>0, <2>1, CountStays
<1>5. CASE CheckCA(q) \/ CheckBlockers(q) \/ Dump(q) \/ Cleanup(q)
  <2>1. /\ found' = found /\ mem' = mem /\ fixed' = fixed /\ grp' = grp
        /\ pc[q] \in InGroup
        /\ pc'[q] \in {"plan", "roots", "referrers", "register", "group"}
    BY <1>5 DEF CheckCA, CheckBlockers, CheckUse, Dump, Cleanup, GiveUpGroup, GoTo, InGroup
  <2> QED
    BY <1>0, <2>1, CountStays
<1>6. CASE Plan(q)
  <2>1. /\ found' = found /\ mem' = mem /\ fixed' = fixed /\ grp' = grp
        /\ pc[q] \in InGroup
        /\ pc'[q] \in {"temp", "group"}
    BY <1>6 DEF Plan, GiveUpGroup, GoTo, InGroup
  <2>2. ASSUME pc'[q] = "temp" PROVE \A y \in First(work'[q]) : y.file \notin mem[q]
    <3>1. PICK x \in First(work[q]) : Content(x.file) = "stale" /\ work' = work
      BY <1>6, <2>2 DEF Plan, GiveUpGroup, GoTo
    <3>2. ASSUME NEW y \in First(work[q]) PROVE y.file = x.file
      <4>1. x \in Findings /\ y \in Findings /\ x.file <= y.file /\ y.file <= x.file
        BY DEF First
      <4>2. x.file \in Nat /\ y.file \in Nat
        BY <4>1, FilesAssumption DEF Findings
      <4> QED
        BY <4>1, <4>2
    <3>3. x.file \notin mem[q]
      BY <3>1 DEF CountInd, Sound
    <3> QED
      BY <3>1, <3>2, <3>3
  <2> QED
    BY <1>0, <2>1, <2>2, CountStays
<1>7. CASE MakeTemp(q)
  <2>1. /\ found' = found /\ mem' = mem /\ fixed' = fixed /\ grp' = grp
        /\ pc[q] = "temp" /\ pc'[q] \in {"rename", "cleanup", "group"}
        /\ pc'[q] = "rename" => work' = work
    BY <1>7 DEF MakeTemp, GiveUpGroup, GoTo
  <2>2. \A x \in First(work[q]) : x.file \notin mem[q]
    BY <2>1 DEF CountInd
  <2>3. pc[q] \in InGroup
    BY <2>1 DEF InGroup
  <2> QED
    BY <1>0, <2>1, <2>2, <2>3, CountStays
<1>8. CASE Rename(q)
  BY <1>8, RenameCounts
<1>9. CASE Register(q)
  <2>1. /\ found' = found /\ mem' = mem
        /\ pc[q] \in InGroup /\ pc'[q] = "group"
        /\ fixed'[q] \in {fixed[q], fixed[q] + grp[q]}
    BY <1>9 DEF Register, GiveUpRegistration, GiveUpGroup, GoTo, InGroup
  <2>2. fixed'[q] <= Cardinality(mem[q])
    <3>1. fixed[q] \in Nat /\ grp[q] \in Nat /\ Cardinality(mem[q]) \in Nat
      BY FS_CardinalityType DEF CountInd
    <3>2. fixed[q] + grp[q] <= Cardinality(mem[q])
      BY <2>1 DEF CountInd
    <3> QED
      BY <2>1, <3>1, <3>2
  <2>3. fixed'[q] \in Nat
    BY <2>1
  <2>4. \A f \in mem[q] : Sound(f)'
    BY <1>0, SoundStays DEF CountInd
  <2> QED
    BY <2>1, <2>2, <2>3, <2>4 DEF CountInd, InGroup
<1>10. CASE WriteJournal(q)
  <2>1. /\ found' = found /\ mem' = mem /\ fixed' = fixed
        /\ UNCHANGED <<dir, bytes>>
        /\ pc[q] = "journal" /\ pc'[q] = ExitOf(q)
    BY <1>10 DEF WriteJournal, SaveJournal, GoTo, storeVars
  <2>2. pc'[q] = "exit0" => \A x \in found[q] : Sound(x.file)'
    <3>1. pc'[q] = "exit0" => \A x \in found[q] : x.file \in mem[q]
      BY <2>1, AllFixed DEF ExitOf, InGroup
    <3> QED
      BY <2>1, <3>1 DEF CountInd, Sound, Content
  <2>3. pc'[q] \in {"exit0", "exit2"}
    BY <2>1 DEF ExitOf
  <2> QED
    BY <1>0, <2>1, <2>2, <2>3, CountStays DEF InGroup
<1> QED
  BY <1>1, <1>2, <1>3, <1>4, <1>5, <1>6, <1>7, <1>8, <1>9, <1>10 DEF Step

(* ... and the steps of others leave them alone.                           *)
LEMMA CountInductive ==
    TypeOK /\ WorkIsFound /\ (\A q \in Procs : CountInd(q)) /\ [Next]_vars =>
        (\A q \in Procs : CountInd(q))'
<1> SUFFICES ASSUME TypeOK, WorkIsFound, \A q \in Procs : CountInd(q), [Next]_vars,
                    NEW r \in Procs
             PROVE  CountInd(r)'
  OBVIOUS
<1>1. CASE Step(r) \/ Crash(r)
  BY <1>1, CountIndStep
<1>2. ASSUME /\ pc'[r] = pc[r] /\ found'[r] = found[r] /\ work'[r] = work[r]
             /\ grp'[r] = grp[r] /\ fixed'[r] = fixed[r] /\ mem'[r] = mem[r]
      PROVE  CountInd(r)'
  <2>1. \A x \in found[r] : x.file \in Files
    BY DEF TypeOK, ScanTypeOK, Findings
  <2>2. pc'[r] = "exit0" => \A x \in found[r] : Sound(x.file)'
    BY <1>2, <2>1, SoundStays DEF CountInd
  <2>3. pc'[r] \in {"temp", "rename"} => \A x \in First(work'[r]) : x.file \notin mem[r]
    BY <1>2 DEF CountInd
  <2> QED
    BY <1>2, <2>2, <2>3, CountStays
<1>3. CASE \E q \in Procs \ {r} : Step(q) \/ Crash(q)
  BY <1>2, <1>3, OtherStaysPut
<1>4. CASE NixUse \/ NixCollect \/ NixEndGC \/ Tick \/ UNCHANGED vars
  <2>1. UNCHANGED <<pc, found, work, grp, fixed, mem>>
    BY <1>4 DEF NixUse, NixCollect, NixEndGC, Tick, vars, doctorVars, scanVars, groupVars,
                journalVars
  <2> QED
    BY <1>2, <2>1
<1> QED
  BY <1>1, <1>3, <1>4 DEF Next, Terminated

(* Before the first step nothing is counted, journaled or scanned.         *)
LEMMA InitCounts ==
    ASSUME Init, NEW q \in Procs
    PROVE  CountInd(q) /\ ScanInd(q)
<1>1. /\ pc[q] = "idle" /\ nth[q] = 0 /\ todo[q] = {} /\ found[q] = {} /\ mem[q] = {}
      /\ fixed[q] = 0
  BY DEF Init
<1>2. Cardinality(mem[q]) = 0 /\ IsFiniteSet(mem[q]) /\ IsFiniteSet(found[q])
  BY <1>1, FS_EmptySet
<1>3. Len(argv[q]) \in Nat
  BY InitTypeOK, ArgsAssumption, LenProperties DEF TypeOK, ControlTypeOK
<1>4. CountInd(q)
  BY <1>1, <1>2 DEF CountInd, InGroup
<1> QED
  BY <1>1, <1>3, <1>4 DEF ScanInd, Covered, Repairing, InGroup

(* An invocation never counts more files as fixed than it repaired         *)
(* (doctor.go:567, 593), whatever fails, crashes or runs beside it.        *)
THEOREM FixedIsAlwaysRepaired == Spec => []FixedIsRepaired
<1> DEFINE Ind == TypeOK /\ WorkIsFound /\ \A q \in Procs : CountInd(q)
<1>1. Init => Ind
  BY InitTypeOK, InitCounts, InitWork
<1>2. Ind /\ [Next]_vars => Ind'
  BY NextTypeOK, WorkIsFoundInductive, CountInductive
<1>3. Ind => FixedIsRepaired
  <2> SUFFICES ASSUME Ind, NEW q \in Procs PROVE fixed[q] <= Cardinality(mem[q])
    BY DEF FixedIsRepaired
  <2>1. fixed[q] \in Nat /\ grp[q] \in Nat /\ Cardinality(mem[q]) \in Nat
    BY FS_CardinalityType DEF TypeOK, GroupTypeOK, CountInd
  <2> QED
    BY <2>1 DEF CountInd
<1> QED
  BY <1>1, <1>2, <1>3, PTL DEF Spec

(* Status 0 means that nothing broken is left in the scope, as long as     *)
(* every file can be read and every root walked: the one way to status 0   *)
(* over a broken file is a file the scan could not examine                 *)
(* (doctor.go:101-106, 588-596).                                           *)
THEOREM ExitZeroIsSound ==
    ASSUME "open" \notin Faults, "walk" \notin Faults
    PROVE  Spec => []ExitZeroMeansSound
<1> DEFINE Ind == /\ TypeOK /\ WorkIsFound
                  /\ \A q \in Procs : CountInd(q)
                  /\ \A q \in Procs : ScanInd(q)
<1>1. Init => Ind
  BY InitTypeOK, InitCounts, InitWork
<1>2. Ind /\ [Next]_vars => Ind'
  BY NextTypeOK, WorkIsFoundInductive, CountInductive, ScanInductive
<1>3. Ind => ExitZeroMeansSound
  <2> SUFFICES ASSUME Ind, NEW q \in Procs, pc[q] = "exit0", NEW f \in Scope(q)
               PROVE  Sound(f)
    BY DEF ExitZeroMeansSound, Sound
  <2>1. nth[q] = Len(argv[q]) /\ todo[q] = {}
    BY DEF ScanInd
  <2>2. PICK n \in 1..Len(argv[q]) : f \in Under[argv[q][n]]
    BY DEF Scope
  <2>3. Sound(f) \/ \E x \in found[q] : x.file = f
    BY <2>1, <2>2 DEF ScanInd, Covered
  <2> QED
    BY <2>3 DEF CountInd
<1> QED
  BY <1>1, <1>2, <1>3, PTL DEF Spec

-----------------------------------------------------------------------------
(* Consent.                                                                *)

(* An invocation leaves the group and the temporary file of others alone.  *)
LEMMA OtherKeepsGroup ==
    ASSUME TypeOK, NEW q \in Procs, NEW r \in Procs \ {q}, Step(q) \/ Crash(q)
    PROVE  /\ cur'[r] = cur[r] /\ queue'[r] = queue[r] /\ nar'[r] = nar[r]
           /\ temp'[r] = temp[r]
           /\ cmd' = cmd
<1> USE DEF TypeOK, StoreTypeOK, GroupTypeOK, GiveUpGroup
<1>1. CASE Start(q) \/ Walk(q) \/ EndScan(q) \/ Report(q)
  BY <1>1 DEF Start, Walk, EndScan, Report
<1>2. CASE \E f \in Files : ScanFile(q, f)
  BY <1>2 DEF ScanFile
<1>3. CASE Lock(q) \/ NextGroup(q) \/ NoMoreGroups(q)
  BY <1>3 DEF Lock, NextGroup, NoMoreGroups
<1>4. CASE CheckCA(q) \/ CheckBlockers(q)
  BY <1>4 DEF CheckCA, CheckBlockers, CheckUse
<1>5. CASE Plan(q) \/ MakeTemp(q) \/ Cleanup(q)
  BY <1>5 DEF Plan, MakeTemp, Cleanup, CreateTemp, RemoveTemp
<1>6. CASE Rename(q)
  BY <1>6 DEF Rename, CountRepaired, RenameOver
<1>7. CASE Dump(q) \/ Register(q)
  BY <1>7 DEF Dump, Register, GiveUpRegistration
<1>8. CASE Release(q) \/ WriteJournal(q) \/ Crash(q)
  BY <1>8 DEF Release, WriteJournal, SaveJournal, Crash, AbandonFiles
<1> QED
  BY <1>1, <1>2, <1>3, <1>4, <1>5, <1>6, <1>7, <1>8 DEF Step

(* What nix and the clock do leaves every invocation where it is.          *)
LEMMA NixKeepsProcs ==
    ASSUME NixUse \/ NixCollect \/ NixEndGC \/ Tick \/ UNCHANGED vars
    PROVE  /\ UNCHANGED <<pc, inputVars, scanVars, groupVars, journalVars>>
           /\ UNCHANGED temp \/ \E p \in Paths : Collect(p)
BY DEF NixUse, BeginUse, EndUse, NixCollect, BeginGC, NixEndGC, EndGC, Tick, vars

(* What one invocation has of Consented.                                   *)
ConsentOf(q) ==
    /\ pc[q] \in InGroup \ {"ca", "roots"} /\ cmd[q] = "fix" =>
          /\ WasFree(cur[q], "root")
          /\ pc[q] # "referrers" => WasFree(cur[q], "referrer")
    /\ temp[q] \in Files =>
          pc[q] \in {"rename", "cleanup"} /\ PathOf[temp[q]] = cur[q]

(* No invocation changes what is in use; nix keeps the history of it.      *)
LEMMA EverFreeGrows ==
    ASSUME [Next]_vars, (Paths \X Uses) \ inUse \subseteq everFree
    PROVE  everFree \subseteq everFree' /\ (Paths \X Uses) \ inUse' \subseteq everFree'
<1>1. ASSUME NEW q \in Procs, Step(q) \/ Crash(q) PROVE UNCHANGED useVars
  <2>1. CASE Start(q) \/ Walk(q) \/ EndScan(q) \/ Report(q)
    BY <2>1 DEF Start, Walk, EndScan, Report
  <2>2. CASE \E f \in Files : ScanFile(q, f)
    BY <2>2 DEF ScanFile
  <2>3. CASE Lock(q) \/ NextGroup(q) \/ NoMoreGroups(q) \/ CheckCA(q) \/ CheckBlockers(q)
    BY <2>3 DEF Lock, NextGroup, NoMoreGroups, CheckCA, CheckBlockers, CheckUse
  <2>4. CASE Plan(q) \/ MakeTemp(q) \/ Rename(q) \/ Cleanup(q)
    BY <2>4 DEF Plan, MakeTemp, Rename, Cleanup
  <2>5. CASE Dump(q) \/ Register(q) \/ Release(q) \/ WriteJournal(q) \/ Crash(q)
    BY <2>5 DEF Dump, Register, Release, WriteJournal, SaveJournal, Crash, AbandonFiles
  <2> QED
    BY <1>1, <2>1, <2>2, <2>3, <2>4, <2>5 DEF Step
<1>2. CASE NixUse \/ NixCollect \/ NixEndGC
  BY <1>2 DEF NixUse, BeginUse, EndUse, NixCollect, BeginGC, Collect, NixEndGC, EndGC
<1>3. CASE Tick \/ UNCHANGED vars
  BY <1>3 DEF Tick, vars
<1> QED
  BY <1>1, <1>2, <1>3 DEF Next, Terminated

(* A step of an invocation keeps its own part.                             *)
LEMMA ConsentOfStep ==
    ASSUME TypeOK, GroupIsOnePath, (Paths \X Uses) \ inUse \subseteq everFree,
           everFree \subseteq everFree',
           NEW q \in Procs, ConsentOf(q), Step(q) \/ Crash(q)
    PROVE  ConsentOf(q)'
<1> USE FilesAssumption
    DEF ConsentOf, WasFree, InGroup, TypeOK, ControlTypeOK, StoreTypeOK, GroupTypeOK, GoTo,
        GiveUpGroup
<1>1. CASE Start(q) \/ Walk(q) \/ EndScan(q) \/ Report(q)
  BY <1>1 DEF Start, Walk, EndScan, Report
<1>2. CASE \E f \in Files : ScanFile(q, f)
  BY <1>2 DEF ScanFile
<1>3. CASE Lock(q) \/ NoMoreGroups(q) \/ CheckCA(q)
  BY <1>3 DEF Lock, NoMoreGroups, CheckCA
<1>4. CASE NextGroup(q)
  BY <1>4 DEF NextGroup, StorePath
<1>5. CASE CheckBlockers(q)
  <2>1. ASSUME NEW k \in Uses, Blockers(cur[q], k) = {} PROVE WasFree(cur[q], k)'
    BY <1>5, <2>1 DEF Blockers, CheckBlockers, CheckUse
  <2>2. cmd' = cmd /\ UNCHANGED temp /\ pc[q] \in {"roots", "referrers"}
    BY <1>5 DEF CheckBlockers, CheckUse
  <2>3. CASE pc'[q] = "group"
    BY <2>2, <2>3
  <2>4. CASE pc[q] = "roots" /\ pc'[q] = "referrers" /\ cur' = cur /\ Blockers(cur[q], "root") = {}
    BY <2>1, <2>2, <2>4 DEF Uses
  <2>5. CASE /\ pc[q] = "referrers" /\ pc'[q] = "plan" /\ cur' = cur
             /\ Blockers(cur[q], "referrer") = {}
    BY <2>1, <2>2, <2>5 DEF Uses
  <2> QED
    BY <1>5, <2>3, <2>4, <2>5 DEF CheckBlockers, CheckUse
<1>6. CASE Plan(q)
  BY <1>6 DEF Plan
<1>7. CASE MakeTemp(q)
  <2>1. \A x \in First(work[q]) : x.file \in Files /\ PathOf[x.file] = cur[q]
    BY <1>7, FirstSubset DEF GroupIsOnePath, MakeTemp, Findings
  <2> QED
    BY <1>7, <2>1 DEF MakeTemp, CreateTemp
<1>8. CASE Rename(q)
  BY <1>8 DEF Rename, RenameOver, CountRepaired
<1>9. CASE Cleanup(q)
  BY <1>9 DEF Cleanup, RemoveTemp
<1>10. CASE Dump(q) \/ Register(q)
  BY <1>10 DEF Dump, Register, GiveUpRegistration
<1>11. CASE Release(q) \/ WriteJournal(q) \/ Crash(q)
  BY <1>11 DEF Release, WriteJournal, SaveJournal, Crash, AbandonFiles, ExitOf
<1> QED
  BY <1>1, <1>2, <1>3, <1>4, <1>5, <1>6, <1>7, <1>8, <1>9, <1>10, <1>11 DEF Step

LEMMA ConsentedInductive ==
    TypeOK /\ GroupIsOnePath /\ Consented /\ [Next]_vars => Consented'
<1> SUFFICES ASSUME TypeOK, GroupIsOnePath, Consented, [Next]_vars PROVE Consented'
  OBVIOUS
<1>0. /\ (Paths \X Uses) \ inUse \subseteq everFree /\ \A q \in Procs : ConsentOf(q)
      /\ everFree \subseteq everFree' /\ (Paths \X Uses) \ inUse' \subseteq everFree'
  BY EverFreeGrows DEF Consented, ConsentOf
<1>1. ASSUME NEW r \in Procs PROVE ConsentOf(r)'
  <2>1. CASE Step(r) \/ Crash(r)
    BY <1>0, <2>1, ConsentOfStep
  <2>2. ASSUME NEW q \in Procs \ {r}, Step(q) \/ Crash(q) PROVE ConsentOf(r)'
    <3>1. /\ pc'[r] = pc[r] /\ cmd'[r] = cmd[r] /\ cur'[r] = cur[r]
          /\ temp'[r] = temp[r]
      BY <2>2, OtherStaysPut, OtherKeepsGroup
    <3> QED
      BY <1>0, <3>1 DEF ConsentOf, WasFree
  <2>3. CASE NixUse \/ NixCollect \/ NixEndGC \/ Tick \/ UNCHANGED vars
    <3>1. pc' = pc /\ cmd' = cmd /\ cur' = cur
      BY <2>3, NixKeepsProcs
    <3>2. temp'[r] \in {temp[r], NoFile}
      BY <2>3, NixKeepsProcs DEF Collect, TypeOK, StoreTypeOK
    <3> QED
      BY <1>0, <3>1, <3>2, FilesAssumption DEF ConsentOf, WasFree
  <2> QED
    BY <2>1, <2>2, <2>3 DEF Next, Terminated
<1> QED
  BY <1>0, <1>1 DEF Consented, ConsentOf

(* Whatever runs, fails or is killed meanwhile, a rename without           *)
(* --fix-live replaces no file of a path that has had a root, or has had a *)
(* referrer, all along.                                                    *)
THEOREM ConsentIsHonoured == Spec => ConsentHonoured
<1> DEFINE Honoured ==
               \A q \in Procs, f \in Files :
                  /\ pc[q] = "rename" /\ temp[q] = f /\ dir'[f] # dir[f]
                  /\ cmd[q] = "fix"
                  /\ PathOf[f] # NoPath
                  => \A k \in Uses : <<PathOf[f], k>> \in everFree
<1>1. Init => GroupIsOnePath /\ Consented
  BY FilesAssumption DEF Init, GroupIsOnePath, Consented, InGroup
<1>2. Consented => [Honoured]_vars
  BY DEF Consented, WasFree, InGroup, Uses
<1> QED
  BY <1>1, <1>2, GroupIsOnePathInductive, ConsentedInductive, TypeCorrect, PTL
  DEF Spec, ConsentHonoured

-----------------------------------------------------------------------------
(* Invocations in succession.                                              *)

(* Whoever takes a step has begun and not ended, or begins.                *)
LEMMA StepRuns ==
    ASSUME NEW q \in Procs, Step(q) \/ Crash(q)
    PROVE  Start(q) \/ Running(q)
BY DEF Step, Crash, Walk, EndScan, Report, ScanFile, Lock, NextGroup, NoMoreGroups,
       CheckCA, CheckBlockers, CheckUse, Plan, MakeTemp, Rename, Cleanup, Dump, Register, Release,
       WriteJournal, SaveJournal, Running, Ended, Exits

(* An invocation begins when none runs, or goes on.                        *)
LEMMA OthersRest ==
    ASSUME ~Concurrent, OneAtATime, NEW q \in Procs, Step(q) \/ Crash(q)
    PROVE  \A r \in Procs \ {q} : ~Running(r)
BY StepRuns DEF OneAtATime, Start, Quiet

LEMMA OneAtATimeInductive ==
    ASSUME ~Concurrent
    PROVE  TypeOK /\ OneAtATime /\ [Next]_vars => OneAtATime'
<1> SUFFICES ASSUME TypeOK, OneAtATime, [Next]_vars PROVE OneAtATime'
  OBVIOUS
<1>1. ASSUME NEW q \in Procs, Step(q) \/ Crash(q) PROVE OneAtATime'
  <2>1. \A r \in Procs \ {q} : ~Running(r)'
    BY <1>1, OthersRest, OtherStaysPut DEF Running
  <2> QED
    BY <2>1 DEF OneAtATime
<1>2. CASE NixUse \/ NixCollect \/ NixEndGC \/ Tick \/ UNCHANGED vars
  BY <1>2, NixKeepsProcs DEF OneAtATime, Running
<1> QED
  BY <1>1, <1>2 DEF Next, Terminated

(* What a path serialises depends on its files only.                       *)
LEMMA SameFiles ==
    ASSUME UNCHANGED <<dir, bytes>>
    PROVE  /\ \A f : Content(f)' = Content(f) /\ Exists(f)' = Exists(f)
           /\ \A p : NarOf(p)'.files = NarOf(p).files
BY DEF Content, Exists, NarOf

(* The findings that come first are all about one file.                    *)
LEMMA FirstIsOneFile ==
    ASSUME TypeOK, NEW q \in Procs, NEW x \in First(work[q]), NEW y \in First(work[q])
    PROVE  x.file = y.file /\ x.file \in Files
<1>1. x \in Findings /\ y \in Findings
  BY FirstSubset DEF TypeOK, GroupTypeOK
<1>2. x.file \in Nat /\ y.file \in Nat /\ x.file \in Files
  BY <1>1, FilesAssumption DEF Findings
<1>3. x.file <= y.file /\ y.file <= x.file
  BY DEF First
<1> QED
  BY <1>2, <1>3

(* A step of an invocation leaves what it relies on.                       *)
LEMMA UndisturbedStep ==
    ASSUME TypeOK, NEW q \in Procs, Undisturbed(q), Step(q) \/ Crash(q)
    PROVE  Undisturbed(q)'
<1> USE FilesAssumption
    DEF Undisturbed, TempHasFile, StaleAhead, TypeOK, ControlTypeOK,
        StoreTypeOK, GroupTypeOK, GoTo, GiveUpGroup
<1>1. CASE Start(q) \/ Walk(q) \/ EndScan(q) \/ Report(q)
  BY <1>1 DEF Start, Walk, EndScan, Report
<1>2. CASE \E f \in Files : ScanFile(q, f)
  BY <1>2 DEF ScanFile
<1>3. CASE Lock(q) \/ NextGroup(q) \/ NoMoreGroups(q) \/ CheckCA(q) \/ CheckBlockers(q)
  BY <1>3 DEF Lock, NextGroup, NoMoreGroups, CheckCA, CheckBlockers, CheckUse
<1>4. CASE Plan(q)
  <2>1. UNCHANGED <<dir, bytes, temp>> /\ pc[q] = "plan"
    BY <1>4 DEF Plan
  <2>2. pc'[q] = "temp" =>
            work' = work /\ \A x \in First(work[q]) : Content(x.file) = "stale"
    BY <1>4, FirstIsOneFile DEF Plan
  <2>3. pc'[q] \in {"temp", "group"}
    BY <1>4 DEF Plan
  <2> QED
    BY <2>1, <2>2, <2>3, SameFiles
<1>5. CASE MakeTemp(q)
  <2>1. UNCHANGED <<dir, bytes>> /\ pc[q] = "temp" /\ pc'[q] \in {"rename", "cleanup", "group"}
    BY <1>5 DEF MakeTemp, CreateTemp
  <2>2. pc'[q] = "group" => temp'[q] \notin Files
    BY <1>5 DEF MakeTemp
  <2>3. pc'[q] # "group" => work' = work /\ Exists(temp'[q])
    BY <1>5, FirstIsOneFile DEF MakeTemp, CreateTemp
  <2> QED
    BY <2>1, <2>2, <2>3, SameFiles
<1>6. CASE Rename(q)
  <2>1. CASE UNCHANGED <<fileVars, groupVars>> /\ pc'[q] = "cleanup"
    BY <1>6, <2>1, SameFiles DEF Rename
  <2>2. ASSUME NEW x \in First(work[q]), RenameOver(q, x.file, "valid"), CountRepaired(q, x)
        PROVE  Undisturbed(q)'
    <3>1. temp'[q] = NoFile /\ pc'[q] \in {"plan", "dump", "group"}
      BY <2>2, <1>6 DEF RenameOver, CountRepaired
    <3> QED
      BY <3>1
  <2> QED
    BY <1>6, <2>1, <2>2 DEF Rename
<1>7. CASE Cleanup(q)
  BY <1>7 DEF Cleanup, RemoveTemp
<1>8. CASE Dump(q) \/ Register(q)
  BY <1>8 DEF Dump, Register, GiveUpRegistration
<1>9. CASE Release(q) \/ WriteJournal(q) \/ Crash(q)
  BY <1>9 DEF Release, WriteJournal, SaveJournal, Crash, AbandonFiles, ExitOf
<1> QED
  BY <1>1, <1>2, <1>3, <1>4, <1>5, <1>6, <1>7, <1>8, <1>9 DEF Step

(* A dump serialises what the path holds.                                  *)
LEMMA NarIsCurrentStep ==
    ASSUME TypeOK, NEW q \in Procs, NarIsCurrent(q), Step(q) \/ Crash(q)
    PROVE  NarIsCurrent(q)'
<1> USE DEF NarIsCurrent, TypeOK, ControlTypeOK, StoreTypeOK, GroupTypeOK, GoTo, GiveUpGroup
<1>1. CASE Start(q) \/ Walk(q) \/ EndScan(q) \/ Report(q)
  BY <1>1 DEF Start, Walk, EndScan, Report
<1>2. CASE \E f \in Files : ScanFile(q, f)
  BY <1>2 DEF ScanFile
<1>3. CASE Lock(q) \/ NextGroup(q) \/ NoMoreGroups(q) \/ CheckCA(q) \/ CheckBlockers(q)
  BY <1>3 DEF Lock, NextGroup, NoMoreGroups, CheckCA, CheckBlockers, CheckUse
<1>4. CASE Plan(q) \/ MakeTemp(q) \/ Cleanup(q)
  BY <1>4 DEF Plan, MakeTemp, Cleanup
<1>5. CASE Rename(q)
  BY <1>5 DEF Rename, CountRepaired
<1>6. CASE Dump(q)
  <2>1. UNCHANGED <<dir, bytes, cur>> /\ pc[q] = "dump" /\ pc'[q] \in {"register", "group"}
    BY <1>6 DEF Dump
  <2>2. pc'[q] = "register" => nar'[q] = NarOf(cur[q])
    BY <1>6 DEF Dump
  <2>3. NarOf(cur[q]) # NoRow
    BY NarType, RowAssumption
  <2> QED
    BY <2>1, <2>2, <2>3, SameFiles
<1>7. CASE Register(q)
  BY <1>7 DEF Register, GiveUpRegistration
<1>8. CASE Release(q) \/ WriteJournal(q) \/ Crash(q)
  BY <1>8 DEF Release, WriteJournal, SaveJournal, Crash, ExitOf
<1> QED
  BY <1>1, <1>2, <1>3, <1>4, <1>5, <1>6, <1>7, <1>8 DEF Step

(* An invocation that rests has nothing to be disturbed.                   *)
LEMMA RestingUndisturbed ==
    ASSUME TypeOK, NEW q \in Procs, NEW r \in Procs \ {q}, ~Running(r),
           Step(q) \/ Crash(q)
    PROVE  /\ Undisturbed(r) => Undisturbed(r)'
           /\ NarIsCurrent(r)'
<1>1. pc'[r] = pc[r] /\ temp'[r] = temp[r] /\ pc[r] \in {"idle"} \cup Ended
  BY OtherStaysPut, OtherKeepsGroup DEF Running, TypeOK, ControlTypeOK
<1> QED
  BY <1>1 DEF Undisturbed, TempHasFile, StaleAhead, NarIsCurrent, Ended, Exits

(* A collection and a holder of the GC lock exclude each other.            *)
Excludes == gcBusy => gcShared = {}

LEMMA ExcludesInductive == Excludes /\ [Next]_vars => Excludes'
<1> SUFFICES ASSUME Excludes, [Next]_vars PROVE Excludes'
  OBVIOUS
<1> USE DEF Excludes
<1>1. ASSUME NEW q \in Procs, Step(q) \/ Crash(q) PROVE Excludes'
  <2>1. CASE Start(q) \/ Walk(q) \/ EndScan(q) \/ Report(q)
    BY <2>1 DEF Start, Walk, EndScan, Report
  <2>2. CASE \E f \in Files : ScanFile(q, f)
    BY <2>2 DEF ScanFile
  <2>3. CASE Lock(q) \/ Release(q)
    BY <2>3 DEF Lock, LockShared, Release, Unlock
  <2>4. CASE NextGroup(q) \/ NoMoreGroups(q) \/ CheckCA(q) \/ CheckBlockers(q) \/ Plan(q)
    BY <2>4 DEF NextGroup, NoMoreGroups, CheckCA, CheckBlockers, CheckUse, Plan
  <2>5. CASE MakeTemp(q) \/ Rename(q) \/ Cleanup(q) \/ Dump(q)
    BY <2>5 DEF MakeTemp, Rename, Cleanup, Dump
  <2>6. CASE Register(q) \/ WriteJournal(q) \/ Crash(q)
    BY <2>6 DEF Register, WriteJournal, Crash, AbandonFiles
  <2> QED
    BY <1>1, <2>1, <2>2, <2>3, <2>4, <2>5, <2>6 DEF Step
<1>2. CASE NixUse \/ NixCollect \/ NixEndGC \/ Tick \/ UNCHANGED vars
  BY <1>2 DEF NixUse, BeginUse, EndUse, NixCollect, BeginGC, Collect, NixEndGC, EndGC, Tick,
              vars
<1> QED
  BY <1>1, <1>2 DEF Next, Terminated

(* A collection takes the temporary files of the paths it deletes, except  *)
(* beside a flat path, which only who holds no lock can lose.              *)
LEMMA NixDisturbsNone ==
    ASSUME TypeOK, Excludes, NEW r \in Procs, Undisturbed(r),
           NixUse \/ NixCollect \/ NixEndGC \/ Tick \/ UNCHANGED vars
    PROVE  Undisturbed(r)'
<1> USE DEF Undisturbed, TempHasFile, StaleAhead
<1>0. UNCHANGED <<pc, inputVars, scanVars, groupVars, journalVars>>
  BY NixKeepsProcs
<1>1. CASE UNCHANGED fileVars
  <2>1. UNCHANGED gcShared
    BY DEF NixUse, BeginUse, EndUse, NixCollect, BeginGC, Collect, NixEndGC, EndGC, Tick, vars
  <2> QED
    BY <1>0, <1>1, <2>1, SameFiles
<1>2. ASSUME NEW p \in Paths, Collect(p) PROVE Undisturbed(r)'
  <2>1. /\ \A f \in Files : dir'[f] = IF PathOf[f] = p THEN NoInode ELSE dir[f]
        /\ temp'[r] = IF temp[r] # NoFile /\ TempPath(temp[r]) = p THEN NoFile ELSE temp[r]
        /\ bytes' = bytes /\ gcShared = {} /\ gcShared' = {}
    BY <1>2 DEF Collect, Excludes
  <2>2. \A f \in Files : Content(f)' = IF PathOf[f] = p THEN "absent" ELSE Content(f)
    BY <2>1 DEF Content
  <2>3. TempHasFile(r)'
    BY <1>0, <2>1, FilesAssumption DEF Exists, TempPath, TypeOK, StoreTypeOK
  <2>4. StaleAhead(r)'
    BY <1>0, <2>2, FirstIsOneFile
  <2> QED
    BY <2>3, <2>4
<1> QED
  BY <1>1, <1>2 DEF NixUse, BeginUse, EndUse, NixCollect, BeginGC, NixEndGC, EndGC, Tick, vars

(* The GC lock keeps a collection out of the path in hand.                 *)
LEMMA NixKeepsNar ==
    ASSUME TypeOK, LockDiscipline, NEW r \in Procs, NarIsCurrent(r),
           NixUse \/ NixCollect \/ NixEndGC \/ Tick \/ UNCHANGED vars
    PROVE  NarIsCurrent(r)'
<1> USE DEF NarIsCurrent
<1>0. UNCHANGED <<pc, inputVars, scanVars, groupVars, journalVars>>
  BY NixKeepsProcs
<1>1. CASE UNCHANGED fileVars
  BY <1>0, <1>1, SameFiles
<1>2. ASSUME NEW p \in Paths, Collect(p) PROVE NarIsCurrent(r)'
  <2>1. pc[r] = "register" => cur[r] # p
    BY <1>2 DEF LockDiscipline, InGroup, Collect
  <2>2. \A f \in Files : PathOf[f] # p => Content(f)' = Content(f)
    BY <1>2 DEF Collect, Content
  <2>3. cur[r] # p => NarOf(cur[r])'.files = NarOf(cur[r]).files
    BY <1>0, <2>2 DEF NarOf
  <2> QED
    BY <1>0, <2>1, <2>3
<1> QED
  BY <1>1, <1>2 DEF NixUse, BeginUse, EndUse, NixCollect, BeginGC, NixEndGC, EndGC, Tick, vars

-----------------------------------------------------------------------------
(* The contract.                                                           *)

(* A path's part of the contents is what its NAR serialises.               *)
LEMMA RecordedIsNar ==
    ASSUME NEW p
    PROVE  Contract!Recorded(p) = NarOf(p).files
BY DEF Contract!Recorded, NarOf, FileContents

(* Initially no file is missing and the rows are right.                    *)
LEMMA ContractInit == Init => Contract!Init
<1> SUFFICES ASSUME Init PROVE Contract!Init
  OBVIOUS
<1>1. FileContents \in [Files -> Contract!Classes]
  <2>1. bytes \in [Inodes -> Classes]
    BY InitTypeOK DEF TypeOK, StoreTypeOK
  <2>2. \A f \in Files : dir[f] \in Inodes
    BY HomeAssumption DEF Init
  <2>3. \A f \in Files : Content(f) \in Classes
    BY <2>1, <2>2, InodesAssumption DEF Content
  <2>4. Contract!Classes = Classes
    BY DEF Contract!Classes, Classes
  <2> QED
    BY <2>3, <2>4 DEF FileContents
<1>2. RecordedContents = [p \in Paths |-> Contract!Recorded(p)]
  <2>1. \A p \in Paths : row[p] = NarOf(p) /\ row[p] # NoRow
    BY InitTypeOK, NarType, RowAssumption DEF Init, TypeOK
  <2> QED
    BY <2>1, RecordedIsNar DEF RecordedContents
<1>3. MadeValid = {}
  BY DEF Init, MadeValid
<1> QED
  BY <1>1, <1>2, <1>3 DEF Contract!Init

(* A step that changes no file, row or journal is none of the contract's.  *)
LEMMA ContractStutters ==
    ASSUME UNCHANGED <<dir, bytes, row, mem>>
    PROVE  UNCHANGED Contract!contractVars
<1>1. UNCHANGED <<FileContents, MadeValid>>
  BY SameFiles DEF FileContents, MadeValid
<1>2. UNCHANGED RecordedContents
  BY DEF RecordedContents
<1> QED
  BY <1>1, <1>2 DEF Contract!contractVars

(* What is about to be replaced is there.                                  *)
Held(q) == pc[q] = "rename" => \A x \in First(work[q]) : temp[q] = x.file => Exists(x.file)

(* The GC lock, when it is held, keeps flat paths there, too.              *)
LEMMA LockHolds ==
    ASSUME TypeOK, GroupIsOnePath, LockDiscipline, NEW q \in Procs, Undisturbed(q)
    PROVE  Held(q)
<1> SUFFICES ASSUME pc[q] = "rename", NEW x \in First(work[q]), temp[q] = x.file
             PROVE  Exists(x.file)
  BY DEF Held
<1>1. x.file \in Files /\ PathOf[x.file] = cur[q]
  BY FirstIsOneFile, FirstSubset DEF GroupIsOnePath, InGroup
<1>2. PathOf[x.file] \in FlatPaths => q \in gcShared
  BY <1>1, PathsAssumption, FlatAssumption DEF LockDiscipline, InGroup
<1>3. Exists(x.file)
  BY <1>1, <1>2 DEF Undisturbed, TempHasFile
<1> QED
  BY <1>3

(* A rename that lands repairs one file, one that holds a stale signature. *)
LEMMA RenameRepairs ==
    ASSUME TypeOK, GroupIsOnePath, NEW q \in Procs, Undisturbed(q), Held(q), Rename(q)
    PROVE  [Contract!Next]_(Contract!contractVars)
<1>1. CASE UNCHANGED <<fileVars, journalVars>>
  BY <1>1, ContractStutters DEF Rename
<1>2. ASSUME NEW x \in First(work[q]), temp[q] = x.file, RenameOver(q, x.file, "valid"),
             JournalFile(q, x.file)
      PROVE  \E f \in Files : Contract!Repair(f)
  <2> DEFINE f == x.file
  <2>1. f \in Files /\ pc[q] = "rename" /\ x \in work[q]
    BY <1>2, FirstIsOneFile, FirstSubset DEF Rename
  <2>2. Content(f) = "stale" /\ Exists(f)
    <3>1. Exists(f)
      BY <1>2, <2>1 DEF Held
    <3> QED
      BY <1>2, <2>1, <3>1 DEF Undisturbed, StaleAhead, Content, Exists, TypeOK, StoreTypeOK,
                              Classes
  <2>3. PathOf[f] \notin ContentAddressed
    BY <2>1 DEF GroupIsOnePath, InGroup
  <2>4. \A g \in Files : Content(g)' = IF g = f THEN "valid" ELSE Content(g)
    BY <1>2, <2>1, RenameOverContent DEF TypeOK
  <2>5. /\ f \in mem'[q]
        /\ \A g \in Files \ {f}, r \in Procs : g \in mem'[r] <=> g \in mem[r]
    BY <1>2 DEF JournalFile, TypeOK, JournalTypeOK
  <2>6. FileContents' = [FileContents EXCEPT ![f] = "valid"]
    BY <2>1, <2>4 DEF FileContents
  <2>7. MadeValid' = MadeValid \cup {f}
    BY <2>1, <2>4, <2>5 DEF MadeValid
  <2>8. RecordedContents' = RecordedContents
    BY DEF Rename, RecordedContents
  <2> QED
    BY <2>1, <2>2, <2>3, <2>6, <2>7, <2>8 DEF Contract!Repair, FileContents
<1> QED
  BY <1>1, <1>2 DEF Rename, Contract!Next

(* A registration sets the row to what the path holds.                     *)
LEMMA RegisterReconciles ==
    ASSUME TypeOK, NEW q \in Procs, NarIsCurrent(q), Register(q),
           row[cur[q]] # NoRow
    PROVE  [Contract!Next]_(Contract!contractVars)
<1>0. UNCHANGED <<dir, bytes, mem>> /\ pc[q] = "register"
  BY DEF Register
<1>1. CASE UNCHANGED row
  BY <1>0, <1>1, ContractStutters
<1>2. CASE RegisterValidity(cur[q], nar[q])
  <2> DEFINE p == cur[q]
  <2>1. p \in Paths /\ nar[q] # NoRow /\ nar[q].files = NarOf(p).files
    BY <1>0 DEF NarIsCurrent, TypeOK, GroupTypeOK
  <2>2. RecordedContents' = [RecordedContents EXCEPT ![p] = NarOf(p).files]
    BY <1>2, <2>1 DEF RegisterValidity, RecordedContents, TypeOK, StoreTypeOK
  <2>3. UNCHANGED <<FileContents, MadeValid>>
    BY <1>0, SameFiles DEF FileContents, MadeValid
  <2>4. RecordedContents[p] # NoRow
    BY <2>1, RowAssumption DEF RecordedContents, TypeOK, StoreTypeOK, Nars
  <2> QED
    BY <2>1, <2>2, <2>3, <2>4, RecordedIsNar DEF Contract!Reconcile, Contract!Next
<1> QED
  BY <1>1, <1>2 DEF Register

(* Every step of an undisturbed invocation is one of the contract's, or    *)
(* none.                                                                   *)
LEMMA ContractStep ==
    ASSUME TypeOK, GroupIsOnePath,
           NEW q \in Procs, Undisturbed(q), Held(q), NarIsCurrent(q),
           Step(q) \/ Crash(q),
           pc[q] = "register" => row[cur[q]] # NoRow
    PROVE  [Contract!Next]_(Contract!contractVars)
<1>1. CASE Start(q) \/ Walk(q) \/ EndScan(q) \/ Report(q)
  BY <1>1, ContractStutters DEF Start, Walk, EndScan, Report
<1>2. CASE \E f \in Files : ScanFile(q, f)
  BY <1>2, ContractStutters DEF ScanFile
<1>3. CASE Lock(q) \/ NextGroup(q) \/ NoMoreGroups(q) \/ CheckCA(q) \/ CheckBlockers(q)
  BY <1>3, ContractStutters DEF Lock, NextGroup, NoMoreGroups, CheckCA, CheckBlockers, CheckUse
<1>4. CASE Plan(q) \/ MakeTemp(q) \/ Cleanup(q) \/ Dump(q)
  BY <1>4, ContractStutters DEF Plan, MakeTemp, CreateTemp, Cleanup, RemoveTemp, Dump
<1>5. CASE Rename(q)
  BY <1>5, RenameRepairs
<1>6. CASE Register(q)
  BY <1>6, RegisterReconciles DEF Register
<1>7. CASE Release(q) \/ WriteJournal(q) \/ Crash(q)
  BY <1>7, ContractStutters DEF Release, WriteJournal, SaveJournal, Crash, AbandonFiles
<1> QED
  BY <1>1, <1>2, <1>3, <1>4, <1>5, <1>6, <1>7 DEF Step

(* A collection deletes whole paths.                                       *)
LEMMA NixContract ==
    ASSUME TypeOK, NixUse \/ NixCollect \/ NixEndGC \/ Tick \/ UNCHANGED vars
    PROVE  [Contract!Next]_(Contract!contractVars)
<1>1. CASE UNCHANGED <<dir, bytes, row, mem>>
  BY <1>1, ContractStutters
<1>2. ASSUME NEW p \in Paths, Collect(p), UNCHANGED doctorVars
      PROVE  Contract!Delete(p)
  <2>1. \A f \in Files : Content(f)' = IF PathOf[f] = p THEN "absent" ELSE Content(f)
    BY <1>2 DEF Collect, Content
  <2>2. FileContents' = [f \in Files |-> IF PathOf[f] = p THEN "absent" ELSE FileContents[f]]
    BY <2>1 DEF FileContents
  <2>3. MadeValid' = {f \in MadeValid : PathOf[f] # p}
    BY <1>2, <2>1 DEF MadeValid
  <2>4. RecordedContents' = [RecordedContents EXCEPT ![p] = NoRow]
    BY <1>2 DEF Collect, RecordedContents, TypeOK, StoreTypeOK
  <2> QED
    BY <2>2, <2>3, <2>4 DEF Contract!Delete
<1> QED
  BY <1>1, <1>2
  DEF NixUse, BeginUse, EndUse, NixCollect, BeginGC, NixEndGC, EndGC, Tick, vars, Contract!Next

(* Invocations in succession, however they fail or are killed, under the   *)
(* GC lock: the store sees nothing but repairs of single files, rows set   *)
(* to what their paths hold, and collections.                              *)
THEOREM DoctorImplementsContract ==
    ASSUME ~Concurrent, "lock" \notin Faults
    PROVE  Spec => ImplementsContract
<1> DEFINE AllUndisturbed == \A q \in Procs : Undisturbed(q) /\ NarIsCurrent(q)
           Ind == /\ TypeOK /\ GroupIsOnePath /\ LockDiscipline
                  /\ OneAtATime /\ AllUndisturbed
<1>1. Init => Ind
  <2> SUFFICES ASSUME Init PROVE Ind
    OBVIOUS
  <2>1. TypeOK /\ GroupIsOnePath /\ LockDiscipline
    BY InitTypeOK DEF Init, GroupIsOnePath, LockDiscipline, InGroup
  <2>2. OneAtATime
    BY DEF Init, OneAtATime, Running
  <2>3. AllUndisturbed
    BY FilesAssumption DEF Init, Undisturbed, TempHasFile, StaleAhead, NarIsCurrent
  <2> QED
    BY <2>1, <2>2, <2>3
<1>2. Ind /\ [Next]_vars => Ind'
  <2> SUFFICES ASSUME Ind, [Next]_vars PROVE Ind'
    OBVIOUS
  <2>1. (TypeOK /\ GroupIsOnePath /\ LockDiscipline /\ OneAtATime)'
    BY NextTypeOK, GroupIsOnePathInductive, LockDisciplineInductive, OneAtATimeInductive
  <2>2. ASSUME NEW q \in Procs, Step(q) \/ Crash(q), NEW r \in Procs
        PROVE  Undisturbed(r)' /\ NarIsCurrent(r)'
    BY <2>2, UndisturbedStep, NarIsCurrentStep, OthersRest, RestingUndisturbed
  <2>3. ASSUME NixUse \/ NixCollect \/ NixEndGC \/ Tick \/ UNCHANGED vars
        PROVE  AllUndisturbed'
    BY <2>3, NixDisturbsNone, NixKeepsNar DEF LockDiscipline, Excludes
  <2> QED
    BY <2>1, <2>2, <2>3 DEF Next, Terminated
<1>3. Ind /\ [Next]_vars => [Contract!Next]_(Contract!contractVars)
  <2> SUFFICES ASSUME Ind, [Next]_vars PROVE [Contract!Next]_(Contract!contractVars)
    OBVIOUS
  <2>1. ASSUME NEW q \in Procs, Step(q) \/ Crash(q)
        PROVE  [Contract!Next]_(Contract!contractVars)
    BY <2>1, ContractStep, LockHolds DEF LockDiscipline
  <2>2. CASE NixUse \/ NixCollect \/ NixEndGC \/ Tick \/ UNCHANGED vars
    BY <2>2, NixContract
  <2> QED
    BY <2>1, <2>2 DEF Next, Terminated
<1> QED
  BY <1>1, <1>2, <1>3, ContractInit, PTL DEF Spec, ImplementsContract, Contract!Spec

-----------------------------------------------------------------------------
(* Temporary files in recorded NARs.                                       *)

(* No step but a killed process's leaves a temporary file behind.          *)
LEMMA StepKeepsLitter ==
    ASSUME NEW q \in Procs, Step(q)
    PROVE  litter' = litter
<1>1. CASE Start(q) \/ Walk(q) \/ EndScan(q) \/ Report(q)
  BY <1>1 DEF Start, Walk, EndScan, Report
<1>2. CASE \E f \in Files : ScanFile(q, f)
  BY <1>2 DEF ScanFile
<1>3. CASE Lock(q) \/ NextGroup(q) \/ NoMoreGroups(q) \/ CheckCA(q) \/ CheckBlockers(q)
  BY <1>3 DEF Lock, NextGroup, NoMoreGroups, CheckCA, CheckBlockers, CheckUse
<1>4. CASE Plan(q) \/ MakeTemp(q) \/ Cleanup(q) \/ Dump(q)
  BY <1>4 DEF Plan, MakeTemp, CreateTemp, Cleanup, RemoveTemp, Dump
<1>5. CASE Rename(q)
  BY <1>5 DEF Rename, RenameOver
<1>6. CASE Register(q) \/ Release(q) \/ WriteJournal(q)
  BY <1>6 DEF Register, Release, WriteJournal, SaveJournal
<1> QED
  BY <1>1, <1>2, <1>3, <1>4, <1>5, <1>6 DEF Step

(* Only a dump sets the NAR, and only a registration the row.              *)
LEMMA OnlyRegisterRecords ==
    ASSUME TypeOK, NEW q \in Procs, Step(q) \/ Crash(q)
    PROVE  /\ UNCHANGED row \/ (Register(q) /\ RegisterValidity(cur[q], nar[q]))
           /\ pc'[q] = "register" =>
                 Dump(q) /\ row[cur[q]] # NoRow /\ nar'[q] = NarOf(cur[q])
<1> USE DEF TypeOK, ControlTypeOK, GroupTypeOK, GoTo, GiveUpGroup
<1>1. CASE Start(q) \/ Walk(q) \/ EndScan(q) \/ Report(q)
  BY <1>1 DEF Start, Walk, EndScan, Report
<1>2. CASE \E f \in Files : ScanFile(q, f)
  BY <1>2 DEF ScanFile
<1>3. CASE Lock(q) \/ NextGroup(q) \/ NoMoreGroups(q) \/ CheckCA(q) \/ CheckBlockers(q)
  BY <1>3 DEF Lock, NextGroup, NoMoreGroups, CheckCA, CheckBlockers, CheckUse
<1>4. CASE Plan(q) \/ MakeTemp(q) \/ Cleanup(q)
  BY <1>4 DEF Plan, MakeTemp, Cleanup
<1>5. CASE Rename(q)
  BY <1>5 DEF Rename, CountRepaired
<1>6. CASE Dump(q)
  BY <1>6 DEF Dump
<1>7. CASE Register(q)
  BY <1>7 DEF Register, GiveUpRegistration
<1>8. CASE Release(q) \/ WriteJournal(q) \/ Crash(q)
  BY <1>8 DEF Release, WriteJournal, SaveJournal, Crash, AbandonFiles, ExitOf
<1> QED
  BY <1>1, <1>2, <1>3, <1>4, <1>5, <1>6, <1>7, <1>8 DEF Step

(* While one invocation dumps and registers, nobody has a temporary file.  *)
LEMMA TidyStep ==
    ASSUME TypeOK, Tidy, NoTempRecorded, NEW q \in Procs, Step(q),
           \A r \in Procs : TempHasFile(r),
           \A r \in Procs \ {q} : ~Running(r)
    PROVE  Tidy' /\ NoTempRecorded'
<1>1. litter' = {}
  BY StepKeepsLitter DEF Tidy
<1>2. ASSUME pc'[q] = "register" PROVE ~nar'[q].temps
  <2>1. Dump(q) /\ nar'[q] = NarOf(cur[q])
    BY <1>2, OnlyRegisterRecords
  <2>2. \A r \in Procs : temp[r] \notin Files
    BY <2>1 DEF TempHasFile, Running, Ended, Exits, Dump
  <2>3. \A r \in Procs : temp[r] = NoFile
    BY <2>2 DEF TypeOK, StoreTypeOK
  <2> QED
    BY <2>1, <2>3 DEF NarOf, TempIn, Tidy
<1>3. ASSUME NEW r \in Procs \ {q}, pc'[r] = "register" PROVE FALSE
  BY <1>3, OtherStaysPut DEF Running, Ended, Exits
<1>4. NoTempRecorded'
  <2>1. CASE UNCHANGED row
    BY <2>1 DEF NoTempRecorded
  <2>2. CASE Register(q) /\ RegisterValidity(cur[q], nar[q])
    BY <2>2 DEF NoTempRecorded, RegisterValidity, Register, Tidy, TypeOK, StoreTypeOK
  <2> QED
    BY <2>1, <2>2, OnlyRegisterRecords
<1> QED
  BY <1>1, <1>2, <1>3, <1>4 DEF Tidy

(* Invocations in succession, none of them killed, never have the database *)
(* record one of their temporary files, with the GC lock or without it.    *)
THEOREM NoTempIsRecorded ==
    ASSUME ~Concurrent, "crash" \notin Faults
    PROVE  Spec => []NoTempRecorded
<1> DEFINE AllUndisturbed == \A q \in Procs : Undisturbed(q)
           Ind == TypeOK /\ Excludes /\ OneAtATime /\ AllUndisturbed /\ Tidy /\ NoTempRecorded
<1>1. Init => Ind
  <2> SUFFICES ASSUME Init PROVE Ind
    OBVIOUS
  <2>1. OneAtATime /\ Tidy /\ Excludes
    BY DEF Init, OneAtATime, Running, Tidy, Excludes
  <2>2. AllUndisturbed
    BY FilesAssumption DEF Init, Undisturbed, TempHasFile, StaleAhead
  <2>3. NoTempRecorded
    BY FilesAssumption DEF Init, NoTempRecorded, NarOf, TempIn
  <2> QED
    BY <2>1, <2>2, <2>3, InitTypeOK
<1>2. Ind /\ [Next]_vars => Ind'
  <2> SUFFICES ASSUME Ind, [Next]_vars PROVE Ind'
    OBVIOUS
  <2>1. TypeOK' /\ Excludes' /\ OneAtATime'
    BY NextTypeOK, ExcludesInductive, OneAtATimeInductive
  <2>2. ASSUME NEW q \in Procs, Step(q)
        PROVE  AllUndisturbed' /\ Tidy' /\ NoTempRecorded'
    <3>1. \A r \in Procs \ {q} : ~Running(r)
      BY <2>2, OthersRest
    <3>2. AllUndisturbed'
      BY <2>2, <3>1, UndisturbedStep, RestingUndisturbed
    <3> QED
      BY <2>2, <3>1, <3>2, TidyStep DEF Undisturbed
  <2>3. ASSUME NixUse \/ NixCollect \/ NixEndGC \/ Tick \/ UNCHANGED vars
        PROVE  AllUndisturbed' /\ Tidy' /\ NoTempRecorded'
    <3>1. AllUndisturbed'
      BY <2>3, NixDisturbsNone
    <3>2. UNCHANGED <<pc, nar>> /\ litter' \subseteq litter
      BY <2>3, NixKeepsProcs
      DEF NixUse, BeginUse, EndUse, NixCollect, BeginGC, Collect, NixEndGC, EndGC, Tick, vars
    <3>3. \A p \in Paths : row'[p] \in {row[p], NoRow}
      BY <2>3 DEF NixUse, BeginUse, EndUse, NixCollect, BeginGC, Collect, NixEndGC, EndGC,
                  Tick, vars, TypeOK, StoreTypeOK
    <3> QED
      BY <3>1, <3>2, <3>3 DEF Tidy, NoTempRecorded
  <2>4. ASSUME NEW q \in Procs, Crash(q) PROVE FALSE
    BY <2>4 DEF Crash
  <2> QED
    BY <2>1, <2>2, <2>3, <2>4 DEF Next, Terminated
<1>3. Ind => NoTempRecorded
  OBVIOUS
<1> QED
  BY <1>1, <1>2, <1>3, PTL DEF Spec

-----------------------------------------------------------------------------
(* Everything at once.                                                     *)

(* Contents that a file about to be replaced may have had in the meantime. *)
NotRefused(f) == Content(f) \in {"stale", "valid", "absent"}

AheadNotRefused(q) == pc[q] \in {"temp", "rename"} => \A x \in First(work[q]) : NotRefused(x.file)

Unhindered(q) == TempHasFile(q) /\ AheadNotRefused(q)

(* No step makes a file one that must not be repaired.                     *)
LEMMA NotRefusedStays ==
    ASSUME TypeOK, [Next]_vars, NEW f \in Files, NotRefused(f)
    PROVE  NotRefused(f)'
<1>1. ASSUME NEW q \in Procs, Rename(q) PROVE NotRefused(f)'
  <2>1. PICK x \in First(work[q]) : RenameOver(q, x.file, "valid") \/ UNCHANGED fileVars
    BY <1>1 DEF Rename
  <2>2. x.file \in Files
    BY FirstIsOneFile
  <2>3. CASE RenameOver(q, x.file, "valid")
    BY <2>2, <2>3, RenameOverContent DEF TypeOK, NotRefused
  <2> QED
    BY <2>1, <2>3 DEF NotRefused, Content
<1>2. CASE \A q \in Procs : ~Rename(q)
  <2>1. UNCHANGED bytes /\ dir'[f] \in {dir[f], NoInode}
    BY <1>2, OnlyRenameWrites, OnlyRenameLinks
  <2> QED
    BY <2>1 DEF NotRefused, Content
<1> QED
  BY <1>1, <1>2

(* The temporary file of an invocation lies beside its file.               *)
LEMMA TempHasFileStep ==
    ASSUME TypeOK, NEW q \in Procs, TempHasFile(q), Step(q) \/ Crash(q)
    PROVE  TempHasFile(q)'
<1> USE FilesAssumption
    DEF TempHasFile, TypeOK, ControlTypeOK, StoreTypeOK, GroupTypeOK, GoTo, GiveUpGroup
<1>1. CASE Start(q) \/ Walk(q) \/ EndScan(q) \/ Report(q)
  BY <1>1, SameFiles DEF Start, Walk, EndScan, Report
<1>2. CASE \E f \in Files : ScanFile(q, f)
  BY <1>2, SameFiles DEF ScanFile
<1>3. CASE Lock(q) \/ NextGroup(q) \/ NoMoreGroups(q) \/ CheckCA(q) \/ CheckBlockers(q) \/ Plan(q)
  BY <1>3, SameFiles DEF Lock, NextGroup, NoMoreGroups, CheckCA, CheckBlockers, CheckUse, Plan
<1>4. CASE MakeTemp(q)
  <2>1. UNCHANGED <<dir, bytes>> /\ pc[q] = "temp" /\ pc'[q] \in {"rename", "cleanup", "group"}
    BY <1>4 DEF MakeTemp, CreateTemp
  <2>2. pc'[q] = "group" => temp'[q] \notin Files
    BY <1>4 DEF MakeTemp
  <2>3. pc'[q] # "group" => Exists(temp'[q])
    BY <1>4, FirstIsOneFile DEF MakeTemp, CreateTemp
  <2> QED
    BY <2>1, <2>2, <2>3 DEF Exists
<1>5. CASE Rename(q)
  BY <1>5, SameFiles DEF Rename, RenameOver
<1>6. CASE Cleanup(q)
  BY <1>6 DEF Cleanup, RemoveTemp
<1>7. CASE Dump(q) \/ Register(q)
  BY <1>7, SameFiles DEF Dump, Register, GiveUpRegistration
<1>8. CASE Release(q) \/ WriteJournal(q) \/ Crash(q)
  BY <1>8, SameFiles DEF Release, WriteJournal, SaveJournal, Crash, AbandonFiles, ExitOf
<1> QED
  BY <1>1, <1>2, <1>3, <1>4, <1>5, <1>6, <1>7, <1>8 DEF Step

(* A repair is planned of a stale file, and goes on with that file.        *)
LEMMA AheadNotRefusedStep ==
    ASSUME TypeOK, NEW q \in Procs, AheadNotRefused(q), Step(q) \/ Crash(q)
    PROVE  AheadNotRefused(q)'
<1> USE DEF AheadNotRefused, NotRefused, TypeOK, ControlTypeOK, GroupTypeOK, GoTo, GiveUpGroup
<1>1. CASE Plan(q)
  <2>1. UNCHANGED <<dir, bytes>> /\ pc'[q] \in {"temp", "group"}
    BY <1>1 DEF Plan
  <2>2. pc'[q] = "temp" =>
            work' = work /\ \A x \in First(work[q]) : Content(x.file) = "stale"
    BY <1>1, FirstIsOneFile DEF Plan
  <2> QED
    BY <2>1, <2>2, SameFiles
<1>2. CASE MakeTemp(q)
  <2>1. UNCHANGED <<dir, bytes>> /\ pc[q] = "temp" /\ pc'[q] \in {"rename", "cleanup", "group"}
    BY <1>2 DEF MakeTemp, CreateTemp
  <2>2. pc'[q] # "group" => work' = work
    BY <1>2 DEF MakeTemp
  <2> QED
    BY <2>1, <2>2, SameFiles
<1>3. CASE Start(q) \/ Walk(q) \/ EndScan(q) \/ Report(q)
  BY <1>3 DEF Start, Walk, EndScan, Report
<1>4. CASE \E f \in Files : ScanFile(q, f)
  BY <1>4 DEF ScanFile
<1>5. CASE Lock(q) \/ NextGroup(q) \/ NoMoreGroups(q) \/ CheckCA(q) \/ CheckBlockers(q)
  BY <1>5 DEF Lock, NextGroup, NoMoreGroups, CheckCA, CheckBlockers, CheckUse
<1>6. CASE Rename(q)
  BY <1>6 DEF Rename, CountRepaired
<1>7. CASE Cleanup(q) \/ Dump(q) \/ Register(q)
  BY <1>7 DEF Cleanup, Dump, Register, GiveUpRegistration
<1>8. CASE Release(q) \/ WriteJournal(q) \/ Crash(q)
  BY <1>8 DEF Release, WriteJournal, SaveJournal, Crash, ExitOf
<1> QED
  BY <1>1, <1>2, <1>3, <1>4, <1>5, <1>6, <1>7, <1>8 DEF Step

(* Only a collection takes a file from its path.                           *)
LEMMA OnlyCollectUnlinks ==
    ASSUME TypeOK, [Next]_vars, ~\E p \in Paths : Collect(p), NEW f \in Files, Exists(f)
    PROVE  Exists(f)'
<1>1. ASSUME NEW q \in Procs, Rename(q) PROVE Exists(f)'
  <2>1. CASE UNCHANGED fileVars
    BY <2>1 DEF Exists
  <2>2. ASSUME NEW x \in First(work[q]), RenameOver(q, x.file, "valid") PROVE Exists(f)'
    BY <2>2, FirstIsOneFile, InodesAssumption
    DEF RenameOver, FreshInode, Exists, TypeOK, StoreTypeOK
  <2> QED
    BY <1>1, <2>1, <2>2 DEF Rename
<1>2. ASSUME NEW q \in Procs, Step(q) \/ Crash(q), ~Rename(q) PROVE UNCHANGED dir
  <2>1. CASE Start(q) \/ Walk(q) \/ EndScan(q) \/ Report(q)
    BY <2>1 DEF Start, Walk, EndScan, Report
  <2>2. CASE \E g \in Files : ScanFile(q, g)
    BY <2>2 DEF ScanFile
  <2>3. CASE Lock(q) \/ NextGroup(q) \/ NoMoreGroups(q) \/ CheckCA(q) \/ CheckBlockers(q)
    BY <2>3 DEF Lock, NextGroup, NoMoreGroups, CheckCA, CheckBlockers, CheckUse
  <2>4. CASE Plan(q) \/ MakeTemp(q) \/ Cleanup(q) \/ Dump(q)
    BY <2>4 DEF Plan, MakeTemp, CreateTemp, Cleanup, RemoveTemp, Dump
  <2>5. CASE Register(q) \/ Release(q) \/ WriteJournal(q) \/ Crash(q)
    BY <2>5 DEF Register, Release, WriteJournal, SaveJournal, Crash, AbandonFiles
  <2> QED
    BY <1>2, <2>1, <2>2, <2>3, <2>4, <2>5 DEF Step
<1>3. CASE NixUse \/ NixCollect \/ NixEndGC \/ Tick \/ UNCHANGED vars
  <2>1. UNCHANGED dir
    BY <1>3 DEF NixUse, BeginUse, EndUse, NixCollect, BeginGC, NixEndGC, EndGC, Tick, vars
  <2> QED
    BY <2>1 DEF Exists
<1> QED
  BY <1>1, <1>2, <1>3 DEF Next, Terminated, Exists

(* An invocation takes and releases the lock for itself alone.             *)
LEMMA OthersKeepLock ==
    ASSUME NEW q \in Procs, Step(q) \/ Crash(q), NEW r \in Procs \ {q}
    PROVE  r \in gcShared' <=> r \in gcShared
<1>1. CASE Start(q) \/ Walk(q) \/ EndScan(q) \/ Report(q)
  BY <1>1 DEF Start, Walk, EndScan, Report
<1>2. CASE \E f \in Files : ScanFile(q, f)
  BY <1>2 DEF ScanFile
<1>3. CASE Lock(q) \/ Release(q)
  BY <1>3 DEF Lock, LockShared, Release, Unlock
<1>4. CASE NextGroup(q) \/ NoMoreGroups(q) \/ CheckCA(q) \/ CheckBlockers(q) \/ Plan(q)
  BY <1>4 DEF NextGroup, NoMoreGroups, CheckCA, CheckBlockers, CheckUse, Plan
<1>5. CASE MakeTemp(q) \/ Rename(q) \/ Cleanup(q) \/ Dump(q)
  BY <1>5 DEF MakeTemp, Rename, Cleanup, Dump
<1>6. CASE Register(q) \/ WriteJournal(q) \/ Crash(q)
  BY <1>6 DEF Register, WriteJournal, Crash, AbandonFiles
<1> QED
  BY <1>1, <1>2, <1>3, <1>4, <1>5, <1>6 DEF Step

(* What the others do in the meantime neither takes the file from under a  *)
(* temporary file that stays, nor makes it one that must not be repaired.  *)
LEMMA OthersDoNotHinder ==
    ASSUME TypeOK, Excludes, [Next]_vars, NEW r \in Procs, Unhindered(r),
           pc'[r] = pc[r], work'[r] = work[r], r \in gcShared' <=> r \in gcShared,
           temp'[r] = temp[r] \/ \E p \in Paths : Collect(p)
    PROVE  Unhindered(r)'
<1>1. AheadNotRefused(r)'
  BY NotRefusedStays, FirstIsOneFile DEF Unhindered, AheadNotRefused
<1>2. CASE \E p \in Paths : Collect(p)
  BY <1>1, <1>2, FilesAssumption
  DEF Collect, TempPath, Excludes, Unhindered, TempHasFile, Exists, TypeOK, StoreTypeOK
<1>3. CASE temp'[r] = temp[r] /\ ~\E p \in Paths : Collect(p)
  <2>1. \A f \in Files : Exists(f) => Exists(f)'
    BY <1>3, OnlyCollectUnlinks
  <2> QED
    BY <1>1, <1>3, <2>1 DEF Unhindered, TempHasFile
<1> QED
  BY <1>2, <1>3

(* A rename that lands replaces a stale file, or one that another          *)
(* invocation has just made valid; a collection deletes whole paths.       *)
LEMMA ChangesAtomically ==
    ASSUME TypeOK, GroupIsOnePath, \A q \in Procs : Unhindered(q), [Next]_vars
    PROVE  \/ UNCHANGED FileContents
           \/ \E f \in Files : FileRepaired(f)
           \/ \E p \in Paths : PathCollected(p)
<1>1. ASSUME NEW q \in Procs, Rename(q)
      PROVE  UNCHANGED FileContents \/ \E f \in Files : FileRepaired(f)
  <2>1. CASE UNCHANGED fileVars
    BY <2>1, SameFiles DEF FileContents
  <2>2. ASSUME NEW x \in First(work[q]), temp[q] = x.file, RenameOver(q, x.file, "valid")
        PROVE  UNCHANGED FileContents \/ FileRepaired(x.file)
    <3>1. x.file \in Files /\ pc[q] = "rename" /\ x \in work[q]
      BY <1>1, FirstIsOneFile, FirstSubset DEF Rename
    <3>2. \/ Content(x.file) \in {"stale", "valid"}
          \/ ~Exists(x.file) /\ PathOf[x.file] \in FlatPaths /\ q \notin gcShared
      <4>1. NotRefused(x.file)
        BY <3>1 DEF Unhindered, AheadNotRefused
      <4>2. CASE ~Exists(x.file)
        BY <2>2, <3>1, <4>2 DEF Unhindered, TempHasFile
      <4>3. CASE Exists(x.file)
        <5>1. dir[x.file] \in Inodes /\ bytes[dir[x.file]] \in Classes
          BY <3>1, <4>3 DEF Exists, TypeOK, StoreTypeOK
        <5>2. Content(x.file) # "absent"
          BY <4>3, <5>1 DEF Exists, Content, Classes
        <5> QED
          BY <4>1, <5>2 DEF NotRefused
      <4> QED
        BY <4>2, <4>3
    <3>3. PathOf[x.file] \notin ContentAddressed
      BY <3>1 DEF GroupIsOnePath, InGroup
    <3>4. \A g \in Files : Content(g)' = IF g = x.file THEN "valid" ELSE Content(g)
      BY <2>2, <3>1, RenameOverContent DEF TypeOK
    <3>5. CASE Content(x.file) = "valid"
      BY <3>4, <3>5 DEF FileContents
    <3>6. CASE Content(x.file) = "stale"
      BY <3>1, <3>3, <3>4, <3>6 DEF FileContents, FileRepaired
    <3>7. CASE ~Exists(x.file) /\ PathOf[x.file] \in FlatPaths /\ q \notin gcShared
      BY <2>2, <3>1, <3>3, <3>4, <3>7 DEF FileContents, FileRepaired
    <3> QED
      BY <3>2, <3>5, <3>6, <3>7
  <2> QED
    BY <1>1, <2>1, <2>2, FirstIsOneFile DEF Rename
<1>2. ASSUME NEW p \in Paths, Collect(p) PROVE PathCollected(p)
  BY <1>2 DEF Collect, PathCollected, FileContents, Content
<1>3. CASE (\A q \in Procs : ~Rename(q)) /\ ~\E p \in Paths : Collect(p)
  <2>1. bytes' = bytes
    BY <1>3, OnlyRenameWrites
  <2>2. ASSUME NEW f \in Files PROVE dir'[f] = dir[f]
    BY <1>3, OnlyRenameLinks, OnlyCollectUnlinks DEF Exists
  <2> QED
    BY <2>1, <2>2 DEF FileContents, Content
<1> QED
  BY <1>1, <1>2, <1>3

(* With any number of invocations at once, any of them failing or being    *)
(* killed at any point, with the GC lock or without it: a repair replaces  *)
(* one stale file and nothing else, and what is signed with CMS or cannot  *)
(* be verified keeps its bytes until its path is collected.  A repair      *)
(* without the lock may also bring back a flat path that was collected.    *)
THEOREM FilesAlwaysChangeAtomically == Spec => FilesChangeAtomically
<1> DEFINE AllUnhindered == \A q \in Procs : Unhindered(q)
           Change == \/ UNCHANGED FileContents
                     \/ \E f \in Files : FileRepaired(f)
                     \/ \E p \in Paths : PathCollected(p)
<1>1. Init => GroupIsOnePath /\ Excludes /\ AllUnhindered
  BY FilesAssumption
  DEF Init, GroupIsOnePath, InGroup, Excludes, Unhindered, TempHasFile, AheadNotRefused
<1>2. TypeOK /\ Excludes /\ AllUnhindered /\ [Next]_vars => AllUnhindered'
  <2> SUFFICES ASSUME TypeOK, Excludes, AllUnhindered, [Next]_vars, NEW r \in Procs
               PROVE  Unhindered(r)'
    OBVIOUS
  <2>1. ASSUME Step(r) \/ Crash(r) PROVE Unhindered(r)'
    BY <2>1, TempHasFileStep, AheadNotRefusedStep DEF Unhindered
  <2>2. ASSUME NEW q \in Procs \ {r}, Step(q) \/ Crash(q) PROVE Unhindered(r)'
    <3>1. pc'[r] = pc[r] /\ work'[r] = work[r] /\ temp'[r] = temp[r]
      BY <2>2, OtherStaysPut, OtherKeepsGroup
    <3> QED
      BY <2>2, <3>1, OthersKeepLock, OthersDoNotHinder
  <2>3. CASE NixUse \/ NixCollect \/ NixEndGC \/ Tick \/ UNCHANGED vars
    <3>1. r \in gcShared' <=> r \in gcShared
      BY <2>3 DEF NixUse, BeginUse, EndUse, NixCollect, BeginGC, Collect, NixEndGC, EndGC,
                  Tick, vars
    <3> QED
      BY <2>3, <3>1, NixKeepsProcs, OthersDoNotHinder
  <2> QED
    BY <2>1, <2>2, <2>3 DEF Next, Terminated
<1>3. TypeOK /\ GroupIsOnePath /\ AllUnhindered /\ [Next]_vars => [Change]_vars
  BY ChangesAtomically
<1> QED
  BY <1>1, <1>2, <1>3, GroupIsOnePathInductive, ExcludesInductive, TypeCorrect, PTL
  DEF Spec, FilesChangeAtomically

=============================================================================
