---------------------------- MODULE DoctorProofs ----------------------------
(***************************************************************************)
(* What TLAPS proves of Doctor, for any number of invocations, files,      *)
(* paths, argument lists and faults.                                       *)
(***************************************************************************)
EXTENDS Doctor, SequenceTheorems, TLAPS

USE DEF scanVars, groupVars, journalVars, inputVars, doctorVars,
        fileVars, useVars, lockVars, storeVars

-----------------------------------------------------------------------------
(* Lemmas about the store.                                                 *)

(* A file, present or not, has one of the contents the engine tells apart. *)
LEMMA ContentType ==
    ASSUME StoreTypeOK, NEW f \in Files
    PROVE  Content(f) \in Contents
BY DEF StoreTypeOK, Content, Contents

(* A dump is a NAR.                                                        *)
LEMMA NarType ==
    ASSUME StoreTypeOK, NEW p
    PROVE  NarOf(p) \in Nars
<1>1. TempIn(p) \in BOOLEAN
  BY DEF TempIn
<1>2. [f \in Files |-> IF PathOf[f] = p THEN Content(f) ELSE "absent"]
          \in [Files -> Contents]
  BY ContentType DEF Contents
<1> QED
  BY <1>1, <1>2 DEF NarOf, Nars

(* The rename keeps the store well typed.                                  *)
LEMMA RenameOverType ==
    ASSUME StoreTypeOK, NEW q \in Procs, NEW f \in Files, NEW c \in Classes,
           RenameOver(q, f, c),
           UNCHANGED <<row, useVars, lockVars>>
    PROVE  StoreTypeOK'
BY DEF StoreTypeOK, RenameOver, FreshInode

(* First takes findings from those it is given.                            *)
LEMMA FirstSubset ==
    ASSUME NEW X
    PROVE  First(X) \subseteq X
BY DEF First

(* A scan adds findings about the file it scans.                           *)
LEMMA FindingsAboutType ==
    ASSUME NEW f \in Files, NEW n \in Nat
    PROVE  FindingsAbout(f, n) \subseteq Findings
<1> DEFINE b == Content(f) = "stale"
           x == [file |-> f, arg |-> n, repairable |-> b]
<1>1. b \in BOOLEAN
  OBVIOUS
<1> HIDE DEF b
<1>2. x \in Findings
  BY <1>1 DEF Findings
<1> HIDE DEF x
<1>3. FindingsAbout(f, n) \subseteq {x}
  BY DEF FindingsAbout, x, b
<1> QED
  BY <1>2, <1>3

(* What a repair takes up is part of what its scan found.                  *)
LEMMA RepairableSubset ==
    ASSUME NEW q
    PROVE  Repairable(q) \subseteq found[q]
BY DEF Repairable

-----------------------------------------------------------------------------
(* Type correctness.                                                       *)

LEMMA InitTypeOK == Init => TypeOK
<1> SUFFICES ASSUME Init PROVE TypeOK
  OBVIOUS
<1>1. /\ dir \in [Files -> Inodes \cup {NoInode}]
      /\ bytes \in [Inodes -> Classes]
  BY HomeAssumption, InputsAssumption DEF Init
<1>2. \A f \in Files : Content(f) \in Contents
  BY <1>1 DEF Content, Contents
<1>3. \A p \in Paths : NarOf(p) \in Nars
  BY <1>2 DEF NarOf, Nars, Contents, TempIn
<1>4. StoreTypeOK
  BY <1>1, <1>3, InputsAssumption DEF Init, StoreTypeOK
<1>5. cmd \in [Procs -> Commands] /\ argv \in [Procs -> ArgLists]
  BY InputsAssumption DEF Init
<1> QED
  BY <1>4, <1>5, ClockAssumption
  DEF Init, TypeOK, ControlTypeOK, ScanTypeOK, GroupTypeOK, JournalTypeOK, Labels, Seconds

(* A step that leaves the variables of a part alone leaves its type alone. *)
LEMMA FrameTypeOK ==
    ASSUME TypeOK
    PROVE  /\ UNCHANGED storeVars => StoreTypeOK'
           /\ UNCHANGED <<pc, inputVars, now>> => ControlTypeOK'
           /\ UNCHANGED scanVars => ScanTypeOK'
           /\ UNCHANGED groupVars => GroupTypeOK'
           /\ UNCHANGED journalVars => JournalTypeOK'
BY DEF TypeOK, StoreTypeOK, ControlTypeOK, ScanTypeOK, GroupTypeOK, JournalTypeOK

(* A step that only moves an invocation to another label is well typed.    *)
LEMMA GoToTypeOK ==
    ASSUME TypeOK, NEW q \in Procs, NEW l \in Labels, GoTo(q, l),
           UNCHANGED <<inputVars, now>>
    PROVE  ControlTypeOK'
BY DEF TypeOK, ControlTypeOK, GoTo

(* Giving a group up keeps the group's variables well typed.               *)
LEMMA GiveUpTypeOK ==
    ASSUME TypeOK, NEW q \in Procs, GiveUpGroup(q), UNCHANGED <<inputVars, now>>
    PROVE  ControlTypeOK' /\ GroupTypeOK'
<1>1. ControlTypeOK'
  BY GoToTypeOK DEF GiveUpGroup, Labels
<1>2. GroupTypeOK'
  BY DEF TypeOK, GroupTypeOK, GiveUpGroup
<1> QED
  BY <1>1, <1>2

(* Every step keeps every part well typed.                                 *)
LEMMA NextTypeOK == TypeOK /\ [Next]_vars => TypeOK'
<1> SUFFICES ASSUME TypeOK, [Next]_vars PROVE TypeOK'
  OBVIOUS
<1>1. ASSUME NEW q \in Procs, Start(q) PROVE TypeOK'
  <2>1. StoreTypeOK'
    BY <1>1, FrameTypeOK DEF Start
  <2>2. ControlTypeOK'
    BY <1>1, GoToTypeOK DEF Start, Labels, Ended, Exits
  <2>3. ScanTypeOK'
    BY <1>1, FrameTypeOK DEF Start
  <2>4. GroupTypeOK'
    BY <1>1, FrameTypeOK DEF Start
  <2>5. JournalTypeOK'
    BY <1>1, FrameTypeOK DEF Start
  <2> QED
    BY <2>1, <2>2, <2>3, <2>4, <2>5 DEF TypeOK
<1>2. ASSUME NEW q \in Procs, Walk(q) PROVE TypeOK'
  <2>1. StoreTypeOK'
    BY <1>2, FrameTypeOK DEF Walk
  <2>2. ControlTypeOK'
    BY <1>2, GoToTypeOK DEF Walk, Labels, Ended, Exits
  <2>3. ScanTypeOK'
    <3>1. nth[q] \in Nat /\ argv[q] \in ArgLists
      BY DEF TypeOK, ScanTypeOK, ControlTypeOK
    <3>2. argv[q] \in Seq(DOMAIN Under)
      BY <3>1, ArgsAssumption
    <3>3. nth[q] + 1 \in 1..Len(argv[q])
      BY <1>2, <3>1, <3>2, LenProperties DEF Walk
    <3>4. Under[argv[q][nth[q] + 1]] \subseteq Files
      BY <3>1, <3>3, ArgsAssumption
    <3> QED
      BY <1>2, <3>4 DEF Walk, TypeOK, ScanTypeOK
  <2>4. GroupTypeOK'
    BY <1>2, FrameTypeOK DEF Walk
  <2>5. JournalTypeOK'
    BY <1>2, FrameTypeOK DEF Walk
  <2> QED
    BY <2>1, <2>2, <2>3, <2>4, <2>5 DEF TypeOK
<1>3. ASSUME NEW q \in Procs, EndScan(q) PROVE TypeOK'
  <2>1. StoreTypeOK'
    BY <1>3, FrameTypeOK DEF EndScan
  <2>2. ControlTypeOK'
    BY <1>3, GoToTypeOK DEF EndScan, Labels, Ended, Exits
  <2>3. ScanTypeOK'
    BY <1>3, FrameTypeOK DEF EndScan
  <2>4. GroupTypeOK'
    BY <1>3, FrameTypeOK DEF EndScan
  <2>5. JournalTypeOK'
    BY <1>3, FrameTypeOK DEF EndScan
  <2> QED
    BY <2>1, <2>2, <2>3, <2>4, <2>5 DEF TypeOK
<1>4. ASSUME NEW q \in Procs, Report(q) PROVE TypeOK'
  <2>1. StoreTypeOK'
    BY <1>4, FrameTypeOK DEF Report
  <2>2. ControlTypeOK'
    BY <1>4, GoToTypeOK DEF Report, Labels, Ended, Exits
  <2>3. ScanTypeOK'
    BY <1>4, FrameTypeOK DEF Report
  <2>4. GroupTypeOK'
    BY <1>4, RepairableSubset DEF Report, TypeOK, ScanTypeOK, GroupTypeOK
  <2>5. JournalTypeOK'
    BY <1>4 DEF Report, TypeOK, ControlTypeOK, JournalTypeOK
  <2> QED
    BY <2>1, <2>2, <2>3, <2>4, <2>5 DEF TypeOK
<1>5. ASSUME NEW q \in Procs, Lock(q) PROVE TypeOK'
  <2>1. StoreTypeOK'
    BY <1>5 DEF Lock, LockShared, TypeOK, StoreTypeOK
  <2>2. ControlTypeOK'
    BY <1>5, GoToTypeOK DEF Lock, Labels, Ended, Exits
  <2>3. ScanTypeOK'
    BY <1>5, FrameTypeOK DEF Lock
  <2>4. GroupTypeOK'
    BY <1>5, FrameTypeOK DEF Lock
  <2>5. JournalTypeOK'
    BY <1>5, FrameTypeOK DEF Lock
  <2> QED
    BY <2>1, <2>2, <2>3, <2>4, <2>5 DEF TypeOK
<1>6. ASSUME NEW q \in Procs, NextGroup(q) PROVE TypeOK'
  <2>1. StoreTypeOK'
    BY <1>6, FrameTypeOK DEF NextGroup
  <2>2. ControlTypeOK'
    BY <1>6, GoToTypeOK DEF NextGroup, Labels, Ended, Exits
  <2>3. ScanTypeOK'
    BY <1>6, FrameTypeOK DEF NextGroup
  <2>4. GroupTypeOK'
    BY <1>6, FirstSubset, PathsAssumption DEF NextGroup, StorePath, ResetCount, TypeOK, GroupTypeOK, Findings
  <2>5. JournalTypeOK'
    BY <1>6, FrameTypeOK DEF NextGroup
  <2> QED
    BY <2>1, <2>2, <2>3, <2>4, <2>5 DEF TypeOK
<1>7. ASSUME NEW q \in Procs, NoMoreGroups(q) PROVE TypeOK'
  <2>1. StoreTypeOK'
    BY <1>7, FrameTypeOK DEF NoMoreGroups
  <2>2. ControlTypeOK'
    BY <1>7, GoToTypeOK DEF NoMoreGroups, Labels, Ended, Exits
  <2>3. ScanTypeOK'
    BY <1>7, FrameTypeOK DEF NoMoreGroups
  <2>4. GroupTypeOK'
    BY <1>7, FrameTypeOK DEF NoMoreGroups
  <2>5. JournalTypeOK'
    BY <1>7, FrameTypeOK DEF NoMoreGroups
  <2> QED
    BY <2>1, <2>2, <2>3, <2>4, <2>5 DEF TypeOK
<1>8. ASSUME NEW q \in Procs, CheckCA(q) PROVE TypeOK'
  <2>1. StoreTypeOK'
    BY <1>8, FrameTypeOK DEF CheckCA
  <2>2. ControlTypeOK'
    BY <1>8, GoToTypeOK, GiveUpTypeOK DEF CheckCA, Labels
  <2>3. ScanTypeOK'
    BY <1>8, FrameTypeOK DEF CheckCA
  <2>4. GroupTypeOK'
    BY <1>8, FrameTypeOK, GiveUpTypeOK DEF CheckCA
  <2>5. JournalTypeOK'
    BY <1>8, FrameTypeOK DEF CheckCA
  <2> QED
    BY <2>1, <2>2, <2>3, <2>4, <2>5 DEF TypeOK
<1>9. ASSUME NEW q \in Procs, CheckBlockers(q) PROVE TypeOK'
  <2>1. StoreTypeOK'
    BY <1>9, FrameTypeOK DEF CheckBlockers, CheckUse
  <2>2. ControlTypeOK'
    BY <1>9, GoToTypeOK, GiveUpTypeOK DEF CheckBlockers, CheckUse, Labels
  <2>3. ScanTypeOK'
    BY <1>9, FrameTypeOK DEF CheckBlockers, CheckUse
  <2>4. GroupTypeOK'
    BY <1>9, FrameTypeOK, GiveUpTypeOK DEF CheckBlockers, CheckUse
  <2>5. JournalTypeOK'
    BY <1>9, FrameTypeOK DEF CheckBlockers, CheckUse
  <2> QED
    BY <2>1, <2>2, <2>3, <2>4, <2>5 DEF TypeOK
<1>10. ASSUME NEW q \in Procs, Plan(q) PROVE TypeOK'
  <2>1. StoreTypeOK'
    BY <1>10, FrameTypeOK DEF Plan
  <2>2. ControlTypeOK'
    BY <1>10, GoToTypeOK, GiveUpTypeOK DEF Plan, Labels
  <2>3. ScanTypeOK'
    BY <1>10, FrameTypeOK DEF Plan
  <2>4. GroupTypeOK'
    BY <1>10, FrameTypeOK, GiveUpTypeOK DEF Plan
  <2>5. JournalTypeOK'
    BY <1>10, FrameTypeOK DEF Plan
  <2> QED
    BY <2>1, <2>2, <2>3, <2>4, <2>5 DEF TypeOK
<1>11. ASSUME NEW q \in Procs, MakeTemp(q) PROVE TypeOK'
  <2>1. StoreTypeOK'
    BY <1>11, FirstSubset DEF MakeTemp, CreateTemp, TypeOK, StoreTypeOK, GroupTypeOK, Findings
  <2>2. ControlTypeOK'
    BY <1>11, GoToTypeOK, GiveUpTypeOK DEF MakeTemp, Labels
  <2>3. ScanTypeOK'
    BY <1>11, FrameTypeOK DEF MakeTemp
  <2>4. GroupTypeOK'
    BY <1>11, FrameTypeOK, GiveUpTypeOK DEF MakeTemp
  <2>5. JournalTypeOK'
    BY <1>11, FrameTypeOK DEF MakeTemp
  <2> QED
    BY <2>1, <2>2, <2>3, <2>4, <2>5 DEF TypeOK
<1>12. ASSUME NEW q \in Procs, Rename(q) PROVE TypeOK'
  <2>1. StoreTypeOK'
    BY <1>12, FirstSubset, FrameTypeOK, RenameOverType DEF Rename, TypeOK, GroupTypeOK, Findings, Classes
  <2>2. ControlTypeOK'
    BY <1>12, GoToTypeOK DEF Rename, CountRepaired, Labels
  <2>3. ScanTypeOK'
    BY <1>12, FrameTypeOK DEF Rename
  <2>4. GroupTypeOK'
    BY <1>12 DEF Rename, CountRepaired, TypeOK, GroupTypeOK
  <2>5. JournalTypeOK'
    BY <1>12, FirstSubset DEF Rename, JournalFile, TypeOK, GroupTypeOK, JournalTypeOK, Findings
  <2> QED
    BY <2>1, <2>2, <2>3, <2>4, <2>5 DEF TypeOK
<1>13. ASSUME NEW q \in Procs, Cleanup(q) PROVE TypeOK'
  <2>1. StoreTypeOK'
    BY <1>13 DEF Cleanup, RemoveTemp, TypeOK, StoreTypeOK
  <2>2. ControlTypeOK'
    BY <1>13, GiveUpTypeOK DEF Cleanup
  <2>3. ScanTypeOK'
    BY <1>13, FrameTypeOK DEF Cleanup
  <2>4. GroupTypeOK'
    BY <1>13, GiveUpTypeOK DEF Cleanup
  <2>5. JournalTypeOK'
    BY <1>13, FrameTypeOK DEF Cleanup
  <2> QED
    BY <2>1, <2>2, <2>3, <2>4, <2>5 DEF TypeOK
<1>14. ASSUME NEW q \in Procs, Dump(q) PROVE TypeOK'
  <2>1. StoreTypeOK'
    BY <1>14, FrameTypeOK DEF Dump
  <2>2. ControlTypeOK'
    BY <1>14, GoToTypeOK, GiveUpTypeOK DEF Dump, Labels
  <2>3. ScanTypeOK'
    BY <1>14, FrameTypeOK DEF Dump
  <2>4. GroupTypeOK'
    BY <1>14, NarType, GiveUpTypeOK DEF Dump, TypeOK, GroupTypeOK, StoreTypeOK
  <2>5. JournalTypeOK'
    BY <1>14, FrameTypeOK DEF Dump
  <2> QED
    BY <2>1, <2>2, <2>3, <2>4, <2>5 DEF TypeOK
<1>15. ASSUME NEW q \in Procs, Register(q) PROVE TypeOK'
  <2>1. StoreTypeOK'
    BY <1>15 DEF Register, RegisterValidity, TypeOK, StoreTypeOK, GroupTypeOK
  <2>2. ControlTypeOK'
    BY <1>15, GoToTypeOK, GiveUpTypeOK DEF Register, GiveUpRegistration, Labels
  <2>3. ScanTypeOK'
    BY <1>15, FrameTypeOK DEF Register
  <2>4. GroupTypeOK'
    BY <1>15, GiveUpTypeOK DEF Register, GiveUpRegistration, TypeOK, GroupTypeOK
  <2>5. JournalTypeOK'
    BY <1>15, FrameTypeOK DEF Register
  <2> QED
    BY <2>1, <2>2, <2>3, <2>4, <2>5 DEF TypeOK
<1>16. ASSUME NEW q \in Procs, Release(q) PROVE TypeOK'
  <2>1. StoreTypeOK'
    BY <1>16 DEF Release, Unlock, TypeOK, StoreTypeOK
  <2>2. ControlTypeOK'
    BY <1>16, GoToTypeOK DEF Release, Labels, Ended, Exits
  <2>3. ScanTypeOK'
    BY <1>16, FrameTypeOK DEF Release
  <2>4. GroupTypeOK'
    BY <1>16, FrameTypeOK DEF Release
  <2>5. JournalTypeOK'
    BY <1>16, FrameTypeOK DEF Release
  <2> QED
    BY <2>1, <2>2, <2>3, <2>4, <2>5 DEF TypeOK
<1>17. ASSUME NEW q \in Procs, WriteJournal(q) PROVE TypeOK'
  <2>1. StoreTypeOK'
    BY <1>17, FrameTypeOK DEF WriteJournal, SaveJournal
  <2>2. ControlTypeOK'
    BY <1>17, GoToTypeOK DEF WriteJournal, SaveJournal, ExitOf, Labels, Ended, Exits
  <2>3. ScanTypeOK'
    BY <1>17, FrameTypeOK DEF WriteJournal, SaveJournal
  <2>4. GroupTypeOK'
    BY <1>17, FrameTypeOK DEF WriteJournal, SaveJournal
  <2>5. JournalTypeOK'
    BY <1>17 DEF WriteJournal, SaveJournal, TypeOK, JournalTypeOK
  <2> QED
    BY <2>1, <2>2, <2>3, <2>4, <2>5 DEF TypeOK
<1>18. ASSUME NEW q \in Procs, Crash(q) PROVE TypeOK'
  <2>1. StoreTypeOK'
    BY <1>18 DEF Crash, AbandonFiles, TypeOK, StoreTypeOK
  <2>2. ControlTypeOK'
    BY <1>18, GoToTypeOK DEF Crash, Labels, Ended, Exits
  <2>3. ScanTypeOK'
    BY <1>18, FrameTypeOK DEF Crash
  <2>4. GroupTypeOK'
    BY <1>18, FrameTypeOK DEF Crash
  <2>5. JournalTypeOK'
    BY <1>18, FrameTypeOK DEF Crash
  <2> QED
    BY <2>1, <2>2, <2>3, <2>4, <2>5 DEF TypeOK
<1>19. ASSUME NEW q \in Procs, NEW f \in Files, ScanFile(q, f) PROVE TypeOK'
  <2>1. StoreTypeOK'
    BY <1>19, FrameTypeOK DEF ScanFile
  <2>2. ControlTypeOK'
    BY <1>19, FrameTypeOK DEF ScanFile
  <2>3. ScanTypeOK'
    BY <1>19, FindingsAboutType DEF ScanFile, TypeOK, ScanTypeOK
  <2>4. GroupTypeOK'
    BY <1>19, FrameTypeOK DEF ScanFile
  <2>5. JournalTypeOK'
    BY <1>19, FrameTypeOK DEF ScanFile
  <2> QED
    BY <2>1, <2>2, <2>3, <2>4, <2>5 DEF TypeOK
<1>20. CASE NixUse
  <2>1. StoreTypeOK'
    BY <1>20 DEF NixUse, BeginUse, EndUse, Uses, TypeOK, StoreTypeOK
  <2>2. ControlTypeOK'
    BY <1>20, FrameTypeOK DEF NixUse, BeginUse, EndUse
  <2>3. ScanTypeOK'
    BY <1>20, FrameTypeOK DEF NixUse, BeginUse, EndUse
  <2>4. GroupTypeOK'
    BY <1>20, FrameTypeOK DEF NixUse, BeginUse, EndUse
  <2>5. JournalTypeOK'
    BY <1>20, FrameTypeOK DEF NixUse, BeginUse, EndUse
  <2> QED
    BY <2>1, <2>2, <2>3, <2>4, <2>5 DEF TypeOK
<1>21. CASE NixCollect
  <2>1. StoreTypeOK'
    <3>1. CASE BeginGC
      BY <3>1 DEF BeginGC, TypeOK, StoreTypeOK
    <3>2. CASE \E p \in Paths : Collect(p)
      BY <3>2 DEF Collect, TypeOK, StoreTypeOK
    <3> QED
      BY <1>21, <3>1, <3>2 DEF NixCollect
  <2>2. ControlTypeOK'
    BY <1>21, FrameTypeOK DEF NixCollect, BeginGC, Collect
  <2>3. ScanTypeOK'
    BY <1>21, FrameTypeOK DEF NixCollect, BeginGC, Collect
  <2>4. GroupTypeOK'
    BY <1>21, FrameTypeOK DEF NixCollect, BeginGC, Collect
  <2>5. JournalTypeOK'
    BY <1>21, FrameTypeOK DEF NixCollect, BeginGC, Collect
  <2> QED
    BY <2>1, <2>2, <2>3, <2>4, <2>5 DEF TypeOK
<1>22. CASE NixEndGC
  <2>1. StoreTypeOK'
    BY <1>22 DEF NixEndGC, EndGC, TypeOK, StoreTypeOK
  <2>2. ControlTypeOK'
    BY <1>22, FrameTypeOK DEF NixEndGC, EndGC
  <2>3. ScanTypeOK'
    BY <1>22, FrameTypeOK DEF NixEndGC, EndGC
  <2>4. GroupTypeOK'
    BY <1>22, FrameTypeOK DEF NixEndGC, EndGC
  <2>5. JournalTypeOK'
    BY <1>22, FrameTypeOK DEF NixEndGC, EndGC
  <2> QED
    BY <2>1, <2>2, <2>3, <2>4, <2>5 DEF TypeOK
<1>23. CASE Tick
  <2>1. StoreTypeOK'
    BY <1>23, FrameTypeOK DEF Tick
  <2>2. ControlTypeOK'
    BY <1>23, ClockAssumption DEF Tick, TypeOK, ControlTypeOK, Seconds
  <2>3. ScanTypeOK'
    BY <1>23, FrameTypeOK DEF Tick
  <2>4. GroupTypeOK'
    BY <1>23, FrameTypeOK DEF Tick
  <2>5. JournalTypeOK'
    BY <1>23, FrameTypeOK DEF Tick
  <2> QED
    BY <2>1, <2>2, <2>3, <2>4, <2>5 DEF TypeOK
<1>24. CASE UNCHANGED vars
  BY <1>24, FrameTypeOK DEF vars, TypeOK
<1> QED
  BY <1>1, <1>2, <1>3, <1>4, <1>5, <1>6, <1>7, <1>8, <1>9, <1>10, <1>11,
     <1>12, <1>13, <1>14, <1>15, <1>16, <1>17, <1>18, <1>19, <1>20, <1>21,
     <1>22, <1>23, <1>24
  DEF Next, Step, Terminated

(* In every reachable state every variable has its type.                   *)
THEOREM TypeCorrect == Spec => []TypeOK
BY InitTypeOK, NextTypeOK, PTL DEF Spec

=============================================================================
