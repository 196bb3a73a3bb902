--------------------------- MODULE ActivationProofs -------------------------
(***************************************************************************)
(* The switches keep to their types, refuse mode keeps what is broken out  *)
(* of the live generation, and the post-build hook repairs what is built:  *)
(* for every store, every series of switches and every fault.              *)
(***************************************************************************)
EXTENDS Activation, TLAPS

(* A closure consists of paths.                                            *)
LEMMA RequisitesType ==
    ASSUME NEW p \in Paths
    PROVE  Requisites[p] \subseteq Paths
  BY DEF Requisites

(* What a repair does to the contents of paths: it breaks nothing          *)
(* (doctor.go:492-568).                                                    *)
LEMMA FixBreaksNothing ==
    ASSUME NEW c \in [Paths -> Classes], NEW args, NEW used
    PROVE  /\ AfterFix(c, args, used) \in [Paths -> Classes]
           /\ \A S \in SUBSET Paths : Broken(AfterFix(c, args, used), S) \subseteq Broken(c, S)
  BY DEF AfterFix, Broken, Classes

-----------------------------------------------------------------------------
(* Types.  TypeOK is not inductive by itself: that the live generation is  *)
(* whole needs that the incoming one is, from the switch on.               *)

IncomingIsWhole == pc \notin {"idle", "build"} => Requisites[incoming] \subseteq valid

Types == TypeOK /\ IncomingIsWhole

(* A switch that is under way has been counted.                            *)
SwitchIsCounted == pc # "idle" => switches > 0

(* When the module is enabled the live generation is whole and nothing was *)
(* swept.                                                                  *)
LEMMA InitTypes == Init => Types /\ SwitchIsCounted
<1> SUFFICES ASSUME Init PROVE Types /\ SwitchIsCounted
  OBVIOUS
<1>1. live \in Paths
  BY GenerationsAssumption DEF Init
<1>2. marker = (SweepOnFirstEnable /\ switches > (IF pc \in {"build", "sweep"} THEN 1 ELSE 0))
  <2>1. ~(switches > 0) /\ pc \notin {"build", "sweep"}
    BY DEF Init
  <2> QED
    BY <2>1, SweepAssumption DEF Init
<1> QED
  BY <1>1, <1>2, RequisitesType, SwitchesAssumption
  DEF Init, Types, TypeOK, IncomingIsWhole, SwitchIsCounted, Broken

(* Each step of nix and of the script keeps the types, the live and the    *)
(* incoming generation whole, and the marker in step with the switches.    *)
LEMMA NextTypes ==
    Types /\ SwitchIsCounted /\ [Next]_vars => Types' /\ SwitchIsCounted'
<1> SUFFICES ASSUME Types, SwitchIsCounted, [Next]_vars PROVE Types' /\ SwitchIsCounted'
  OBVIOUS
<1> USE SwitchesAssumption, SweepAssumption, GenerationsAssumption
    DEF buildVars, Types, TypeOK, IncomingIsWhole, SwitchIsCounted
<1>1. ASSUME NEW g \in Generations, Switch(g) PROVE Types' /\ SwitchIsCounted'
  <2>1. valid' \subseteq Paths /\ valid \subseteq valid'
    BY <1>1, RequisitesType DEF Switch
  <2>2. marker' = (SweepOnFirstEnable /\ switches' > (IF pc' \in {"build", "sweep"} THEN 1 ELSE 0))
    BY <1>1 DEF Switch
  <2> QED
    BY <1>1, <2>1, <2>2 DEF Switch
<1>2. ASSUME NEW p \in Paths, Collect(p) PROVE Types' /\ SwitchIsCounted'
  BY <1>2 DEF Collect
<1>9. ASSUME NEW D \in Derivations, Build(D) PROVE Types' /\ SwitchIsCounted'
  BY <1>9, DerivationsAssumption DEF Build
<1>10. ASSUME NEW D \in Derivations, PostBuild(D) PROVE Types' /\ SwitchIsCounted'
  <2>1. content' \in [Paths -> Classes]
    BY <1>10, FixBreaksNothing DEF PostBuild
  <2>2. skipped' \subseteq Paths
    BY <1>10, DerivationsAssumption DEF PostBuild, Failures, Broken
  <2> QED
    BY <1>10, <2>1, <2>2, DerivationsAssumption DEF PostBuild, buildVars
<1>11. ASSUME Activate PROVE Types' /\ SwitchIsCounted'
  BY <1>11 DEF Activate, buildVars
<1>3. ASSUME Sweep PROVE Types' /\ SwitchIsCounted'
  <2>1. content' \in [Paths -> Classes]
    <3>1. CASE SweepOnFirstEnable /\ ~marker
      <4>1. PICK failed : content' = AfterFix(content, valid, InUse(valid, Roots) \cup failed)
        BY <1>3, <3>1 DEF Sweep
      <4> QED
        BY <4>1, FixBreaksNothing
    <3>2. CASE ~(SweepOnFirstEnable /\ ~marker)
      BY <1>3, <3>2 DEF Sweep
    <3> QED
      BY <3>1, <3>2
  <2>2. marker' = (SweepOnFirstEnable /\ switches' > (IF pc' \in {"build", "sweep"} THEN 1 ELSE 0))
    BY <1>3 DEF Sweep, OnceTried
  <2> QED
    BY <1>3, <2>1, <2>2 DEF Sweep
<1>4. ASSUME LetThrough PROVE Types' /\ SwitchIsCounted'
  <2>1. Requisites[incoming] \subseteq Paths
    BY RequisitesType
  <2> QED
    BY <1>4, <2>1 DEF LetThrough
<1>5. ASSUME ScanRefuse PROVE Types' /\ SwitchIsCounted'
  BY <1>5 DEF ScanRefuse
<1>6. ASSUME ScanRepair PROVE Types' /\ SwitchIsCounted'
  <2>1. content' \in [Paths -> Classes]
    BY <1>6, FixBreaksNothing DEF ScanRepair
  <2>2. \A delta \in Deltas : delta \subseteq Paths
    BY RequisitesType DEF Deltas
  <2>3. known' \subseteq Paths
    BY <1>6, <2>2 DEF ScanRepair, Failures, Broken
  <2> QED
    BY <1>6, <2>1, <2>3 DEF ScanRepair
<1>7. ASSUME GoLive PROVE Types' /\ SwitchIsCounted'
  BY <1>7 DEF GoLive
<1>8. ASSUME UNCHANGED vars PROVE Types' /\ SwitchIsCounted'
  BY <1>8 DEF vars, buildVars
<1> QED
  BY <1>1, <1>2, <1>3, <1>4, <1>5, <1>6, <1>7, <1>8, <1>9, <1>10, <1>11
  DEF Next, Terminated

(* The marker says at any moment whether the sweep was tried, and the live *)
(* generation is never collected.                                          *)
THEOREM TypeCorrect == Spec => []TypeOK
  BY InitTypes, NextTypes, PTL DEF Spec, Types

-----------------------------------------------------------------------------
(* Refuse mode.                                                            *)

Ind == NothingBrokenGoesLive /\ LetThroughIsKnown

(* A delta with nothing broken leaves what is broken in the live           *)
(* generation: hook.go:94-99 subtracts nothing else.                       *)
LEMMA DeltaIsClean ==
    ASSUME Types, NEW delta \in Deltas, CheckCode(content, delta, {}) # 2
    PROVE  Broken(content, Requisites[incoming]) \subseteq Broken(content, Requisites[live])
  BY DEF CheckCode, Deltas, OldGeneration, Broken

(* What is broken in the live generation stays known through switches,     *)
(* collections, the sweep and the scan; a scan lets a generation through   *)
(* only with what is known.                                                *)
LEMMA IndInductive == Types /\ Ind /\ [Next]_vars => Ind'
<1> SUFFICES ASSUME Types, Ind, [Next]_vars PROVE Ind'
  OBVIOUS
<1> USE DEF Ind, NothingBrokenGoesLive, LetThroughIsKnown
<1>0. /\ content \in [Paths -> Classes]
      /\ Requisites[live] \subseteq Paths
      /\ Requisites[incoming] \subseteq Paths
  BY RequisitesType, GenerationsAssumption DEF Types, TypeOK
<1>1. ASSUME NEW g \in Generations, Switch(g) PROVE Ind'
  BY <1>1 DEF Switch
<1>2. ASSUME NEW p \in Paths, Collect(p) PROVE Ind'
  BY <1>0, <1>2 DEF Collect, Broken
<1>9. ASSUME NEW D \in Derivations, Build(D) PROVE Ind'
  BY <1>9 DEF Build, Broken
<1>10. ASSUME NEW D \in Derivations, PostBuild(D) PROVE Ind'
  BY <1>0, <1>10, FixBreaksNothing DEF PostBuild
<1>11. ASSUME Activate PROVE Ind'
  BY <1>11 DEF Activate, Broken
<1>3. ASSUME Sweep PROVE Ind'
  BY <1>0, <1>3, FixBreaksNothing DEF Sweep
<1>4. ASSUME LetThrough PROVE Ind'
  BY <1>4 DEF LetThrough, Broken
<1>5. ASSUME ScanRefuse PROVE Ind'
  BY <1>5, DeltaIsClean DEF ScanRefuse
<1>6. ASSUME ScanRepair PROVE Ind'
  BY <1>6 DEF ScanRepair
<1>7. ASSUME GoLive PROVE Ind'
  BY <1>7 DEF GoLive
<1>8. ASSUME UNCHANGED vars PROVE Ind'
  BY <1>8 DEF vars, buildVars
<1> QED
  BY <1>1, <1>2, <1>3, <1>4, <1>5, <1>6, <1>7, <1>8, <1>9, <1>10, <1>11
  DEF Next, Terminated

(* Over any series of switches, refused ones and their repetition          *)
(* included, nothing broken gets into the live generation that a scan      *)
(* could have looked at.                                                   *)
THEOREM NothingBrokenIsActivated == Spec => []NothingBrokenGoesLive
<1>1. Init => Ind
  BY DEF Init, Ind, NothingBrokenGoesLive, LetThroughIsKnown
<1> QED
  BY <1>1, IndInductive, InitTypes, NextTypes, PTL DEF Spec, Ind

-----------------------------------------------------------------------------
(* The post-build hook.  What it is still to repair has no user: its       *)
(* referrers are built after the hook, and no valid path referred to it    *)
(* before it was built, as the store is closed.                            *)

StoreIsClosed == valid \in Closed

HasSibling(p) == \E D \in Derivations : p \in D /\ \E s \in D \ {p} : p \in References[s]

(* A stale output that only its hook can have repaired.                    *)
Pending(p) == /\ p \in built \ skipped
              /\ content[p] = "stale"
              /\ p \notin ContentAddressed
              /\ ~HasSibling(p)

PendingIsUnused ==
    \A p \in Paths : Pending(p) =>
        /\ \E D \in hooking : p \in D
        /\ Referrers(p, valid) = {}
        /\ p \notin Requisites[live]

HookInd == StoreIsClosed /\ PendingIsUnused

(* A closure is closed.                                                    *)
LEMMA RequisitesClosed ==
    ASSUME NEW p \in Paths
    PROVE  Requisites[p] \in Closed
  BY ReferencesAssumption DEF Requisites, Closed

(* Where no hook is running nothing is pending, and a step that builds     *)
(* nothing and makes nothing stale keeps it so (hook.go:23-37).            *)
LEMMA NothingPending ==
    ASSUME Types, HookInd, hooking = {},
           built' \subseteq built, skipped' = skipped,
           \A p \in built' : content'[p] = "stale" => content[p] = "stale"
    PROVE  PendingIsUnused'
  BY DEF HookInd, PendingIsUnused, Pending, HasSibling

(* The store stays closed as nix adds and deletes paths.                   *)
LEMMA ClosedInductive == Types /\ StoreIsClosed /\ [Next]_vars => StoreIsClosed'
<1> SUFFICES ASSUME Types, StoreIsClosed, [Next]_vars PROVE StoreIsClosed'
  OBVIOUS
<1>1. ASSUME NEW g \in Generations, Switch(g) PROVE StoreIsClosed'
  BY <1>1 DEF Switch, StoreIsClosed
<1>2. ASSUME NEW D \in Derivations, Build(D) PROVE StoreIsClosed'
  BY <1>2 DEF Build, StoreIsClosed
<1>3. ASSUME NEW p \in Paths, Collect(p) PROVE StoreIsClosed'
  BY <1>3 DEF Collect, StoreIsClosed, Closed, Referrers
<1>4. CASE UNCHANGED valid
  BY <1>4 DEF StoreIsClosed
<1> QED
  BY <1>1, <1>2, <1>3, <1>4
  DEF Next, PostBuild, Activate, Sweep, ScanRefuse, ScanRepair, LetThrough, GoLive,
      Terminated, vars

(* A build makes its outputs pending, and each hook settles its own.       *)
LEMMA PendingInductive == Types /\ HookInd /\ [Next]_vars => PendingIsUnused'
<1> SUFFICES ASSUME Types, HookInd, [Next]_vars PROVE PendingIsUnused'
  OBVIOUS
<1> USE DEF Types, TypeOK
<1>1. ASSUME NEW g \in Generations, Switch(g) PROVE PendingIsUnused'
  BY <1>1, NothingPending DEF Switch, buildVars
<1>2. ASSUME NEW D \in Derivations, Build(D) PROVE PendingIsUnused'
  <2> SUFFICES ASSUME NEW p \in Paths, Pending(p)'
               PROVE  /\ \E E \in hooking' : p \in E
                      /\ Referrers(p, valid)' = {}
                      /\ p \notin Requisites[live]
    BY <1>2 DEF PendingIsUnused, Build
  <2>1. CASE p \in built
    <3>1. Pending(p)
      BY <1>2, <2>1 DEF Pending, Build, HasSibling
    <3>2. PICK E \in hooking : p \in E
      BY <3>1 DEF HookInd, PendingIsUnused
    <3>3. \A r \in D : p \notin References[r]
      BY <1>2, <3>2 DEF Build
    <3> QED
      BY <1>2, <3>1, <3>2, <3>3 DEF HookInd, PendingIsUnused, Build, Referrers
  <2>2. CASE p \in D \ valid
    <3>1. \A r \in valid : p \notin References[r]
      BY <2>2 DEF HookInd, StoreIsClosed, Closed
    <3>2. \A r \in D \ {p} : p \notin References[r]
      BY <2>2 DEF Pending, HasSibling
    <3> QED
      BY <1>2, <2>2, <3>1, <3>2 DEF Build, Referrers
  <2> QED
    BY <1>2, <2>1, <2>2 DEF Build, Pending
<1>3. ASSUME NEW D \in Derivations, PostBuild(D) PROVE PendingIsUnused'
  <2> SUFFICES ASSUME NEW p \in Paths, Pending(p)'
               PROVE  /\ \E E \in hooking' : p \in E
                      /\ Referrers(p, valid)' = {}
                      /\ p \notin Requisites[live]
    BY <1>3 DEF PendingIsUnused, PostBuild
  <2>1. Pending(p)
    BY <1>3 DEF Pending, PostBuild, HasSibling, AfterFix
  <2>2. PICK E \in hooking : p \in E
    BY <2>1 DEF HookInd, PendingIsUnused
  <2>3. p \notin InUse(valid, {live})
    BY <2>1 DEF HookInd, PendingIsUnused, InUse
  <2>4. p \notin D
    <3>1. PICK failed \in Failures(Broken(content, D)) :
             /\ content' = AfterFix(content, D, InUse(valid, {live}) \cup failed)
             /\ skipped' = skipped \cup Broken(content', failed)
      BY <1>3 DEF PostBuild, OutPaths
    <3>2. p \notin failed
      BY <3>1 DEF Pending, Broken
    <3> QED
      BY <2>1, <2>3, <3>1, <3>2 DEF AfterFix, Pending
  <2> QED
    BY <1>3, <2>1, <2>2, <2>4 DEF HookInd, PendingIsUnused, PostBuild, Referrers
<1>4. ASSUME Activate PROVE PendingIsUnused'
  BY <1>4, NothingPending DEF Activate, buildVars
<1>5. ASSUME NEW p \in Paths, Collect(p) PROVE PendingIsUnused'
  <2>1. /\ hooking = {}
        /\ built' = built \ {p} /\ skipped' = skipped \ {p}
        /\ \A r \in built' : content'[r] = content[r]
    BY <1>5 DEF Collect
  <2>2. \A r \in Paths : Pending(r)' => Pending(r)
    BY <2>1 DEF Pending, HasSibling
  <2> QED
    BY <2>1, <2>2 DEF HookInd, PendingIsUnused
<1>6. ASSUME Sweep PROVE PendingIsUnused'
  BY <1>6, NothingPending DEF Sweep, buildVars, AfterFix
<1>7. ASSUME ScanRefuse PROVE PendingIsUnused'
  BY <1>7, NothingPending DEF ScanRefuse, buildVars
<1>8. ASSUME ScanRepair PROVE PendingIsUnused'
  BY <1>8, NothingPending DEF ScanRepair, buildVars, AfterFix
<1>9. ASSUME LetThrough PROVE PendingIsUnused'
  BY <1>9, NothingPending DEF LetThrough, buildVars
<1>10. ASSUME GoLive PROVE PendingIsUnused'
  BY <1>10, NothingPending DEF GoLive, buildVars
<1>11. ASSUME UNCHANGED vars PROVE PendingIsUnused'
  BY <1>11 DEF vars, buildVars, HookInd, PendingIsUnused, Pending, HasSibling, Referrers
<1> QED
  BY <1>1, <1>2, <1>3, <1>4, <1>5, <1>6, <1>7, <1>8, <1>9, <1>10, <1>11
  DEF Next, Terminated

(* Whatever is built and in whatever order, an output whose hook came to   *)
(* its end is repaired before anything can use it, but for a reference     *)
(* from an output built with it.                                           *)
THEOREM HookRepairsBuilds == Spec => []BuiltIsRepaired
<1>1. Init => HookInd
  BY GenerationsAssumption, RequisitesClosed
  DEF Init, HookInd, StoreIsClosed, PendingIsUnused, Pending
<1>2. Types /\ HookInd /\ [Next]_vars => HookInd'
  BY ClosedInductive, PendingInductive DEF HookInd
<1>3. Types /\ HookInd => BuiltIsRepaired
  BY DEF Types, TypeOK, HookInd, PendingIsUnused, Pending, HasSibling, BuiltIsRepaired
<1> QED
  BY <1>1, <1>2, <1>3, InitTypes, NextTypes, PTL DEF Spec

=============================================================================
