------------------------------ MODULE WrapProofs -----------------------------
(***************************************************************************)
(* The command that wrap runs is run at most twice, over a store that      *)
(* stays whole and where what was repaired is sound, and wrap gives up     *)
(* only for a cause: for every store, cache, command and fault.            *)
(***************************************************************************)
EXTENDS Wrap, TLAPS

-----------------------------------------------------------------------------
(* Closures.                                                               *)

(* A closure consists of paths, its own among them, and is closed.         *)
LEMMA RequisitesClosed ==
    ASSUME NEW p \in Paths
    PROVE  /\ Requisites[p] \subseteq Paths
           /\ p \in Requisites[p]
           /\ References[p] \subseteq Requisites[p]
           /\ \A r \in Requisites[p] : Requisites[r] \subseteq Requisites[p]
<1>1. Requisites[p] \subseteq Paths /\ p \in Requisites[p]
  BY DEF Requisites
<1>2. References[p] \subseteq Requisites[p]
  BY ReferencesAssumption DEF Requisites, Closed
<1>3. ASSUME NEW r \in Requisites[p] PROVE Requisites[r] \subseteq Requisites[p]
  BY <1>1 DEF Requisites
<1> QED
  BY <1>1, <1>2, <1>3

(* A store that is a closure is a closed set and the other way round.      *)
LEMMA ClosureOfClosed ==
    ASSUME NEW S \in SUBSET Paths
    PROVE  Closure(S) = S <=> S \in Closed
<1>1. ASSUME S \in Closed PROVE Closure(S) = S
  <2>1. ASSUME NEW p \in S PROVE Requisites[p] \subseteq S /\ p \in Requisites[p]
    BY <1>1, RequisitesClosed DEF Requisites
  <2> QED
    BY <2>1 DEF Closure
<1>2. ASSUME Closure(S) = S PROVE S \in Closed
  <2>1. ASSUME NEW p \in S PROVE References[p] \subseteq S
    BY <1>2, RequisitesClosed DEF Closure
  <2> QED
    BY <2>1 DEF Closed
<1> QED
  BY <1>1, <1>2

(* Fetching a set of paths, each with its closure, keeps a store closed.   *)
LEMMA FetchKeepsClosed ==
    ASSUME NEW S \in Closed, NEW T \in SUBSET Paths
    PROVE  /\ S \cup Closure(T) \in Closed
           /\ T \subseteq Closure(T)
<1>1. ASSUME NEW p \in Closure(T) PROVE p \in Paths /\ References[p] \subseteq Closure(T)
  <2>1. PICK t \in T : p \in Requisites[t]
    BY DEF Closure
  <2>2. p \in Paths /\ Requisites[p] \subseteq Requisites[t]
    BY <2>1, RequisitesClosed
  <2>3. References[p] \subseteq Requisites[t]
    BY <2>2, RequisitesClosed
  <2> QED
    BY <2>2, <2>3 DEF Closure
<1>2. T \subseteq Closure(T)
  BY RequisitesClosed DEF Closure
<1> QED
  BY <1>1, <1>2 DEF Closed

(* Without a path nothing refers to, a closed store is closed.             *)
LEMMA CollectKeepsClosed ==
    ASSUME NEW S \in Closed, NEW p \in S, Referrers(p, S) = {}
    PROVE  S \ {p} \in Closed
  BY DEF Closed, Referrers

-----------------------------------------------------------------------------
(* Types.                                                                  *)

StoreType ==
    /\ local \in Closed
    /\ content \in [Paths -> Classes]
    /\ cache \in [Paths -> Classes]
    /\ seen \subseteq Needs

RunType ==
    /\ code \in {0, 1}
    /\ handled \subseteq realised
    /\ \/ pc \in {"prefetch", "run"} /\ runs = 0
       \/ pc \in {"repair", "retry"} /\ runs = 1
       \/ pc = "done" /\ runs \in {1, 2}

Types == StoreType /\ RunType

(* A dry run lists paths, so it is paths that are realised.                *)
LEMMA ListedType ==
    ASSUME Types
    PROVE  \A subs \in WillSubstitute : \A ok \in Realise(subs) : ok \in SUBSET Paths
<1>1. Closure(seen) \subseteq Paths
  BY RequisitesClosed, NeedsAssumption DEF Types, StoreType, Closure
<1> QED
  BY <1>1 DEF WillSubstitute, Realise

(* The pass before the first run and the one after it do the same to the   *)
(* store: they realise and repair (wrap.go:42-48, 172-178).                *)
LEMMA PassOfAction ==
    ASSUME Types, Prefetch \/ RepairSubstitutes
    PROVE  \E ok \in SUBSET Paths : \E rooted, failed : Pass(ok, rooted, failed)
<1>1. \E subs \in WillSubstitute : \E ok \in Realise(subs) :
         \E rooted, failed : Pass(ok, rooted, failed)
  BY DEF Prefetch, RepairSubstitutes
<1> QED
  BY <1>1, ListedType

(* A pass keeps the store closed, repairs contents to contents, and        *)
(* handles some of what it realised.                                       *)
LEMMA PassTypes ==
    ASSUME Types, NEW ok \in SUBSET Paths, NEW rooted, NEW failed, Pass(ok, rooted, failed)
    PROVE  /\ local' \in Closed
           /\ content' \in [Paths -> Classes]
           /\ handled' \subseteq realised'
<1>1. local \cup Closure(ok) \in Closed
  BY FetchKeepsClosed DEF Types, StoreType
<1>2. PICK kept : content' = AfterFix(content, ok, kept)
  BY DEF Pass, Repaired
<1>3. content' \in [Paths -> Classes]
  BY <1>2 DEF Types, StoreType, AfterFix, Classes
<1> QED
  BY <1>1, <1>3 DEF Pass

(* The store is a closure when wrap is started and the command was not     *)
(* run.                                                                    *)
LEMMA InitTypes == Init => Types
<1> SUFFICES ASSUME Init PROVE Types
  OBVIOUS
<1>1. PICK S \in SUBSET Paths : local = Closure(S)
  BY DEF Init
<1>2. {} \in Closed
  BY DEF Closed
<1>3. local \in Closed
  BY <1>1, <1>2, FetchKeepsClosed
<1> QED
  BY <1>3 DEF Init, Types, StoreType, RunType

(* Each pass, each run of the command and each collection keeps the store  *)
(* closed, and the number of runs in step with where wrap is.              *)
LEMMA NextTypes == Types /\ [Next]_vars => Types'
<1> SUFFICES ASSUME Types, [Next]_vars PROVE Types'
  OBVIOUS
<1>1. ASSUME Prefetch PROVE Types'
  <2>1. local' \in Closed /\ content' \in [Paths -> Classes] /\ handled' \subseteq realised'
    BY <1>1, PassOfAction, PassTypes
  <2> QED
    BY <1>1, <2>1 DEF Prefetch, Types, StoreType, RunType
<1>2. ASSUME NEW p \in Paths, Collect(p) PROVE Types'
  <2>1. local' \in Closed
    BY <1>2, CollectKeepsClosed DEF Collect, Types, StoreType
  <2> QED
    BY <1>2, <2>1 DEF Collect, Types, StoreType, RunType
<1>3. ASSUME Passthrough PROVE Types'
  <2>1. PICK S \in SUBSET Needs : local' = local \cup (Closure(S) \ local)
    BY <1>3 DEF Passthrough
  <2>2. local' \in Closed
    <3>1. local' = local \cup Closure(S)
      BY <2>1
    <3> QED
      BY <3>1, FetchKeepsClosed, NeedsAssumption DEF Types, StoreType
  <2>3. code' \in {0, 1}
    BY <1>3 DEF Passthrough
  <2> QED
    BY <1>3, <2>2, <2>3 DEF Passthrough, FirstFailure, passVars, Types, StoreType, RunType
<1>4. ASSUME RepairSubstitutes PROVE Types'
  <2>1. local' \in Closed /\ content' \in [Paths -> Classes] /\ handled' \subseteq realised'
    BY <1>4, PassOfAction, PassTypes
  <2> QED
    BY <1>4, <2>1 DEF RepairSubstitutes, Types, StoreType, RunType
<1>5. ASSUME UNCHANGED vars PROVE Types'
  BY <1>5 DEF vars, passVars, Types, StoreType, RunType
<1> QED
  BY <1>1, <1>2, <1>3, <1>4, <1>5 DEF Next, Terminated

(* The command is run at most twice, and the store holds the references of *)
(* every path it holds (wrap.go:50-61).                                    *)
THEOREM TypeCorrect == Spec => []TypeOK
<1>1. Types => TypeOK
  <2>1. Types => local \subseteq Paths /\ Closure(local) = local
    BY ClosureOfClosed DEF Types, StoreType, Closed
  <2> QED
    BY <2>1 DEF Types, StoreType, RunType, TypeOK
<1> QED
  BY <1>1, InitTypes, NextTypes, PTL DEF Spec

-----------------------------------------------------------------------------
(* What the passes do for the command.                                     *)

(* What a pass has handled is sound: what else it leaves broken of what it *)
(* realised it refused or failed on.                                       *)
LEMMA PassRepairs ==
    ASSUME Types, NEW ok \in SUBSET Paths, NEW rooted, NEW failed, Pass(ok, rooted, failed),
           NEW p \in handled'
    PROVE  content'[p] = "valid"
<1>1. PICK unwritten \in SUBSET failed :
         content' = AfterFix(content, ok, Guarded(ok, rooted) \cup unwritten)
  BY DEF Pass, Repaired
<1>2. p \in ok /\ p \notin failed /\ p \notin Refused(ok, rooted) /\ p \in Paths
  BY DEF Pass
<1>3. CASE content[p] = "valid"
  BY <1>1, <1>2, <1>3 DEF AfterFix
<1>4. CASE content[p] # "valid"
  <2>1. content[p] # "cms" /\ p \notin Guarded(ok, rooted) \cup ContentAddressed
    BY <1>2, <1>4 DEF Refused, Broken
  <2>2. content[p] = "stale"
    BY <1>2, <1>4, <2>1 DEF Types, StoreType, Classes
  <2> QED
    BY <1>1, <1>2, <2>1, <2>2 DEF AfterFix
<1> QED
  BY <1>3, <1>4

(* No run of the command and no collection makes what was handled stale.   *)
LEMMA SoundInductive == Types /\ HandledIsSound /\ [Next]_vars => HandledIsSound'
<1> SUFFICES ASSUME Types, HandledIsSound, [Next]_vars PROVE HandledIsSound'
  OBVIOUS
<1> USE DEF HandledIsSound
<1>1. ASSUME Prefetch \/ RepairSubstitutes PROVE HandledIsSound'
  BY <1>1, PassOfAction, PassRepairs
<1>2. ASSUME NEW p \in Paths, Collect(p) PROVE HandledIsSound'
  BY <1>2 DEF Collect, Types, StoreType
<1>3. ASSUME Passthrough PROVE HandledIsSound'
  BY <1>3 DEF Passthrough, passVars
<1>4. ASSUME UNCHANGED vars PROVE HandledIsSound'
  BY <1>4 DEF vars, passVars
<1> QED
  BY <1>1, <1>2, <1>3, <1>4 DEF Next, Terminated

(* While the command runs, no path that the pass before it realised is     *)
(* stale, unless --fix failed on it or refuses it, or it was collected.    *)
THEOREM HandledStaysSound == Spec => []HandledIsSound
<1>1. Init => HandledIsSound
  BY DEF Init, HandledIsSound
<1> QED
  BY <1>1, InitTypes, NextTypes, SoundInductive, PTL DEF Spec

(* The second pass is followed by a run of the command unless it realised  *)
(* nothing or did not handle all that it realised.                         *)
LEMMA GivingUp ==
    ASSUME Types, [Next]_vars, pc = "repair", pc' = "done"
    PROVE  realised' = {} \/ ~(realised' \subseteq handled')
<1>1. RepairSubstitutes
  BY DEF Next, Prefetch, Passthrough, Collect, Terminated, vars
<1>2. \E subs \in WillSubstitute : \E ok \in Realise(subs) : \E rooted, failed :
         Pass(ok, rooted, failed) /\ ~Worthwhile(ok, content', failed)
  BY <1>1 DEF RepairSubstitutes
<1>3. PICK ok \in SUBSET Paths : \E rooted, failed :
         Pass(ok, rooted, failed) /\ ~Worthwhile(ok, content', failed)
  BY <1>2, ListedType
<1>4. PICK rooted, failed : Pass(ok, rooted, failed) /\ ~Worthwhile(ok, content', failed)
  BY <1>3
<1>5. realised' = ok
  BY <1>4 DEF Pass
<1>6. ASSUME ok # {} PROVE ~(ok \subseteq handled')
  <2>1. PICK p \in ok : content'[p] # "valid" \/ p \in failed
    BY <1>4, <1>6 DEF Worthwhile, FixCode, Broken
  <2> QED
    BY <1>4, <2>1, PassRepairs DEF Pass
<1> QED
  BY <1>5, <1>6

(* Wrap gives up after one run of the command only when there was nothing  *)
(* to realise, or the repair of something realised failed or is refused.   *)
THEOREM GivingUpHasACause == Spec => GivesUpForACause
<1>1. Types /\ [Next]_vars =>
         [pc = "repair" /\ pc' = "done" => realised' = {} \/ ~(realised' \subseteq handled')]_vars
  BY GivingUp
<1> QED
  BY <1>1, InitTypes, NextTypes, PTL DEF Spec, GivesUpForACause

=============================================================================
