----------------------------- MODULE Activation -----------------------------
(***************************************************************************)
(* The NixOS and nix-darwin modules over a series of switches.  A new      *)
(* generation is substituted and built, each build followed by the         *)
(* post-build hook; then the activation script runs: the first-enable      *)
(* sweep and its marker, and `scan-generation` on the closure delta of the *)
(* incoming generation, in repair or in refuse mode.  Between switches nix *)
(* collects garbage.                                                       *)
(***************************************************************************)
EXTENDS StorePaths

CONSTANTS
    Generations,    \* top-level paths of system generations
    Derivations,    \* what can be built: sets of outputs
    Modes,          \* onActivation: "repair", "refuse"
    SweepOnFirstEnable,
    MaxSwitches     \* bound of the series

(* Of the Faults: "new" and "old", the queries for the requisites of a     *)
(* generation; "check"; and "fix".                                         *)

ASSUME GenerationsAssumption == Generations \subseteq Paths
ASSUME DerivationsAssumption == Derivations \subseteq SUBSET Paths
ASSUME ModesAssumption == Modes \subseteq {"repair", "refuse"}
ASSUME SweepAssumption == SweepOnFirstEnable \in BOOLEAN
ASSUME SwitchesAssumption == MaxSwitches \in Nat

VARIABLES
    valid,          \* the paths in the store
    content,        \* their contents; of other paths, what a cache serves
    live,           \* /run/current-system
    incoming,       \* $systemConfig
    marker,         \* /nix/var/machokeeper/.swept exists
    pc,
    switches,
    mode,           \* of Modes
    hooking,        \* derivations whose outputs are registered and whose
                    \* post-build hook has not ended
    built,          \* history: the outputs built here
    skipped,        \* history: those of them that their hook failed on
    known           \* history: what was broken when the module was enabled, or
                    \* when a fault kept the scan from looking at it or from
                    \* repairing it, and was not collected since

buildVars == <<hooking, built, skipped>>
vars == <<valid, content, live, incoming, marker, pc, switches, mode, buildVars, known>>

Init ==
    /\ content \in [Paths -> Classes]
    /\ live \in Generations
    /\ incoming = live
    /\ valid = Requisites[live]
    /\ marker = FALSE
    /\ pc = "idle"
    /\ switches = 0
    /\ mode \in Modes
    /\ hooking = {} /\ built = {} /\ skipped = {}
    /\ known = Broken(content, Requisites[live])

(* nix substitutes what the caches have of the next generation.            *)
Switch(g) ==
    /\ pc = "idle"
    /\ switches < MaxSwitches
    /\ switches' = switches + 1
    /\ incoming' = g
    /\ \E fetched \in SUBSET Requisites[g] :
          /\ valid \cup fetched \in Closed
          /\ valid' = valid \cup fetched
    /\ pc' = "build"
    /\ UNCHANGED <<content, live, marker, mode, buildVars, known>>

(* The rest is built, a derivation after those it depends on and their     *)
(* hooks.                                                                  *)
Build(D) ==
    /\ pc = "build"
    /\ (Requisites[incoming] \cap D) \ valid # {}
    /\ valid \cup D \in Closed
    /\ \A p \in D, E \in hooking : References[p] \cap E = {}
    /\ valid' = valid \cup D
    /\ built' = built \cup (D \ valid)
    /\ hooking' = hooking \cup {D}
    /\ UNCHANGED <<content, live, incoming, marker, pc, switches, mode, skipped, known>>

(* Mutant: $OUT_PATHS is not split at its blanks.                          *)
Unsplit(D) == IF Cardinality(D) > 1 THEN {} ELSE D

OutPaths(D) == D

(* A plain --fix of the outputs, which nothing uses yet.  The dispatcher   *)
(* passes over a failure, of the whole run or on an output.                *)
PostBuild(D) ==
    /\ D \in hooking
    /\ hooking' = hooking \ {D}
    /\ \E failed \in Failures(Broken(content, D)) :
          /\ content' = AfterFix(content, OutPaths(D), InUse(valid, {live}) \cup failed)
          /\ skipped' = skipped \cup Broken(content', failed)
    /\ UNCHANGED <<valid, live, incoming, marker, pc, switches, mode, built, known>>

Activate ==
    /\ pc = "build"
    /\ Requisites[incoming] \subseteq valid
    /\ hooking = {}
    /\ pc' = "sweep"
    /\ UNCHANGED <<valid, content, live, incoming, marker, switches, mode, buildVars, known>>

(* A collection between switches; what it deleted is substituted anew.     *)
Collect(p) ==
    /\ pc = "idle"
    /\ p \in valid \ Requisites[live]
    /\ Referrers(p, valid) = {}
    /\ valid' = valid \ {p}
    /\ \E c \in Classes : content' = [content EXCEPT ![p] = c]
    /\ known' = known \ {p}
    /\ built' = built \ {p}
    /\ skipped' = skipped \ {p}
    /\ UNCHANGED <<live, incoming, marker, pc, switches, mode, hooking>>

(* The roots while the activation runs: the live generation, and the       *)
(* incoming one, whose profile link is set first.                          *)
Roots == {live, incoming}

(* Mutant: the marker is set only when the sweep left nothing broken.      *)
OnceClean(swept) == Broken(swept, valid) = {}

(* The marker is set whatever the sweep did.                               *)
OnceTried(swept) == TRUE

(* The sweep of the whole store.                                           *)
Sweep ==
    /\ pc = "sweep"
    /\ IF SweepOnFirstEnable /\ ~marker
       THEN /\ \E failed \in Failures(Broken(content, valid)) :
                  content' = AfterFix(content, valid, InUse(valid, Roots) \cup failed)
            /\ marker' = OnceTried(content')
       ELSE UNCHANGED <<content, marker>>
    /\ pc' = "scan"
    /\ UNCHANGED <<valid, live, incoming, switches, mode, buildVars, known>>

(* Mutant: the profile link, which leads to the incoming generation by     *)
(* then, is taken for the old generation.                                  *)
ProfileLink == incoming

OldGeneration == live

(* closureDelta: without an answer about the old generation, everything.   *)
Deltas ==
    {Requisites[incoming] \ Requisites[OldGeneration]}
    \cup (IF "old" \in Faults THEN {Requisites[incoming]} ELSE {})

(* ScanGeneration fails open: without an answer about the new generation,  *)
(* or from a check that cannot examine a path, the switch goes on.         *)
LetThrough ==
    /\ pc = "scan"
    /\ \/ "new" \in Faults
       \/ /\ mode = "refuse"
          /\ "check" \in Faults
          /\ \E delta \in Deltas : \E p \in delta : CheckCode(content, delta, {p}) = 1
    /\ pc' = "live"
    /\ known' = known \cup Requisites[incoming]
    /\ UNCHANGED <<valid, content, live, incoming, marker, switches, mode, buildVars>>

(* In refuse mode a status of 2 from check fails the switch.               *)
ScanRefuse ==
    /\ pc = "scan"
    /\ mode = "refuse"
    /\ \E delta \in Deltas :
          pc' = IF CheckCode(content, delta, {}) = 2 THEN "idle" ELSE "live"
    /\ UNCHANGED <<valid, content, live, incoming, marker, switches, mode, buildVars, known>>

ScanRepair ==
    /\ pc = "scan"
    /\ mode = "repair"
    /\ \E delta \in Deltas : \E failed \in Failures(Broken(content, delta)) :
          /\ content' = AfterFix(content, delta, InUse(valid, Roots) \cup failed)
          /\ known' = known \cup Broken(content', failed)
    /\ pc' = "live"
    /\ UNCHANGED <<valid, live, incoming, marker, switches, mode, buildVars>>

GoLive ==
    /\ pc = "live"
    /\ live' = incoming
    /\ pc' = "idle"
    /\ UNCHANGED <<valid, content, incoming, marker, switches, mode, buildVars, known>>

Terminated == /\ pc = "idle" /\ switches = MaxSwitches
              /\ UNCHANGED vars

Next == \/ \E g \in Generations : Switch(g)
        \/ \E D \in Derivations : Build(D) \/ PostBuild(D)
        \/ \E p \in Paths : Collect(p)
        \/ Activate \/ Sweep \/ ScanRefuse \/ ScanRepair \/ LetThrough \/ GoLive
        \/ Terminated

Spec == Init /\ [][Next]_vars

-----------------------------------------------------------------------------
(* What holds between the parts of the state, for the proofs.              *)

(* A generation that was let through holds nothing broken but what is known. *)
LetThroughIsKnown ==
    mode = "refuse" /\ pc = "live" => Broken(content, Requisites[incoming]) \subseteq known

-----------------------------------------------------------------------------
(* Properties.                                                             *)

(* Every variable keeps to its type; the live generation is whole, and no  *)
(* scan comes before the sweep asked for.                                  *)
TypeOK ==
    /\ valid \subseteq Paths
    /\ content \in [Paths -> Classes]
    /\ live \in Generations
    /\ incoming \in Generations
    /\ pc \in {"idle", "build", "sweep", "scan", "live"}
    /\ Requisites[live] \subseteq valid
    /\ marker = (SweepOnFirstEnable /\ switches > (IF pc \in {"build", "sweep"} THEN 1 ELSE 0))
    /\ switches \in 0..MaxSwitches
    /\ mode \in Modes
    /\ hooking \subseteq Derivations
    /\ pc # "build" => hooking = {}
    /\ built \subseteq valid
    /\ skipped \subseteq Paths
    /\ known \subseteq Paths

(* The post-build hook repairs just-built outputs before they are first    *)
(* used (hook.go:19-20): in whatever order derivations are built, whatever *)
(* was substituted and collected before, an output that its hook did not   *)
(* fail on is not stale once that hook has ended, unless it is             *)
(* content-addressed or another output of the same derivation refers to it. *)
BuiltIsRepaired ==
    \A p \in built \ skipped : content[p] = "stale" =>
        \/ p \in ContentAddressed
        \/ \E D \in Derivations : p \in D /\
              (D \in hooking \/ \E s \in D \ {p} : p \in References[s])

(* Refuse mode fails the switch so that nothing broken is activated        *)
(* (module-common.nix:112-115): over any series of switches, refused ones  *)
(* tried again and collections included, what is broken in the live        *)
(* generation was broken in the one that was live when the module was      *)
(* enabled, or came with a generation that a fault kept from being looked  *)
(* at; and was not collected and fetched anew since.                       *)
NothingBrokenGoesLive ==
    mode = "refuse" => Broken(content, Requisites[live]) \subseteq known

(* The activation scan repairs the new generation's store paths            *)
(* (README.md:69): what is still stale in the generation that is live was  *)
(* so before, or is content-addressed.                                     *)
RepairModeRepairs ==
    mode = "repair" =>
        {p \in Requisites[live] : content[p] = "stale"} \subseteq known \cup ContentAddressed

=============================================================================
