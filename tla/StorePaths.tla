----------------------------- MODULE StorePaths -----------------------------
(***************************************************************************)
(* A nix store seen from the module's hooks and from `wrap`: paths that    *)
(* refer to each other, of which a run of doctor or check only matters for *)
(* what it leaves broken and for its exit status.  Doctor shows what such  *)
(* a run does step by step.                                                *)
(***************************************************************************)
EXTENDS FiniteSets, Naturals

CONSTANTS
    Paths,
    References,         \* the paths each path refers to
    ContentAddressed,
    Faults              \* what may fail: "fix", the repair of any one path; the
                        \* others are named where they happen

ASSUME ReferencesAssumption == References \in [Paths -> SUBSET Paths]
ASSUME AddressedAssumption == ContentAddressed \subseteq Paths

(* What the worst Mach-O file of a path is.                                *)
Classes == {"valid", "stale", "cms"}

Closed == {S \in SUBSET Paths : \A p \in S : References[p] \subseteq S}

(* The closure of a path: itself and what it refers to, however indirectly. *)
Requisites == [p \in Paths |-> {r \in Paths : \A S \in Closed : p \in S => r \in S}]

Referrers(p, valid) == {r \in valid \ {p} : p \in References[r]}

(* The paths a plain --fix leaves alone: those with a root or a referrer.  *)
InUse(valid, roots) ==
    {p \in valid : Referrers(p, valid) # {} \/ \E r \in roots : p \in Requisites[r]}

Broken(content, args) == {p \in args : content[p] # "valid"}

(* Of some broken paths, those a run of doctor fails on: it reports the     *)
(* error, which may be that of a query, of a write or of the registration, *)
(* and goes on.                                                            *)
Failures(broken) == {S \in SUBSET broken : "fix" \in Faults \/ S = {}}

(* doctor --fix on some paths; kept are those it may not touch or fails to *)
(* write.                                                                  *)
AfterFix(content, args, kept) ==
    [p \in Paths |->
        IF p \in args \ (kept \cup ContentAddressed) /\ content[p] = "stale"
        THEN "valid" ELSE content[p]]

(* Its status, of the contents it found, the contents it leaves and the    *)
(* paths it failed on: a path that was written and not registered counts   *)
(* as broken.                                                              *)
FixCode(found, left, args, failed) ==
    IF Broken(left, args) \cup (Broken(found, args) \cap failed) = {} THEN 0 ELSE 2

(* check on some paths; missing are those that cannot be examined, the     *)
(* first of which ends it whatever was found.                              *)
CheckCode(content, args, missing) ==
    IF args \cap missing # {} THEN 1
    ELSE IF Broken(content, args) # {} THEN 2 ELSE 0

=============================================================================
