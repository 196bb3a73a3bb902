-------------------------------- MODULE Wrap --------------------------------
(***************************************************************************)
(* `machokeeper wrap -- <nix command>`: a dry run lists what the command   *)
(* would substitute, that is realised and repaired, the command runs, and  *)
(* when it fails it is run once more if a second pass of the same kind     *)
(* repaired something.  The command fetches the paths it needs and fails   *)
(* when it executes a broken one.                                          *)
(***************************************************************************)
EXTENDS StorePaths

CONSTANTS
    Needs           \* the paths the command executes

(* Of the Faults: "dry", the dry run; "realise", the fetching of any one   *)
(* path; "fix"; "command", the command by itself; and "gc", collections    *)
(* between the passes.                                                     *)

ASSUME NeedsAssumption == Needs \subseteq Paths

VARIABLES
    local,          \* the paths in the store
    content,        \* their contents; of other paths, what the cache serves
    cache,          \* what the cache serves
    seen,           \* the needs a dry run's evaluation arrives at
    pc,
    runs,           \* how often the command was run
    code,           \* exit status
    pulled,         \* history: what the first run of the command fetched stale
    realised,       \* history: what the last pass realised
    handled         \* history: that of it which the pass neither failed on nor had
                    \* to leave broken, and that was not collected since

passVars == <<realised, handled>>
vars == <<local, content, cache, seen, pc, runs, code, pulled, passVars>>

Closure(S) == UNION {Requisites[p] : p \in S}

Init ==
    /\ cache \in [Paths -> Classes]
    /\ \E S \in SUBSET Paths : local = Closure(S)
    /\ content \in {c \in [Paths -> Classes] : \A p \in Paths \ local : c[p] = cache[p]}
    /\ seen \in SUBSET Needs
    /\ pc = "prefetch"
    /\ runs = 0
    /\ code = 0
    /\ pulled = {}
    /\ realised = {}
    /\ handled = {}

(* What the evaluation arrives at and is not local.                        *)
Missing == Closure(seen) \ local

(* willSubstitute: these, and such of the others as the log also names.    *)
WillSubstitute ==
    {subs \in SUBSET Closure(seen) : Missing \subseteq subs \/ ("dry" \in Faults /\ subs = {})}

(* realise: the listed paths that are local, and those that could be       *)
(* fetched, each with its closure.                                         *)
Realise(subs) ==
    {ok \in SUBSET subs : subs \cap local \subseteq ok /\ ("realise" \in Faults \/ ok = subs)}

(* The paths in use once ok is realised, which leaves no root.             *)
Guarded(ok, rooted) == InUse(local \cup Closure(ok), rooted)

(* The broken paths of ok that a plain --fix leaves as they are.           *)
Refused(ok, rooted) ==
    {p \in Broken(content, ok) :
        p \in Guarded(ok, rooted) \cup ContentAddressed \/ content[p] = "cms"}

(* Mutant: the paths are fetched, not repaired.                            *)
Fetched(ok, kept) == content

(* The store after realising ok and fixing it.                             *)
Repaired(ok, kept) == AfterFix(content, ok, kept)

(* The roots that can matter to a pass: those of the broken paths that     *)
(* were local.  What the root of another path leads to has a referrer.     *)
Rooted(ok) == SUBSET Broken(content, ok \cap local)

(* A pass over ok, which fails on a path before or after it replaced the   *)
(* file.                                                                   *)
Pass(ok, rooted, failed) ==
    /\ local' = local \cup Closure(ok)
    /\ \E unwritten \in SUBSET failed :
          content' = Repaired(ok, Guarded(ok, rooted) \cup unwritten)
    /\ realised' = ok
    /\ handled' = ok \ (failed \cup Refused(ok, rooted))

Prefetch ==
    /\ pc = "prefetch"
    /\ \E subs \in WillSubstitute : \E ok \in Realise(subs) :
          \E rooted \in Rooted(ok) :
             \E failed \in Failures(Broken(content, ok) \ Refused(ok, rooted)) :
                Pass(ok, rooted, failed)
    /\ pc' = "run"
    /\ UNCHANGED <<cache, seen, runs, code, pulled>>

(* A collection while wrap runs: what was realised has no root.            *)
Collect(p) ==
    /\ "gc" \in Faults
    /\ pc \in {"run", "retry"}
    /\ p \in local
    /\ Referrers(p, local) = {}
    /\ local' = local \ {p}
    /\ content' = [content EXCEPT ![p] = cache[p]]
    /\ handled' = handled \ {p}
    /\ UNCHANGED <<cache, seen, pc, runs, code, pulled, realised>>

(* Mutant: every failure is followed by another pass.                      *)
EveryFailure == TRUE

(* A failure is followed by a second pass once.                            *)
FirstFailure == runs = 0

(* passthrough: the command runs to its end, or fetches some of what it    *)
(* needs and fails, at the first broken path it executes or by itself.     *)
Passthrough ==
    /\ pc \in {"run", "retry"}
    /\ runs' = runs + 1
    /\ \E fetched \in {Closure(S) \ local : S \in SUBSET Needs} :
          /\ local' = local \cup fetched
          /\ pulled' = IF runs = 0 THEN {p \in fetched : content[p] = "stale"} ELSE pulled
          /\ \/ /\ Needs \subseteq local'
                /\ Broken(content, Needs) = {}
                /\ code' = 0
             \/ /\ \/ Broken(content, Needs \cap local') # {}
                   \/ "command" \in Faults
                /\ code' = 1
    /\ seen' \in {seen, Needs}
    /\ pc' = IF code' # 0 /\ FirstFailure THEN "repair" ELSE "done"
    /\ UNCHANGED <<content, cache, passVars>>

(* Mutant: the status is that of the findings, not of the repair.          *)
NothingFound(ok, left, failed) == ok # {} /\ FixCode(content, content, ok, failed) = 0

(* Whether the command is run again: something was realised, and the       *)
(* repair that left the contents so says that all of it is sound now.      *)
Worthwhile(ok, left, failed) == ok # {} /\ FixCode(content, left, ok, failed) = 0

RepairSubstitutes ==
    /\ pc = "repair"
    /\ \E subs \in WillSubstitute : \E ok \in Realise(subs) :
          \E rooted \in Rooted(ok) :
             \E failed \in Failures(Broken(content, ok) \ Refused(ok, rooted)) :
                /\ Pass(ok, rooted, failed)
                /\ pc' = IF Worthwhile(ok, content', failed) THEN "retry" ELSE "done"
    /\ UNCHANGED <<cache, seen, runs, code, pulled>>

Terminated == pc = "done" /\ UNCHANGED vars

Next == \/ Prefetch \/ Passthrough \/ RepairSubstitutes
        \/ \E p \in Paths : Collect(p)
        \/ Terminated

Spec == Init /\ [][Next]_vars

-----------------------------------------------------------------------------
(* Properties.                                                             *)

(* Every variable keeps to its type: the command is run at most twice, and *)
(* the store holds the references of every path it holds.                  *)
TypeOK ==
    /\ local \subseteq Paths
    /\ Closure(local) = local
    /\ content \in [Paths -> Classes]
    /\ cache \in [Paths -> Classes]
    /\ seen \subseteq Needs
    /\ pc \in {"prefetch", "run", "repair", "retry", "done"}
    /\ runs \in 0..2
    /\ code \in {0, 1}
    /\ handled \subseteq realised

(* What the passes are for (wrap.go:42-58): while the command runs, the    *)
(* first time or the second, no path that the pass before it realised is   *)
(* stale, unless the pass reported an error on it, a plain --fix refuses   *)
(* it, or it was collected and fetched anew.                               *)
HandledIsSound == pc # "prefetch" => \A p \in handled : content[p] = "valid"

(* A run that failed is followed by another if a repair sweep ran clean    *)
(* (wrap.go:167-179): wrap gives up after one run only when the second     *)
(* pass realised nothing, or reported an error on a path that it realised, *)
(* or had to leave one of them broken.                                     *)
GivesUpForACause ==
    [][pc = "repair" /\ pc' = "done" =>
           realised' = {} \/ ~(realised' \subseteq handled')]_vars

(* A failed run is retried once after a repair sweep of what it did pull   *)
(* (wrap.go:9-10, docs/DESIGN.md:41): when wrap is done and the command    *)
(* failed, no stale path that it pulled and that can be repaired is left.  *)
PulledIsRepaired ==
    (pc = "done" /\ code = 1) =>
        {p \in pulled : content[p] = "stale"} \subseteq ContentAddressed

=============================================================================
