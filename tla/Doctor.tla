------------------------------- MODULE Doctor -------------------------------
(***************************************************************************)
(* `machokeeper check` and `machokeeper doctor [--fix | --fix-live]`: the  *)
(* scan, the grouping of findings by store path, the refusals, the repair  *)
(* of each file through a temporary file and a rename, the reconciliation  *)
(* of the database row, the undo journal and the exit status.  Several     *)
(* invocations run over one store, beside nix and its garbage collector.   *)
(*                                                                         *)
(* The steps are the program's system calls and the nix commands it runs:  *)
(* what two invocations, a collection or a crash can come between.  Calls  *)
(* are taken together where what others do between them shows in nothing   *)
(* but an error that either call may have anyway.                          *)
(***************************************************************************)
EXTENDS NixStore, Sequences

CONSTANTS
    ArgLists,       \* the argument lists an invocation may be given
    Under,          \* the files a walk of an argument visits
    Home,           \* the inode each name leads to initially
    Inputs,         \* the commands and arguments, the contents of the inodes, the
                    \* paths in use
    ContentAddressed,  \* paths whose name is a function of their bytes
    Faults,         \* the operations that may fail
    NixActs,        \* what nix does meanwhile: "root", "referrer", "gc"
    Concurrent,     \* whether invocations overlap in time
    LastSecond      \* bound of the clock

ASSUME HomeAssumption == Home \in [Files -> Inodes]
ASSUME ContentAddressedAssumption == ContentAddressed \subseteq Paths
ASSUME ArgsAssumption ==
    \A l \in ArgLists : /\ l \in Seq(DOMAIN Under)
                        /\ \A n \in 1..Len(l) : Under[l[n]] \subseteq Files

Commands == {"check", "report", "fix", "fix-live"}

ASSUME InputsAssumption ==
    Inputs \subseteq [bytes : [Inodes -> Classes], cmd : [Procs -> Commands],
                     argv : [Procs -> ArgLists], used : SUBSET (Paths \X Uses)]
ASSUME ClockAssumption == LastSecond \in Nat

VARIABLES
    pc,         \* where each invocation is
    cmd,        \* its command
    argv,       \* its path arguments
    nth,        \* the argument it scans
    todo,       \* files of that argument the workers have not read yet
    found,      \* findings, sorted by file once the scan is over
    queue,      \* repairable findings whose group has not been taken up
    work,       \* findings of the group in hand that are still to repair
    cur,        \* the store path of that group
    nar,        \* the NAR dumped after the group's repair
    grp,        \* repairedInGroup
    fixed,      \* files counted as fixed
    mem,        \* the journal in memory
    stamp,      \* the second in the name of the journal's file
    journals,   \* the journal on disk for each second
    unsaved,    \* history: the invocations whose journal could not be written
    now         \* the clock, in seconds

scanVars == <<nth, todo, found>>
groupVars == <<queue, work, cur, nar, grp, fixed>>
journalVars == <<mem, stamp, journals, unsaved>>
inputVars == <<cmd, argv>>
doctorVars == <<pc, cmd, argv, nth, todo, found, queue, work, cur, nar, grp,
                fixed, mem, stamp, journals, unsaved, now>>
vars == <<storeVars, doctorVars>>

Exits == {"exit0", "exit1", "exit2"}
Ended == Exits \cup {"crashed"}
Labels == {"idle", "walk", "scan", "report", "lock", "group", "ca", "roots",
           "referrers", "plan", "temp", "rename", "cleanup", "dump", "register", "unlock",
           "journal"} \cup Ended

Running(q) == pc[q] \notin Ended \cup {"idle"}
Quiet == \A q \in Procs : ~Running(q)

Seconds == 0..LastSecond
Fixing(q) == cmd[q] \in {"fix", "fix-live"}

Scope(q) == UNION {Under[argv[q][n]] : n \in 1..Len(argv[q])}

(* One finding per visit of a file: overlapping arguments visit it twice.  *)
Findings == [file : Files, arg : Nat, repairable : BOOLEAN]

GoTo(q, l) == pc' = [pc EXCEPT ![q] = l]

-----------------------------------------------------------------------------
Init ==
    /\ \E in \in Inputs :
          bytes = in.bytes /\ cmd = in.cmd /\ argv = in.argv /\ inUse = in.used
    /\ dir = Home
    /\ temp = [q \in Procs |-> NoFile]
    /\ litter = {}
    /\ row = [p \in Paths |-> NarOf(p)]
    /\ everFree = (Paths \X Uses) \ inUse
    /\ gcShared = {}
    /\ gcBusy = FALSE
    /\ pc = [q \in Procs |-> "idle"]
    /\ nth = [q \in Procs |-> 0]
    /\ todo = [q \in Procs |-> {}]
    /\ found = [q \in Procs |-> {}]
    /\ queue = [q \in Procs |-> {}]
    /\ work = [q \in Procs |-> {}]
    /\ cur = [q \in Procs |-> NoPath]
    /\ nar = [q \in Procs |-> NoRow]
    /\ grp = [q \in Procs |-> 0]
    /\ fixed = [q \in Procs |-> 0]
    /\ mem = [q \in Procs |-> {}]
    /\ stamp = [q \in Procs |-> 0]
    /\ journals = [s \in Seconds |-> {}]
    /\ unsaved = {}
    /\ now = 0

-----------------------------------------------------------------------------
(* The scan.                                                               *)

(* Every command wants an argument.                                        *)
Start(q) ==
    /\ pc[q] = "idle"
    /\ Concurrent \/ Quiet
    /\ GoTo(q, IF argv[q] = <<>> THEN "exit1" ELSE "walk")
    /\ UNCHANGED <<storeVars, inputVars, scanVars, groupVars, journalVars, now>>

(* walkParallel of the next argument.  A root that cannot be examined ends *)
(* `check` and is only reported by `doctor`.                               *)
Walk(q) ==
    /\ pc[q] = "walk"
    /\ nth[q] < Len(argv[q])
    /\ nth' = [nth EXCEPT ![q] = @ + 1]
    /\ \/ /\ todo' = [todo EXCEPT ![q] = {f \in Under[argv[q][nth[q] + 1]] : Exists(f)}]
          /\ GoTo(q, "scan")
       \/ /\ \/ "walk" \in Faults
             \/ \A f \in Under[argv[q][nth[q] + 1]] : ~Exists(f)
          /\ GoTo(q, IF cmd[q] = "check" THEN "exit1" ELSE "walk")
          /\ UNCHANGED todo
    /\ UNCHANGED <<storeVars, inputVars, found, groupVars, journalVars, now>>

FindingsAbout(f, n) ==
    IF Content(f) \in {"absent", "valid"} THEN {}
    ELSE {[file |-> f, arg |-> n, repairable |-> Content(f) = "stale"]}

(* scanFile: a file that cannot be read is passed over like a healthy one. *)
ScanFile(q, f) ==
    /\ pc[q] = "scan"
    /\ f \in todo[q]
    /\ todo' = [todo EXCEPT ![q] = @ \ {f}]
    /\ \/ found' = [found EXCEPT ![q] = @ \cup FindingsAbout(f, nth[q])]
       \/ "open" \in Faults /\ UNCHANGED found
    /\ UNCHANGED <<storeVars, pc, inputVars, nth, groupVars, journalVars, now>>

EndScan(q) ==
    /\ pc[q] = "scan"
    /\ todo[q] = {}
    /\ GoTo(q, "walk")
    /\ UNCHANGED <<storeVars, inputVars, scanVars, groupVars, journalVars, now>>

-----------------------------------------------------------------------------
(* The report, and the end of every command that does not repair.          *)

KeyOf(f) == IF PathOf[f] = NoPath THEN f ELSE PathOf[f]

Repairable(q) == {x \in found[q] : x.repairable}

Report(q) ==
    /\ pc[q] = "walk"
    /\ nth[q] = Len(argv[q])
    /\ IF found[q] = {} THEN GoTo(q, "exit0")
       ELSE IF ~Fixing(q) THEN GoTo(q, "exit2")
       ELSE IF \E x \in Repairable(q) : PathOf[x.file] # NoPath THEN GoTo(q, "lock")
       ELSE GoTo(q, "group")
    /\ IF found[q] # {} /\ Fixing(q)
       THEN /\ queue' = [queue EXCEPT ![q] = Repairable(q)]
            /\ stamp' = [stamp EXCEPT ![q] = now]
       ELSE UNCHANGED <<queue, stamp>>
    /\ UNCHANGED <<storeVars, inputVars, scanVars, work, cur, nar, grp, fixed,
                   mem, journals, unsaved, now>>

-----------------------------------------------------------------------------
(* The repair phase, under the GC lock when a store path is involved.      *)

(* withGCLock is best-effort: without the lock the repair goes on.         *)
Lock(q) ==
    /\ pc[q] = "lock"
    /\ \/ LockShared(q)
       \/ "lock" \in Faults /\ UNCHANGED lockVars
    /\ GoTo(q, "group")
    /\ UNCHANGED <<fileVars, row, useVars, inputVars, scanVars, groupVars,
                   journalVars, now>>

First(X) == {x \in X : \A y \in X : x.file <= y.file}

(* The store path of a group, "" for a file outside the store.             *)
StorePath(f) == PathOf[f]

(* Mutant: repairedInGroup is declared outside the loop.                   *)
KeepCount(q) == UNCHANGED grp

ResetCount(q) == grp' = [grp EXCEPT ![q] = 0]

(* The next store path, or the next file outside the store, in the order   *)
(* of the sorted findings.                                                 *)
NextGroup(q) ==
    /\ pc[q] = "group"
    /\ \E x \in First(queue[q]) :
          LET group == {y \in queue[q] : KeyOf(y.file) = KeyOf(x.file)}
          IN /\ work' = [work EXCEPT ![q] = group]
             /\ queue' = [queue EXCEPT ![q] = @ \ group]
             /\ cur' = [cur EXCEPT ![q] = StorePath(x.file)]
             /\ GoTo(q, IF PathOf[x.file] = NoPath THEN "plan" ELSE "ca")
    /\ ResetCount(q)
    /\ UNCHANGED <<storeVars, inputVars, scanVars, nar, fixed, journalVars, now>>

NoMoreGroups(q) ==
    /\ pc[q] = "group"
    /\ queue[q] = {}
    /\ GoTo(q, "unlock")
    /\ UNCHANGED <<storeVars, inputVars, scanVars, groupVars, journalVars, now>>

(* Mutant: a group that was given up is taken up again.                    *)
RetryGroup(q) ==
    /\ GoTo(q, "group")
    /\ queue' = [queue EXCEPT ![q] = @ \cup
                    {x \in Repairable(q) : PathOf[x.file] = cur[q]}]
    /\ work' = [work EXCEPT ![q] = {}]
    /\ UNCHANGED <<cur, nar, grp, fixed>>

(* Every `continue` of the loop over the groups.                           *)
GiveUpGroup(q) ==
    /\ GoTo(q, "group")
    /\ work' = [work EXCEPT ![q] = {}]
    /\ UNCHANGED <<queue, cur, nar, grp, fixed>>

(* What IsContentAddressed may answer: no answer for an invalid path or    *)
(* when the query fails.                                                   *)
CAAnswers(p) ==
    (IF row[p] = NoRow THEN {"error"} ELSE {IF p \in ContentAddressed THEN "yes" ELSE "no"})
    \cup (IF "query" \in Faults THEN {"error"} ELSE {})

(* Mutant: no answer counts as "not content-addressed".                    *)
UnlessCA(answer) == answer # "yes"

OnlyIfNotCA(answer) == answer = "no"

(* A path that is content-addressed, or of which that cannot be            *)
(* determined, is refused whatever the flags.                              *)
CheckCA(q) ==
    /\ pc[q] = "ca"
    /\ \E answer \in CAAnswers(cur[q]) :
       \/ /\ ~OnlyIfNotCA(answer)
          /\ GiveUpGroup(q)
       \/ /\ OnlyIfNotCA(answer)
          /\ GoTo(q, IF cmd[q] = "fix-live" THEN "plan" ELSE "roots")
          /\ UNCHANGED groupVars
    /\ UNCHANGED <<storeVars, inputVars, scanVars, journalVars, now>>

(* Mutant: the referrers are not asked for.                                *)
RootsOnly(p, k) == IF k = "root" THEN {<<p, k>>} \cap inUse ELSE {}

(* What holds the path alive in one way.                                   *)
Blockers(p, k) == {<<p, k>>} \cap inUse

(* One query: a path with what it asks for is left alone without           *)
(* --fix-live, and so is one of which that cannot be determined.           *)
CheckUse(q, k, next) ==
    /\ \/ /\ Blockers(cur[q], k) # {} \/ "query" \in Faults
          /\ GiveUpGroup(q)
       \/ /\ Blockers(cur[q], k) = {}
          /\ GoTo(q, next)
          /\ UNCHANGED groupVars
    /\ UNCHANGED <<storeVars, inputVars, scanVars, journalVars, now>>

(* storePathBlockers: the roots, then the referrers.  The referrers are    *)
(* asked for when there are roots, too, to no effect.                      *)
CheckBlockers(q) ==
    \/ pc[q] = "roots" /\ CheckUse(q, "root", "referrers")
    \/ pc[q] = "referrers" /\ CheckUse(q, "referrer", "plan")

-----------------------------------------------------------------------------
(* The repair of one file: repairFileHardlinkSafe.                         *)

(* planFileRepair: read the file, repair the copy, verify the copy again.  *)
(* Only an ad-hoc stale signature gives a repair.                          *)
Plan(q) ==
    /\ pc[q] = "plan"
    /\ \E x \in First(work[q]) :
          \/ /\ Content(x.file) = "stale"
             /\ GoTo(q, "temp")
             /\ UNCHANGED groupVars
          \/ /\ Content(x.file) # "stale" \/ "read" \in Faults
             /\ GiveUpGroup(q)
    /\ UNCHANGED <<storeVars, inputVars, scanVars, journalVars, now>>

(* replaceFile up to the rename: the temporary file lies in the directory  *)
(* of the file, so inside the store path unless that is the file.          *)
MakeTemp(q) ==
    /\ pc[q] = "temp"
    /\ \E x \in First(work[q]) :
          \/ /\ Exists(x.file)
             /\ CreateTemp(q, x.file)
             /\ \/ GoTo(q, "rename")
                \/ "write" \in Faults /\ GoTo(q, "cleanup")
             /\ UNCHANGED groupVars
          \/ /\ ~Exists(x.file) \/ "temp" \in Faults
             /\ GiveUpGroup(q)
             /\ UNCHANGED fileVars
    /\ UNCHANGED <<row, useVars, lockVars, inputVars, scanVars, journalVars, now>>

(* Mutant: the loop over the group's files ends after the first repair.    *)
CountFirstRepaired(q, x) ==
    /\ work' = [work EXCEPT ![q] = {}]
    /\ grp' = [grp EXCEPT ![q] = @ + 1]
    /\ IF cur[q] # NoPath THEN GoTo(q, "dump") /\ UNCHANGED fixed
       ELSE GoTo(q, "group") /\ fixed' = [fixed EXCEPT ![q] = @ + grp[q] + 1]
    /\ UNCHANGED <<queue, cur, nar>>

(* What the loop over the group's files does once a file is repaired.      *)
CountRepaired(q, x) ==
    LET rest == work[q] \ {x}
    IN /\ work' = [work EXCEPT ![q] = rest]
       /\ grp' = [grp EXCEPT ![q] = @ + 1]
       /\ IF rest # {} THEN GoTo(q, "plan") /\ UNCHANGED fixed
          ELSE IF cur[q] # NoPath THEN GoTo(q, "dump") /\ UNCHANGED fixed
          ELSE GoTo(q, "group") /\ fixed' = [fixed EXCEPT ![q] = @ + grp[q] + 1]
       /\ UNCHANGED <<queue, cur, nar>>

(* Mutant: the journal gets its entries once the whole group is repaired.  *)
JournalCompleteGroup(q, f) ==
    /\ mem' = IF Cardinality(work[q]) > 1 THEN mem
              ELSE [mem EXCEPT ![q] = @ \cup {f} \cup
                       {x.file : x \in {y \in found[q] :
                          y.repairable /\ KeyOf(y.file) = KeyOf(f)}}]
    /\ UNCHANGED <<stamp, journals, unsaved>>

(* The journal entry is added the moment the rename lands.                 *)
JournalFile(q, f) ==
    /\ mem' = [mem EXCEPT ![q] = @ \cup {f}]
    /\ UNCHANGED <<stamp, journals, unsaved>>

Rename(q) ==
    /\ pc[q] = "rename"
    /\ \E x \in First(work[q]) :
          \/ /\ temp[q] = x.file
             /\ RenameOver(q, x.file, "valid")
             /\ JournalFile(q, x.file)
             /\ CountRepaired(q, x)
          \/ /\ temp[q] # x.file \/ "rename" \in Faults
             /\ GoTo(q, "cleanup")
             /\ UNCHANGED <<fileVars, journalVars, groupVars>>
    /\ UNCHANGED <<row, useVars, lockVars, inputVars, scanVars, now>>

(* replaceFile's deferred os.Remove after a failure.                       *)
Cleanup(q) ==
    /\ pc[q] = "cleanup"
    /\ RemoveTemp(q)
    /\ GiveUpGroup(q)
    /\ UNCHANGED <<row, useVars, lockVars, inputVars, scanVars, journalVars, now>>

-----------------------------------------------------------------------------
(* reconcileHash: dump the path, then register the hash of the dump.       *)

(* DumpNAR, and PathInfo, which fails for an invalid path.                 *)
Dump(q) ==
    /\ pc[q] = "dump"
    /\ \/ /\ row[cur[q]] # NoRow
          /\ nar' = [nar EXCEPT ![q] = NarOf(cur[q])]
          /\ GoTo(q, "register")
          /\ UNCHANGED <<queue, work, cur, grp, fixed>>
       \/ /\ row[cur[q]] = NoRow \/ "dump" \in Faults
          /\ GiveUpGroup(q)
    /\ UNCHANGED <<storeVars, inputVars, scanVars, journalVars, now>>

(* Mutant: the error is printed but the loop does not `continue`.          *)
CountAndGiveUp(q) ==
    /\ GoTo(q, "group")
    /\ fixed' = [fixed EXCEPT ![q] = @ + grp[q]]
    /\ UNCHANGED <<queue, work, cur, nar, grp>>

GiveUpRegistration(q) == GiveUpGroup(q)

(* Only a group that is repaired and registered counts as fixed.           *)
Register(q) ==
    /\ pc[q] = "register"
    /\ \/ /\ RegisterValidity(cur[q], nar[q])
          /\ fixed' = [fixed EXCEPT ![q] = @ + grp[q]]
          /\ GoTo(q, "group")
          /\ UNCHANGED <<queue, work, cur, nar, grp>>
       \/ /\ "register" \in Faults
          /\ GiveUpRegistration(q)
          /\ UNCHANGED row
    /\ UNCHANGED <<fileVars, useVars, lockVars, inputVars, scanVars,
                   journalVars, now>>

-----------------------------------------------------------------------------
(* The end of a repair.                                                    *)

Release(q) ==
    /\ pc[q] = "unlock"
    /\ Unlock(q)
    /\ GoTo(q, "journal")
    /\ UNCHANGED <<fileVars, row, useVars, inputVars, scanVars, groupVars,
                   journalVars, now>>

(* Mutant: unrepairable findings do not count against success.             *)
ExitOfRepairable(q) ==
    IF fixed[q] < Cardinality(Repairable(q)) THEN "exit2" ELSE "exit0"

ExitOf(q) == IF fixed[q] < Cardinality(found[q]) THEN "exit2" ELSE "exit0"

(* Mutant: the journal is written on the way to status 0 only.             *)
SaveIfAllFixed(q) ==
    journals' = IF ExitOf(q) = "exit0" THEN [journals EXCEPT ![stamp[q]] = mem[q]]
                ELSE journals

(* os.WriteFile truncates whatever the file of that second held.           *)
SaveJournal(q) == journals' = [journals EXCEPT ![stamp[q]] = mem[q]]

(* A write that fails may have truncated the file already.                 *)
WriteJournal(q) ==
    /\ pc[q] = "journal"
    /\ \/ mem[q] = {} /\ UNCHANGED <<journals, unsaved>>
       \/ mem[q] # {} /\ SaveJournal(q) /\ UNCHANGED unsaved
       \/ /\ mem[q] # {} /\ "journal" \in Faults
          /\ journals' \in {journals, [journals EXCEPT ![stamp[q]] = {}]}
          /\ unsaved' = unsaved \cup {q}
    /\ GoTo(q, ExitOf(q))
    /\ UNCHANGED <<storeVars, inputVars, scanVars, groupVars, mem, stamp, now>>

(* The process is killed, or the machine goes down, between two calls.     *)
Crash(q) ==
    /\ "crash" \in Faults
    /\ Running(q)
    /\ AbandonFiles(q)
    /\ GoTo(q, "crashed")
    /\ UNCHANGED <<inputVars, scanVars, groupVars, journalVars, now>>

-----------------------------------------------------------------------------
Step(q) ==
    \/ Start(q) \/ Walk(q) \/ EndScan(q) \/ Report(q)
    \/ \E f \in Files : ScanFile(q, f)
    \/ Lock(q) \/ NextGroup(q) \/ NoMoreGroups(q)
    \/ CheckCA(q) \/ CheckBlockers(q)
    \/ Plan(q) \/ MakeTemp(q) \/ Rename(q) \/ Cleanup(q)
    \/ Dump(q) \/ Register(q)
    \/ Release(q) \/ WriteJournal(q)

NixUse == /\ \E p \in Paths, k \in NixActs \cap Uses : BeginUse(p, k) \/ EndUse(p, k)
          /\ UNCHANGED doctorVars

NixCollect == /\ "gc" \in NixActs
              /\ BeginGC \/ \E p \in Paths : Collect(p)
              /\ UNCHANGED doctorVars

NixEndGC == /\ "gc" \in NixActs
            /\ EndGC
            /\ UNCHANGED doctorVars

Tick == /\ now < LastSecond
        /\ now' = now + 1
        /\ UNCHANGED <<storeVars, pc, inputVars, scanVars, groupVars, journalVars>>

(* Nothing is left to run: not a deadlock.                                 *)
Terminated == /\ \A q \in Procs : pc[q] \in Ended
              /\ UNCHANGED vars

Next ==
    \/ \E q \in Procs : Step(q) \/ Crash(q)
    \/ NixUse \/ NixCollect \/ NixEndGC \/ Tick
    \/ Terminated

Spec == Init /\ [][Next]_vars

(* The program itself always goes on; a collection ends; a process that    *)
(* waits for the GC lock while collections come and go gets it in the end, *)
(* as the kernel serves the waiters of a flock.                            *)
Fairness == /\ \A q \in Procs : WF_vars(Step(q)) /\ SF_vars(Lock(q))
            /\ WF_vars(NixEndGC)

FairSpec == Spec /\ Fairness

-----------------------------------------------------------------------------
(* What holds between the parts of the state, for the proofs.              *)

InGroup == {"ca", "roots", "referrers", "plan", "temp", "rename", "cleanup",
            "dump", "register"}
Repairing == InGroup \cup {"lock", "group", "unlock", "journal"}

(* Nothing is journaled before the repair phase.                           *)
EarlyIsEmpty == \A q \in Procs : pc[q] \in {"idle", "walk", "scan"} => mem[q] = {}

(* What a repair works on was found by its own scan, within its arguments. *)
WorkIsFound ==
    \A q \in Procs :
        /\ todo[q] \subseteq Scope(q)
        /\ \A x \in found[q] : x.file \in Scope(q)
        /\ queue[q] \subseteq found[q]
        /\ work[q] \subseteq found[q]
        /\ pc[q] \in Repairing => Fixing(q)

(* The group in hand lies in one path, and past the first refusal that     *)
(* path is not content-addressed.                                          *)
GroupIsOnePath ==
    \A q \in Procs : pc[q] \in InGroup =>
        /\ \A x \in work[q] : PathOf[x.file] = cur[q]
        /\ pc[q] # "ca" => cur[q] \notin ContentAddressed

(* Collections and repairs of store paths exclude each other.              *)
LockDiscipline ==
    /\ gcBusy => gcShared = {}
    /\ \A q \in Procs :
          /\ pc[q] \in InGroup \cup {"group"} =>
                q \in gcShared \/ \A x \in queue[q] : PathOf[x.file] = NoPath
          /\ pc[q] \in InGroup /\ cur[q] # NoPath => q \in gcShared
          /\ pc[q] \in {"dump", "register"} => cur[q] # NoPath
          /\ pc[q] = "register" => row[cur[q]] # NoRow /\ nar[q] # NoRow

(* Past a query the path in hand was out of that use at some moment, and a *)
(* temporary file lies in the path in hand.                                *)
WasFree(p, k) == p = NoPath \/ <<p, k>> \in everFree

Consented ==
    /\ (Paths \X Uses) \ inUse \subseteq everFree
    /\ \A q \in Procs :
          /\ pc[q] \in InGroup \ {"ca", "roots"} /\ cmd[q] = "fix" =>
                /\ WasFree(cur[q], "root")
                /\ pc[q] # "referrers" => WasFree(cur[q], "referrer")
          /\ temp[q] \in Files =>
                pc[q] \in {"rename", "cleanup"} /\ PathOf[temp[q]] = cur[q]

(* When invocations do not overlap, one runs at a time, what it is about   *)
(* to replace is what it planned the repair of, and what it registers is   *)
(* what the path holds.                                                    *)
OneAtATime == \A q, r \in Procs : Running(q) /\ Running(r) => q = r

TempHasFile(q) ==
    temp[q] \in Files =>
        /\ Exists(temp[q]) \/ (PathOf[temp[q]] \in FlatPaths /\ q \notin gcShared)
        /\ pc[q] \in {"rename", "cleanup"}

StaleAhead(q) ==
    pc[q] \in {"temp", "rename"} =>
        \A x \in First(work[q]) : Content(x.file) \in {"stale", "absent"}

Undisturbed(q) == TempHasFile(q) /\ StaleAhead(q)

NarIsCurrent(q) ==
    /\ pc[q] \in {"dump", "register"} => cur[q] # NoPath
    /\ pc[q] = "register" => nar[q] # NoRow /\ nar[q].files = NarOf(cur[q]).files

(* Unless a process is killed, no temporary file is left behind or dumped. *)
Tidy ==
    /\ litter = {}
    /\ \A q \in Procs : pc[q] = "register" => ~nar[q].temps

-----------------------------------------------------------------------------
(* Properties.                                                             *)

(* Every variable keeps to its type.                                       *)
ControlTypeOK ==
    /\ pc \in [Procs -> Labels]
    /\ cmd \in [Procs -> Commands]
    /\ argv \in [Procs -> ArgLists]
    /\ now \in Seconds

ScanTypeOK ==
    /\ nth \in [Procs -> Nat]
    /\ todo \in [Procs -> SUBSET Files]
    /\ found \in [Procs -> SUBSET Findings]

GroupTypeOK ==
    /\ queue \in [Procs -> SUBSET Findings]
    /\ work \in [Procs -> SUBSET Findings]
    /\ cur \in [Procs -> Paths \cup {NoPath}]
    /\ nar \in [Procs -> Nars \cup {NoRow}]
    /\ grp \in [Procs -> Nat]
    /\ fixed \in [Procs -> Nat]

JournalTypeOK ==
    /\ mem \in [Procs -> SUBSET Files]
    /\ stamp \in [Procs -> Seconds]
    /\ journals \in [Seconds -> SUBSET Files]
    /\ unsaved \subseteq Procs

TypeOK == StoreTypeOK /\ ControlTypeOK /\ ScanTypeOK /\ GroupTypeOK /\ JournalTypeOK

Replaced(f) == dir[f] \notin {Home[f], NoInode}

(* Another invocation of the same second has used the journal's file: it   *)
(* holds the records of that one, or what a failed write has left of it.   *)
Overwritten(q) ==
    \E r \in Procs \ {q} :
        /\ pc[r] \in Exits /\ mem[r] # {} /\ stamp[r] = stamp[q]
        /\ journals[stamp[q]] = mem[r] \/ r \in unsaved

(* No step of any invocation changes a file of a content-addressed path,   *)
(* and none but a command that repairs changes a file at all: the refusals *)
(* of doctor.Run (doctor.go:503-517) hold up to the rename.  Who writes a  *)
(* file has a temporary file beside it; a process that is idle here and    *)
(* has one is an undo.                                                     *)
Writes(q, f) ==
    /\ temp[q] = f
    /\ pc[q] # "idle" => pc[q] = "rename" /\ Fixing(q) /\ f \in Scope(q)

WritesInScope ==
    \A f \in Files : dir'[f] \notin {dir[f], NoInode} =>
        /\ PathOf[f] \notin ContentAddressed
        /\ \E q \in Procs : Writes(q, f)

RefusalsHold == [][WritesInScope]_vars

(* Without --fix-live no file is replaced in a path that has had a root    *)
(* from the start on, nor in one that has had a referrer: a path in use is *)
(* never changed without consent, unless each query met it at a moment     *)
(* when there was none (doctor.go:519-531, 645-652).                       *)
ConsentHonoured ==
    [][\A q \in Procs, f \in Files :
          /\ pc[q] = "rename" /\ temp[q] = f /\ dir'[f] # dir[f]
          /\ cmd[q] = "fix"
          /\ PathOf[f] # NoPath
          => \A k \in Uses : <<PathOf[f], k>> \in everFree]_vars

(* Whatever fails, the undo record of a file whose bytes were replaced is  *)
(* in the memory of the run that replaced it, and once that run has ended  *)
(* by itself it is in its journal on disk, unless the write of that very   *)
(* journal failed or another run of the same second has used the file      *)
(* since (doctor.go:533-549, 578-586).                                     *)
ReplacedIsJournaled ==
    \A f \in Files : Replaced(f) =>
        \E q \in Procs :
            /\ f \in mem[q]
            /\ pc[q] \in Exits =>
                  f \in journals[stamp[q]] \/ q \in unsaved \/ Overwritten(q)

(* Every write is journaled for byte-exact undo (CONTRIBUTING.md:37): once *)
(* an invocation ended by itself, the journals on disk hold an undo record *)
(* of every file it replaced.                                              *)
EveryWriteIsJournaled ==
    \A q \in Procs : pc[q] \in Exits =>
        mem[q] \subseteq UNION {journals[s] : s \in Seconds}

(* What an invocation counts as fixed it has repaired: no more files than  *)
(* it journaled, so that the comparison with the number of findings that   *)
(* decides the exit status counts each finding once (doctor.go:567, 593).  *)
FixedIsRepaired == \A q \in Procs : fixed[q] <= Cardinality(mem[q])

(* The row of a valid path is not the hash of what it holds.               *)
Mismatched(p) == row[p] \notin {NoRow, NarOf(p)}

(* The database never records a NAR with one of machokeeper's temporary    *)
(* files in it (doctor.go:720-743, 630-640).                               *)
NoTempRecorded == \A p \in Paths : row[p] # NoRow => ~row[p].temps

(* Under the GC lock no valid path loses a file: a repair never re-        *)
(* registers a path that was collected meanwhile (gclock.go:8-15).         *)
ValidPathExists ==
    \A p \in Paths : row[p] # NoRow => \A f \in FilesIn(p) : Exists(f)

(* Exit 0 only when nothing broken remains (doctor.go:588-596): no file in *)
(* the scope of an invocation that ended with 0 is broken, then or later.  *)
ExitZeroMeansSound ==
    \A q \in Procs : pc[q] = "exit0" =>
        \A f \in Scope(q) : Content(f) \in {"valid", "absent"}

(* A run over the whole path has ended with 0.                             *)
Cleared(q, p) == pc[q] = "exit0" /\ FilesIn(p) \subseteq Scope(q)


(* What the contract speaks of: what the files hold, what the database     *)
(* records of that, and the files a repair made valid.                     *)
FileContents == [f \in Files |-> Content(f)]

RecordedContents == [p \in Paths |-> IF row[p] = NoRow THEN NoRow ELSE row[p].files]

MadeValid == {f \in Files : Content(f) = "valid" /\ \E q \in Procs : f \in mem[q]}

(* The system implements the contract: whatever the interleaving of reads, *)
(* temporary files, renames, dumps and registrations, the store goes       *)
(* through atomic repairs, reconciliations and deletions only.             *)
Contract == INSTANCE RepairContract WITH
    content <- FileContents, row <- RecordedContents, repaired <- MadeValid,
    Refused <- ContentAddressed

ImplementsContract == Contract!Spec

(* Whatever runs at once, fails or is killed, with the GC lock or without  *)
(* it, the files change in two ways only: one stale file becomes valid,    *)
(* outside the content-addressed paths and without another name of its     *)
(* inode (doctor.go:720-743), or a whole path is collected.  What was      *)
(* planned before others took their steps never hits a file that holds     *)
(* something else by the time of the rename.  Only a repair that goes on   *)
(* without the lock may bring back a flat path, whose temporary file a     *)
(* collection leaves alone.                                                *)
FileRepaired(f) ==
    /\ PathOf[f] \notin ContentAddressed
    /\ \/ Content(f) = "stale"
       \/ /\ ~Exists(f) /\ PathOf[f] \in FlatPaths
          /\ \E q \in Procs \ gcShared : temp[q] = f
    /\ FileContents' = [FileContents EXCEPT ![f] = "valid"]

PathCollected(p) ==
    FileContents' = [f \in Files |-> IF PathOf[f] = p THEN "absent" ELSE Content(f)]

FilesChangeAtomically ==
    [][\/ UNCHANGED FileContents
       \/ \E f \in Files : FileRepaired(f)
       \/ \E p \in Paths : PathCollected(p)]_vars

(* Every invocation ends, also when it waits for a collection.             *)
Terminates == \A q \in Procs : Running(q) ~> pc[q] \in Ended

(* Every stale ad-hoc file in the scope of a --fix-live run gets repaired  *)
(* or collected, unless its path is content-addressed.                     *)
FixLiveRepairs ==
    \A q \in Procs, f \in Files :
        /\ pc[q] = "idle" /\ cmd[q] = "fix-live"
        /\ f \in Scope(q) /\ PathOf[f] \notin ContentAddressed
        ~> Content(f) # "stale"

=============================================================================
