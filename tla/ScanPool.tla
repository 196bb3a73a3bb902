------------------------------ MODULE ScanPool ------------------------------
(***************************************************************************)
(* walkParallel of internal/doctor: one goroutine walks the tree and sends *)
(* file names into a bounded channel, workers take names, scan the files   *)
(* and send findings into a second bounded channel, one goroutine waits    *)
(* for the workers to close that channel, and the caller receives until it *)
(* is closed.  Files are numbered in the order of the walk.                *)
(***************************************************************************)
EXTENDS Naturals, Sequences, FiniteSets, Functions

CONSTANTS
    Workers,        \* the pool: scanConfig.workers() of them
    LastFile,       \* the number of regular files in the tree
    QueueFactor     \* room in the files channel for each worker, 4 in the code

ASSUME PoolAssumption == /\ IsFiniteSet(Workers) /\ Workers # {}
                         /\ LastFile \in Nat
                         /\ QueueFactor \in Nat \ {0}

VARIABLES
    root,           \* what os.Lstat says of the root
    broken,         \* the files scanFile has a finding about
    walker,         \* where the walking goroutine is
    listed,         \* the last file it sent
    walkErr,        \* the variable it shares with the caller
    files,          \* the channel of names
    filesOpen,
    worker,         \* where each worker is
    hold,           \* the file it scans, or whose finding it sends
    results,        \* the channel of findings
    resultsOpen,
    visited,        \* findings the caller was given
    answer          \* what the caller was returned

walkVars == <<walker, listed, walkErr>>
channelVars == <<files, filesOpen, results, resultsOpen>>
workerVars == <<worker, hold>>
callerVars == <<visited, answer>>
inputVars == <<root, broken>>
vars == <<root, broken, walker, listed, walkErr, files, filesOpen, worker, hold,
          results, resultsOpen, visited, answer>>

Roots == {"missing", "regular", "directory", "other"}
FilesCap == QueueFactor * Cardinality(Workers)
ResultsCap == Cardinality(Workers)

(* A root that is neither a file nor a directory, a symlink say, is not    *)
(* followed: nothing is listed.                                            *)
ToList == CASE root = "directory" -> LastFile
            [] root = "regular" -> IF LastFile = 0 THEN 0 ELSE 1
            [] OTHER -> 0

Init ==
    /\ root \in Roots
    /\ broken \in SUBSET (1..LastFile)
    /\ walker = "lstat"
    /\ listed = 0
    /\ walkErr = FALSE
    /\ files = <<>>
    /\ filesOpen = TRUE
    /\ worker = [w \in Workers |-> "receive"]
    /\ hold = [w \in Workers |-> 0]
    /\ results = <<>>
    /\ resultsOpen = TRUE
    /\ visited = <<>>
    /\ answer = "none"

-----------------------------------------------------------------------------
(* The walking goroutine.                                                  *)

(* Mutant: the early return leaves the channel open.                       *)
LstatNoClose ==
    /\ walker = "lstat"
    /\ walkErr' = (root = "missing")
    /\ walker' = IF root = "missing" THEN "done" ELSE "walk"
    /\ UNCHANGED <<inputVars, listed, channelVars, workerVars, callerVars>>

Lstat ==
    /\ walker = "lstat"
    /\ walkErr' = (root = "missing")
    /\ walker' = IF root = "missing" THEN "close" ELSE "walk"
    /\ UNCHANGED <<inputVars, listed, channelVars, workerVars, callerVars>>

(* files <- p blocks while the channel is full.                            *)
List ==
    /\ walker = "walk"
    /\ listed < ToList
    /\ Len(files) < FilesCap
    /\ listed' = listed + 1
    /\ files' = Append(files, listed + 1)
    /\ UNCHANGED <<inputVars, walker, walkErr, filesOpen, results, resultsOpen,
                   workerVars, callerVars>>

EndWalk ==
    /\ walker = "walk"
    /\ listed = ToList
    /\ walker' = "close"
    /\ UNCHANGED <<inputVars, listed, walkErr, channelVars, workerVars, callerVars>>

(* The deferred close(files).                                              *)
CloseFiles ==
    /\ walker = "close"
    /\ walker' = "done"
    /\ filesOpen' = FALSE
    /\ UNCHANGED <<inputVars, listed, walkErr, files, results, resultsOpen,
                   workerVars, callerVars>>

-----------------------------------------------------------------------------
(* The workers.                                                            *)

Receive(w) ==
    /\ worker[w] = "receive"
    /\ files # <<>>
    /\ files' = Tail(files)
    /\ hold' = [hold EXCEPT ![w] = Head(files)]
    /\ worker' = [worker EXCEPT ![w] = "scan"]
    /\ UNCHANGED <<inputVars, walkVars, filesOpen, results, resultsOpen, callerVars>>

Scan(w) ==
    /\ worker[w] = "scan"
    /\ worker' = [worker EXCEPT ![w] = IF hold[w] \in broken THEN "send" ELSE "receive"]
    /\ UNCHANGED <<inputVars, walkVars, channelVars, hold, callerVars>>

(* Mutant: a full channel makes the worker drop its finding.               *)
SendOrDrop(w) ==
    /\ worker[w] = "send"
    /\ results' = IF Len(results) < ResultsCap THEN Append(results, hold[w]) ELSE results
    /\ worker' = [worker EXCEPT ![w] = "receive"]
    /\ UNCHANGED <<inputVars, walkVars, files, filesOpen, resultsOpen, hold, callerVars>>

(* Mutant: the channel takes findings without a limit.                     *)
SendUnbounded(w) ==
    /\ worker[w] = "send"
    /\ results' = Append(results, hold[w])
    /\ worker' = [worker EXCEPT ![w] = "receive"]
    /\ UNCHANGED <<inputVars, walkVars, files, filesOpen, resultsOpen, hold, callerVars>>

(* results <- f blocks while the channel is full.                          *)
Send(w) ==
    /\ worker[w] = "send"
    /\ Len(results) < ResultsCap
    /\ results' = Append(results, hold[w])
    /\ worker' = [worker EXCEPT ![w] = "receive"]
    /\ UNCHANGED <<inputVars, walkVars, files, filesOpen, resultsOpen, hold, callerVars>>

(* range files ends when the channel is closed and empty.                  *)
EndWorker(w) ==
    /\ worker[w] = "receive"
    /\ files = <<>>
    /\ ~filesOpen
    /\ worker' = [worker EXCEPT ![w] = "done"]
    /\ UNCHANGED <<inputVars, walkVars, channelVars, hold, callerVars>>

-----------------------------------------------------------------------------
(* The closer and the caller.                                              *)

(* Mutant: the results are closed when the names are, not when the workers *)
(* are done.                                                               *)
CloseResultsEarly ==
    /\ resultsOpen
    /\ ~filesOpen /\ files = <<>>
    /\ resultsOpen' = FALSE
    /\ UNCHANGED <<inputVars, walkVars, files, filesOpen, results, workerVars, callerVars>>

(* wg.Wait, then close(results).                                           *)
CloseResults ==
    /\ resultsOpen
    /\ \A w \in Workers : worker[w] = "done"
    /\ resultsOpen' = FALSE
    /\ UNCHANGED <<inputVars, walkVars, files, filesOpen, results, workerVars, callerVars>>

Visit ==
    /\ answer = "none"
    /\ results # <<>>
    /\ visited' = Append(visited, Head(results))
    /\ results' = Tail(results)
    /\ UNCHANGED <<inputVars, walkVars, files, filesOpen, resultsOpen, workerVars, answer>>

Return ==
    /\ answer = "none"
    /\ results = <<>>
    /\ ~resultsOpen
    /\ answer' = IF walkErr THEN "error" ELSE "ok"
    /\ UNCHANGED <<inputVars, walkVars, channelVars, workerVars, visited>>

-----------------------------------------------------------------------------
Walker == Lstat \/ List \/ EndWalk \/ CloseFiles
Worker(w) == Receive(w) \/ Scan(w) \/ Send(w) \/ EndWorker(w)
Caller == Visit \/ Return

(* The caller has its answer and every goroutine has ended.                *)
Terminated == /\ answer # "none"
              /\ UNCHANGED vars

Next == Walker \/ (\E w \in Workers : Worker(w)) \/ CloseResults \/ Caller \/ Terminated

(* The Go scheduler runs every goroutine that is not blocked.              *)
Fairness == /\ WF_vars(Walker)
            /\ \A w \in Workers : WF_vars(Worker(w))
            /\ WF_vars(CloseResults)
            /\ WF_vars(Caller)

Spec == Init /\ [][Next]_vars
FairSpec == Spec /\ Fairness

-----------------------------------------------------------------------------
(* What holds between the parts of the state, for the proofs.              *)

(* Who has ended, and what that means for the channels.                    *)
Closing ==
    /\ filesOpen = (walker # "done")
    /\ listed <= ToList
    /\ walker \in {"close", "done"} => listed = ToList
    /\ walkErr = (root = "missing" /\ walker # "lstat")
    /\ (\E w \in Workers : worker[w] = "done") => ~filesOpen /\ files = <<>>
    /\ ~resultsOpen => \A w \in Workers : worker[w] = "done"
    /\ answer # "none" => ~resultsOpen

Busy == {w \in Workers : worker[w] \in {"scan", "send"}}

(* The names that left the channel are 1..Taken, those in it the next ones. *)
Taken == listed - Len(files)

Distinct(s) == \A j, k \in 1..Len(s) : s[j] = s[k] => j = k

(* Each broken file whose name was taken is in one place: with a worker,   *)
(* in the channel of findings, or with the caller.                         *)
Delivery ==
    /\ Len(files) <= listed
    /\ \A k \in 1..Len(files) : files[k] = Taken + k
    /\ \A w \in Busy :
          /\ hold[w] \in 1..Taken
          /\ hold[w] \notin Range(results) \cup Range(visited)
          /\ worker[w] = "send" => hold[w] \in broken
          /\ \A v \in Busy \ {w} : hold[v] # hold[w]
    /\ Distinct(results)
    /\ Range(results) \subseteq broken \cap (1..Taken)
    /\ Range(visited) \subseteq 1..Taken
    /\ Range(results) \cap Range(visited) = {}
    /\ \A f \in broken \cap (1..Taken) :
          f \in Range(results) \cup Range(visited) \/ \E w \in Busy : hold[w] = f

-----------------------------------------------------------------------------
(* Properties.                                                             *)

(* Every variable keeps to its type, and no channel holds more than its    *)
(* capacity.                                                               *)
TypeOK ==
    /\ root \in Roots
    /\ broken \subseteq 1..LastFile
    /\ walker \in {"lstat", "walk", "close", "done"}
    /\ listed \in 0..LastFile
    /\ walkErr \in BOOLEAN
    /\ files \in Seq(1..LastFile) /\ Len(files) <= FilesCap
    /\ filesOpen \in BOOLEAN
    /\ worker \in [Workers -> {"receive", "scan", "send", "done"}]
    /\ hold \in [Workers -> 0..LastFile]
    /\ results \in Seq(1..LastFile) /\ Len(results) <= ResultsCap
    /\ resultsOpen \in BOOLEAN
    /\ visited \in Seq(1..LastFile)
    /\ answer \in {"none", "ok", "error"}

(* Nobody sends on a closed channel, which would panic: while the walker   *)
(* can still send a name and while a worker can still send a finding, the  *)
(* channel is open (doctor.go:318-327, 331).                               *)
NoSendOnClosed ==
    /\ walker \in {"lstat", "walk"} => filesOpen
    /\ (\E w \in Workers : worker[w] \in {"scan", "send"}) => resultsOpen

(* When the caller has its answer, no goroutine of the scan is left that   *)
(* could still read a file or write walkErr: the next argument's scan and  *)
(* the repair phase start alone (doctor.go:324-327, 355-358).              *)
NothingRunsOn ==
    answer # "none" => /\ walker = "done"
                       /\ \A w \in Workers : worker[w] = "done"

(* The pool hands every broken file over exactly once and then answers,    *)
(* with an error exactly when the root could not be examined.              *)
Contract == INSTANCE ScanContract WITH
    left <- (broken \cap 1..ToList) \ Range(visited),
    reported <- visited,
    failed <- (root = "missing")

ImplementsContract == Contract!Spec

(* The pipeline never gets stuck, whatever the number of files, findings   *)
(* and workers: the caller gets its answer.                                *)
Answers == <>(answer # "none")

=============================================================================
