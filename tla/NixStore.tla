------------------------------ MODULE NixStore ------------------------------
(***************************************************************************)
(* The world machokeeper works on: the files of a nix store (and files     *)
(* outside it), the inodes they are linked to, the validity rows of the    *)
(* nix database, the GC lock and what nix itself may do meanwhile.         *)
(*                                                                         *)
(* A file is reduced to what the engine can tell of its bytes.  A NAR, and *)
(* therefore its hash, is reduced to the contents of the files it          *)
(* serialises and whether a temporary file lies among them: two NARs have  *)
(* the same hash exactly when these agree.                                 *)
(***************************************************************************)
EXTENDS Naturals, FiniteSets

CONSTANTS
    Procs,      \* invocations of machokeeper
    Files,      \* regular Mach-O files, numbered in the order of their names
    Paths,      \* top-level store paths
    FlatPaths,  \* those that are a regular file themselves
    NoPath,     \* StorePathOf's answer for a file outside the store
    PathOf,     \* the store path that contains a file
    Inodes,     \* inodes, numbered so that a fresh one can be picked
    NoInode,    \* what a deleted name is linked to
    NoFile,     \* no temporary file
    NoRow       \* the database row of an invalid path

ASSUME FilesAssumption == Files \subseteq Nat /\ NoFile \notin Files
ASSUME InodesAssumption == Inodes \subseteq Nat /\ NoInode \notin Inodes
ASSUME PathsAssumption == /\ NoPath \notin Paths
                          /\ PathOf \in [Files -> Paths \cup {NoPath}]
                          /\ Paths \cap Files = {}
ASSUME FlatAssumption ==
    /\ FlatPaths \subseteq Paths
    /\ \A f, g \in Files : PathOf[f] \in FlatPaths /\ PathOf[g] = PathOf[f] => f = g

(* What keeps a path alive: `nix-store --query --roots` and `--referrers`. *)
Uses == {"root", "referrer"}

VARIABLES
    dir,        \* the inode each file name is linked to
    bytes,      \* the class of the bytes of each inode
    temp,       \* the file beside which each process has a temporary file
    litter,     \* files beside which a crashed process left its temporary file
    row,        \* the NAR whose hash the database records for each path
    inUse,      \* which paths have a GC root, which a referrer
    everFree,   \* history: the same for those that had none at some moment
    gcShared,   \* processes that hold the GC lock shared
    gcBusy      \* a collection holds the GC lock exclusively

fileVars == <<dir, bytes, temp, litter>>
useVars == <<inUse, everFree>>
lockVars == <<gcShared, gcBusy>>
storeVars == <<dir, bytes, temp, litter, row, inUse, everFree, gcShared, gcBusy>>

(* What engine.Detect, engine.Check and a trial engine.Repair tell apart:  *)
(* ad-hoc and stale, valid, stale with a CMS signature, and ad-hoc but     *)
(* malformed beyond what a repair can rewrite.                             *)
Classes == {"stale", "valid", "cms", "unverifiable"}
Contents == Classes \cup {"absent"}

-----------------------------------------------------------------------------
(* Reading the store.                                                      *)

Content(f) == IF dir[f] = NoInode THEN "absent" ELSE bytes[dir[f]]

Exists(f) == dir[f] # NoInode

FilesIn(p) == {f \in Files : PathOf[f] = p}

(* The store path that the directory of a file, and so its temporary file, *)
(* lies in: none if the path is the file, beside which it then is.         *)
TempPath(f) == IF PathOf[f] \in FlatPaths THEN NoPath ELSE PathOf[f]

TempIn(p) == \/ \E q \in Procs : temp[q] # NoFile /\ TempPath(temp[q]) = p
             \/ \E f \in litter : TempPath(f) = p

Nars == [files : [Files -> Contents], temps : BOOLEAN]

ASSUME RowAssumption == NoRow \notin Nars /\ NoRow \notin [Files -> Contents]

(* What nix-store --dump serialises: the whole directory, whatever is in it. *)
NarOf(p) ==
    [files |-> [f \in Files |-> IF PathOf[f] = p THEN Content(f) ELSE "absent"],
     temps |-> TempIn(p)]

Unlinked(i) == \A f \in Files : dir[f] # i

(* The lowest inode no name is linked to.                                  *)
FreshInode(i) == /\ i \in Inodes
                 /\ Unlinked(i)
                 /\ \A j \in Inodes : Unlinked(j) => i <= j

-----------------------------------------------------------------------------
(* What a repair does to the file system.                                  *)

CreateTemp(q, f) ==
    /\ temp' = [temp EXCEPT ![q] = f]
    /\ UNCHANGED <<dir, bytes, litter>>

(* Mutant: the deferred os.Remove is missing.                              *)
KeepTemp(q) == UNCHANGED fileVars

RemoveTemp(q) ==
    /\ temp' = [temp EXCEPT ![q] = NoFile]
    /\ UNCHANGED <<dir, bytes, litter>>

(* Mutant: the repaired bytes are written through the old inode.           *)
WriteInPlace(q, f, c) ==
    /\ bytes' = [bytes EXCEPT ![dir[f]] = c]
    /\ temp' = [temp EXCEPT ![q] = NoFile]
    /\ UNCHANGED <<dir, litter>>

(* rename(2) of the temporary file over the name: the name now leads to    *)
(* the temporary file's inode, other names keep theirs.                    *)
RenameOver(q, f, c) ==
    \E i \in Inodes :
        /\ FreshInode(i)
        /\ dir' = [dir EXCEPT ![f] = i]
        /\ bytes' = [bytes EXCEPT ![i] = c]
        /\ temp' = [temp EXCEPT ![q] = NoFile]
        /\ UNCHANGED litter

(* What the file system and the kernel keep of a process that died: its    *)
(* temporary file stays, its flock does not.                               *)
AbandonFiles(q) ==
    /\ litter' = IF temp[q] = NoFile THEN litter ELSE litter \cup {temp[q]}
    /\ temp' = [temp EXCEPT ![q] = NoFile]
    /\ gcShared' = gcShared \ {q}
    /\ UNCHANGED <<dir, bytes, row, gcBusy, useVars>>

-----------------------------------------------------------------------------
(* The database and the GC lock as machokeeper uses them.                  *)

RegisterValidity(p, n) == row' = [row EXCEPT ![p] = n]

(* Mutant: the shared lock is taken as if the exclusive one did not exist. *)
LockRegardless(q) == gcShared' = gcShared \cup {q} /\ UNCHANGED gcBusy

(* flock(LOCK_SH) blocks while a collection holds the lock.                *)
LockShared(q) ==
    /\ ~gcBusy
    /\ gcShared' = gcShared \cup {q}
    /\ UNCHANGED gcBusy

Unlock(q) == gcShared' = gcShared \ {q} /\ UNCHANGED gcBusy

-----------------------------------------------------------------------------
(* What nix does meanwhile.                                                *)

(* A path gets a root or a referrer.  Substituting or building something   *)
(* that refers to it needs the path valid.                                 *)
BeginUse(p, k) ==
    /\ <<p, k>> \notin inUse
    /\ row[p] # NoRow
    /\ inUse' = inUse \cup {<<p, k>>}
    /\ UNCHANGED <<fileVars, row, everFree, lockVars>>

EndUse(p, k) ==
    /\ <<p, k>> \in inUse
    /\ inUse' = inUse \ {<<p, k>>}
    /\ everFree' = everFree \cup {<<p, k>>}
    /\ UNCHANGED <<fileVars, row, lockVars>>

BeginGC ==
    /\ ~gcBusy
    /\ gcShared = {}
    /\ gcBusy' = TRUE
    /\ UNCHANGED <<fileVars, row, useVars, gcShared>>

(* A collection deletes a dead path: its files, what else lies in its      *)
(* directory, and its row.                                                 *)
Collect(p) ==
    /\ gcBusy
    /\ \A k \in Uses : <<p, k>> \notin inUse
    /\ row[p] # NoRow
    /\ dir' = [f \in Files |-> IF PathOf[f] = p THEN NoInode ELSE dir[f]]
    /\ litter' = {f \in litter : TempPath(f) # p}
    /\ temp' = [q \in Procs |-> IF temp[q] # NoFile /\ TempPath(temp[q]) = p
                                THEN NoFile ELSE temp[q]]
    /\ row' = [row EXCEPT ![p] = NoRow]
    /\ UNCHANGED <<bytes, useVars, lockVars>>

EndGC ==
    /\ gcBusy
    /\ gcBusy' = FALSE
    /\ UNCHANGED <<fileVars, row, useVars, gcShared>>

-----------------------------------------------------------------------------
StoreTypeOK ==
    /\ dir \in [Files -> Inodes \cup {NoInode}]
    /\ bytes \in [Inodes -> Classes]
    /\ temp \in [Procs -> Files \cup {NoFile}]
    /\ litter \subseteq Files
    /\ row \in [Paths -> Nars \cup {NoRow}]
    /\ inUse \subseteq Paths \X Uses
    /\ everFree \subseteq Paths \X Uses
    /\ gcShared \subseteq Procs
    /\ gcBusy \in BOOLEAN

=============================================================================
