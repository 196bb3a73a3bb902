------------------------------ MODULE MCDoctor ------------------------------
(***************************************************************************)
(* Instances of Doctor for TLC.  Path p1 holds files 1 and 2, path p2 is   *)
(* file 3; file 4 lies outside the store.  Files 2 and 3 are hardlinks of  *)
(* one inode.                                                              *)
(***************************************************************************)
EXTENDS Doctor, TLC

CONSTANTS p1, p2, d1, d2

MCPathOf == [f \in Files |-> CASE f \in {1, 2} -> p1 [] f = 3 -> p2 [] OTHER -> NoPath]

(* The arguments: one path each, one file of it, the whole store.          *)
MCUnder == [p1 |-> {1, 2} \cap Files, p2 |-> {3} \cap Files,
            f1 |-> {1}, f4 |-> {4} \cap Files, all |-> {1, 2, 3} \cap Files]

MCHome == [f \in Files |-> IF f = 3 THEN 2 ELSE f]

MCProcs == Permutations(Procs)

From(bs, cs, ls, us) ==
    [bytes : bs, cmd : [Procs -> cs], argv : [Procs -> ls], used : us]

ListAll == {<<"all">>}

ListsEach == {<<"p1">>, <<"p2">>}

ListsRepair == {<<"all">>, <<"f1", "p1">>}

(* Lists with files visited twice.                                         *)
ListsOverlap == {<<"all">>, <<"f1", "p1">>, <<"all", "f4">>}

(* File 1 is stale; the inode of 2 and 3 and that of 4 may hold anything a *)
(* case differs on.                                                        *)
MCBytes == {b \in [Inodes -> Classes] :
               /\ b[1] = "stale"
               /\ \A i \in Inodes \ {1, 2, 4} : b[i] = "stale"
               /\ b[4] \in {"stale", "cms"}}

StaleBytes == {[i \in Inodes |-> "stale"]}

(* Besides the repairable contents, one that cannot be repaired.           *)
MixedBytes == {[i \in Inodes |-> IF i = 2 THEN c ELSE "stale"] :
                  c \in {"stale", "unverifiable"}}

StoreBytes == {b \in [Inodes -> Classes] :
               /\ b[1] = "stale"
               /\ b[2] \in {"stale", "valid"}
               /\ \A i \in Inodes \ {1, 2} : b[i] = "stale"}

(* A root at any path, which may come and go; a referrer of path p1.       *)
RootsAndReferrer == {(R \X {"root"}) \cup S : R \in SUBSET Paths,
                                             S \in SUBSET {<<p1, "referrer">>}}

InputsConcurrent == From(MixedBytes, {"fix", "fix-live"}, ListAll, RootsAndReferrer)

InputsLive == From(StaleBytes, {"fix-live"}, ListsEach, {{<<p1, "root">>}})

InputsClobber == From(StoreBytes, {"fix"}, ListsEach, SUBSET ({p1} \X Uses))

InputsLostRace == From(StaleBytes, {"fix"}, ListsEach, {{}})

=============================================================================
