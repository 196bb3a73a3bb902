--------------------------- MODULE RepairContract ---------------------------
(***************************************************************************)
(* What machokeeper promises of a store, with nothing of how it does it: a *)
(* file changes all at once, only from a stale ad-hoc signature to a valid *)
(* one, never together with another file and never in a refused path; and  *)
(* the database row of a path is only ever set to what the path holds at   *)
(* that moment.  An undo turns a repaired file back, and nothing else.  A  *)
(* garbage collection may delete a whole path.                             *)
(***************************************************************************)
CONSTANTS
    Files, Paths, NoPath, PathOf,
    NoRow,      \* the row of an invalid path
    Refused     \* paths whose files must not be repaired

VARIABLES
    content,    \* what each file holds
    row,        \* what the database records of each path
    repaired    \* the files that were repaired and not turned back

contractVars == <<content, row, repaired>>

Classes == {"stale", "valid", "cms", "unverifiable"}

Recorded(p) == [f \in Files |-> IF PathOf[f] = p THEN content[f] ELSE "absent"]

Init == /\ content \in [Files -> Classes]
        /\ row = [p \in Paths |-> Recorded(p)]
        /\ repaired = {}

Repair(f) == /\ content[f] = "stale"
             /\ PathOf[f] \notin Refused
             /\ content' = [content EXCEPT ![f] = "valid"]
             /\ repaired' = repaired \cup {f}
             /\ UNCHANGED row

Restore(f) == /\ f \in repaired
              /\ content' = [content EXCEPT ![f] = "stale"]
              /\ repaired' = repaired \ {f}
              /\ UNCHANGED row

Reconcile(p) == /\ row[p] # NoRow
                /\ row' = [row EXCEPT ![p] = Recorded(p)]
                /\ UNCHANGED <<content, repaired>>

Delete(p) == /\ content' = [f \in Files |-> IF PathOf[f] = p THEN "absent" ELSE content[f]]
             /\ row' = [row EXCEPT ![p] = NoRow]
             /\ repaired' = {f \in repaired : PathOf[f] # p}

Next == \/ \E f \in Files : Repair(f) \/ Restore(f)
        \/ \E p \in Paths : Reconcile(p) \/ Delete(p)

Spec == Init /\ [][Next]_contractVars

=============================================================================
