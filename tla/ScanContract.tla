---------------------------- MODULE ScanContract ----------------------------
(***************************************************************************)
(* What a scan promises its caller: it hands over every broken file under  *)
(* the root once, one at a time, and answers when there is none left; it   *)
(* answers with an error exactly when the root could not be examined.      *)
(* The scan of Doctor (Walk, ScanFile and EndScan) assumes no more.        *)
(***************************************************************************)
EXTENDS Sequences

VARIABLES
    left,       \* broken files that were not handed over yet
    reported,   \* those that were, in order
    failed,     \* the root cannot be examined
    answer      \* "none" until the scan returns

scanContractVars == <<left, reported, failed, answer>>

Init == /\ reported = <<>>
        /\ failed \in BOOLEAN
        /\ failed => left = {}
        /\ answer = "none"

HandOver(f) == /\ answer = "none"
               /\ left' = left \ {f}
               /\ reported' = Append(reported, f)
               /\ UNCHANGED <<failed, answer>>

Answer == /\ answer = "none"
          /\ left = {}
          /\ answer' = IF failed THEN "error" ELSE "ok"
          /\ UNCHANGED <<left, reported, failed>>

Next == Answer \/ \E f \in left : HandOver(f)

Spec == Init /\ [][Next]_scanContractVars

=============================================================================
