------------------------------- MODULE MCUndo -------------------------------
(***************************************************************************)
(* An instance of Undo for TLC, over the store of MCDoctor.                *)
(***************************************************************************)
EXTENDS Undo, MCDoctor

CONSTANT u

UsesOfP1 == {{}, {<<p1, "root">>}, {<<p1, "referrer">>}}

(* One invocation of any command.                                          *)
OneOfAny ==
    [bytes : MCBytes,
     cmd : {[q \in Procs |-> IF q = d1 THEN c ELSE "check"] : c \in Commands},
     argv : {[q \in Procs |-> IF q = d1 THEN l ELSE <<>>] : l \in ListsOverlap},
     used : UsesOfP1]

(* Two repairs.                                                            *)
TwoRepairs ==
    [bytes : StoreBytes,
     cmd : [Procs -> {"fix"}],
     argv : {[q \in Procs |-> IF q = u THEN <<"all">> ELSE l[q]] : l \in [Procs \ {u} -> ListsRepair]},
     used : UsesOfP1]

InputsSequence == OneOfAny \cup TwoRepairs

ListsSequence == ListsOverlap \cup ListsRepair \cup {<<>>}

=============================================================================
