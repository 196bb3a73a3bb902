---------------------------- MODULE MCActivation ----------------------------
(***************************************************************************)
(* An instance of Activation for TLC: a generation with a program and its  *)
(* library, two outputs of one derivation, and a generation with that      *)
(* library and a manual.                                                   *)
(***************************************************************************)
EXTENDS Activation, TLC

CONSTANTS g1, g2, tool, lib, man

MCReferences == g1 :> {tool} @@ g2 :> {lib, man} @@ tool :> {lib} @@ lib :> {} @@ man :> {}

MCDerivations == {{g1}, {g2}, {tool, lib}, {man}}

=============================================================================
