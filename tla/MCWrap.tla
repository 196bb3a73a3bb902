------------------------------ MODULE MCWrap --------------------------------
(***************************************************************************)
(* An instance of Wrap for TLC: a shell and the library it refers to, and  *)
(* a plugin with no references.                                            *)
(***************************************************************************)
EXTENDS Wrap, TLC

CONSTANTS shell, lib, plugin

MCReferences == shell :> {lib} @@ lib :> {} @@ plugin :> {}

=============================================================================
