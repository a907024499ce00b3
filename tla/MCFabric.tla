------------------------------ MODULE MCFabric ------------------------------
(***************************************************************************)
(* Instances of Fabric for TLC.  A window is named by its first cell and   *)
(* its length.                                                             *)
(***************************************************************************)
EXTENDS Fabric

OneWindow == {<<0, 1>>}
TwoWindows == {<<0, 0>>, <<0, 1>>, <<0, 2>>}
=============================================================================
