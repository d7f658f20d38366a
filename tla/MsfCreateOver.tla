---------------------------- MODULE MsfCreateOver ----------------------------
(***************************************************************************)
(* Msf::create over an existing MSF.  File::options() in open.rs asks for  *)
(* read, write and create but not for truncate, so the old pages, with     *)
(* their header, are still there, while the new editor takes every page    *)
(* from 3 on to be unused.                                                 *)
(***************************************************************************)
EXTENDS Msf

CreateOver == stage = "closed" /\ HasHeader /\ NewEditor

OverNext == CreateOver \/ Next

OverSpec == Init /\ [][OverNext]_vars
=============================================================================
