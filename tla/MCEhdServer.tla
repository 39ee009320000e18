---------------------------- MODULE MCEhdServer -----------------------------
(***************************************************************************)
(* Small instances of EhdServer for TLC.  Descriptor 0 is the listening    *)
(* socket; 1 and up are free at the start.                                 *)
(***************************************************************************)
EXTENDS EhdServer

OneListener == {0}
=============================================================================
