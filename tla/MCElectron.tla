----------------------------- MODULE MCElectron -----------------------------
(* Instance of Electron for TLC. *)
EXTENDS Electron
=============================================================================
