----------------------------- MODULE MCRecorder -----------------------------
(***************************************************************************)
(* Small instances of Recorder for TLC: a plain and a hijacked handler and *)
(* a buffer of one event, so that drops, late calls and a drain that is    *)
(* cut off all happen.                                                     *)
(***************************************************************************)
EXTENDS Recorder
=============================================================================
