---------------------------- MODULE MCServiceLoop ----------------------------
(* ServiceLoop for TLC.  The clock moves by one unit per iteration; scan,  *)
(* inactivity and idle-exit intervals are a few units each, in the order   *)
(* the code has them: ScanInterval < IdleExit < Inactivity.                *)
EXTENDS ServiceLoop
=============================================================================
