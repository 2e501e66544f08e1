------------------------------- MODULE MCToplevel -------------------------------
(* Toplevel with one object, two timers and a clock short enough to wrap.           *)
EXTENDS Toplevel
=================================================================================
