----------------------------- MODULE MCSshWindow -------------------------------
(* SshWindow with windows of a few bytes.  Every kind of connection is an initial
   state: shared and simple, with and without an initial fixed window, and with each
   workaround for a broken far end. *)
EXTENDS SshWindow

MCSetups == {s \in [simple : BOOLEAN, fixedwin : {0, 1}, bug_maxpkt : BOOLEAN, bug_winadj : BOOLEAN] :
               s.simple => s.fixedwin = 0}
================================================================================
