---------------------------- MODULE MCSshSession ----------------------------
(* SshSession with the combinations of client settings that differ in what *)
(* is pipelined: a fallback command is tried with a pty request before it. *)
EXTENDS SshSession

MCSetups == {s \in Setup : s.fallback => s.pty}
=============================================================================
