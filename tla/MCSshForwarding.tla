---------------------------- MODULE MCSshForwarding ----------------------------
(* SshForwarding with a few channels, forwarding sockets only or X11 too. *)
EXTENDS SshForwarding

MCSockets == {Fwd}
MCDisplays == {Fwd, X11}
================================================================================
