---------------------------- MODULE MCSsh2Transport ----------------------------
(* Ssh2Transport with one or two rekeys and a few packets of the layer above. *)
EXTENDS Ssh2Transport
================================================================================
