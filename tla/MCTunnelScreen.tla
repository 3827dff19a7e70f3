---------------------------- MODULE MCTunnelScreen ----------------------------
(* Small instances of TunnelScreen for TLC. *)
EXTENDS TunnelScreen

===============================================================================
