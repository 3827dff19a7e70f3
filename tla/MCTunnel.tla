------------------------------- MODULE MCTunnel -------------------------------
(* Small instances of Tunnel for TLC. *)
EXTENDS Tunnel

===============================================================================
