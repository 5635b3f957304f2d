---------------------------- MODULE MCTunnelCache ----------------------------
(***************************************************************************)
(* One datasource behind a bastion, dialled twice at most, and another     *)
(* workspace's that needs no tunnel.                                       *)
(***************************************************************************)
EXTENDS TunnelCache, TLC

CONSTANTS direct, first, second   \* keys: no tunnel, and behind the tunnels

MCVia == direct :> 0 @@ first :> 1 @@ second :> 2
=============================================================================
