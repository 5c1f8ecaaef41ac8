------------------------------ MODULE MCLobby ------------------------------
(* Two gateways, the groups of one around the group of the other. *)
EXTENDS Lobby, TLC

CONSTANTS a, b

MCGatewayOf == 1 :> a @@ 2 :> b @@ 3 :> a
=============================================================================
