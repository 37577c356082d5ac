------------------------------ MODULE MCHubCli ------------------------------
(* Small instances of HubCli. *)
EXTENDS HubCli, TLC

CONSTANTS u1, g1

OneUser == u1 :> "alice"
OneGroup == g1 :> "web"
OnePort == g1 :> 80
=============================================================================
