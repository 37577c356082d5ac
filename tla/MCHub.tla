------------------------------- MODULE MCHub -------------------------------
(* Small instances of Hub.  Each scenario names the ids that share a name.   *)
EXTENDS Hub, TLC

CONSTANTS u1, u2, g1, g2

OneUser == u1 :> "alice"
OneGroup == g1 :> "web"
OnePort == g1 :> 80
\* One username, deleted and created again.
OneName == u1 :> "alice" @@ u2 :> "alice"
\* Two users.
TwoNames == u1 :> "alice" @@ u2 :> "bob"

\* Two groups.
TwoGroupNames == g1 :> "web" @@ g2 :> "ssh"
TwoPorts == g1 :> 80 @@ g2 :> 22
=============================================================================
