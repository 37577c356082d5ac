-------------------------------- MODULE MCUfw --------------------------------
(* Two users behind one address, one of them with a second port.               *)
EXTENDS Ufw

CONSTANTS ann, bob, shared, second

MCKeys == {[user |-> ann, match |-> shared], [user |-> bob, match |-> shared],
           [user |-> bob, match |-> second]}
=============================================================================
