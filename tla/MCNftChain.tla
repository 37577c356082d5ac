----------------------------- MODULE MCNftChain ------------------------------
(* Two users behind one address share a port; one of them also had another    *)
(* address.                                                                    *)
EXTENDS NftChain

CONSTANTS ann, bob, near, far

RuleAt(u, i, p) == [user |-> u, ip |-> i, port |-> p, group |-> p]
MCKeys == {RuleAt(ann, near, 22), RuleAt(bob, near, 22), RuleAt(ann, far, 22)}
MCPorts == {22, 80}
=============================================================================
