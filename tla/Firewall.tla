------------------------------ MODULE Firewall -------------------------------
(***************************************************************************)
(* What the rest of the program takes the nftables backend to be (the      *)
(* FirewallBackend and Guard interfaces): a bag of allow rules that grows  *)
(* or shrinks by one rule at a time, and a guard replaced as a whole.      *)
(* The hub's and the agent's modules are written in these terms.           *)
(***************************************************************************)
EXTENDS Naturals

CONSTANTS Keys,  \* allow rules: [user, ip, port, group]
          Ports  \* ports a guard may close

VARIABLES copies, \* copies[k]: rules with key k in effect
          closed, \* the ports closed to sources without an allow rule
          ready   \* there is a chain to put rules in

vars == <<copies, closed, ready>>

Init == /\ copies = [k \in Keys |-> 0]
        /\ closed = {}
        /\ ready \in BOOLEAN

AddRule(k) == /\ ready
              /\ copies' = [copies EXCEPT ![k] = @ + 1]
              /\ UNCHANGED <<closed, ready>>

DeleteRule(k) == /\ copies[k] > 0
                 /\ copies' = [copies EXCEPT ![k] = @ - 1]
                 /\ UNCHANGED <<closed, ready>>

SyncGuard(ports) == /\ ready
                    /\ closed' = ports
                    /\ UNCHANGED <<copies, ready>>

EnsureBase == /\ ready' = TRUE
              /\ UNCHANGED <<copies, closed>>

\* The host's ruleset is flushed.
Flush == /\ copies' = [k \in Keys |-> 0]
         /\ closed' = {}
         /\ ready' = FALSE

Next == \/ \E k \in Keys : AddRule(k) \/ DeleteRule(k)
        \/ \E ports \in SUBSET Ports : SyncGuard(ports)
        \/ EnsureBase
        \/ Flush

Spec == Init /\ [][Next]_vars
=============================================================================
