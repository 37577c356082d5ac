------------------------------ MODULE MCAgent ------------------------------
(* Small instances of Agent. *)
EXTENDS Agent, TLC

NodeConfig(guarded, listed) == [guard |-> guarded, allowed |-> listed]

\* The list is narrowed, widened or dropped, or the guard switched off, at a
\* restart.
Reconfigured == {NodeConfig(TRUE, {80, 22}), NodeConfig(TRUE, {80}),
                 NodeConfig(FALSE, {80, 22}), NodeConfig(TRUE, {})}
\* One listed port, guarded.
Listed == {NodeConfig(TRUE, {80})}
=============================================================================
