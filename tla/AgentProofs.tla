----------------------------- MODULE AgentProofs -----------------------------
(***************************************************************************)
(* Theorems about Agent for every set of users, groups, ports, addresses   *)
(* and configurations, and every combination of failures.                  *)
(***************************************************************************)
EXTENDS Agent, TLAPS

-----------------------------------------------------------------------------
(* The guard, and what the agent remembers of it *)

\* What the agent guards is a set of listed ports, never None.
LEMMA GuardedByListed ==
    ASSUME NEW ports, conf \in Configs
    PROVE  /\ GuardedBy(ports) \subseteq conf.allowed
           /\ GuardedBy(ports) # None
<1>1. conf.allowed \subseteq Ports
  BY ConfigsAssumption
<1>2. GuardedBy(ports) \subseteq conf.allowed
  BY DEF GuardedBy
<1>3. GuardedBy(ports) \in SUBSET Ports
  BY <1>1, <1>2
<1>. QED BY <1>2, <1>3, NoneIsNothing

\* GuardSurvives is not inductive: it says nothing about the moments in which no
\* pull is pending.  Between them the guard of the last answer is in memory
\* while the agent runs and on disk while it does not.
Remembered ==
    /\ conf \in Configs
    /\ saved \in BOOLEAN /\ lost \in BOOLEAN
    /\ pc = "down" => ~saved
    /\ pc = "save" => known # None
    /\ ~lost /\ applied # None => IF pc = "down" THEN file = applied ELSE known = applied

InForce == Pulling /\ ~broken /\ known # None => guard = GuardedBy(known)

GuardInv == SavedIsOnDisk /\ Remembered /\ InForce

\* At the start nothing is guarded, known or on disk.
LEMMA GuardInit == ASSUME Init PROVE GuardInv
BY DEF Init, GuardInv, SavedIsOnDisk, Remembered, InForce, Pulling

\* Every step of the hub, the agent and the host preserves GuardInv.
LEMMA GuardStep ==
    ASSUME GuardInv, [Next]_vars
    PROVE  GuardInv'
<1> USE DEF GuardInv, SavedIsOnDisk, Remembered, InForce, Pulling
<1>1. CASE HubNext
  <2>1. UNCHANGED <<guard, file, conf, pc, known, saved, applied, lost, broken>>
    BY <1>1 DEF HubNext, HubChange, chain, setup, memory, SetAddress, SetEnabled,
                AddGroupTarget, RemoveGroupTarget, CreateNode, DeleteNode, UpgradeHub
  <2>. QED BY <2>1 DEF GuardedBy
<1>2. CASE AgentRun
  <2>1. PICK c \in Configs, t \in 1..issued : Run(c, t)
    BY <1>2 DEF AgentRun
  <2>2. /\ pc = "down" /\ pc' = "begin" /\ conf' = c
        /\ UNCHANGED <<file, applied>>
    BY <2>1 DEF Run
  <2>3. CASE known' = file /\ saved' = (file # None) /\ lost' = lost
    BY <2>2, <2>3
  <2>4. CASE known' = None /\ saved' = FALSE /\ lost' = (lost \/ file # None)
    BY <2>2, <2>4
  <2>. QED BY <2>1, <2>3, <2>4 DEF Run
<1>3. CASE ReapplyGuard
  <2>1. /\ pc = "begin" /\ pc' = "auth"
        /\ UNCHANGED <<file, conf, known, saved, applied, lost>>
    BY <1>3 DEF ReapplyGuard, setup, memory
  <2>2. known # None /\ ~broken' => guard' = GuardedBy(known)
    BY <1>3 DEF ReapplyGuard, SyncGuardFails
  <2>3. GuardedBy(known)' = GuardedBy(known)
    BY <2>1 DEF GuardedBy
  <2>. QED BY <2>1, <2>2, <2>3
<1>4. CASE AuthNode \/ ReadRules \/ ReadPorts
  <2>1. /\ Pulling /\ pc \notin {"down", "save"} /\ pc' \notin {"down", "save"}
        /\ UNCHANGED <<guard, file, conf, known, saved, applied, lost, broken>>
    BY <1>4 DEF AuthNode, ReadRules, ReadPorts, chain, setup, memory, history
  <2>. QED BY <2>1 DEF GuardedBy
<1>5. CASE Rejected \/ ApplyRules \/ Sleep \/ PullFails
  <2>1. /\ pc \notin {"down", "save"} /\ pc' \in {"end", "guard", "begin"}
        /\ UNCHANGED <<file, conf, known, saved, applied, lost>>
    BY <1>5 DEF Rejected, ApplyRules, Sleep, PullFails, setup, memory
  <2>. QED BY <2>1
<1>6. CASE ApplyGuard
  <2> DEFINE ports == IF gotPorts = None THEN {} ELSE GuardedBy(gotPorts)
  <2>1. pc = "guard" /\ pc' \in {"end", "save"} /\ UNCHANGED <<file, conf>>
    BY <1>6 DEF ApplyGuard, setup
  <2>2. CASE pc' = "end" /\ UNCHANGED <<known, saved, applied, lost>>
    BY <2>1, <2>2
  <2>3. CASE /\ known' = ports /\ saved' = (saved /\ known = ports)
             /\ applied' = ports /\ lost' = FALSE /\ pc' = "save"
    <3>1. ports # None
      BY GuardedByListed, NoneIsNothing
    <3>2. saved' => file' = known' /\ known' # None
      BY <2>1, <2>3, <3>1
    <3>. QED BY <2>1, <2>3, <3>1, <3>2
  <2>. QED BY <1>6, <2>2, <2>3 DEF ApplyGuard, Remember
<1>7. CASE SaveGuard
  <2>1. /\ pc = "save" /\ pc' = "end"
        /\ UNCHANGED <<conf, known, applied, lost>>
    BY <1>7 DEF SaveGuard, setup
  <2>2. CASE UNCHANGED <<file, saved>>
    BY <2>1, <2>2
  <2>3. CASE file' = known /\ saved' = TRUE
    BY <2>1, <2>3
  <2>. QED BY <1>7, <2>2, <2>3 DEF SaveGuard
<1>8. CASE Crash
  <2>1. /\ pc' = "down" /\ saved' = FALSE
        /\ lost' = (lost \/ (applied # None /\ file # applied))
        /\ UNCHANGED <<file, conf, applied>>
    BY <1>8 DEF Crash, setup
  <2>. QED BY <2>1
<1>9. CASE Flush
  <2>1. broken' /\ UNCHANGED <<file, conf, pc, known, saved, applied, lost>>
    BY <1>9 DEF Flush, setup, memory
  <2>. QED BY <2>1
<1>10. CASE UNCHANGED vars
  BY <1>10 DEF vars, GuardedBy
<1>. QED BY <1>1, <1>2, <1>3, <1>4, <1>5, <1>6, <1>7, <1>8, <1>9, <1>10
         DEF Next, AgentStep, HostNext

\* GuardInv is what GuardSurvives needs while a pull is pending.
LEMMA GuardInvSuffices == ASSUME GuardInv PROVE GuardSurvives
BY DEF GuardInv, Remembered, InForce, GuardSurvives, Pulling

\* Whatever crashed, was flushed, reconfigured or failed before, while a pull is
\* pending the chain carries the guard of the hub's last answer (agent.step,
\* reapplyGuard, loadGuard, saveGuard).
THEOREM GuardIsRestored == Spec => []GuardSurvives
<1>1. Spec => []GuardInv
  BY GuardInit, GuardStep, PTL DEF Spec
<1>. QED BY <1>1, GuardInvSuffices, PTL

\* state.saved is never set for a guard the state file does not hold (saveGuard).
THEOREM SavedGuardIsOnDisk == Spec => []SavedIsOnDisk
<1>1. Spec => []GuardInv
  BY GuardInit, GuardStep, PTL DEF Spec
<1>2. GuardInv => SavedIsOnDisk
  BY DEF GuardInv
<1>. QED BY <1>1, <1>2, PTL

-----------------------------------------------------------------------------
(* agent_allowed_ports *)

Listed == /\ conf.allowed # {} => \A k \in rules' \ rules : k.port \in conf.allowed
          /\ guard' \ guard \subseteq conf.allowed

\* A reconcile adds nothing but rules it was asked for.
LEMMA ReconcileAddsWanted ==
    ASSUME NEW want, ReconcileAll(want)
    PROVE  rules' \ rules \subseteq want /\ guard' = guard
BY DEF ReconcileAll

\* Every step opens and guards listed ports only.
LEMMA ListedStep ==
    ASSUME conf \in Configs, [Next]_vars
    PROVE  Listed
<1> USE DEF Listed
<1>1. CASE HubNext
  BY <1>1 DEF HubNext, HubChange, chain, SetAddress, SetEnabled,
              AddGroupTarget, RemoveGroupTarget, CreateNode, DeleteNode, UpgradeHub
<1>2. CASE AgentRun
  BY <1>2 DEF AgentRun, Run
<1>3. CASE ReapplyGuard
  <2>1. rules' = rules /\ (guard' = guard \/ guard' = GuardedBy(known))
    BY <1>3 DEF ReapplyGuard, SyncGuardFails
  <2>. QED BY <2>1, GuardedByListed
<1>4. CASE AuthNode \/ ReadRules \/ ReadPorts \/ SaveGuard \/ Sleep \/ PullFails \/ Crash
  BY <1>4 DEF AuthNode, ReadRules, ReadPorts, SaveGuard, Sleep, PullFails, Crash, chain
<1>5. CASE Rejected
  BY <1>5, ReconcileAddsWanted DEF Rejected
<1>6. CASE ApplyRules
  <2>1. rules' \ rules \subseteq FilterAllowed(got) /\ guard' = guard
    BY <1>6, ReconcileAddsWanted DEF ApplyRules
  <2>. QED BY <2>1 DEF FilterAllowed
<1>7. CASE ApplyGuard
  <2>1. rules' = rules
    BY <1>7 DEF ApplyGuard
  <2>2. guard' = guard \/ guard' = {} \/ guard' = GuardedBy(gotPorts)
    BY <1>7 DEF ApplyGuard, SyncGuard, SyncGuardFails
  <2>. QED BY <2>1, <2>2, GuardedByListed
<1>8. CASE Flush
  BY <1>8 DEF Flush
<1>9. CASE UNCHANGED vars
  BY <1>9 DEF vars
<1>. QED BY <1>1, <1>2, <1>3, <1>4, <1>5, <1>6, <1>7, <1>8, <1>9
         DEF Next, AgentStep, HostNext

\* Whatever the hub sends and whatever was guarded under an earlier list, the
\* node opens and closes only ports of its own list (filterAllowed, splitAllowed,
\* reapplyGuard).
THEOREM OnlyListedPortsChange == Spec => OnlyListedPorts
<1>1. Spec => []GuardInv
  BY GuardInit, GuardStep, PTL DEF Spec
<1>2. GuardInv /\ [Next]_vars => Listed
  BY ListedStep DEF GuardInv, Remembered
<1>. QED BY <1>1, <1>2, PTL DEF Spec, OnlyListedPorts, Listed

-----------------------------------------------------------------------------
(* Type correctness *)

\* What the hub answers from well-typed rows is well typed.
LEMMA AnswerType ==
    ASSUME TypeOK
    PROVE  DesiredStateForNode \in SUBSET NodeKey /\ NodeTargetPorts \in SUBSET Ports
<1>1. ASSUME NEW e \in enabled, addr[e[1]] # None, target[e[2]] # None
      PROVE  NodeRule(e[1], e[2]) \in NodeKey
  <2>1. e[1] \in Users /\ e[2] \in Groups
    BY DEF TypeOK
  <2>2. addr[e[1]] \in IPs /\ target[e[2]] \in Ports
    BY <1>1, <2>1 DEF TypeOK
  <2>. QED BY <2>1, <2>2 DEF NodeRule, NodeKey
<1>2. DesiredStateForNode \in SUBSET NodeKey
  BY <1>1 DEF DesiredStateForNode
<1>3. NodeTargetPorts \in SUBSET Ports
  BY DEF NodeTargetPorts, TypeOK
<1>. QED BY <1>2, <1>3

\* The ports to guard are ports of this node.
LEMMA GuardedByType ==
    ASSUME conf \in Configs, NEW ports
    PROVE  GuardedBy(ports) \in SUBSET Ports
<1>1. conf.allowed \subseteq Ports
  BY ConfigsAssumption
<1>. QED BY <1>1, GuardedByListed

\* What may stand for the ports of a guard.
LEMMA PortSetsHold ==
    /\ None \in PortSets
    /\ \A s \in SUBSET Ports : s \in PortSets
    /\ \A s \in PortSets : s # None => s \in SUBSET Ports
BY DEF PortSets

\* A reconcile with rules leaves rules.
LEMMA ReconcileType ==
    ASSUME TypeOK, NEW want \in SUBSET NodeKey, ReconcileAll(want)
    PROVE  /\ rules' \in SUBSET NodeKey /\ drift' \in {"none", "old", "new"}
           /\ UNCHANGED <<guard, base>>
BY DEF ReconcileAll, TypeOK

\* Every step of the hub, the agent and the host keeps the types, and targets
\* never outlive the registration of the node.
LEMMA TypeStep ==
    ASSUME TypeOK, [Next]_vars
    PROVE  TypeOK'
<1> USE PortSetsHold DEF Steps
<1>1. CASE HubNext
  <2> USE DEF HubChange, chain, setup, memory
  <2>1. ASSUME NEW u \in Users, NEW i \in IPs \cup {None}, SetAddress(u, i) PROVE TypeOK'
    BY <2>1 DEF SetAddress, TypeOK
  <2>2. ASSUME NEW u \in Users, NEW g \in Groups, NEW en \in BOOLEAN, SetEnabled(u, g, en)
        PROVE  TypeOK'
    <3>1. enabled' \in SUBSET (Users \X Groups)
      BY <2>2 DEF SetEnabled, TypeOK
    <3>. QED BY <2>2, <3>1 DEF SetEnabled, TypeOK
  <2>3. ASSUME NEW g \in Groups, NEW p \in Ports, AddGroupTarget(g, p) PROVE TypeOK'
    BY <2>3 DEF AddGroupTarget, TypeOK
  <2>4. ASSUME NEW g \in Groups, RemoveGroupTarget(g) PROVE TypeOK'
    BY <2>4 DEF RemoveGroupTarget, TypeOK
  <2>5. ASSUME CreateNode PROVE TypeOK'
    BY <2>5 DEF CreateNode, TypeOK
  <2>6. ASSUME DeleteNode PROVE TypeOK'
    <3>1. owed' \in SUBSET Ports
      BY <2>6, AnswerType DEF DeleteNode
    <3>. QED BY <2>6, <3>1 DEF DeleteNode, TypeOK
  <2>7. ASSUME UpgradeHub PROVE TypeOK'
    BY <2>7 DEF UpgradeHub, TypeOK
  <2>. QED BY <1>1, <2>1, <2>2, <2>3, <2>4, <2>5, <2>6, <2>7 DEF HubNext
<1>2. CASE AgentRun
  <2>1. PICK c \in Configs, t \in 1..issued : Run(c, t)
    BY <1>2 DEF AgentRun
  <2>2. t \in Nat
    BY DEF TypeOK
  <2>3. /\ known' \in PortSets /\ saved' \in BOOLEAN /\ lost' \in BOOLEAN /\ base' \in BOOLEAN
    BY <2>1 DEF Run, TypeOK
  <2>4. pc' \in Steps /\ drift' \in {"none", "old", "new"} /\ conf' \in Configs /\ mine' \in Nat
    BY <2>1, <2>2 DEF Run
  <2>. QED BY <2>1, <2>3, <2>4 DEF Run, TypeOK, hub
<1>3. CASE ReapplyGuard
  <2>1. guard' \in SUBSET Ports /\ broken' \in BOOLEAN /\ drift' \in {"none", "old", "new"}
    BY <1>3, GuardedByType DEF ReapplyGuard, SyncGuardFails, TypeOK
  <2>. QED BY <1>3, <2>1 DEF ReapplyGuard, TypeOK, hub, setup, memory
<1>4. CASE AuthNode
  BY <1>4 DEF AuthNode, TypeOK, hub, chain, setup, memory, history
<1>5. CASE ReadRules
  BY <1>5, AnswerType DEF ReadRules, TypeOK, hub, chain, setup, history
<1>6. CASE ReadPorts
  <2>1. gotPorts' \in PortSets
    BY <1>6, AnswerType DEF ReadPorts
  <2>. QED BY <1>6, <2>1 DEF ReadPorts, TypeOK, hub, chain, setup
<1>7. CASE Rejected
  <2>1. /\ rules' \in SUBSET NodeKey /\ drift' \in {"none", "old", "new"}
        /\ UNCHANGED <<guard, base>>
    BY <1>7, ReconcileType DEF Rejected
  <2>. QED BY <1>7, <2>1 DEF Rejected, TypeOK, hub, setup, memory
<1>8. CASE ApplyRules
  <2>1. FilterAllowed(got) \in SUBSET NodeKey
    BY DEF FilterAllowed, TypeOK
  <2>2. /\ rules' \in SUBSET NodeKey /\ drift' \in {"none", "old", "new"}
        /\ UNCHANGED <<guard, base>>
    BY <1>8, <2>1, ReconcileType DEF ApplyRules
  <2>. QED BY <1>8, <2>2 DEF ApplyRules, TypeOK, hub, setup
<1>9. CASE ApplyGuard
  <2> DEFINE ports == IF gotPorts = None THEN {} ELSE GuardedBy(gotPorts)
  <2>1. ports \in SUBSET Ports
    BY GuardedByType DEF TypeOK
  <2>2. /\ guard' \in {guard, ports} /\ known' \in {known, ports} /\ saved' \in BOOLEAN
        /\ applied' \in {applied, ports} /\ lost' \in BOOLEAN /\ broken' \in BOOLEAN
        /\ pc' \in {"end", "save"} /\ drift' \in {drift, "new"}
    BY <1>9 DEF ApplyGuard, SyncGuard, SyncGuardFails, Remember, TypeOK
  <2>3. /\ guard' \in SUBSET Ports /\ known' \in PortSets /\ applied' \in PortSets
        /\ gotPorts' \in PortSets
    BY <1>9, <2>1, <2>2 DEF ApplyGuard, TypeOK
  <2>4. pc' \in Steps /\ drift' \in {"none", "old", "new"}
    BY <2>2 DEF TypeOK
  <2> HIDE DEF ports
  <2>. QED BY <1>9, <2>2, <2>3, <2>4 DEF ApplyGuard, TypeOK, hub, setup
<1>10. CASE SaveGuard
  BY <1>10 DEF SaveGuard, TypeOK, hub, chain, setup
<1>11. CASE Sleep
  BY <1>11 DEF Sleep, TypeOK, hub, chain, setup, memory
<1>12. CASE PullFails
  BY <1>12 DEF PullFails, TypeOK, hub, chain, setup
<1>13. CASE Crash
  <2>1. lost' \in BOOLEAN /\ saved' \in BOOLEAN
    BY <1>13 DEF Crash
  <2>. QED BY <1>13, <2>1 DEF Crash, TypeOK, hub, chain, setup
<1>14. CASE Flush
  BY <1>14 DEF Flush, TypeOK, hub, setup, memory
<1>15. CASE UNCHANGED vars
  BY <1>15 DEF vars, TypeOK
<1>. QED BY <1>1, <1>2, <1>3, <1>4, <1>5, <1>6, <1>7, <1>8, <1>9, <1>10, <1>11, <1>12, <1>13,
            <1>14, <1>15 DEF Next, AgentStep, HostNext

\* Every variable keeps its type, and a node that is not registered has no target
\* (ON DELETE CASCADE), whatever hub, agent and host do.
THEOREM TypeCorrect == Spec => []TypeOK
<1>1. Init => TypeOK
  <2> SUFFICES ASSUME Init PROVE TypeOK
    OBVIOUS
  <2>1. /\ target \in [Groups -> Ports \cup {None}] /\ (\A g \in Groups : target[g] = None)
        /\ addr \in [Users -> IPs \cup {None}] /\ enabled \in SUBSET (Users \X Groups)
    BY DEF Init
  <2>2. oldHub \in BOOLEAN /\ base \in BOOLEAN /\ saved \in BOOLEAN /\ lost \in BOOLEAN /\ broken \in BOOLEAN
    BY DEF Init
  <2>3. /\ rules \in SUBSET NodeKey /\ guard \in SUBSET Ports /\ got \in SUBSET NodeKey
        /\ owed \in SUBSET Ports
    BY DEF Init
  <2>4. file \in PortSets /\ known \in PortSets /\ gotPorts \in PortSets /\ applied \in PortSets
    BY PortSetsHold DEF Init
  <2>5. /\ token \in Nat /\ issued \in Nat /\ token <= issued /\ conf \in Configs /\ mine \in Nat
        /\ pc \in Steps /\ answer \in {"none", "ok", "rejected"} /\ drift \in {"none", "old", "new"}
    BY DEF Init, Steps
  <2>. QED BY <2>1, <2>2, <2>3, <2>4, <2>5 DEF TypeOK
<1>. QED BY <1>1, TypeStep, PTL DEF Spec
=============================================================================
