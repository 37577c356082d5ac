-------------------------------- MODULE Agent --------------------------------
(***************************************************************************)
(* One fleet node: its agent (`nft-okboy agent`), the nftables chain and   *)
(* the state file of its host, and the part of the hub its agent talks to: *)
(* the handler of GET /api/v1/node/desired-state and the rows that handler *)
(* reads.                                                                  *)
(*                                                                         *)
(* The agent is sequential.  A cycle is cut where the hub's database, the  *)
(* chain or the process itself can change under it: the hub answers with   *)
(* three separate queries (token, rules, ports), and between any two steps *)
(* rows may change, the ruleset may be flushed, the process may die.       *)
(*                                                                         *)
(* The agent is the only writer of its chain and adds a rule only after    *)
(* finding none like it, so the allow rules are a set.                     *)
(***************************************************************************)
EXTENDS Naturals, FiniteSets

CONSTANTS
    Users, Groups, IPs,
    Ports,       \* a port stands for a (port, proto)
    Configs,     \* node configurations: [guard, allowed]
    None,        \* NULL, no file, no guard known
    MaxTokens,   \* bound: tokens the node is enrolled with
    AgentFaults  \* which failures happen: a subset of AgentFaultKinds

AgentFaultKinds == {"net", "fw", "disk", "crash", "flush"}

ASSUME ConfigsAssumption ==
    /\ Configs \subseteq [guard : BOOLEAN, allowed : SUBSET Ports]
    /\ Configs # {}
ASSUME NoneIsNothing == None \notin IPs /\ None \notin Ports /\ \A s \in SUBSET Ports : None # s
ASSUME AgentBoundsAssumption == MaxTokens \in Nat /\ AgentFaults \subseteq AgentFaultKinds

VARIABLES
    \* the hub's database, as far as this node is concerned
    token,    \* version of the node's token hash, 0 when the node is not registered
    issued,   \* versions handed out so far
    target,   \* group_targets: target[g] is a port of this node, or None
    addr,     \* users.current_ip, or None
    enabled,  \* enabled memberships: pairs <<user, group>>
    oldHub,   \* the hub does not report "ports" yet
    \* the node's host
    rules, guard, base,
    file,     \* content of Options.StateFile, None when there is no file
    conf,     \* nft_guard and agent_allowed_ports of the running agent
    mine,     \* version of the token the agent was started with
    \* the agent process
    pc,       \* its next step; "down" when it does not run
    known,    \* state.ports when state.havePorts, else None
    saved,    \* state.saved
    got,      \* the rules of the hub's answer
    gotPorts, \* its ports, None when the field is missing
    \* history
    applied,  \* the guard the last answer of the hub led the agent to install
    lost,     \* that guard was not on disk when it was needed
    broken,   \* the guard was flushed, or setting it failed, since it was last set
    answer,   \* how the last completed pull ended: "none", "ok" or "rejected"
    owed,     \* ports under guard and still managed when the node was deleted
    drift     \* a disturbance not yet followed by a clean cycle

hub == <<token, issued, target, addr, enabled, oldHub>>
chain == <<rules, guard, base>>
memory == <<known, saved, got, gotPorts>>
setup == <<conf, mine>>
history == <<applied, lost, broken, answer, owed, drift>>
vars == <<token, issued, target, addr, enabled, oldHub, rules, guard, base, file, conf,
          mine, pc, known, saved, got, gotPorts, applied, lost, broken, answer, owed, drift>>

-----------------------------------------------------------------------------
(* The hub *)

NodeKey == [user : Users, ip : IPs, port : Ports, group : Groups]

NodeRule(u, g) == [user |-> u, ip |-> addr[u], port |-> target[g], group |-> g]

\* DesiredStateForNode: one rule per online user and enabled membership in a
\* group that targets the node.
DesiredStateForNode ==
    {NodeRule(e[1], e[2]) : e \in {x \in enabled : addr[x[1]] # None /\ target[x[2]] # None}}

NodeTargetPorts == {target[g] : g \in {h \in Groups : target[h] # None}}

\* Every change of the hub's rows is news the node has yet to pull.
HubChange == /\ drift' = "new"
             /\ UNCHANGED <<chain, file, setup, pc, memory, applied, lost, broken, answer>>

\* A knock records an address; revoke, expiry and user-del clear it (None).
SetAddress(u, i) ==
    /\ addr[u] # i
    /\ addr' = [addr EXCEPT ![u] = i]
    /\ HubChange
    /\ UNCHANGED <<token, issued, target, enabled, oldHub, owed>>

SetEnabled(u, g, en) ==
    /\ enabled' = IF en THEN enabled \cup {<<u, g>>} ELSE enabled \ {<<u, g>>}
    /\ enabled' # enabled
    /\ HubChange
    /\ UNCHANGED <<token, issued, target, addr, oldHub, owed>>

\* An upsert: a second target of the group on this node replaces the port.
AddGroupTarget(g, p) ==
    /\ token # 0
    /\ target[g] # p
    /\ target' = [target EXCEPT ![g] = p]
    /\ HubChange
    /\ UNCHANGED <<token, issued, addr, enabled, oldHub, owed>>

RemoveGroupTarget(g) ==
    /\ target[g] # None
    /\ target' = [target EXCEPT ![g] = None]
    /\ HubChange
    /\ UNCHANGED <<token, issued, addr, enabled, oldHub, owed>>

CreateNode ==
    /\ token = 0
    /\ issued < MaxTokens
    /\ issued' = issued + 1
    /\ token' = issued'
    /\ owed' = {}
    /\ HubChange
    /\ UNCHANGED <<target, addr, enabled, oldHub>>

\* Variant: foreign keys are not enforced, the targets stay.
DeleteNodeAlone ==
    /\ token # 0
    /\ token' = 0
    /\ owed' = IF applied = None THEN {} ELSE applied \cap NodeTargetPorts
    /\ HubChange
    /\ UNCHANGED <<issued, target, addr, enabled, oldHub>>

\* ON DELETE CASCADE takes the node's targets with it.
DeleteNode ==
    /\ token # 0
    /\ token' = 0
    /\ target' = [g \in Groups |-> None]
    /\ owed' = IF applied = None THEN {} ELSE applied \cap NodeTargetPorts
    /\ HubChange
    /\ UNCHANGED <<issued, addr, enabled, oldHub>>

\* The hub is upgraded to a version that reports "ports".
UpgradeHub ==
    /\ oldHub
    /\ oldHub' = FALSE
    /\ HubChange
    /\ UNCHANGED <<token, issued, target, addr, enabled, owed>>

-----------------------------------------------------------------------------
(* The firewall of the node *)

\* What a ReconcileAll leaves when some of its calls fail: every rule it keeps,
\* and some of those it should have deleted or added.
ReconcileAll(want) ==
    /\ \/ /\ base \/ want = {}
          /\ rules' = want
          /\ UNCHANGED drift
       \/ /\ "fw" \in AgentFaults \/ (~base /\ want # {})
          /\ rules' \in SUBSET (rules \cup want)
          /\ rules \cap want \subseteq rules'
          /\ ~base => rules' = rules
          /\ drift' = "new"
    /\ UNCHANGED <<guard, base>>

\* SyncGuard replaces the guard in one transaction.
SyncGuard(ports) ==
    /\ base \/ ports = {}
    /\ guard' = ports
    /\ broken' = FALSE

SyncGuardFails(ports) ==
    /\ "fw" \in AgentFaults \/ (~base /\ ports # {})
    /\ UNCHANGED guard
    /\ broken' = TRUE
    /\ drift' = "new"

\* Variant: what was guarded before is guarded again, whatever the configuration.
GuardedByUnfiltered(ports) == ports

\* splitAllowed under nft_guard: the listed ones among `ports`.
GuardedBy(ports) == IF conf.guard THEN ports \cap conf.allowed ELSE {}

\* filterAllowed: an empty list accepts every port.
FilterAllowed(keys) == {k \in keys : conf.allowed = {} \/ k.port \in conf.allowed}
-----------------------------------------------------------------------------
(* The agent *)

\* Variant: the state file is not read.
RunNoLoad(c, t) ==
    /\ pc = "down"
    /\ conf' = c /\ mine' = t
    /\ base' = TRUE
    /\ known' = None /\ saved' = FALSE
    /\ pc' = "begin"
    /\ drift' = "new"
    /\ UNCHANGED <<hub, rules, guard, file, got, gotPorts, applied, lost, broken, answer, owed>>

\* Run: EnsureBase and loadGuard; an unreadable state file counts as none.  The
\* configuration and the token may have been edited since the last run.
Run(c, t) ==
    /\ pc = "down"
    /\ conf' = c /\ mine' = t
    /\ base' = TRUE
    /\ \/ /\ known' = file /\ saved' = (file # None)
          /\ UNCHANGED lost
       \/ /\ "disk" \in AgentFaults
          /\ known' = None /\ saved' = FALSE
          /\ lost' = (lost \/ file # None)
    /\ pc' = "begin"
    /\ drift' = "new"
    /\ UNCHANGED <<hub, rules, guard, file, got, gotPorts, applied, broken, answer, owed>>

\* step, up to the pull: EnsureBase (an error ends the cycle) and reapplyGuard.
ReapplyGuard ==
    /\ pc = "begin"
    /\ base' = TRUE
    /\ \/ /\ known = None
          /\ UNCHANGED <<guard, broken>>
          /\ drift' = IF drift = "new" THEN "old" ELSE drift
       \/ /\ known # None
          /\ guard' = GuardedBy(known)
          /\ broken' = FALSE
          /\ drift' = IF drift = "new" THEN "old" ELSE drift
       \/ /\ known # None
          /\ SyncGuardFails(GuardedBy(known))
    /\ pc' = "auth"
    /\ UNCHANGED <<hub, rules, file, setup, memory, applied, lost, answer, owed>>

\* authNode
AuthNode ==
    /\ pc = "auth"
    /\ pc' = IF mine = token THEN "rules" ELSE "reject"
    /\ UNCHANGED <<hub, chain, file, setup, memory, history>>

\* nodeDesiredState, first query.
ReadRules ==
    /\ pc = "rules"
    /\ got' = DesiredStateForNode
    /\ pc' = "ports"
    /\ UNCHANGED <<hub, chain, file, setup, known, saved, gotPorts, history>>

\* Second query, and the answer.
ReadPorts ==
    /\ pc = "ports"
    /\ gotPorts' = IF oldHub THEN None ELSE NodeTargetPorts
    /\ answer' = "ok"
    /\ pc' = "apply"
    /\ UNCHANGED <<hub, chain, file, setup, known, saved, got, applied, lost, broken,
                   owed, drift>>

\* A network error, a timeout, a 5xx: the rules are left as they are.
PullFails ==
    /\ "net" \in AgentFaults
    /\ pc \in {"auth", "rules", "ports"}
    /\ pc' = "begin"
    /\ got' = {} /\ gotPorts' = None
    /\ drift' = "new"
    /\ UNCHANGED <<hub, chain, file, setup, known, saved, applied, lost, broken, answer, owed>>

\* Variant: a 401 is one more failed pull.
RejectedKeepsRules ==
    /\ pc = "reject"
    /\ answer' = "rejected"
    /\ pc' = "end"
    /\ UNCHANGED <<hub, chain, file, setup, memory, applied, lost, broken, owed, drift>>

\* 401: no rule stays, the guard does.
Rejected ==
    /\ pc = "reject"
    /\ ReconcileAll({})
    /\ answer' = "rejected"
    /\ pc' = "end"
    /\ UNCHANGED <<hub, file, setup, memory, applied, lost, broken, owed>>

ApplyRules ==
    /\ pc = "apply"
    /\ ReconcileAll(FilterAllowed(got))
    /\ got' = {}
    /\ pc' = "guard"
    /\ UNCHANGED <<hub, file, setup, known, saved, gotPorts, applied, lost, broken, answer, owed>>

\* Variant: `saved` is not reset when the guard changes.
RememberStillSaved(ports) == known' = ports /\ saved' = saved

\* saveGuard, in memory: a new guard is not on disk yet.
Remember(ports) == /\ known' = ports
                   /\ saved' = (saved /\ known = ports)

\* syncGuard: a hub without "ports" leaves the guard, unless it is switched off.
ApplyGuard ==
    /\ pc = "guard"
    /\ LET ports == IF gotPorts = None THEN {} ELSE GuardedBy(gotPorts)
       IN  \/ /\ conf.guard /\ gotPorts = None
              /\ pc' = "end"
              /\ UNCHANGED <<guard, known, saved, applied, lost, broken, drift>>
           \/ /\ conf.guard => gotPorts # None
              /\ SyncGuard(ports)
              /\ Remember(ports)
              /\ applied' = ports /\ lost' = FALSE
              /\ pc' = "save"
              /\ UNCHANGED drift
           \/ /\ conf.guard => gotPorts # None
              /\ SyncGuardFails(ports)
              /\ pc' = "end"
              /\ UNCHANGED <<known, saved, applied, lost>>
    /\ gotPorts' = None
    /\ UNCHANGED <<hub, rules, base, file, setup, got, answer, owed>>

\* Variant: a state file that exists is not replaced.
SaveGuardOnce ==
    /\ pc = "save"
    /\ \/ (saved \/ file # None) /\ UNCHANGED <<file, saved, drift>>
       \/ file = None /\ file' = known /\ saved' = TRUE /\ UNCHANGED drift
    /\ pc' = "end"
    /\ UNCHANGED <<hub, chain, setup, known, got, gotPorts, applied, lost, broken, answer, owed>>

\* saveGuard, on disk: a failed write is tried again in the next cycle.
SaveGuard ==
    /\ pc = "save"
    /\ \/ /\ saved
          /\ UNCHANGED <<file, saved, drift>>
       \/ /\ ~saved
          /\ file' = known /\ saved' = TRUE
          /\ UNCHANGED drift
       \/ /\ ~saved /\ "disk" \in AgentFaults
          /\ drift' = "new"
          /\ UNCHANGED <<file, saved>>
    /\ pc' = "end"
    /\ UNCHANGED <<hub, chain, setup, known, got, gotPorts, applied, lost, broken, answer, owed>>

\* The agent sleeps for --interval seconds.  A cycle that met no disturbance has
\* brought the node up to date.
Sleep ==
    /\ pc = "end"
    /\ pc' = "begin"
    /\ drift' = IF drift = "old" THEN "none" ELSE drift
    /\ UNCHANGED <<hub, chain, file, setup, memory, applied, lost, broken, answer, owed>>

-----------------------------------------------------------------------------
(* The host *)

\* The process stops; the chain and the state file stay.
Crash ==
    /\ "crash" \in AgentFaults
    /\ pc # "down"
    /\ pc' = "down"
    /\ known' = None /\ saved' = FALSE /\ got' = {} /\ gotPorts' = None
    /\ lost' = (lost \/ (applied # None /\ file # applied))
    /\ drift' = "new"
    /\ UNCHANGED <<hub, chain, file, setup, applied, broken, answer, owed>>

\* `systemctl restart nftables`; with a Crash, a reboot.
Flush ==
    /\ "flush" \in AgentFaults
    /\ base' = FALSE /\ rules' = {} /\ guard' = {}
    /\ broken' = TRUE
    /\ drift' = "new"
    /\ UNCHANGED <<hub, file, setup, pc, memory, applied, lost, answer, owed>>

-----------------------------------------------------------------------------
Init ==
    /\ token = 0 /\ issued = 0
    /\ target = [g \in Groups |-> None]
    /\ addr = [u \in Users |-> None]
    /\ enabled = {}
    /\ oldHub \in BOOLEAN
    /\ rules = {} /\ guard = {} /\ base = FALSE
    /\ file = None
    /\ conf \in Configs /\ mine = 0
    /\ pc = "down"
    /\ known = None /\ saved = FALSE /\ got = {} /\ gotPorts = None
    /\ applied = None /\ lost = FALSE /\ broken = FALSE
    /\ answer = "none" /\ owed = {} /\ drift = "new"

HubNext ==
    \/ \E u \in Users, i \in IPs \cup {None} : SetAddress(u, i)
    \/ \E u \in Users, g \in Groups, en \in BOOLEAN : SetEnabled(u, g, en)
    \/ \E g \in Groups, p \in Ports : AddGroupTarget(g, p)
    \/ \E g \in Groups : RemoveGroupTarget(g)
    \/ CreateNode \/ DeleteNode \/ UpgradeHub

\* The operator enrols the agent with a token the hub has issued.
AgentRun == \E c \in Configs, t \in 1..issued : Run(c, t)

AgentStep ==
    \/ ReapplyGuard \/ AuthNode \/ ReadRules \/ ReadPorts
    \/ Rejected \/ ApplyRules \/ ApplyGuard \/ SaveGuard \/ Sleep

HostNext == PullFails \/ Crash \/ Flush

Next == HubNext \/ AgentRun \/ AgentStep \/ HostNext

Spec == Init /\ [][Next]_vars

\* systemd starts the agent and restarts it on failure; a step ends, because
\* nft and the HTTP client have timeouts.
FairSpec == Spec /\ WF_vars(AgentRun) /\ WF_vars(AgentStep)

-----------------------------------------------------------------------------
(* Properties *)

Steps == {"down", "begin", "auth", "rules", "ports", "reject", "apply", "guard", "save", "end"}

PortSets == (SUBSET Ports) \cup {None}

\* Every variable has its type, and only a registered node has targets.
TypeOK ==
    /\ token \in Nat /\ issued \in Nat /\ token <= issued
    /\ target \in [Groups -> Ports \cup {None}]
    /\ token = 0 => \A g \in Groups : target[g] = None
    /\ addr \in [Users -> IPs \cup {None}]
    /\ enabled \in SUBSET (Users \X Groups)
    /\ oldHub \in BOOLEAN
    /\ rules \in SUBSET NodeKey
    /\ guard \in SUBSET Ports
    /\ base \in BOOLEAN
    /\ file \in PortSets
    /\ conf \in Configs /\ mine \in Nat
    /\ pc \in Steps
    /\ known \in PortSets /\ saved \in BOOLEAN
    /\ got \in SUBSET NodeKey /\ gotPorts \in PortSets
    /\ applied \in PortSets /\ lost \in BOOLEAN /\ broken \in BOOLEAN
    /\ answer \in {"none", "ok", "rejected"}
    /\ owed \in SUBSET Ports
    /\ drift \in {"none", "old", "new"}

\* A pull is pending, or its answer has not reached the guard yet.
Pulling == pc \in {"auth", "rules", "ports", "reject", "apply"}

\* StateFile "keeps the last guard applied, so it is back at once after a reboot
\* or a flushed ruleset even while the hub cannot be asked": whatever crashed,
\* was flushed or reconfigured since, while a pull is pending the chain carries
\* the guard of the hub's last answer, as far as today's configuration allows.
GuardSurvives ==
    Pulling /\ ~broken /\ ~lost /\ applied # None => guard = GuardedBy(applied)

\* state.saved: "the state file holds it".
SavedIsOnDisk == saved => file = known /\ known # None

\* agent_allowed_ports: "the node opens, and closes, only the ports listed here",
\* whatever the hub sends and whatever was guarded under an earlier list.
OnlyListedPorts ==
    [][/\ conf.allowed # {} => \A k \in rules' \ rules : k.port \in conf.allowed
       /\ guard' \ guard \subseteq conf.allowed]_vars

\* "A node the hub no longer knows must not keep admitting anyone.  The guard
\* stays, so its ports end up closed": after a rejected pull the ports that were
\* guarded and still managed when the node was deleted are closed.
RejectedNodeIsClosed ==
    pc = "end" /\ answer = "rejected" /\ token = 0 /\ conf.guard /\ ~broken /\ ~lost
        => owed \cap conf.allowed \subseteq guard

\* The node is what the hub wants it to be, or closed if the hub rejects it.
NodeInSync ==
    IF mine = token
    THEN /\ rules = FilterAllowed(DesiredStateForNode)
         /\ conf.guard /\ ~oldHub => guard = GuardedBy(NodeTargetPorts)
         /\ ~conf.guard => guard = {}
    ELSE rules = {}

\* Once rows stop changing and failures stop, the node reaches the hub's desired
\* state, or loses every rule when its token is rejected, and stays there.
NodeConverges == <>[](drift # "new") => <>[]NodeInSync

\* "A failed write is retried on the next cycle": the guard in force ends up on
\* disk as well.
GuardReachesDisk ==
    <>[](drift # "new") => <>[](mine = token /\ ~oldHub => file = guard)
=============================================================================
