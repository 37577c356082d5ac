--------------------------------- MODULE Hub ---------------------------------
(***************************************************************************)
(* The hub (or a standalone server): the SQLite database, the nftables     *)
(* chain of this host, and the HTTP handlers of `serve` that change both.  *)
(*                                                                         *)
(* Every handler that touches the firewall runs under one mutex (fwMu), so *)
(* at most one of them is in progress; `op` is that one.  A handler is cut *)
(* into the steps between which a database error, a crash, or work that    *)
(* needs no fwMu (a new group, the checks a toggle makes before it locks)  *)
(* can fall.  Each call to the firewall may fail on its own.               *)
(*                                                                         *)
(* Row ids are never reused (AUTOINCREMENT), names and ports are: two ids  *)
(* with one name stand for a user or group deleted and created again.      *)
(***************************************************************************)
EXTENDS Naturals, FiniteSets

CONSTANTS
    UserIds, Names, NameOf,      \* users.id, and the username of each id
    GroupIds, GroupNames, Ports, \* groups.id; a port stands for a (port, proto)
    GroupName, PortOf,           \* name and port of each group id
    IPs,                         \* addresses that may be allowlisted
    None,                        \* NULL: no address, no user, no group
    MaxCopies,                   \* bound: copies of one rule in the chain
    MaxRotations,                \* bound: secret rotations per user
    MaxToggles,                  \* bound: toggle requests waiting for fwMu
    Faults,                      \* which failures happen: a subset of FaultKinds
    ReAdd                        \* whether an admin may add a membership that exists

FaultKinds == {"fw", "db", "crash", "flush"}

ASSUME NamesAssumption == /\ NameOf \in [UserIds -> Names]
                          /\ GroupName \in [GroupIds -> GroupNames]
                          /\ PortOf \in [GroupIds -> Ports]
ASSUME NoneAssumption == None \notin IPs \cup UserIds \cup GroupIds
ASSUME BoundsAssumption == /\ MaxCopies \in Nat \ {0}
                           /\ MaxRotations \in Nat
                           /\ MaxToggles \in Nat
                           /\ Faults \subseteq FaultKinds
                           /\ ReAdd \in BOOLEAN

VARIABLES
    users,    \* users[u]: "new" (never created), "live" or "gone"
    ip,       \* users.current_ip, None for NULL
    idle,     \* now - last_knock exceeds cleanup_max_age_days
    secret,   \* version of users.secret
    proof,    \* history: the version that authenticated the recorded address
    groups,   \* groups[g]: "new", "live" or "gone"
    member,   \* member[u][g]: no row, or the row's enabled flag
    rules,    \* allow rules in the chain: copies per (user, ip, port, group)
    guard,    \* ports the guard at the chain's tail closes to everybody else
    base,     \* the table and chain exist
    op,       \* the handler that holds fwMu, [kind |-> "idle"] when it is free
    seen,     \* rule keys that handler computed from the database earlier
    toggles,  \* toggle requests past their checks, waiting for fwMu
    unsynced, \* groups inserted whose syncGuardNow has not run yet
    drift     \* history: a failure not yet followed by a clean Maintain

db == <<users, ip, idle, secret, proof, groups, member>>
fw == <<rules, guard, base>>
vars == <<users, ip, idle, secret, proof, groups, member, rules, guard, base,
          op, seen, toggles, unsynced, drift>>

-----------------------------------------------------------------------------
(* The database *)

\* What identifies a managed rule: match (ip, port) and comment (user, group).
Key == [user : Names, ip : IPs, port : Ports, group : GroupNames]

LiveUsers == {u \in UserIds : users[u] = "live"}
LiveGroups == {g \in GroupIds : groups[g] = "live"}

\* GetUserGroups(u, onlyEnabled = TRUE)
Enabled(u) == {g \in GroupIds : member[u][g] = "on"}

RuleKey(u, i, g) == [user |-> NameOf[u], ip |-> i,
                     port |-> PortOf[g], group |-> GroupName[g]]

AtIP(k, i) == [user |-> k.user, ip |-> i, port |-> k.port, group |-> k.group]

\* portMap: the rules of user u at address i for the groups gs.
KeysAt(u, i, gs) == {RuleKey(u, i, g) : g \in gs}

Online == {u \in UserIds : users[u] = "live" /\ ip[u] # None}

DesiredStateLocal == UNION {KeysAt(u, ip[u], Enabled(u)) : u \in Online}

GroupPorts == {PortOf[g] : g \in LiveGroups}

NoRows == [g \in GroupIds |-> "none"]

\* Variant: an upsert in place of the UPDATE.
SetMembershipEnabledUpsert(u, g, en) ==
    member' = [member EXCEPT ![u][g] = IF en THEN "on" ELSE "off"]

SetMembershipEnabled(u, g, en) ==
    member' = IF member[u][g] = "none" THEN member
              ELSE [member EXCEPT ![u][g] = IF en THEN "on" ELSE "off"]

-----------------------------------------------------------------------------
(* The firewall.  A pass adds one copy of every key in `adds` and deletes    *)
(* `extra[k]` copies of k, one backend call each; a call that fails is       *)
(* skipped and the pass goes on.                                             *)

Missing(keys) == {k \in keys : rules[k] = 0}

NoCopies == [k \in Key |-> 0]

\* Variant: deletes without looking whether there is a rule.
OneCopyUnseen(keys) == [k \in Key |-> IF k \in keys THEN 1 ELSE 0]

\* RemoveRule: the first rule that matches, one copy only.
OneCopy(keys) == [k \in Key |-> IF k \in keys /\ rules[k] > 0 THEN 1 ELSE 0]

\* Variant: rules at an earlier address are left to the targeted removal.
StaleCopiesAnyIP(u, i, gs) ==
    [k \in Key |-> IF /\ k.user = NameOf[u]
                      /\ k.group \notin {GroupName[g] : g \in gs}
                   THEN rules[k] ELSE 0]

\* Variant: every managed rule is listed, not only the user's.
StaleCopiesAnyUser(u, i, gs) ==
    [k \in Key |-> IF \/ k.ip # i
                      \/ k.group \notin {GroupName[g] : g \in gs}
                   THEN rules[k] ELSE 0]

\* Manager.Reconcile: the listed rules of u whose group is not enabled or whose
\* address is not i.  The port of a rule is not compared.
StaleCopies(u, i, gs) ==
    [k \in Key |-> IF /\ k.user = NameOf[u]
                      /\ \/ k.ip # i
                         \/ k.group \notin {GroupName[g] : g \in gs}
                   THEN rules[k] ELSE 0]

\* Manager.RemoveUserRules: every rule of u, at any address.
UserCopies(u) == [k \in Key |-> IF k.user = NameOf[u] THEN rules[k] ELSE 0]

\* Variant: only rules not wanted.
SurplusCopiesKeepDuplicates(want) ==
    [k \in Key |-> IF k \notin want THEN rules[k] ELSE 0]

\* ReconcileAll: rules not wanted, and second copies of wanted ones.
SurplusCopies(want) ==
    [k \in Key |-> IF k \notin want THEN rules[k]
                   ELSE IF rules[k] > 0 THEN rules[k] - 1 ELSE 0]

\* Copies that survive a deletion because DeleteByHandle failed for them.
Survivors(extra) ==
    LET touched == {k \in Key : extra[k] > 0}
    IN  IF "fw" \in Faults
        THEN {left \in [touched -> 0..MaxCopies] :
                \A k \in touched : left[k] <= extra[k]}
        ELSE {[k \in touched |-> 0]}

\* The adds of a pass that fail: all of them when the chain is missing.
AddFailures(adds) == IF ~base THEN {adds}
                     ELSE IF "fw" \in Faults THEN SUBSET adds ELSE {{}}

FwPass(adds, failed, extra) ==
    \E left \in Survivors(extra) :
        /\ rules' = [k \in Key |->
                        IF k \in adds \ failed THEN rules[k] + 1
                        ELSE rules[k] - extra[k]
                             + (IF extra[k] > 0 THEN left[k] ELSE 0)]
        /\ drift' = IF failed = {} /\ \A k \in DOMAIN left : left[k] = 0
                    THEN drift ELSE "new"

\* Manager.Reconcile, the adds of `failed` excepted.
Reconcile(u, i, gs, failed) ==
    FwPass(Missing(KeysAt(u, i, gs)), failed, StaleCopies(u, i, gs))

\* syncGuard.  SyncGuard replaces the guard in one transaction, or fails
\* (always, without a chain, unless there is nothing to install).
SyncGuardOk == /\ base \/ GroupPorts = {}
               /\ guard' = GroupPorts
               /\ UNCHANGED <<rules, base>>
SyncGuardFails == /\ "fw" \in Faults \/ (~base /\ GroupPorts # {})
                  /\ UNCHANGED <<rules, guard, base>>

-----------------------------------------------------------------------------
(* fwMu *)

Handler(kind, u, g, i, v, flag) ==
    [kind |-> kind, user |-> u, group |-> g, ip |-> i, ver |-> v, flag |-> flag]

Idle == Handler("idle", None, None, None, 0, FALSE)

Free == op = Idle
Release == op' = Idle /\ seen' = {}

\* The handler's next step.
GoOn(kind) == op' = Handler(kind, op.user, op.group, op.ip, op.ver, op.flag)

-----------------------------------------------------------------------------
(* Knock *)

\* Variant: the signature was checked before the lock was taken.
AuthenticatedEarlier(u, v) == users[u] = "live" /\ v <= secret[u]

\* The whole handler is under fwMu, authentication included: a request signed
\* with version v is accepted when v is the stored secret.
Authenticated(u, v) == users[u] = "live" /\ v = secret[u]

\* Reconcile first.  A failed add answers 500 and records nothing.
Knock(u, i, v) ==
    /\ Free
    /\ Authenticated(u, v)
    /\ LET keys == KeysAt(u, i, Enabled(u))
       IN  \E failed \in AddFailures(Missing(keys)) :
             /\ Reconcile(u, i, Enabled(u), failed)
             /\ op' = IF failed = {} THEN Handler("knock", u, None, i, v, FALSE) ELSE Idle
             /\ seen' = IF failed = {} THEN keys ELSE {}
    /\ UNCHANGED <<db, guard, base, toggles, unsynced>>

\* RecordIPChange, then the rules of the enabled groups at the old address.
KnockRecord ==
    /\ op.kind = "knock"
    /\ users[op.user] = "live"
    /\ LET u == op.user
           old == ip[u]
           prior == IF old = None \/ old = op.ip THEN {}
                    ELSE {AtIP(k, old) : k \in seen}
       IN  /\ ip' = [ip EXCEPT ![u] = op.ip]
           /\ idle' = [idle EXCEPT ![u] = FALSE]
           /\ proof' = [proof EXCEPT ![u] = op.ver]
           /\ FwPass({}, {}, OneCopy(prior))
    /\ Release
    /\ UNCHANGED <<users, secret, groups, member, guard, base, toggles, unsynced>>

-----------------------------------------------------------------------------
(* Toggling a membership, by its user or by an admin *)

\* Authentication, the existence of user and group, and for a user enabling a
\* group of their own a membership row: all read before fwMu is taken.
BeginToggle(u, g, en, by) ==
    /\ Cardinality(toggles) < MaxToggles
    /\ users[u] = "live" /\ groups[g] = "live"
    /\ en /\ by = "self" => member[u][g] # "none"
    /\ toggles' = toggles \cup {[user |-> u, group |-> g, enabled |-> en]}
    /\ UNCHANGED <<db, fw, op, seen, unsynced, drift>>

\* setMembership, database half.
SetMembership(t) ==
    /\ Free
    /\ t \in toggles
    /\ toggles' = toggles \ {t}
    /\ SetMembershipEnabled(t.user, t.group, t.enabled)
    /\ op' = Handler("toggle", t.user, t.group, None, 0, t.enabled)
    /\ UNCHANGED <<users, ip, idle, secret, proof, groups, fw, seen, unsynced, drift>>

\* Variant: enabling reconciles the toggled group alone.
SetMembershipSyncOne ==
    /\ op.kind = "toggle"
    /\ LET u == op.user
       IN  \/ /\ u \notin Online
              /\ UNCHANGED <<rules, drift>>
           \/ /\ u \in Online /\ ~op.flag
              /\ FwPass({}, {}, OneCopy({RuleKey(u, ip[u], op.group)}))
           \/ /\ u \in Online /\ op.flag
              /\ \E failed \in AddFailures(Missing(KeysAt(u, ip[u], {op.group}))) :
                   Reconcile(u, ip[u], {op.group}, failed)
    /\ Release
    /\ UNCHANGED <<db, guard, base, toggles, unsynced>>

\* setMembership, firewall half: the user is read again under the lock.
SetMembershipSync ==
    /\ op.kind = "toggle"
    /\ LET u == op.user
       IN  \/ /\ u \notin Online
              /\ UNCHANGED <<rules, drift>>
           \/ /\ u \in Online /\ ~op.flag
              /\ FwPass({}, {}, OneCopy({RuleKey(u, ip[u], op.group)}))
           \/ /\ u \in Online /\ op.flag
              /\ \E failed \in AddFailures(Missing(KeysAt(u, ip[u], Enabled(u)))) :
                   Reconcile(u, ip[u], Enabled(u), failed)
    /\ Release
    /\ UNCHANGED <<db, guard, base, toggles, unsynced>>

-----------------------------------------------------------------------------
(* Admin: users and memberships *)

\* UNIQUE(username); takes no fwMu.
CreateUser(u) ==
    /\ users[u] = "new"
    /\ \A w \in LiveUsers : NameOf[w] # NameOf[u]
    /\ users' = [users EXCEPT ![u] = "live"]
    /\ UNCHANGED <<ip, idle, secret, proof, groups, member, fw, op, seen,
                   toggles, unsynced, drift>>

\* The membership is upserted; an online user's port is opened when enabled.
AddMembership(u, g, en) ==
    /\ Free
    /\ users[u] = "live" /\ groups[g] = "live"
    /\ ReAdd \/ member[u][g] = "none"
    /\ en /\ ip[u] # None => rules[RuleKey(u, ip[u], g)] < MaxCopies
    /\ member' = [member EXCEPT ![u][g] = IF en THEN "on" ELSE "off"]
    /\ op' = IF en /\ ip[u] # None THEN Handler("join", u, g, ip[u], 0, FALSE) ELSE Idle
    /\ UNCHANGED <<users, ip, idle, secret, proof, groups, fw, seen, toggles,
                   unsynced, drift>>

\* AddRule inserts a rule whether or not one exists; its error is dropped.
AddMembershipRule ==
    /\ op.kind = "join"
    /\ LET adds == {RuleKey(op.user, op.ip, op.group)}
       IN  \E failed \in AddFailures(adds) : FwPass(adds, failed, NoCopies)
    /\ Release
    /\ UNCHANGED <<db, guard, base, toggles, unsynced>>

RemoveMembership(u, g) ==
    /\ Free
    /\ users[u] = "live" /\ groups[g] = "live"
    /\ member' = [member EXCEPT ![u][g] = "none"]
    /\ op' = IF ip[u] # None THEN Handler("leave", u, g, ip[u], 0, FALSE) ELSE Idle
    /\ UNCHANGED <<users, ip, idle, secret, proof, groups, fw, seen, toggles,
                   unsynced, drift>>

RemoveMembershipRule ==
    /\ op.kind = "leave"
    /\ FwPass({}, {}, OneCopy({RuleKey(op.user, op.ip, op.group)}))
    /\ Release
    /\ UNCHANGED <<db, guard, base, toggles, unsynced>>

\* Revoke: every rule of the user, then the runtime state, then the secret.
Revoke(u, rotate) ==
    /\ Free
    /\ users[u] = "live"
    /\ rotate => secret[u] < MaxRotations
    /\ FwPass({}, {}, UserCopies(u))
    /\ op' = Handler("revoke", u, None, None, 0, rotate)
    /\ UNCHANGED <<db, guard, base, seen, toggles, unsynced>>

ClearUserState(u) == /\ ip' = [ip EXCEPT ![u] = None]
                     /\ idle' = [idle EXCEPT ![u] = FALSE]
                     /\ proof' = [proof EXCEPT ![u] = 0]

RevokeClear ==
    /\ op.kind = "revoke"
    /\ ClearUserState(op.user)
    /\ op' = IF op.flag THEN Handler("rotate", op.user, None, None, 0, FALSE) ELSE Idle
    /\ UNCHANGED <<users, secret, groups, member, fw, seen, toggles, unsynced, drift>>

RevokeRotate ==
    /\ op.kind = "rotate"
    /\ secret' = [secret EXCEPT ![op.user] = @ + 1]
    /\ Release
    /\ UNCHANGED <<users, ip, idle, proof, groups, member, fw, toggles, unsynced, drift>>

DeleteUser(u) ==
    /\ Free
    /\ users[u] = "live"
    /\ FwPass({}, {}, UserCopies(u))
    /\ op' = Handler("userdel", u, None, None, 0, FALSE)
    /\ UNCHANGED <<db, guard, base, seen, toggles, unsynced>>

\* The row goes, its memberships with it (ON DELETE CASCADE).
DeleteUserRow ==
    /\ op.kind = "userdel"
    /\ users' = [users EXCEPT ![op.user] = "gone"]
    /\ ClearUserState(op.user)
    /\ member' = [member EXCEPT ![op.user] = NoRows]
    /\ Release
    /\ UNCHANGED <<secret, groups, fw, toggles, unsynced, drift>>

-----------------------------------------------------------------------------
(* Admin: groups *)

\* UNIQUE(name), UNIQUE(port, proto); the insert takes no fwMu.
CreateGroup(g) ==
    /\ groups[g] = "new"
    /\ \A h \in LiveGroups : GroupName[h] # GroupName[g] /\ PortOf[h] # PortOf[g]
    /\ groups' = [groups EXCEPT ![g] = "live"]
    /\ unsynced' = unsynced \cup {g}
    /\ UNCHANGED <<users, ip, idle, secret, proof, member, fw, op, seen, toggles, drift>>

SyncGuardNow(g) ==
    /\ Free
    /\ g \in unsynced
    /\ unsynced' = unsynced \ {g}
    /\ \/ SyncGuardOk /\ UNCHANGED drift
       \/ SyncGuardFails /\ drift' = "new"
    /\ UNCHANGED <<db, op, seen, toggles>>

\* One rule per member with an address, enabled or not.
DeleteGroup(g) ==
    /\ Free
    /\ groups[g] = "live"
    /\ LET members == {u \in Online : member[u][g] # "none"}
       IN  FwPass({}, {}, OneCopy({RuleKey(u, ip[u], g) : u \in members}))
    /\ op' = Handler("groupdel", None, g, None, 0, FALSE)
    /\ UNCHANGED <<db, guard, base, seen, toggles, unsynced>>

\* Variant: the guard is not brought up to date.
DeleteGroupRowNoSync ==
    /\ op.kind = "groupdel"
    /\ groups' = [groups EXCEPT ![op.group] = "gone"]
    /\ member' = [u \in UserIds |-> [member[u] EXCEPT ![op.group] = "none"]]
    /\ op' = Idle
    /\ UNCHANGED <<users, ip, idle, secret, proof, fw, seen, toggles, unsynced, drift>>

DeleteGroupRow ==
    /\ op.kind = "groupdel"
    /\ groups' = [groups EXCEPT ![op.group] = "gone"]
    /\ member' = [u \in UserIds |-> [member[u] EXCEPT ![op.group] = "none"]]
    /\ GoOn("groupsync")
    /\ UNCHANGED <<users, ip, idle, secret, proof, fw, seen, toggles, unsynced, drift>>

DeleteGroupSync ==
    /\ op.kind = "groupsync"
    /\ \/ SyncGuardOk /\ UNCHANGED drift
       \/ SyncGuardFails /\ drift' = "new"
    /\ Release
    /\ UNCHANGED <<db, toggles, unsynced>>

-----------------------------------------------------------------------------
(* Maintain: at start and every 30 seconds *)

\* EnsureBase (an error ends the pass); the cleanup is due once an hour.
MaintainBegin(due) ==
    /\ Free
    /\ base' = TRUE
    /\ op' = Handler(IF due THEN "cleanup" ELSE "read", None, None, None, 0, FALSE)
    /\ drift' = IF drift = "new" THEN "old" ELSE drift
    /\ UNCHANGED <<db, rules, guard, seen, toggles, unsynced>>

Expired == {u \in Online : idle[u]}

\* CleanupStale, one user: errors of the firewall are logged, an error of the
\* database ends the cleanup and Maintain goes on.
CleanupStale(u) ==
    /\ op.kind = "cleanup"
    /\ u \in Expired
    /\ FwPass({}, {}, OneCopy(KeysAt(u, ip[u], Enabled(u))))
    /\ \/ ClearUserState(u) /\ UNCHANGED op
       \/ /\ "db" \in Faults
          /\ GoOn("read")
          /\ UNCHANGED <<ip, idle, proof>>
    /\ UNCHANGED <<users, secret, groups, member, guard, base, seen, toggles, unsynced>>

CleanupDone ==
    /\ op.kind = "cleanup"
    /\ Expired = {}
    /\ GoOn("read")
    /\ UNCHANGED <<db, fw, seen, toggles, unsynced, drift>>

MaintainRead ==
    /\ op.kind = "read"
    /\ GoOn("apply")
    /\ seen' = DesiredStateLocal
    /\ UNCHANGED <<db, fw, toggles, unsynced, drift>>

\* ReconcileAll with the desired rules read before.
ReconcileAll ==
    /\ op.kind = "apply"
    /\ \E failed \in AddFailures(Missing(seen)) :
         FwPass(Missing(seen), failed, SurplusCopies(seen))
    /\ GoOn("guard")
    /\ seen' = {}
    /\ UNCHANGED <<db, guard, base, toggles, unsynced>>

\* A pass that met no failure has repaired what was broken before it began.
MaintainGuard ==
    /\ op.kind = "guard"
    /\ \/ SyncGuardOk /\ drift' = (IF drift = "old" THEN "none" ELSE drift)
       \/ SyncGuardFails /\ drift' = "new"
    /\ Release
    /\ UNCHANGED <<db, toggles, unsynced>>

-----------------------------------------------------------------------------
(* Failures and the environment *)

\* A database error where the handler returns early (500, or unreported in
\* setMembership and Maintain): what it did to the firewall stays.
AbortKinds == {"knock", "toggle", "revoke", "rotate", "userdel", "groupdel", "read"}

Abort ==
    /\ "db" \in Faults
    /\ op.kind \in AbortKinds
    /\ Release
    /\ drift' = "new"
    /\ UNCHANGED <<db, fw, toggles, unsynced>>

\* The process dies and is started again; the chain and the database survive.
Crash ==
    /\ "crash" \in Faults
    /\ Release
    /\ toggles' = {} /\ unsynced' = {}
    /\ drift' = IF Free /\ unsynced = {} THEN drift ELSE "new"
    /\ UNCHANGED <<db, fw>>

\* `systemctl restart nftables` flushes the whole ruleset.
Flush ==
    /\ "flush" \in Faults
    /\ base' = FALSE /\ rules' = NoCopies /\ guard' = {}
    /\ drift' = "new"
    /\ UNCHANGED <<db, op, seen, toggles, unsynced>>

\* A recorded user does not knock for longer than cleanup_max_age_days.
GrowIdle(u) ==
    /\ u \in Online /\ ~idle[u]
    /\ idle' = [idle EXCEPT ![u] = TRUE]
    /\ UNCHANGED <<users, ip, secret, proof, groups, member, fw, op, seen,
                   toggles, unsynced, drift>>

-----------------------------------------------------------------------------
Init ==
    /\ users = [u \in UserIds |-> "new"]
    /\ ip = [u \in UserIds |-> None]
    /\ idle = [u \in UserIds |-> FALSE]
    /\ secret = [u \in UserIds |-> 0]
    /\ proof = [u \in UserIds |-> 0]
    /\ groups = [g \in GroupIds |-> "new"]
    /\ member = [u \in UserIds |-> NoRows]
    /\ rules = NoCopies
    /\ guard = {}
    /\ base = TRUE
    /\ op = Idle
    /\ seen = {}
    /\ toggles = {}
    /\ unsynced = {}
    /\ drift = "none"

\* A handler that needs fwMu starts.
Start ==
    \/ \E u \in UserIds, i \in IPs, v \in 0..MaxRotations : Knock(u, i, v)
    \/ \E t \in toggles : SetMembership(t)
    \/ \E u \in UserIds, g \in GroupIds, en \in BOOLEAN : AddMembership(u, g, en)
    \/ \E u \in UserIds, g \in GroupIds : RemoveMembership(u, g)
    \/ \E u \in UserIds, rotate \in BOOLEAN : Revoke(u, rotate)
    \/ \E u \in UserIds : DeleteUser(u)
    \/ \E g \in GroupIds : DeleteGroup(g)
    \/ \E g \in GroupIds : SyncGuardNow(g)

Tick == \E due \in BOOLEAN : MaintainBegin(due)

\* The handler that holds fwMu goes on.
Continue ==
    \/ KnockRecord \/ SetMembershipSync
    \/ AddMembershipRule \/ RemoveMembershipRule
    \/ RevokeClear \/ RevokeRotate \/ DeleteUserRow
    \/ DeleteGroupRow \/ DeleteGroupSync
    \/ \E u \in UserIds : CleanupStale(u)
    \/ CleanupDone \/ MaintainRead \/ ReconcileAll \/ MaintainGuard

\* Work that takes no fwMu.
Unlocked ==
    \/ \E u \in UserIds : CreateUser(u)
    \/ \E g \in GroupIds : CreateGroup(g)
    \/ \E u \in UserIds, g \in GroupIds, en \in BOOLEAN, by \in {"self", "admin"} :
         BeginToggle(u, g, en, by)

Environment == Abort \/ Crash \/ Flush \/ \E u \in UserIds : GrowIdle(u)

Next == Start \/ Tick \/ Continue \/ Unlocked \/ Environment

Spec == Init /\ [][Next]_vars

-----------------------------------------------------------------------------
(* Properties *)

OpKinds == {"idle", "knock", "toggle", "join", "leave", "revoke", "rotate", "userdel",
            "groupdel", "groupsync", "cleanup", "read", "apply", "guard"}

UserOps == {"knock", "toggle", "join", "leave", "revoke", "rotate", "userdel"}
GroupOps == {"toggle", "join", "leave", "groupdel", "groupsync"}

\* Every variable has its type, and a handler in progress names what it works on.
TypeOK ==
    /\ users \in [UserIds -> {"new", "live", "gone"}]
    /\ ip \in [UserIds -> IPs \cup {None}]
    /\ idle \in [UserIds -> BOOLEAN]
    /\ secret \in [UserIds -> Nat]
    /\ proof \in [UserIds -> Nat]
    /\ groups \in [GroupIds -> {"new", "live", "gone"}]
    /\ member \in [UserIds -> [GroupIds -> {"none", "on", "off"}]]
    /\ rules \in [Key -> Nat]
    /\ guard \in SUBSET Ports
    /\ base \in BOOLEAN
    /\ op \in [kind : OpKinds, user : UserIds \cup {None}, group : GroupIds \cup {None},
              ip : IPs \cup {None}, ver : Nat, flag : BOOLEAN]
    /\ op.kind \in UserOps => op.user \in UserIds
    /\ op.kind \in GroupOps => op.group \in GroupIds
    /\ op.kind \in {"knock", "join", "leave"} => op.ip \in IPs
    /\ seen \in SUBSET Key
    /\ toggles \in SUBSET [user : UserIds, group : GroupIds, enabled : BOOLEAN]
    /\ unsynced \in SUBSET GroupIds
    /\ drift \in {"none", "old", "new"}

\* Nobody holds fwMu, and every failure so far was followed by a clean Maintain.
Settled == Free /\ drift = "none"

\* The fwMu comment promises that a knock and a revoke do not overlap: an address
\* is on record only if the secret that vouched for it is still the user's
\* secret, so a rotated secret leaves nothing behind that the old one opened.
AddressBoundToSecret == \A u \in Online : proof[u] = secret[u]

\* Whatever sequence of knocks, toggles, joins, revokes, deletions and clean-ups
\* has run, an allow rule belongs to an existing user and admits the address
\* that user has on record: no rule stays at an earlier address or for a
\* revoked, expired or deleted user.
RulesAtCurrentAddress ==
    Settled => \A k \in Key : rules[k] > 0 =>
                   \E u \in Online : NameOf[u] = k.user /\ ip[u] = k.ip

\* The guard closes the port of every group, except one whose creation has not
\* reached syncGuardNow, and never a port that no group manages any more.
GuardClosesGroupPorts ==
    Settled => /\ guard \subseteq GroupPorts
               /\ \A g \in LiveGroups \ unsynced : PortOf[g] \in guard

\* An enabled membership of a user with an address is open in the firewall.
DesiredIsOpen == Settled => \A k \in DesiredStateLocal : rules[k] > 0

\* The fwMu comment: "database write and firewall change together".  When no
\* handler runs the chain holds one rule per desired access and nothing else.
FirewallMatchesDatabase ==
    Settled => rules = [k \in Key |-> IF k \in DesiredStateLocal THEN 1 ELSE 0]

\* A toggle decides on rows it read before it took fwMu, yet only an admin's
\* AddMembership ever makes a membership: one removed meanwhile stays removed.
OnlyAdminGrants ==
    [][\A u \in UserIds, g \in GroupIds :
         member[u][g] = "none" /\ member'[u][g] # "none"
            => \E en \in BOOLEAN : AddMembership(u, g, en)]_vars

\* Once failures stop, Maintain brings chain and guard back to the database
\* again and again, whatever the handlers do in between.
InSync == /\ rules = [k \in Key |-> IF k \in DesiredStateLocal THEN 1 ELSE 0]
          /\ guard = GroupPorts
MaintainRepairs == <>[](drift # "new") => []<>InSync

-----------------------------------------------------------------------------
\* serve's ticker calls Maintain for ever and sync.Mutex does not starve a
\* waiter; a handler that holds fwMu runs to its end (nft has a 30 s timeout).
FairSpec == Spec /\ SF_vars(Tick) /\ WF_vars(Continue)
=============================================================================
