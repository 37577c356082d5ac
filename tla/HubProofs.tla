------------------------------ MODULE HubProofs ------------------------------
(***************************************************************************)
(* Theorems about Hub for every number of users, groups, addresses and     *)
(* copies, and every combination of failures.                              *)
(***************************************************************************)
EXTENDS Hub, TLAPS

-----------------------------------------------------------------------------
(* Lemmas about the operators of the firewall *)

\* A rule computed from an existing user, address and group is a key.
LEMMA RuleKeyType ==
    ASSUME NEW u \in UserIds, NEW i \in IPs, NEW g \in GroupIds
    PROVE  RuleKey(u, i, g) \in Key
BY NamesAssumption DEF RuleKey, Key

\* The rules of a user at an address are keys.
LEMMA KeysAtType ==
    ASSUME NEW u \in UserIds, NEW i \in IPs, NEW gs \in SUBSET GroupIds
    PROVE  KeysAt(u, i, gs) \in SUBSET Key
BY RuleKeyType DEF KeysAt

\* Each deletion asks for copies that exist.
Deletable(extra) == /\ extra \in [Key -> Nat]
                    /\ \A k \in Key : extra[k] <= rules[k]

\* No set of copies to delete exceeds what the chain has.
LEMMA DeletionsExist ==
    ASSUME TypeOK
    PROVE  /\ Deletable(NoCopies)
           /\ \A keys : Deletable(OneCopy(keys))
           /\ \A u, i, gs : Deletable(StaleCopies(u, i, gs))
           /\ \A u : Deletable(UserCopies(u))
           /\ \A want : Deletable(SurplusCopies(want))
<1> USE DEF TypeOK, Deletable
<1>1. Deletable(NoCopies)
  BY DEF NoCopies
<1>2. ASSUME NEW keys PROVE Deletable(OneCopy(keys))
  BY DEF OneCopy
<1>3. ASSUME NEW u, NEW i, NEW gs PROVE Deletable(StaleCopies(u, i, gs))
  BY DEF StaleCopies
<1>4. ASSUME NEW u PROVE Deletable(UserCopies(u))
  BY DEF UserCopies
<1>5. ASSUME NEW want PROVE Deletable(SurplusCopies(want))
  BY DEF SurplusCopies
<1>. QED BY <1>1, <1>2, <1>3, <1>4, <1>5

\* A pass over the firewall keeps counts natural, and leaves drift alone only
\* when every add and every deletion took place.
LEMMA FwPassEffect ==
    ASSUME TypeOK, NEW adds, NEW failed, NEW extra, Deletable(extra),
           FwPass(adds, failed, extra)
    PROVE  /\ rules' \in [Key -> Nat]
           /\ drift' \in {"none", "old", "new"}
           /\ drift' # "new" =>
                /\ drift' = drift
                /\ failed = {}
                /\ \A k \in Key : rules'[k] = IF k \in adds THEN rules[k] + 1
                                              ELSE rules[k] - extra[k]
<1>1. PICK left \in Survivors(extra) :
        /\ rules' = [k \in Key |->
                        IF k \in adds \ failed THEN rules[k] + 1
                        ELSE rules[k] - extra[k]
                             + (IF extra[k] > 0 THEN left[k] ELSE 0)]
        /\ drift' = IF failed = {} /\ \A k \in DOMAIN left : left[k] = 0
                    THEN drift ELSE "new"
  BY DEF FwPass
<1> DEFINE touched == {k \in Key : extra[k] > 0}
<1>2. left \in [touched -> Nat]
  BY BoundsAssumption DEF Survivors
<1>3. \A k \in Key : rules[k] \in Nat /\ extra[k] \in Nat /\ extra[k] <= rules[k]
  BY DEF TypeOK, Deletable
<1>4. \A k \in Key : extra[k] > 0 => left[k] \in Nat
  BY <1>2
<1>5. rules' \in [Key -> Nat]
  BY <1>1, <1>3, <1>4
<1>6. ASSUME drift' # "new"
      PROVE  /\ drift' = drift /\ failed = {}
             /\ \A k \in Key : rules'[k] = IF k \in adds THEN rules[k] + 1
                                           ELSE rules[k] - extra[k]
  <2>1. failed = {} /\ drift' = drift /\ \A k \in touched : left[k] = 0
    BY <1>1, <1>2, <1>6
  <2>. QED BY <2>1, <1>1, <1>3
<1>7. drift' \in {"none", "old", "new"}
  BY <1>1 DEF TypeOK
<1>. QED BY <1>5, <1>6, <1>7

\* What the database asks for are keys.
LEMMA DesiredType ==
    ASSUME TypeOK
    PROVE  DesiredStateLocal \in SUBSET Key
<1>1. ASSUME NEW u \in Online PROVE KeysAt(u, ip[u], Enabled(u)) \in SUBSET Key
  <2>1. u \in UserIds /\ ip[u] \in IPs
    BY DEF Online, TypeOK
  <2>2. Enabled(u) \in SUBSET GroupIds
    BY DEF Enabled
  <2>. QED BY <2>1, <2>2, KeysAtType
<1>. QED BY <1>1 DEF DesiredStateLocal

-----------------------------------------------------------------------------
(* Type correctness *)

\* Every step preserves the types.
LEMMA TypeStep ==
    ASSUME TypeOK, [Next]_vars
    PROVE  TypeOK'
<1> USE DEF TypeOK, OpKinds, UserOps, GroupOps, Idle, Handler, Release, GoOn, db, fw
<1>1. ASSUME NEW u \in UserIds, NEW i \in IPs, NEW v \in 0..MaxRotations, Knock(u, i, v)
      PROVE  TypeOK'
  <2>1. Enabled(u) \in SUBSET GroupIds
    BY DEF Enabled
  <2>2. KeysAt(u, i, Enabled(u)) \in SUBSET Key
    BY <2>1, KeysAtType
  <2>3. PICK failed : FwPass(Missing(KeysAt(u, i, Enabled(u))), failed, StaleCopies(u, i, Enabled(u)))
    BY <1>1 DEF Knock, Reconcile
  <2>4. rules' \in [Key -> Nat] /\ drift' \in {"none", "old", "new"}
    BY <2>3, FwPassEffect, DeletionsExist
  <2>5. v \in Nat
    BY BoundsAssumption
  <2>. QED BY <1>1, <2>2, <2>4, <2>5 DEF Knock
<1>2. ASSUME KnockRecord PROVE TypeOK'
  <2>1. PICK prior : FwPass({}, {}, OneCopy(prior))
    BY <1>2 DEF KnockRecord
  <2>2. rules' \in [Key -> Nat] /\ drift' \in {"none", "old", "new"}
    BY <2>1, FwPassEffect, DeletionsExist
  <2>. QED BY <1>2, <2>2 DEF KnockRecord
<1>3. ASSUME NEW u \in UserIds, NEW g \in GroupIds, NEW en \in BOOLEAN,
             NEW by \in {"self", "admin"}, BeginToggle(u, g, en, by)
      PROVE  TypeOK'
  BY <1>3 DEF BeginToggle
<1>4. ASSUME NEW t \in toggles, SetMembership(t) PROVE TypeOK'
  BY <1>4 DEF SetMembership, SetMembershipEnabled
<1>5. ASSUME SetMembershipSync PROVE TypeOK'
  <2>1. CASE UNCHANGED <<rules, drift>>
    BY <1>5, <2>1 DEF SetMembershipSync
  <2>2. CASE FwPass({}, {}, OneCopy({RuleKey(op.user, ip[op.user], op.group)}))
    <3>1. rules' \in [Key -> Nat] /\ drift' \in {"none", "old", "new"}
      BY <2>2, FwPassEffect, DeletionsExist
    <3>. QED BY <1>5, <3>1 DEF SetMembershipSync
  <2>3. ASSUME NEW failed, Reconcile(op.user, ip[op.user], Enabled(op.user), failed)
        PROVE  TypeOK'
    <3>1. rules' \in [Key -> Nat] /\ drift' \in {"none", "old", "new"}
      BY <2>3, FwPassEffect, DeletionsExist DEF Reconcile
    <3>. QED BY <1>5, <3>1 DEF SetMembershipSync
  <2>. QED BY <1>5, <2>1, <2>2, <2>3 DEF SetMembershipSync
<1>6. ASSUME NEW u \in UserIds, CreateUser(u) PROVE TypeOK'
  BY <1>6 DEF CreateUser
<1>7. ASSUME NEW u \in UserIds, NEW g \in GroupIds, NEW en \in BOOLEAN, AddMembership(u, g, en)
      PROVE  TypeOK'
  BY <1>7 DEF AddMembership
<1>8. ASSUME AddMembershipRule PROVE TypeOK'
  <2>1. PICK failed : FwPass({RuleKey(op.user, op.ip, op.group)}, failed, NoCopies)
    BY <1>8 DEF AddMembershipRule
  <2>2. rules' \in [Key -> Nat] /\ drift' \in {"none", "old", "new"}
    BY <2>1, FwPassEffect, DeletionsExist
  <2>. QED BY <1>8, <2>2 DEF AddMembershipRule
<1>9. ASSUME NEW u \in UserIds, NEW g \in GroupIds, RemoveMembership(u, g) PROVE TypeOK'
  BY <1>9 DEF RemoveMembership
<1>10. ASSUME RemoveMembershipRule PROVE TypeOK'
  <2>1. rules' \in [Key -> Nat] /\ drift' \in {"none", "old", "new"}
    BY <1>10, FwPassEffect, DeletionsExist DEF RemoveMembershipRule
  <2>. QED BY <1>10, <2>1 DEF RemoveMembershipRule
<1>11. ASSUME NEW u \in UserIds, NEW rotate \in BOOLEAN, Revoke(u, rotate) PROVE TypeOK'
  <2>1. rules' \in [Key -> Nat] /\ drift' \in {"none", "old", "new"}
    BY <1>11, FwPassEffect, DeletionsExist DEF Revoke
  <2>. QED BY <1>11, <2>1 DEF Revoke
<1>12. ASSUME RevokeClear PROVE TypeOK'
  BY <1>12 DEF RevokeClear, ClearUserState
<1>13. ASSUME RevokeRotate PROVE TypeOK'
  BY <1>13 DEF RevokeRotate
<1>14. ASSUME NEW u \in UserIds, DeleteUser(u) PROVE TypeOK'
  <2>1. rules' \in [Key -> Nat] /\ drift' \in {"none", "old", "new"}
    BY <1>14, FwPassEffect, DeletionsExist DEF DeleteUser
  <2>. QED BY <1>14, <2>1 DEF DeleteUser
<1>15. ASSUME DeleteUserRow PROVE TypeOK'
  BY <1>15 DEF DeleteUserRow, ClearUserState, NoRows
<1>16. ASSUME NEW g \in GroupIds, CreateGroup(g) PROVE TypeOK'
  BY <1>16 DEF CreateGroup
<1>17. GroupPorts \in SUBSET Ports
  BY NamesAssumption DEF GroupPorts, LiveGroups
<1>18. ASSUME NEW g \in GroupIds, SyncGuardNow(g) PROVE TypeOK'
  BY <1>17, <1>18 DEF SyncGuardNow, SyncGuardOk, SyncGuardFails
<1>19. ASSUME NEW g \in GroupIds, DeleteGroup(g) PROVE TypeOK'
  <2>1. rules' \in [Key -> Nat] /\ drift' \in {"none", "old", "new"}
    BY <1>19, FwPassEffect, DeletionsExist DEF DeleteGroup
  <2>. QED BY <1>19, <2>1 DEF DeleteGroup
<1>20. ASSUME DeleteGroupRow PROVE TypeOK'
  BY <1>20 DEF DeleteGroupRow
<1>21. ASSUME DeleteGroupSync PROVE TypeOK'
  BY <1>17, <1>21 DEF DeleteGroupSync, SyncGuardOk, SyncGuardFails
<1>22. ASSUME NEW due \in BOOLEAN, MaintainBegin(due) PROVE TypeOK'
  BY <1>22 DEF MaintainBegin
<1>23. ASSUME NEW u \in UserIds, CleanupStale(u) PROVE TypeOK'
  <2>1. rules' \in [Key -> Nat] /\ drift' \in {"none", "old", "new"}
    BY <1>23, FwPassEffect, DeletionsExist DEF CleanupStale
  <2>2. CASE ClearUserState(u) /\ UNCHANGED op
    BY <1>23, <2>1, <2>2 DEF CleanupStale, ClearUserState
  <2>3. CASE GoOn("read") /\ UNCHANGED <<ip, idle, proof>>
    BY <1>23, <2>1, <2>3 DEF CleanupStale
  <2>. QED BY <1>23, <2>2, <2>3 DEF CleanupStale
<1>24. ASSUME CleanupDone PROVE TypeOK'
  BY <1>24 DEF CleanupDone
<1>25. ASSUME MaintainRead PROVE TypeOK'
  BY <1>25, DesiredType DEF MaintainRead
<1>26. ASSUME ReconcileAll PROVE TypeOK'
  <2>1. PICK failed : FwPass(Missing(seen), failed, SurplusCopies(seen))
    BY <1>26 DEF ReconcileAll
  <2>2. rules' \in [Key -> Nat] /\ drift' \in {"none", "old", "new"}
    BY <2>1, FwPassEffect, DeletionsExist
  <2>. QED BY <1>26, <2>2 DEF ReconcileAll
<1>27. ASSUME MaintainGuard PROVE TypeOK'
  BY <1>17, <1>27 DEF MaintainGuard, SyncGuardOk, SyncGuardFails
<1>28. ASSUME Environment PROVE TypeOK'
  <2>1. ASSUME Abort PROVE TypeOK'
    BY <2>1 DEF Abort
  <2>2. ASSUME Crash PROVE TypeOK'
    BY <2>2 DEF Crash
  <2>3. ASSUME Flush PROVE TypeOK'
    BY <2>3 DEF Flush, NoCopies
  <2>4. ASSUME NEW u \in UserIds, GrowIdle(u) PROVE TypeOK'
    BY <2>4 DEF GrowIdle
  <2>. QED BY <1>28, <2>1, <2>2, <2>3, <2>4 DEF Environment
<1>29. CASE UNCHANGED vars
  BY <1>29 DEF vars
<1>. QED
  BY <1>1, <1>2, <1>3, <1>4, <1>5, <1>6, <1>7, <1>8, <1>9, <1>10, <1>11, <1>12, <1>13,
     <1>14, <1>15, <1>16, <1>18, <1>19, <1>20, <1>21, <1>22, <1>23, <1>24, <1>25,
     <1>26, <1>27, <1>28, <1>29
     DEF Next, Start, Tick, Continue, Unlocked

\* Every variable keeps its type in every behaviour of the hub.
THEOREM TypeCorrect == Spec => []TypeOK
<1>1. Init => TypeOK
  BY DEF Init, TypeOK, OpKinds, UserOps, GroupOps, Idle, Handler, NoRows, NoCopies
<1>. QED BY <1>1, TypeStep, PTL DEF Spec

-----------------------------------------------------------------------------
(* Users and the handler in progress *)

\* The part of the inductive invariant that does not mention the firewall: at
\* most one existing user per name, addresses only for existing users, and what
\* a handler knows about the user it works on while it holds fwMu.
UsersInv ==
    /\ TypeOK
    /\ \A u, w \in LiveUsers : NameOf[u] = NameOf[w] => u = w
    /\ \A u \in UserIds : ip[u] # None => users[u] = "live"
    /\ op.kind \in UserOps \ {"toggle"} => users[op.user] = "live"
    /\ op.kind \in {"join", "leave"} => ip[op.user] = op.ip
    /\ op.kind = "rotate" => ip[op.user] = None
    /\ op.kind = "knock" => op.ver = secret[op.user]
    /\ \A u \in UserIds : ip[u] # None => proof[u] = secret[u]

\* At the start no user has an address.
LEMMA UsersInit == Init => UsersInv
BY DEF Init, UsersInv, TypeOK, OpKinds, UserOps, GroupOps, Idle, Handler, NoRows,
       NoCopies, LiveUsers

\* Every step keeps addresses bound to secrets.
LEMMA UsersStep ==
    ASSUME UsersInv, [Next]_vars
    PROVE  UsersInv'
<1>0. TypeOK /\ TypeOK'
  BY TypeStep DEF UsersInv
<1> USE <1>0, NoneAssumption DEF UsersInv, LiveUsers, UserOps, Idle, Free, Handler, Release, GoOn, db
<1>1. ASSUME NEW u \in UserIds, NEW i \in IPs, NEW v \in 0..MaxRotations, Knock(u, i, v)
      PROVE  UsersInv'
  BY <1>1 DEF Knock, Authenticated, TypeOK
<1>2. ASSUME KnockRecord
      PROVE  UsersInv'
  BY <1>2 DEF KnockRecord, TypeOK
<1>3. ASSUME NEW u \in UserIds, NEW g \in GroupIds, NEW en \in BOOLEAN,
             NEW by \in {"self", "admin"}, BeginToggle(u, g, en, by)
      PROVE  UsersInv'
  BY <1>3 DEF BeginToggle, TypeOK
<1>4. ASSUME NEW t \in toggles, SetMembership(t)
      PROVE  UsersInv'
  BY <1>4 DEF SetMembership, TypeOK
<1>5. ASSUME SetMembershipSync
      PROVE  UsersInv'
  BY <1>5 DEF SetMembershipSync, TypeOK
<1>6. ASSUME NEW u \in UserIds, CreateUser(u)
      PROVE  UsersInv'
  BY <1>6 DEF CreateUser, TypeOK
<1>7. ASSUME NEW u \in UserIds, NEW g \in GroupIds, NEW en \in BOOLEAN, AddMembership(u, g, en)
      PROVE  UsersInv'
  BY <1>7 DEF AddMembership, TypeOK
<1>8. ASSUME AddMembershipRule
      PROVE  UsersInv'
  BY <1>8 DEF AddMembershipRule, TypeOK
<1>9. ASSUME NEW u \in UserIds, NEW g \in GroupIds, RemoveMembership(u, g)
      PROVE  UsersInv'
  BY <1>9 DEF RemoveMembership, TypeOK
<1>10. ASSUME RemoveMembershipRule
      PROVE  UsersInv'
  BY <1>10 DEF RemoveMembershipRule, TypeOK
<1>11. ASSUME NEW u \in UserIds, NEW rotate \in BOOLEAN, Revoke(u, rotate)
      PROVE  UsersInv'
  BY <1>11 DEF Revoke, TypeOK
<1>12. ASSUME RevokeClear
      PROVE  UsersInv'
  BY <1>12 DEF RevokeClear, ClearUserState, TypeOK
<1>13. ASSUME RevokeRotate
      PROVE  UsersInv'
  BY <1>13 DEF RevokeRotate, TypeOK
<1>14. ASSUME NEW u \in UserIds, DeleteUser(u)
      PROVE  UsersInv'
  BY <1>14 DEF DeleteUser, TypeOK
<1>15. ASSUME DeleteUserRow
      PROVE  UsersInv'
  BY <1>15 DEF DeleteUserRow, ClearUserState, TypeOK
<1>16. ASSUME NEW g \in GroupIds, CreateGroup(g)
      PROVE  UsersInv'
  BY <1>16 DEF CreateGroup, TypeOK
<1>17. ASSUME NEW g \in GroupIds, SyncGuardNow(g)
      PROVE  UsersInv'
  BY <1>17 DEF SyncGuardNow, TypeOK
<1>18. ASSUME NEW g \in GroupIds, DeleteGroup(g)
      PROVE  UsersInv'
  BY <1>18 DEF DeleteGroup, TypeOK
<1>19. ASSUME DeleteGroupRow
      PROVE  UsersInv'
  BY <1>19 DEF DeleteGroupRow, TypeOK
<1>20. ASSUME DeleteGroupSync
      PROVE  UsersInv'
  BY <1>20 DEF DeleteGroupSync, TypeOK
<1>21. ASSUME NEW due \in BOOLEAN, MaintainBegin(due)
      PROVE  UsersInv'
  BY <1>21 DEF MaintainBegin, TypeOK
<1>22. ASSUME NEW u \in UserIds, CleanupStale(u)
      PROVE  UsersInv'
  <2>1. CASE ClearUserState(u) /\ UNCHANGED op
    BY <1>22, <2>1 DEF CleanupStale, ClearUserState, TypeOK
  <2>2. CASE GoOn("read") /\ UNCHANGED <<ip, idle, proof>>
    BY <1>22, <2>2 DEF CleanupStale, TypeOK
  <2>. QED BY <1>22, <2>1, <2>2 DEF CleanupStale
<1>23. ASSUME CleanupDone
      PROVE  UsersInv'
  BY <1>23 DEF CleanupDone, TypeOK
<1>24. ASSUME MaintainRead
      PROVE  UsersInv'
  BY <1>24 DEF MaintainRead, TypeOK
<1>25. ASSUME ReconcileAll
      PROVE  UsersInv'
  BY <1>25 DEF ReconcileAll, TypeOK
<1>26. ASSUME MaintainGuard
      PROVE  UsersInv'
  BY <1>26 DEF MaintainGuard, TypeOK
<1>27. ASSUME Abort
      PROVE  UsersInv'
  BY <1>27 DEF Abort, TypeOK
<1>28. ASSUME Crash
      PROVE  UsersInv'
  BY <1>28 DEF Crash, TypeOK
<1>29. ASSUME Flush
      PROVE  UsersInv'
  BY <1>29 DEF Flush, TypeOK
<1>30. ASSUME NEW u \in UserIds, GrowIdle(u)
      PROVE  UsersInv'
  BY <1>30 DEF GrowIdle, TypeOK
<1>31. CASE UNCHANGED vars
  BY <1>31 DEF vars, TypeOK
<1>. QED
  BY <1>1, <1>2, <1>3, <1>4, <1>5, <1>6, <1>7, <1>8, <1>9, <1>10, <1>11, <1>12, <1>13,
     <1>14, <1>15, <1>16, <1>17, <1>18, <1>19, <1>20, <1>21, <1>22, <1>23, <1>24, <1>25,
     <1>26, <1>27, <1>28, <1>29, <1>30, <1>31
     DEF Next, Start, Tick, Continue, Unlocked, Environment

\* For every number of rotations and however knocks, revokes and failures
\* interleave, no address is on record that a superseded secret vouched for.
THEOREM AddressIsBoundToSecret == Spec => []AddressBoundToSecret
<1>1. UsersInv => AddressBoundToSecret
  BY DEF UsersInv, AddressBoundToSecret, Online
<1>. QED BY <1>1, UsersInit, UsersStep, PTL DEF Spec

-----------------------------------------------------------------------------
(* Rules and addresses *)

Admitted(k) == \E u \in Online : NameOf[u] = k.user /\ ip[u] = k.ip

\* The rules of the user a handler is moving or removing.
Moving(k) == op.kind \in {"knock", "revoke", "userdel"} /\ k.user = NameOf[op.user]

\* Between its steps a knock has only rules at the new address, a revoke and a
\* deletion have none.
Placed == \A k \in Key : rules[k] > 0 =>
              IF Moving(k) THEN op.kind = "knock" /\ k.ip = op.ip ELSE Admitted(k)

\* When the chain can be relied on: no failure is outstanding and Maintain is not
\* between its clean-up and its ReconcileAll, or its ReconcileAll met no failure.
Reliable == \/ drift = "none" /\ op.kind \notin {"cleanup", "read", "apply"}
            \/ drift = "old" /\ op.kind = "guard"

AddressInv == /\ UsersInv
              /\ op.kind = "apply" => seen = DesiredStateLocal
              /\ Reliable => Placed

\* While Maintain holds fwMu nothing changes what it read from the database.
LEMMA SeenStep ==
    ASSUME UsersInv, op.kind = "apply" => seen = DesiredStateLocal, [Next]_vars
    PROVE  (op.kind = "apply" => seen = DesiredStateLocal)'
<1> SUFFICES ASSUME op'.kind = "apply" PROVE seen' = DesiredStateLocal'
  OBVIOUS
<1>1. ASSUME UNCHANGED <<ip, member>>, seen' = seen, op.kind = "apply", Online' = Online
      PROVE  seen' = DesiredStateLocal'
  BY <1>1 DEF DesiredStateLocal, KeysAt, RuleKey, Enabled
<1> USE DEF Idle, Free, Handler, Release, GoOn, db
<1>2. ASSUME MaintainRead PROVE seen' = DesiredStateLocal'
  BY <1>2 DEF MaintainRead, DesiredStateLocal, KeysAt, RuleKey, Enabled, Online
<1>3. ASSUME NEW u \in UserIds, CreateUser(u) PROVE seen' = DesiredStateLocal'
  <2>1. users' = [users EXCEPT ![u] = "live"] /\ UNCHANGED <<ip, member, op, seen>>
        /\ ip[u] = None
    BY <1>3 DEF CreateUser, UsersInv
  <2>2. Online' = Online
    BY <2>1 DEF Online, UsersInv, TypeOK
  <2>. QED BY <1>1, <2>1, <2>2
<1>4. ASSUME \/ \E g \in GroupIds : CreateGroup(g)
             \/ \E u \in UserIds, g \in GroupIds, en \in BOOLEAN, by \in {"self", "admin"} :
                  BeginToggle(u, g, en, by)
             \/ Flush
             \/ \E u \in UserIds : GrowIdle(u)
             \/ UNCHANGED vars
      PROVE  seen' = DesiredStateLocal'
  <2>1. UNCHANGED <<users, ip, member, op, seen>>
    BY <1>4 DEF CreateGroup, BeginToggle, Flush, GrowIdle, vars
  <2>. QED BY <1>1, <2>1 DEF Online
<1>5. ASSUME \/ Start \/ Tick \/ Abort \/ Crash
             \/ KnockRecord \/ SetMembershipSync
             \/ AddMembershipRule \/ RemoveMembershipRule
             \/ RevokeClear \/ RevokeRotate \/ DeleteUserRow
             \/ DeleteGroupRow \/ DeleteGroupSync
             \/ \E u \in UserIds : CleanupStale(u)
             \/ CleanupDone \/ ReconcileAll \/ MaintainGuard
      PROVE  FALSE
  <2>1. ASSUME Start PROVE FALSE
    <3>1. ASSUME NEW u \in UserIds, NEW i, NEW v, Knock(u, i, v) PROVE FALSE
      BY <3>1 DEF Knock
    <3>2. ASSUME NEW t \in toggles, SetMembership(t) PROVE FALSE
      BY <3>2 DEF SetMembership
    <3>3. ASSUME NEW u \in UserIds, NEW g, NEW en, AddMembership(u, g, en) PROVE FALSE
      BY <3>3 DEF AddMembership
    <3>4. ASSUME NEW u \in UserIds, NEW g, RemoveMembership(u, g) PROVE FALSE
      BY <3>4 DEF RemoveMembership
    <3>5. ASSUME NEW u \in UserIds, NEW rotate, Revoke(u, rotate) PROVE FALSE
      BY <3>5 DEF Revoke
    <3>6. ASSUME NEW u \in UserIds, DeleteUser(u) PROVE FALSE
      BY <3>6 DEF DeleteUser
    <3>7. ASSUME NEW g \in GroupIds, DeleteGroup(g) \/ SyncGuardNow(g) PROVE FALSE
      BY <3>7 DEF DeleteGroup, SyncGuardNow
    <3>. QED BY <2>1, <3>1, <3>2, <3>3, <3>4, <3>5, <3>6, <3>7 DEF Start
  <2>2. ASSUME NEW u \in UserIds, CleanupStale(u) PROVE FALSE
    BY <2>2 DEF CleanupStale
  <2>. QED
    BY <1>5, <2>1, <2>2 DEF Tick, MaintainBegin, Abort, Crash, KnockRecord, SetMembershipSync,
       AddMembershipRule, RemoveMembershipRule, RevokeClear, RevokeRotate, DeleteUserRow,
       DeleteGroupRow, DeleteGroupSync, CleanupDone, ReconcileAll, MaintainGuard
<1>. QED
  BY <1>2, <1>3, <1>4, <1>5 DEF Next, Continue, Unlocked, Environment

MovingKinds == {"knock", "revoke", "userdel"}

\* Outside a move, a step that adds no rule and moves no user keeps rules placed.
LEMMA PlacedShrinks ==
    ASSUME Placed, op.kind \notin MovingKinds, op'.kind \notin MovingKinds,
           UNCHANGED <<users, ip>>,
           \A k \in Key : rules'[k] > 0 => rules[k] > 0
    PROVE  Placed'
<1>1. \A k \in Key : Admitted(k) => Admitted(k)'
  BY DEF Admitted, Online
<1>. QED BY <1>1 DEF Placed, Moving, MovingKinds

\* A pass that deletes and adds nothing, and met no failure, only shrinks the chain.
LEMMA DeletingShrinks ==
    ASSUME TypeOK, NEW extra, Deletable(extra), FwPass({}, {}, extra), drift' # "new"
    PROVE  /\ drift' = drift
           /\ \A k \in Key : rules'[k] = rules[k] - extra[k]
           /\ \A k \in Key : rules'[k] > 0 => rules[k] > 0
<1>1. drift' = drift /\ \A k \in Key : rules'[k] = rules[k] - extra[k]
  BY FwPassEffect
<1>. QED BY <1>1 DEF TypeOK, Deletable

\* Every step keeps the rules of a reliable chain placed.
LEMMA PlacedStep ==
    ASSUME AddressInv, [Next]_vars, Reliable'
    PROVE  Placed'
<1>0. TypeOK /\ UsersInv
  BY DEF AddressInv, UsersInv
<1> USE <1>0
<1>a. drift' # "new"
  BY DEF Reliable
<1> USE DEF db, Free, Idle, Handler, Release, GoOn, MovingKinds
<1>1. ASSUME NEW u \in UserIds, NEW i \in IPs, NEW v \in 0..MaxRotations, Knock(u, i, v)
      PROVE  Placed'
  <2> DEFINE keys == KeysAt(u, i, Enabled(u))
             stale == StaleCopies(u, i, Enabled(u))
  <2>1. PICK failed : /\ FwPass(Missing(keys), failed, stale)
                      /\ op' = IF failed = {} THEN Handler("knock", u, None, i, v, FALSE) ELSE Idle
    BY <1>1 DEF Knock, Reconcile
  <2>2. /\ drift' = drift /\ failed = {}
        /\ \A k \in Key : rules'[k] = IF k \in Missing(keys) THEN rules[k] + 1
                                      ELSE rules[k] - stale[k]
    BY <2>1, <1>a, FwPassEffect, DeletionsExist
  <2>3. op'.kind = "knock" /\ op'.user = u /\ op'.ip = i /\ op.kind = "idle"
    BY <1>1, <2>1, <2>2 DEF Knock
  <2>4. Placed
    BY <2>2, <2>3 DEF AddressInv, Reliable
  <2>5. ASSUME NEW k \in Key, rules'[k] > 0, k.user = NameOf[u] PROVE k.ip = i
    <3>1. CASE k \in Missing(keys)
      BY <3>1 DEF Missing, KeysAt, RuleKey
    <3>2. CASE k \notin Missing(keys) /\ k.ip # i
      <4>1. stale[k] = rules[k] /\ rules[k] \in Nat
        BY <2>5, <3>2 DEF StaleCopies, TypeOK
      <4>. QED BY <2>2, <2>5, <3>2, <4>1
    <3>. QED BY <3>1, <3>2
  <2>6. ASSUME NEW k \in Key, rules'[k] > 0, k.user # NameOf[u] PROVE Admitted(k)'
    <3>1. k \notin Missing(keys)
      BY <2>6 DEF Missing, KeysAt, RuleKey
    <3>2. stale[k] = 0 /\ rules[k] \in Nat
      BY <2>6 DEF StaleCopies, TypeOK
    <3>3. Admitted(k)
      BY <2>2, <2>3, <2>4, <2>6, <3>1, <3>2 DEF Placed, Moving
    <3>. QED BY <1>1, <3>3 DEF Knock, Admitted, Online
  <2>. QED BY <2>3, <2>5, <2>6 DEF Placed, Moving
<1>2. ASSUME KnockRecord PROVE Placed'
  <2> DEFINE u == op.user
  <2>1. /\ op.kind = "knock" /\ op'.kind = "idle"
        /\ ip' = [ip EXCEPT ![u] = op.ip] /\ UNCHANGED users
    BY <1>2 DEF KnockRecord
  <2>2. PICK prior : FwPass({}, {}, OneCopy(prior))
    BY <1>2 DEF KnockRecord
  <2>3. drift' = drift /\ \A k \in Key : rules'[k] > 0 => rules[k] > 0
    BY <2>2, <1>a, DeletingShrinks, DeletionsExist
  <2>4. Placed
    BY <2>1, <2>3 DEF AddressInv, Reliable
  <2>5. u \in UserIds /\ op.ip \in IPs /\ users[u] = "live"
    BY <2>1 DEF UsersInv, TypeOK, UserOps
  <2>6. u \in Online' /\ ip'[u] = op.ip
    BY <2>1, <2>5, NoneAssumption DEF Online, TypeOK
  <2>7. ASSUME NEW k \in Key, rules'[k] > 0 PROVE Admitted(k)'
    <3>1. CASE k.user = NameOf[u]
      BY <2>1, <2>3, <2>4, <2>6, <2>7, <3>1 DEF Placed, Moving, Admitted
    <3>2. CASE k.user # NameOf[u]
      <4>1. PICK w \in Online : NameOf[w] = k.user /\ ip[w] = k.ip
        BY <2>3, <2>4, <2>7, <3>2 DEF Placed, Moving, Admitted
      <4>2. w \in Online' /\ ip'[w] = ip[w]
        BY <2>1, <3>2, <4>1 DEF Online, TypeOK
      <4>. QED BY <4>1, <4>2 DEF Admitted
    <3>. QED BY <3>1, <3>2
  <2>. QED BY <2>1, <2>7 DEF Placed, Moving
<1>3. ASSUME SetMembershipSync PROVE Placed'
  <2> DEFINE u == op.user
  <2>1. op.kind = "toggle" /\ op'.kind = "idle" /\ UNCHANGED <<users, ip>>
    BY <1>3 DEF SetMembershipSync
  <2>2. CASE UNCHANGED <<rules, drift>>
    BY <2>1, <2>2, PlacedShrinks DEF AddressInv, Reliable
  <2>3. CASE FwPass({}, {}, OneCopy({RuleKey(u, ip[u], op.group)}))
    <3>1. drift' = drift /\ \A k \in Key : rules'[k] > 0 => rules[k] > 0
      BY <2>3, <1>a, DeletingShrinks, DeletionsExist
    <3>. QED BY <2>1, <3>1, PlacedShrinks DEF AddressInv, Reliable
  <2>4. ASSUME u \in Online, NEW failed, Reconcile(u, ip[u], Enabled(u), failed)
        PROVE  Placed'
    <3> DEFINE keys == KeysAt(u, ip[u], Enabled(u))
               stale == StaleCopies(u, ip[u], Enabled(u))
    <3>1. /\ drift' = drift
          /\ \A k \in Key : rules'[k] = IF k \in Missing(keys) THEN rules[k] + 1
                                        ELSE rules[k] - stale[k]
      BY <2>4, <1>a, FwPassEffect, DeletionsExist DEF Reconcile
    <3>2. \A k \in Key : stale[k] \in Nat /\ rules[k] \in Nat
      BY DeletionsExist DEF TypeOK, Deletable
    <3>3. Placed
      BY <2>1, <3>1 DEF AddressInv, Reliable
    <3>4. ASSUME NEW k \in Key, rules'[k] > 0 PROVE Admitted(k)
      <4>1. CASE k \in Missing(keys)
        BY <2>4, <4>1 DEF Missing, KeysAt, RuleKey, Admitted
      <4>2. CASE k \notin Missing(keys)
        BY <2>1, <3>1, <3>2, <3>3, <3>4, <4>2 DEF Placed, Moving
      <4>. QED BY <4>1, <4>2
    <3>. QED BY <2>1, <3>4 DEF Placed, Moving, Admitted, Online
  <2>. QED BY <1>3, <2>2, <2>3, <2>4 DEF SetMembershipSync
<1>4. ASSUME AddMembershipRule PROVE Placed'
  <2>1. op.kind = "join" /\ op'.kind = "idle" /\ UNCHANGED <<users, ip>>
    BY <1>4 DEF AddMembershipRule
  <2> DEFINE key == RuleKey(op.user, op.ip, op.group)
  <2>2. PICK failed : FwPass({key}, failed, NoCopies)
    BY <1>4 DEF AddMembershipRule
  <2>3. /\ drift' = drift
        /\ \A k \in Key : rules'[k] = IF k \in {key} THEN rules[k] + 1
                                      ELSE rules[k] - NoCopies[k]
    BY <2>2, <1>a, FwPassEffect, DeletionsExist
  <2>4. Placed
    BY <2>1, <2>3 DEF AddressInv, Reliable
  <2>5. op.user \in Online /\ ip[op.user] = op.ip
    BY <2>1, NoneAssumption DEF UsersInv, TypeOK, UserOps, Online
  <2>6. ASSUME NEW k \in Key, rules'[k] > 0 PROVE Admitted(k)
    <3>1. CASE k = key
      BY <2>5, <3>1 DEF RuleKey, Admitted
    <3>2. CASE k # key
      <4>1. rules'[k] = rules[k]
        BY <2>3, <3>2 DEF NoCopies, TypeOK
      <4>. QED BY <2>1, <2>4, <2>6, <4>1 DEF Placed, Moving
    <3>. QED BY <3>1, <3>2
  <2>. QED BY <2>1, <2>6 DEF Placed, Moving, Admitted, Online
<1>5. ASSUME NEW keys, FwPass({}, {}, OneCopy(keys)), UNCHANGED <<users, ip>>,
             op.kind \in {"leave", "idle"}, op'.kind \in {"idle", "groupdel"}
      PROVE  Placed'
  <2>1. drift' = drift /\ \A k \in Key : rules'[k] > 0 => rules[k] > 0
    BY <1>5, <1>a, DeletingShrinks, DeletionsExist
  <2>. QED BY <1>5, <2>1, PlacedShrinks DEF AddressInv, Reliable
<1>6. ASSUME RemoveMembershipRule PROVE Placed'
  BY <1>5, <1>6 DEF RemoveMembershipRule
<1>7. ASSUME NEW g \in GroupIds, DeleteGroup(g) PROVE Placed'
  BY <1>5, <1>7 DEF DeleteGroup
<1>8. ASSUME NEW u \in UserIds, \/ DeleteUser(u)
                                \/ \E rotate \in BOOLEAN : Revoke(u, rotate)
      PROVE  Placed'
  <2>1. /\ op.kind = "idle" /\ op'.kind \in {"userdel", "revoke"} /\ op'.user = u
        /\ UNCHANGED <<users, ip>>
    BY <1>8 DEF DeleteUser, Revoke
  <2>2. FwPass({}, {}, UserCopies(u))
    BY <1>8 DEF DeleteUser, Revoke
  <2>3. drift' = drift /\ \A k \in Key : rules'[k] = rules[k] - UserCopies(u)[k]
    BY <2>2, <1>a, DeletingShrinks, DeletionsExist
  <2>4. Placed
    BY <2>1, <2>3 DEF AddressInv, Reliable
  <2>5. ASSUME NEW k \in Key, rules'[k] > 0 PROVE k.user # NameOf[u] /\ Admitted(k)
    BY <2>1, <2>3, <2>4, <2>5 DEF UserCopies, TypeOK, Placed, Moving
  <2>. QED BY <2>1, <2>5 DEF Placed, Moving, Admitted, Online
<1>9. ASSUME RevokeClear \/ DeleteUserRow PROVE Placed'
  <2> DEFINE u == op.user
  <2>1. /\ op.kind \in {"revoke", "userdel"} /\ op'.kind \in {"idle", "rotate"}
        /\ UNCHANGED <<rules, drift>>
    BY <1>9 DEF RevokeClear, DeleteUserRow, fw
  <2>2. ip' = [ip EXCEPT ![u] = None] /\ users' \in {users, [users EXCEPT ![u] = "gone"]}
    BY <1>9 DEF RevokeClear, DeleteUserRow, ClearUserState
  <2>3. Placed
    BY <2>1 DEF AddressInv, Reliable
  <2>4. ASSUME NEW k \in Key, rules'[k] > 0 PROVE Admitted(k)'
    <3>1. k.user # NameOf[u] /\ Admitted(k)
      BY <2>1, <2>3, <2>4 DEF Placed, Moving
    <3>2. PICK w \in Online : NameOf[w] = k.user /\ ip[w] = k.ip
      BY <3>1 DEF Admitted
    <3>3. w \in Online' /\ ip'[w] = ip[w]
      BY <2>2, <3>1, <3>2 DEF Online, TypeOK
    <3>. QED BY <3>2, <3>3 DEF Admitted
  <2>. QED BY <2>1, <2>4 DEF Placed, Moving
<1>10. ASSUME NEW u \in UserIds, CreateUser(u) PROVE Placed'
  <2>1. users' = [users EXCEPT ![u] = "live"] /\ UNCHANGED <<ip, rules, op, drift>>
    BY <1>10 DEF CreateUser, fw
  <2>2. Placed
    BY <2>1 DEF AddressInv, Reliable
  <2>3. \A k : Admitted(k) => Admitted(k)'
    BY <2>1 DEF Admitted, Online, TypeOK
  <2>. QED BY <2>1, <2>2, <2>3 DEF Placed, Moving
<1>11. ASSUME ReconcileAll PROVE Placed'
  <2>1. op.kind = "apply" /\ op'.kind = "guard" /\ UNCHANGED <<users, ip>>
    BY <1>11 DEF ReconcileAll
  <2>2. PICK failed : FwPass(Missing(seen), failed, SurplusCopies(seen))
    BY <1>11 DEF ReconcileAll
  <2>3. \A k \in Key : rules'[k] = IF k \in Missing(seen) THEN rules[k] + 1
                                   ELSE rules[k] - SurplusCopies(seen)[k]
    BY <2>2, <1>a, FwPassEffect, DeletionsExist
  <2>4. ASSUME NEW k \in Key, rules'[k] > 0 PROVE k \in seen
    BY <2>3, <2>4 DEF Missing, SurplusCopies, TypeOK
  <2>5. \A k \in DesiredStateLocal : Admitted(k)
    BY DEF DesiredStateLocal, KeysAt, RuleKey, Admitted
  <2>6. seen = DesiredStateLocal
    BY <2>1 DEF AddressInv
  <2>. QED BY <2>1, <2>4, <2>5, <2>6 DEF Placed, Moving, Admitted, Online
<1>12. ASSUME MaintainGuard PROVE Placed'
  <2>1. op.kind = "guard" /\ op'.kind = "idle" /\ UNCHANGED <<users, ip, rules>>
    BY <1>12 DEF MaintainGuard, SyncGuardOk, SyncGuardFails
  <2>2. drift \in {"none", "old"}
    BY <1>12, <1>a DEF MaintainGuard, TypeOK
  <2>. QED BY <2>1, <2>2, PlacedShrinks DEF AddressInv, Reliable
<1>13. ASSUME NEW g \in GroupIds, SyncGuardNow(g) PROVE Placed'
  BY <1>a, <1>13, PlacedShrinks
     DEF SyncGuardNow, SyncGuardOk, SyncGuardFails, AddressInv, Reliable
<1>14. ASSUME DeleteGroupSync PROVE Placed'
  BY <1>a, <1>14, PlacedShrinks
     DEF DeleteGroupSync, SyncGuardOk, SyncGuardFails, AddressInv, Reliable
<1>15. ASSUME \/ \E t \in toggles : SetMembership(t)
              \/ \E u \in UserIds, g \in GroupIds, en \in BOOLEAN : AddMembership(u, g, en)
              \/ \E u \in UserIds, g \in GroupIds : RemoveMembership(u, g)
              \/ RevokeRotate \/ DeleteGroupRow
       PROVE  Placed'
  <2>1. ASSUME /\ op.kind \in {"idle", "rotate", "groupdel"}
               /\ op'.kind \in {"idle", "toggle", "join", "leave", "groupsync"}
               /\ UNCHANGED <<users, ip, rules, drift>>
        PROVE  Placed'
    BY <2>1, PlacedShrinks DEF AddressInv, Reliable
  <2>2. ASSUME NEW t \in toggles, SetMembership(t) PROVE Placed'
    BY <2>1, <2>2 DEF SetMembership, fw
  <2>3. ASSUME NEW u \in UserIds, NEW g \in GroupIds, NEW en \in BOOLEAN, AddMembership(u, g, en)
        PROVE  Placed'
    BY <2>1, <2>3 DEF AddMembership, fw
  <2>4. ASSUME NEW u \in UserIds, NEW g \in GroupIds, RemoveMembership(u, g) PROVE Placed'
    BY <2>1, <2>4 DEF RemoveMembership, fw
  <2>5. ASSUME RevokeRotate \/ DeleteGroupRow PROVE Placed'
    BY <2>1, <2>5 DEF RevokeRotate, DeleteGroupRow, fw
  <2>. QED BY <1>15, <2>2, <2>3, <2>4, <2>5
<1>16. ASSUME \/ Tick \/ \E u \in UserIds : CleanupStale(u)
              \/ CleanupDone \/ MaintainRead \/ Abort \/ Flush
       PROVE  FALSE
  <2>1. ASSUME Tick PROVE FALSE
    BY <2>1 DEF Tick, MaintainBegin, Reliable
  <2>2. ASSUME NEW u \in UserIds, CleanupStale(u) PROVE FALSE
    BY <2>2 DEF CleanupStale, Reliable
  <2>3. ASSUME CleanupDone \/ MaintainRead PROVE FALSE
    BY <2>3 DEF CleanupDone, MaintainRead, Reliable
  <2>4. ASSUME Abort \/ Flush PROVE FALSE
    BY <1>a, <2>4 DEF Abort, Flush
  <2>. QED BY <1>16, <2>1, <2>2, <2>3, <2>4
<1>17. ASSUME Crash PROVE Placed'
  <2>1. op.kind = "idle" /\ op' = op /\ UNCHANGED <<users, ip, rules, drift>>
    BY <1>a, <1>17 DEF Crash, fw
  <2>. QED BY <2>1, PlacedShrinks DEF AddressInv, Reliable
<1>18. ASSUME \/ \E g \in GroupIds : CreateGroup(g)
              \/ \E u \in UserIds, g \in GroupIds, en \in BOOLEAN, by \in {"self", "admin"} :
                   BeginToggle(u, g, en, by)
              \/ \E u \in UserIds : GrowIdle(u)
              \/ UNCHANGED vars
       PROVE  Placed'
  <2>1. UNCHANGED <<users, ip, rules, op, drift>>
    BY <1>18 DEF CreateGroup, BeginToggle, GrowIdle, vars, fw
  <2>2. Placed
    BY <2>1 DEF AddressInv, Reliable
  <2>. QED BY <2>1, <2>2 DEF Placed, Moving, Admitted, Online
<1>. QED
  BY <1>1, <1>2, <1>3, <1>4, <1>6, <1>7, <1>8, <1>9, <1>10, <1>11, <1>12, <1>13, <1>14,
     <1>15, <1>16, <1>17, <1>18 DEF Next, Start, Continue, Unlocked, Environment

\* For any number of users, groups, addresses and rule copies: while no failure is
\* outstanding and no handler runs, every allow rule belongs to an existing user
\* and admits the address on record, never an earlier one.
THEOREM RulesFollowAddresses == Spec => []RulesAtCurrentAddress
<1>1. Init => AddressInv
  <2>1. Init => Placed /\ op.kind # "apply"
    BY DEF Init, Placed, NoCopies, Idle, Handler
  <2>. QED BY <2>1, UsersInit DEF AddressInv
<1>2. AddressInv /\ [Next]_vars => AddressInv'
  BY UsersStep, SeenStep, PlacedStep DEF AddressInv
<1>3. AddressInv => RulesAtCurrentAddress
  BY DEF AddressInv, RulesAtCurrentAddress, Settled, Free, Idle, Handler, Reliable, Placed,
         Moving, Admitted
<1>. QED BY <1>1, <1>2, <1>3, PTL DEF Spec

-----------------------------------------------------------------------------
(* Memberships *)

\* A step that makes a membership row is an admin's AddMembership of it.
LEMMA RowsAreAdded ==
    ASSUME TypeOK, [Next]_vars, NEW u \in UserIds, NEW g \in GroupIds,
           member[u][g] = "none", member'[u][g] # "none"
    PROVE  \E en \in BOOLEAN : AddMembership(u, g, en)
<1> USE DEF db, TypeOK
<1>1. ASSUME UNCHANGED member PROVE FALSE
  BY <1>1
<1>2. ASSUME NEW t \in toggles, SetMembership(t) PROVE FALSE
  BY <1>2 DEF SetMembership, SetMembershipEnabled
<1>3. ASSUME NEW w \in UserIds, NEW h \in GroupIds, NEW en \in BOOLEAN, AddMembership(w, h, en)
      PROVE  \E e \in BOOLEAN : AddMembership(u, g, e)
  <2>1. w = u /\ h = g
    BY <1>3 DEF AddMembership
  <2>. QED BY <1>3, <2>1
<1>4. ASSUME NEW w \in UserIds, NEW h \in GroupIds, RemoveMembership(w, h) PROVE FALSE
  BY <1>4 DEF RemoveMembership
<1>5. ASSUME DeleteUserRow \/ DeleteGroupRow PROVE FALSE
  BY <1>5 DEF DeleteUserRow, DeleteGroupRow, NoRows
<1>6. ASSUME \/ \E w \in UserIds, i \in IPs, v \in 0..MaxRotations : Knock(w, i, v)
             \/ \E w \in UserIds, rotate \in BOOLEAN : Revoke(w, rotate)
             \/ \E w \in UserIds : DeleteUser(w)
             \/ \E h \in GroupIds : DeleteGroup(h)
             \/ \E h \in GroupIds : SyncGuardNow(h)
             \/ Tick \/ KnockRecord \/ SetMembershipSync
             \/ AddMembershipRule \/ RemoveMembershipRule
             \/ RevokeClear \/ RevokeRotate \/ DeleteGroupSync
             \/ \E w \in UserIds : CleanupStale(w)
             \/ CleanupDone \/ MaintainRead \/ ReconcileAll \/ MaintainGuard
             \/ Unlocked \/ Environment \/ UNCHANGED vars
      PROVE  UNCHANGED member
  BY <1>6 DEF Knock, Revoke, DeleteUser, DeleteGroup, SyncGuardNow, Tick, MaintainBegin,
     KnockRecord, SetMembershipSync, AddMembershipRule, RemoveMembershipRule, RevokeClear,
     RevokeRotate, DeleteGroupSync, CleanupStale, CleanupDone, MaintainRead, ReconcileAll,
     MaintainGuard, Unlocked, CreateUser, CreateGroup, BeginToggle, Environment, Abort,
     Crash, Flush, GrowIdle, vars
<1>. QED BY <1>1, <1>2, <1>3, <1>4, <1>5, <1>6 DEF Next, Start, Continue

\* For any number of users, groups and waiting toggles: only AddMembership makes a
\* membership row, so a toggle that was checked before the row went brings none back.
THEOREM OnlyAdminsGrant == Spec => OnlyAdminGrants
<1>1. TypeOK /\ [Next]_vars =>
        [\A u \in UserIds, g \in GroupIds :
           member[u][g] = "none" /\ member'[u][g] # "none"
              => \E en \in BOOLEAN : AddMembership(u, g, en)]_vars
  BY RowsAreAdded
<1>. QED BY <1>1, TypeCorrect, PTL DEF Spec, OnlyAdminGrants

-----------------------------------------------------------------------------
(* The guard *)

\* While no failure is outstanding the guard lags behind the groups only by the
\* groups whose creation has not been synced and, between the row's deletion and
\* its sync, by the group being deleted.
GuardInv ==
    /\ TypeOK
    /\ drift = "none" =>
         /\ op.kind # "groupsync" => guard \subseteq GroupPorts
         /\ \A g \in LiveGroups \ unsynced : PortOf[g] \in guard

\* A pass over the rules never clears a failure.
LEMMA FwPassDrift ==
    ASSUME NEW adds, NEW failed, NEW extra, FwPass(adds, failed, extra)
    PROVE  drift' \in {drift, "new"}
BY DEF FwPass

\* A step that leaves guard, groups and unsynced alone, clears no failure and is
\* not the end of a group's deletion keeps the guard.
LEMMA GuardKept ==
    ASSUME GuardInv, TypeOK', drift' \in {drift, "new", "old"}, UNCHANGED <<guard, groups, unsynced>>,
           op.kind = "groupsync" => op'.kind = "groupsync" \/ drift' = "new"
    PROVE  GuardInv'
BY DEF GuardInv, GroupPorts, LiveGroups

\* Every step keeps the guard.
LEMMA GuardStep ==
    ASSUME GuardInv, [Next]_vars
    PROVE  GuardInv'
<1>0. TypeOK /\ TypeOK'
  BY TypeStep DEF GuardInv
<1> USE <1>0 DEF db, fw, Free, Idle, Handler, Release, GoOn
<1>1. ASSUME NEW adds, NEW failed, NEW extra, FwPass(adds, failed, extra),
             UNCHANGED <<guard, groups, unsynced>>, op.kind # "groupsync"
      PROVE  GuardInv'
  BY <1>1, FwPassDrift, GuardKept
<1>2. ASSUME SyncGuardOk, UNCHANGED groups, unsynced' \subseteq unsynced
      PROVE  GuardInv'
  BY <1>2 DEF SyncGuardOk, GuardInv, GroupPorts, LiveGroups
<1>3. ASSUME drift' # "none" PROVE GuardInv'
  BY <1>3 DEF GuardInv
<1>4. ASSUME NEW g \in GroupIds, SyncGuardNow(g) PROVE GuardInv'
  BY <1>2, <1>3, <1>4 DEF SyncGuardNow
<1>5. ASSUME DeleteGroupSync \/ MaintainGuard PROVE GuardInv'
  BY <1>2, <1>3, <1>5 DEF DeleteGroupSync, MaintainGuard
<1>6. ASSUME DeleteGroupRow PROVE GuardInv'
  BY <1>6 DEF DeleteGroupRow, GuardInv, GroupPorts, LiveGroups, TypeOK
<1>7. ASSUME NEW g \in GroupIds, CreateGroup(g) PROVE GuardInv'
  BY <1>7 DEF CreateGroup, GuardInv, GroupPorts, LiveGroups, TypeOK
<1>8. ASSUME Crash PROVE GuardInv'
  <2>1. CASE Free /\ unsynced = {}
    BY <1>8, <2>1, GuardKept DEF Crash
  <2>. QED BY <1>3, <1>8, <2>1 DEF Crash
<1>9. ASSUME Abort \/ Flush PROVE GuardInv'
  BY <1>3, <1>9 DEF Abort, Flush
<1>10. ASSUME NEW u \in UserIds, NEW i \in IPs, NEW v \in 0..MaxRotations, Knock(u, i, v)
       PROVE  GuardInv'
  BY <1>1, <1>10 DEF Knock, Reconcile
<1>11. ASSUME KnockRecord PROVE GuardInv'
  BY <1>1, <1>11 DEF KnockRecord
<1>12. ASSUME SetMembershipSync PROVE GuardInv'
  <2>1. CASE UNCHANGED <<rules, drift>>
    BY <1>12, <2>1, GuardKept DEF SetMembershipSync
  <2>. QED BY <1>1, <1>12, <2>1 DEF SetMembershipSync, Reconcile
<1>13. ASSUME AddMembershipRule \/ RemoveMembershipRule \/ ReconcileAll PROVE GuardInv'
  BY <1>1, <1>13 DEF AddMembershipRule, RemoveMembershipRule, ReconcileAll
<1>14. ASSUME NEW u \in UserIds, NEW rotate \in BOOLEAN, Revoke(u, rotate) \/ DeleteUser(u)
       PROVE  GuardInv'
  BY <1>1, <1>14 DEF Revoke, DeleteUser
<1>15. ASSUME NEW g \in GroupIds, DeleteGroup(g) PROVE GuardInv'
  BY <1>1, <1>15 DEF DeleteGroup
<1>16. ASSUME NEW u \in UserIds, CleanupStale(u) PROVE GuardInv'
  BY <1>1, <1>16 DEF CleanupStale
<1>17. ASSUME \/ \E t \in toggles : SetMembership(t)
              \/ \E u \in UserIds, g \in GroupIds, en \in BOOLEAN : AddMembership(u, g, en)
              \/ \E u \in UserIds, g \in GroupIds : RemoveMembership(u, g)
              \/ Tick \/ RevokeClear \/ RevokeRotate \/ DeleteUserRow
              \/ CleanupDone \/ MaintainRead
              \/ \E u \in UserIds : CreateUser(u)
              \/ \E u \in UserIds, g \in GroupIds, en \in BOOLEAN, by \in {"self", "admin"} :
                   BeginToggle(u, g, en, by)
              \/ \E u \in UserIds : GrowIdle(u)
              \/ UNCHANGED vars
       PROVE  GuardInv'
  <2>1. /\ UNCHANGED <<guard, groups, unsynced>> /\ drift' \in {drift, "old"}
        /\ op.kind # "groupsync" \/ op' = op
    BY <1>17 DEF SetMembership, AddMembership, RemoveMembership, Tick, MaintainBegin, RevokeClear,
       RevokeRotate, DeleteUserRow, CleanupDone, MaintainRead, CreateUser, BeginToggle, GrowIdle,
       vars
  <2>. QED BY <2>1, GuardKept
<1>. QED
  BY <1>4, <1>5, <1>6, <1>7, <1>8, <1>9, <1>10, <1>11, <1>12, <1>13, <1>14, <1>15, <1>16, <1>17
     DEF Next, Start, Continue, Unlocked, Environment

\* For any number of groups and ports, and whatever handlers, failures and restarts
\* interleave: while no failure is outstanding and no handler runs, the guard closes
\* every group's port that was synced and no port of a deleted group.
THEOREM GuardFollowsGroups == Spec => []GuardClosesGroupPorts
<1>1. Init => GuardInv
  <2>1. Init => TypeOK
    BY DEF Init, TypeOK, OpKinds, UserOps, GroupOps, Idle, Handler, NoRows, NoCopies
  <2>. QED BY <2>1 DEF Init, GuardInv, GroupPorts, LiveGroups
<1>2. GuardInv => GuardClosesGroupPorts
  BY DEF GuardInv, GuardClosesGroupPorts, Settled, Free, Idle, Handler
<1>. QED BY <1>1, <1>2, GuardStep, PTL DEF Spec

-----------------------------------------------------------------------------
(* The allow rules against the database: what the chain holds, handler by    *)
(* handler, while no failure is outstanding.                                 *)

\* No group is deleted and created again with the same name and port.  Without
\* it a disable that was checked for the first group, and got fwMu when the
\* second existed, closes the second group's rule: the rule names the group, not
\* its row.
OneIdPerGroup == \A g, h \in GroupIds :
                    GroupName[g] = GroupName[h] /\ PortOf[g] = PortOf[h] => g = h

-----------------------------------------------------------------------------
(* What the chain holds between two steps of a handler *)

OfUser(k, u) == k.user = NameOf[u]
OfGroup(k, g) == k.group = GroupName[g] /\ k.port = PortOf[g]

\* The database asks for k: membership in DesiredStateLocal, field by field.
Wanted(k) == \E u \in Online, g \in GroupIds :
                member[u][g] = "on" /\ OfUser(k, u) /\ k.ip = ip[u] /\ OfGroup(k, g)

\* Rules a handler has removed before, or will add after, its database write.
Suspended(k) ==
    \/ op.kind \in {"knock", "revoke", "userdel"} /\ OfUser(k, op.user)
    \/ op.kind = "groupdel" /\ OfGroup(k, op.group)
    \/ op.kind = "join" /\ OfUser(k, op.user) /\ OfGroup(k, op.group)
    \/ op.kind = "toggle" /\ op.user \in Online /\ OfUser(k, op.user) /\ OfGroup(k, op.group)

\* Rules at the address a knock is about to record.
Arriving(k) == /\ op.kind = "knock" /\ OfUser(k, op.user) /\ k.ip = op.ip
               /\ \E g \in GroupIds : member[op.user][g] = "on" /\ OfGroup(k, g)

\* Rules that may still be there though the database no longer asks for them,
\* and the one an enabling toggle may find already there.
Leaving(k) ==
    \/ op.kind = "leave" /\ OfUser(k, op.user) /\ k.ip = op.ip /\ OfGroup(k, op.group)
    \/ /\ op.kind = "toggle" /\ op.user \in Online
       /\ OfUser(k, op.user) /\ k.ip = ip[op.user] /\ OfGroup(k, op.group)
       /\ op.flag => Wanted(k)

Held(k) == (Wanted(k) /\ ~Suspended(k)) \/ Arriving(k)

\* A rule that must be there is; when no membership is added twice it is there
\* once, and no rule is there without a reason.
Kept(k) == /\ Held(k) => rules[k] > 0
           /\ ~ReAdd => rules[k] <= 1 /\ (rules[k] > 0 => Held(k) \/ Leaving(k))

\* What a handler knows of the row it wrote, until it releases fwMu.
RowsInv ==
    /\ op.kind = "join" => member[op.user][op.group] = "on"
    /\ op.kind = "leave" => member[op.user][op.group] = "none"
    /\ op.kind = "toggle" => member[op.user][op.group] # (IF op.flag THEN "off" ELSE "on")
    /\ op.kind = "knock" => \A k \in seen : k.user = NameOf[op.user]

RulesInv == /\ UsersInv
            /\ op.kind = "apply" => seen = DesiredStateLocal
            /\ RowsInv
            /\ Reliable => \A k \in Key : Kept(k)

-----------------------------------------------------------------------------
(* Lemmas *)

\* Wanted is membership in what DesiredStateLocal computes.
LEMMA WantedIsDesired ==
    ASSUME TypeOK, NEW k \in Key
    PROVE  Wanted(k) <=> k \in DesiredStateLocal
<1>1. ASSUME NEW u \in UserIds, NEW i \in IPs, NEW g \in GroupIds
      PROVE  k = RuleKey(u, i, g) <=> OfUser(k, u) /\ k.ip = i /\ OfGroup(k, g)
  BY DEF Key, RuleKey, OfUser, OfGroup
<1>2. ASSUME NEW u \in Online PROVE u \in UserIds /\ ip[u] \in IPs
  BY DEF Online, TypeOK
<1>. QED BY <1>1, <1>2 DEF Wanted, DesiredStateLocal, KeysAt, Enabled

\* At most one existing user has a name: a wanted rule of a name is that user's.
LEMMA WantedOfUser ==
    ASSUME UsersInv, NEW k, Wanted(k), NEW u \in UserIds, users[u] = "live", OfUser(k, u)
    PROVE  /\ u \in Online /\ k.ip = ip[u]
           /\ \E g \in GroupIds : member[u][g] = "on" /\ OfGroup(k, g)
<1>1. PICK w \in Online, g \in GroupIds :
        member[w][g] = "on" /\ OfUser(k, w) /\ k.ip = ip[w] /\ OfGroup(k, g)
  BY DEF Wanted
<1>2. NameOf[w] = NameOf[u] /\ w \in LiveUsers /\ u \in LiveUsers
  BY <1>1 DEF OfUser, Online, LiveUsers
<1>3. w = u
  BY <1>2 DEF UsersInv
<1>. QED BY <1>1, <1>3

\* With one id per group the row behind a wanted rule is known.
LEMMA WantedOfRow ==
    ASSUME UsersInv, OneIdPerGroup, NEW k, Wanted(k),
           NEW u \in UserIds, users[u] = "live", OfUser(k, u),
           NEW g \in GroupIds, OfGroup(k, g)
    PROVE  u \in Online /\ k.ip = ip[u] /\ member[u][g] = "on"
<1>1. PICK h \in GroupIds : member[u][h] = "on" /\ OfGroup(k, h)
  BY WantedOfUser
<1>2. h = g
  BY <1>1 DEF OneIdPerGroup, OfGroup
<1>. QED BY <1>1, <1>2, WantedOfUser

\* The rules of a user at an address, field by field.
LEMMA InKeysAt ==
    ASSUME NEW u \in UserIds, NEW i \in IPs, NEW k \in Key
    PROVE  k \in KeysAt(u, i, Enabled(u)) <=>
              /\ OfUser(k, u) /\ k.ip = i
              /\ \E g \in GroupIds : member[u][g] = "on" /\ OfGroup(k, g)
BY DEF KeysAt, Enabled, Key, RuleKey, OfUser, OfGroup

\* What Reconcile leaves when no call failed: the rules of the user at the address
\* for the enabled groups, none of the user elsewhere, the others as they were.
LEMMA ReconcileEffect ==
    ASSUME TypeOK, NEW u \in UserIds, NEW i \in IPs, NEW failed, drift' # "new",
           Reconcile(u, i, Enabled(u), failed)
    PROVE  /\ drift' = drift /\ failed = {}
           /\ \A k \in Key :
                IF k \in KeysAt(u, i, Enabled(u))
                THEN rules'[k] = IF rules[k] = 0 THEN 1 ELSE rules[k]
                ELSE /\ rules'[k] <= rules[k] /\ rules'[k] \in Nat
                     /\ k.user # NameOf[u] => rules'[k] = rules[k]
                     /\ k.user = NameOf[u] /\ k.ip # i => rules'[k] = 0
<1> DEFINE keys == KeysAt(u, i, Enabled(u))
           stale == StaleCopies(u, i, Enabled(u))
<1>1. /\ drift' = drift /\ failed = {}
      /\ \A k \in Key : rules'[k] = IF k \in Missing(keys) THEN rules[k] + 1
                                    ELSE rules[k] - stale[k]
  BY FwPassEffect, DeletionsExist DEF Reconcile
<1>2. ASSUME NEW k \in Key, k \in keys
      PROVE  rules'[k] = IF rules[k] = 0 THEN 1 ELSE rules[k]
  <2>1. stale[k] = 0
    BY <1>2 DEF StaleCopies, KeysAt, RuleKey
  <2>. QED BY <1>1, <1>2, <2>1 DEF Missing, TypeOK
<1>3. ASSUME NEW k \in Key, k \notin keys
      PROVE  /\ rules'[k] <= rules[k] /\ rules'[k] \in Nat
             /\ k.user # NameOf[u] => rules'[k] = rules[k]
             /\ k.user = NameOf[u] /\ k.ip # i => rules'[k] = 0
  <2>1. rules'[k] = rules[k] - stale[k]
    BY <1>1, <1>3 DEF Missing
  <2>2. stale[k] \in {0, rules[k]}
    BY DEF StaleCopies
  <2>3. (k.user # NameOf[u] => stale[k] = 0) /\ (k.user = NameOf[u] /\ k.ip # i => stale[k] = rules[k])
    BY DEF StaleCopies
  <2>. QED BY <2>1, <2>2, <2>3 DEF TypeOK
<1>. QED BY <1>1, <1>2, <1>3

\* What a pass that removes one copy of each key leaves when no call failed.
LEMMA OneCopyEffect ==
    ASSUME TypeOK, NEW keys, drift' # "new", FwPass({}, {}, OneCopy(keys))
    PROVE  /\ drift' = drift
           /\ \A k \in Key : rules'[k] = IF k \in keys /\ rules[k] > 0 THEN rules[k] - 1
                                         ELSE rules[k]
<1>1. drift' = drift /\ \A k \in Key : rules'[k] = rules[k] - OneCopy(keys)[k]
  BY DeletingShrinks, DeletionsExist
<1>. QED BY <1>1 DEF OneCopy, TypeOK

-----------------------------------------------------------------------------
(* Every step *)

\* Nothing changes the row a handler wrote before the handler is done with it.
LEMMA RowsStep ==
    ASSUME UsersInv, RowsInv, [Next]_vars
    PROVE  RowsInv'
<1>0. TypeOK /\ TypeOK'
  BY TypeStep DEF UsersInv
<1> USE <1>0 DEF db, fw, Free, Idle, Handler, Release, GoOn, RowsInv
<1>1. ASSUME UNCHANGED <<member, op, seen>> PROVE RowsInv'
  BY <1>1
<1>2. ASSUME op'.kind \notin {"join", "leave", "toggle", "knock"} PROVE RowsInv'
  BY <1>2
<1>3. ASSUME NEW u \in UserIds, NEW i \in IPs, NEW v \in 0..MaxRotations, Knock(u, i, v)
      PROVE  RowsInv'
  <2>1. \A k \in KeysAt(u, i, Enabled(u)) : k.user = NameOf[u]
    BY DEF KeysAt, RuleKey
  <2>2. op'.kind \in {"knock", "idle"} /\ op'.user \in {u, None}
    BY <1>3 DEF Knock
  <2>3. op'.kind = "knock" => op'.user = u /\ seen' = KeysAt(u, i, Enabled(u))
    BY <1>3 DEF Knock
  <2>. QED BY <2>1, <2>2, <2>3
<1>4. ASSUME NEW t \in toggles, SetMembership(t) PROVE RowsInv'
  <2>1. t.user \in UserIds /\ t.group \in GroupIds /\ t.enabled \in BOOLEAN
    BY DEF TypeOK
  <2>2. op'.kind = "toggle" /\ op'.user = t.user /\ op'.group = t.group /\ op'.flag = t.enabled
    BY <1>4 DEF SetMembership
  <2>3. member'[t.user][t.group] # (IF t.enabled THEN "off" ELSE "on")
    BY <1>4, <2>1 DEF SetMembership, SetMembershipEnabled, TypeOK
  <2>. QED BY <2>2, <2>3
<1>5. ASSUME NEW u \in UserIds, NEW g \in GroupIds, NEW en \in BOOLEAN, AddMembership(u, g, en)
      PROVE  RowsInv'
  BY <1>5 DEF AddMembership, TypeOK
<1>6. ASSUME NEW u \in UserIds, NEW g \in GroupIds, RemoveMembership(u, g) PROVE RowsInv'
  BY <1>6 DEF RemoveMembership, TypeOK
<1>7. ASSUME \/ \E u \in UserIds, rotate \in BOOLEAN : Revoke(u, rotate)
             \/ \E u \in UserIds : DeleteUser(u)
             \/ \E g \in GroupIds : DeleteGroup(g)
             \/ \E g \in GroupIds : SyncGuardNow(g)
             \/ Tick \/ KnockRecord \/ SetMembershipSync
             \/ AddMembershipRule \/ RemoveMembershipRule
             \/ RevokeClear \/ RevokeRotate \/ DeleteUserRow \/ DeleteGroupRow \/ DeleteGroupSync
             \/ \E u \in UserIds : CleanupStale(u)
             \/ CleanupDone \/ MaintainRead \/ ReconcileAll \/ MaintainGuard
             \/ Abort \/ Crash
      PROVE  op'.kind \notin {"join", "leave", "toggle", "knock"}
  <2>1. ASSUME NEW u \in UserIds, (\E rotate \in BOOLEAN : Revoke(u, rotate)) \/ DeleteUser(u)
        PROVE  op'.kind \notin {"join", "leave", "toggle", "knock"}
    BY <2>1 DEF Revoke, DeleteUser
  <2>2. ASSUME NEW g \in GroupIds, DeleteGroup(g) \/ SyncGuardNow(g)
        PROVE  op'.kind \notin {"join", "leave", "toggle", "knock"}
    BY <2>2 DEF DeleteGroup, SyncGuardNow
  <2>3. ASSUME NEW u \in UserIds, CleanupStale(u)
        PROVE  op'.kind \notin {"join", "leave", "toggle", "knock"}
    BY <2>3 DEF CleanupStale
  <2>4. ASSUME \/ KnockRecord \/ SetMembershipSync \/ AddMembershipRule \/ RemoveMembershipRule
               \/ RevokeRotate \/ DeleteUserRow \/ DeleteGroupSync \/ MaintainGuard
               \/ Abort \/ Crash
        PROVE  Release
    BY <2>4 DEF KnockRecord, SetMembershipSync, AddMembershipRule, RemoveMembershipRule,
       RevokeRotate, DeleteUserRow, DeleteGroupSync, MaintainGuard, Abort, Crash
  <2>5. ASSUME Tick \/ RevokeClear \/ DeleteGroupRow
        PROVE  op'.kind \notin {"join", "leave", "toggle", "knock"}
    BY <2>5 DEF Tick, MaintainBegin, RevokeClear, DeleteGroupRow
  <2>6. ASSUME CleanupDone \/ MaintainRead \/ ReconcileAll
        PROVE  op'.kind \notin {"join", "leave", "toggle", "knock"}
    BY <2>6 DEF CleanupDone, MaintainRead, ReconcileAll
  <2>. QED BY <1>7, <2>1, <2>2, <2>3, <2>4, <2>5, <2>6
<1>8. ASSUME \/ Unlocked \/ Flush
             \/ \E u \in UserIds : GrowIdle(u)
             \/ UNCHANGED vars
      PROVE  UNCHANGED <<member, op, seen>>
  BY <1>8 DEF Unlocked, CreateUser, CreateGroup, BeginToggle, Flush, GrowIdle, vars
<1>. QED
  BY <1>1, <1>2, <1>3, <1>4, <1>5, <1>6, <1>7, <1>8 DEF Next, Start, Continue, Environment

\* A step that changes no address, no row and no rule, between two states in which
\* the handler suspends nothing, keeps every key.
LEMMA KeptQuietly ==
    ASSUME NEW k, Kept(k), Online' = Online, UNCHANGED <<ip, member, rules>>,
           \/ UNCHANGED op
           \/ {op.kind, op'.kind} \cap {"knock", "revoke", "userdel", "groupdel", "join",
                                        "toggle", "leave"} = {}
    PROVE  Kept(k)'
<1>1. Wanted(k)' <=> Wanted(k)
  BY DEF Wanted
<1>. QED BY <1>1 DEF Kept, Held, Suspended, Arriving, Leaving

\* Every step keeps every key of a reliable chain.
LEMMA KeptStep ==
    ASSUME OneIdPerGroup, RulesInv, [Next]_vars, Reliable', NEW k \in Key
    PROVE  Kept(k)'
<1>0. TypeOK /\ UsersInv /\ RowsInv /\ drift' # "new" /\ rules[k] \in Nat
  BY DEF RulesInv, UsersInv, Reliable, TypeOK
<1> USE <1>0
<1> USE DEF db, fw, Free, Idle, Handler, Release, GoOn
<1>a. Reliable => Kept(k)
  BY DEF RulesInv
<1>1. ASSUME NEW u \in UserIds, NEW i \in IPs, NEW v \in 0..MaxRotations, Knock(u, i, v)
      PROVE  Kept(k)'
  <2>1. PICK failed : /\ Reconcile(u, i, Enabled(u), failed)
                      /\ op' = IF failed = {} THEN Handler("knock", u, None, i, v, FALSE) ELSE Idle
    BY <1>1 DEF Knock
  <2>2. /\ op.kind = "idle" /\ users[u] = "live" /\ UNCHANGED <<users, ip, member>>
        /\ op'.kind = "knock" /\ op'.user = u /\ op'.ip = i /\ drift' = drift
    BY <1>1, <2>1, ReconcileEffect DEF Knock, Authenticated
  <2>3. Kept(k) /\ (Held(k) <=> Wanted(k)) /\ ~Leaving(k)
    BY <1>a, <2>2 DEF Reliable, Held, Suspended, Arriving, Leaving
  <2>4. Wanted(k)' <=> Wanted(k)
    BY <2>2 DEF Wanted, Online
  <2>5. Arriving(k)' <=> k \in KeysAt(u, i, Enabled(u))
    BY <2>2, InKeysAt DEF Arriving
  <2>6. CASE OfUser(k, u)
    <3>1. Held(k)' <=> k \in KeysAt(u, i, Enabled(u))
      BY <2>2, <2>5, <2>6 DEF Held, Suspended, OfUser
    <3>2. CASE k \in KeysAt(u, i, Enabled(u))
      <4>1. rules'[k] = IF rules[k] = 0 THEN 1 ELSE rules[k]
        BY <2>1, <3>2, ReconcileEffect
      <4>. QED BY <2>3, <3>1, <3>2, <4>1 DEF Kept
    <3>3. CASE k \notin KeysAt(u, i, Enabled(u))
      <4>1. /\ rules'[k] <= rules[k] /\ rules'[k] \in Nat
            /\ k.ip # i => rules'[k] = 0
        BY <2>1, <2>6, <3>3, ReconcileEffect DEF OfUser
      <4>2. Wanted(k) => k.ip # i
        BY <2>2, <2>6, <3>3, WantedOfUser, InKeysAt
      <4>3. ~ReAdd => rules'[k] = 0
        BY <2>3, <4>1, <4>2 DEF Kept
      <4>. QED BY <3>1, <3>3, <4>3 DEF Kept
    <3>. QED BY <3>2, <3>3
  <2>7. CASE ~OfUser(k, u)
    <3>1. k \notin KeysAt(u, i, Enabled(u))
      BY <2>7, InKeysAt
    <3>2. rules'[k] = rules[k]
      BY <2>1, <2>7, <3>1, ReconcileEffect DEF OfUser
    <3>3. Held(k)' <=> Wanted(k)
      BY <2>2, <2>4, <2>5, <2>7, <3>1 DEF Held, Suspended, OfUser
    <3>. QED BY <2>3, <3>2, <3>3 DEF Kept
  <2>. QED BY <2>6, <2>7
<1>2. ASSUME KnockRecord PROVE Kept(k)'
  <2> DEFINE u == op.user
             prior == IF ip[u] = None \/ ip[u] = op.ip THEN {} ELSE {AtIP(q, ip[u]) : q \in seen}
  <2>1. /\ op.kind = "knock" /\ op'.kind = "idle" /\ u \in UserIds /\ users[u] = "live"
        /\ op.ip \in IPs /\ op.ip # None
        /\ ip' = [ip EXCEPT ![u] = op.ip] /\ UNCHANGED <<users, member>>
    BY <1>2, NoneAssumption DEF KnockRecord, TypeOK, UserOps
  <2>2. FwPass({}, {}, OneCopy(prior))
    BY <1>2 DEF KnockRecord
  <2>3. /\ drift' = drift
        /\ rules'[k] = IF k \in prior /\ rules[k] > 0 THEN rules[k] - 1 ELSE rules[k]
    BY <2>2, OneCopyEffect
  <2>4. Kept(k) /\ ~Leaving(k)
    BY <1>a, <2>1, <2>3 DEF Reliable, Leaving
  <2>5. Held(k)' <=> Wanted(k)'
    BY <2>1 DEF Held, Suspended, Arriving
  <2>6. k \in prior => OfUser(k, u) /\ k.ip # op.ip
    BY <2>1 DEF RowsInv, AtIP, OfUser
  <2>7. CASE OfUser(k, u)
    <3>1. Held(k) <=> Arriving(k)
      BY <2>1, <2>7 DEF Held, Suspended
    <3>2. Arriving(k) => Wanted(k)'
      <4>1. u \in Online' /\ ip'[u] = op.ip
        BY <2>1 DEF Online, TypeOK
      <4>. QED BY <2>1, <4>1 DEF Arriving, Wanted
    <3>3. ASSUME Wanted(k)' PROVE Arriving(k)
      <4>1. PICK w \in Online', g \in GroupIds :
              member[w][g] = "on" /\ OfUser(k, w) /\ k.ip = ip'[w] /\ OfGroup(k, g)
        BY <2>1, <3>3 DEF Wanted, OfUser, OfGroup
      <4>2. NameOf[w] = NameOf[u] /\ w \in LiveUsers /\ u \in LiveUsers
        BY <2>1, <2>7, <4>1 DEF OfUser, Online, LiveUsers
      <4>3. w = u
        BY <4>2 DEF UsersInv
      <4>. QED BY <2>1, <2>7, <4>1, <4>3 DEF Arriving, TypeOK
    <3>4. Arriving(k) => k.ip = op.ip
      BY DEF Arriving
    <3>. QED BY <2>3, <2>4, <2>5, <2>6, <3>1, <3>2, <3>3, <3>4 DEF Kept
  <2>8. CASE ~OfUser(k, u)
    <3>1. Held(k) <=> Wanted(k)
      BY <2>1, <2>8 DEF Held, Suspended, Arriving
    <3>2. Wanted(k)' <=> Wanted(k)
      <4>1. \A w \in UserIds : w # u => ip'[w] = ip[w] /\ (w \in Online' <=> w \in Online)
        BY <2>1 DEF Online, TypeOK
      <4>2. \A w \in Online \cup Online' : w \in UserIds
        BY DEF Online
      <4>3. \A w : OfUser(k, w) => w # u
        BY <2>8
      <4>. QED BY <2>1, <4>1, <4>2, <4>3 DEF Wanted, OfUser, OfGroup
    <3>. QED BY <2>3, <2>4, <2>5, <2>6, <2>8, <3>1, <3>2 DEF Kept
  <2>. QED BY <2>7, <2>8
<1>3. ASSUME NEW t \in toggles, SetMembership(t) PROVE Kept(k)'
  <2> DEFINE u == t.user
             g == t.group
  <2>1. /\ u \in UserIds /\ g \in GroupIds /\ op.kind = "idle"
        /\ UNCHANGED <<users, ip, rules, drift>>
        /\ op'.kind = "toggle" /\ op'.user = u /\ op'.group = g /\ op'.flag = t.enabled
    BY <1>3 DEF SetMembership, TypeOK
  <2>2. member' = IF member[u][g] = "none" THEN member
                  ELSE [member EXCEPT ![u][g] = IF t.enabled THEN "on" ELSE "off"]
    BY <1>3 DEF SetMembership, SetMembershipEnabled
  <2>3. Kept(k) /\ (Held(k) <=> Wanted(k)) /\ ~Leaving(k)
    BY <1>a, <2>1 DEF Reliable, Held, Suspended, Arriving, Leaving
  <2>4. Online' = Online
    BY <2>1 DEF Online
  <2>5. CASE u \in Online /\ OfUser(k, u) /\ OfGroup(k, g)
    <3>1. ~Held(k)'
      BY <2>1, <2>4, <2>5 DEF Held, Suspended, Arriving, OfUser, OfGroup
    <3>2. ASSUME Wanted(k) PROVE Leaving(k)'
      <4>1. users[u] = "live"
        BY <2>5 DEF Online
      <4>2. k.ip = ip[u] /\ member[u][g] = "on"
        BY <2>1, <2>5, <3>2, <4>1, WantedOfRow
      <4>3. t.enabled => member'[u][g] = "on"
        BY <2>1, <2>2, <4>2 DEF TypeOK
      <4>4. t.enabled => Wanted(k)'
        BY <2>1, <2>4, <2>5, <4>2, <4>3 DEF Wanted, OfUser, OfGroup
      <4>. QED BY <2>1, <2>4, <2>5, <4>2, <4>4 DEF Leaving, OfUser, OfGroup
    <3>. QED BY <2>1, <2>3, <3>1, <3>2 DEF Kept
  <2>6. CASE ~(u \in Online /\ OfUser(k, u) /\ OfGroup(k, g))
    <3>1. \A w \in Online, h \in GroupIds :
            OfUser(k, w) /\ OfGroup(k, h) => member'[w][h] = member[w][h]
      <4>. SUFFICES ASSUME NEW w \in Online, NEW h \in GroupIds, OfUser(k, w), OfGroup(k, h)
                    PROVE  member'[w][h] = member[w][h]
        OBVIOUS
      <4>1. w # u \/ h # g
        BY <2>6
      <4>2. w \in UserIds
        BY DEF Online
      <4>. QED BY <2>1, <2>2, <4>1, <4>2 DEF TypeOK
    <3>2. Wanted(k)' <=> Wanted(k)
      BY <2>1, <2>4, <3>1 DEF Wanted, OfUser, OfGroup
    <3>3. ~Suspended(k)' /\ ~Arriving(k)'
      BY <2>1, <2>4, <2>6 DEF Suspended, Arriving, OfUser, OfGroup
    <3>. QED BY <2>1, <2>3, <3>2, <3>3 DEF Kept, Held
  <2>. QED BY <2>5, <2>6
<1>4. ASSUME SetMembershipSync PROVE Kept(k)'
  <2> DEFINE u == op.user
             g == op.group
  <2>1. /\ op.kind = "toggle" /\ op'.kind = "idle" /\ u \in UserIds /\ g \in GroupIds
        /\ UNCHANGED <<users, ip, member>>
    BY <1>4 DEF SetMembershipSync, TypeOK, UserOps, GroupOps
  <2>2. Wanted(k)' <=> Wanted(k)
    BY <2>1 DEF Wanted, Online
  <2>3. Held(k)' <=> Wanted(k)
    BY <2>1, <2>2 DEF Held, Suspended, Arriving
  <2>4. ~Arriving(k)
    BY <2>1 DEF Arriving
  <2>5. CASE u \notin Online /\ UNCHANGED <<rules, drift>>
    <3>1. Kept(k) /\ ~Suspended(k) /\ ~Leaving(k)
      BY <1>a, <2>1, <2>5 DEF Reliable, Suspended, Leaving
    <3>. QED BY <2>3, <2>4, <2>5, <3>1 DEF Kept, Held
  <2>6. CASE u \in Online /\ ~op.flag /\ FwPass({}, {}, OneCopy({RuleKey(u, ip[u], g)}))
    <3>1. /\ drift' = drift
          /\ rules'[k] = IF k \in {RuleKey(u, ip[u], g)} /\ rules[k] > 0 THEN rules[k] - 1
                         ELSE rules[k]
      BY <2>6, OneCopyEffect
    <3>2. Kept(k)
      BY <1>a, <2>1, <3>1 DEF Reliable
    <3>3. users[u] = "live" /\ ip[u] \in IPs
      BY <2>6 DEF Online, TypeOK
    <3>4. k = RuleKey(u, ip[u], g) <=> OfUser(k, u) /\ OfGroup(k, g) /\ k.ip = ip[u]
      BY <2>1, <3>3 DEF Key, RuleKey, OfUser, OfGroup
    <3>5. OfUser(k, u) /\ OfGroup(k, g) => ~Wanted(k)
      BY <2>1, <2>6, <3>3, WantedOfRow DEF RowsInv
    <3>6. CASE k = RuleKey(u, ip[u], g)
      BY <2>3, <3>1, <3>2, <3>4, <3>5, <3>6 DEF Kept
    <3>7. CASE k # RuleKey(u, ip[u], g)
      <4>1. ~Leaving(k)
        BY <2>1, <3>4, <3>7 DEF Leaving
      <4>2. Suspended(k) => ~Wanted(k)
        BY <2>1, <3>5 DEF Suspended
      <4>. QED BY <2>3, <2>4, <3>1, <3>2, <3>7, <4>1, <4>2 DEF Kept, Held
    <3>. QED BY <3>6, <3>7
  <2>7. ASSUME u \in Online, op.flag, NEW failed, Reconcile(u, ip[u], Enabled(u), failed)
        PROVE  Kept(k)'
    <3>1. users[u] = "live" /\ ip[u] \in IPs
      BY <2>7 DEF Online, TypeOK
    <3>2. drift' = drift
      BY <2>1, <2>7, <3>1, ReconcileEffect
    <3>3. Kept(k)
      BY <1>a, <2>1, <3>2 DEF Reliable
    <3>4. Leaving(k) => Wanted(k)
      BY <2>1, <2>7 DEF Leaving
    <3>5. ~ReAdd => rules[k] <= 1 /\ (rules[k] > 0 => Wanted(k))
      BY <2>4, <3>3, <3>4 DEF Kept, Held
    <3>6. CASE OfUser(k, u)
      <4>1. Wanted(k) <=> k \in KeysAt(u, ip[u], Enabled(u))
        <5>1. k \in KeysAt(u, ip[u], Enabled(u)) => Wanted(k)
          BY <2>1, <2>7, <3>1, InKeysAt DEF Wanted
        <5>. QED BY <2>1, <3>1, <3>6, <5>1, WantedOfUser, InKeysAt
      <4>2. IF Wanted(k) THEN rules'[k] = IF rules[k] = 0 THEN 1 ELSE rules[k]
            ELSE rules'[k] <= rules[k] /\ rules'[k] \in Nat
        BY <2>1, <2>7, <3>1, <4>1, ReconcileEffect
      <4>. QED BY <2>3, <3>5, <4>2 DEF Kept
    <3>7. CASE ~OfUser(k, u)
      <4>1. rules'[k] = rules[k]
        BY <2>1, <2>7, <3>1, <3>7, InKeysAt, ReconcileEffect DEF OfUser
      <4>2. ~Suspended(k)
        BY <2>1, <3>7 DEF Suspended
      <4>. QED BY <2>3, <2>4, <3>3, <3>5, <4>1, <4>2 DEF Kept, Held
    <3>. QED BY <3>6, <3>7
  <2>. QED BY <1>4, <2>5, <2>6, <2>7 DEF SetMembershipSync
<1>5. ASSUME NEW u \in UserIds, NEW g \in GroupIds, NEW en \in BOOLEAN, AddMembership(u, g, en)
      PROVE  Kept(k)'
  <2>1. /\ op.kind = "idle" /\ users[u] = "live" /\ UNCHANGED <<users, ip, rules, drift>>
        /\ ~ReAdd => member[u][g] = "none"
        /\ member' = [member EXCEPT ![u][g] = IF en THEN "on" ELSE "off"]
    BY <1>5 DEF AddMembership
  <2>2. IF en /\ ip[u] # None THEN op'.kind = "join" /\ op'.user = u /\ op'.group = g
        ELSE op'.kind = "idle"
    BY <1>5 DEF AddMembership
  <2>3. Kept(k) /\ (Held(k) <=> Wanted(k)) /\ ~Leaving(k)
    BY <1>a, <2>1, <2>2 DEF Reliable, Held, Suspended, Arriving, Leaving
  <2>4. Online' = Online
    BY <2>1 DEF Online
  <2>5. CASE OfUser(k, u) /\ OfGroup(k, g) /\ ip[u] # None
    <3>1. ~ReAdd => ~Wanted(k)
      BY <2>1, <2>5, WantedOfRow
    <3>2. ~Held(k)'
      <4>1. CASE en
        BY <2>2, <2>5, <4>1 DEF Held, Suspended, Arriving, OfUser, OfGroup
      <4>2. CASE ~en
        <5>1. ASSUME Wanted(k)' PROVE FALSE
          <6>1. PICK w \in Online, h \in GroupIds :
                  member'[w][h] = "on" /\ OfUser(k, w) /\ OfGroup(k, h)
            BY <2>4, <5>1 DEF Wanted, OfUser, OfGroup
          <6>2. NameOf[w] = NameOf[u] /\ w \in LiveUsers /\ u \in LiveUsers
            BY <2>1, <2>5, <6>1 DEF OfUser, Online, LiveUsers
          <6>3. w = u /\ h = g
            BY <2>5, <6>1, <6>2 DEF UsersInv, OneIdPerGroup, OfGroup
          <6>. QED BY <2>1, <4>2, <6>1, <6>3 DEF TypeOK
        <5>. QED BY <2>2, <4>2, <5>1 DEF Held, Arriving
      <4>. QED BY <4>1, <4>2
    <3>. QED BY <2>1, <2>3, <3>1, <3>2 DEF Kept
  <2>6. CASE ~(OfUser(k, u) /\ OfGroup(k, g) /\ ip[u] # None)
    <3>1. \A w \in Online, h \in GroupIds :
            OfUser(k, w) /\ OfGroup(k, h) => member'[w][h] = member[w][h]
      <4>. SUFFICES ASSUME NEW w \in Online, NEW h \in GroupIds, OfUser(k, w), OfGroup(k, h)
                    PROVE  member'[w][h] = member[w][h]
        OBVIOUS
      <4>1. w \in UserIds /\ (w # u \/ h # g)
        BY <2>6 DEF Online
      <4>. QED BY <2>1, <4>1 DEF TypeOK
    <3>2. Wanted(k)' <=> Wanted(k)
      BY <2>1, <2>4, <3>1 DEF Wanted, OfUser, OfGroup
    <3>3. ~Suspended(k)' /\ ~Arriving(k)'
      BY <2>2, <2>6 DEF Suspended, Arriving, OfUser, OfGroup
    <3>. QED BY <2>1, <2>3, <3>2, <3>3 DEF Kept, Held
  <2>. QED BY <2>5, <2>6
<1>6. ASSUME AddMembershipRule PROVE Kept(k)'
  <2> DEFINE u == op.user
             g == op.group
             key == RuleKey(u, op.ip, g)
  <2>1. /\ op.kind = "join" /\ op'.kind = "idle" /\ UNCHANGED <<users, ip, member>>
        /\ u \in UserIds /\ g \in GroupIds /\ op.ip \in IPs /\ op.ip # None
        /\ users[u] = "live" /\ ip[u] = op.ip /\ member[u][g] = "on"
    BY <1>6, NoneAssumption DEF AddMembershipRule, UsersInv, RowsInv, TypeOK, UserOps, GroupOps
  <2>2. PICK failed : FwPass({key}, failed, NoCopies)
    BY <1>6 DEF AddMembershipRule
  <2>3. /\ drift' = drift
        /\ rules'[k] = IF k \in {key} THEN rules[k] + 1 ELSE rules[k] - NoCopies[k]
    BY <2>2, FwPassEffect, DeletionsExist
  <2>4. rules'[k] = IF k = key THEN rules[k] + 1 ELSE rules[k]
    BY <2>3 DEF NoCopies
  <2>5. Kept(k) /\ ~Leaving(k) /\ ~Arriving(k)
    BY <1>a, <2>1, <2>3 DEF Reliable, Leaving, Arriving
  <2>6. Held(k)' <=> Wanted(k)
    BY <2>1 DEF Held, Suspended, Arriving, Wanted, Online
  <2>7. k = key <=> OfUser(k, u) /\ OfGroup(k, g) /\ k.ip = op.ip
    BY <2>1 DEF Key, RuleKey, OfUser, OfGroup
  <2>8. CASE k = key
    <3>1. Wanted(k) /\ Suspended(k)
      BY <2>1, <2>7, <2>8 DEF Wanted, Suspended, Online
    <3>. QED BY <2>4, <2>5, <2>6, <2>8, <3>1 DEF Kept, Held
  <2>9. CASE k # key
    <3>1. Wanted(k) => ~Suspended(k)
      BY <2>1, <2>7, <2>9, WantedOfUser DEF Suspended
    <3>. QED BY <2>4, <2>5, <2>6, <2>9, <3>1 DEF Kept, Held
  <2>. QED BY <2>8, <2>9
<1>7. ASSUME NEW u \in UserIds, NEW g \in GroupIds, RemoveMembership(u, g) PROVE Kept(k)'
  <2>1. /\ op.kind = "idle" /\ users[u] = "live" /\ UNCHANGED <<users, ip, rules, drift>>
        /\ member' = [member EXCEPT ![u][g] = "none"]
    BY <1>7 DEF RemoveMembership
  <2>2. IF ip[u] # None
        THEN op'.kind = "leave" /\ op'.user = u /\ op'.group = g /\ op'.ip = ip[u]
        ELSE op'.kind = "idle"
    BY <1>7 DEF RemoveMembership
  <2>3. Kept(k) /\ (Held(k) <=> Wanted(k)) /\ ~Leaving(k)
    BY <1>a, <2>1, <2>2 DEF Reliable, Held, Suspended, Arriving, Leaving
  <2>4. Online' = Online
    BY <2>1 DEF Online
  <2>5. Held(k)' <=> Wanted(k)'
    BY <2>2 DEF Held, Suspended, Arriving
  <2>6. Wanted(k)' => Wanted(k)
    <3>1. \A w \in Online, h \in GroupIds : member'[w][h] = "on" => member[w][h] = "on"
      BY <2>1 DEF TypeOK, Online
    <3>. QED BY <2>1, <2>4, <3>1 DEF Wanted, OfUser, OfGroup
  <2>7. ASSUME Wanted(k), ~Wanted(k)' PROVE Leaving(k)'
    <3>1. PICK w \in Online, h \in GroupIds :
            member[w][h] = "on" /\ OfUser(k, w) /\ k.ip = ip[w] /\ OfGroup(k, h)
      BY <2>7 DEF Wanted
    <3>2. member'[w][h] # "on"
      BY <2>1, <2>4, <2>7, <3>1 DEF Wanted, OfUser, OfGroup
    <3>3. w = u /\ h = g
      BY <2>1, <3>1, <3>2 DEF TypeOK, Online
    <3>. QED BY <2>2, <3>1, <3>3 DEF Leaving, OfUser, OfGroup, Online
  <2>. QED BY <2>1, <2>3, <2>5, <2>6, <2>7 DEF Kept
<1>8. ASSUME RemoveMembershipRule PROVE Kept(k)'
  <2> DEFINE u == op.user
             g == op.group
             key == RuleKey(u, op.ip, g)
  <2>1. /\ op.kind = "leave" /\ op'.kind = "idle" /\ UNCHANGED <<users, ip, member>>
        /\ u \in UserIds /\ g \in GroupIds /\ op.ip \in IPs
        /\ users[u] = "live" /\ member[u][g] = "none"
    BY <1>8 DEF RemoveMembershipRule, UsersInv, RowsInv, TypeOK, UserOps, GroupOps
  <2>2. FwPass({}, {}, OneCopy({key}))
    BY <1>8 DEF RemoveMembershipRule
  <2>3. /\ drift' = drift
        /\ rules'[k] = IF k \in {key} /\ rules[k] > 0 THEN rules[k] - 1 ELSE rules[k]
    BY <2>2, OneCopyEffect
  <2>4. Kept(k) /\ (Held(k) <=> Wanted(k))
    BY <1>a, <2>1, <2>3 DEF Reliable, Held, Suspended, Arriving
  <2>5. Held(k)' <=> Wanted(k)
    BY <2>1 DEF Held, Suspended, Arriving, Wanted, Online
  <2>6. k = key <=> OfUser(k, u) /\ OfGroup(k, g) /\ k.ip = op.ip
    BY <2>1 DEF Key, RuleKey, OfUser, OfGroup
  <2>7. k = key => ~Wanted(k)
    BY <2>1, <2>6, WantedOfRow
  <2>8. k # key => ~Leaving(k)
    BY <2>1, <2>6 DEF Leaving
  <2>. QED BY <2>3, <2>4, <2>5, <2>7, <2>8 DEF Kept
<1>9. ASSUME NEW u \in UserIds, \/ DeleteUser(u)
                                \/ \E rotate \in BOOLEAN : Revoke(u, rotate)
      PROVE  Kept(k)'
  <2>1. /\ op.kind = "idle" /\ op'.kind \in {"userdel", "revoke"} /\ op'.user = u
        /\ UNCHANGED <<users, ip, member>>
    BY <1>9 DEF DeleteUser, Revoke
  <2>2. FwPass({}, {}, UserCopies(u))
    BY <1>9 DEF DeleteUser, Revoke
  <2>3. drift' = drift /\ rules'[k] = rules[k] - UserCopies(u)[k]
    BY <2>2, DeletingShrinks, DeletionsExist
  <2>4. rules'[k] = IF OfUser(k, u) THEN 0 ELSE rules[k]
    BY <2>3 DEF UserCopies, OfUser
  <2>5. Kept(k) /\ (Held(k) <=> Wanted(k)) /\ ~Leaving(k)
    BY <1>a, <2>1, <2>3 DEF Reliable, Held, Suspended, Arriving, Leaving
  <2>6. Held(k)' <=> Wanted(k) /\ ~OfUser(k, u)
    BY <2>1 DEF Held, Suspended, Arriving, Wanted, Online, OfUser
  <2>. QED BY <2>4, <2>5, <2>6 DEF Kept
<1>10. ASSUME RevokeClear \/ DeleteUserRow PROVE Kept(k)'
  <2> DEFINE u == op.user
  <2>1. /\ op.kind \in {"revoke", "userdel"} /\ op'.kind \in {"idle", "rotate"}
        /\ UNCHANGED <<rules, drift>> /\ u \in UserIds /\ users[u] = "live"
    BY <1>10 DEF RevokeClear, DeleteUserRow, TypeOK, UsersInv, UserOps
  <2>2. /\ ip' = [ip EXCEPT ![u] = None] /\ users' \in {users, [users EXCEPT ![u] = "gone"]}
        /\ member' \in {member, [member EXCEPT ![u] = NoRows]}
    BY <1>10 DEF RevokeClear, DeleteUserRow, ClearUserState
  <2>3. Kept(k) /\ ~Leaving(k) /\ (Held(k) <=> Wanted(k) /\ ~OfUser(k, u))
    BY <1>a, <2>1 DEF Reliable, Held, Suspended, Arriving, Leaving
  <2>4. Held(k)' <=> Wanted(k)'
    BY <2>1 DEF Held, Suspended, Arriving
  <2>5. Online' = Online \ {u}
    BY <2>1, <2>2 DEF Online, TypeOK
  <2>6. \A w \in Online \ {u} : member'[w] = member[w] /\ ip'[w] = ip[w]
    BY <2>1, <2>2 DEF TypeOK, Online
  <2>7. CASE OfUser(k, u)
    <3>1. ASSUME NEW w \in Online, OfUser(k, w) PROVE w = u
      <4>1. NameOf[w] = NameOf[u] /\ w \in LiveUsers /\ u \in LiveUsers
        BY <2>1, <2>7, <3>1 DEF OfUser, Online, LiveUsers
      <4>. QED BY <4>1 DEF UsersInv
    <3>2. ~Wanted(k)'
      BY <2>5, <3>1 DEF Wanted, OfUser
    <3>. QED BY <2>1, <2>3, <2>4, <2>7, <3>2 DEF Kept
  <2>8. CASE ~OfUser(k, u)
    <3>1. \A w : OfUser(k, w) => w # u
      BY <2>8
    <3>2. Wanted(k)' <=> Wanted(k)
      BY <2>5, <2>6, <3>1 DEF Wanted, OfUser, OfGroup
    <3>. QED BY <2>1, <2>3, <2>4, <2>8, <3>2 DEF Kept
  <2>. QED BY <2>7, <2>8
<1>11. ASSUME NEW g \in GroupIds, DeleteGroup(g) PROVE Kept(k)'
  <2> DEFINE members == {u \in Online : member[u][g] # "none"}
             keys == {RuleKey(u, ip[u], g) : u \in members}
  <2>1. /\ op.kind = "idle" /\ op'.kind = "groupdel" /\ op'.group = g
        /\ UNCHANGED <<users, ip, member>>
    BY <1>11 DEF DeleteGroup
  <2>2. FwPass({}, {}, OneCopy(keys))
    BY <1>11 DEF DeleteGroup
  <2>3. /\ drift' = drift
        /\ rules'[k] = IF k \in keys /\ rules[k] > 0 THEN rules[k] - 1 ELSE rules[k]
    BY <2>2, OneCopyEffect
  <2>4. Kept(k) /\ (Held(k) <=> Wanted(k)) /\ ~Leaving(k)
    BY <1>a, <2>1, <2>3 DEF Reliable, Held, Suspended, Arriving, Leaving
  <2>5. Held(k)' <=> Wanted(k) /\ ~OfGroup(k, g)
    BY <2>1 DEF Held, Suspended, Arriving, Wanted, Online, OfGroup
  <2>6. k \in keys => OfGroup(k, g)
    BY DEF RuleKey, OfGroup
  <2>7. ASSUME Wanted(k), OfGroup(k, g) PROVE k \in keys
    <3>1. PICK u \in Online, h \in GroupIds :
            member[u][h] = "on" /\ OfUser(k, u) /\ k.ip = ip[u] /\ OfGroup(k, h)
      BY <2>7 DEF Wanted
    <3>2. h = g
      BY <2>7, <3>1 DEF OneIdPerGroup, OfGroup
    <3>3. k = RuleKey(u, ip[u], g) /\ u \in members
      BY <3>1, <3>2 DEF Key, RuleKey, OfUser, OfGroup
    <3>. QED BY <3>3
  <2>. QED BY <2>3, <2>4, <2>5, <2>6, <2>7 DEF Kept
<1>12. ASSUME DeleteGroupRow PROVE Kept(k)'
  <2> DEFINE g == op.group
  <2>1. /\ op.kind = "groupdel" /\ op'.kind = "groupsync" /\ g \in GroupIds
        /\ UNCHANGED <<users, ip, rules, drift>>
        /\ member' = [u \in UserIds |-> [member[u] EXCEPT ![g] = "none"]]
    BY <1>12 DEF DeleteGroupRow, TypeOK, GroupOps
  <2>2. Kept(k) /\ ~Leaving(k) /\ (Held(k) <=> Wanted(k) /\ ~OfGroup(k, g))
    BY <1>a, <2>1 DEF Reliable, Held, Suspended, Arriving, Leaving
  <2>3. Online' = Online /\ (Held(k)' <=> Wanted(k)')
    BY <2>1 DEF Held, Suspended, Arriving, Online
  <2>4. \A u \in Online, h \in GroupIds :
          member'[u][h] = IF h = g THEN "none" ELSE member[u][h]
    BY <2>1 DEF Online, TypeOK
  <2>5. \A h \in GroupIds : OfGroup(k, h) => (h = g <=> OfGroup(k, g))
    BY <2>1 DEF OneIdPerGroup, OfGroup
  <2>6. Wanted(k)' <=> Wanted(k) /\ ~OfGroup(k, g)
    <3>1. Wanted(k)' <=> \E u \in Online, h \in GroupIds :
            member'[u][h] = "on" /\ OfUser(k, u) /\ k.ip = ip[u] /\ OfGroup(k, h)
      BY <2>1, <2>3 DEF Wanted, OfUser, OfGroup
    <3>2. CASE OfGroup(k, g)
      BY <2>4, <2>5, <3>1, <3>2
    <3>3. CASE ~OfGroup(k, g)
      <4>1. \A u \in Online, h \in GroupIds : OfGroup(k, h) => member'[u][h] = member[u][h]
        BY <2>4, <3>3
      <4>. QED BY <3>1, <3>3, <4>1 DEF Wanted
    <3>. QED BY <3>2, <3>3
  <2>. QED BY <2>1, <2>2, <2>3, <2>6 DEF Kept
<1>13. ASSUME ReconcileAll PROVE Kept(k)'
  <2>1. op.kind = "apply" /\ op'.kind = "guard" /\ UNCHANGED <<users, ip, member>>
    BY <1>13 DEF ReconcileAll
  <2>2. PICK failed : FwPass(Missing(seen), failed, SurplusCopies(seen))
    BY <1>13 DEF ReconcileAll
  <2>3. rules'[k] = IF k \in Missing(seen) THEN rules[k] + 1
                    ELSE rules[k] - SurplusCopies(seen)[k]
    BY <2>2, FwPassEffect, DeletionsExist
  <2>4. rules'[k] = IF k \in seen THEN 1 ELSE 0
    BY <2>3 DEF Missing, SurplusCopies
  <2>5. k \in seen <=> Wanted(k)
    BY <2>1, WantedIsDesired DEF RulesInv
  <2>6. Held(k)' <=> Wanted(k)
    BY <2>1 DEF Held, Suspended, Arriving, Wanted, Online
  <2>. QED BY <2>4, <2>5, <2>6 DEF Kept
<1>14. ASSUME MaintainGuard PROVE Kept(k)'
  <2>1. op.kind = "guard" /\ op'.kind = "idle" /\ UNCHANGED <<users, ip, member, rules>>
    BY <1>14 DEF MaintainGuard, SyncGuardOk, SyncGuardFails
  <2>2. drift \in {"none", "old"}
    BY <1>14 DEF MaintainGuard, TypeOK
  <2>3. Kept(k) /\ Online' = Online
    BY <1>a, <2>1, <2>2 DEF Reliable, Online
  <2>. QED BY <2>1, <2>3, KeptQuietly
<1>15. ASSUME DeleteGroupSync \/ \E g \in GroupIds : SyncGuardNow(g) PROVE Kept(k)'
  <2>1. /\ op.kind \in {"idle", "groupsync"} /\ op'.kind = "idle"
        /\ UNCHANGED <<users, ip, member, rules>> /\ drift' = drift
    BY <1>15 DEF SyncGuardNow, DeleteGroupSync, SyncGuardOk, SyncGuardFails
  <2>2. Kept(k) /\ Online' = Online
    BY <1>a, <2>1 DEF Reliable, Online
  <2>. QED BY <2>1, <2>2, KeptQuietly
<1>16. ASSUME NEW u \in UserIds, CreateUser(u) PROVE Kept(k)'
  <2>1. users' = [users EXCEPT ![u] = "live"] /\ users[u] = "new"
        /\ UNCHANGED <<ip, member, rules, op, drift>>
    BY <1>16 DEF CreateUser
  <2>2. ip[u] = None
    BY <2>1 DEF UsersInv
  <2>3. Online' = Online
    BY <2>1, <2>2 DEF Online, TypeOK
  <2>. QED BY <1>a, <2>1, <2>3, KeptQuietly DEF Reliable
<1>17. ASSUME RevokeRotate PROVE Kept(k)'
  <2>1. /\ op.kind = "rotate" /\ op'.kind = "idle"
        /\ UNCHANGED <<users, ip, member, rules, drift>>
    BY <1>17 DEF RevokeRotate
  <2>2. Kept(k) /\ Online' = Online
    BY <1>a, <2>1 DEF Reliable, Online
  <2>. QED BY <2>1, <2>2, KeptQuietly
<1>18. ASSUME \/ Tick \/ \E u \in UserIds : CleanupStale(u)
              \/ CleanupDone \/ MaintainRead \/ Abort \/ Flush
       PROVE  FALSE
  <2>1. ASSUME Tick PROVE FALSE
    BY <2>1 DEF Tick, MaintainBegin, Reliable
  <2>2. ASSUME NEW u \in UserIds, CleanupStale(u) PROVE FALSE
    BY <2>2 DEF CleanupStale, Reliable
  <2>3. ASSUME CleanupDone \/ MaintainRead PROVE FALSE
    BY <2>3 DEF CleanupDone, MaintainRead, Reliable
  <2>4. ASSUME Abort \/ Flush PROVE FALSE
    BY <2>4 DEF Abort, Flush
  <2>. QED BY <1>18, <2>1, <2>2, <2>3, <2>4
<1>19. ASSUME \/ Crash
              \/ \E g \in GroupIds : CreateGroup(g)
              \/ \E u \in UserIds, g \in GroupIds, en \in BOOLEAN, by \in {"self", "admin"} :
                   BeginToggle(u, g, en, by)
              \/ \E u \in UserIds : GrowIdle(u)
              \/ UNCHANGED vars
       PROVE  Kept(k)'
  <2>1. UNCHANGED <<users, ip, member, rules, op, drift>>
    BY <1>19 DEF Crash, CreateGroup, BeginToggle, GrowIdle, vars
  <2>2. Kept(k) /\ Online' = Online
    BY <1>a, <2>1 DEF Reliable, Online
  <2>. QED BY <2>1, <2>2, KeptQuietly
<1>. QED
  BY <1>1, <1>2, <1>3, <1>4, <1>5, <1>6, <1>7, <1>8, <1>9, <1>10, <1>11, <1>12, <1>13, <1>14,
     <1>15, <1>16, <1>17, <1>18, <1>19 DEF Next, Start, Continue, Unlocked, Environment

-----------------------------------------------------------------------------
(* Theorems *)

\* The invariant of the rules is inductive.
LEMMA RulesAlways ==
    ASSUME OneIdPerGroup
    PROVE  Spec => []RulesInv
<1>1. Init => RulesInv
  <2>1. ASSUME Init, NEW k \in Key PROVE Kept(k)
    <3>1. rules[k] = 0 /\ Online = {} /\ op.kind = "idle"
      BY <2>1 DEF Init, NoCopies, Online, Idle, Handler
    <3>. QED BY <3>1 DEF Kept, Held, Wanted, Arriving
  <2>2. Init => op.kind = "idle"
    BY DEF Init, Idle, Handler
  <2>. QED BY <2>1, <2>2, UsersInit DEF RulesInv, RowsInv
<1>2. RulesInv /\ [Next]_vars => RulesInv'
  BY UsersStep, SeenStep, RowsStep, KeptStep DEF RulesInv
<1>. QED BY <1>1, <1>2, PTL DEF Spec

\* What the invariant says of a key when nobody holds fwMu.
LEMMA KeptWhenSettled ==
    ASSUME RulesInv, Settled, NEW k \in Key
    PROVE  /\ k \in DesiredStateLocal => rules[k] > 0
           /\ ~ReAdd => rules[k] = IF k \in DesiredStateLocal THEN 1 ELSE 0
<1>1. op.kind = "idle" /\ Reliable /\ TypeOK
  BY DEF Settled, Free, Idle, Handler, Reliable, RulesInv, UsersInv
<1>2. Kept(k) /\ (Held(k) <=> Wanted(k)) /\ ~Leaving(k)
  BY <1>1 DEF RulesInv, Held, Suspended, Arriving, Leaving
<1>3. Wanted(k) <=> k \in DesiredStateLocal
  BY <1>1, WantedIsDesired
<1>. QED BY <1>1, <1>2, <1>3 DEF Kept, TypeOK

\* For any number of users, groups, addresses and waiting toggles: when nobody
\* holds fwMu and no failure is outstanding, every enabled membership of a user
\* with an address is open, provided no group comes back under its old name and port.
THEOREM DesiredRulesAreOpen ==
    ASSUME OneIdPerGroup
    PROVE  Spec => []DesiredIsOpen
<1>1. RulesInv => DesiredIsOpen
  BY KeptWhenSettled, DesiredType DEF DesiredIsOpen, RulesInv, UsersInv
<1>. QED BY <1>1, RulesAlways, PTL

\* Database and chain change together: when, further, no admin adds a membership
\* that exists (AddRule inserts without looking), the chain holds one rule per
\* desired access and nothing else.
THEOREM FirewallIsDatabase ==
    ASSUME OneIdPerGroup, ~ReAdd
    PROVE  Spec => []FirewallMatchesDatabase
<1>1. RulesInv => FirewallMatchesDatabase
  <2>1. ASSUME RulesInv, Settled
        PROVE  rules = [k \in Key |-> IF k \in DesiredStateLocal THEN 1 ELSE 0]
    <3>1. rules \in [Key -> Nat]
      BY <2>1 DEF RulesInv, UsersInv, TypeOK
    <3>2. \A k \in Key : rules[k] = IF k \in DesiredStateLocal THEN 1 ELSE 0
      BY <2>1, KeptWhenSettled
    <3>. QED BY <3>1, <3>2
  <2>. QED BY <2>1 DEF FirewallMatchesDatabase
<1>. QED BY <1>1, RulesAlways, PTL
=============================================================================
