---------------------------- MODULE HubCliProofs ----------------------------
(***************************************************************************)
(* Theorems about the management commands next to a running server, for    *)
(* every number of users and groups and every interleaving.                *)
(***************************************************************************)
EXTENDS HubCli, HubProofs

UserSteps == {"clear", "rotate", "userdel", "join", "joinrule", "leaverule", "leave"}
GroupSteps == {"join", "joinrule", "leaverule", "leave", "groupdelrules", "groupdel"}
CliSteps == UserSteps \cup GroupSteps \cup {"none", "cleanup"}

\* A command in progress names what it works on.
CliType ==
    /\ cli \in [step : CliSteps, user : UserIds \cup {None}, group : GroupIds \cup {None},
                stale : SUBSET UserIds, keys : SUBSET Key, flag : BOOLEAN]
    /\ cli.step \in UserSteps => cli.user \in UserIds
    /\ cli.step \in GroupSteps => cli.group \in GroupIds

\* The types of both processes with the rows of deleted users and groups.
CliInv == TypeOK /\ CliType /\ DeletedStaysDeleted

-----------------------------------------------------------------------------
(* Types *)

\* The rule a command finds on record is a key.
LEMMA RuleOnRecordType ==
    ASSUME TypeOK, NEW u \in UserIds, NEW g \in GroupIds
    PROVE  RuleOnRecord(u, g) \in SUBSET Key
<1>1. u \in Online => ip[u] \in IPs
  BY DEF Online, TypeOK
<1>. QED BY <1>1, RuleKeyType DEF RuleOnRecord

\* A command that names what its next step works on is well typed.
LEMMA CommandType ==
    ASSUME NEW step \in CliSteps, NEW u \in UserIds \cup {None}, NEW g \in GroupIds \cup {None},
           NEW stale \in SUBSET UserIds, NEW keys \in SUBSET Key, NEW flag \in BOOLEAN,
           step \in UserSteps => u \in UserIds, step \in GroupSteps => g \in GroupIds,
           cli' = Command(step, u, g, stale, keys, flag)
    PROVE  CliType'
BY DEF CliType, Command

\* The types survive a step that changes none of the variables but rules and
\* drift, and those by a pass over the firewall.
LEMMA PassKeepsTypes ==
    ASSUME TypeOK, NEW adds, NEW failed, NEW extra, Deletable(extra),
           FwPass(adds, failed, extra), UNCHANGED <<db, guard, base, server>>
    PROVE  TypeOK'
<1>1. rules' \in [Key -> Nat] /\ drift' \in {"none", "old", "new"}
  BY FwPassEffect
<1>. QED BY <1>1 DEF TypeOK, db, server

\* Every step of either process keeps the types.
LEMMA CliTypeStep ==
    ASSUME TypeOK, CliType, [CliNext]_cliVars
    PROVE  TypeOK' /\ CliType'
<1> USE DEF CliSteps, UserSteps, GroupSteps, Command, NoCommand, Ready, Then, Exit
<1>1. ASSUME UNCHANGED vars PROVE TypeOK'
  BY <1>1, TypeStep
<1>2. ASSUME UNCHANGED cli PROVE CliType'
  BY <1>2 DEF CliType
<1>3. ASSUME Exit PROVE CliType'
  BY <1>3 DEF CliType
<1>4. ASSUME Next, UNCHANGED cli PROVE TypeOK' /\ CliType'
  BY <1>2, <1>4, TypeStep
<1>5. ASSUME KnockGone PROVE TypeOK' /\ CliType'
  BY <1>2, <1>5 DEF KnockGone, Release, Idle, Handler, TypeOK, OpKinds, UserOps, GroupOps, db, fw
<1>6. ASSUME NEW u \in UserIds, NEW rotate \in BOOLEAN, CmdRevoke(u, rotate) \/ CmdUserDel(u)
      PROVE  TypeOK' /\ CliType'
  <2>1. TypeOK'
    BY <1>6, PassKeepsTypes, DeletionsExist DEF CmdRevoke, CmdUserDel
  <2>2. \/ cli' = Command("clear", u, None, {}, {}, rotate)
        \/ cli' = Command("userdel", u, None, {}, {}, FALSE)
    BY <1>6 DEF CmdRevoke, CmdUserDel
  <2>3. ASSUME NEW step \in {"clear", "userdel"}, NEW flag \in BOOLEAN,
               cli' = Command(step, u, None, {}, {}, flag)
        PROVE  CliType'
    BY <2>3 DEF CliType
  <2>4. CliType'
    BY <2>2, <2>3
  <2>. QED BY <2>1, <2>4
<1>7. ASSUME CmdRevokeClear PROVE TypeOK' /\ CliType'
  <2>1. TypeOK'
    BY <1>7 DEF CmdRevokeClear, ClearUserState, TypeOK, CliType, fw, server
  <2>2. CASE Exit
    BY <1>3, <2>1, <2>2
  <2>3. CASE Then("rotate")
    BY <1>7, <2>1, <2>3 DEF CmdRevokeClear, CliType
  <2>. QED BY <1>7, <2>2, <2>3 DEF CmdRevokeClear
<1>8. ASSUME CmdRevokeRotate PROVE TypeOK' /\ CliType'
  BY <1>3, <1>8 DEF CmdRevokeRotate, TypeOK, CliType, fw, server
<1>9. ASSUME CmdUserDelRow PROVE TypeOK' /\ CliType'
  BY <1>3, <1>9 DEF CmdUserDelRow, ClearUserState, NoRows, TypeOK, CliType, fw, server
<1>10. ASSUME NEW u \in UserIds, NEW g \in GroupIds, CmdUserJoin(u, g) \/ CmdUserLeave(u, g)
       PROVE  TypeOK' /\ CliType'
  <2>1. UNCHANGED vars
    BY <1>10 DEF CmdUserJoin, CmdUserLeave, db, fw, server, vars
  <2>2. \/ cli' = Command("join", u, g, {}, RuleOnRecord(u, g), FALSE)
        \/ cli' = Command("leaverule", u, g, {}, RuleOnRecord(u, g), FALSE)
    BY <1>10 DEF CmdUserJoin, CmdUserLeave
  <2>3. CliType'
    BY <2>2, RuleOnRecordType, CommandType DEF CliSteps, UserSteps, GroupSteps
  <2>. QED BY <1>1, <2>1, <2>3
<1>11. ASSUME CmdUserJoinRow PROVE TypeOK' /\ CliType'
  <2>1. CASE UNCHANGED member /\ Exit
    BY <1>3, <1>11, <2>1 DEF CmdUserJoinRow, TypeOK, fw, server
  <2>2. CASE member' = [member EXCEPT ![cli.user][cli.group] = "on"] /\ Then("joinrule")
    BY <1>11, <2>2 DEF CmdUserJoinRow, TypeOK, CliType, fw, server
  <2>. QED BY <1>11, <2>1, <2>2 DEF CmdUserJoinRow
<1>12. ASSUME CmdUserJoinRule PROVE TypeOK' /\ CliType'
  BY <1>3, <1>12, PassKeepsTypes, DeletionsExist DEF CmdUserJoinRule
<1>13. ASSUME NEW g \in GroupIds, CmdGroupDel(g) PROVE TypeOK' /\ CliType'
  <2>1. UNCHANGED vars
    BY <1>13 DEF CmdGroupDel, db, fw, server, vars
  <2>2. UNION {RuleOnRecord(u, g) : u \in {w \in UserIds : member[w][g] # "none"}} \in SUBSET Key
    BY RuleOnRecordType
  <2>3. CliType'
    BY <1>13, <2>2 DEF CmdGroupDel, CliType
  <2>. QED BY <1>1, <2>1, <2>3
<1>14. ASSUME NEW g \in GroupIds, CmdGroupAdd(g) PROVE TypeOK' /\ CliType'
  BY <1>2, <1>14 DEF CmdGroupAdd, TypeOK, fw, server
<1>15. ASSUME CmdRemoveRules PROVE TypeOK' /\ CliType'
  <2>1. TypeOK'
    BY <1>15, PassKeepsTypes, DeletionsExist DEF CmdRemoveRules
  <2>2. CliType'
    BY <1>15 DEF CmdRemoveRules, CliType
  <2>. QED BY <2>1, <2>2
<1>16. ASSUME CmdUserLeaveRow PROVE TypeOK' /\ CliType'
  BY <1>3, <1>16 DEF CmdUserLeaveRow, TypeOK, CliType, fw, server
<1>17. ASSUME CmdGroupDelRow PROVE TypeOK' /\ CliType'
  BY <1>3, <1>17 DEF CmdGroupDelRow, TypeOK, CliType, fw, server
<1>18. ASSUME CmdCleanup PROVE TypeOK' /\ CliType'
  <2>1. UNCHANGED vars
    BY <1>18 DEF CmdCleanup, db, fw, server, vars
  <2>2. \A u \in Expired : u \in UserIds /\ ip[u] \in IPs /\ Enabled(u) \in SUBSET GroupIds
    BY DEF Expired, Online, TypeOK, Enabled
  <2>3. UNION {KeysAt(u, ip[u], Enabled(u)) : u \in Expired} \in SUBSET Key /\ Expired \in SUBSET UserIds
    BY <2>2, KeysAtType
  <2>4. CliType'
    BY <1>18, <2>3 DEF CmdCleanup, CliType
  <2>. QED BY <1>1, <2>1, <2>4
<1>19. ASSUME NEW u \in UserIds, CmdCleanupUser(u) PROVE TypeOK' /\ CliType'
  <2>1. rules' \in [Key -> Nat] /\ drift' \in {"none", "old", "new"}
    BY <1>19, FwPassEffect, DeletionsExist DEF CmdCleanupUser
  <2>2. TypeOK'
    BY <1>19, <2>1 DEF CmdCleanupUser, ClearUserState, TypeOK, server
  <2>3. CliType'
    BY <1>19 DEF CmdCleanupUser, CliType
  <2>. QED BY <2>2, <2>3
<1>20. ASSUME CmdDies PROVE TypeOK' /\ CliType'
  BY <1>3, <1>20 DEF CmdDies, TypeOK, db, fw, server
<1>21. CASE UNCHANGED cliVars
  BY <1>1, <1>2, <1>21 DEF cliVars, vars
<1>. QED
  BY <1>4, <1>5, <1>6, <1>7, <1>8, <1>9, <1>10, <1>11, <1>12, <1>13, <1>14, <1>15, <1>16,
     <1>17, <1>18, <1>19, <1>20, <1>21 DEF CliNext, CmdStart, CmdContinue

-----------------------------------------------------------------------------
(* Deletion *)

\* A step that gives no user or group a deletion, an address or a row keeps what
\* holds of the deleted ones.
LEMMA NothingReturns ==
    ASSUME TypeOK, DeletedStaysDeleted,
           \A u \in UserIds : users'[u] = "gone" => users[u] = "gone",
           \A g \in GroupIds : groups'[g] = "gone" => groups[g] = "gone",
           \A u \in UserIds : users[u] = "gone" => ip'[u] \in {ip[u], None},
           \A u \in UserIds : users[u] = "gone" => member'[u] = member[u],
           \A u \in UserIds, g \in GroupIds : groups[g] = "gone" => member'[u][g] = member[u][g]
    PROVE  DeletedStaysDeleted'
BY DEF DeletedStaysDeleted

\* The deletion of a user's row, by either process, takes address and rows along.
LEMMA UserRowGoes ==
    ASSUME TypeOK, DeletedStaysDeleted, NEW u \in UserIds,
           users' = [users EXCEPT ![u] = "gone"], ip' = [ip EXCEPT ![u] = None],
           member' = [member EXCEPT ![u] = NoRows], UNCHANGED groups
    PROVE  DeletedStaysDeleted'
<1>1. \A w \in UserIds : IF w = u THEN ip'[w] = None /\ member'[w] = NoRows
                         ELSE ip'[w] = ip[w] /\ member'[w] = member[w] /\ users'[w] = users[w]
  BY DEF TypeOK
<1>2. \A g \in GroupIds : NoRows[g] = "none"
  BY DEF NoRows
<1>. QED BY <1>1, <1>2 DEF DeletedStaysDeleted

\* The deletion of a group's row, by either process, takes its memberships along.
LEMMA GroupRowGoes ==
    ASSUME TypeOK, DeletedStaysDeleted, NEW g \in GroupIds, UNCHANGED <<users, ip>>,
           groups' = [groups EXCEPT ![g] = "gone"],
           member' = [u \in UserIds |-> [member[u] EXCEPT ![g] = "none"]]
    PROVE  DeletedStaysDeleted'
<1>1. \A u \in UserIds, h \in GroupIds :
        member'[u][h] = IF h = g THEN "none" ELSE member[u][h]
  BY DEF TypeOK
<1>2. \A u \in UserIds : member[u] = NoRows => member'[u] = NoRows
  BY DEF NoRows, TypeOK
<1>3. \A h \in GroupIds : h # g => groups'[h] = groups[h]
  BY DEF TypeOK
<1>. QED BY <1>1, <1>2, <1>3 DEF DeletedStaysDeleted

\* Every step of the server keeps deleted users and groups deleted.
LEMMA ServerKeepsDeleted ==
    ASSUME TypeOK, TypeOK', DeletedStaysDeleted, Next
    PROVE  DeletedStaysDeleted'
<1> USE DEF db
<1>0. ASSUME UNCHANGED <<users, groups, member>>,
             \A u \in UserIds : users[u] = "gone" => ip'[u] \in {ip[u], None}
      PROVE  DeletedStaysDeleted'
  BY <1>0, NothingReturns
<1>1. ASSUME KnockRecord PROVE DeletedStaysDeleted'
  <2>1. /\ op.user \in UserIds /\ users[op.user] = "live" /\ ip' = [ip EXCEPT ![op.user] = op.ip]
        /\ UNCHANGED <<users, groups, member>>
    BY <1>1 DEF KnockRecord, TypeOK, UserOps
  <2>2. \A u \in UserIds : users[u] = "gone" => ip'[u] = ip[u]
    BY <2>1 DEF TypeOK
  <2>. QED BY <1>0, <2>1, <2>2
<1>2. ASSUME NEW t \in toggles, SetMembership(t) PROVE DeletedStaysDeleted'
  <2> DEFINE u == t.user
             g == t.group
  <2>1. u \in UserIds /\ g \in GroupIds /\ UNCHANGED <<users, ip, groups>>
    BY <1>2 DEF SetMembership, TypeOK
  <2>2. member' = IF member[u][g] = "none" THEN member
                  ELSE [member EXCEPT ![u][g] = IF t.enabled THEN "on" ELSE "off"]
    BY <1>2 DEF SetMembership, SetMembershipEnabled
  <2>3. CASE member[u][g] = "none"
    BY <1>0, <2>1, <2>2, <2>3
  <2>4. CASE member[u][g] # "none"
    <3>1. users[u] # "gone" /\ groups[g] # "gone"
      BY <2>1, <2>4 DEF DeletedStaysDeleted, NoRows
    <3>2. /\ \A w \in UserIds : w # u => member'[w] = member[w]
          /\ \A w \in UserIds, h \in GroupIds : h # g => member'[w][h] = member[w][h]
      BY <2>1, <2>2, <2>4 DEF TypeOK
    <3>. QED BY <2>1, <3>1, <3>2, NothingReturns
  <2>. QED BY <2>3, <2>4
<1>3. ASSUME NEW u \in UserIds, NEW g \in GroupIds,
             \/ \E en \in BOOLEAN : AddMembership(u, g, en)
             \/ RemoveMembership(u, g)
      PROVE  DeletedStaysDeleted'
  <2>1. /\ users[u] = "live" /\ groups[g] = "live" /\ UNCHANGED <<users, ip, groups>>
        /\ \E new \in {"none", "on", "off"} : member' = [member EXCEPT ![u][g] = new]
    BY <1>3 DEF AddMembership, RemoveMembership
  <2>2. /\ \A w \in UserIds : w # u => member'[w] = member[w]
        /\ \A w \in UserIds, h \in GroupIds : h # g => member'[w][h] = member[w][h]
    BY <2>1 DEF TypeOK
  <2>. QED BY <2>1, <2>2, NothingReturns
<1>4. ASSUME RevokeClear PROVE DeletedStaysDeleted'
  <2>1. ip' = [ip EXCEPT ![op.user] = None] /\ UNCHANGED <<users, groups, member>>
    BY <1>4 DEF RevokeClear, ClearUserState
  <2>. QED BY <1>0, <2>1 DEF TypeOK
<1>5. ASSUME NEW u \in UserIds, CleanupStale(u) PROVE DeletedStaysDeleted'
  <2>1. ip' \in {ip, [ip EXCEPT ![u] = None]} /\ UNCHANGED <<users, groups, member>>
    BY <1>5 DEF CleanupStale, ClearUserState
  <2>. QED BY <1>0, <2>1 DEF TypeOK
<1>6. ASSUME DeleteUserRow PROVE DeletedStaysDeleted'
  <2>1. /\ op.user \in UserIds /\ users' = [users EXCEPT ![op.user] = "gone"]
        /\ ip' = [ip EXCEPT ![op.user] = None]
        /\ member' = [member EXCEPT ![op.user] = NoRows] /\ UNCHANGED groups
    BY <1>6 DEF DeleteUserRow, ClearUserState, TypeOK, UserOps
  <2>. QED BY <2>1, UserRowGoes
<1>7. ASSUME DeleteGroupRow PROVE DeletedStaysDeleted'
  <2>1. /\ op.group \in GroupIds /\ groups' = [groups EXCEPT ![op.group] = "gone"]
        /\ member' = [u \in UserIds |-> [member[u] EXCEPT ![op.group] = "none"]]
        /\ UNCHANGED <<users, ip>>
    BY <1>7 DEF DeleteGroupRow, TypeOK, GroupOps
  <2>. QED BY <2>1, GroupRowGoes
<1>8. ASSUME \/ \E u \in UserIds : CreateUser(u)
             \/ \E g \in GroupIds : CreateGroup(g)
      PROVE  DeletedStaysDeleted'
  <2>1. /\ UNCHANGED <<ip, member>>
        /\ \A u \in UserIds : users'[u] = "gone" => users[u] = "gone"
        /\ \A g \in GroupIds : groups'[g] = "gone" => groups[g] = "gone"
    BY <1>8 DEF CreateUser, CreateGroup, TypeOK
  <2>. QED BY <2>1, NothingReturns
<1>9. ASSUME \/ \E u \in UserIds, i \in IPs, v \in 0..MaxRotations : Knock(u, i, v)
             \/ \E u \in UserIds, rotate \in BOOLEAN : Revoke(u, rotate)
             \/ \E u \in UserIds : DeleteUser(u)
             \/ \E g \in GroupIds : DeleteGroup(g)
             \/ \E g \in GroupIds : SyncGuardNow(g)
             \/ Tick \/ SetMembershipSync \/ AddMembershipRule \/ RemoveMembershipRule
             \/ RevokeRotate \/ DeleteGroupSync
             \/ CleanupDone \/ MaintainRead \/ ReconcileAll \/ MaintainGuard
             \/ \E u \in UserIds, g \in GroupIds, en \in BOOLEAN, by \in {"self", "admin"} :
                  BeginToggle(u, g, en, by)
             \/ Environment
      PROVE  UNCHANGED <<users, ip, groups, member>>
  BY <1>9 DEF Knock, Revoke, DeleteUser, DeleteGroup, SyncGuardNow, Tick, MaintainBegin,
     SetMembershipSync, AddMembershipRule, RemoveMembershipRule, RevokeRotate,
     DeleteGroupSync, CleanupDone, MaintainRead, ReconcileAll, MaintainGuard, BeginToggle,
     Environment, Abort, Crash, Flush, GrowIdle
<1>. QED
  BY <1>0, <1>1, <1>2, <1>3, <1>4, <1>5, <1>6, <1>7, <1>8, <1>9
     DEF Next, Start, Continue, Unlocked

\* Every step of a command keeps deleted users and groups deleted: what it read
\* before the deletion does not bring them back.
LEMMA CommandKeepsDeleted ==
    ASSUME TypeOK, CliType, DeletedStaysDeleted, KnockGone \/ CmdStart \/ CmdContinue \/ CmdDies
    PROVE  DeletedStaysDeleted'
<1> USE DEF db
<1>0. ASSUME UNCHANGED <<users, groups, member>>,
             \A u \in UserIds : users[u] = "gone" => ip'[u] \in {ip[u], None}
      PROVE  DeletedStaysDeleted'
  BY <1>0, NothingReturns
<1>1. ASSUME CmdUserJoinRow PROVE DeletedStaysDeleted'
  <2>1. UNCHANGED <<users, ip, groups>>
    BY <1>1 DEF CmdUserJoinRow
  <2>2. CASE UNCHANGED member
    BY <1>0, <2>1, <2>2
  <2>3. CASE /\ users[cli.user] = "live" /\ groups[cli.group] = "live"
             /\ member' = [member EXCEPT ![cli.user][cli.group] = "on"]
    <3>1. /\ \A w \in UserIds : w # cli.user => member'[w] = member[w]
          /\ \A w \in UserIds, h \in GroupIds : h # cli.group => member'[w][h] = member[w][h]
      BY <2>3 DEF TypeOK
    <3>. QED BY <2>1, <2>3, <3>1, NothingReturns
  <2>. QED BY <1>1, <2>2, <2>3 DEF CmdUserJoinRow
<1>2. ASSUME CmdUserLeaveRow PROVE DeletedStaysDeleted'
  <2>1. /\ cli.user \in UserIds /\ cli.group \in GroupIds /\ UNCHANGED <<users, ip, groups>>
        /\ member' = [member EXCEPT ![cli.user][cli.group] = "none"]
    BY <1>2 DEF CmdUserLeaveRow, CliType, UserSteps, GroupSteps
  <2>2. \A u \in UserIds, g \in GroupIds :
          member'[u][g] = IF u = cli.user /\ g = cli.group THEN "none" ELSE member[u][g]
    BY <2>1 DEF TypeOK
  <2>3. \A u \in UserIds : member[u] = NoRows => member'[u] = NoRows
    BY <2>1 DEF NoRows, TypeOK
  <2>. QED BY <2>1, <2>2, <2>3 DEF DeletedStaysDeleted
<1>3. ASSUME CmdRevokeClear PROVE DeletedStaysDeleted'
  <2>1. ip' = [ip EXCEPT ![cli.user] = None] /\ UNCHANGED <<users, groups, member>>
    BY <1>3 DEF CmdRevokeClear, ClearUserState
  <2>. QED BY <1>0, <2>1 DEF TypeOK
<1>4. ASSUME NEW u \in UserIds, CmdCleanupUser(u) PROVE DeletedStaysDeleted'
  <2>1. ip' = [ip EXCEPT ![u] = None] /\ UNCHANGED <<users, groups, member>>
    BY <1>4 DEF CmdCleanupUser, ClearUserState
  <2>. QED BY <1>0, <2>1 DEF TypeOK
<1>5. ASSUME CmdUserDelRow PROVE DeletedStaysDeleted'
  <2>1. /\ cli.user \in UserIds /\ users' = [users EXCEPT ![cli.user] = "gone"]
        /\ ip' = [ip EXCEPT ![cli.user] = None]
        /\ member' = [member EXCEPT ![cli.user] = NoRows] /\ UNCHANGED groups
    BY <1>5 DEF CmdUserDelRow, ClearUserState, CliType, UserSteps
  <2>. QED BY <2>1, UserRowGoes
<1>6. ASSUME CmdGroupDelRow PROVE DeletedStaysDeleted'
  <2>1. /\ cli.group \in GroupIds /\ groups' = [groups EXCEPT ![cli.group] = "gone"]
        /\ member' = [u \in UserIds |-> [member[u] EXCEPT ![cli.group] = "none"]]
        /\ UNCHANGED <<users, ip>>
    BY <1>6 DEF CmdGroupDelRow, CliType, GroupSteps
  <2>. QED BY <2>1, GroupRowGoes
<1>7. ASSUME NEW g \in GroupIds, CmdGroupAdd(g) PROVE DeletedStaysDeleted'
  <2>1. /\ UNCHANGED <<users, ip, member>>
        /\ \A h \in GroupIds : groups'[h] = "gone" => groups[h] = "gone"
    BY <1>7 DEF CmdGroupAdd, TypeOK
  <2>. QED BY <2>1, NothingReturns
<1>8. ASSUME \/ \E u \in UserIds, rotate \in BOOLEAN : CmdRevoke(u, rotate)
             \/ \E u \in UserIds : CmdUserDel(u)
             \/ \E u \in UserIds, g \in GroupIds : CmdUserJoin(u, g) \/ CmdUserLeave(u, g)
             \/ \E g \in GroupIds : CmdGroupDel(g)
             \/ CmdCleanup \/ CmdRevokeRotate \/ CmdUserJoinRule \/ CmdRemoveRules
             \/ CmdDies \/ KnockGone
      PROVE  UNCHANGED <<users, ip, groups, member>>
  BY <1>8 DEF CmdRevoke, CmdUserDel, CmdUserJoin, CmdUserLeave, CmdGroupDel, CmdCleanup,
     CmdRevokeRotate, CmdUserJoinRule, CmdRemoveRules, CmdDies, KnockGone
<1>. QED
  BY <1>0, <1>1, <1>2, <1>3, <1>4, <1>5, <1>6, <1>7, <1>8 DEF CmdStart, CmdContinue

\* For any number of users and groups, whatever a command and the handlers of the
\* server have in flight when a user or a group is deleted, by either of them: no
\* address and no membership of it is on record afterwards.
THEOREM DeletionIsFinal == CliSpec => []DeletedStaysDeleted
<1>1. CliInit => CliInv
  <2>1. CliInit => TypeOK
    BY UsersInit DEF CliInit, UsersInv
  <2>2. CliInit => CliType
    BY DEF CliInit, CliType, CliSteps, UserSteps, GroupSteps, NoCommand, Command
  <2>3. CliInit => DeletedStaysDeleted
    BY DEF CliInit, Init, DeletedStaysDeleted
  <2>. QED BY <2>1, <2>2, <2>3 DEF CliInv
<1>2. CliInv /\ [CliNext]_cliVars => CliInv'
  <2> SUFFICES ASSUME CliInv, [CliNext]_cliVars PROVE CliInv'
    OBVIOUS
  <2>1. TypeOK /\ CliType /\ DeletedStaysDeleted /\ TypeOK' /\ CliType'
    BY CliTypeStep DEF CliInv
  <2>2. CASE Next
    BY <2>1, <2>2, ServerKeepsDeleted DEF CliInv
  <2>3. CASE KnockGone \/ CmdStart \/ CmdContinue \/ CmdDies
    BY <2>1, <2>3, CommandKeepsDeleted DEF CliInv
  <2>4. CASE UNCHANGED cliVars
    BY <2>1, <2>4 DEF CliInv, cliVars, DeletedStaysDeleted
  <2>. QED BY <2>2, <2>3, <2>4 DEF CliNext
<1>3. CliInv => DeletedStaysDeleted
  BY DEF CliInv
<1>. QED BY <1>1, <1>2, <1>3, PTL DEF CliSpec
=============================================================================
