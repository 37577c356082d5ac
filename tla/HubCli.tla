------------------------------- MODULE HubCli -------------------------------
(***************************************************************************)
(* The management commands next to a running server.  A command is another *)
(* process: it opens the same database and drives the same chain, but does *)
(* not know fwMu, so its steps fall between the steps of any handler, and  *)
(* what it read at its start may be stale when it acts.                    *)
(***************************************************************************)
EXTENDS Hub

VARIABLE cli  \* the command in progress (at most one)

cliVars == <<users, ip, idle, secret, proof, groups, member, rules, guard, base,
             op, seen, toggles, unsynced, drift, cli>>
server == <<op, seen, toggles, unsynced>>

\* step: what the command does next; stale: users it found idle; keys: the rules
\* it computed from the rows it read; flag: whether revoke rotates the secret.
Command(step, u, g, stale, keys, flag) ==
    [step |-> step, user |-> u, group |-> g, stale |-> stale, keys |-> keys, flag |-> flag]
NoCommand == Command("none", None, None, {}, {}, FALSE)

Ready == cli = NoCommand
Then(step) == cli' = Command(step, cli.user, cli.group, cli.stale, cli.keys, cli.flag)
Exit == cli' = NoCommand

\* The rule of user u in group g at the address the command has read, if any.
RuleOnRecord(u, g) == IF u \in Online THEN {RuleKey(u, ip[u], g)} ELSE {}

-----------------------------------------------------------------------------
(* revoke <user>: rules, runtime state, secret *)

CmdRevoke(u, rotate) ==
    /\ Ready
    /\ users[u] = "live"
    /\ rotate => secret[u] < MaxRotations
    /\ FwPass({}, {}, UserCopies(u))
    /\ cli' = Command("clear", u, None, {}, {}, rotate)
    /\ UNCHANGED <<db, guard, base, server>>

CmdRevokeClear ==
    /\ cli.step = "clear"
    /\ ClearUserState(cli.user)
    /\ IF cli.flag THEN Then("rotate") ELSE Exit
    /\ UNCHANGED <<users, secret, groups, member, fw, server, drift>>

CmdRevokeRotate ==
    /\ cli.step = "rotate"
    /\ secret' = [secret EXCEPT ![cli.user] = @ + 1]
    /\ Exit
    /\ UNCHANGED <<users, ip, idle, proof, groups, member, fw, server, drift>>

-----------------------------------------------------------------------------
(* user-del *)

CmdUserDel(u) ==
    /\ Ready
    /\ users[u] = "live"
    /\ FwPass({}, {}, UserCopies(u))
    /\ cli' = Command("userdel", u, None, {}, {}, FALSE)
    /\ UNCHANGED <<db, guard, base, server>>

CmdUserDelRow ==
    /\ cli.step = "userdel"
    /\ users' = [users EXCEPT ![cli.user] = "gone"]
    /\ ClearUserState(cli.user)
    /\ member' = [member EXCEPT ![cli.user] = NoRows]
    /\ Exit
    /\ UNCHANGED <<secret, groups, fw, server, drift>>

-----------------------------------------------------------------------------
(* user-join: the user's row is read, the membership written, the rule added *)

CmdUserJoin(u, g) ==
    /\ Ready
    /\ users[u] = "live" /\ groups[g] = "live"
    /\ \A k \in RuleOnRecord(u, g) : rules[k] < MaxCopies
    /\ cli' = Command("join", u, g, {}, RuleOnRecord(u, g), FALSE)
    /\ UNCHANGED <<db, fw, server, drift>>

\* Variant: foreign keys are not enforced.
CmdUserJoinRowUnchecked ==
    /\ cli.step = "join"
    /\ member' = [member EXCEPT ![cli.user][cli.group] = "on"]
    /\ Then("joinrule")
    /\ UNCHANGED <<users, ip, idle, secret, proof, groups, fw, server, drift>>

\* Foreign keys: the insert fails when user or group is gone, the command ends.
CmdUserJoinRow ==
    /\ cli.step = "join"
    /\ \/ /\ users[cli.user] = "live" /\ groups[cli.group] = "live"
          /\ member' = [member EXCEPT ![cli.user][cli.group] = "on"]
          /\ Then("joinrule")
       \/ /\ users[cli.user] # "live" \/ groups[cli.group] # "live"
          /\ UNCHANGED member
          /\ Exit
    /\ UNCHANGED <<users, ip, idle, secret, proof, groups, fw, server, drift>>

CmdUserJoinRule ==
    /\ cli.step = "joinrule"
    /\ \E failed \in AddFailures(cli.keys) : FwPass(cli.keys, failed, NoCopies)
    /\ Exit
    /\ UNCHANGED <<db, guard, base, server>>

-----------------------------------------------------------------------------
(* user-leave and group-del: rules read from the rows first, the row last *)

CmdUserLeave(u, g) ==
    /\ Ready
    /\ users[u] = "live" /\ groups[g] = "live"
    /\ cli' = Command("leaverule", u, g, {}, RuleOnRecord(u, g), FALSE)
    /\ UNCHANGED <<db, fw, server, drift>>

\* groupMembersWithIP: the members with an address, enabled or not.
CmdGroupDel(g) ==
    /\ Ready
    /\ groups[g] = "live"
    /\ cli' = Command("groupdelrules", None, g, {},
                      UNION {RuleOnRecord(u, g) : u \in {w \in UserIds : member[w][g] # "none"}},
                      FALSE)
    /\ UNCHANGED <<db, fw, server, drift>>

CmdRemoveRules ==
    /\ cli.step \in {"leaverule", "groupdelrules"}
    /\ FwPass({}, {}, OneCopy(cli.keys))
    /\ Then(IF cli.step = "leaverule" THEN "leave" ELSE "groupdel")
    /\ UNCHANGED <<db, guard, base, server>>

CmdUserLeaveRow ==
    /\ cli.step = "leave"
    /\ member' = [member EXCEPT ![cli.user][cli.group] = "none"]
    /\ Exit
    /\ UNCHANGED <<users, ip, idle, secret, proof, groups, fw, server, drift>>

CmdGroupDelRow ==
    /\ cli.step = "groupdel"
    /\ groups' = [groups EXCEPT ![cli.group] = "gone"]
    /\ member' = [u \in UserIds |-> [member[u] EXCEPT ![cli.group] = "none"]]
    /\ Exit
    /\ UNCHANGED <<users, ip, idle, secret, proof, fw, server, drift>>

\* group-add inserts the row; the guard is left to the server's next Maintain.
CmdGroupAdd(g) ==
    /\ Ready
    /\ groups[g] = "new"
    /\ \A h \in LiveGroups : GroupName[h] # GroupName[g] /\ PortOf[h] # PortOf[g]
    /\ groups' = [groups EXCEPT ![g] = "live"]
    /\ UNCHANGED <<users, ip, idle, secret, proof, member, fw, server, drift, cli>>

-----------------------------------------------------------------------------
(* cleanup: the users and their ports are listed once, then expired in turn *)

CmdCleanup ==
    /\ Ready
    /\ Expired # {}
    /\ cli' = Command("cleanup", None, None, Expired,
                      UNION {KeysAt(u, ip[u], Enabled(u)) : u \in Expired}, FALSE)
    /\ UNCHANGED <<db, fw, server, drift>>

CmdCleanupUser(u) ==
    /\ cli.step = "cleanup"
    /\ u \in cli.stale
    /\ FwPass({}, {}, OneCopy({k \in cli.keys : k.user = NameOf[u]}))
    /\ ClearUserState(u)
    /\ cli' = IF cli.stale = {u} THEN NoCommand
              ELSE Command("cleanup", None, None, cli.stale \ {u}, cli.keys, FALSE)
    /\ UNCHANGED <<users, secret, groups, member, guard, base, server>>

-----------------------------------------------------------------------------
\* A command that stops half-way: killed, or on a database error.
CmdDies ==
    /\ "db" \in Faults
    /\ ~Ready
    /\ Exit
    /\ drift' = "new"
    /\ UNCHANGED <<db, fw, server>>

\* RecordIPChange finds no row when user-del ran since the knock began: a 500.
KnockGone ==
    /\ op.kind = "knock"
    /\ users[op.user] # "live"
    /\ Release
    /\ drift' = "new"
    /\ UNCHANGED <<db, fw, toggles, unsynced, cli>>

CmdStart ==
    \/ \E u \in UserIds, rotate \in BOOLEAN : CmdRevoke(u, rotate)
    \/ \E u \in UserIds : CmdUserDel(u)
    \/ \E u \in UserIds, g \in GroupIds : CmdUserJoin(u, g) \/ CmdUserLeave(u, g)
    \/ \E g \in GroupIds : CmdGroupDel(g) \/ CmdGroupAdd(g)
    \/ CmdCleanup

CmdContinue ==
    \/ CmdRevokeClear \/ CmdRevokeRotate \/ CmdUserDelRow
    \/ CmdUserJoinRow \/ CmdUserJoinRule
    \/ CmdRemoveRules \/ CmdUserLeaveRow \/ CmdGroupDelRow
    \/ \E u \in UserIds : CmdCleanupUser(u)

CliInit == Init /\ cli = NoCommand

CliNext ==
    \/ Next /\ UNCHANGED cli
    \/ KnockGone
    \/ CmdStart \/ CmdContinue \/ CmdDies

CliSpec == CliInit /\ [][CliNext]_cliVars

\* As FairSpec; a command that was started runs to its end.
CliFairSpec ==
    /\ CliSpec
    /\ SF_cliVars(Tick /\ UNCHANGED cli)
    /\ WF_cliVars((Continue /\ UNCHANGED cli) \/ KnockGone)
    /\ WF_cliVars(CmdContinue)

-----------------------------------------------------------------------------
(* Properties *)

\* fwMu's comment on knock, for the revoke command: the address a superseded
\* secret registered does not outlive the rotation.
RevokeCutsOff == AddressBoundToSecret

\* A deleted user does not come back, whatever was in flight when it went: no
\* address and no membership is on record for it, nor a membership of a deleted
\* group, so that no desired state ever names them.
DeletedStaysDeleted ==
    /\ \A u \in UserIds : users[u] = "gone" => ip[u] = None /\ member[u] = NoRows
    /\ \A u \in UserIds, g \in GroupIds : groups[g] = "gone" => member[u][g] = "none"

\* fwFailed: "a running `serve` applies the database to the firewall every 30
\* seconds".  Whatever commands and handlers did to each other, once commands and
\* failures stop the chain and the guard return to the database.
ServeRepairsCommands ==
    <>[](drift # "new" /\ Ready) => []<>InSync
=============================================================================
