# nft-okboy: TLA+ models and proofs

nft-okboy is a port knocker. A user proves possession of a secret over HTTPS, and
the server allows that user's address through the host firewall to the ports of
the groups the user belongs to. One server (the hub) can also decide for a fleet:
agents on other hosts pull their allow rules from it. This directory holds TLA+
models of the parts that decide who gets in, TLC configurations that check them on
small instances, and TLAPS proofs of the central invariants for instances of any
size.

## 1. Inventory

| Component | State it keeps | Operations | What makes it correct |
|---|---|---|---|
| HTTP handlers (`internal/server/knock.go`, `admin.go`) | none of their own; a mutex `fwMu` | knock, toggle a membership, create/delete/revoke a user, add/remove a membership, create/delete a group | database and chain change together; an address outlives neither its secret nor its user |
| Maintenance (`server/maintain.go`, the ticker in `cli/cli.go`) | time of the last clean-up | every 30 s: recreate the table, expire idle users, reconcile, rebuild the guard | whatever went wrong before is repaired |
| Firewall manager (`internal/firewall/manager.go`, `reconcile.go`) | none | `Reconcile` (one user), `ReconcileAll` (host), `RemoveUserRules`, `CleanupStale` | removes exactly what is stale, goes on after a failed call |
| nftables backend (`nft.go`) | the chain: allow rules, then the guard, rules of the host anywhere | add, remove, list, delete by handle, `SyncGuard`, `EnsureBase` | the first matching rule is the intended one; the guard is replaced without a gap |
| ufw backend (`ufw.go`, `lock_unix.go`) | the numbered rule list | the same, by rule number under a lock file | deletes only its own rules; an access that is replaced is never closed |
| Database (`internal/db`) | users, groups, memberships, nodes, targets, failures, logs | single statements and small transactions, with cascades | ids are never reused; a deleted user or group leaves no rows |
| Commands (`internal/cli`) | none; a process of their own | revoke, user-del, user-join, user-leave, group-add, group-del, cleanup, node and target commands, backup, upgrade | may run next to a server without breaking it for longer than one maintenance period |
| Node API (`server/node.go`) | none | token check, desired state of a node | a node learns its own rules and ports |
| Agent (`internal/agent`) | last guard (memory and state file), the node's chain | pull, reconcile, guard, save; every 15 s | converges to the hub; fails closed; touches only listed ports |
| TOTP (`server/totp.go`, `auth/totp.go`) | columns of `users`, a mutex `totpMu` | step-up, enrol, activate, disable | a code works once, guesses are capped, an enabled secret is a confirmed one |
| Request authentication, throttle (`auth/auth.go`, `server/middleware.go`) | rows of failed attempts | find the client's address, count failures, verify a signature, require an admin | only the holder of the present secret acts; a lockout hits who earned it, and ends |
| Self-upgrade and backup (`cli/upgrade.go`, `CmdBackup`, `db.Backup`) | the binary, `<exe>.bak`, a staged file; snapshot files | snapshot, download, check, stage, swap, probe, restart, health check, roll back; retention | an interrupted or bad upgrade leaves a working binary, retention a good snapshot |
| Configuration, web client, installer | files | parsing; user interface | – |

How they interact: handlers and Maintain share the database and the chain and take
turns through `fwMu`. A command shares both and does not take `fwMu`, which belongs
to the server's process. An agent shares nothing with the hub but the answer to its
pull, which the hub assembles from three queries. TOTP checks share the admin's row
and `totpMu`, but read the row before the mutex and write after it. The server, the
commands and the operator's own tools work on one chain (or one ufw list): a backend call
lists it, computes, and changes it in later calls. An upgrade shares its files with any other
upgrade of the host, and the service with systemd.

What is hard here: commands interleaving with handlers; requests that decide on rows
read before a lock; the firewall failing for some calls of a pass and not for others;
`systemctl restart nftables` flushing everything at any moment; crashes between a
rule and its row, between a guard and its state file, or in the middle of an upgrade; lost
pulls; names, ports, addresses, rule numbers and handles that are reused. `PROJECT.json` lists these hazards at their source lines,
with the properties that watch each of them.

## 2. Modules

| Module | Models | Extended by |
|---|---|---|
| `Hub` | database, chain, handlers, maintenance of one server | `HubCli`, `HubProofs`, `MCHub` |
| `HubCli` | the commands next to the server of `Hub` (composition: `Hub`'s `Next` interleaved with the steps of one command) | `HubCliProofs`, `MCHubCli` |
| `Agent` | one fleet node: agent process, host, the hub's node handler and the rows it reads | `AgentProofs`, `MCAgent` |
| `Firewall` | the abstract firewall: a bag of allow rules and a set of closed ports | instantiated by `NftChain` |
| `NftChain` | the nftables backend over an ordered chain; implements `Firewall` | `NftChainProofs`, `MCNftChain` |
| `Ufw` | the ufw backend over ufw's numbered list | `UfwProofs`, `MCUfw` |
| `Gate` | what a request passes: throttle, signature, `RequireAdmin` | `GateProofs`, `MCGate` |
| `Totp` | the TOTP endpoints of one admin account, as concurrent requests | `TotpProofs`, `MCTotp` |
| `Upgrade` | `upgrade` and `backup`: files, service, processes | `UpgradeProofs`, `MCUpgrade` |
| `HubProofs`, `HubCliProofs`, `AgentProofs`, `NftChainProofs`, `UfwProofs`, `GateProofs`, `TotpProofs`, `UpgradeProofs` | theorems and proofs (`HubCliProofs` uses the lemmas of `HubProofs`) | – |
| `MCHub`, `MCHubCli`, `MCAgent`, `MCNftChain`, `MCUfw`, `MCGate`, `MCTotp`, `MCUpgrade` | constants of the small instances | – |

`Hub` and `Agent` treat the firewall as `Firewall` does: copies of rules that come and go one
at a time, and a guard replaced as a whole. That the nftables backend gives them this, with its
ordered chain, its handles and other processes at work on it, is what `NftChain` shows.

Definitions under a comment `Variant:` are deliberately wrong versions of
the definition that follows them. No specification uses them; `PROJECT.json` pairs each
with the property that notices the mistake.

### Hub

Rows are functions over ids (`users`, `ip`, `secret`, `groups`, `member`). Ids are never
reused (`AUTOINCREMENT`) but `NameOf`, `GroupName` and `PortOf` may give two ids one
name, which is a user or group deleted and created again. `rules` counts the copies of
each rule, because nftables keeps duplicates, `AddRule` inserts without looking, and
`RemoveRule` deletes the first match only. `guard` is the set of ports the guard closes.
`op` is the handler that holds `fwMu`; a handler is cut where its steps can be separated
by a database error, a crash, or by work that takes no `fwMu` (creating a group or user,
the checks of a toggle, a flush). `toggles` are requests that passed their checks and wait
for the mutex: they act on the rows they saw then.

`FwPass(adds, failed, extra)` is one pass over the firewall: any subset of the adds and of
the deletions may fail, the rest takes place. `drift` is a history variable: `"new"` after
a failure, `"old"` once a Maintain that began afterwards is under way, `"none"` after it
ended cleanly. Safety properties about the chain are stated for `Settled` states: nobody
holds `fwMu` and each failure has been followed by a clean Maintain. `proof[u]` remembers
which version of the secret authenticated the address on record.

### HubCli

One command at a time, `cli`, as `(step, what it read)`. Each command reads its rows in
its first step, and every database statement and firewall pass after that is a step of its
own, so that any step of a handler or of Maintain can fall in between. `KnockGone` is a
knock whose user a command deleted while the handler held `fwMu`.

### Agent

The cycle is `Run` (load the state file), then `ReapplyGuard`, `AuthNode`, `ReadRules`,
`ReadPorts`, `ApplyRules`, `ApplyGuard`, `SaveGuard`, `Sleep`; `Rejected` on a 401,
`PullFails` on any other error. `AuthNode`, `ReadRules` and `ReadPorts` are the three
queries of the hub's handler: rows may change between them. `Crash` loses the memory,
`Flush` the chain; both together are a reboot. The configuration is chosen anew at each
start. Hub rows change through the handlers' and commands' effect on this node
(`SetAddress`, `SetEnabled`, targets, `CreateNode`, `DeleteNode`), and `UpgradeHub` ends
the time when the hub does not report ports. History variables: `applied` is the guard of
the last answer, `lost` says it was not on disk when the process died, `broken` that it was
flushed or could not be set, `owed` the guarded ports a deleted node must keep closed.

### NftChain and Firewall

`chain` is the list of rules in the kernel's order: allow rules, guard rules, rules of the
host. `nft -f` is one transaction; everything else is a listing and transactions computed from
it, by the server and by commands that do not wait for each other. A process's `work` is what it
computed: the adds still to do, then the handles still to delete, or the ports of a `SyncGuard`.
Handles are unique within a table, so a handle is kept as a mark (`by`) on the rule it names and
disappears with it; after a flush the numbers start again and an old handle may name any rule.
A call may fail, or time out after it took effect; a process may die between calls; the operator
may add a rule at either end. History: `synced` (the last successful `SyncGuard`), `stray` (an old
handle hit a guard rule), `close` in `work` (what the caller asked to close).

`Firewall` is the abstract specification. The refinement mapping counts the copies of each key
in the chain, takes the ports of the guard rules as the closed ports, and the table's existence.

### Ufw

`list` is ufw's numbered list, the host's rules among ours, one rule per match. `work` is the
rest of a pass (`adds`, `dels`) and the call in progress. A call lists under the lock, decides
(leave the match to a host rule, find the present number), runs one ufw command and releases the
lock. The operator edits the list without the lock, switches ufw off and on; commands fail, and
processes die. `desired` is what the database asks for.

### Gate

A request is throttled under `requestIP` of its peer and headers, then `VerifyHMAC`, and on admin
endpoints `IsAdmin` and `GetUser`, each a read of its own: the account may be deleted, created
again, promoted or rotated in between (`moved`). `Addresses(h)` is every address the code can
derive for a request of host `h`, sent directly with any headers or through a trusted proxy
that sets `X-Real-IP`, appends to `X-Forwarded-For` (and drops `X-Real-IP`), or sends neither.
`signed` is the version of the secret the signature was made with. An admitted request may still
record one failure for its address: that of the TOTP code its handler asked for (`TotpFailed`).

### Totp

A request reads the row (`Begin`), has its code checked under `totpMu` (`TotpLockedOut`,
`ConsumeTOTP`, `ConfirmCode`, `TotpFailed`), and acts (`SetTOTPSecret`, `EnableTOTP`,
`DisableTOTP`). A code is the pair (secret, counter) it was computed from; replay
protection is on, as by default. Time and the ageing of failures are steps of their own.
`PastLock` lets a check go on when the account is under its cap, or when its failures cannot be
counted: `totpLocked` fails open (`totp.go:61`), as the per-IP throttle does. `errors` counts the
latter, and the cap is overrun by at most that many failures (`CapHolds`). A failure itself may
go unrecorded, because the error of `RecordFailedAttempt` is ignored.
`watched` is an arbitrary code whose successful consuming checks are counted in `uses`, and
`stale` says that some request acted although the row had changed since it read it: the
properties about secrets hold up to that point and not beyond (see the observations).

### Upgrade

`file` is what is behind the names `exe`, `bak` and `tmp`: a release, unfinished bytes, or
nothing. Writing is opening (which truncates) and filling, so a kill in between leaves junk;
renames have POSIX semantics, for writers too. A release is good, crashes on start (but answers
`--version`) or does not run at all. `svc` is the release the service runs. `CmdUpgrade` is cut
at every file operation, every call of systemctl and every step of its backup; each may fail and
the process may be killed at each. Snapshots are created empty, then filled; a failed one leaves
its file. The probe and the health check may fail for reasons other than the binary, and so may the
rename that takes the old one back (`TakenBack`), whose error the code ignores. Snapshots are named by
local wall-clock time (`cli.go:887`); their stamps only increase, that is, the clock is assumed not to
be set back between two backups. History: `saved` (a backup was reported written), `unchecked` (the
health check of the installed binary was skipped or cut short), `unrestored` (a rename back failed).
Both are cleared by the next successful health check.

## 3. Runs

| Run | Properties | Distinct states |
|---|---|---|
| `HubUsers` | `TypeOK`, `AddressBoundToSecret`, `RulesAtCurrentAddress`, `OnlyAdminGrants` | 580 000 |
| `HubGroups` | `GuardClosesGroupPorts`, `FirewallMatchesDatabase` | 260 000 |
| `HubSharing` | `DesiredIsOpen`, `MaintainRepairs` | 310 000 |
| `CliServe` | `DeletedStaysDeleted`, `ServeRepairsCommands` | 180 000 |
| `AgentNode` | `TypeOK`, `GuardSurvives`, `SavedIsOnDisk`, `OnlyListedPorts`, `NodeConverges`, `GuardReachesDisk` | 967 000 |
| `NftChain` | `FirstMatchIsIntent`, `GuardHolds`, `GuardSynced`, `ClosedOnlyOnRequest`, `ImplementsFirewall` | 516 000 |
| `Ufw` | `HostRulesUntouched`, `NoGap`, `Idempotent`, `Repairs` | 765 000 |
| `Gate` | `TypeOK`, `OverrunBounded`, `LockoutIsOwn`, `AdmittedIsAdmin`, `LockoutEnds` | 156 000 |
| `Totp` | `TypeOK`, `CapHolds`, `CodeConsumedOnce`, `EnabledIsConfirmed`, `ReplacingNeedsCode` | 2 395 000 |
| `Upgrade` | `ExeIsRelease`, `InstalledWorks`, `SnapshotKept`, `RollbackRestores`, `OutageEnds` | 892 000 |
| `CliRevoke` | `RevokeCutsOff` | violated |
| `AgentDeleted` | `RejectedNodeIsClosed` | violated |

- **HubUsers**: one username with two ids (deleted and created again), two addresses, one
  rotation, one waiting toggle, every kind of failure. No address outlives the secret that
  vouched for it; no rule outlives its address; no toggle brings a removed membership back.
- **HubGroups**: two groups on two ports. Between handlers, with failures repaired, the
  chain holds one rule per desired access and nothing else, and the guard closes the ports of
  the groups and no other. `FirewallMatchesDatabase` needs that no membership is added twice
  (`ReAdd = FALSE`): see the observations.
- **HubSharing**: two users and two addresses either of which both may use, memberships added
  twice, flushed rulesets. No handler removes a rule another user is entitled to, and under
  fairness Maintain returns chain and guard to the database again and again.
- **CliServe**: every command against every handler, with failing calls and restarts.
- **AgentNode**: two ports, four configurations (one without a list of ports), all failures, at
  most one enrolment token.
- **NftChain**: two users behind one address, one of them at a second address too, two ports, the
  server and a command. Whatever interleaves, an allowed source gets in, loopback is never shut
  out and everybody else is kept from the closed ports; no port opens while the guard is
  replaced; a `SyncGuard` that reports success left exactly its guard at the tail; a key loses
  its last rule only while somebody who asked for that (or holds handles from before a flush) is at
  work; and the backend implements `Firewall`.
- **Ufw**: two users behind one address share a match, one has a second; every initial list of at
  most two rules, any three events of the environment. A host rule changes by the operator's
  hand alone, a pass closes nothing it wants open, a second pass would change nothing, and once
  the environment is quiet and ufw enabled exactly the desired accesses are open.
- **Gate**: two requests in flight, direct or through a proxy, with claimed headers; one client
  sends, and another must not suffer.
- **Totp**: two concurrent requests of any kinds, two secrets, one count that fails. The cap is
  overrun by that one check at most; until a request acts on a row replaced under it, codes work
  once, and secrets are enabled and replaced with codes only.
- **Upgrade**: one process at a time, three releases of any quality, two snapshots, one kept. The
  installed file is always a whole release, and serves unless `unchecked` or `unrestored`; a roll-back
  installs what the run started from, or leaves it whole as `.bak`; retention keeps a good snapshot;
  under fairness a crashing release takes the service down for a while only, unless the run is
  killed in its last steps, its rename back fails, or its probe hangs.

### What the violated properties show

- **CliRevoke.** The `revoke` command is another process and does not take `fwMu`: a knock
  that authenticated just before it re-records the address just after it, and the rotated
  secret no longer vouches for that address. Nothing repairs this; the address stays
  until the next knock, revoke or clean-up. `AddressBoundToSecret`, which is proved of the
  server alone, is the same formula.
- **AgentDeleted.** A node deleted between the hub's token check and its queries is answered
  with empty rules and empty ports. The agent takes that for an instruction and removes its
  guard, so that the 401 of the next pull finds nothing to keep closed.

### Further observations

Where a property names an exception, or an instance is restricted, it is because TLC finds a
behaviour beyond it. Hub:
- `adminAddMembership` adds a rule that may exist already; disabling the membership then removes
  one of two copies, reports no warning, and the port stays open until the next Maintain
  (`admin.go:301`, `knock.go:44`);
- adding an existing, enabled membership again with `enabled=false` switches the row off and
  leaves the rule (`FirewallMatchesDatabase` with `ReAdd = TRUE`), until the next Maintain;
- a disable that waits for `fwMu` while its group is deleted and created again with the same
  name and port removes the rule of the new membership (`DesiredIsOpen` with two group ids of
  one name), until the next Maintain;
- the `cleanup` command lists idle users once, and expires one who has knocked since; the user's
  next knock undoes it.

TOTP and authentication:
- the account's cap fails open: a request over the cap whose count cannot be read has its code
  verified, and one more failure recorded (`totp.go:61`, on purpose); `CapHolds` allows one failure
  per counting error. A failure that cannot be recorded is not counted at all (`totp.go:79`);
- the code that activates TOTP is verified and not consumed; it authorises one more operation
  (`totp.go:228`; SECURITY.md:65 says "an admin's TOTP code works only once");
- a request acts on the row as it is when it writes, whatever it read: an activation enables a
  secret enrolled meanwhile and never confirmed, or none (`totp.go:237`); an enrolment that read
  the row before an activation replaces the enabled secret without a code; a re-enrolment
  between two requests resets the counter and one code is consumed twice. `stale` marks these;
- an account deleted between `RequireAdmin`'s second and third read yields `(nil, "")`, neither a
  user nor an error (`auth.go:142`, against the comment above the function).

Firewall:
- after a flush, a pass that still holds handles of the old table may delete rules of the new one,
  a guard rule included, until the next reconcile and `SyncGuard` (the exceptions `old`, `stray`);
- ufw: if the add of a replacing rule fails, the old rule is deleted all the same and the access is
  closed until the next pass; `Reconcile` and `RemoveUserRules` of one user delete a match that a
  second user behind the same address shares; both until the next Maintain;
- ufw: an operator's edit between a call's listing and its command makes the command hit another
  rule. The lock cannot prevent it.

Upgrade and backup:
- two upgrades at once share `tmp` and `.bak`: one may install the file the other is still writing,
  or roll back to what the other kept or has truncated (`Runs` with two members violates
  `ExeIsRelease`, `InstalledWorks` and `RollbackRestores`); nothing in the code keeps them apart;
- `_ = os.Rename(bak, exe)` (`upgrade.go:148` and `:162`) drops its error: when the rename fails the run
  says "rolled back" (`:149`, `:164`), the bad release is still installed, and the next start of the
  service takes it. The old release stays whole as `.bak` (`RollbackRestores`) until the next upgrade
  overwrites it;
- `exe --version` has no timeout (`upgrade.go:147`): a release that hangs on it keeps the run waiting
  with that release installed. The agents' upgrade unit is a one-shot, which systemd does not time
  out, so its timer starts no further run; and a service that restarts meanwhile starts the new,
  unchecked binary;
- if the clock is set back between two backups, the new snapshot sorts as older than those it follows,
  and with a full directory retention removes the snapshot just reported as written;
- killed between swap and health check, the next run says "Already up to date" and checks nothing;
  `--no-restart` has no check at all (`unchecked`);
- a release that does not run cannot run `upgrade` again; a pinned second run overwrites `.bak`;
- files of failed snapshots count towards `backup_keep`; retention still keeps a good one because
  it runs only after a success (`SnapshotKept`).

### Bounds

- Two ids per kind are enough for every interaction the code has between rows: the
  same name reused, the same address shared, one group's rule against another's. No
  statement involves three users or three groups at once.
- `MaxCopies = 2` distinguishes "a copy", "a duplicate" and "none"; a third copy is treated
  like the second by every operation. Where it is 1, memberships are not added twice.
- `MaxRotations = 1` separates the old from the new secret. `MaxToggles = 1` gives one request
  waiting for the mutex; waiting requests do not see each other.
- `MaxTokens = 1`: an agent whose token was deleted never gets in again.
- `Totp`: `MaxSecrets = 2`, `MaxTime = 2`, `MaxFailures = 1` allow a re-enrolment, a code of the
  previous and of the next time step, and reaching the cap. Two requests suffice for one to
  overtake the other. `MaxErrors = 1`: one count that fails shows a failure beyond the cap.
  `RequestSymmetry` is sound (requests differ in their name alone) and the
  run has no liveness property.
- `NftChain`: `MaxRules = 2` rules besides the guard and three keys allow a duplicate, two rules of
  one match and a host rule at either end of the guard; `MaxFlushes = 1` gives handles from
  before a flush.
- `Ufw`: `MaxRules = 2` bounds the lists at the start and the operator's additions, not ours, so that
  a rule of ours can stand on either side of a host rule; `MaxEvents = 3` allows two edits and a
  failure during one pass.
- `Gate`: `MaxFailures = 2` with two requests reaches the limit and overruns it by one;
  `MaxSecrets = 2` is a rotation or a second account of the name; `MaxErrors = 1` one failed count.
- `Upgrade`: `MaxRelease = 3` allows an upgrade after an upgrade, `MaxSnapshots = 2` with `Keep = 1` a
  failed snapshot before or after a good one; the theorem `BackupIsKept` has no such bound.
- `CHECK_DEADLOCK FALSE` in `NftChain` and `Ufw`: an idle system with nothing to change has no step.

### Fairness

- `Hub!FairSpec`: `SF(Tick)` because `serve`'s ticker calls Maintain every 30 s for ever and
  Go's `sync.Mutex` hands itself to a waiter that has waited for 1 ms; `WF(Continue)` because
  a handler that holds `fwMu` ends: each nft call has a 30 s timeout and SQLite a busy timeout.
  No handler is assumed to be called, and no failure to be absent: the properties say what
  happens once failures stop.
- `CliFairSpec` adds `WF(CmdContinue)`: a started command ends.
- `Agent!FairSpec`: `WF(AgentRun)`, systemd starts the agent and restarts it on failure;
  `WF(AgentStep)`, nft and the HTTP client have timeouts.
- `Ufw!FairSpec`: `WF(ReconcileAll)`, Maintain's ticker again; `WF(Step(p))`, each ufw command has a
  timeout and the flock is released with every call. The number of events is bounded: `Repairs`
  says what happens once they stop.
- `Gate!FairSpec`: `WF(FailureAges(ip))`, failures leave `throttle_window` as time passes. No client
  is assumed to stop sending.
- `Upgrade!FairSpec`: `WF(Step(u))` outside the probe, which has no timeout and may take for ever. The
  other waits end: downloads by the HTTP client's timeout, the database by its busy timeout, the
  health check after 10 seconds, `systemctl` by systemd's limit on start and stop jobs.
  `SF(Respawn)` while a good binary is installed, because the unit says `Restart=on-failure` and
  `RestartSec=5`.

## 4. Theorems

All hold for any sets of users, groups, addresses, ports, hosts and requests, any bounds and any
combination of failures, from the named assumptions of the modules (`NamesAssumption`,
`NoneAssumption`, `BoundsAssumption`; `ConfigsAssumption`, `NoneIsNothing`,
`AgentBoundsAssumption`; `ChainAssumption`; `UfwAssumption`; `TotpAssumption`; `GateAssumption`;
`UpgradeAssumption`). The inductive invariants were model-checked on the instances of the runs
before they were proved.

Server (`HubProofs`, `HubCliProofs`):

- `TypeCorrect`: `Spec => []TypeOK`. The content is that no deletion takes away more copies
  than there are (lemma `DeletionsExist`) and that handlers name existing rows.
- `AddressIsBoundToSecret`: from `UsersInv`, which adds to the property what a handler in
  progress relies on: a knock between its two steps carries the user's present secret and a
  live user, and a revoke about to rotate has no address left.
- `RulesFollowAddresses`: `RulesAtCurrentAddress` speaks of settled states only, so
  `AddressInv` says what holds in between: the rules a Maintain in progress has computed are
  still the desired ones (`fwMu` keeps everybody out), and whenever the chain is `Reliable`,
  that is before a failure or after the reconcile of a Maintain begun since the last one,
  every rule is `Placed`: it belongs to a live user and stands at the recorded address, or
  at the address of the handler that is about to move, clear or delete that user.
- `OnlyAdminsGrant`: an action property, from the type invariant. A waiting toggle writes only over a
  row that is still there; `RowsAreAdded` finds the one handler that creates one.
- `GuardFollowsGroups`: `GuardClosesGroupPorts` speaks of settled states. `GuardInv` holds whenever no
  failure is outstanding: the guard has every port of a group but those whose creation is not yet
  synced, and no other port except while the deletion of a group waits for its sync.
- `DesiredRulesAreOpen`, `FirewallIsDatabase`: from `RulesInv`, which says for each rule what is true
  *during* a handler: wanted by the database and not among the rules the handler has removed or
  will add (`Suspended`), or already put in for a knock (`Arriving`); and in the other direction a
  rule nobody wants belongs to a handler that is about to remove it (`Leaving`). `RowsInv` is what a
  handler relies on between its row and its rule. Both theorems assume `OneIdPerGroup`, the second
  also `~ReAdd`, because without them TLC has counterexamples (see the observations: a group created
  again under its old name and port; a membership added twice).
- `DeletionIsFinal`: `DeletedStaysDeleted` with the types of both processes (`CliInv`) is inductive: a
  row is written only for a user and a group that exist in that very statement, so neither a
  handler nor a command in progress brings one back.

Agent (`AgentProofs`):

- `TypeCorrect`: the type invariant, with what each step of a cycle carries.
- `GuardIsRestored`, `SavedGuardIsOnDisk`: from `GuardInv` = `SavedIsOnDisk` /\ `Remembered` /\
  `InForce`. `Remembered` says where the last answer's guard is (in memory while the agent runs,
  on disk while it does not, unless lost); `InForce` that the chain carries it while pulling.
- `OnlyListedPortsChange`: an action property, step by step; it needs no invariant.

nftables (`NftChainProofs`):

- `InvariantHolds`: `ChainInv` = types /\ `Ordered` (every allow rule stands before every guard rule) /\
  `Bypassed` (the loopback bypass before the drops, unless `stray`) /\ `Marks` (what the handles a process holds still
  name, however the chain changed since its listing). The properties of a run are not inductive
  without `Marks`: a transaction computed from an old listing deletes rules by handle. Every action is
  brought to one of two forms: the rules stay and handles change hands (`Relabelled`), or rules are
  carried over in their order and new ones come in at an end or before the guard (`Carried`); the
  lemmas are about these forms. That a finite set of positions can be listed in order (`InOrder`) is
  a fact by induction; it is proved from a least counterexample instead.
- `FirstMatchDecides`, `GuardNeverOpens`, `SyncedIsInPlace`, `OnlyRequestsClose`: the run's safety
  properties, from `ChainInv`.
- `BackendIsFirewall`: the refinement, `Spec => Fw!Spec`. The initial chain maps to the initial
  firewall, and each step adds one copy of a key, removes one, replaces the guard as a whole,
  creates or flushes the table, or changes nothing the abstract firewall shows. The counting
  lemmas rest on `FiniteSetTheorems`.

ufw (`UfwProofs`):

- `UfwInvariant`: `UfwInv` = types /\ one rule per match /\, for each process, `Held` (in a call it has the
  lock), `CallOk` (what the call listed still holds, its number included, until the operator edits
  the list) and `PlanOk` (of an undisturbed `ReconcileAll`: every managed rule is wanted or about to be
  deleted; every wanted match has a wanted rule, a rule of the host, or is still to be added).
- `HostRulesStay`: with `Held`, nobody but the operator changes the list during a call, so `CallOk`
  makes the command hit the rule that was meant.
- `NoGapEver`: adds come first, so during the deletions `PlanOk` gives each wanted match a rule that is
  wanted or the host's, and since ufw has one rule per match it is not the one being deleted.
- `ReconcileIsIdempotent`: the step that ends the pass leaves an empty plan, and `PlanOk` of an empty
  plan is the property. `Went` names that plan, which the state no longer shows.

TOTP, authentication (`TotpProofs`, `GateProofs`):

- `CapIsKept`: the count is checked and raised under `totpMu`, so a failure is recorded below the cap
  or after a counting error, and each error admits one check: `CapInv` is the property with its types.
- `TotpProofs!TypesHold`, `CodeIsConsumedOnce`, `EnabledAfterCode`, `SecretNeedsCode`: from `Inv`, which
  adds `Accepted` (a request about to act has had its code accepted where one is asked for) and
  `Passed` (once the watched code is consumed, the stored counter has passed it for as long as the
  account has that code's secret; secrets are never issued twice). All requests are of any kind,
  and any number of them run at once.
- `GateProofs!TypesHold`, `FailuresAreOwn`, `AdminsAreAdmitted`: from `Inv`, which adds `OwnAddress` (the
  address a request is counted under is its host's own or a proxy's, lemma `AddressIsOwn`) and
  `Current` (between `RequireAdmin`'s reads an account that did not change is the one that
  signed).
- `OverrunIsBounded`: `OverrunBounded` is not inductive; `Bound` counts the requests of an address
  that are in flight, which may still fail their signature or their TOTP code, together with its
  failures. Admission adds one to the former only below the limit (or after a counting error), and a
  failure ends its request, which moves one from the former to the latter.

Upgrade and backup (`UpgradeProofs`):

- `UpgradeProofs!TypesHold`, `InstalledIsWhole`, `InstalledServes`, `RollbackIsExact`: assume `OneRun`, one invocation at a time, as
  the run does (see the observations for two). `Inv` says what a run has made sure of at each step
  (`Progress`: the staged file is the whole target, `.bak` is the release the run came from) and
  what is known of the installed binary (`Verdict`: outside the last steps it is good, and
  within them the one in `.bak` is, unless `unchecked` or `unrestored`: `Trusted`). `TakenBackIs` is
  the lemma about both outcomes of the rename back: `exe` is the release the run came from, or nothing
  has changed, `unrestored` is set and that release is still `.bak`.
- `BackupIsKept`: `SnapshotKept` for any `backup_keep`. `SnapInv` adds that a run which fills or prunes
  works on the newest snapshot, and that a prune follows a filled one only. It assumes `OneRun`
  too: with two runs an empty snapshot created after the filled one is newer, and with
  `backup_keep` = 1 the prune keeps that one.

Only model-checked: the liveness properties (`MaintainRepairs`, `ServeRepairsCommands`,
`NodeConverges`, `GuardReachesDisk`, `Repairs`, `LockoutEnds`, `OutageEnds`), because fairness and
`ENABLED` are out of the prover's reach. Every invariant and action property of a passing run is
stated by a theorem. The two violated properties are no theorems: TLC's counterexamples are what
they show.

## 5. Not modelled

- Timestamps and replays within `signature_ttl`: a request is accepted when it was made with the
  stored secret. `SECURITY.md` documents the replay window.
- The anomaly warning, audit log and operation log, node reports, `Conflicts()` of the backends:
  they only read or report.
- `sanitize` in the agent: the modelled hub sends well-formed rules.
- Mock and null backends; schema and migrations; configuration and command line parsing; web
  client; installer. The text exchanged with nft and ufw.
- A reverse proxy that appends to `X-Forwarded-For` and hands on a client's own `X-Real-IP`: the
  code trusts `X-Real-IP` first, so it must be set or removed by a trusted proxy. `Gate` assumes so.
- Power loss: a rename or write is durable once it returned. The upgrade calls no `fsync`, so it can
  lose more than that; the agent syncs its state file before renaming it (`agent.go:290`).
- A release that starts, stays active for the 10 seconds of the health check and fails later; and
  the database schema, which a roll-back of the binary does not take back.

## 6. Plan

1. An `Allowlist` specification (the set of admitted (user, address, port)) that `Hub` implements
   between handlers, with its refinement proved from `RulesInv`.
2. What one pass of `Reconcile` on ufw leaves for a second user behind the same address, as a
   property with its exception (see the observations), and its theorem.
3. The commands beside the server: which of `HubProofs`' invariants survive them, up to the next
   Maintain.
4. The agent on a ufw node, and an agent's `sanitize` with a hub of another version.
