------------------------------ MODULE NftChain -------------------------------
(***************************************************************************)
(* The nftables backend: the chain as the kernel keeps it, an ordered list *)
(* of rules, and the calls that list and change it.  `nft -f` is one       *)
(* transaction, but most operations are a listing followed by transactions *)
(* computed from it, and the server, management commands and the operator's*)
(* own nft run at the same time.                                           *)
(*                                                                         *)
(* A table gives every rule a handle of its own and never gives one twice, *)
(* so a handle a process holds is a mark on the rule it names, and goes    *)
(* with the rule.  Only a flush starts the numbers again: a handle from    *)
(* before it may name any rule of the new table, or none.                  *)
(***************************************************************************)
EXTENDS Naturals, Sequences, SequencesExt, FiniteSets

CONSTANTS
    Keys,       \* allow rules in play: records [user, ip, port, group]
    Ports,      \* group ports, numbers (guardLayout sorts them)
    Server,     \* serve on a hub, the agent on a node
    Commands,   \* management commands running beside it
    None,       \* no rule, no ports
    MaxRules,   \* bound: rules besides the guard
    MaxFlushes  \* bound: flushes of the host's ruleset

ASSUME ChainAssumption ==
    /\ \A k \in Keys : /\ DOMAIN k = {"user", "ip", "port", "group"}
                       /\ k.port \in Ports /\ k.ip # 0
    /\ Ports \subseteq Nat \ {0} /\ IsFiniteSet(Ports)
    /\ \A ports \in SUBSET Ports : ports # None
    /\ Server \notin Commands
    /\ MaxRules \in Nat /\ MaxFlushes \in Nat

VARIABLES
    base,    \* the table and the chain exist
    chain,   \* its rules in order: [tag, key, by], by the processes that hold the handle
    work,    \* work[p]: what process p still has to do
    flushes, \* number of flushes so far
    synced,  \* history: the ports of the last SyncGuard, None if it failed
    stray    \* history: a handle from before a flush deleted a rule of the guard

vars == <<base, chain, work, flushes, synced, stray>>

Procs == Commands \cup {Server}

-----------------------------------------------------------------------------
(* Rules *)

Loopback == 0 \* the zero PortProto: iif "lo" accept

\* A rule is an allow rule (comment "<prefix>:<user>:<group>"), part of the
\* guard (comment "<prefix>-guard") or one of the host's.
AllowRule(k) == [tag |-> "allow", key |-> k, by |-> {}]
GuardRule(p) == [tag |-> "guard", key |-> p, by |-> {}]
HostRule == [tag |-> "host", key |-> None, by |-> {}]

\* ListManaged: the positions of the rules whose comment starts with "<prefix>:".
Managed == {n \in DOMAIN chain : chain[n].tag = "allow"}
Copies(k) == {n \in Managed : chain[n].key = k}
Present == {chain[n].key : n \in Managed}

\* The positions of the rules whose comment is guardComment.
GuardPositions == {n \in DOMAIN chain : chain[n].tag = "guard"}

\* The numbers of a finite set in increasing order.
InOrder(S) ==
    CHOOSE s \in [1..Cardinality(S) -> S] : \A m, n \in DOMAIN s : m < n => s[m] < s[n]

\* The guard for a set of ports: nothing, or the loopback bypass and one drop
\* per port in order.
guardLayout(ports) ==
    IF ports = {} THEN <<>> ELSE <<Loopback>> \o InOrder(ports)

LayoutRules(ports) ==
    [n \in DOMAIN guardLayout(ports) |-> GuardRule(guardLayout(ports)[n])]

\* Variant: sameGuard, which does not look where the rules are.
sameGuard(ports) ==
    /\ Cardinality(GuardPositions) = Len(guardLayout(ports))
    /\ \A n \in DOMAIN guardLayout(ports) :
         chain[InOrder(GuardPositions)[n]].key = guardLayout(ports)[n]

\* The guard's rules are exactly the layout, in order, and the chain's last.
guardAtTail(ports) ==
    LET layout == guardLayout(ports)
        start == Len(chain) - Len(layout)
    IN  /\ Cardinality(GuardPositions) = Len(layout)
        /\ \A n \in DOMAIN layout :
             chain[start + n].tag = "guard" /\ chain[start + n].key = layout[n]

-----------------------------------------------------------------------------
(* Processes.  `adds` and the marked rules come from one listing and are     *)
(* dealt with one nft call at a time, adds first; `dels` counts the handles  *)
(* not tried yet, of rules that are gone too; `ports` is SyncGuard's         *)
(* argument.  History: `close`, the keys the caller asked to close or others *)
(* deleted since, and `old`, the listing is from before a flush.  A listing  *)
(* that fails ends the operation.                                            *)

Plan(adds, dels, ports, close) ==
    [adds |-> adds, dels |-> dels, ports |-> ports, close |-> close, old |-> FALSE]

Nothing == Plan({}, 0, None, {})

IsIdle(p) == work[p] = Nothing

Mark(p, positions) ==
    [n \in DOMAIN chain |-> IF n \in positions THEN [chain[n] EXCEPT !.by = @ \cup {p}]
                                               ELSE chain[n]]

Begin(p, adds, dels, close) ==
    /\ IsIdle(p)
    /\ adds # {} \/ dels # {}
    /\ work' = [work EXCEPT ![p] = Plan(adds, Cardinality(dels), None,
                                       close \cap {chain[n].key : n \in dels})]
    /\ chain' = Mark(p, dels)
    /\ UNCHANGED <<base, flushes, synced, stray>>

First(positions) == {n \in positions : \A m \in positions : n <= m}

KeysOf(u) == {k \in Keys : k.user = u}

\* AddRule as an operation of its own: added whether or not it exists.
CallAddRule(p, k) == Begin(p, {k}, {}, {})

\* Variant: the comment is not compared, only the match.
RemoveRuleByMatch(p, k) ==
    Begin(p, {}, First({n \in Managed : chain[n].key.ip = k.ip /\ chain[n].key.port = k.port}), {k})

\* RemoveRule: the first rule with that match and comment; a miss is no error.
RemoveRule(p, k) == Begin(p, {}, First(Copies(k)), {k})

\* Manager.RemoveUserRules.
RemoveUserRules(p, u) ==
    Begin(p, {}, {n \in Managed : chain[n].key.user = u}, KeysOf(u))

\* Manager.Reconcile of user u with the rules `want`, all at one address: what
\* is missing is added; what is at another address or in no wanted group goes.
Reconcile(u, want) ==
    LET at == {k.ip : k \in want}
        enabled == {k.group : k \in want}
        stale(k) == k.user = u /\ (k.ip \notin at \/ k.group \notin enabled)
    IN  Begin(Server, want \ Present, {n \in Managed : stale(chain[n].key)}, KeysOf(u) \ want)

\* ReconcileAll: of several copies of a wanted rule the first listed is kept.
ReconcileAll(want) ==
    LET kept == UNION {First(Copies(k)) : k \in want}
    IN  Begin(Server, want \ Present, Managed \ kept, Keys \ want)

\* SyncGuard lists the chain; when the guard is already in place that is all.
SyncGuard(ports) ==
    /\ IsIdle(Server)
    /\ IF guardAtTail(ports)
       THEN synced' = ports /\ UNCHANGED <<chain, work>>
       ELSE /\ work' = [work EXCEPT ![Server] = Plan({}, Cardinality(GuardPositions), ports, {})]
            /\ chain' = Mark(Server, GuardPositions)
            /\ UNCHANGED synced
    /\ UNCHANGED <<base, flushes, stray>>

EnsureBase ==
    /\ IsIdle(Server)
    /\ base' = TRUE
    /\ UNCHANGED <<chain, work, flushes, synced, stray>>

-----------------------------------------------------------------------------
(* nft transactions.  One that reports an error changed nothing, except that *)
(* a call that timed out may have been carried out.                          *)

\* Process p goes on with w, or is finished.
GoOn(p, w) == [work EXCEPT ![p] = IF w.adds = {} /\ w.dels = 0 THEN Nothing ELSE w]

CanAdd == base /\ Len(chain) - Cardinality(GuardPositions) < MaxRules

\* Variant: the rule is appended.
AppendRule(k) == Append(chain, AllowRule(k))

\* AddRule inserts at the head of the chain.
InsertRule(k) == <<AllowRule(k)>> \o chain

AddRule(p, k) ==
    /\ k \in work[p].adds
    /\ work' = GoOn(p, [work[p] EXCEPT !.adds = @ \ {k}])
    /\ \/ CanAdd /\ chain' = InsertRule(k)
       \/ UNCHANGED chain
    /\ UNCHANGED <<base, flushes, synced, stray>>

Marked(p) == {n \in DOMAIN chain : p \in chain[n].by}

\* The rule p's next handle names: the first it marked.  After a flush, any.
Named(p) == IF work[p].old THEN DOMAIN chain ELSE First(Marked(p))

\* The others who meant to delete a rule like r learn, as history, that p did.
Noting(p, r, w) ==
    LET alike(q) == \E n \in Marked(q) : chain[n].tag = r.tag /\ chain[n].key = r.key
    IN  [q \in Procs |-> IF q # p /\ r.tag = "allow" /\ alike(q)
                         THEN [w[q] EXCEPT !.close = @ \cup {r.key}] ELSE w[q]]

Unmarked(p, positions) ==
    [n \in DOMAIN chain |-> IF n \in positions THEN [chain[n] EXCEPT !.by = @ \ {p}]
                                               ELSE chain[n]]

Deleting(p) == work[p].ports = None /\ work[p].adds = {} /\ work[p].dels > 0

Tried(p) == GoOn(p, [work[p] EXCEPT !.dels = @ - 1])

\* Variant: everything with the match of the next rule is deleted.
DeleteBySpec(p) ==
    /\ Deleting(p)
    /\ \E n \in Named(p) :
         /\ chain' = SelectSeq(chain, LAMBDA r : r.tag # "allow" \/ r.key # chain[n].key)
         /\ work' = Noting(p, chain[n], Tried(p))
         /\ stray' = (stray \/ chain[n].tag = "guard")
    /\ UNCHANGED <<base, flushes, synced>>

\* The next handle of p's list.
DeleteByHandle(p) ==
    /\ Deleting(p)
    /\ \E n \in Named(p) :
         /\ chain' = RemoveAt(chain, n)
         /\ work' = Noting(p, chain[n], Tried(p))
         /\ stray' = (stray \/ chain[n].tag = "guard")
    /\ UNCHANGED <<base, flushes, synced>>

\* The rule is gone or the call fails: the pass goes on with the next handle.
DeleteByHandleFails(p) ==
    /\ Deleting(p)
    /\ \/ chain' = Unmarked(p, First(Marked(p)))
       \/ work[p].dels > Cardinality(Marked(p)) /\ UNCHANGED chain
    /\ work' = Tried(p)
    /\ UNCHANGED <<base, flushes, synced, stray>>

SyncGuardReturns(result) ==
    /\ work[Server].ports # None
    /\ work' = [work EXCEPT ![Server] = Nothing]
    /\ synced' = result
    /\ UNCHANGED <<base, flushes>>

\* Every handle listed still names the rule it was listed for.
AllThere == ~work[Server].old /\ Cardinality(Marked(Server)) = work[Server].dels

OldGuardRemoved ==
    LET kept == InOrder(DOMAIN chain \ Marked(Server))
    IN  [n \in DOMAIN kept |-> chain[kept[n]]]

\* Variant: the old guard is deleted in a call of its own.
SyncGuardTwoCalls ==
    /\ work[Server].ports # None /\ base /\ AllThere
    /\ IF work[Server].dels > 0
       THEN /\ chain' = OldGuardRemoved
            /\ work' = [work EXCEPT ![Server].dels = 0]
            /\ UNCHANGED <<base, flushes, synced, stray>>
       ELSE /\ chain' = chain \o LayoutRules(work[Server].ports)
            /\ stray' = FALSE
            /\ SyncGuardReturns(work[Server].ports)

\* Old guard out and new guard in, all or nothing: a handle that is gone fails
\* the transaction.
SyncGuardCommit ==
    /\ \E result \in {work[Server].ports, None} : SyncGuardReturns(result)
    /\ base /\ AllThere
    /\ chain' = OldGuardRemoved \o LayoutRules(work[Server].ports)
    /\ stray' = FALSE

SyncGuardFails ==
    /\ SyncGuardReturns(None)
    /\ chain' = Unmarked(Server, DOMAIN chain)
    /\ UNCHANGED stray

-----------------------------------------------------------------------------
(* The host *)

\* A process dies between two calls.
Crash(p) ==
    /\ ~IsIdle(p)
    /\ work' = [work EXCEPT ![p] = Nothing]
    /\ chain' = Unmarked(p, DOMAIN chain)
    /\ synced' = IF p = Server THEN None ELSE synced
    /\ UNCHANGED <<base, flushes, stray>>

\* The operator puts a rule of their own into the chain, at either end.
AddHostRule ==
    /\ CanAdd
    /\ \A n \in DOMAIN chain : chain[n].tag # "host"
    /\ chain' \in {<<HostRule>> \o chain, Append(chain, HostRule)}
    /\ UNCHANGED <<base, work, flushes, synced, stray>>

\* `systemctl restart nftables`.
Flush ==
    /\ base /\ flushes < MaxFlushes
    /\ base' = FALSE /\ chain' = <<>>
    /\ flushes' = flushes + 1
    /\ synced' = None /\ stray' = FALSE
    /\ work' = [p \in Procs |-> [work[p] EXCEPT !.old = work[p].dels > 0]]

-----------------------------------------------------------------------------
Init ==
    /\ base = FALSE
    /\ chain = <<>>
    /\ work = [p \in Procs |-> Nothing]
    /\ flushes = 0
    /\ synced = None
    /\ stray = FALSE

Users == {k.user : k \in Keys}

\* One user's rules at one address.
UserSets(u) == {S \in SUBSET KeysOf(u) : Cardinality({k.ip : k \in S}) = 1}

Call ==
    \/ \E p \in Procs, k \in Keys : CallAddRule(p, k) \/ RemoveRule(p, k)
    \/ \E p \in Procs, u \in Users : RemoveUserRules(p, u)
    \/ \E u \in Users : \E want \in UserSets(u) : Reconcile(u, want)
    \/ \E want \in SUBSET Keys : ReconcileAll(want)
    \/ \E ports \in SUBSET Ports : SyncGuard(ports)
    \/ EnsureBase

Transaction ==
    \/ \E p \in Procs, k \in Keys : AddRule(p, k)
    \/ \E p \in Procs : DeleteByHandle(p) \/ DeleteByHandleFails(p)
    \/ SyncGuardCommit \/ SyncGuardFails

Host == AddHostRule \/ Flush \/ \E p \in Procs : Crash(p)

Next == Call \/ Transaction \/ Host

Spec == Init /\ [][Next]_vars

-----------------------------------------------------------------------------
(* Properties *)

Closed == {chain[n].key : n \in GuardPositions} \ {Loopback}

\* Whether a new connection from source i (or over loopback) to port p gets in:
\* the first rule that matches decides, the chain's policy is accept.
Matches(r, i, p) == \/ r.tag = "allow" /\ r.key.ip = i /\ r.key.port = p
                    \/ r.tag = "guard" /\ r.key = Loopback /\ i = Loopback
                    \/ r.tag = "guard" /\ r.key = p
Accepts(r) == r.tag = "allow" \/ r.key = Loopback
Admits(i, p) ==
    \A n \in First({m \in DOMAIN chain : Matches(chain[m], i, p)}) : Accepts(chain[n])

\* AddRule: "it must come before the guard's drop rules at the tail, or it would
\* never be reached".  Whatever calls, commands and the operator interleave, an
\* allowlisted source gets in, loopback is never shut out, and everybody else is
\* kept from the closed ports.
FirstMatchIsIntent ==
    ~stray => \A p \in Ports :
        /\ Admits(Loopback, p)
        /\ \A i \in {k.ip : k \in Keys} :
             Admits(i, p) <=> p \notin Closed \/ \E k \in Present : k.ip = i /\ k.port = p

\* SyncGuard: "never a moment without a guard".  A port stays closed until the
\* ruleset is flushed or SyncGuard is asked for a guard without it.
GuardHolds ==
    [][\A p \in Closed \ Closed' :
         \/ ~base' \/ stray'
         \/ work[Server].ports # None /\ p \notin work[Server].ports]_vars

\* A SyncGuard that reports success leaves exactly the guard it was asked for as
\* the last rules of the chain, though others changed the chain since its listing.
GuardSynced ==
    [][synced' # None /\ synced' # synced =>
         LET keys == [n \in DOMAIN chain' |-> chain'[n].key]
         IN  /\ IsSuffix(guardLayout(synced'), keys)
             /\ Closed' = synced']_vars

\* ReconcileAll keeps a copy of every wanted rule and RemoveRule is "precise,
\* cross-group-safe": the last rule for a key goes only while some process at work
\* was asked to close that key, or still holds handles from before a flush.
ClosedOnlyOnRequest ==
    [][\A k \in Present \ Present' :
         \/ ~base'
         \/ \E p \in Procs : work[p].old \/ k \in work[p].close]_vars

\* The backend is the firewall the other modules assume.
Fw == INSTANCE Firewall WITH copies <- [k \in Keys |-> Cardinality(Copies(k))],
                             closed <- Closed, ready <- base
ImplementsFirewall == Fw!Spec
=============================================================================
