--------------------------------- MODULE Ufw ---------------------------------
(***************************************************************************)
(* The ufw backend.  ufw keeps one numbered list of rules, the host's own  *)
(* among ours, with at most one rule per match (address, port, protocol),  *)
(* and deletes by number.  Every backend call lists the rules and then     *)
(* runs one ufw command computed from the listing, under a lock that all   *)
(* nft-okboy processes of the host take (flock) but the operator does not. *)
(***************************************************************************)
EXTENDS Naturals, Sequences, SequencesExt, FiniteSets

CONSTANTS
    Keys,      \* our rules: records [user, match], a match an (address, port,
               \* protocol); the group of the comment goes with the port
    Server,    \* serve, or the agent of a node
    Commands,  \* management commands running beside it
    None,      \* no user (a rule of the host), no process, no call
    MaxRules,  \* bound: rules in the list
    MaxEvents  \* bound: what the environment does (see Event)

ASSUME UfwAssumption == /\ \A k \in Keys : k = [user |-> k.user, match |-> k.match] /\ k.user # None
                        /\ Server \notin Commands /\ None \notin Commands \cup {Server}
                        /\ MaxRules \in Nat /\ MaxEvents \in Nat

VARIABLES
    list,     \* the rules in order: [match, user, allow], user None for the host's
    active,   \* `ufw enable`d; a disabled ufw keeps its rules and lists none
    lock,     \* the process that holds the lock, None when it is free
    desired,  \* the rules the database asks for
    work,     \* work[p]: what is left of p's pass, and the call p is in
    events    \* number of events so far

vars == <<list, active, lock, desired, work, events>>

Procs == Commands \cup {Server}

-----------------------------------------------------------------------------
(* Rules *)

Users == {k.user : k \in Keys}
Matches == {k.match : k \in Keys}

OurRule(k) == [match |-> k.match, user |-> k.user, allow |-> TRUE]
HostRule(m, allow) == [match |-> m, user |-> None, allow |-> allow]

Rules == {OurRule(k) : k \in Keys} \cup {HostRule(m, a) : m \in Matches, a \in BOOLEAN}

KeyOf(r) == [user |-> r.user, match |-> r.match]

\* parseUfwStatus keeps the rules with our comment.
Managed == {KeyOf(list[n]) : n \in {i \in DOMAIN list : list[i].user # None}}

\* The number of the rule with key k; the synthetic handle is that identity.
Numbers(k) == {n \in DOMAIN list : list[n].user # None /\ KeyOf(list[n]) = k}

\* hostRuleFor: a rule of the host with exactly this match.
hostRuleFor(m) == \E n \in DOMAIN list : list[n] \in {HostRule(m, TRUE), HostRule(m, FALSE)}

MatchesOf(keys) == {k.match : k \in keys}

\* `ufw allow`: the rule with this match, if there is one, becomes ours.
Allowed(k) ==
    IF \E n \in DOMAIN list : list[n].match = k.match
    THEN [n \in DOMAIN list |-> IF list[n].match = k.match THEN OurRule(k) ELSE list[n]]
    ELSE Append(list, OurRule(k))

-----------------------------------------------------------------------------
(* Passes.  `adds` and `dels` come from one listing.  `all` marks            *)
(* ReconcileAll.  History: `want`, what ReconcileAll was called with;        *)
(* `alone`, nobody else changed the list since the pass began; `ok`, no call *)
(* of the pass failed.  A call is [op, key, num] with the history `edited`:  *)
(* the operator changed the list since this call listed it.                  *)

Pass(adds, dels, all, want) ==
    [adds |-> adds, dels |-> dels, all |-> all, want |-> want,
     call |-> None, alone |-> TRUE, ok |-> TRUE]

Idle == Pass({}, {}, FALSE, {})

IsIdle(p) == work[p] = Idle

\* Others see p change the list.
Seen(p, w) == [q \in Procs |-> IF q = p \/ w[q] = Idle THEN w[q]
                               ELSE [w[q] EXCEPT !.alone = FALSE]]

\* A bounded number of things happen to the server: calls by others, edits of
\* the operator, failing ufw commands, crashes, new contents of the database.
Event == events < MaxEvents /\ events' = events + 1

\* ListManaged or ListUserRules, under the lock; ErrInactive ends the pass.
Begin(p, adds, dels, all, want) ==
    /\ IsIdle(p)
    /\ lock = None
    /\ active
    /\ adds # {} \/ dels # {}
    /\ work' = [work EXCEPT ![p] = Pass(adds, dels, all, want)]
    /\ UNCHANGED <<list, active, lock, desired>>

\* Variant: ReconcileAll does not know that ufw merges rules of one match.
MissingUnmerged(want) == want \ Managed

\* What ReconcileAll adds: a match that a kept rule covers is open already.
Missing(want) == {k \in want \ Managed : k.match \notin MatchesOf(want \cap Managed)}

\* Variant: nothing is deleted.
ReconcileAllAddsOnly ==
    /\ Begin(Server, Missing(desired), {}, TRUE, desired)
    /\ UNCHANGED events

ReconcileAll ==
    /\ Begin(Server, Missing(desired), Managed \ desired, TRUE, desired)
    /\ UNCHANGED events

\* Manager.Reconcile of one user: only the user's own rules are looked at.
Reconcile(u) ==
    LET want == {k \in desired : k.user = u}
        own == {k \in Managed : k.user = u}
    IN  /\ Event
        /\ Begin(Server, want \ own, own \ want, FALSE, {})

RemoveUserRules(p, u) ==
    Event /\ Begin(p, {}, {k \in Managed : k.user = u}, FALSE, {})

AddOne(p, k) == Event /\ Begin(p, {k}, {}, FALSE, {})

RemoveOne(p, k) == Event /\ Begin(p, {}, {k}, FALSE, {})

-----------------------------------------------------------------------------
(* Calls *)

\* Variant: the lock is not taken.
LockFreeAnyway(p) == TRUE

LockFree(p) == lock = None

Calling(p, op, k, num) ==
    /\ LockFree(p)
    /\ lock' = p
    /\ work' = [work EXCEPT ![p].call = [op |-> op, key |-> k, num |-> num, edited |-> FALSE]]
    /\ UNCHANGED <<list, active, desired, events>>

\* Process p goes on with w, or is finished.
Rest(p, w) == [work EXCEPT ![p] = IF w.adds = {} /\ w.dels = {} /\ w.call = None THEN Idle ELSE w]

\* The pass without the add of k.  In ReconcileAll one add settles its match.
Added(w, k) ==
    [w EXCEPT !.adds = {a \in @ : a # k /\ (w.all => a.match # k.match)}, !.call = None]
NotAdded(w, k) == [w EXCEPT !.adds = @ \ {k}, !.call = None, !.ok = FALSE]
Deleted(w, k) == [w EXCEPT !.dels = @ \ {k}, !.call = None]
NotDeleted(w, k) == [Deleted(w, k) EXCEPT !.ok = FALSE]

Between(p) == work[p].call = None

\* Variant: deletions do not wait for the adds.
NextDelAtOnce(p) == work[p].dels

\* Adds come before deletions.
NextDel(p) == IF work[p].adds = {} THEN work[p].dels ELSE {}

\* AddRule: list, leave a match to the host's own rule, else go on to add.
AddRule(p, k) ==
    /\ Between(p) /\ k \in work[p].adds
    /\ active
    /\ IF hostRuleFor(k.match)
       THEN /\ LockFree(p)
            /\ work' = Rest(p, Added(work[p], k))
            /\ UNCHANGED <<list, active, lock, desired, events>>
       ELSE Calling(p, "allow", k, 0)

\* RemoveRule, DeleteByHandle: list again and look up the current number; a rule
\* that is not there is not an error.
DeleteByHandle(p, k) ==
    /\ Between(p) /\ k \in NextDel(p)
    /\ active
    /\ \/ \E n \in Numbers(k) : Calling(p, "delete", k, n)
       \/ /\ Numbers(k) = {} /\ LockFree(p)
          /\ work' = Rest(p, Deleted(work[p], k))
          /\ UNCHANGED <<list, active, lock, desired, events>>

\* A disabled ufw: ErrInactive, whatever the call.
Inactive(p) ==
    /\ ~active /\ Between(p) /\ LockFree(p)
    /\ \/ \E k \in work[p].adds : work' = Rest(p, NotAdded(work[p], k))
       \/ \E k \in NextDel(p) : work' = Rest(p, NotDeleted(work[p], k))
    /\ UNCHANGED <<list, active, lock, desired, events>>

\* `ufw allow ...`, and the lock is released.
RunAllow(p) ==
    /\ work[p].call # None /\ work[p].call.op = "allow"
    /\ LET k == work[p].call.key
       IN  /\ list' = Allowed(k)
           /\ work' = Seen(p, Rest(p, Added(work[p], k)))
    /\ lock' = None
    /\ UNCHANGED <<active, desired, events>>

\* `ufw --force delete n`: whatever has that number now.
RunDelete(p) ==
    /\ work[p].call # None /\ work[p].call.op = "delete"
    /\ LET c == work[p].call
       IN  IF c.num \in DOMAIN list
           THEN /\ list' = RemoveAt(list, c.num)
                /\ work' = Seen(p, Rest(p, Deleted(work[p], c.key)))
           ELSE /\ work' = Rest(p, NotDeleted(work[p], c.key))
                /\ UNCHANGED list
    /\ lock' = None
    /\ UNCHANGED <<active, desired, events>>

\* What the command of a call makes of the list.
Effect(c) == IF c.op = "allow" THEN Allowed(c.key)
             ELSE IF c.num \in DOMAIN list THEN RemoveAt(list, c.num) ELSE list

Failed(p) ==
    LET c == work[p].call
    IN  Rest(p, IF c.op = "allow" THEN NotAdded(work[p], c.key) ELSE NotDeleted(work[p], c.key))

\* The command fails; one that timed out may have been carried out.
RunFails(p) ==
    /\ Event
    /\ work[p].call # None
    /\ \/ work' = Failed(p) /\ UNCHANGED list
       \/ work' = Seen(p, Failed(p)) /\ list' = Effect(work[p].call)
    /\ lock' = None
    /\ UNCHANGED <<active, desired>>

-----------------------------------------------------------------------------
(* The environment *)

\* A process dies; the kernel releases its flock.
Crash(p) ==
    /\ Event
    /\ ~IsIdle(p)
    /\ work' = [work EXCEPT ![p] = Idle]
    /\ lock' = IF lock = p THEN None ELSE lock
    /\ UNCHANGED <<list, active, desired>>

\* Every pass and every call in progress is now based on an older list.
Edited == [p \in Procs |->
             IF work[p] = Idle THEN Idle
             ELSE IF work[p].call = None THEN [work[p] EXCEPT !.alone = FALSE]
             ELSE [work[p] EXCEPT !.alone = FALSE, !.call.edited = TRUE]]

\* The operator adds or deletes a rule, without the lock.
Operator ==
    /\ Event
    /\ \/ \E m \in Matches, allow \in BOOLEAN, at \in 1..(Len(list) + 1) :
            /\ Len(list) < MaxRules
            /\ \A n \in DOMAIN list : list[n].match # m
            /\ list' = InsertAt(list, at, HostRule(m, allow))
       \/ \E n \in DOMAIN list : list' = RemoveAt(list, n)
    /\ work' = Edited
    /\ UNCHANGED <<active, lock, desired>>

\* `ufw enable`, `ufw disable`.
Switch ==
    /\ Event
    /\ active' = ~active
    /\ UNCHANGED <<list, lock, desired, work>>

\* Knocks and admin changes alter what the database asks for.
Change ==
    /\ Event
    /\ desired' \in SUBSET Keys
    /\ UNCHANGED <<list, active, lock, work>>

-----------------------------------------------------------------------------
\* ufw keeps one rule per match.
OneRulePerMatch == \A m, n \in DOMAIN list : list[m].match = list[n].match => m = n

Init ==
    /\ list \in UNION {[1..n -> Rules] : n \in 0..MaxRules}
    /\ OneRulePerMatch
    /\ active = TRUE
    /\ lock = None
    /\ desired \in SUBSET Keys
    /\ work = [p \in Procs |-> Idle]
    /\ events = 0

Start ==
    \/ ReconcileAll
    \/ \E u \in Users : Reconcile(u)
    \/ \E p \in Procs, u \in Users : RemoveUserRules(p, u)
    \/ \E p \in Procs, k \in Keys : AddOne(p, k) \/ RemoveOne(p, k)

Step(p) == \/ \E k \in Keys : AddRule(p, k) \/ DeleteByHandle(p, k)
           \/ Inactive(p) \/ RunAllow(p) \/ RunDelete(p)

Environment == Operator \/ Switch \/ Change \/ \E p \in Procs : RunFails(p) \/ Crash(p)

Next == Start \/ (\E p \in Procs : Step(p)) \/ Environment

Spec == Init /\ [][Next]_vars

\* Maintain runs for ever, and a process at work runs on: a ufw command has a
\* timeout, and the flock is released with every call.
FairSpec == Spec /\ WF_vars(ReconcileAll) /\ \A p \in Procs : WF_vars(Step(p))

-----------------------------------------------------------------------------
(* Properties *)

\* The UfwBackend comment: without lock() "the second delete would hit whatever
\* rule the first one shifted into place - possibly an unrelated host rule, even
\* a DENY".  A rule of the host goes or changes by the operator's hand alone,
\* unless the operator edited the list between a call's listing and its command.
HostRulesUntouched ==
    [][\A n \in DOMAIN list : list[n].user = None /\ list[n] \notin ToSet(list') =>
         Operator \/ \E p \in Procs : work[p].call # None /\ work[p].call.edited]_vars

Open == {list[n].match : n \in {i \in DOMAIN list : list[i].allow}}

\* ReconcileAll: "Add before deleting, so a rule being replaced never leaves a
\* gap".  No step of its pass closes a match it wants open, as long as nobody else
\* changes the list and no add failed (the old rule is deleted all the same).
NoGap ==
    [][\A m \in Open \ Open' : m \in MatchesOf(work[Server].want) /\ work[Server].all
         => ~(work[Server].alone /\ work[Server].ok /\ RunDelete(Server))]_vars

\* ReconcileAll is "Idempotent - a second call with the same desired set issues
\* no mutations": when a pass that nothing disturbed ends, all that a second one
\* would still try is a match that a rule of the host decides.
Idempotent ==
    [][work[Server].all /\ IsIdle(Server)' /\ work[Server].alone /\ work[Server].ok
         /\ events' = events /\ ~Inactive(Server)
         => \A want \in {work[Server].want} :
              /\ Managed' \subseteq want
              /\ \A k \in Missing(want)' : hostRuleFor(k.match)']_vars

\* Once the environment is quiet and ufw enabled, exactly the accesses the
\* database asks for are open, besides what the host's own rules decide.
InSync ==
    /\ Managed \subseteq desired
    /\ \A k \in desired : k.match \in MatchesOf(Managed) \/ hostRuleFor(k.match)
Repairs == <>[](active => InSync)
=============================================================================
