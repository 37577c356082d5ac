------------------------------ MODULE UfwProofs ------------------------------
(***************************************************************************)
(* The ufw backend, for any number of commands, users and rules and any    *)
(* events.  The invariant says what a call in progress may rely on: it     *)
(* holds the lock, and until the operator edits the list the number it     *)
(* looked up is still its rule's.  And what an undisturbed ReconcileAll has*)
(* still to do: every wanted match is open, left to the host, or in `adds`.*)
(***************************************************************************)
EXTENDS Ufw, TLAPS

-----------------------------------------------------------------------------
(* The invariant *)

Calls == [op : {"allow", "delete"}, key : Keys, num : Nat, edited : BOOLEAN]

Passes == [adds : SUBSET Keys, dels : SUBSET Keys, all : BOOLEAN, want : SUBSET Keys,
           call : Calls \cup {None}, alone : BOOLEAN, ok : BOOLEAN]

Types == /\ list \in Seq(Rules)
         /\ desired \in SUBSET Keys
         /\ work \in [Procs -> Passes]
         /\ events \in Nat

\* A process in a call holds the lock.
Held(p) == work[p].call # None => lock = p

\* What a call was computed from still holds, unless the operator edited the list.
CallOk(w) ==
    w.call # None =>
      /\ w.call.op = "allow" =>
           /\ w.call.key \in w.adds
           /\ ~w.call.edited => ~hostRuleFor(w.call.key.match)
      /\ w.call.op = "delete" =>
           /\ w.adds = {} /\ w.call.key \in w.dels
           /\ ~w.call.edited => w.call.num \in Numbers(w.call.key)
      /\ w.alone => ~w.call.edited

\* A match with a wanted rule of ours, or with a rule of the host.
Decided(w, k) == k.match \in MatchesOf(w.want \cap Managed) \/ hostRuleFor(k.match)

\* What an undisturbed ReconcileAll has left to do.
PlanOk(w) ==
    w.all /\ w.alone /\ w.ok =>
      /\ w.adds \subseteq w.want /\ w.dels \cap w.want = {}
      /\ Managed \subseteq w.want \cup w.dels
      /\ \A k \in w.want : Decided(w, k) \/ \E a \in w.adds : a.match = k.match

UfwInv ==
    /\ Types
    /\ OneRulePerMatch
    /\ \A p \in Procs : Held(p) /\ CallOk(work[p]) /\ PlanOk(work[p])

-----------------------------------------------------------------------------
(* Rules *)

\* Rules are ours, with the key they were made from, or the host's.
LEMMA RuleShape ==
    ASSUME NEW r \in Rules
    PROVE  /\ r.user = None => r \in {HostRule(r.match, TRUE), HostRule(r.match, FALSE)}
           /\ r.user # None => /\ KeyOf(r) \in Keys /\ KeyOf(r).match = r.match
                               /\ r = OurRule(KeyOf(r)) /\ r.allow
<1>. DEFINE A == {OurRule(k) : k \in Keys}
            B == {HostRule(m, a) : m \in Matches, a \in BOOLEAN}
<1>1. CASE r \in A
  <2>1. PICK k \in Keys : r = OurRule(k)
    BY <1>1
  <2>2. k = [user |-> k.user, match |-> k.match] /\ k.user # None
    BY UfwAssumption
  <2>3. r.user = k.user /\ r.match = k.match /\ r.allow = TRUE
    BY <2>1 DEF OurRule
  <2>4. KeyOf(r) = k
    BY <2>2, <2>3 DEF KeyOf
  <2>. QED
    BY <2>1, <2>2, <2>3, <2>4
<1>2. CASE r \in B
  <2>1. PICK m \in Matches, a \in BOOLEAN : r = HostRule(m, a)
    BY <1>2
  <2>2. r.user = None /\ r.match = m
    BY <2>1 DEF HostRule
  <2>. QED
    BY <2>1, <2>2
<1>3. r \in A \/ r \in B
  BY DEF Rules
<1>. HIDE DEF A, B
<1>. QED
  BY <1>1, <1>2, <1>3

\* The fields of the rules that the model makes.
LEMMA RuleFields ==
    /\ \A k \in Keys : /\ OurRule(k) \in Rules /\ OurRule(k).user # None /\ OurRule(k).match = k.match
                       /\ KeyOf(OurRule(k)) = k /\ OurRule(k).allow
    /\ \A m, a : HostRule(m, a).user = None /\ HostRule(m, a).match = m
    /\ \A m \in Matches, a \in BOOLEAN : HostRule(m, a) \in Rules
<1>1. ASSUME NEW k \in Keys
      PROVE  /\ OurRule(k) \in Rules /\ OurRule(k).user # None /\ OurRule(k).match = k.match
             /\ KeyOf(OurRule(k)) = k /\ OurRule(k).allow
  <2>1. k = [user |-> k.user, match |-> k.match] /\ k.user # None
    BY UfwAssumption
  <2>2. OurRule(k) \in Rules
    BY DEF Rules
  <2>3. OurRule(k).user = k.user /\ OurRule(k).match = k.match /\ OurRule(k).allow = TRUE
    BY DEF OurRule
  <2>4. KeyOf(OurRule(k)) = k
    BY <2>1, <2>3 DEF KeyOf
  <2>. QED
    BY <2>1, <2>2, <2>3, <2>4
<1>2. \A m, a : HostRule(m, a).user = None /\ HostRule(m, a).match = m
  BY DEF HostRule
<1>3. \A m \in Matches, a \in BOOLEAN : HostRule(m, a) \in Rules
  BY DEF Rules
<1>. QED
  BY <1>1, <1>2, <1>3

\* A rule of ours is in the list, a rule of the host decides a match.
LEMMA InList ==
    ASSUME Types
    PROVE  /\ DOMAIN list = 1..Len(list) /\ Len(list) \in Nat
           /\ \A n \in DOMAIN list : list[n] \in Rules
           /\ Managed \subseteq Keys
           /\ \A k \in Managed : \E n \in DOMAIN list : list[n] = OurRule(k)
           /\ \A k \in Keys, n \in DOMAIN list : list[n] = OurRule(k) => k \in Managed
           /\ \A n \in DOMAIN list : list[n].user = None => hostRuleFor(list[n].match)
<1>1. DOMAIN list = 1..Len(list) /\ Len(list) \in Nat /\ \A n \in DOMAIN list : list[n] \in Rules
  BY DEF Types
<1>2. ASSUME NEW k \in Managed PROVE k \in Keys /\ \E n \in DOMAIN list : list[n] = OurRule(k)
  <2>1. PICK n \in DOMAIN list : list[n].user # None /\ k = KeyOf(list[n])
    BY DEF Managed
  <2>2. PICK r \in Rules : r = list[n]
    BY <1>1
  <2>. QED
    BY <2>1, <2>2, RuleShape
<1>3. ASSUME NEW k \in Keys, NEW n \in DOMAIN list, list[n] = OurRule(k) PROVE k \in Managed
  <2>1. list[n].user # None /\ KeyOf(list[n]) = k
    BY <1>3, RuleFields
  <2>. QED
    BY <2>1 DEF Managed
<1>4. ASSUME NEW n \in DOMAIN list, list[n].user = None PROVE hostRuleFor(list[n].match)
  <2>1. PICK r \in Rules : r = list[n]
    BY <1>1
  <2>2. r \in {HostRule(r.match, TRUE), HostRule(r.match, FALSE)}
    BY <1>4, <2>1, RuleShape
  <2>. QED
    BY <2>1, <2>2 DEF hostRuleFor
<1>. QED
  BY <1>1, <1>2, <1>3, <1>4

\* A function on 1..c is a sequence.
LEMMA SequenceOf ==
    ASSUME NEW R, NEW c \in Nat, NEW s \in [1..c -> R]
    PROVE  s \in Seq(R) /\ Len(s) = c
OBVIOUS

\* Taking a rule out moves those after it up.
LEMMA RemoveShape ==
    ASSUME NEW R, NEW s \in Seq(R), NEW n \in 1..Len(s)
    PROVE  /\ RemoveAt(s, n) \in Seq(R)
           /\ Len(RemoveAt(s, n)) = Len(s) - 1
           /\ \A m \in 1..(Len(s) - 1) : RemoveAt(s, n)[m] = s[IF m < n THEN m ELSE m + 1]
<1>. DEFINE a == SubSeq(s, 1, n - 1)
            b == SubSeq(s, n + 1, Len(s))
<1>1. /\ a \in Seq(R) /\ Len(a) = n - 1 /\ \A m \in 1..(n - 1) : a[m] = s[m]
  OBVIOUS
<1>2. /\ b \in Seq(R) /\ Len(b) = Len(s) - n /\ \A m \in 1..(Len(s) - n) : b[m] = s[m + n]
  OBVIOUS
<1>. HIDE DEF a, b
<1>3. a \o b \in Seq(R) /\ Len(a \o b) = Len(s) - 1
  <2>0. a \in Seq(R) /\ b \in Seq(R)
    BY <1>1, <1>2
  <2>1. a \o b \in Seq(R) /\ Len(a \o b) = Len(a) + Len(b)
    BY ONLY <2>0
  <2>2. Len(s) \in Nat /\ n \in Nat
    OBVIOUS
  <2>. QED
    BY <1>1, <1>2, <2>1, <2>2
<1>4. ASSUME NEW m \in 1..(Len(s) - 1) PROVE (a \o b)[m] = s[IF m < n THEN m ELSE m + 1]
  <2>1. CASE m < n
    BY <1>1, <1>2, <2>1
  <2>2. CASE ~(m < n)
    <3>1. m - (n - 1) \in 1..(Len(s) - n)
      BY <2>2
    <3>2. (a \o b)[m] = b[m - (n - 1)]
      BY <1>1, <1>2, <2>2
    <3>3. b[m - (n - 1)] = s[m - (n - 1) + n] /\ m - (n - 1) + n = m + 1
      BY <1>2, <3>1
    <3>. QED
      BY <2>2, <3>2, <3>3
  <2>. QED
    BY <2>1, <2>2
<1>. QED
  BY <1>3, <1>4 DEF RemoveAt, a, b

\* Putting one in moves those after it down.
LEMMA InsertShape ==
    ASSUME NEW R, NEW s \in Seq(R), NEW n \in 1..(Len(s) + 1), NEW e \in R
    PROVE  /\ InsertAt(s, n, e) \in Seq(R)
           /\ Len(InsertAt(s, n, e)) = Len(s) + 1
           /\ \A m \in 1..(Len(s) + 1) :
                InsertAt(s, n, e)[m] = IF m < n THEN s[m] ELSE IF m = n THEN e ELSE s[m - 1]
<1>. DEFINE a == SubSeq(s, 1, n - 1)
            b == SubSeq(s, n, Len(s))
            c == a \o <<e>>
<1>1. /\ a \in Seq(R) /\ Len(a) = n - 1 /\ \A m \in 1..(n - 1) : a[m] = s[m]
  OBVIOUS
<1>2. /\ b \in Seq(R) /\ Len(b) = Len(s) - n + 1 /\ \A m \in 1..(Len(s) - n + 1) : b[m] = s[m + n - 1]
  OBVIOUS
<1>. HIDE DEF a, b
<1>3. /\ c \in Seq(R) /\ Len(c) = n /\ c[n] = e
      /\ \A m \in 1..(n - 1) : c[m] = s[m]
  <2>1. n - 1 \in Nat /\ n \in Nat /\ n = n - 1 + 1
    OBVIOUS
  <2>2. c \in Seq(R) /\ Len(c) = Len(a) + 1 /\ c[Len(a) + 1] = e /\ \A m \in 1..Len(a) : c[m] = a[m]
    BY <1>1
  <2>. QED
    BY <1>1, <2>1, <2>2
<1>. HIDE DEF c
<1>4. c \o b \in Seq(R) /\ Len(c \o b) = Len(s) + 1
  <2>0. c \in Seq(R) /\ b \in Seq(R)
    BY <1>2, <1>3
  <2>1. c \o b \in Seq(R) /\ Len(c \o b) = Len(c) + Len(b)
    BY ONLY <2>0
  <2>2. Len(s) \in Nat /\ n \in Nat
    OBVIOUS
  <2>. QED
    BY <1>2, <1>3, <2>1, <2>2
<1>5. ASSUME NEW m \in 1..(Len(s) + 1)
      PROVE  (c \o b)[m] = IF m < n THEN s[m] ELSE IF m = n THEN e ELSE s[m - 1]
  <2>1. CASE m <= n
    <3>1. (c \o b)[m] = c[m]
      BY <1>2, <1>3, <2>1
    <3>. QED
      BY <1>3, <2>1, <3>1
  <2>2. CASE ~(m <= n)
    <3>1. m - n \in 1..(Len(s) - n + 1)
      BY <2>2
    <3>2. (c \o b)[m] = b[m - n]
      BY <1>2, <1>3, <2>2
    <3>3. b[m - n] = s[(m - n) + n - 1] /\ (m - n) + n - 1 = m - 1
      BY <1>2, <3>1
    <3>. QED
      BY <2>2, <3>2, <3>3
  <2>. QED
    BY <2>1, <2>2
<1>6. InsertAt(s, n, e) = c \o b
  BY DEF InsertAt, a, b, c
<1>. QED
  BY <1>4, <1>5, <1>6

-----------------------------------------------------------------------------
(* What the commands make of the list *)

\* `ufw allow` for key k: the rule with its match, if any, becomes ours.
LEMMA AllowedRules ==
    ASSUME Types, OneRulePerMatch, NEW k \in Keys, list' = Allowed(k)
    PROVE  /\ list' \in Seq(Rules) /\ OneRulePerMatch'
           /\ \A n \in DOMAIN list : /\ n \in DOMAIN list'
                                     /\ list[n].match # k.match => list'[n] = list[n]
           /\ \E x \in DOMAIN list' : list'[x] = OurRule(k)
           /\ \A j \in DOMAIN list' :
                list'[j] = OurRule(k) \/ (j \in DOMAIN list /\ list'[j] = list[j])
<1>1. DOMAIN list = 1..Len(list) /\ Len(list) \in Nat /\ \A n \in DOMAIN list : list[n] \in Rules
  BY InList
<1>2. OurRule(k) \in Rules /\ OurRule(k).match = k.match
  BY RuleFields
<1>3. CASE \E n \in DOMAIN list : list[n].match = k.match
  <2>1. /\ DOMAIN list' = DOMAIN list
        /\ \A n \in DOMAIN list : list'[n] = IF list[n].match = k.match THEN OurRule(k) ELSE list[n]
    BY <1>3 DEF Allowed
  <2>2. list' \in [1..Len(list) -> Rules]
    BY <1>1, <1>2, <1>3 DEF Allowed
  <2>3. list' \in Seq(Rules)
    BY <1>1, <2>2, SequenceOf
  <2>4. \A n \in DOMAIN list : list'[n].match = list[n].match
    BY <1>2, <2>1
  <2>5. OneRulePerMatch'
    BY <2>1, <2>4 DEF OneRulePerMatch
  <2>. QED
    BY <1>3, <2>1, <2>3, <2>5
<1>4. CASE \A n \in DOMAIN list : list[n].match # k.match
  <2>1. list' = Append(list, OurRule(k))
    BY <1>4 DEF Allowed
  <2>2. /\ list' \in Seq(Rules) /\ Len(list') = Len(list) + 1 /\ list'[Len(list) + 1] = OurRule(k)
        /\ \A n \in 1..Len(list) : list'[n] = list[n]
    BY <1>2, <2>1 DEF Types
  <2>3. DOMAIN list' = 1..(Len(list) + 1)
    BY <2>2
  <2>4. \A j \in DOMAIN list' : j = Len(list) + 1 \/ j \in DOMAIN list
    BY <1>1, <2>3
  <2>5. OneRulePerMatch'
    <3>. SUFFICES ASSUME NEW i \in DOMAIN list', NEW j \in DOMAIN list', list'[i].match = list'[j].match
                  PROVE  i = j
      BY DEF OneRulePerMatch
    <3>1. CASE i \in DOMAIN list /\ j \in DOMAIN list
      BY <1>1, <2>2, <3>1 DEF OneRulePerMatch
    <3>2. CASE i \in DOMAIN list /\ j = Len(list) + 1
      BY <1>1, <1>2, <1>4, <2>2, <3>2
    <3>3. CASE i = Len(list) + 1 /\ j \in DOMAIN list
      BY <1>1, <1>2, <1>4, <2>2, <3>3
    <3>. QED
      BY <2>4, <3>1, <3>2, <3>3
  <2>. QED
    BY <1>1, <2>2, <2>3, <2>4, <2>5
<1>. QED
  BY <1>3, <1>4

\* In terms of keys and matches.
LEMMA AllowedKeys ==
    ASSUME Types, OneRulePerMatch, NEW k \in Keys, list' = Allowed(k)
    PROVE  /\ k \in Managed' /\ Managed' \subseteq Managed \cup {k}
           /\ \A j \in Managed : j.match # k.match => j \in Managed'
           /\ \A m : hostRuleFor(m) /\ m # k.match => hostRuleFor(m)'
           /\ ~hostRuleFor(k.match) =>
                \A n \in DOMAIN list : list[n].user = None => list[n] \in ToSet(list')
<1>1. /\ list' \in Seq(Rules)
      /\ \A n \in DOMAIN list : /\ n \in DOMAIN list'
                                /\ list[n].match # k.match => list'[n] = list[n]
      /\ \E x \in DOMAIN list' : list'[x] = OurRule(k)
      /\ \A j \in DOMAIN list' :
           list'[j] = OurRule(k) \/ (j \in DOMAIN list /\ list'[j] = list[j])
  BY AllowedRules
<1>2. /\ OurRule(k).user # None /\ KeyOf(OurRule(k)) = k
  BY RuleFields
<1>3. k \in Managed'
  BY <1>1, <1>2 DEF Managed
<1>4. Managed' \subseteq Managed \cup {k}
  BY <1>1, <1>2 DEF Managed
<1>5. ASSUME NEW j \in Managed, j.match # k.match PROVE j \in Managed'
  <2>1. PICK n \in DOMAIN list : list[n] = OurRule(j)
    BY InList
  <2>2. j \in Keys
    BY InList
  <2>3. list[n].match = j.match /\ OurRule(j).user # None /\ KeyOf(OurRule(j)) = j
    BY <2>1, <2>2, RuleFields
  <2>4. n \in DOMAIN list' /\ list'[n] = OurRule(j)
    BY <1>1, <1>5, <2>1, <2>3
  <2>. QED
    BY <2>3, <2>4 DEF Managed
<1>6. ASSUME NEW m, hostRuleFor(m), m # k.match PROVE hostRuleFor(m)'
  <2>1. PICK n \in DOMAIN list : list[n] \in {HostRule(m, TRUE), HostRule(m, FALSE)}
    BY <1>6 DEF hostRuleFor
  <2>2. list[n].match = m
    BY <2>1 DEF HostRule
  <2>3. n \in DOMAIN list' /\ list'[n] = list[n]
    BY <1>1, <1>6, <2>2
  <2>. QED
    BY <2>1, <2>3 DEF hostRuleFor
<1>7. ASSUME ~hostRuleFor(k.match), NEW n \in DOMAIN list, list[n].user = None
      PROVE  list[n] \in ToSet(list')
  <2>1. list[n].match # k.match
    BY <1>7, InList
  <2>2. n \in DOMAIN list' /\ list'[n] = list[n]
    BY <1>1, <2>1
  <2>. QED
    BY <2>2 DEF ToSet
<1>. QED
  BY <1>3, <1>4, <1>5, <1>6, <1>7

\* `ufw delete n`: the other rules stay.
LEMMA RemovedRules ==
    ASSUME Types, OneRulePerMatch, NEW n \in DOMAIN list, list' = RemoveAt(list, n)
    PROVE  /\ list' \in Seq(Rules) /\ OneRulePerMatch'
           /\ \A j \in DOMAIN list : j # n => \E i \in DOMAIN list' : list'[i] = list[j]
           /\ \A i \in DOMAIN list' : \E j \in DOMAIN list : j # n /\ list'[i] = list[j]
<1>1. DOMAIN list = 1..Len(list) /\ Len(list) \in Nat
  BY InList
<1>2. /\ list' \in Seq(Rules) /\ Len(list') = Len(list) - 1
      /\ \A m \in 1..(Len(list) - 1) : list'[m] = list[IF m < n THEN m ELSE m + 1]
  BY <1>1, RemoveShape DEF Types
<1>3. DOMAIN list' = 1..(Len(list) - 1)
  BY <1>2
<1>4. ASSUME NEW j \in DOMAIN list, j # n PROVE \E i \in DOMAIN list' : list'[i] = list[j]
  <2>. DEFINE i == IF j < n THEN j ELSE j - 1
  <2>1. i \in 1..(Len(list) - 1) /\ (IF i < n THEN i ELSE i + 1) = j
    BY <1>1, <1>4
  <2>. QED
    BY <1>2, <1>3, <2>1
<1>5. ASSUME NEW i \in DOMAIN list'
      PROVE  LET j == IF i < n THEN i ELSE i + 1
             IN  j \in DOMAIN list /\ j # n /\ list'[i] = list[j]
  BY <1>1, <1>2, <1>3
<1>6. OneRulePerMatch'
  <2>. SUFFICES ASSUME NEW i \in DOMAIN list', NEW h \in DOMAIN list', list'[i].match = list'[h].match
                PROVE  i = h
    BY DEF OneRulePerMatch
  <2>1. PICK a, b : a = (IF i < n THEN i ELSE i + 1) /\ b = (IF h < n THEN h ELSE h + 1)
    OBVIOUS
  <2>2. a \in DOMAIN list /\ b \in DOMAIN list /\ list'[i] = list[a] /\ list'[h] = list[b]
    BY <1>5, <2>1
  <2>3. a = b
    BY <2>2 DEF OneRulePerMatch
  <2>. QED
    BY <1>1, <1>3, <2>1, <2>3
<1>. QED
  BY <1>2, <1>4, <1>5, <1>6

\* Deleting the rule of a key takes away that key and nothing else.
LEMMA RemovedKeys ==
    ASSUME Types, OneRulePerMatch, NEW k \in Keys, NEW n \in Numbers(k), list' = RemoveAt(list, n)
    PROVE  /\ Managed' = Managed \ {k}
           /\ \A m : hostRuleFor(m) => hostRuleFor(m)'
           /\ \A j \in DOMAIN list : list[j].user = None => list[j] \in ToSet(list')
<1>1. n \in DOMAIN list /\ list[n].user # None /\ KeyOf(list[n]) = k
  BY DEF Numbers
<1>2. /\ list' \in Seq(Rules) /\ OneRulePerMatch'
      /\ \A j \in DOMAIN list : j # n => \E i \in DOMAIN list' : list'[i] = list[j]
      /\ \A i \in DOMAIN list' : \E j \in DOMAIN list : j # n /\ list'[i] = list[j]
  BY <1>1, RemovedRules
<1>3. ASSUME NEW j \in DOMAIN list, list[j].user # None, KeyOf(list[j]) = k PROVE j = n
  <2>1. list[j].match = list[n].match
    BY <1>1, <1>3 DEF KeyOf
  <2>. QED
    BY <1>1, <2>1 DEF OneRulePerMatch
<1>4. Managed' \subseteq Managed \ {k}
  <2>. SUFFICES ASSUME NEW i \in DOMAIN list', list'[i].user # None PROVE KeyOf(list'[i]) \in Managed \ {k}
    BY DEF Managed
  <2>1. PICK j \in DOMAIN list : j # n /\ list'[i] = list[j]
    BY <1>2
  <2>. QED
    BY <1>3, <2>1 DEF Managed
<1>5. Managed \ {k} \subseteq Managed'
  <2>. SUFFICES ASSUME NEW j \in DOMAIN list, list[j].user # None, KeyOf(list[j]) # k
                PROVE  KeyOf(list[j]) \in Managed'
    BY DEF Managed
  <2>1. PICK i \in DOMAIN list' : list'[i] = list[j]
    BY <1>1, <1>2
  <2>. QED
    BY <2>1 DEF Managed
<1>6. ASSUME NEW j \in DOMAIN list, list[j].user = None
      PROVE  list[j] \in ToSet(list') /\ \E i \in DOMAIN list' : list'[i] = list[j]
  BY <1>1, <1>2, <1>6 DEF ToSet
<1>7. ASSUME NEW m, hostRuleFor(m) PROVE hostRuleFor(m)'
  <2>1. PICK j \in DOMAIN list : list[j] \in {HostRule(m, TRUE), HostRule(m, FALSE)}
    BY <1>7 DEF hostRuleFor
  <2>2. list[j].user = None
    BY <2>1 DEF HostRule
  <2>. QED
    BY <1>6, <2>1, <2>2 DEF hostRuleFor
<1>. QED
  BY <1>4, <1>5, <1>6, <1>7

\* The operator adds a rule for a match that has none, or deletes one.
LEMMA OperatorRules ==
    ASSUME Types, OneRulePerMatch, Operator
    PROVE  list' \in Seq(Rules) /\ OneRulePerMatch'
<1>1. DOMAIN list = 1..Len(list) /\ Len(list) \in Nat
  BY InList
<1>2. ASSUME NEW m \in Matches, NEW allow \in BOOLEAN, NEW at \in 1..(Len(list) + 1),
             \A n \in DOMAIN list : list[n].match # m, list' = InsertAt(list, at, HostRule(m, allow))
      PROVE  list' \in Seq(Rules) /\ OneRulePerMatch'
  <2>1. PICK e \in Rules : e = HostRule(m, allow) /\ e.match = m
    BY RuleFields
  <2>2. /\ list' \in Seq(Rules) /\ Len(list') = Len(list) + 1
        /\ \A i \in 1..(Len(list) + 1) :
             list'[i] = IF i < at THEN list[i] ELSE IF i = at THEN e ELSE list[i - 1]
    <3>1. list' = InsertAt(list, at, e) /\ list \in Seq(Rules)
      BY <1>2, <2>1 DEF Types
    <3>2. PICK s \in Seq(Rules) : s = list /\ at \in 1..(Len(s) + 1)
      BY <3>1
    <3>3. /\ InsertAt(s, at, e) \in Seq(Rules) /\ Len(InsertAt(s, at, e)) = Len(s) + 1
          /\ \A i \in 1..(Len(s) + 1) :
               InsertAt(s, at, e)[i] = IF i < at THEN s[i] ELSE IF i = at THEN e ELSE s[i - 1]
      BY ONLY <3>2, e \in Rules, InsertShape
    <3>. QED
      BY <3>1, <3>2, <3>3
  <2>3. DOMAIN list' = 1..(Len(list) + 1)
    BY <2>2
  <2>. DEFINE old(i) == IF i < at THEN i ELSE i - 1
  <2>4. ASSUME NEW i \in DOMAIN list'
        PROVE  IF i = at THEN list'[i].match = m
                         ELSE old(i) \in DOMAIN list /\ list'[i] = list[old(i)]
    BY <1>1, <2>1, <2>2, <2>3
  <2>5. ASSUME NEW i \in DOMAIN list', NEW h \in DOMAIN list', list'[i].match = list'[h].match
        PROVE  i = h
    <3>1. i = at <=> h = at
      BY <1>2, <2>4, <2>5
    <3>2. CASE i # at /\ h # at
      <4>1. old(i) = old(h)
        BY <2>4, <2>5, <3>2 DEF OneRulePerMatch
      <4>. QED
        BY <1>1, <2>3, <3>2, <4>1
    <3>. QED
      BY <3>1, <3>2
  <2>. QED
    BY <2>2, <2>5 DEF OneRulePerMatch
<1>3. ASSUME NEW n \in DOMAIN list, list' = RemoveAt(list, n)
      PROVE  list' \in Seq(Rules) /\ OneRulePerMatch'
  BY <1>3, RemovedRules
<1>. QED
  BY <1>2, <1>3 DEF Operator

-----------------------------------------------------------------------------
(* Passes *)

\* A pass stays one when a rule is done with, one way or the other.
LEMMA PassTypes ==
    /\ Idle \in Passes
    /\ \A adds \in SUBSET Keys, dels \in SUBSET Keys, all \in BOOLEAN, want \in SUBSET Keys :
         Pass(adds, dels, all, want) \in Passes
    /\ \A w \in Passes, k \in Keys :
         Added(w, k) \in Passes /\ NotAdded(w, k) \in Passes
         /\ Deleted(w, k) \in Passes /\ NotDeleted(w, k) \in Passes
<1>1. \A adds \in SUBSET Keys, dels \in SUBSET Keys, all \in BOOLEAN, want \in SUBSET Keys :
        Pass(adds, dels, all, want) \in Passes
  BY DEF Pass, Passes
<1>2. Idle \in Passes
  BY DEF Idle, Pass, Passes
<1>3. ASSUME NEW w \in Passes, NEW k \in Keys
      PROVE  Added(w, k) \in Passes /\ NotAdded(w, k) \in Passes
             /\ Deleted(w, k) \in Passes /\ NotDeleted(w, k) \in Passes
  BY DEF Added, NotAdded, Deleted, NotDeleted, Passes
<1>. QED
  BY <1>1, <1>2, <1>3

\* The fields of a pass after a rule is done with.
LEMMA PassFields ==
    ASSUME NEW w \in Passes, NEW k
    PROVE  /\ LET v == Added(w, k)
              IN  /\ v.adds = {a \in w.adds : a # k /\ (w.all => a.match # k.match)} /\ v.dels = w.dels
                  /\ v.call = None /\ v.all = w.all /\ v.want = w.want /\ v.alone = w.alone /\ v.ok = w.ok
           /\ LET v == Deleted(w, k)
              IN  /\ v.adds = w.adds /\ v.dels = w.dels \ {k}
                  /\ v.call = None /\ v.all = w.all /\ v.want = w.want /\ v.alone = w.alone /\ v.ok = w.ok
           /\ NotAdded(w, k).ok = FALSE /\ NotAdded(w, k).call = None
           /\ NotDeleted(w, k).ok = FALSE /\ NotDeleted(w, k).call = None
BY DEF Added, NotAdded, Deleted, NotDeleted, Passes

\* An idle process has nothing left to do.
LEMMA IdleFields == /\ Idle.adds = {} /\ Idle.dels = {} /\ Idle.all = FALSE /\ Idle.call = None
BY DEF Idle, Pass

\* A step that leaves the list alone keeps what a pass relies on.
LEMMA SameList ==
    ASSUME list' = list, NEW w
    PROVE  (CallOk(w) => CallOk(w)') /\ (PlanOk(w) => PlanOk(w)')
BY DEF CallOk, PlanOk, Decided, hostRuleFor, Numbers, Managed

\* A match that the host decides needs no rule of ours.
LEMMA AddSkipped ==
    ASSUME NEW w \in Passes, PlanOk(w), NEW k \in w.adds, hostRuleFor(k.match)
    PROVE  PlanOk(Added(w, k))
<1>1. PICK v : v = Added(w, k)
  OBVIOUS
<1>2. /\ v.adds = {a \in w.adds : a # k /\ (w.all => a.match # k.match)} /\ v.dels = w.dels
      /\ v.all = w.all /\ v.want = w.want /\ v.alone = w.alone /\ v.ok = w.ok
  BY <1>1, PassFields
<1>. SUFFICES ASSUME w.all, w.alone, w.ok PROVE PlanOk(v)
  BY <1>1, <1>2 DEF PlanOk
<1>3. ASSUME NEW j \in w.want PROVE Decided(v, j) \/ \E a \in v.adds : a.match = j.match
  <2>1. CASE j.match = k.match
    BY <2>1 DEF Decided
  <2>2. CASE j.match # k.match
    BY <1>2, <2>2 DEF Decided, PlanOk
  <2>. QED
    BY <2>1, <2>2
<1>. QED
  BY <1>2, <1>3 DEF PlanOk

\* A rule that is gone already needs no deletion.
LEMMA DeleteSkipped ==
    ASSUME NEW w \in Passes, PlanOk(w), NEW k, Numbers(k) = {}
    PROVE  PlanOk(Deleted(w, k))
<1>1. PICK v : v = Deleted(w, k)
  OBVIOUS
<1>2. /\ v.adds = w.adds /\ v.dels = w.dels \ {k}
      /\ v.all = w.all /\ v.want = w.want /\ v.alone = w.alone /\ v.ok = w.ok
  BY <1>1, PassFields
<1>3. k \notin Managed
  BY DEF Managed, Numbers
<1>4. w.all /\ w.alone /\ w.ok => \A j \in w.want : Decided(v, j) \/ \E a \in v.adds : a.match = j.match
  BY <1>2 DEF Decided, PlanOk
<1>5. PlanOk(v)
  BY <1>2, <1>3, <1>4 DEF PlanOk
<1>. QED
  BY <1>1, <1>5

\* An add settles its match, and takes no rule that decides another one.
LEMMA AddDone ==
    ASSUME Types, OneRulePerMatch, NEW w \in Passes, PlanOk(w), NEW k \in w.adds, list' = Allowed(k)
    PROVE  PlanOk(Added(w, k))'
<1>1. PICK v : v = Added(w, k)
  OBVIOUS
<1>2. /\ v.adds = {a \in w.adds : a # k /\ (w.all => a.match # k.match)} /\ v.dels = w.dels
      /\ v.all = w.all /\ v.want = w.want /\ v.alone = w.alone /\ v.ok = w.ok
  BY <1>1, PassFields
<1>3. k \in Keys
  BY DEF Passes
<1>4. /\ k \in Managed' /\ Managed' \subseteq Managed \cup {k}
      /\ \A j \in Managed : j.match # k.match => j \in Managed'
      /\ \A m : hostRuleFor(m) /\ m # k.match => hostRuleFor(m)'
  BY <1>3, AllowedKeys
<1>5. PlanOk(v)'
  <2>. SUFFICES ASSUME w.all, w.alone, w.ok PROVE PlanOk(v)'
    BY <1>2 DEF PlanOk
  <2>1. k \in w.want
    BY DEF PlanOk
  <2>2. ASSUME NEW j \in w.want PROVE Decided(v, j)' \/ \E a \in v.adds : a.match = j.match
    <3>1. CASE j.match = k.match
      BY <1>2, <1>4, <2>1, <3>1 DEF Decided, MatchesOf
    <3>2. CASE j.match # k.match
      <4>1. CASE \E a \in w.adds : a.match = j.match
        BY <1>2, <3>2, <4>1
      <4>2. CASE j.match \in MatchesOf(w.want \cap Managed)
        <5>1. PICK i \in w.want \cap Managed : j.match = i.match
          BY <4>2 DEF MatchesOf
        <5>2. i \in Managed'
          BY <1>4, <3>2, <5>1
        <5>. QED
          BY <1>2, <5>1, <5>2 DEF Decided, MatchesOf
      <4>3. CASE hostRuleFor(j.match)
        <5>1. hostRuleFor(j.match)'
          BY <1>4, <3>2, <4>3
        <5>. QED
          BY <5>1 DEF Decided
      <4>. QED
        BY <4>1, <4>2, <4>3 DEF PlanOk, Decided
    <3>. QED
      BY <3>1, <3>2
  <2>3. Managed' \subseteq v.want \cup v.dels
    BY <1>2, <1>4, <2>1 DEF PlanOk
  <2>. QED
    BY <1>2, <2>2, <2>3 DEF PlanOk
<1>. QED
  BY <1>1, <1>5

\* A deletion takes away a rule that is not wanted, and no other.
LEMMA DeleteDone ==
    ASSUME Types, OneRulePerMatch, NEW w \in Passes, PlanOk(w), NEW k \in w.dels,
           NEW n \in Nat, w.alone => n \in Numbers(k), list' = RemoveAt(list, n)
    PROVE  PlanOk(Deleted(w, k))'
<1>1. PICK v : v = Deleted(w, k)
  OBVIOUS
<1>2. /\ v.adds = w.adds /\ v.dels = w.dels \ {k}
      /\ v.all = w.all /\ v.want = w.want /\ v.alone = w.alone /\ v.ok = w.ok
  BY <1>1, PassFields
<1>3. PlanOk(v)'
  <2>. SUFFICES ASSUME w.all, w.alone, w.ok PROVE PlanOk(v)'
    BY <1>2 DEF PlanOk
  <2>1. k \in Keys /\ k \notin w.want
    BY DEF PlanOk, Passes
  <2>2. Managed' = Managed \ {k} /\ \A m : hostRuleFor(m) => hostRuleFor(m)'
    BY <2>1, RemovedKeys
  <2>3. ASSUME NEW j \in w.want PROVE Decided(v, j)' \/ \E a \in v.adds : a.match = j.match
    <3>1. CASE \E a \in w.adds : a.match = j.match
      BY <1>2, <3>1
    <3>2. CASE j.match \in MatchesOf(w.want \cap Managed)
      BY <1>2, <2>1, <2>2, <3>2 DEF Decided, MatchesOf
    <3>3. CASE hostRuleFor(j.match)
      <4>1. hostRuleFor(j.match)'
        BY <2>2, <3>3
      <4>. QED
        BY <4>1 DEF Decided
    <3>. QED
      BY <3>1, <3>2, <3>3 DEF PlanOk, Decided
  <2>. QED
    BY <1>2, <2>2, <2>3 DEF PlanOk
<1>. QED
  BY <1>1, <1>3

-----------------------------------------------------------------------------
(* Steps *)

\* The invariant of a process, from that of the value its pass takes.
LEMMA NewWork ==
    ASSUME NEW p, NEW v, work'[p] = v, v.call # None => lock' = p, CallOk(v)', PlanOk(v)'
    PROVE  Held(p)' /\ CallOk(work[p])' /\ PlanOk(work[p])'
<1>1. Held(p)'
  BY DEF Held
<1>2. CallOk(work[p])'
  BY DEF CallOk
<1>3. PlanOk(work[p])'
  BY DEF PlanOk, Decided
<1>. QED
  BY <1>1, <1>2, <1>3

\* What is left of a pass, or none.
LEMMA RestOf ==
    ASSUME Types, NEW p \in Procs, NEW v \in Passes
    PROVE  \E u \in {v, Idle} : /\ u = Idle => v.call = None
                                /\ u = Idle => v.adds = {} /\ v.dels = {}
                                /\ Rest(p, v) = [work EXCEPT ![p] = u]
BY IdleFields DEF Rest

\* Nothing is asked of a process that is idle.
LEMMA IdleOk == CallOk(Idle)' /\ PlanOk(Idle)'
BY IdleFields DEF CallOk, PlanOk

\* One process goes on, and the list stays.
LEMMA Alone ==
    ASSUME UfwInv, NEW p \in Procs, NEW v \in Passes, work' = [work EXCEPT ![p] = v],
           list' = list, desired' \in SUBSET Keys, events' \in Nat,
           v.call # None => lock' = p, CallOk(v), PlanOk(v),
           \A q \in Procs : q # p /\ lock = q => lock' = q
    PROVE  UfwInv'
<1>1. Types'
  BY DEF UfwInv, Types
<1>2. OneRulePerMatch'
  BY DEF UfwInv, OneRulePerMatch
<1>3. ASSUME NEW q \in Procs PROVE Held(q)' /\ CallOk(work[q])' /\ PlanOk(work[q])'
  <2>1. PICK u : u = work'[q]
    OBVIOUS
  <2>2. CallOk(u) /\ PlanOk(u) /\ (u.call # None => lock' = q)
    <3>1. CASE q = p
      <4>1. u = v
        BY <2>1, <3>1 DEF UfwInv, Types
      <4>. QED
        BY <3>1, <4>1
    <3>2. CASE q # p
      <4>1. u = work[q]
        BY <2>1, <3>2 DEF UfwInv, Types
      <4>2. Held(q) /\ CallOk(work[q]) /\ PlanOk(work[q])
        BY DEF UfwInv
      <4>3. CallOk(u)
        BY <4>1, <4>2
      <4>4. PlanOk(u)
        BY <4>1, <4>2
      <4>. QED
        BY <3>2, <4>1, <4>2, <4>3, <4>4 DEF Held
    <3>. QED
      BY <3>1, <3>2
  <2>3. CallOk(u)' /\ PlanOk(u)'
    BY <2>2, SameList
  <2>. QED
    BY <2>1, <2>2, <2>3, NewWork
<1>. QED
  BY <1>1, <1>2, <1>3 DEF UfwInv

\* A process that ends a call without touching the list.
LEMMA AloneRest ==
    ASSUME UfwInv, NEW p \in Procs, NEW v \in Passes, work' = Rest(p, v),
           list' = list, desired' = desired, events' \in Nat, v.call = None, PlanOk(v),
           \A q \in Procs : q # p /\ lock = q => lock' = q
    PROVE  UfwInv'
<1>1. PICK u \in {v, Idle} : Rest(p, v) = [work EXCEPT ![p] = u]
  BY RestOf DEF UfwInv
<1>2. u \in Passes /\ u.call = None
  BY PassTypes, IdleFields
<1>3. CallOk(u) /\ PlanOk(u)
  <2>1. CallOk(u)
    BY <1>2 DEF CallOk
  <2>2. PlanOk(Idle)
    BY IdleFields DEF PlanOk
  <2>. QED
    BY <2>1, <2>2
<1>4. work' = [work EXCEPT ![p] = u] /\ desired' \in SUBSET Keys
  BY <1>1 DEF UfwInv, Types
<1>. QED
  BY <1>2, <1>3, <1>4, Alone

\* A process in a call changes the list: nobody else is in one, and the passes
\* of the others are no longer alone.
LEMMA Shared ==
    ASSUME UfwInv, NEW p \in Procs, NEW v \in Passes, work' = Seen(p, Rest(p, v)),
           work[p].call # None, list' \in Seq(Rules), OneRulePerMatch', desired' = desired,
           events' \in Nat, v.call = None, PlanOk(v)'
    PROVE  UfwInv'
<1>1. PICK u \in {v, Idle} : Rest(p, v) = [work EXCEPT ![p] = u]
  BY RestOf DEF UfwInv
<1>2. u \in Passes /\ u.call = None
  BY PassTypes, IdleFields
<1>3. work \in [Procs -> Passes]
  BY DEF UfwInv, Types
<1>4. DOMAIN work' = Procs /\ work' = [q \in Procs |-> work'[q]]
  BY DEF Seen
<1>5. ASSUME NEW q \in Procs
      PROVE  \E w \in Passes : w = work'[q] /\ w.call = None /\ CallOk(w)' /\ PlanOk(w)'
  <2>1. PICK w : w = work'[q]
    OBVIOUS
  <2>2. CASE q = p
    <3>1. w = u
      BY <1>1, <1>3, <2>1, <2>2 DEF Seen
    <3>2. PlanOk(w)'
      BY <3>1, IdleOk
    <3>3. CallOk(w)'
      BY <1>2, <3>1 DEF CallOk
    <3>. QED
      BY <1>2, <2>1, <3>1, <3>2, <3>3
  <2>3. CASE q # p
    <3>1. work[q].call = None
      BY <2>3 DEF UfwInv, Held
    <3>2. w \in {Idle, [work[q] EXCEPT !.alone = FALSE]}
      BY <1>1, <1>3, <2>1, <2>3 DEF Seen
    <3>3. CASE w = Idle
      <4>1. PlanOk(w)' /\ CallOk(w)'
        BY <3>3, IdleOk
      <4>. QED
        BY <2>1, <3>3, <4>1, PassTypes, IdleFields
    <3>4. CASE w = [work[q] EXCEPT !.alone = FALSE]
      <4>1. w \in Passes /\ w.call = None /\ w.alone = FALSE
        BY <1>3, <3>1, <3>4 DEF Passes
      <4>2. CallOk(w)' /\ PlanOk(w)'
        BY <4>1 DEF CallOk, PlanOk
      <4>. QED
        BY <2>1, <4>1, <4>2
    <3>. QED
      BY <3>2, <3>3, <3>4
  <2>. QED
    BY <2>2, <2>3
<1>6. work' \in [Procs -> Passes]
  BY <1>4, <1>5
<1>7. Types'
  BY <1>6 DEF UfwInv, Types
<1>8. ASSUME NEW q \in Procs PROVE Held(q)' /\ CallOk(work[q])' /\ PlanOk(work[q])'
  <2>1. PICK w \in Passes : w = work'[q] /\ w.call = None /\ CallOk(w)' /\ PlanOk(w)'
    BY <1>5
  <2>. QED
    BY <2>1, NewWork
<1>. QED
  BY <1>7, <1>8 DEF UfwInv

-----------------------------------------------------------------------------
(* Every step keeps the invariant *)

\* A pass begins: its plan is what one listing shows.
LEMMA BeginInv ==
    ASSUME UfwInv, NEW p \in Procs, NEW adds \in SUBSET Keys, NEW dels \in SUBSET Keys,
           NEW all \in BOOLEAN, NEW want \in SUBSET Keys,
           Begin(p, adds, dels, all, want), events' \in Nat, PlanOk(Pass(adds, dels, all, want))
    PROVE  UfwInv'
<1>1. PICK v \in Passes : v = Pass(adds, dels, all, want)
  BY PassTypes
<1>2. v.call = None
  BY <1>1 DEF Pass
<1>3. CallOk(v) /\ PlanOk(v)
  BY <1>1, <1>2 DEF CallOk
<1>4. /\ work' = [work EXCEPT ![p] = v] /\ list' = list /\ lock' = lock /\ desired' \in SUBSET Keys
  BY <1>1 DEF Begin, UfwInv, Types
<1>. QED
  BY <1>2, <1>3, <1>4, Alone

\* Whatever the listing shows, adds and deletions cover the difference.
LEMMA ReconcilePlan ==
    ASSUME Types, NEW want \in SUBSET Keys
    PROVE  /\ Missing(want) \in SUBSET Keys /\ Managed \ want \in SUBSET Keys
           /\ PlanOk(Pass(Missing(want), Managed \ want, TRUE, want))
<1>1. PICK v : v = Pass(Missing(want), Managed \ want, TRUE, want)
  OBVIOUS
<1>2. v.adds = Missing(want) /\ v.dels = Managed \ want /\ v.want = want
  BY <1>1 DEF Pass
<1>3. ASSUME NEW k \in want PROVE Decided(v, k) \/ \E a \in v.adds : a.match = k.match
  <2>1. CASE k \in Managed
    BY <1>2, <2>1 DEF Decided, MatchesOf
  <2>2. CASE k.match \in MatchesOf(want \cap Managed)
    BY <1>2, <2>2 DEF Decided
  <2>3. CASE k \notin Managed /\ k.match \notin MatchesOf(want \cap Managed)
    BY <1>2, <2>3 DEF Missing
  <2>. QED
    BY <2>1, <2>2, <2>3
<1>4. PlanOk(v)
  BY <1>2, <1>3 DEF PlanOk, Missing
<1>. QED
  BY <1>1, <1>4, InList DEF Missing

\* An event is counted.
LEMMA EventNat == ASSUME Types, Event PROVE events' \in Nat /\ events' # events
BY DEF Types, Event

\* Every kind of pass begins so.
LEMMA StartInv ==
    ASSUME UfwInv, Start
    PROVE  UfwInv'
<1>0. Types /\ desired \in SUBSET Keys /\ Managed \subseteq Keys /\ events \in Nat
  BY InList DEF UfwInv, Types
<1>s. Server \in Procs
  BY DEF Procs
<1>a. \A adds, dels : PlanOk(Pass(adds, dels, FALSE, {}))
  BY DEF PlanOk, Pass
<1>b. ASSUME NEW p \in Procs, NEW adds \in SUBSET Keys, NEW dels \in SUBSET Keys, Event,
             Begin(p, adds, dels, FALSE, {})
      PROVE  UfwInv'
  <2>1. events' \in Nat
    BY <1>0, <1>b, EventNat
  <2>2. PICK all \in BOOLEAN, want \in SUBSET Keys : all = FALSE /\ want = {}
    OBVIOUS
  <2>3. PlanOk(Pass(adds, dels, all, want)) /\ Begin(p, adds, dels, all, want)
    BY <1>a, <1>b, <2>2
  <2>. QED
    BY <2>1, <2>3, BeginInv
<1>1. CASE ReconcileAll
  <2>1. PICK want \in SUBSET Keys : want = desired
    BY <1>0
  <2>2. PICK adds, dels : adds = Missing(want) /\ dels = Managed \ want
    OBVIOUS
  <2>3. adds \in SUBSET Keys /\ dels \in SUBSET Keys /\ PlanOk(Pass(adds, dels, TRUE, want))
    BY <1>0, <2>2, ReconcilePlan
  <2>4. Begin(Server, adds, dels, TRUE, want) /\ events' \in Nat
    BY <1>0, <1>1, <2>1, <2>2 DEF ReconcileAll
  <2>. QED
    BY <1>s, <2>3, <2>4, BeginInv
<1>2. ASSUME NEW u \in Users, Reconcile(u) PROVE UfwInv'
  <2>1. PICK adds, dels : /\ adds = {k \in desired : k.user = u} \ {k \in Managed : k.user = u}
                          /\ dels = {k \in Managed : k.user = u} \ {k \in desired : k.user = u}
    OBVIOUS
  <2>2. adds \in SUBSET Keys /\ dels \in SUBSET Keys
    BY <1>0, <2>1
  <2>3. Event /\ Begin(Server, adds, dels, FALSE, {})
    BY <1>2, <2>1 DEF Reconcile
  <2>. QED
    BY <1>s, <1>b, <2>2, <2>3
<1>3. ASSUME NEW p \in Procs, NEW u \in Users, RemoveUserRules(p, u) PROVE UfwInv'
  <2>1. PICK dels : dels = {k \in Managed : k.user = u}
    OBVIOUS
  <2>2. dels \in SUBSET Keys
    BY <1>0, <2>1
  <2>3. Event /\ Begin(p, {}, dels, FALSE, {})
    BY <1>3, <2>1 DEF RemoveUserRules
  <2>. QED
    BY <1>b, <2>2, <2>3
<1>4. ASSUME NEW p \in Procs, NEW k \in Keys, AddOne(p, k) \/ RemoveOne(p, k) PROVE UfwInv'
  <2>1. PICK none \in SUBSET Keys, one \in SUBSET Keys : none = {} /\ one = {k}
    OBVIOUS
  <2>2. Event /\ (Begin(p, one, none, FALSE, {}) \/ Begin(p, none, one, FALSE, {}))
    BY <1>4, <2>1 DEF AddOne, RemoveOne
  <2>. QED
    BY <1>b, <2>2
<1>. QED
  BY <1>1, <1>2, <1>3, <1>4 DEF Start

\* A call takes the lock, and with it the number it looked up.
LEMMA CallingInv ==
    ASSUME UfwInv, NEW p \in Procs, NEW op \in {"allow", "delete"}, NEW k \in Keys, NEW num \in Nat,
           Calling(p, op, k, num),
           op = "allow" => k \in work[p].adds /\ ~hostRuleFor(k.match),
           op = "delete" => k \in NextDel(p) /\ num \in Numbers(k)
    PROVE  UfwInv'
<1>1. PICK w \in Passes : w = work[p] /\ PlanOk(w)
  BY DEF UfwInv, Types
<1>2. PICK v : v = [w EXCEPT !.call = [op |-> op, key |-> k, num |-> num, edited |-> FALSE]]
  OBVIOUS
<1>3. /\ v \in Passes /\ v.adds = w.adds /\ v.dels = w.dels /\ v.all = w.all /\ v.want = w.want
      /\ v.alone = w.alone /\ v.ok = w.ok
      /\ v.call.op = op /\ v.call.key = k /\ v.call.num = num /\ v.call.edited = FALSE
  BY <1>2 DEF Passes, Calls
<1>4. PlanOk(v)
  BY <1>1, <1>3 DEF PlanOk, Decided
<1>5. CallOk(v)
  BY <1>1, <1>3 DEF CallOk, NextDel
<1>6. /\ work' = [work EXCEPT ![p] = v] /\ list' = list /\ lock' = p /\ lock = None
      /\ desired' \in SUBSET Keys /\ events' \in Nat
  BY <1>1, <1>2 DEF Calling, LockFree, UfwInv, Types
<1>7. \A q \in Procs : lock # q
  BY <1>6, UfwAssumption DEF Procs
<1>. QED
  BY <1>3, <1>4, <1>5, <1>6, <1>7, Alone

\* A step of an undisturbed pass: its plan afterwards, which is empty when the
\* process goes idle.
Went(p) ==
    work[p].alone => \E v \in Passes :
      /\ PlanOk(v)' /\ v.all = work[p].all /\ v.want = work[p].want
      /\ v.alone = work[p].alone /\ v.ok = work[p].ok
      /\ work'[p] = Idle => v.adds = {} /\ v.dels = {}

\* A pass that ended had nothing left to do.
LEMMA RestEnds ==
    ASSUME Types, NEW p \in Procs, NEW v \in Passes, work' \in {Rest(p, v), Seen(p, Rest(p, v))}
    PROVE  work'[p] = Idle => v.adds = {} /\ v.dels = {}
<1>1. PICK u \in {v, Idle} : /\ u = Idle => v.adds = {} /\ v.dels = {}
                             /\ Rest(p, v) = [work EXCEPT ![p] = u]
  BY RestOf
<1>2. Rest(p, v)[p] = u
  BY <1>1 DEF Types
<1>3. Seen(p, Rest(p, v))[p] = u
  BY <1>2 DEF Seen
<1>. QED
  BY <1>1, <1>2, <1>3

\* AddRule, up to the command.
LEMMA AddRuleInv ==
    ASSUME UfwInv, NEW p \in Procs, NEW k \in Keys, AddRule(p, k)
    PROVE  UfwInv' /\ Went(p)
<1>1. PICK w \in Passes : w = work[p] /\ PlanOk(w)
  BY DEF UfwInv, Types
<1>2. k \in w.adds
  BY <1>1 DEF AddRule
<1>3. CASE hostRuleFor(k.match)
  <2>1. PICK v \in Passes : v = Added(w, k)
    BY PassTypes
  <2>2. PlanOk(v)
    BY <1>1, <1>2, <1>3, <2>1, AddSkipped
  <2>3. v.call = None /\ v.all = w.all /\ v.want = w.want /\ v.alone = w.alone /\ v.ok = w.ok
    BY <2>1, PassFields
  <2>4. /\ work' = Rest(p, v) /\ list' = list /\ lock' = lock /\ desired' = desired /\ events' \in Nat
    BY <1>1, <1>3, <2>1 DEF AddRule, UfwInv, Types
  <2>5. UfwInv'
    BY <2>2, <2>3, <2>4, AloneRest
  <2>6. PlanOk(v)'
    BY <2>2, <2>4, SameList
  <2>7. work'[p] = Idle => v.adds = {} /\ v.dels = {}
    BY <2>4, RestEnds DEF UfwInv
  <2>. QED
    BY <1>1, <2>3, <2>5, <2>6, <2>7 DEF Went
<1>4. CASE ~hostRuleFor(k.match)
  <2>1. PICK op \in {"allow", "delete"}, num \in Nat : op = "allow" /\ num = 0
    OBVIOUS
  <2>2. Calling(p, op, k, num)
    BY <1>4, <2>1 DEF AddRule
  <2>3. UfwInv'
    BY <1>1, <1>2, <1>4, <2>1, <2>2, CallingInv
  <2>4. work'[p].adds = w.adds /\ list' = list
    BY <1>1, <2>2 DEF Calling, UfwInv, Types, Passes
  <2>5. PlanOk(w)'
    BY <1>1, <2>4, SameList
  <2>6. work'[p] # Idle
    BY <1>2, <2>4, IdleFields
  <2>. QED
    BY <1>1, <2>3, <2>5, <2>6 DEF Went
<1>. QED
  BY <1>3, <1>4

\* DeleteByHandle, up to the command.
LEMMA DeleteByHandleInv ==
    ASSUME UfwInv, NEW p \in Procs, NEW k \in Keys, DeleteByHandle(p, k)
    PROVE  UfwInv' /\ Went(p)
<1>1. PICK w \in Passes : w = work[p] /\ PlanOk(w)
  BY DEF UfwInv, Types
<1>2. k \in NextDel(p) /\ k \in w.dels
  BY <1>1 DEF DeleteByHandle, NextDel
<1>3. CASE /\ Numbers(k) = {} /\ work' = Rest(p, Deleted(work[p], k))
           /\ UNCHANGED <<list, active, lock, desired, events>>
  <2>1. PICK v \in Passes : v = Deleted(w, k)
    BY PassTypes
  <2>2. PlanOk(v)
    BY <1>1, <1>3, <2>1, DeleteSkipped
  <2>3. v.call = None /\ v.all = w.all /\ v.want = w.want /\ v.alone = w.alone /\ v.ok = w.ok
    BY <2>1, PassFields
  <2>4. /\ work' = Rest(p, v) /\ list' = list /\ lock' = lock /\ desired' = desired /\ events' \in Nat
    BY <1>1, <1>3, <2>1 DEF UfwInv, Types
  <2>5. UfwInv'
    BY <2>2, <2>3, <2>4, AloneRest
  <2>6. PlanOk(v)'
    BY <2>2, <2>4, SameList
  <2>7. work'[p] = Idle => v.adds = {} /\ v.dels = {}
    BY <2>4, RestEnds DEF UfwInv
  <2>. QED
    BY <1>1, <2>3, <2>5, <2>6, <2>7 DEF Went
<1>4. ASSUME NEW n \in Numbers(k), Calling(p, "delete", k, n) PROVE UfwInv' /\ Went(p)
  <2>1. PICK op \in {"allow", "delete"} : op = "delete"
    OBVIOUS
  <2>2. n \in Nat /\ Calling(p, op, k, n)
    BY <1>4, <2>1 DEF Numbers, UfwInv, Types
  <2>3. UfwInv'
    BY <1>2, <2>1, <2>2, CallingInv
  <2>4. work'[p].dels = w.dels /\ list' = list
    BY <1>1, <2>2 DEF Calling, UfwInv, Types, Passes
  <2>5. PlanOk(w)'
    BY <1>1, <2>4, SameList
  <2>6. work'[p] # Idle
    BY <1>2, <2>4, IdleFields
  <2>. QED
    BY <1>1, <2>3, <2>5, <2>6 DEF Went
<1>. QED
  BY <1>3, <1>4 DEF DeleteByHandle

\* A disabled ufw and a failed command: the pass is no longer ok.
LEMMA NotOk ==
    ASSUME NEW w \in Passes, NEW k \in Keys, NEW v \in {NotAdded(w, k), NotDeleted(w, k)}
    PROVE  v \in Passes /\ v.call = None /\ PlanOk(v) /\ PlanOk(v)'
<1>1. v \in Passes /\ v.call = None /\ v.ok = FALSE
  <2>1. NotAdded(w, k).ok = FALSE /\ NotAdded(w, k).call = None /\ NotAdded(w, k) \in Passes
    BY PassTypes, PassFields
  <2>2. NotDeleted(w, k).ok = FALSE /\ NotDeleted(w, k).call = None /\ NotDeleted(w, k) \in Passes
    BY PassTypes, PassFields
  <2>. QED
    BY <2>1, <2>2
<1>. QED
  BY <1>1 DEF PlanOk

\* ErrInactive changes no rule.
LEMMA InactiveInv ==
    ASSUME UfwInv, NEW p \in Procs, Inactive(p)
    PROVE  UfwInv'
<1>1. PICK w \in Passes : w = work[p]
  BY DEF UfwInv, Types
<1>2. PICK k \in Keys : \E v \in {NotAdded(w, k), NotDeleted(w, k)} : work' = Rest(p, v)
  BY <1>1 DEF Inactive, NextDel, Passes
<1>3. PICK v \in {NotAdded(w, k), NotDeleted(w, k)} : work' = Rest(p, v)
  BY <1>2
<1>4. v \in Passes /\ v.call = None /\ PlanOk(v)
  BY NotOk
<1>5. list' = list /\ lock' = lock /\ desired' = desired /\ events' \in Nat
  BY DEF Inactive, UfwInv, Types
<1>. QED
  BY <1>3, <1>4, <1>5, AloneRest

\* A call in progress: what it works on, and what its command would do.
LEMMA InCall ==
    ASSUME UfwInv, NEW p \in Procs, work[p].call # None
    PROVE  \E w \in Passes, c \in Calls :
             /\ w = work[p] /\ c = w.call /\ PlanOk(w)
             /\ c.op = "allow" => c.key \in w.adds /\ (~c.edited => ~hostRuleFor(c.key.match))
             /\ c.op = "delete" => /\ w.adds = {} /\ c.key \in w.dels
                                   /\ ~c.edited => c.num \in Numbers(c.key)
             /\ w.alone => ~c.edited
<1>1. PICK w \in Passes : w = work[p] /\ PlanOk(w) /\ CallOk(w)
  BY DEF UfwInv, Types
<1>2. PICK c \in Calls : c = w.call
  BY <1>1 DEF Passes
<1>. QED
  BY <1>1, <1>2 DEF CallOk

\* The command of an add.
LEMMA RunAllowInv ==
    ASSUME UfwInv, NEW p \in Procs, RunAllow(p)
    PROVE  UfwInv' /\ Went(p)
<1>1. work[p].call # None
  BY DEF RunAllow
<1>2. PICK w \in Passes, c \in Calls :
        w = work[p] /\ c = w.call /\ PlanOk(w) /\ (c.op = "allow" => c.key \in w.adds)
  BY <1>1, InCall
<1>3. PICK k \in Keys : k = c.key
  BY DEF Calls
<1>4. k \in w.adds /\ list' = Allowed(k) /\ work' = Seen(p, Rest(p, Added(w, k)))
      /\ desired' = desired /\ events' \in Nat
  BY <1>2, <1>3 DEF RunAllow, UfwInv, Types
<1>5. PICK v \in Passes : v = Added(w, k)
  BY PassTypes
<1>6. v.call = None /\ v.all = w.all /\ v.want = w.want /\ v.alone = w.alone /\ v.ok = w.ok
  BY <1>5, PassFields
<1>7. Types /\ OneRulePerMatch
  BY DEF UfwInv
<1>8. PlanOk(v)'
  <2>1. PlanOk(Added(w, k))'
    BY <1>2, <1>4, <1>7, AddDone
  <2>. QED
    BY <2>1, <1>5
<1>9. list' \in Seq(Rules) /\ OneRulePerMatch'
  BY <1>4, <1>7, AllowedRules
<1>10. work' = Seen(p, Rest(p, v))
  BY <1>4, <1>5
<1>11. UfwInv'
  BY <1>1, <1>4, <1>6, <1>8, <1>9, <1>10, Shared
<1>12. work'[p] = Idle => v.adds = {} /\ v.dels = {}
  BY <1>7, <1>10, RestEnds
<1>. QED
  BY <1>2, <1>6, <1>8, <1>11, <1>12 DEF Went

\* The command of a deletion: an undisturbed one finds its rule at its number.
LEMMA RunDeleteInv ==
    ASSUME UfwInv, NEW p \in Procs, RunDelete(p)
    PROVE  UfwInv' /\ Went(p)
<1>1. work[p].call # None
  BY DEF RunDelete
<1>2. PICK w \in Passes, c \in Calls :
        /\ w = work[p] /\ c = w.call /\ PlanOk(w)
        /\ c.op = "delete" => c.key \in w.dels /\ (~c.edited => c.num \in Numbers(c.key))
        /\ w.alone => ~c.edited
  BY <1>1, InCall
<1>3. PICK k \in Keys, n \in Nat : k = c.key /\ n = c.num
  BY DEF Calls
<1>4. /\ k \in w.dels /\ (w.alone => n \in Numbers(k)) /\ desired' = desired /\ events' \in Nat
      /\ lock' = None
  BY <1>2, <1>3 DEF RunDelete, UfwInv, Types
<1>5. Types /\ OneRulePerMatch
  BY DEF UfwInv
<1>6. CASE n \in DOMAIN list
  <2>1. list' = RemoveAt(list, n) /\ work' = Seen(p, Rest(p, Deleted(w, k)))
    BY <1>2, <1>3, <1>6 DEF RunDelete
  <2>2. PICK v \in Passes : v = Deleted(w, k)
    BY PassTypes
  <2>3. v.call = None /\ v.all = w.all /\ v.want = w.want /\ v.alone = w.alone /\ v.ok = w.ok
    BY <2>2, PassFields
  <2>4. PlanOk(v)'
    <3>1. PlanOk(Deleted(w, k))'
      BY <1>2, <1>4, <1>5, <2>1, DeleteDone
    <3>. QED
      BY <3>1, <2>2
  <2>5. list' \in Seq(Rules) /\ OneRulePerMatch'
    BY <1>5, <1>6, <2>1, RemovedRules
  <2>6. work' = Seen(p, Rest(p, v))
    BY <2>1, <2>2
  <2>7. UfwInv'
    BY <1>1, <1>4, <2>3, <2>4, <2>5, <2>6, Shared
  <2>8. work'[p] = Idle => v.adds = {} /\ v.dels = {}
    BY <1>5, <2>6, RestEnds
  <2>. QED
    BY <1>2, <2>3, <2>4, <2>7, <2>8 DEF Went
<1>7. CASE n \notin DOMAIN list
  <2>1. ~w.alone
    BY <1>4, <1>7 DEF Numbers
  <2>2. list' = list /\ work' = Rest(p, NotDeleted(w, k))
    BY <1>2, <1>3, <1>7 DEF RunDelete
  <2>3. PICK v \in {NotAdded(w, k), NotDeleted(w, k)} : v = NotDeleted(w, k)
    OBVIOUS
  <2>4. v \in Passes /\ v.call = None /\ PlanOk(v)
    BY NotOk
  <2>5. work' = Rest(p, v)
    BY <2>2, <2>3
  <2>6. \A q \in Procs : q # p => lock # q
    BY <1>1, UfwAssumption DEF UfwInv, Held, Procs
  <2>7. UfwInv'
    BY <1>4, <2>2, <2>4, <2>5, <2>6, AloneRest
  <2>. QED
    BY <1>2, <2>1, <2>7 DEF Went
<1>. QED
  BY <1>6, <1>7

\* A command that fails, whether or not it was carried out.
LEMMA RunFailsInv ==
    ASSUME UfwInv, NEW p \in Procs, RunFails(p)
    PROVE  UfwInv'
<1>1. work[p].call # None /\ Types /\ OneRulePerMatch
  BY DEF RunFails, UfwInv
<1>2. PICK w \in Passes, c \in Calls : w = work[p] /\ c = w.call
  BY <1>1, InCall
<1>3. PICK k \in Keys, n \in Nat : k = c.key /\ n = c.num
  BY DEF Calls
<1>4. PICK v \in {NotAdded(w, k), NotDeleted(w, k)} : Failed(p) = Rest(p, v)
  BY <1>2, <1>3 DEF Failed
<1>5. v \in Passes /\ v.call = None /\ PlanOk(v) /\ PlanOk(v)'
  BY NotOk
<1>6. events' \in Nat /\ desired' = desired /\ lock' = None
  BY <1>1, EventNat DEF RunFails
<1>7. CASE work' = Failed(p) /\ list' = list
  <2>1. \A q \in Procs : q # p => lock # q
    BY <1>1, UfwAssumption DEF UfwInv, Held, Procs
  <2>2. work' = Rest(p, v) /\ list' = list
    BY <1>4, <1>7
  <2>. QED
    BY <1>5, <1>6, <2>1, <2>2, AloneRest
<1>8. CASE work' = Seen(p, Failed(p)) /\ list' = Effect(work[p].call)
  <2>1. list' \in Seq(Rules) /\ OneRulePerMatch'
    <3>1. CASE c.op = "allow"
      <4>1. list' = Allowed(k)
        BY <1>2, <1>3, <1>8, <3>1 DEF Effect
      <4>. QED
        BY <1>1, <4>1, AllowedRules
    <3>2. CASE c.op # "allow" /\ n \in DOMAIN list
      <4>1. list' = RemoveAt(list, n)
        BY <1>2, <1>3, <1>8, <3>2 DEF Effect
      <4>. QED
        BY <1>1, <3>2, <4>1, RemovedRules
    <3>3. CASE c.op # "allow" /\ n \notin DOMAIN list
      <4>1. list' = list
        BY <1>2, <1>3, <1>8, <3>3 DEF Effect
      <4>. QED
        BY <1>1, <4>1 DEF Types, OneRulePerMatch
    <3>. QED
      BY <3>1, <3>2, <3>3
  <2>2. work' = Seen(p, Rest(p, v))
    BY <1>4, <1>8
  <2>. QED
    BY <1>1, <1>5, <1>6, <2>1, <2>2, Shared
<1>. QED
  BY <1>7, <1>8 DEF RunFails

\* A crash drops the pass and its lock, not the rules.
LEMMA CrashInv ==
    ASSUME UfwInv, NEW p \in Procs, Crash(p)
    PROVE  UfwInv'
<1>1. PICK v \in Passes : v = Idle
  BY PassTypes
<1>2. v.call = None /\ CallOk(v) /\ PlanOk(v)
  BY <1>1, IdleFields DEF CallOk, PlanOk
<1>3. /\ work' = [work EXCEPT ![p] = v] /\ list' = list /\ desired' \in SUBSET Keys
      /\ events' \in Nat /\ \A q \in Procs : q # p /\ lock = q => lock' = q
  BY <1>1, EventNat DEF Crash, UfwInv, Types
<1>. QED
  BY <1>2, <1>3, Alone

\* The operator edits the list: no pass is alone, and no call can trust its number.
LEMMA OperatorInv ==
    ASSUME UfwInv, Operator
    PROVE  UfwInv'
<1>1. Types /\ OneRulePerMatch /\ work \in [Procs -> Passes]
  BY DEF UfwInv, Types
<1>2. list' \in Seq(Rules) /\ OneRulePerMatch'
  BY <1>1, OperatorRules
<1>3. work' = Edited /\ lock' = lock /\ desired' = desired /\ events' \in Nat
  BY <1>1, EventNat DEF Operator
<1>4. ASSUME NEW q \in Procs
      PROVE  \E v \in Passes : /\ v = work'[q] /\ CallOk(v)' /\ PlanOk(v)'
                               /\ v.call # None => lock' = q
  <2>1. PICK w \in Passes : w = work[q] /\ CallOk(w) /\ (w.call # None => lock = q)
    BY <1>1 DEF UfwInv, Held
  <2>2. CASE w = Idle
    <3>1. work'[q] = Idle
      BY <1>3, <2>1, <2>2 DEF Edited
    <3>. QED
      BY <3>1, IdleOk, IdleFields, PassTypes
  <2>3. CASE w # Idle /\ w.call = None
    <3>1. PICK v : v = [w EXCEPT !.alone = FALSE]
      OBVIOUS
    <3>2. work'[q] = v
      BY <1>3, <2>1, <2>3, <3>1 DEF Edited
    <3>3. v \in Passes /\ v.call = None /\ v.alone = FALSE
      BY <2>3, <3>1 DEF Passes
    <3>4. CallOk(v)' /\ PlanOk(v)'
      BY <3>3 DEF CallOk, PlanOk
    <3>. QED
      BY <3>2, <3>3, <3>4
  <2>4. CASE w # Idle /\ w.call # None
    <3>1. PICK v : v = [w EXCEPT !.alone = FALSE, !.call.edited = TRUE]
      OBVIOUS
    <3>2. work'[q] = v
      BY <1>3, <2>1, <2>4, <3>1 DEF Edited
    <3>3. PICK c \in Calls : c = w.call
      BY <2>4 DEF Passes
    <3>4. /\ v \in Passes /\ v.alone = FALSE /\ v.adds = w.adds /\ v.dels = w.dels
          /\ v.call = [c EXCEPT !.edited = TRUE]
      BY <3>1, <3>3 DEF Passes, Calls
    <3>5. v.call.edited = TRUE /\ v.call.op = c.op /\ v.call.key = c.key
      BY <3>4 DEF Calls
    <3>6. CallOk(v)'
      BY <2>1, <2>4, <3>3, <3>4, <3>5 DEF CallOk
    <3>7. PlanOk(v)'
      BY <3>4 DEF PlanOk
    <3>8. lock' = q
      BY <1>3, <2>1, <2>4
    <3>. QED
      BY <3>2, <3>4, <3>6, <3>7, <3>8
  <2>. QED
    BY <2>2, <2>3, <2>4
<1>5. work' \in [Procs -> Passes]
  BY <1>3, <1>4 DEF Edited
<1>6. Types'
  BY <1>2, <1>3, <1>5 DEF UfwInv, Types
<1>7. ASSUME NEW q \in Procs PROVE Held(q)' /\ CallOk(work[q])' /\ PlanOk(work[q])'
  <2>1. PICK v \in Passes : /\ v = work'[q] /\ CallOk(v)' /\ PlanOk(v)'
                            /\ v.call # None => lock' = q
    BY <1>4
  <2>. QED
    BY <2>1, NewWork
<1>. QED
  BY <1>2, <1>6, <1>7 DEF UfwInv

\* A step that touches neither the list nor any pass.
LEMMA Untouched ==
    ASSUME UfwInv, list' = list, work' = work, lock' = lock, desired' \in SUBSET Keys, events' \in Nat
    PROVE  UfwInv'
<1>1. Types'
  BY DEF UfwInv, Types
<1>2. OneRulePerMatch'
  BY DEF UfwInv, OneRulePerMatch
<1>3. ASSUME NEW q \in Procs PROVE Held(q)' /\ CallOk(work[q])' /\ PlanOk(work[q])'
  <2>1. PICK v : v = work[q] /\ CallOk(v) /\ PlanOk(v) /\ (v.call # None => lock = q)
    BY DEF UfwInv, Held
  <2>2. CallOk(v)' /\ PlanOk(v)' /\ work'[q] = v /\ (v.call # None => lock' = q)
    BY <2>1, SameList
  <2>. QED
    BY <2>2, NewWork
<1>. QED
  BY <1>1, <1>2, <1>3 DEF UfwInv

\* At the start nothing is in progress.
LEMMA InitInv == Init => UfwInv
<1>. SUFFICES ASSUME Init PROVE UfwInv
  OBVIOUS
<1>1. PICK n \in 0..MaxRules : list \in [1..n -> Rules]
  BY DEF Init
<1>2. n \in Nat /\ list \in Seq(Rules)
  <2>1. n \in Nat
    BY UfwAssumption
  <2>. QED
    BY <1>1, <2>1, SequenceOf
<1>3. Types
  BY <1>2, PassTypes DEF Init, Types
<1>4. ASSUME NEW p \in Procs PROVE Held(p) /\ CallOk(work[p]) /\ PlanOk(work[p])
  <2>1. work[p] = Idle
    BY DEF Init
  <2>. QED
    BY <2>1, IdleFields DEF Held, CallOk, PlanOk
<1>. QED
  BY <1>3, <1>4 DEF UfwInv, Init

\* The invariant is inductive.
LEMMA NextInv == UfwInv /\ [Next]_vars => UfwInv'
<1>. SUFFICES ASSUME UfwInv, [Next]_vars PROVE UfwInv'
  OBVIOUS
<1>0. Types
  BY DEF UfwInv
<1>1. CASE Start
  BY <1>1, StartInv
<1>2. ASSUME NEW p \in Procs, Step(p) PROVE UfwInv'
  BY <1>2, AddRuleInv, DeleteByHandleInv, InactiveInv, RunAllowInv, RunDeleteInv DEF Step
<1>3. CASE Operator
  BY <1>3, OperatorInv
<1>4. CASE Switch
  BY <1>0, <1>4, EventNat, Untouched DEF Switch, Types
<1>5. CASE Change
  BY <1>0, <1>5, EventNat, Untouched DEF Change
<1>6. ASSUME NEW p \in Procs, RunFails(p) \/ Crash(p) PROVE UfwInv'
  BY <1>6, RunFailsInv, CrashInv
<1>7. CASE UNCHANGED vars
  BY <1>0, <1>7, Untouched DEF vars, Types
<1>. QED
  BY <1>1, <1>2, <1>3, <1>4, <1>5, <1>6, <1>7 DEF Next, Environment

\* The ufw backend: ufw keeps one rule per match, a process in a call holds the
\* lock and can trust what it listed until the operator edits the list, and an
\* undisturbed ReconcileAll has exactly the difference left to do.
THEOREM UfwInvariant == Spec => []UfwInv
BY InitInv, NextInv, PTL DEF Spec

-----------------------------------------------------------------------------
(* The properties of the steps *)

\* Only the operator takes away a rule of the host.
LEMMA HostStep ==
    ASSUME UfwInv, [Next]_vars, NEW n \in DOMAIN list, list[n].user = None, list[n] \notin ToSet(list'),
           ~Operator
    PROVE  \E p \in Procs : work[p].call # None /\ work[p].call.edited
<1>0. Types /\ OneRulePerMatch
  BY DEF UfwInv
<1>. SUFFICES ASSUME \A p \in Procs : work[p].call # None => ~work[p].call.edited PROVE FALSE
  OBVIOUS
<1>1. list' # list
  BY DEF ToSet
<1>2. PICK p \in Procs : /\ RunAllow(p) \/ RunDelete(p) \/ RunFails(p)
                         /\ work[p].call # None /\ list' = Effect(work[p].call)
  <2>1. ASSUME NEW p \in Procs, RunAllow(p) PROVE work[p].call # None /\ list' = Effect(work[p].call)
    BY <2>1 DEF RunAllow, Effect
  <2>2. ASSUME NEW p \in Procs, RunDelete(p) PROVE work[p].call # None /\ list' = Effect(work[p].call)
    BY <2>2 DEF RunDelete, Effect
  <2>3. ASSUME NEW p \in Procs, RunFails(p) PROVE work[p].call # None /\ list' = Effect(work[p].call)
    BY <1>1, <2>3 DEF RunFails, Effect
  <2>4. ~Start
    BY <1>1 DEF Start, ReconcileAll, Reconcile, RemoveUserRules, AddOne, RemoveOne, Begin
  <2>5. ASSUME NEW p \in Procs
        PROVE  ~Inactive(p) /\ ~Crash(p) /\ \A k \in Keys : ~AddRule(p, k) /\ ~DeleteByHandle(p, k)
    BY <1>1 DEF Inactive, Crash, AddRule, DeleteByHandle, Calling
  <2>6. ~Switch /\ ~Change /\ ~UNCHANGED vars
    BY <1>1 DEF Switch, Change, vars
  <2>. QED
    BY <2>1, <2>2, <2>3, <2>4, <2>5, <2>6 DEF Next, Step, Environment
<1>3. PICK w \in Passes, c \in Calls :
        /\ w = work[p] /\ c = w.call
        /\ c.op = "allow" /\ ~c.edited => ~hostRuleFor(c.key.match)
        /\ c.op = "delete" /\ ~c.edited => c.num \in Numbers(c.key)
  BY <1>2, InCall
<1>4. PICK k \in Keys : k = c.key
  BY DEF Calls
<1>5. ~c.edited
  BY <1>2, <1>3
<1>6. CASE c.op = "allow"
  <2>1. list' = Allowed(k) /\ ~hostRuleFor(k.match)
    BY <1>2, <1>3, <1>4, <1>5, <1>6 DEF Effect
  <2>. QED
    BY <1>0, <2>1, AllowedKeys
<1>7. CASE c.op = "delete"
  <2>1. PICK i \in Numbers(k) : i = c.num
    BY <1>3, <1>4, <1>5, <1>7
  <2>2. list' = RemoveAt(list, i)
    BY <1>2, <1>3, <1>7, <2>1 DEF Effect, Numbers
  <2>. QED
    BY <1>0, <2>2, RemovedKeys
<1>. QED
  BY <1>6, <1>7 DEF Calls

\* HostRulesUntouched, for every list and any number of processes: a command
\* whose call holds the lock deletes or replaces a rule of the host only when the
\* operator edited the list after the call listed it.
THEOREM HostRulesStay == Spec => HostRulesUntouched
<1>1. UfwInv /\ [Next]_vars =>
        [\A n \in DOMAIN list : list[n].user = None /\ list[n] \notin ToSet(list') =>
           Operator \/ \E p \in Procs : work[p].call # None /\ work[p].call.edited]_vars
  BY HostStep
<1>. QED
  BY <1>1, UfwInvariant, PTL DEF Spec, HostRulesUntouched

\* An undisturbed deletion of ReconcileAll closes no match that it wants open.
LEMMA DeleteStep ==
    ASSUME UfwInv, NEW m \in Open \ Open', m \in MatchesOf(work[Server].want), work[Server].all,
           work[Server].alone, work[Server].ok, RunDelete(Server)
    PROVE  FALSE
<1>0. Types /\ OneRulePerMatch /\ Server \in Procs
  BY DEF UfwInv, Procs
<1>1. work[Server].call # None
  BY DEF RunDelete
<1>2. PICK w \in Passes, c \in Calls :
        /\ w = work[Server] /\ c = w.call /\ PlanOk(w)
        /\ c.op = "delete" => /\ w.adds = {} /\ c.key \in w.dels
                              /\ ~c.edited => c.num \in Numbers(c.key)
        /\ w.alone => ~c.edited
  BY <1>0, <1>1, InCall
<1>3. PICK k \in Keys, n \in Nat : k = c.key /\ n = c.num
  BY DEF Calls
<1>4. w.adds = {} /\ k \in w.dels /\ n \in Numbers(k)
  BY <1>2, <1>3 DEF RunDelete
<1>5. n \in DOMAIN list /\ list[n].user # None /\ KeyOf(list[n]) = k
  BY <1>4 DEF Numbers
<1>6. list' = RemoveAt(list, n)
  BY <1>2, <1>3, <1>5 DEF RunDelete
<1>7. \A j \in DOMAIN list : j # n => \E i \in DOMAIN list' : list'[i] = list[j]
  BY <1>0, <1>5, <1>6, RemovedRules
<1>8. list[n].match = m
  <2>1. PICK j \in DOMAIN list : list[j].allow /\ list[j].match = m
    BY DEF Open
  <2>2. j = n
    BY <1>7, <2>1 DEF Open
  <2>. QED
    BY <2>1, <2>2
<1>9. PICK x \in w.want : x.match = m
  BY <1>2 DEF MatchesOf
<1>10. /\ w.dels \cap w.want = {}
       /\ x.match \in MatchesOf(w.want \cap Managed) \/ hostRuleFor(x.match)
  BY <1>2, <1>4, <1>9 DEF PlanOk, Decided
<1>11. CASE x.match \in MatchesOf(w.want \cap Managed)
  <2>1. PICK j \in w.want \cap Managed : j.match = m
    BY <1>9, <1>11 DEF MatchesOf
  <2>2. PICK i \in DOMAIN list : list[i] = OurRule(j)
    BY <1>0, InList
  <2>3. j \in Keys
    BY <1>0, InList
  <2>4. list[i].match = m /\ KeyOf(list[i]) = j
    BY <2>1, <2>2, <2>3, RuleFields
  <2>5. i = n
    BY <1>0, <1>5, <1>8, <2>4 DEF OneRulePerMatch
  <2>. QED
    BY <1>4, <1>5, <1>10, <2>1, <2>4, <2>5
<1>12. CASE hostRuleFor(x.match)
  <2>1. PICK i \in DOMAIN list : list[i] \in {HostRule(m, TRUE), HostRule(m, FALSE)}
    BY <1>9, <1>12 DEF hostRuleFor
  <2>2. list[i].user = None /\ list[i].match = m
    BY <2>1 DEF HostRule
  <2>. QED
    BY <1>0, <1>5, <1>8, <2>2 DEF OneRulePerMatch
<1>. QED
  BY <1>10, <1>11, <1>12

\* NoGap, for every list, plan and number of processes: adds come first, so when
\* the deletions run a wanted match that is open has another rule, and ufw has no
\* two rules of one match.
THEOREM NoGapEver == Spec => NoGap
<1>1. UfwInv /\ [Next]_vars =>
        [\A m \in Open \ Open' : m \in MatchesOf(work[Server].want) /\ work[Server].all
           => ~(work[Server].alone /\ work[Server].ok /\ RunDelete(Server))]_vars
  BY DeleteStep
<1>. QED
  BY <1>1, UfwInvariant, PTL DEF Spec, NoGap

\* The step that ends an undisturbed ReconcileAll is one of its own.
LEMMA LastStep ==
    ASSUME UfwInv, [Next]_vars, work[Server].all, IsIdle(Server)', work[Server].alone, work[Server].ok,
           events' = events, ~Inactive(Server)
    PROVE  Went(Server)
<1>0. Types /\ Server \in Procs /\ work \in [Procs -> Passes]
  BY DEF UfwInv, Types, Procs
<1>1. work[Server] # Idle /\ work'[Server] = Idle
  BY IdleFields DEF IsIdle
<1>2. ~Event
  BY <1>0, EventNat
<1>3. ASSUME NEW p \in Procs, Step(p) PROVE p = Server
  <2>. SUFFICES ASSUME p # Server PROVE work'[Server].all
    BY <1>1, IdleFields
  <2>1. \A v : Rest(p, v)[Server] = work[Server]
    BY <1>0 DEF Rest
  <2>2. \A v : Seen(p, Rest(p, v))[Server].all
    BY <1>0, <1>1, <2>1 DEF Seen, Passes
  <2>3. ASSUME NEW op, NEW k, NEW num, Calling(p, op, k, num) PROVE work'[Server] = work[Server]
    BY <1>0, <2>3 DEF Calling
  <2>4. ASSUME NEW k \in Keys, AddRule(p, k) \/ DeleteByHandle(p, k) PROVE work'[Server].all
    BY <2>1, <2>3, <2>4 DEF AddRule, DeleteByHandle
  <2>5. CASE Inactive(p)
    BY <2>1, <2>5 DEF Inactive
  <2>6. CASE RunAllow(p) \/ RunDelete(p)
    BY <2>1, <2>2, <2>6 DEF RunAllow, RunDelete
  <2>. QED
    BY <1>3, <2>4, <2>5, <2>6 DEF Step
<1>4. CASE ReconcileAll
  BY <1>1, <1>4 DEF ReconcileAll, Begin, IsIdle
<1>5. ~Environment /\ (Start => ReconcileAll)
  BY <1>2 DEF Environment, Operator, Switch, Change, RunFails, Crash, Start, Reconcile,
              RemoveUserRules, AddOne, RemoveOne
<1>6. CASE UNCHANGED vars
  BY <1>1, <1>6 DEF vars
<1>7. CASE Step(Server)
  BY <1>0, <1>7, AddRuleInv, DeleteByHandleInv, RunAllowInv, RunDeleteInv DEF Step
<1>. QED
  BY <1>3, <1>4, <1>5, <1>6, <1>7 DEF Next

\* Idempotent, for every list, plan and number of processes: when an undisturbed
\* ReconcileAll ends, its empty plan says that the list is what it was asked for,
\* up to the matches that rules of the host decide.
THEOREM ReconcileIsIdempotent == Spec => Idempotent
<1>1. ASSUME UfwInv, [Next]_vars, work[Server].all, IsIdle(Server)', work[Server].alone, work[Server].ok,
             events' = events, ~Inactive(Server)
      PROVE  \A want \in {work[Server].want} :
               /\ Managed' \subseteq want
               /\ \A k \in Missing(want)' : hostRuleFor(k.match)'
  <2>1. Went(Server) /\ work'[Server] = Idle
    BY <1>1, LastStep DEF IsIdle
  <2>2. PICK v \in Passes : /\ PlanOk(v)' /\ v.all /\ v.want = work[Server].want /\ v.alone /\ v.ok
                            /\ v.adds = {} /\ v.dels = {}
    BY <1>1, <2>1 DEF Went
  <2>3. Managed' \subseteq v.want /\ \A k \in v.want : Decided(v, k)'
    BY <2>2 DEF PlanOk
  <2>4. \A k \in Missing(v.want)' : hostRuleFor(k.match)'
    BY <2>3 DEF Missing, Decided
  <2>. QED
    BY <2>2, <2>3, <2>4
<1>2. UfwInv /\ [Next]_vars =>
        [work[Server].all /\ IsIdle(Server)' /\ work[Server].alone /\ work[Server].ok
           /\ events' = events /\ ~Inactive(Server)
           => \A want \in {work[Server].want} :
                /\ Managed' \subseteq want
                /\ \A k \in Missing(want)' : hostRuleFor(k.match)']_vars
  BY <1>1
<1>. QED
  BY <1>2, UfwInvariant, PTL DEF Spec, Idempotent
=============================================================================
