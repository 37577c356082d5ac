--------------------------- MODULE NftChainProofs ---------------------------
(***************************************************************************)
(* The nftables backend, for any number of commands, keys, ports and rules.*)
(*                                                                         *)
(* The invariant ChainInv says where rules stand (allow rules before the   *)
(* guard, the loopback bypass before the drops) and what the handles a     *)
(* process holds still mean, however the chain changed since its listing.  *)
(* Every step is brought to one of two forms, about which the lemmas are:  *)
(* the rules stay and handles change hands (Relabelled), or some rules are *)
(* carried over in their order and new ones come in (Carried).             *)
(*                                                                         *)
(* Facts by induction on a number are proved from a least counterexample.  *)
(***************************************************************************)
EXTENDS NftChain, FiniteSetTheorems, TLAPS

-----------------------------------------------------------------------------
(* Sets of numbers *)

\* A set of numbers that is not empty has a least one: the least counterexample
\* is what the proofs below use in place of induction.
LEMMA LeastNumber ==
    ASSUME NEW S, S \subseteq Nat, S # {}
    PROVE  \E n \in S : \A m \in S : n <= m
<1>1. PICK n \in S : \A m \in S : <<m, n>> \notin OpToRel(<, Nat)
  BY NatLessThanWellFounded, WFMin
<1>2. \A m \in S : ~(m < n)
  BY <1>1 DEF OpToRel
<1>. QED
  BY <1>2

\* Among some positions there is a first one.
LEMMA FirstExists ==
    ASSUME NEW S, S \subseteq Nat, S # {}
    PROVE  \E n \in First(S) : n \in S /\ \A m \in S : n <= m
BY LeastNumber DEF First

Increasing(s) == \A m, n \in DOMAIN s : m < n => s[m] < s[n]

\* A finite set of numbers can be listed in increasing order.
LEMMA OrderExists ==
    ASSUME NEW S, S \subseteq Nat, IsFiniteSet(S)
    PROVE  \E s \in [1..Cardinality(S) -> S] : Increasing(s)
<1>. DEFINE Listed(T) == \E s \in [1..Cardinality(T) -> T] : Increasing(s)
            Bad == {c \in Nat : \E T \in SUBSET Nat : IsFiniteSet(T) /\ Cardinality(T) = c /\ ~Listed(T)}
<1>1. ASSUME Bad # {} PROVE FALSE
  <2>1. PICK c \in Bad : \A d \in Bad : c <= d
    BY <1>1, LeastNumber
  <2>2. PICK T \in SUBSET Nat : IsFiniteSet(T) /\ Cardinality(T) = c /\ ~Listed(T)
    BY <2>1
  <2>3. T # {}
    <3>. SUFFICES ASSUME T = {} PROVE FALSE
      OBVIOUS
    <3>. DEFINE s == [n \in 1..0 |-> 0]
    <3>1. s \in [1..Cardinality(T) -> T] /\ Increasing(s)
      BY FS_EmptySet DEF Increasing
    <3>. QED
      BY <2>2, <3>1
  <2>4. PICK x \in T : \A y \in T : x <= y
    BY <2>3, LeastNumber
  <2>. DEFINE U == T \ {x}
  <2>5. IsFiniteSet(U) /\ Cardinality(U) = c - 1 /\ c \in Nat /\ c - 1 \in Nat
    <3>1. IsFiniteSet(U) /\ Cardinality(U) = c - 1
      BY <2>2, <2>4, FS_RemoveElement
    <3>2. c \in Nat /\ Cardinality(U) \in Nat
      BY <2>1, <3>1, FS_CardinalityType
    <3>. QED
      BY <3>1, <3>2
  <2>6. PICK s \in [1..(c - 1) -> U] : Increasing(s)
    <3>1. c - 1 \notin Bad
      BY <2>1, <2>5
    <3>. QED
      BY <2>5, <3>1
  <2>. DEFINE t == [n \in 1..c |-> IF n = 1 THEN x ELSE s[n - 1]]
  <2>7. t \in [1..c -> T]
    BY <2>5, <2>6
  <2>8. Increasing(t)
    <3>. SUFFICES ASSUME NEW m \in 1..c, NEW n \in 1..c, m < n PROVE t[m] < t[n]
      BY DEF Increasing
    <3>1. n # 1 /\ n - 1 \in 1..(c - 1) /\ t[n] = s[n - 1]
      BY <2>5
    <3>2. CASE m = 1
      <4>1. s[n - 1] \in T /\ s[n - 1] # x
        BY <2>6, <3>1
      <4>2. s[n - 1] \in Nat /\ x \in Nat /\ x <= s[n - 1] /\ t[m] = x
        BY <2>2, <2>4, <3>2, <4>1
      <4>. QED
        BY <3>1, <4>1, <4>2
    <3>3. CASE m # 1
      <4>1. m - 1 \in 1..(c - 1) /\ m - 1 < n - 1 /\ t[m] = s[m - 1]
        BY <2>5, <3>3
      <4>2. s[m - 1] < s[n - 1]
        BY <2>6, <3>1, <4>1 DEF Increasing
      <4>. QED
        BY <3>1, <4>1, <4>2
    <3>. QED
      BY <3>2, <3>3
  <2>. QED
    BY <2>2, <2>7, <2>8
<1>2. Cardinality(S) \in Nat
  BY FS_CardinalityType
<1>. QED
  BY <1>1, <1>2

\* InOrder lists every element once, in increasing order.
LEMMA InOrderLists ==
    ASSUME NEW S, S \subseteq Nat, IsFiniteSet(S)
    PROVE  /\ Cardinality(S) \in Nat
           /\ InOrder(S) \in [1..Cardinality(S) -> S]
           /\ Increasing(InOrder(S))
           /\ \A x \in S : \E n \in 1..Cardinality(S) : InOrder(S)[n] = x
<1>0. Cardinality(S) \in Nat
  BY FS_CardinalityType
<1>. DEFINE s == InOrder(S)
<1>1. s \in [1..Cardinality(S) -> S] /\ Increasing(s)
  BY OrderExists DEF InOrder, Increasing
<1>2. s \in Injection(1..Cardinality(S), S)
  <2>1. \A m, n \in 1..Cardinality(S) : s[m] = s[n] => m = n
    <3>. SUFFICES ASSUME NEW m \in 1..Cardinality(S), NEW n \in 1..Cardinality(S), s[m] = s[n], m # n
                  PROVE  FALSE
      OBVIOUS
    <3>1. m < n \/ n < m
      BY <1>0
    <3>2. s[m] < s[n] \/ s[n] < s[m]
      BY <1>1, <3>1 DEF Increasing
    <3>3. s[m] \in Nat /\ s[n] \in Nat
      BY <1>1
    <3>. QED
      BY <3>2, <3>3
  <2>. QED
    BY <1>1, <2>1 DEF Injection, IsInjective
<1>3. Cardinality(1..Cardinality(S)) = Cardinality(S)
  BY <1>0, FS_Interval
<1>4. s \in Surjection(1..Cardinality(S), S)
  BY <1>2, <1>3, FS_Injection
<1>. QED
  BY <1>0, <1>1, <1>4 DEF Surjection

\* Moving a set of numbers without changing their order keeps their number.
LEMMA MovedCount ==
    ASSUME NEW S, S \subseteq Nat, IsFiniteSet(S), NEW f,
           \A n \in S : f[n] \in Nat,
           \A m, n \in S : m < n => f[m] < f[n]
    PROVE  /\ IsFiniteSet({f[n] : n \in S})
           /\ Cardinality({f[n] : n \in S}) = Cardinality(S)
<1>. DEFINE T == {f[n] : n \in S}
            g == [n \in S |-> f[n]]
<1>1. \A m, n \in S : g[m] = g[n] => m = n
  <2>. SUFFICES ASSUME NEW m \in S, NEW n \in S, f[m] = f[n], m # n PROVE FALSE
    OBVIOUS
  <2>1. m < n \/ n < m
    OBVIOUS
  <2>. QED
    BY <2>1
<1>2. g \in Injection(S, T) /\ g \in Surjection(S, T)
  BY <1>1 DEF Injection, IsInjective, Surjection
<1>. QED
  BY <1>2, FS_Surjection

-----------------------------------------------------------------------------
(* Sequences *)

\* The guard's layout: the bypass, then the ports.
LEMMA LayoutShape ==
    ASSUME NEW ports \in SUBSET Ports
    PROVE  /\ guardLayout(ports) \in Seq(Ports \cup {Loopback})
           /\ ports = {} => guardLayout(ports) = <<>>
           /\ ports # {} => Len(guardLayout(ports)) > 0 /\ guardLayout(ports)[1] = Loopback
           /\ \A n \in 1..Len(guardLayout(ports)) : guardLayout(ports)[n] \in ports \cup {Loopback}
           /\ \A x \in ports : \E n \in 1..Len(guardLayout(ports)) : guardLayout(ports)[n] = x
<1>1. CASE ports = {}
  BY <1>1 DEF guardLayout
<1>2. CASE ports # {}
  <2>. DEFINE s == InOrder(ports)
              c == Cardinality(ports)
              l == <<Loopback>> \o s
  <2>1. ports \subseteq Nat /\ IsFiniteSet(ports)
    BY ChainAssumption, FS_Subset
  <2>2. c \in Nat /\ s \in [1..c -> ports] /\ \A x \in ports : \E n \in 1..c : s[n] = x
    BY <2>1, InOrderLists
  <2>. HIDE DEF s, c
  <2>3. s \in Seq(ports) /\ Len(s) = c
    BY <2>2
  <2>4. /\ l \in Seq(Ports \cup {Loopback}) /\ Len(l) = c + 1 /\ l[1] = Loopback
        /\ \A n \in 2..(c + 1) : l[n] = s[n - 1]
    BY <2>2, <2>3
  <2>5. guardLayout(ports) = l
    BY <1>2 DEF guardLayout, s
  <2>. HIDE DEF l
  <2>6. ASSUME NEW n \in 1..(c + 1) PROVE l[n] \in ports \cup {Loopback}
    <3>1. CASE n = 1
      BY <2>4, <3>1
    <3>2. CASE n # 1
      <4>1. n \in 2..(c + 1) /\ n - 1 \in 1..c
        BY <2>2, <3>2
      <4>. QED
        BY <2>2, <2>4, <4>1
    <3>. QED
      BY <3>1, <3>2
  <2>7. ASSUME NEW x \in ports PROVE \E n \in 1..(c + 1) : l[n] = x
    <3>1. PICK n \in 1..c : s[n] = x
      BY <2>2
    <3>2. n + 1 \in 2..(c + 1) /\ n + 1 \in 1..(c + 1) /\ (n + 1) - 1 = n
      BY <2>2
    <3>. QED
      BY <2>4, <3>1, <3>2
  <2>. QED
    BY <1>2, <2>2, <2>4, <2>5, <2>6, <2>7
<1>. QED
  BY <1>1, <1>2

\* Taking a rule out moves those after it up.
LEMMA RemoveShape ==
    ASSUME NEW R, NEW s \in Seq(R), NEW n \in 1..Len(s)
    PROVE  /\ RemoveAt(s, n) \in Seq(R)
           /\ Len(RemoveAt(s, n)) = Len(s) - 1
           /\ \A m \in 1..(Len(s) - 1) : RemoveAt(s, n)[m] = s[IF m < n THEN m ELSE m + 1]
<1>. DEFINE a == SubSeq(s, 1, n - 1)
            b == SubSeq(s, n + 1, Len(s))
<1>1. /\ a \in Seq(R) /\ Len(a) = n - 1 /\ \A m \in 1..(n - 1) : a[m] = s[m]
  OBVIOUS
<1>2. /\ b \in Seq(R) /\ Len(b) = Len(s) - n /\ \A m \in 1..(Len(s) - n) : b[m] = s[m + n]
  OBVIOUS
<1>. HIDE DEF a, b
<1>3. a \o b \in Seq(R) /\ Len(a \o b) = Len(s) - 1
  <2>0. a \in Seq(R) /\ b \in Seq(R)
    BY <1>1, <1>2
  <2>1. a \o b \in Seq(R) /\ Len(a \o b) = Len(a) + Len(b)
    BY ONLY <2>0
  <2>2. Len(s) \in Nat /\ n \in Nat
    OBVIOUS
  <2>. QED
    BY <1>1, <1>2, <2>1, <2>2
<1>4. ASSUME NEW m \in 1..(Len(s) - 1) PROVE (a \o b)[m] = s[IF m < n THEN m ELSE m + 1]
  <2>1. CASE m < n
    BY <1>1, <1>2, <2>1
  <2>2. CASE ~(m < n)
    <3>1. m - (n - 1) \in 1..(Len(s) - n)
      BY <2>2
    <3>2. (a \o b)[m] = b[m - (n - 1)]
      BY <1>1, <1>2, <2>2
    <3>3. b[m - (n - 1)] = s[m - (n - 1) + n] /\ m - (n - 1) + n = m + 1
      BY <1>2, <3>1
    <3>. QED
      BY <2>2, <3>2, <3>3
  <2>. QED
    BY <2>1, <2>2
<1>. QED
  BY <1>3, <1>4 DEF RemoveAt, a, b

-----------------------------------------------------------------------------
(* The invariant *)

RuleSet ==
    {r \in [tag : {"allow", "guard", "host"}, key : Keys \cup Ports \cup {Loopback, None},
            by : SUBSET Procs] :
       /\ r.tag = "allow" => r.key \in Keys
       /\ r.tag = "guard" => r.key \in Ports \cup {Loopback}}

Plans == [adds : SUBSET Keys, dels : Nat, ports : (SUBSET Ports) \cup {None},
          close : SUBSET Keys, old : BOOLEAN]

Types ==
    /\ base \in BOOLEAN
    /\ chain \in Seq(RuleSet)
    /\ work \in [Procs -> Plans]
    /\ stray \in BOOLEAN

\* Allow rules come before the guard.
Ordered == \A m, n \in DOMAIN chain : chain[m].tag = "allow" /\ chain[n].tag = "guard" => m < n

\* No drop without the loopback bypass before it.
Bypassed ==
    \A n \in GuardPositions : \E m \in GuardPositions : m <= n /\ chain[m].key = Loopback

\* What the handles that process p holds for its plan w are: at most as many as
\* it has yet to try, none from before a flush.  A pass holds allow rules, each of
\* them asked to be closed, deleted by somebody else, or with a copy that stays.
\* SyncGuard holds all of the guard.
Marks(p, w) ==
    /\ Cardinality(Marked(p)) <= w.dels
    /\ w.old => Marked(p) = {}
    /\ w.ports = None =>
         /\ Marked(p) \subseteq Managed
         /\ \A n \in Marked(p) : chain[n].key \in w.close \/ Copies(chain[n].key) \ Marked(p) # {}
    /\ w.ports # None =>
         /\ p = Server /\ w.adds = {}
         /\ ~w.old => Marked(p) = GuardPositions

ChainInv ==
    /\ Types
    /\ ~base => chain = <<>>
    /\ Ordered
    /\ ~stray => Bypassed
    /\ \A p \in Procs : Marks(p, work[p])

-----------------------------------------------------------------------------
(* What becomes of the rules *)

\* Positions are numbers, and sets of them finite.
LEMMA Positions ==
    ASSUME Types
    PROVE  /\ DOMAIN chain = 1..Len(chain) /\ Len(chain) \in Nat
           /\ DOMAIN chain \subseteq Nat
           /\ \A n \in DOMAIN chain : chain[n] \in RuleSet
           /\ \A S \in SUBSET DOMAIN chain : IsFiniteSet(S) /\ Cardinality(S) \in Nat
<1>1. DOMAIN chain = 1..Len(chain) /\ Len(chain) \in Nat
  BY DEF Types
<1>2. \A n \in DOMAIN chain : chain[n] \in RuleSet
  BY DEF Types
<1>3. IsFiniteSet(DOMAIN chain)
  BY <1>1, FS_Interval
<1>4. \A S \in SUBSET DOMAIN chain : IsFiniteSet(S) /\ Cardinality(S) \in Nat
  BY <1>3, FS_Subset, FS_CardinalityType
<1>. QED
  BY <1>1, <1>2, <1>4

\* A process without handles left to try holds none.
LEMMA NothingHeld ==
    ASSUME Types, NEW p \in Procs, NEW w, Marks(p, w), w.dels = 0
    PROVE  Marked(p) = {}
<1>1. Marked(p) \in SUBSET DOMAIN chain
  BY DEF Marked
<1>2. IsFiniteSet(Marked(p)) /\ Cardinality(Marked(p)) \in Nat
  BY <1>1, Positions
<1>3. Cardinality(Marked(p)) = 0
  BY <1>2 DEF Marks
<1>. QED
  BY <1>2, <1>3, FS_EmptySet

\* Handles change hands; the rules stay as they are.
Relabelled ==
    /\ chain' \in Seq(RuleSet)
    /\ DOMAIN chain' = DOMAIN chain
    /\ \A n \in DOMAIN chain : chain'[n].tag = chain[n].tag /\ chain'[n].key = chain[n].key

\* What counts rules and asks where they stand does not look at the handles.
LEMMA RelabelledSets ==
    ASSUME Relabelled
    PROVE  /\ Managed' = Managed /\ GuardPositions' = GuardPositions
           /\ \A k : Copies(k)' = Copies(k)
           /\ Closed' = Closed /\ Present' = Present
           /\ Ordered => Ordered'
           /\ Bypassed => Bypassed'
<1>1. Managed' = Managed /\ GuardPositions' = GuardPositions
  BY DEF Relabelled, Managed, GuardPositions
<1>2. \A n \in Managed \cup GuardPositions : chain'[n].key = chain[n].key
  BY DEF Relabelled, Managed, GuardPositions
<1>3. \A k : Copies(k)' = Copies(k)
  BY <1>1, <1>2 DEF Copies
<1>4. Closed' = Closed /\ Present' = Present
  BY <1>1, <1>2 DEF Closed, Present
<1>5. Ordered => Ordered'
  BY DEF Ordered, Relabelled
<1>6. Bypassed => Bypassed'
  BY <1>1, <1>2 DEF Bypassed
<1>. QED
  BY <1>1, <1>3, <1>4, <1>5, <1>6

\* The rules at K are carried over to the positions f, in their order and with
\* those who hold them; the rules at `fresh` are new.
Carried(K, f, fresh) ==
    /\ chain' \in Seq(RuleSet)
    /\ K \subseteq DOMAIN chain
    /\ f \in [K -> DOMAIN chain']
    /\ \A m, n \in K : m < n => f[m] < f[n]
    /\ \A n \in K : chain'[f[n]] = chain[n] /\ f[n] \notin fresh
    /\ fresh \subseteq DOMAIN chain'
    /\ \A m \in DOMAIN chain' : m \in fresh \/ \E n \in K : f[n] = m
    /\ \A m \in fresh : chain'[m].by = {}

\* Where the rules of each kind are after such a step.
LEMMA CarriedSets ==
    ASSUME NEW K, NEW f, NEW fresh, Carried(K, f, fresh)
    PROVE  /\ \A q : Marked(q)' = {f[n] : n \in Marked(q) \cap K}
           /\ \A k : Copies(k)' = {f[n] : n \in Copies(k) \cap K}
                                    \cup {m \in fresh : chain'[m].tag = "allow" /\ chain'[m].key = k}
           /\ Managed' = {f[n] : n \in Managed \cap K} \cup {m \in fresh : chain'[m].tag = "allow"}
           /\ GuardPositions' = {f[n] : n \in GuardPositions \cap K}
                                    \cup {m \in fresh : chain'[m].tag = "guard"}
<1>. USE DEF Carried
<1>1. \A q : Marked(q)' = {f[n] : n \in Marked(q) \cap K}
  BY DEF Marked
<1>2. Managed' = {f[n] : n \in Managed \cap K} \cup {m \in fresh : chain'[m].tag = "allow"}
  BY DEF Managed
<1>3. \A k : Copies(k)' = {f[n] : n \in Copies(k) \cap K}
                            \cup {m \in fresh : chain'[m].tag = "allow" /\ chain'[m].key = k}
  BY DEF Copies, Managed
<1>4. GuardPositions' = {f[n] : n \in GuardPositions \cap K} \cup {m \in fresh : chain'[m].tag = "guard"}
  BY DEF GuardPositions
<1>. QED
  BY <1>1, <1>2, <1>3, <1>4

\* As many rules as were carried over.
LEMMA CarriedCount ==
    ASSUME Types, NEW K, NEW f, NEW fresh, Carried(K, f, fresh), NEW S \in SUBSET DOMAIN chain,
           NEW T, T = {f[n] : n \in S \cap K}
    PROVE  IsFiniteSet(T) /\ Cardinality(T) = Cardinality(S \cap K)
<1>1. S \cap K \in SUBSET DOMAIN chain /\ S \cap K \subseteq Nat /\ IsFiniteSet(S) /\ IsFiniteSet(S \cap K)
  BY Positions
<1>2. DOMAIN chain' \subseteq Nat
  BY DEF Carried
<1>3. /\ \A n \in S \cap K : f[n] \in Nat
      /\ \A m, n \in S \cap K : m < n => f[m] < f[n]
  BY <1>2 DEF Carried
<1>. QED
  BY <1>1, <1>3, MovedCount

\* AddRule puts the new rule before all others.
LEMMA InsertCarries ==
    ASSUME Types, NEW r \in RuleSet, r.by = {}, chain' = <<r>> \o chain
    PROVE  \E f : /\ Carried(DOMAIN chain, f, {1})
                  /\ \A n \in DOMAIN chain : f[n] > 1
                  /\ chain'[1] = r
<1>. DEFINE f == [n \in DOMAIN chain |-> n + 1]
<1>1. DOMAIN chain = 1..Len(chain) /\ Len(chain) \in Nat
  BY Positions
<1>2. /\ chain' \in Seq(RuleSet) /\ Len(chain') = Len(chain) + 1 /\ chain'[1] = r
      /\ \A n \in 1..Len(chain) : chain'[n + 1] = chain[n]
  BY DEF Types
<1>3. DOMAIN chain' = 1..(Len(chain) + 1)
  BY <1>2
<1>4. f \in [DOMAIN chain -> DOMAIN chain']
  BY <1>1, <1>3
<1>5. \A m \in DOMAIN chain' : m \in {1} \/ \E n \in DOMAIN chain : f[n] = m
  <2>. SUFFICES ASSUME NEW m \in DOMAIN chain', m # 1 PROVE \E n \in DOMAIN chain : f[n] = m
    OBVIOUS
  <2>1. m - 1 \in DOMAIN chain /\ f[m - 1] = m
    BY <1>1, <1>3
  <2>. QED
    BY <2>1
<1>6. Carried(DOMAIN chain, f, {1})
  BY <1>1, <1>2, <1>3, <1>4, <1>5 DEF Carried
<1>. QED
  BY <1>1, <1>2, <1>6

\* The operator's rule at the end.
LEMMA AppendCarries ==
    ASSUME Types, NEW r \in RuleSet, r.by = {}, chain' = Append(chain, r)
    PROVE  \E f : /\ Carried(DOMAIN chain, f, {Len(chain) + 1})
                  /\ chain'[Len(chain) + 1] = r
<1>. DEFINE f == [n \in DOMAIN chain |-> n]
<1>1. DOMAIN chain = 1..Len(chain) /\ Len(chain) \in Nat
  BY Positions
<1>2. /\ chain' \in Seq(RuleSet) /\ Len(chain') = Len(chain) + 1 /\ chain'[Len(chain) + 1] = r
      /\ \A n \in 1..Len(chain) : chain'[n] = chain[n]
  BY DEF Types
<1>3. DOMAIN chain' = 1..(Len(chain) + 1)
  BY <1>2
<1>4. f \in [DOMAIN chain -> DOMAIN chain']
  BY <1>1, <1>3
<1>6. Carried(DOMAIN chain, f, {Len(chain) + 1})
  BY <1>1, <1>2, <1>3, <1>4 DEF Carried
<1>. QED
  BY <1>2, <1>6

\* A deletion.
LEMMA DeleteCarries ==
    ASSUME Types, NEW n \in DOMAIN chain, chain' = RemoveAt(chain, n)
    PROVE  \E f : Carried(DOMAIN chain \ {n}, f, {})
<1>. DEFINE K == DOMAIN chain \ {n}
            f == [m \in K |-> IF m < n THEN m ELSE m - 1]
<1>1. DOMAIN chain = 1..Len(chain) /\ Len(chain) \in Nat /\ n \in 1..Len(chain)
  BY Positions
<1>2. /\ chain' \in Seq(RuleSet) /\ Len(chain') = Len(chain) - 1
      /\ \A m \in 1..(Len(chain) - 1) : chain'[m] = chain[IF m < n THEN m ELSE m + 1]
  BY <1>1, RemoveShape DEF Types
<1>3. DOMAIN chain' = 1..(Len(chain) - 1)
  BY <1>2
<1>4. f \in [K -> DOMAIN chain']
  BY <1>1, <1>3
<1>5. \A m, l \in K : m < l => f[m] < f[l]
  BY <1>1
<1>6. ASSUME NEW m \in K PROVE chain'[f[m]] = chain[m]
  <2>1. f[m] \in 1..(Len(chain) - 1)
    BY <1>3, <1>4
  <2>2. (IF f[m] < n THEN f[m] ELSE f[m] + 1) = m
    BY <1>1
  <2>. QED
    BY <1>2, <2>1, <2>2
<1>7. \A m \in DOMAIN chain' : \E l \in K : f[l] = m
  <2>. SUFFICES ASSUME NEW m \in DOMAIN chain' PROVE \E l \in K : f[l] = m
    OBVIOUS
  <2>. DEFINE l == IF m < n THEN m ELSE m + 1
  <2>1. l \in K /\ f[l] = m
    BY <1>1, <1>3
  <2>. QED
    BY <2>1
<1>8. Carried(K, f, {})
  BY <1>2, <1>4, <1>5, <1>6, <1>7 DEF Carried
<1>. QED
  BY <1>8

\* SyncGuard's transaction: what it does not hold stays, its own guard is last.
LEMMA CommitCarries ==
    ASSUME Types, NEW ports \in SUBSET Ports,
           chain' = OldGuardRemoved \o LayoutRules(ports)
    PROVE  \E f, c :
             /\ c \in Nat /\ Len(chain') = c + Len(guardLayout(ports))
             /\ Carried(DOMAIN chain \ Marked(Server), f, (c + 1)..Len(chain'))
             /\ \A n \in DOMAIN chain \ Marked(Server) : f[n] \in 1..c
             /\ \A n \in 1..Len(guardLayout(ports)) : chain'[c + n] = GuardRule(guardLayout(ports)[n])
<1>. DEFINE K == DOMAIN chain \ Marked(Server)
            s == InOrder(K)
            c == Cardinality(K)
            g == guardLayout(ports)
            a == OldGuardRemoved
            b == LayoutRules(ports)
<1>1. K \subseteq Nat /\ IsFiniteSet(K) /\ K \subseteq DOMAIN chain
  BY Positions
<1>2. /\ c \in Nat /\ s \in [1..c -> K] /\ Increasing(s)
      /\ \A x \in K : \E n \in 1..c : s[n] = x
  BY <1>1, InOrderLists
<1>3. a = [n \in 1..c |-> chain[s[n]]]
  BY <1>2 DEF OldGuardRemoved
<1>4. a \in Seq(RuleSet) /\ Len(a) = c
  <2>1. \A n \in 1..c : chain[s[n]] \in RuleSet
    BY <1>1, <1>2, Positions
  <2>. HIDE DEF a, s, c, K
  <2>. QED
    BY <1>2, <1>3, <2>1
<1>5. g \in Seq(Ports \cup {Loopback}) /\ \A n \in 1..Len(g) : g[n] \in Ports \cup {Loopback}
  BY LayoutShape
<1>6. \A x \in Ports \cup {Loopback} : GuardRule(x) \in RuleSet /\ GuardRule(x).by = {}
  BY DEF GuardRule, RuleSet
<1>7. b = [n \in 1..Len(g) |-> GuardRule(g[n])] /\ Len(g) \in Nat
  BY <1>5 DEF LayoutRules
<1>8. b \in Seq(RuleSet) /\ Len(b) = Len(g)
  BY <1>5, <1>6, <1>7
<1>. HIDE DEF K, s, c, g, a, b
<1>9. /\ chain' \in Seq(RuleSet) /\ Len(chain') = c + Len(g)
      /\ \A n \in 1..c : chain'[n] = a[n]
      /\ \A n \in 1..Len(g) : chain'[c + n] = b[n]
  <2>1. a \o b \in Seq(RuleSet) /\ Len(a \o b) = Len(a) + Len(b)
    BY ONLY <1>4, <1>8
  <2>2. \A n \in 1..Len(a) : (a \o b)[n] = a[n]
    BY ONLY <1>4, <1>8
  <2>3. \A n \in 1..Len(b) : (a \o b)[Len(a) + n] = b[n]
    BY ONLY <1>4, <1>8
  <2>4. chain' = a \o b
    BY DEF a, b
  <2>. QED
    BY <1>4, <1>8, <2>1, <2>2, <2>3, <2>4
<1>. DEFINE f == [x \in K |-> CHOOSE n \in 1..c : s[n] = x]
            fresh == (c + 1)..Len(chain')
<1>10. \A x \in K : f[x] \in 1..c /\ s[f[x]] = x
  BY <1>2
<1>11. DOMAIN chain' = 1..Len(chain') /\ 1..c \subseteq DOMAIN chain' /\ fresh \subseteq DOMAIN chain'
  BY <1>2, <1>7, <1>9
<1>12. \A x, y \in K : x < y => f[x] < f[y]
  <2>. SUFFICES ASSUME NEW x \in K, NEW y \in K, x < y, ~(f[x] < f[y]) PROVE FALSE
    OBVIOUS
  <2>1. f[x] \in 1..c /\ f[y] \in 1..c /\ s[f[x]] = x /\ s[f[y]] = y /\ x \in Nat /\ y \in Nat
    BY <1>1, <1>10
  <2>2. f[x] = f[y] \/ f[y] < f[x]
    BY <1>2, <2>1
  <2>3. DOMAIN s = 1..c
    BY <1>2
  <2>4. x = y \/ y < x
    BY <1>2, <2>1, <2>2, <2>3 DEF Increasing
  <2>. QED
    BY <2>1, <2>4
<1>13. \A x \in K : chain'[f[x]] = chain[x] /\ f[x] \notin fresh
  <2>. SUFFICES ASSUME NEW x \in K PROVE chain'[f[x]] = chain[x] /\ f[x] \notin fresh
    OBVIOUS
  <2>1. f[x] \in 1..c /\ s[f[x]] = x
    BY <1>10
  <2>2. chain'[f[x]] = chain[x]
    BY <1>3, <1>9, <2>1
  <2>. QED
    BY <1>2, <2>1, <2>2
<1>14. \A m \in DOMAIN chain' : m \in fresh \/ \E n \in K : f[n] = m
  <2>. SUFFICES ASSUME NEW m \in DOMAIN chain', m \notin fresh PROVE \E n \in K : f[n] = m
    OBVIOUS
  <2>1. m \in 1..c
    BY <1>2, <1>9, <1>11
  <2>2. s[m] \in K /\ f[s[m]] \in 1..c /\ s[f[s[m]]] = s[m] /\ DOMAIN s = 1..c
    BY <1>2, <1>10, <2>1
  <2>3. f[s[m]] = m
    <3>1. m < f[s[m]] \/ f[s[m]] < m \/ f[s[m]] = m
      BY <1>2, <2>1, <2>2
    <3>2. s[m] \in Nat
      BY <1>1, <2>2
    <3>3. ~(s[m] < s[m])
      BY <3>2
    <3>. QED
      BY <1>2, <2>1, <2>2, <3>1, <3>3 DEF Increasing
  <2>. QED
    BY <2>2, <2>3
<1>15. \A m \in fresh : chain'[m].by = {}
  <2>. SUFFICES ASSUME NEW m \in fresh PROVE chain'[m].by = {}
    OBVIOUS
  <2>1. m - c \in 1..Len(g) /\ c + (m - c) = m
    BY <1>2, <1>7, <1>9
  <2>2. chain'[m] = GuardRule(g[m - c])
    BY <1>7, <1>9, <2>1
  <2>. QED
    BY <1>5, <1>6, <2>1, <2>2
<1>16. f \in [K -> DOMAIN chain']
  BY <1>10, <1>11
<1>17. Carried(K, f, fresh)
  BY <1>1, <1>9, <1>11, <1>12, <1>13, <1>14, <1>15, <1>16 DEF Carried
<1>18. \A n \in 1..Len(g) : chain'[c + n] = GuardRule(g[n])
  BY <1>7, <1>9
<1>. HIDE DEF f
<1>19. \A n \in K : f[n] \in 1..c
  BY <1>10
<1>20. /\ c \in Nat /\ Len(chain') = c + Len(g)
       /\ Carried(K, f, (c + 1)..Len(chain'))
  BY <1>2, <1>9, <1>17
<1>. QED
  BY <1>18, <1>19, <1>20, Zenon DEF K, g

\* New rules that go to the right end keep the order.
LEMMA CarriedOrdered ==
    ASSUME Types, Ordered, NEW K, NEW f, NEW fresh, Carried(K, f, fresh),
           \A m \in fresh, j \in DOMAIN chain' :
             /\ chain'[m].tag = "allow" /\ chain'[j].tag = "guard" => m < j
             /\ chain'[m].tag = "guard" /\ chain'[j].tag = "allow" => j < m
    PROVE  Ordered'
<1>. SUFFICES ASSUME NEW m \in DOMAIN chain', NEW j \in DOMAIN chain',
                     chain'[m].tag = "allow", chain'[j].tag = "guard"
              PROVE  m < j
  BY DEF Ordered
<1>1. CASE m \in fresh \/ j \in fresh
  BY <1>1
<1>2. CASE m \notin fresh /\ j \notin fresh
  <2>1. PICK a \in K, b \in K : f[a] = m /\ f[b] = j
    BY <1>2 DEF Carried
  <2>2. chain[a].tag = "allow" /\ chain[b].tag = "guard" /\ a \in DOMAIN chain /\ b \in DOMAIN chain
    BY <2>1 DEF Carried
  <2>3. a < b
    BY <2>2 DEF Ordered
  <2>. QED
    BY <2>1, <2>3 DEF Carried
<1>. QED
  BY <1>1, <1>2

\* As long as the guard is left alone, so is its bypass.
LEMMA CarriedBypassed ==
    ASSUME Types, Bypassed, NEW K, NEW f, NEW fresh, Carried(K, f, fresh),
           GuardPositions \subseteq K,
           \A m \in fresh : chain'[m].tag # "guard"
    PROVE  Bypassed'
<1>1. GuardPositions' = {f[n] : n \in GuardPositions}
  <2>1. GuardPositions \cap K = GuardPositions
    OBVIOUS
  <2>. QED
    BY <2>1, CarriedSets
<1>. SUFFICES ASSUME NEW j \in GuardPositions'
              PROVE  \E m \in GuardPositions' : m <= j /\ chain'[m].key = Loopback
  BY DEF Bypassed
<1>2. PICK n \in GuardPositions : f[n] = j
  BY <1>1
<1>3. PICK m \in GuardPositions : m <= n /\ chain[m].key = Loopback
  BY DEF Bypassed
<1>4. m \in K /\ n \in K /\ m \in Nat /\ n \in Nat /\ f[m] \in Nat /\ f[n] \in Nat
  <2>1. DOMAIN chain' \subseteq Nat
    BY DEF Carried
  <2>. QED
    BY <1>2, <1>3, <2>1, Positions DEF Carried
<1>5. f[m] <= f[n]
  <2>1. CASE m = n
    BY <1>4, <2>1
  <2>2. CASE m # n
    <3>1. m < n
      BY <1>3, <1>4, <2>2
    <3>. QED
      BY <1>4, <3>1 DEF Carried
  <2>. QED
    BY <2>1, <2>2
<1>6. f[m] \in GuardPositions' /\ chain'[f[m]].key = Loopback
  BY <1>1, <1>3, <1>4 DEF Carried
<1>. QED
  BY <1>2, <1>5, <1>6

\* What process q holds is carried over with the rules.  A copy that goes without
\* q holding it must be on record as closed.
LEMMA CarriedMarks ==
    ASSUME Types, NEW K, NEW f, NEW fresh, Carried(K, f, fresh),
           NEW q \in Procs, NEW w \in Plans, NEW v \in Plans, Marks(q, w),
           v.ports = w.ports, v.old = w.old, v.adds \subseteq w.adds, w.close \subseteq v.close,
           Cardinality(Marked(q) \cap K) <= v.dels,
           \A n \in Marked(q) : w.ports = None =>
             Copies(chain[n].key) \subseteq K \cup Marked(q) \/ chain[n].key \in v.close,
           w.ports = None \/ \A m \in fresh : chain'[m].tag # "guard"
    PROVE  Marks(q, v)'
<1>. DEFINE M == Marked(q)
            MM == {f[n] : n \in M \cap K}
<1>1. Marked(q)' = MM
  BY CarriedSets
<1>2. Cardinality(MM) = Cardinality(M \cap K)
  <2>1. PICK S \in SUBSET DOMAIN chain : S = M
    BY DEF Marked
  <2>2. PICK T : T = {f[n] : n \in S \cap K}
    OBVIOUS
  <2>3. Cardinality(T) = Cardinality(S \cap K)
    BY <2>1, <2>2, CarriedCount
  <2>. QED
    BY <2>1, <2>2, <2>3
<1>3. Cardinality(Marked(q)') <= v.dels
  BY <1>1, <1>2
<1>4. v.old => Marked(q)' = {}
  BY <1>1 DEF Marks
<1>5. ASSUME v.ports = None
      PROVE  /\ Marked(q)' \subseteq Managed'
             /\ \A j \in Marked(q)' :
                  (chain[j].key \in v.close \/ Copies(chain[j].key) \ Marked(q) # {})'
  <2>1. M \subseteq Managed
    BY <1>5 DEF Marks
  <2>2. Marked(q)' \subseteq Managed'
    BY <1>1, <2>1, CarriedSets
  <2>3. ASSUME NEW j \in Marked(q)', chain'[j].key \notin v.close
        PROVE  (Copies(chain[j].key) \ Marked(q) # {})'
    <3>1. PICK n \in M \cap K : j = f[n]
      BY <1>1
    <3>2. PICK k : k = chain[n].key
      OBVIOUS
    <3>3. chain'[j].key = k /\ k \notin w.close
      BY <2>3, <3>1, <3>2 DEF Carried
    <3>4. PICK m \in Copies(k) : m \notin M
      BY <1>5, <3>1, <3>2, <3>3 DEF Marks
    <3>5. m \in K
      BY <1>5, <2>3, <3>1, <3>2, <3>3, <3>4
    <3>6. f[m] \in Copies(k)'
      BY <3>4, <3>5, CarriedSets
    <3>7. f[m] \notin Marked(q)'
      <4>1. q \notin chain[m].by
        BY <3>4, <3>5 DEF Marked, Carried
      <4>. QED
        BY <3>5, <4>1 DEF Marked, Carried
    <3>. QED
      BY <3>3, <3>6, <3>7
  <2>. QED
    BY <2>2, <2>3
<1>6. ASSUME v.ports # None
      PROVE  q = Server /\ v.adds = {} /\ (~v.old => Marked(q)' = GuardPositions')
  <2>1. q = Server /\ v.adds = {}
    BY <1>6 DEF Marks
  <2>2. ASSUME ~v.old PROVE Marked(q)' = GuardPositions'
    <3>1. M = GuardPositions /\ \A m \in fresh : chain'[m].tag # "guard"
      BY <1>6, <2>2 DEF Marks
    <3>. QED
      BY <1>1, <3>1, CarriedSets
  <2>. QED
    BY <2>1, <2>2
<1>. QED
  BY <1>3, <1>4, <1>5, <1>6 DEF Marks

\* The plan of an idle process.
LEMMA NothingIsPlan == Nothing \in Plans /\ Nothing.dels = 0 /\ Nothing.adds = {}
                       /\ Nothing.ports = None /\ ~Nothing.old
BY DEF Nothing, Plan, Plans

\* An idle process holds nothing.
LEMMA IdleMarks ==
    ASSUME NEW q \in Procs, Marked(q)' = {}, work'[q] = Nothing
    PROVE  Marks(q, work[q])'
<1>1. Cardinality({}) = 0
  BY FS_EmptySet
<1>. QED
  BY <1>1, NothingIsPlan DEF Marks

\* A process goes on with plan v, or is finished with it.
LEMMA DoneMarks ==
    ASSUME NEW q \in Procs, NEW v \in Plans, chain' \in Seq(RuleSet), Marks(q, v)',
           work'[q] = IF v.adds = {} /\ v.dels = 0 THEN Nothing ELSE v
    PROVE  work'[q] \in Plans /\ Marks(q, work[q])'
<1>1. CASE v.adds = {} /\ v.dels = 0
  <2>1. DOMAIN chain' = 1..Len(chain') /\ Len(chain') \in Nat /\ Marked(q)' \in SUBSET DOMAIN chain'
    BY DEF Marked
  <2>2. IsFiniteSet(Marked(q)') /\ Cardinality(Marked(q)') \in Nat
    <3>1. IsFiniteSet(DOMAIN chain')
      BY <2>1, FS_Interval
    <3>. QED
      BY <2>1, <3>1, FS_Subset, FS_CardinalityType
  <2>3. Cardinality(Marked(q)') = 0
    BY <1>1, <2>2 DEF Marks
  <2>4. Marked(q)' = {}
    BY <2>2, <2>3, FS_EmptySet
  <2>. QED
    BY <1>1, <2>4, IdleMarks, NothingIsPlan
<1>2. CASE ~(v.adds = {} /\ v.dels = 0)
  BY <1>2 DEF Marks
<1>. QED
  BY <1>1, <1>2

\* A rule in other hands is the same rule.
LEMMA RuleWith ==
    ASSUME NEW r \in RuleSet, NEW B \in SUBSET Procs, NEW s, s = [r EXCEPT !.by = B]
    PROVE  s \in RuleSet /\ s.tag = r.tag /\ s.key = r.key /\ s.by = B
BY DEF RuleSet

\* A function on 1..c is a sequence.
LEMMA SequenceOf ==
    ASSUME NEW R, NEW c \in Nat, NEW s \in [1..c -> R]
    PROVE  s \in Seq(R)
OBVIOUS

\* Taking handles leaves the rules, and other processes' handles, alone.
LEMMA MarkShape ==
    ASSUME Types, NEW p \in Procs, NEW S \in SUBSET DOMAIN chain, chain' = Mark(p, S)
    PROVE  Relabelled /\ Marked(p)' = Marked(p) \cup S /\ \A q : q # p => Marked(q)' = Marked(q)
<1>1. /\ DOMAIN chain' = DOMAIN chain
      /\ \A n \in DOMAIN chain : chain'[n] = IF n \in S THEN [chain[n] EXCEPT !.by = @ \cup {p}] ELSE chain[n]
  BY DEF Mark
<1>2. ASSUME NEW n \in DOMAIN chain
      PROVE  /\ chain'[n] \in RuleSet /\ chain'[n].tag = chain[n].tag /\ chain'[n].key = chain[n].key
             /\ chain'[n].by = IF n \in S THEN chain[n].by \cup {p} ELSE chain[n].by
  <2>1. chain[n] \in RuleSet /\ chain[n].by \cup {p} \in SUBSET Procs
    BY Positions DEF RuleSet
  <2>2. CASE n \in S
    <3>1. PICK r \in RuleSet, B \in SUBSET Procs : r = chain[n] /\ B = chain[n].by \cup {p}
      BY <2>1
    <3>2. chain'[n] = [r EXCEPT !.by = B]
      BY <1>1, <2>2, <3>1
    <3>. QED
      BY <2>2, <3>1, <3>2, RuleWith
  <2>3. CASE n \notin S
    BY <1>1, <2>1, <2>3
  <2>. QED
    BY <2>2, <2>3
<1>3. chain' \in Seq(RuleSet)
  <2>1. DOMAIN chain = 1..Len(chain) /\ Len(chain) \in Nat
    BY Positions
  <2>2. chain' \in [DOMAIN chain -> RuleSet]
    BY <1>2 DEF Mark
  <2>. QED
    BY <2>1, <2>2, SequenceOf
<1>. QED
  BY <1>1, <1>2, <1>3 DEF Relabelled, Marked

\* Giving up handles leaves the rules, and other processes' handles, alone.
LEMMA UnmarkShape ==
    ASSUME Types, NEW p \in Procs, NEW S, chain' = Unmarked(p, S)
    PROVE  Relabelled /\ Marked(p)' = Marked(p) \ S /\ \A q : q # p => Marked(q)' = Marked(q)
<1>1. /\ DOMAIN chain' = DOMAIN chain
      /\ \A n \in DOMAIN chain : chain'[n] = IF n \in S THEN [chain[n] EXCEPT !.by = @ \ {p}] ELSE chain[n]
  BY DEF Unmarked
<1>2. ASSUME NEW n \in DOMAIN chain
      PROVE  /\ chain'[n] \in RuleSet /\ chain'[n].tag = chain[n].tag /\ chain'[n].key = chain[n].key
             /\ chain'[n].by = IF n \in S THEN chain[n].by \ {p} ELSE chain[n].by
  <2>1. chain[n] \in RuleSet /\ chain[n].by \ {p} \in SUBSET Procs
    BY Positions DEF RuleSet
  <2>2. CASE n \in S
    <3>1. PICK r \in RuleSet, B \in SUBSET Procs : r = chain[n] /\ B = chain[n].by \ {p}
      BY <2>1
    <3>2. chain'[n] = [r EXCEPT !.by = B]
      BY <1>1, <2>2, <3>1
    <3>. QED
      BY <2>2, <3>1, <3>2, RuleWith
  <2>3. CASE n \notin S
    BY <1>1, <2>1, <2>3
  <2>. QED
    BY <2>2, <2>3
<1>3. chain' \in Seq(RuleSet)
  <2>1. DOMAIN chain = 1..Len(chain) /\ Len(chain) \in Nat
    BY Positions
  <2>2. chain' \in [DOMAIN chain -> RuleSet]
    BY <1>2 DEF Unmarked
  <2>. QED
    BY <2>1, <2>2, SequenceOf
<1>. QED
  BY <1>1, <1>2, <1>3 DEF Relabelled, Marked

\* A process whose own handles did not change hands still has what it had.
LEMMA SameMarks ==
    ASSUME Relabelled, NEW q, NEW w, Marks(q, w), Marked(q)' = Marked(q)
    PROVE  Marks(q, w)'
<1>1. /\ Managed' = Managed /\ GuardPositions' = GuardPositions
      /\ \A k : Copies(k)' = Copies(k)
  BY RelabelledSets
<1>2. ASSUME NEW n \in Marked(q), chain[n].key \in w.close \/ Copies(chain[n].key) \ Marked(q) # {}
      PROVE  (chain[n].key \in w.close \/ Copies(chain[n].key) \ Marked(q) # {})'
  <2>1. PICK k : k = chain[n].key
    OBVIOUS
  <2>2. chain'[n].key = k
    BY <2>1 DEF Relabelled, Marked
  <2>. QED
    BY <1>1, <1>2, <2>1, <2>2
<1>. QED
  BY <1>1, <1>2 DEF Marks

\* A process lists the chain and holds what it will delete.
LEMMA BeginStep ==
    ASSUME ChainInv, NEW p \in Procs, NEW adds \in SUBSET Keys, NEW dels \in SUBSET Managed,
           NEW close \in SUBSET Keys, Begin(p, adds, dels, close),
           \A n \in dels : chain[n].key \in close \/ Copies(chain[n].key) \ dels # {}
    PROVE  ChainInv' /\ Relabelled
<1>1. /\ work[p] = Nothing /\ chain' = Mark(p, dels) /\ UNCHANGED <<base, stray>>
      /\ work' = [work EXCEPT ![p] = Plan(adds, Cardinality(dels), None,
                                          close \cap {chain[n].key : n \in dels})]
  BY DEF Begin, IsIdle
<1>2. Types /\ dels \in SUBSET DOMAIN chain /\ work \in [Procs -> Plans]
  BY DEF ChainInv, Types, Managed
<1>3. Cardinality(dels) \in Nat
  BY <1>2, Positions
<1>4. Marked(p) = {}
  <2>1. Marks(p, Nothing)
    BY <1>1 DEF ChainInv
  <2>. QED
    BY <1>2, <2>1, NothingHeld, NothingIsPlan
<1>5. Relabelled /\ Marked(p)' = dels /\ \A q : q # p => Marked(q)' = Marked(q)
  BY <1>1, <1>2, <1>4, MarkShape
<1>6. PICK w : w = Plan(adds, Cardinality(dels), None, close \cap {chain[n].key : n \in dels})
  OBVIOUS
<1>7. /\ w \in Plans /\ w.adds = adds /\ w.dels = Cardinality(dels) /\ w.ports = None /\ ~w.old
      /\ w.close = close \cap {chain[n].key : n \in dels}
  BY <1>3, <1>6 DEF Plan, Plans
<1>8. work'[p] = w /\ work' \in [Procs -> Plans] /\ \A q \in Procs : q # p => work'[q] = work[q]
  BY <1>1, <1>2, <1>6, <1>7
<1>9. Marks(p, work[p])'
  <2>1. Managed' = Managed /\ \A k : Copies(k)' = Copies(k)
    BY <1>5, RelabelledSets
  <2>2. ASSUME NEW n \in dels
        PROVE  (chain[n].key \in w.close \/ Copies(chain[n].key) \ Marked(p) # {})'
    <3>1. PICK k : k = chain[n].key
      OBVIOUS
    <3>2. chain'[n].key = k
      BY <1>2, <1>5, <3>1 DEF Relabelled
    <3>3. k \in close => k \in w.close
      BY <1>7, <3>1
    <3>. QED
      BY <1>5, <2>1, <3>1, <3>2, <3>3
  <2>3. Marked(p)' = dels /\ work'[p] = w /\ dels \subseteq Managed'
    BY <1>5, <1>8, <2>1
  <2>4. Cardinality(dels) <= Cardinality(dels)
    BY <1>3
  <2>. QED
    BY <1>7, <2>2, <2>3, <2>4 DEF Marks
<1>10. \A q \in Procs : Marks(q, work[q])'
  <2>. SUFFICES ASSUME NEW q \in Procs, q # p PROVE Marks(q, work[q])'
    BY <1>9
  <2>1. PICK v : v = work[q]
    OBVIOUS
  <2>2. Marks(q, v)'
    BY <1>5, <2>1, SameMarks DEF ChainInv
  <2>. QED
    BY <1>8, <2>1, <2>2
<1>11. Types' /\ (~base => chain = <<>>)'
  <2>1. chain' \in Seq(RuleSet)
    BY <1>5 DEF Relabelled
  <2>2. chain = <<>> => chain' = <<>>
    BY <1>5, <2>1, <1>2 DEF Relabelled, Types
  <2>. QED
    BY <1>1, <1>8, <2>1, <2>2 DEF ChainInv, Types
<1>12. Ordered' /\ (~stray => Bypassed)'
  BY <1>1, <1>5, RelabelledSets DEF ChainInv
<1>. QED
  BY <1>5, <1>10, <1>11, <1>12 DEF ChainInv

\* Nothing changes the chain or the plans.
LEMMA StillStep ==
    ASSUME ChainInv, UNCHANGED <<chain, work, stray>>, base' \in {base, TRUE}
    PROVE  ChainInv' /\ Relabelled
<1>1. Relabelled
  BY DEF ChainInv, Types, Relabelled
<1>2. \A q \in Procs : Marks(q, work[q])'
  BY DEF ChainInv, Marks, Marked, Managed, Copies, GuardPositions
<1>3. Ordered' /\ (~stray => Bypassed)'
  BY <1>1, RelabelledSets DEF ChainInv
<1>4. Types' /\ (~base => chain = <<>>)'
  BY DEF ChainInv, Types
<1>. QED
  BY <1>1, <1>2, <1>3, <1>4 DEF ChainInv

\* Every operation begins with a listing.  A rule it will delete is one it was
\* asked to close, or has a copy that it will keep.
LEMMA CallStep ==
    ASSUME ChainInv, Call
    PROVE  /\ ChainInv' /\ Relabelled
           /\ base' \in {base, TRUE}
<1>0. Types /\ Server \in Procs /\ Managed \subseteq DOMAIN chain
  BY DEF ChainInv, Procs, Managed
<1>1. \A n \in Managed : chain[n].key \in Keys
  BY <1>0, Positions DEF Managed, RuleSet
<1>2. ASSUME NEW p \in Procs, NEW k \in Keys, CallAddRule(p, k) PROVE ChainInv' /\ Relabelled
  BY <1>2, BeginStep DEF CallAddRule
<1>3. ASSUME NEW p \in Procs, NEW k \in Keys, RemoveRule(p, k) PROVE ChainInv' /\ Relabelled
  <2>1. PICK D : D = First(Copies(k))
    OBVIOUS
  <2>2. D \in SUBSET Managed /\ \A n \in D : chain[n].key = k
    BY <2>1 DEF First, Copies
  <2>3. Begin(p, {}, D, {k})
    BY <1>3, <2>1 DEF RemoveRule
  <2>. QED
    BY <2>2, <2>3, BeginStep
<1>4. ASSUME NEW p \in Procs, NEW u \in Users, RemoveUserRules(p, u) PROVE ChainInv' /\ Relabelled
  <2>1. PICK D : D = {n \in Managed : chain[n].key.user = u}
    OBVIOUS
  <2>2. D \in SUBSET Managed /\ (\A n \in D : chain[n].key \in KeysOf(u)) /\ KeysOf(u) \in SUBSET Keys
    BY <1>1, <2>1 DEF KeysOf
  <2>3. Begin(p, {}, D, KeysOf(u))
    BY <1>4, <2>1 DEF RemoveUserRules
  <2>. QED
    BY <2>2, <2>3, BeginStep
<1>5. ASSUME NEW u \in Users, NEW want \in UserSets(u), Reconcile(u, want) PROVE ChainInv' /\ Relabelled
  <2>. DEFINE at == {k.ip : k \in want}
              enabled == {k.group : k \in want}
              stale(k) == k.user = u /\ (k.ip \notin at \/ k.group \notin enabled)
  <2>1. PICK D, A, C : /\ D = {n \in Managed : stale(chain[n].key)}
                       /\ A = want \ Present /\ C = KeysOf(u) \ want
    OBVIOUS
  <2>2. want \in SUBSET Keys
    BY DEF UserSets, KeysOf
  <2>3. Begin(Server, A, D, C)
    BY <1>5, <2>1 DEF Reconcile
  <2>4. \A n \in D : chain[n].key \in C
    <3>. SUFFICES ASSUME NEW n \in D PROVE chain[n].key \in C
      OBVIOUS
    <3>1. PICK k \in Keys : k = chain[n].key /\ stale(k)
      BY <1>1, <2>1
    <3>2. k \notin want
      BY <3>1
    <3>3. k \in KeysOf(u)
      BY <3>1 DEF KeysOf
    <3>. QED
      BY <2>1, <3>1, <3>2, <3>3
  <2>5. D \in SUBSET Managed /\ A \in SUBSET Keys /\ C \in SUBSET Keys
    BY <2>1, <2>2 DEF KeysOf
  <2>. QED
    BY <1>0, <2>3, <2>4, <2>5, BeginStep
<1>6. ASSUME NEW want \in SUBSET Keys, ReconcileAll(want) PROVE ChainInv' /\ Relabelled
  <2>. DEFINE kept == UNION {First(Copies(k)) : k \in want}
  <2>1. PICK D, A, C : D = Managed \ kept /\ A = want \ Present /\ C = Keys \ want
    OBVIOUS
  <2>2. Begin(Server, A, D, C)
    BY <1>6, <2>1 DEF ReconcileAll
  <2>3. ASSUME NEW n \in D, chain[n].key \notin C PROVE Copies(chain[n].key) \ D # {}
    <3>1. PICK k \in want : k = chain[n].key
      BY <1>1, <2>1, <2>3
    <3>2. n \in Copies(k) /\ Copies(k) \subseteq Nat
      BY <1>0, <2>1, <3>1, Positions DEF Copies, Managed
    <3>3. PICK m \in First(Copies(k)) : m \in Copies(k)
      BY <3>2, FirstExists
    <3>4. m \notin D
      BY <2>1, <3>3
    <3>. QED
      BY <3>1, <3>3, <3>4
  <2>4. D \in SUBSET Managed /\ A \in SUBSET Keys /\ C \in SUBSET Keys
    BY <2>1
  <2>. QED
    BY <1>0, <2>2, <2>3, <2>4, BeginStep
<1>7. ASSUME NEW ports \in SUBSET Ports, SyncGuard(ports) PROVE ChainInv' /\ Relabelled
  <2>0. work[Server] = Nothing /\ UNCHANGED <<base, stray>>
    BY <1>7 DEF SyncGuard, IsIdle
  <2>1. CASE guardAtTail(ports)
    BY <1>7, <2>0, <2>1, StillStep DEF SyncGuard
  <2>2. CASE ~guardAtTail(ports)
    <3>1. PICK w, G : w = Plan({}, Cardinality(GuardPositions), ports, {}) /\ G = GuardPositions
      OBVIOUS
    <3>2. work' = [work EXCEPT ![Server] = w] /\ chain' = Mark(Server, G)
      BY <1>7, <2>2, <3>1 DEF SyncGuard
    <3>3. G \in SUBSET DOMAIN chain /\ Cardinality(G) \in Nat
      BY <1>0, <3>1, Positions DEF GuardPositions
    <3>4. /\ w \in Plans /\ w.adds = {} /\ w.dels = Cardinality(G) /\ w.ports = ports /\ ~w.old
          /\ ports # None
      BY <3>1, <3>3, ChainAssumption DEF Plan, Plans
    <3>5. Marked(Server) = {}
      <4>1. Marks(Server, Nothing)
        BY <1>0, <2>0 DEF ChainInv
      <4>. QED
        BY <1>0, <4>1, NothingHeld, NothingIsPlan
    <3>6. Relabelled /\ Marked(Server)' = G /\ \A q : q # Server => Marked(q)' = Marked(q)
      BY <1>0, <3>2, <3>3, <3>5, MarkShape
    <3>7. GuardPositions' = G
      BY <3>1, <3>6, RelabelledSets
    <3>8. /\ work'[Server] = w /\ work' \in [Procs -> Plans]
          /\ \A q \in Procs : q # Server => work'[q] = work[q]
      BY <1>0, <3>2, <3>4 DEF Types
    <3>9. Marks(Server, work[Server])'
      <4>1. Cardinality(G) <= Cardinality(G)
        BY <3>3
      <4>. QED
        BY <3>4, <3>6, <3>7, <3>8, <4>1 DEF Marks
    <3>10. \A q \in Procs : Marks(q, work[q])'
      <4>. SUFFICES ASSUME NEW q \in Procs, q # Server PROVE Marks(q, work[q])'
        BY <3>9
      <4>1. PICK v : v = work[q]
        OBVIOUS
      <4>2. Marks(q, v)'
        BY <3>6, <4>1, SameMarks DEF ChainInv
      <4>. QED
        BY <3>8, <4>1, <4>2
    <3>11. Types' /\ (~base => chain = <<>>)'
      <4>1. chain' \in Seq(RuleSet) /\ (chain = <<>> => chain' = <<>>)
        BY <1>0, <3>6 DEF Relabelled, Types
      <4>. QED
        BY <2>0, <3>8, <4>1 DEF ChainInv, Types
    <3>12. Ordered' /\ (~stray => Bypassed)'
      BY <2>0, <3>6, RelabelledSets DEF ChainInv
    <3>. QED
      BY <3>6, <3>10, <3>11, <3>12 DEF ChainInv
  <2>. QED
    BY <2>1, <2>2
<1>8. ASSUME EnsureBase PROVE ChainInv' /\ Relabelled
  BY <1>8, StillStep DEF EnsureBase
<1>9. base' \in {base, TRUE}
  BY DEF Call, CallAddRule, RemoveRule, RemoveUserRules, Reconcile, ReconcileAll, Begin, SyncGuard,
         EnsureBase
<1>. QED
  BY <1>2, <1>3, <1>4, <1>5, <1>6, <1>7, <1>8, <1>9 DEF Call

\* A plan that only lost something to add.
LEMMA LighterPlan ==
    ASSUME NEW q, NEW w, NEW v, Marks(q, w)', v.ports = w.ports, v.old = w.old, v.dels = w.dels,
           v.close = w.close, v.adds \subseteq w.adds
    PROVE  Marks(q, v)'
BY DEF Marks

\* The chain only grew, and not the guard.
LEMMA GrownMarks ==
    ASSUME Types, NEW f, NEW fresh, Carried(DOMAIN chain, f, fresh),
           \A m \in fresh : chain'[m].tag # "guard",
           NEW q \in Procs, NEW w \in Plans, Marks(q, w)
    PROVE  Marks(q, w)'
<1>1. PICK K : K = DOMAIN chain
  OBVIOUS
<1>2. Marked(q) \cap K = Marked(q) /\ \A k : Copies(k) \subseteq K
  BY <1>1 DEF Marked, Copies, Managed
<1>3. Cardinality(Marked(q) \cap K) <= w.dels
  BY <1>2 DEF Marks
<1>. QED
  BY <1>1, <1>2, <1>3, CarriedMarks

\* A new allow rule at the head, or a host rule at either end, disturbs nothing.
LEMMA GrownStep ==
    ASSUME ChainInv, base, UNCHANGED <<base, stray>>, NEW r \in RuleSet, r.by = {},
           \/ chain' = <<r>> \o chain /\ r.tag # "guard"
           \/ chain' = Append(chain, r) /\ r.tag = "host"
    PROVE  /\ base' = TRUE /\ chain' \in Seq(RuleSet)
           /\ Ordered' /\ (~stray => Bypassed)'
           /\ \A q \in Procs, w \in Plans : Marks(q, w) => Marks(q, w)'
<1>0. Types
  BY DEF ChainInv
<1>1. PICK f, fresh : /\ Carried(DOMAIN chain, f, fresh)
                      /\ \A m \in fresh : chain'[m].tag # "guard"
                      /\ \A m \in fresh, j \in DOMAIN chain' :
                           chain'[m].tag = "allow" /\ chain'[j].tag = "guard" => m < j
  <2>1. CASE chain' = <<r>> \o chain /\ r.tag # "guard"
    <3>1. PICK f : /\ Carried(DOMAIN chain, f, {1}) /\ chain'[1] = r
                   /\ \A n \in DOMAIN chain : f[n] > 1
      BY <1>0, <2>1, InsertCarries
    <3>2. \A j \in DOMAIN chain' : chain'[j].tag = "guard" => 1 < j
      <4>. SUFFICES ASSUME NEW j \in DOMAIN chain', chain'[j].tag = "guard" PROVE 1 < j
        OBVIOUS
      <4>1. j # 1
        BY <2>1, <3>1
      <4>2. PICK n \in DOMAIN chain : f[n] = j
        BY <3>1, <4>1 DEF Carried
      <4>. QED
        BY <3>1, <4>2, <4>1 DEF Carried
    <3>. QED
      BY <2>1, <3>1, <3>2
  <2>2. CASE chain' = Append(chain, r) /\ r.tag = "host"
    <3>1. PICK f : Carried(DOMAIN chain, f, {Len(chain) + 1}) /\ chain'[Len(chain) + 1] = r
      BY <1>0, <2>2, AppendCarries
    <3>. QED
      BY <2>2, <3>1
  <2>. QED
    BY <2>1, <2>2
<1>2. GuardPositions \subseteq DOMAIN chain /\ chain' \in Seq(RuleSet)
  BY <1>1 DEF GuardPositions, Carried
<1>3. Ordered'
  BY <1>0, <1>1, CarriedOrdered DEF ChainInv
<1>4. Bypassed => Bypassed'
  BY <1>0, <1>1, <1>2, CarriedBypassed
<1>5. \A q \in Procs, w \in Plans : Marks(q, w) => Marks(q, w)'
  BY <1>0, <1>1, GrownMarks
<1>. QED
  BY <1>2, <1>3, <1>4, <1>5 DEF ChainInv

\* Process p goes on with plan v.
LEMMA GoOnPlan ==
    ASSUME work \in [Procs -> Plans], NEW p \in Procs, NEW v \in Plans, work' = GoOn(p, v)
    PROVE  /\ work' \in [Procs -> Plans]
           /\ work'[p] = IF v.adds = {} /\ v.dels = 0 THEN Nothing ELSE v
           /\ \A q \in Procs : q # p => work'[q] = work[q]
BY NothingIsPlan DEF GoOn

\* AddRule inserts its rule, or fails and changes nothing.
LEMMA AddStep ==
    ASSUME ChainInv, NEW p \in Procs, NEW k \in Keys, AddRule(p, k)
    PROVE  /\ ChainInv'
           /\ base' = base /\ (chain' = chain \/ (base /\ chain' = InsertRule(k)))
<1>0. Types /\ work \in [Procs -> Plans] /\ base \in BOOLEAN
  BY DEF ChainInv, Types
<1>1. PICK w \in Plans : w = work[p]
  BY <1>0
<1>2. PICK v : v = [w EXCEPT !.adds = @ \ {k}]
  OBVIOUS
<1>3. /\ v \in Plans /\ v.ports = w.ports /\ v.old = w.old /\ v.dels = w.dels
      /\ v.close = w.close /\ v.adds \subseteq w.adds
  BY <1>1, <1>2 DEF Plans
<1>4. work' = GoOn(p, v) /\ UNCHANGED <<base, stray>>
  BY <1>1, <1>2 DEF AddRule
<1>5. /\ work' \in [Procs -> Plans] /\ (\A q \in Procs : q # p => work'[q] = work[q])
      /\ work'[p] = IF v.adds = {} /\ v.dels = 0 THEN Nothing ELSE v
  BY <1>0, <1>3, <1>4, GoOnPlan
<1>6. /\ chain' \in Seq(RuleSet) /\ (~base => chain = <<>>)'
      /\ Ordered' /\ (~stray => Bypassed)'
      /\ \A q \in Procs, x \in Plans : Marks(q, x) => Marks(q, x)'
  <2>1. CASE CanAdd /\ chain' = InsertRule(k)
    <3>1. AllowRule(k) \in RuleSet /\ AllowRule(k).by = {} /\ AllowRule(k).tag = "allow"
      BY DEF AllowRule, RuleSet
    <3>2. base /\ chain' = <<AllowRule(k)>> \o chain
      BY <2>1 DEF CanAdd, InsertRule
    <3>. QED
      BY <1>4, <3>1, <3>2, GrownStep
  <2>2. CASE chain' = chain
    <3>1. Relabelled
      BY <1>0, <2>2 DEF Types, Relabelled
    <3>2. \A q \in Procs : Marked(q)' = Marked(q)
      BY <2>2 DEF Marked
    <3>3. \A q \in Procs, x \in Plans : Marks(q, x) => Marks(q, x)'
      BY <3>1, <3>2, SameMarks
    <3>4. Ordered' /\ (~stray => Bypassed)'
      BY <1>4, <3>1, RelabelledSets DEF ChainInv
    <3>. QED
      BY <1>0, <1>4, <2>2, <3>3, <3>4 DEF ChainInv, Types
  <2>. QED
    BY <2>1, <2>2 DEF AddRule
<1>7. Marks(p, v)'
  <2>1. Marks(p, w)'
    BY <1>1, <1>6 DEF ChainInv
  <2>. QED
    BY <1>3, <2>1, LighterPlan
<1>8. \A q \in Procs : Marks(q, work[q])'
  <2>1. Marks(p, work[p])'
    BY <1>3, <1>5, <1>6, <1>7, DoneMarks
  <2>2. ASSUME NEW q \in Procs, q # p PROVE Marks(q, work[q])'
    <3>1. PICK x \in Plans : x = work[q]
      BY <1>0
    <3>2. Marks(q, x)'
      BY <1>6, <3>1 DEF ChainInv
    <3>. QED
      BY <1>5, <2>2, <3>1, <3>2
  <2>. QED
    BY <2>1, <2>2
<1>9. Types'
  BY <1>4, <1>5, <1>6 DEF ChainInv, Types
<1>10. base' = base /\ (chain' = chain \/ (base /\ chain' = InsertRule(k)))
  BY <1>4 DEF AddRule, CanAdd
<1>. QED
  BY <1>6, <1>8, <1>9, <1>10 DEF ChainInv

\* A handle of p is used up: its rule goes, and those who hold a copy of it note that.
LEMMA DeleteStep ==
    ASSUME ChainInv, NEW p \in Procs, DeleteByHandle(p)
    PROVE  ChainInv'
<1>0. Types /\ work \in [Procs -> Plans] /\ base \in BOOLEAN
  BY DEF ChainInv, Types
<1>1. PICK w \in Plans : w = work[p]
  BY <1>0
<1>2. w.ports = None /\ w.dels > 0 /\ w.dels \in Nat /\ Marks(p, w)
  BY <1>1 DEF DeleteByHandle, Deleting, ChainInv, Plans
<1>3. PICK n \in Named(p) : /\ chain' = RemoveAt(chain, n)
                            /\ work' = Noting(p, chain[n], Tried(p))
                            /\ stray' = (stray \/ chain[n].tag = "guard")
  BY DEF DeleteByHandle
<1>4. n \in DOMAIN chain /\ (w.old \/ n \in Marked(p))
  BY <1>1, <1>3 DEF Named, First, Marked
<1>5. PICK K : K = DOMAIN chain \ {n}
  OBVIOUS
<1>6. PICK f : Carried(K, f, {})
  BY <1>0, <1>3, <1>4, <1>5, DeleteCarries
<1>7. PICK v : v = [w EXCEPT !.dels = @ - 1]
  OBVIOUS
<1>8. /\ v \in Plans /\ v.ports = w.ports /\ v.old = w.old /\ v.adds = w.adds /\ v.close = w.close
      /\ v.dels = w.dels - 1
  BY <1>1, <1>2, <1>7 DEF Plans
<1>9. PICK r \in RuleSet : r = chain[n]
  BY <1>0, <1>4, Positions
<1>10. PICK W : W = GoOn(p, v)
  OBVIOUS
<1>11. /\ W \in [Procs -> Plans] /\ W[p] = (IF v.adds = {} /\ v.dels = 0 THEN Nothing ELSE v)
       /\ \A q \in Procs : q # p => W[q] = work[q]
  BY <1>0, <1>8, <1>10, NothingIsPlan DEF GoOn
<1>12. work' = Noting(p, r, W)
  BY <1>1, <1>3, <1>7, <1>9, <1>10 DEF Tried
<1>13. \A q : IsFiniteSet(Marked(q)) /\ Cardinality(Marked(q)) \in Nat
  BY <1>0, Positions DEF Marked
<1>14. work'[p] \in Plans /\ Marks(p, work[p])'
  <2>1. work'[p] = IF v.adds = {} /\ v.dels = 0 THEN Nothing ELSE v
    BY <1>11, <1>12 DEF Noting
  <2>2. Cardinality(Marked(p) \cap K) <= v.dels
    <3>1. CASE w.old
      <4>1. Marked(p) = {} /\ Marked(p) \cap K = {}
        BY <1>2, <3>1 DEF Marks
      <4>2. Cardinality({}) = 0
        BY FS_EmptySet
      <4>. QED
        BY <1>2, <1>8, <4>1, <4>2
    <3>2. CASE n \in Marked(p)
      <4>1. Marked(p) \cap K = Marked(p) \ {n}
        BY <1>5 DEF Marked
      <4>2. Cardinality(Marked(p) \ {n}) = Cardinality(Marked(p)) - 1
        BY <1>13, <3>2, FS_RemoveElement
      <4>3. Cardinality(Marked(p)) <= w.dels /\ Cardinality(Marked(p)) \in Nat
        BY <1>2, <1>13 DEF Marks
      <4>4. Cardinality(Marked(p) \cap K) = Cardinality(Marked(p)) - 1
        BY <4>1, <4>2
      <4>. QED
        BY <1>2, <1>8, <4>3, <4>4
    <3>. QED
      BY <1>4, <3>1, <3>2
  <2>3. \A j \in Marked(p) : Copies(chain[j].key) \subseteq K \cup Marked(p)
    <3>. SUFFICES ASSUME NEW j \in Marked(p) PROVE Copies(chain[j].key) \subseteq K \cup Marked(p)
      OBVIOUS
    <3>1. n \in Marked(p)
      BY <1>2, <1>4 DEF Marks
    <3>. QED
      BY <1>5, <3>1 DEF Copies, Managed
  <2>4. Marks(p, v)'
    BY <1>0, <1>2, <1>6, <1>8, <2>2, <2>3, CarriedMarks
  <2>5. chain' \in Seq(RuleSet)
    BY <1>6 DEF Carried
  <2>. QED
    BY <1>8, <2>1, <2>4, <2>5, DoneMarks
<1>15. ASSUME NEW q \in Procs, q # p PROVE work'[q] \in Plans /\ Marks(q, work[q])'
  <2>. DEFINE alike == \E j \in Marked(q) : chain[j].tag = r.tag /\ chain[j].key = r.key
  <2>1. PICK x \in Plans : x = work[q] /\ Marks(q, x)
    BY <1>0 DEF ChainInv
  <2>2. PICK y : y = IF r.tag = "allow" /\ alike THEN [x EXCEPT !.close = @ \cup {r.key}] ELSE x
    OBVIOUS
  <2>3. work'[q] = y
    BY <1>11, <1>12, <1>15, <2>1, <2>2 DEF Noting
  <2>4. /\ y \in Plans /\ y.ports = x.ports /\ y.old = x.old /\ y.adds = x.adds /\ y.dels = x.dels
        /\ x.close \subseteq y.close /\ (r.tag = "allow" /\ alike => r.key \in y.close)
    <3>1. CASE r.tag = "allow" /\ alike
      <4>1. r.key \in Keys
        BY <1>9, <3>1 DEF RuleSet
      <4>2. y = [x EXCEPT !.close = @ \cup {r.key}]
        BY <2>2, <3>1
      <4>. QED
        BY <2>1, <4>1, <4>2 DEF Plans
    <3>2. CASE ~(r.tag = "allow" /\ alike)
      BY <2>1, <2>2, <3>2
    <3>. QED
      BY <3>1, <3>2
  <2>5. Cardinality(Marked(q) \cap K) <= y.dels
    <3>1. /\ Cardinality(Marked(q) \cap K) <= Cardinality(Marked(q))
          /\ Cardinality(Marked(q) \cap K) \in Nat
      <4>1. IsFiniteSet(Marked(q)) /\ Marked(q) \cap K \subseteq Marked(q)
        BY <1>13
      <4>. QED
        BY <4>1, FS_Subset, FS_CardinalityType
    <3>2. Cardinality(Marked(q)) \in Nat /\ Cardinality(Marked(q)) <= x.dels /\ x.dels \in Nat
      BY <1>13, <2>1 DEF Marks, Plans
    <3>. QED
      BY <2>4, <3>1, <3>2
  <2>6. ASSUME NEW j \in Marked(q), x.ports = None
        PROVE  Copies(chain[j].key) \subseteq K \cup Marked(q) \/ chain[j].key \in y.close
    <3>1. CASE n \in Copies(chain[j].key)
      <4>1. r.tag = "allow" /\ r.key = chain[j].key
        BY <1>9, <3>1 DEF Copies, Managed
      <4>2. chain[j].tag = "allow"
        BY <2>1, <2>6 DEF Marks, Managed
      <4>. QED
        BY <2>4, <4>1, <4>2
    <3>2. CASE n \notin Copies(chain[j].key)
      BY <1>5, <3>2 DEF Copies, Managed
    <3>. QED
      BY <3>1, <3>2
  <2>7. Marks(q, y)'
    <3>. HIDE DEF alike
    <3>1. /\ Marks(q, x) /\ y.ports = x.ports /\ y.old = x.old
          /\ y.adds \subseteq x.adds /\ x.close \subseteq y.close
      BY <2>1, <2>4
    <3>. QED
      BY <1>0, <1>6, <2>1, <2>4, <3>1, <2>5, <2>6, CarriedMarks
  <2>. QED
    BY <2>3, <2>4, <2>7
<1>16. work' \in [Procs -> Plans]
  <2>1. work' = [q \in Procs |-> work'[q]]
    BY <1>12 DEF Noting
  <2>2. \A q \in Procs : work'[q] \in Plans
    BY <1>14, <1>15
  <2>. QED
    BY <2>1, <2>2
<1>17. Ordered'
  BY <1>0, <1>6, CarriedOrdered DEF ChainInv
<1>18. stray' \in BOOLEAN /\ (~stray => Bypassed)'
  <2>1. stray' \in BOOLEAN
    BY <1>3
  <2>2. ASSUME ~stray' PROVE Bypassed'
    <3>1. ~stray /\ chain[n].tag # "guard"
      BY <1>3, <2>2
    <3>2. Bypassed /\ GuardPositions \subseteq K
      BY <1>5, <3>1 DEF ChainInv, GuardPositions
    <3>. QED
      BY <1>0, <1>6, <3>2, CarriedBypassed
  <2>. QED
    BY <2>1, <2>2
<1>19. base' = TRUE /\ chain' \in Seq(RuleSet)
  <2>1. chain # <<>>
    BY <1>4
  <2>. QED
    BY <1>6, <2>1 DEF ChainInv, Types, DeleteByHandle, Carried
<1>. QED
  BY <1>14, <1>15, <1>16, <1>17, <1>18, <1>19 DEF ChainInv, Types

\* Only handles changed hands.
LEMMA RelabelledStep ==
    ASSUME ChainInv, Relabelled, UNCHANGED <<base, stray>>, work' \in [Procs -> Plans],
           NEW p \in Procs, Marks(p, work[p])',
           \A q \in Procs : q # p => work'[q] = work[q] /\ Marked(q)' = Marked(q)
    PROVE  ChainInv'
<1>1. ASSUME NEW q \in Procs, q # p PROVE Marks(q, work[q])'
  <2>1. PICK x : x = work[q]
    OBVIOUS
  <2>2. Marks(q, x)'
    BY <1>1, <2>1, SameMarks DEF ChainInv
  <2>. QED
    BY <1>1, <2>1, <2>2
<1>2. Types' /\ (~base => chain = <<>>)'
  BY DEF ChainInv, Types, Relabelled
<1>3. Ordered' /\ (~stray => Bypassed)'
  BY RelabelledSets DEF ChainInv
<1>. QED
  BY <1>1, <1>2, <1>3 DEF ChainInv

\* A pass gives up some of its handles.
LEMMA FewerMarks ==
    ASSUME Relabelled, NEW p, NEW w, NEW v, Marks(p, w), w.ports = None,
           v.ports = w.ports, v.old = w.old, v.close = w.close,
           Marked(p)' \subseteq Marked(p), Cardinality(Marked(p)') <= v.dels
    PROVE  Marks(p, v)'
<1>1. Managed' = Managed /\ \A k : Copies(k)' = Copies(k)
  BY RelabelledSets
<1>2. ASSUME NEW n \in Marked(p)'
      PROVE  (chain[n].key \in v.close \/ Copies(chain[n].key) \ Marked(p) # {})'
  <2>1. PICK k : k = chain[n].key
    OBVIOUS
  <2>2. chain'[n].key = k
    BY <2>1 DEF Relabelled, Marked
  <2>3. k \in w.close \/ Copies(k) \ Marked(p) # {}
    BY <2>1 DEF Marks
  <2>. QED
    BY <1>1, <2>2, <2>3
<1>3. Marked(p)' \subseteq Managed'
  BY <1>1 DEF Marks
<1>4. v.old => Marked(p)' = {}
  BY DEF Marks
<1>. QED
  BY <1>2, <1>3, <1>4 DEF Marks

\* A handle of p is used up without effect.
LEMMA DeleteFailsStep ==
    ASSUME ChainInv, NEW p \in Procs, DeleteByHandleFails(p)
    PROVE  ChainInv' /\ Relabelled /\ base' = base
<1>0. Types /\ work \in [Procs -> Plans]
  BY DEF ChainInv, Types
<1>1. PICK w \in Plans : w = work[p]
  BY <1>0
<1>2. w.ports = None /\ w.dels > 0 /\ w.dels \in Nat /\ Marks(p, w) /\ UNCHANGED <<base, stray>>
  BY <1>1 DEF DeleteByHandleFails, Deleting, ChainInv, Plans
<1>3. PICK v : v = [w EXCEPT !.dels = @ - 1]
  OBVIOUS
<1>4. /\ v \in Plans /\ v.ports = w.ports /\ v.old = w.old /\ v.adds = w.adds /\ v.close = w.close
      /\ v.dels = w.dels - 1
  BY <1>1, <1>2, <1>3 DEF Plans
<1>5. work' = GoOn(p, v)
  BY <1>1, <1>3 DEF DeleteByHandleFails, Tried
<1>6. /\ work' \in [Procs -> Plans] /\ (\A q \in Procs : q # p => work'[q] = work[q])
      /\ work'[p] = IF v.adds = {} /\ v.dels = 0 THEN Nothing ELSE v
  BY <1>0, <1>4, <1>5, GoOnPlan
<1>7. PICK M : M = Marked(p)
  OBVIOUS
<1>8. IsFiniteSet(M) /\ Cardinality(M) \in Nat /\ M \subseteq Nat /\ Cardinality(M) <= w.dels
  BY <1>0, <1>2, <1>7, Positions DEF Marked, Marks
<1>9. /\ Relabelled /\ (\A q \in Procs : q # p => Marked(q)' = Marked(q))
      /\ Marked(p)' \subseteq M /\ Cardinality(Marked(p)') <= v.dels
  <2>1. CASE chain' = Unmarked(p, First(Marked(p)))
    <3>1. PICK S : S = First(M)
      OBVIOUS
    <3>2. Relabelled /\ Marked(p)' = M \ S /\ \A q : q # p => Marked(q)' = Marked(q)
      BY <1>0, <1>7, <2>1, <3>1, UnmarkShape
    <3>3. CASE M = {}
      <4>1. Marked(p)' = {} /\ Cardinality({}) = 0
        BY <3>2, <3>3, FS_EmptySet
      <4>2. 0 <= v.dels
        BY <1>2, <1>4
      <4>. QED
        BY <3>2, <4>1, <4>2
    <3>4. CASE M # {}
      <4>1. PICK m \in S : m \in M
        BY <1>8, <3>1, <3>4, FirstExists
      <4>2. IsFiniteSet(M \ {m}) /\ Cardinality(M \ {m}) = Cardinality(M) - 1
        BY <1>8, <4>1, FS_RemoveElement
      <4>3. M \ S \subseteq M \ {m}
        BY <4>1
      <4>4. /\ Cardinality(M \ S) <= Cardinality(M \ {m}) /\ Cardinality(M \ S) \in Nat
        BY <4>2, <4>3, FS_Subset, FS_CardinalityType
      <4>5. Cardinality(M \ S) <= w.dels - 1
        BY <1>2, <1>8, <4>2, <4>4
      <4>. QED
        BY <1>4, <3>2, <4>5
    <3>. QED
      BY <3>3, <3>4
  <2>2. CASE work[p].dels > Cardinality(Marked(p)) /\ UNCHANGED chain
    <3>1. Relabelled
      BY <1>0, <2>2 DEF Types, Relabelled
    <3>2. \A q \in Procs : Marked(q)' = Marked(q)
      BY <2>2 DEF Marked
    <3>3. Cardinality(M) <= w.dels - 1
      BY <1>1, <1>2, <1>7, <1>8, <2>2
    <3>. QED
      BY <1>4, <1>7, <3>1, <3>2, <3>3
  <2>. QED
    BY <2>1, <2>2 DEF DeleteByHandleFails
<1>10. Marks(p, v)'
  BY <1>2, <1>4, <1>7, <1>9, FewerMarks
<1>11. Marks(p, work[p])'
  <2>1. chain' \in Seq(RuleSet)
    BY <1>9 DEF Relabelled
  <2>. QED
    BY <1>4, <1>6, <1>10, <2>1, DoneMarks
<1>12. ChainInv'
  BY <1>2, <1>6, <1>9, <1>11, RelabelledStep
<1>. QED
  BY <1>2, <1>9, <1>12

\* A process gives up all its handles: it failed or it died.
LEMMA ReleaseStep ==
    ASSUME ChainInv, NEW p \in Procs, chain' = Unmarked(p, DOMAIN chain),
           work' = [work EXCEPT ![p] = Nothing], UNCHANGED <<base, stray>>
    PROVE  ChainInv' /\ Relabelled
<1>0. Types /\ work \in [Procs -> Plans]
  BY DEF ChainInv, Types
<1>1. PICK S : S = DOMAIN chain
  OBVIOUS
<1>2. Relabelled /\ Marked(p)' = Marked(p) \ S /\ \A q : q # p => Marked(q)' = Marked(q)
  BY <1>0, <1>1, UnmarkShape
<1>3. Marked(p)' = {}
  BY <1>1, <1>2 DEF Marked
<1>4. /\ work' \in [Procs -> Plans] /\ work'[p] = Nothing
      /\ \A q \in Procs : q # p => work'[q] = work[q]
  BY <1>0, NothingIsPlan
<1>5. Marks(p, work[p])'
  BY <1>3, <1>4, IdleMarks
<1>. QED
  BY <1>2, <1>4, <1>5, RelabelledStep

\* SyncGuard's transaction as a whole: the guard goes, everything else stays, and
\* the new guard comes last.
LEMMA CommitShape ==
    ASSUME ChainInv, SyncGuardCommit
    PROVE  \E ports \in SUBSET Ports : \E f, c :
             /\ ports = work[Server].ports /\ ports # None /\ base /\ base' = base
             /\ c \in Nat /\ Len(chain') = c + Len(guardLayout(ports))
             /\ Carried(DOMAIN chain \ GuardPositions, f, (c + 1)..Len(chain'))
             /\ \A n \in DOMAIN chain \ GuardPositions : f[n] \in 1..c
             /\ \A n \in 1..Len(guardLayout(ports)) : chain'[c + n] = GuardRule(guardLayout(ports)[n])
             /\ GuardPositions' = (c + 1)..Len(chain')
             /\ Marked(Server) = GuardPositions
<1>0. Types /\ work \in [Procs -> Plans] /\ Server \in Procs
  BY DEF ChainInv, Types, Procs
<1>1. PICK w \in Plans : w = work[Server] /\ Marks(Server, w)
  BY <1>0 DEF ChainInv
<1>2. /\ w.ports # None /\ base /\ base' = base /\ ~w.old
      /\ chain' = OldGuardRemoved \o LayoutRules(w.ports)
  BY <1>1 DEF SyncGuardCommit, SyncGuardReturns, AllThere
<1>3. PICK ports \in SUBSET Ports : ports = w.ports
  BY <1>1, <1>2 DEF Plans
<1>4. Marked(Server) = GuardPositions
  BY <1>1, <1>2 DEF Marks
<1>5. PICK f, c :
        /\ c \in Nat /\ Len(chain') = c + Len(guardLayout(ports))
        /\ Carried(DOMAIN chain \ Marked(Server), f, (c + 1)..Len(chain'))
        /\ \A n \in DOMAIN chain \ Marked(Server) : f[n] \in 1..c
        /\ \A n \in 1..Len(guardLayout(ports)) : chain'[c + n] = GuardRule(guardLayout(ports)[n])
  BY <1>0, <1>2, <1>3, CommitCarries
<1>6. PICK K, fresh : K = DOMAIN chain \ GuardPositions /\ fresh = (c + 1)..Len(chain')
  OBVIOUS
<1>7. Carried(K, f, fresh)
  BY <1>4, <1>5, <1>6
<1>8. Len(guardLayout(ports)) \in Nat
  BY LayoutShape
<1>9. \A m \in fresh : chain'[m].tag = "guard"
  <2>. SUFFICES ASSUME NEW m \in fresh PROVE chain'[m].tag = "guard"
    OBVIOUS
  <2>1. m - c \in 1..Len(guardLayout(ports)) /\ c + (m - c) = m
    BY <1>5, <1>6, <1>8
  <2>2. chain'[m] = GuardRule(guardLayout(ports)[m - c])
    BY <1>5, <2>1
  <2>. QED
    BY <2>2 DEF GuardRule
<1>10. GuardPositions' = fresh
  <2>1. GuardPositions \cap K = {}
    BY <1>6
  <2>. QED
    BY <1>7, <1>9, <2>1, CarriedSets
<1>11. Carried(DOMAIN chain \ GuardPositions, f, (c + 1)..Len(chain')) /\ GuardPositions' = (c + 1)..Len(chain')
  BY <1>6, <1>7, <1>10
<1>12. \A n \in DOMAIN chain \ GuardPositions : f[n] \in 1..c
  BY <1>4, <1>5
<1>13. /\ ports \in SUBSET Ports /\ ports = work[Server].ports /\ ports # None /\ base /\ base' = base
       /\ c \in Nat /\ Len(chain') = c + Len(guardLayout(ports))
  BY <1>1, <1>2, <1>3, <1>5
<1>. QED
  BY <1>4, <1>5, <1>11, <1>12, <1>13

\* The guard is replaced: the new one is whole, and last.
LEMMA CommitStep ==
    ASSUME ChainInv, SyncGuardCommit
    PROVE  ChainInv'
<1>0. Types /\ work \in [Procs -> Plans] /\ Server \in Procs
  BY DEF ChainInv, Types, Procs
<1>1. stray' = FALSE /\ work' = [work EXCEPT ![Server] = Nothing]
  BY DEF SyncGuardCommit, SyncGuardReturns
<1>2. PICK ports, f, c :
        /\ ports \in SUBSET Ports /\ ports = work[Server].ports /\ ports # None /\ base /\ base' = base
        /\ c \in Nat /\ Len(chain') = c + Len(guardLayout(ports))
        /\ Carried(DOMAIN chain \ GuardPositions, f, (c + 1)..Len(chain'))
        /\ \A n \in DOMAIN chain \ GuardPositions : f[n] \in 1..c
        /\ \A n \in 1..Len(guardLayout(ports)) : chain'[c + n] = GuardRule(guardLayout(ports)[n])
        /\ GuardPositions' = (c + 1)..Len(chain')
        /\ Marked(Server) = GuardPositions
  BY CommitShape
<1>6. PICK K, fresh : K = DOMAIN chain \ GuardPositions /\ fresh = (c + 1)..Len(chain')
  OBVIOUS
<1>7. Carried(K, f, fresh) /\ \A n \in K : f[n] \in 1..c
  BY <1>2, <1>6
<1>8. PICK l : l = Len(guardLayout(ports))
  OBVIOUS
<1>9. l \in Nat /\ Len(chain') = c + l
  BY <1>2, <1>8, LayoutShape
<1>10. ASSUME NEW m \in fresh
       PROVE  /\ m \in Nat /\ m > c /\ m - c \in 1..l
              /\ chain'[m] = GuardRule(guardLayout(ports)[m - c])
              /\ chain'[m].tag = "guard"
  <2>1. m \in Nat /\ m > c /\ m - c \in 1..l /\ c + (m - c) = m
    BY <1>2, <1>6, <1>9
  <2>2. chain'[m] = GuardRule(guardLayout(ports)[m - c])
    BY <1>2, <1>8, <2>1
  <2>. QED
    BY <2>1, <2>2 DEF GuardRule
<1>11. Ordered'
  <2>1. ASSUME NEW m \in fresh, NEW j \in DOMAIN chain', chain'[j].tag = "allow" PROVE j < m
    <3>1. j \notin fresh
      BY <1>10, <2>1
    <3>2. j \in 1..c
      BY <1>7, <3>1 DEF Carried
    <3>. QED
      BY <1>2, <1>10, <3>2
  <2>2. \A m \in fresh, j \in DOMAIN chain' :
          /\ chain'[m].tag = "allow" /\ chain'[j].tag = "guard" => m < j
          /\ chain'[m].tag = "guard" /\ chain'[j].tag = "allow" => j < m
    BY <1>10, <2>1
  <2>. QED
    BY <1>0, <1>7, <2>2, CarriedOrdered DEF ChainInv
<1>12. GuardPositions' \subseteq fresh
  BY <1>2, <1>6
<1>13. Bypassed'
  <2>. SUFFICES ASSUME NEW n \in GuardPositions'
                PROVE  \E m \in GuardPositions' : m <= n /\ chain'[m].key = Loopback
    BY DEF Bypassed
  <2>1. n \in fresh
    BY <1>12
  <2>2. c + 1 <= n /\ l > 0 /\ c + 1 \in fresh /\ (c + 1) - c = 1
    BY <1>2, <1>6, <1>9, <1>10, <2>1
  <2>3. ports # {}
    BY <1>8, <2>2, LayoutShape
  <2>4. guardLayout(ports)[1] = Loopback
    BY <1>2, <2>3, LayoutShape
  <2>5. chain'[c + 1] = GuardRule(guardLayout(ports)[1]) /\ chain'[c + 1].tag = "guard"
    BY <1>10, <2>2
  <2>6. chain'[c + 1].key = Loopback /\ c + 1 \in GuardPositions'
    BY <1>7, <2>2, <2>4, <2>5 DEF GuardRule, GuardPositions, Carried
  <2>. QED
    BY <2>2, <2>6
<1>14. /\ work' \in [Procs -> Plans] /\ work'[Server] = Nothing
       /\ \A q \in Procs : q # Server => work'[q] = work[q]
  BY <1>0, <1>1, NothingIsPlan
<1>15. Marks(Server, work[Server])'
  <2>1. Marked(Server) \cap K = {}
    BY <1>2, <1>6
  <2>2. Marked(Server)' = {}
    BY <1>7, <2>1, CarriedSets
  <2>. QED
    BY <1>0, <1>14, <2>2, IdleMarks
<1>16. ASSUME NEW q \in Procs, q # Server PROVE Marks(q, work[q])'
  <2>1. PICK x \in Plans : x = work[q] /\ Marks(q, x)
    BY <1>0 DEF ChainInv
  <2>2. x.ports = None
    BY <1>16, <2>1 DEF Marks
  <2>3. \A k : Copies(k) \subseteq K
    BY <1>6 DEF Copies, Managed, GuardPositions
  <2>4. Cardinality(Marked(q) \cap K) <= x.dels
    <3>1. Marked(q) \cap K = Marked(q)
      BY <1>6, <2>1, <2>2 DEF Marks, Managed, GuardPositions
    <3>. QED
      BY <2>1, <3>1 DEF Marks
  <2>5. Marks(q, x)'
    BY <1>0, <1>7, <2>1, <2>2, <2>3, <2>4, CarriedMarks
  <2>. QED
    BY <1>14, <1>16, <2>1, <2>5
<1>17. Types'
  BY <1>0, <1>1, <1>2, <1>7, <1>14 DEF Types, Carried
<1>. QED
  BY <1>1, <1>2, <1>11, <1>13, <1>15, <1>16, <1>17 DEF ChainInv

\* The operator's own rule.
LEMMA HostRuleStep ==
    ASSUME ChainInv, AddHostRule
    PROVE  ChainInv'
<1>1. base /\ UNCHANGED <<base, work, stray>> /\ work \in [Procs -> Plans]
  BY DEF AddHostRule, CanAdd, ChainInv, Types
<1>2. HostRule \in RuleSet /\ HostRule.by = {} /\ HostRule.tag = "host"
  BY DEF HostRule, RuleSet
<1>3. \/ chain' = <<HostRule>> \o chain /\ HostRule.tag # "guard"
      \/ chain' = Append(chain, HostRule) /\ HostRule.tag = "host"
  BY <1>2 DEF AddHostRule
<1>4. /\ chain' \in Seq(RuleSet) /\ Ordered' /\ (~stray => Bypassed)'
      /\ \A q \in Procs, w \in Plans : Marks(q, w) => Marks(q, w)'
  BY <1>1, <1>2, <1>3, GrownStep
<1>5. ASSUME NEW q \in Procs PROVE Marks(q, work[q])'
  <2>1. PICK x \in Plans : x = work[q] /\ Marks(q, x)
    BY <1>1 DEF ChainInv
  <2>2. Marks(q, x)'
    BY <1>4, <2>1
  <2>. QED
    BY <1>1, <2>1, <2>2
<1>6. Types' /\ base' = TRUE
  BY <1>1, <1>4 DEF ChainInv, Types
<1>. QED
  BY <1>4, <1>5, <1>6 DEF ChainInv

\* The ruleset is flushed: what processes hold is gone, and their plans are old.
LEMMA FlushStep ==
    ASSUME ChainInv, Flush
    PROVE  ChainInv'
<1>1. /\ base' = FALSE /\ chain' = <<>> /\ stray' = FALSE /\ work \in [Procs -> Plans]
      /\ work' = [p \in Procs |-> [work[p] EXCEPT !.old = work[p].dels > 0]]
  BY DEF Flush, ChainInv, Types
<1>2. chain' \in Seq(RuleSet) /\ DOMAIN chain' = {}
  BY <1>1
<1>3. Ordered' /\ Bypassed' /\ GuardPositions' = {} /\ \A q : Marked(q)' = {}
  BY <1>2 DEF Ordered, Bypassed, GuardPositions, Marked
<1>4. ASSUME NEW q \in Procs PROVE work'[q] \in Plans /\ Marks(q, work[q])'
  <2>1. PICK x \in Plans : x = work[q] /\ Marks(q, x)
    BY <1>1 DEF ChainInv
  <2>0. PICK b \in BOOLEAN : b = (x.dels > 0)
    <3>1. x.dels \in Nat
      BY <2>1 DEF Plans
    <3>2. (x.dels > 0) \in BOOLEAN
      BY <3>1
    <3>. QED
      BY <3>2, Zenon
  <2>2. PICK y : y = [x EXCEPT !.old = b]
    OBVIOUS
  <2>3. /\ y \in Plans /\ y.dels = x.dels /\ y.ports = x.ports /\ y.adds = x.adds
        /\ y.dels \in Nat
    BY <2>1, <2>2 DEF Plans
  <2>4. work'[q] = y
    BY <1>1, <2>0, <2>1, <2>2
  <2>5. x.ports # None => q = Server /\ x.adds = {}
    BY <2>1 DEF Marks
  <2>6. Cardinality({}) = 0
    BY FS_EmptySet
  <2>7. Marks(q, y)'
    BY <1>3, <2>3, <2>5, <2>6 DEF Marks
  <2>. QED
    BY <2>3, <2>4, <2>7
<1>5. work' \in [Procs -> Plans]
  BY <1>1, <1>4
<1>. QED
  BY <1>1, <1>2, <1>3, <1>4, <1>5 DEF ChainInv, Types

\* The empty host.
LEMMA InitInv == Init => ChainInv
<1>. SUFFICES ASSUME Init PROVE ChainInv
  OBVIOUS
<1>1. base = FALSE /\ chain = <<>> /\ stray = FALSE /\ work = [p \in Procs |-> Nothing]
  BY DEF Init
<1>2. Types
  <2>1. work \in [Procs -> Plans]
    BY <1>1, NothingIsPlan
  <2>2. chain \in Seq(RuleSet)
    BY <1>1
  <2>. QED
    BY <1>1, <2>1, <2>2 DEF Types
<1>3. DOMAIN chain = {}
  BY <1>1
<1>4. Ordered /\ Bypassed
  BY <1>3 DEF Ordered, Bypassed, GuardPositions
<1>5. Cardinality({}) = 0
  BY FS_EmptySet
<1>6. \A q \in Procs : Marks(q, work[q])
  BY <1>1, <1>3, <1>5, NothingIsPlan DEF Marks, Marked
<1>. QED
  BY <1>1, <1>2, <1>4, <1>6 DEF ChainInv

\* Every step keeps the invariant.
LEMMA NextInv == ChainInv /\ [Next]_vars => ChainInv'
<1>. SUFFICES ASSUME ChainInv, [Next]_vars PROVE ChainInv'
  OBVIOUS
<1>1. CASE Call
  BY <1>1, CallStep
<1>2. ASSUME NEW p \in Procs, NEW k \in Keys, AddRule(p, k) PROVE ChainInv'
  BY <1>2, AddStep
<1>3. ASSUME NEW p \in Procs, DeleteByHandle(p) PROVE ChainInv'
  BY <1>3, DeleteStep
<1>4. ASSUME NEW p \in Procs, DeleteByHandleFails(p) PROVE ChainInv'
  BY <1>4, DeleteFailsStep
<1>5. CASE SyncGuardCommit
  BY <1>5, CommitStep
<1>6. CASE SyncGuardFails
  BY <1>6, ReleaseStep DEF SyncGuardFails, SyncGuardReturns, Procs
<1>7. ASSUME NEW p \in Procs, Crash(p) PROVE ChainInv'
  BY <1>7, ReleaseStep DEF Crash
<1>8. CASE AddHostRule
  BY <1>8, HostRuleStep
<1>9. CASE Flush
  BY <1>9, FlushStep
<1>10. CASE UNCHANGED vars
  BY <1>10, StillStep DEF vars
<1>. QED
  BY <1>1, <1>2, <1>3, <1>4, <1>5, <1>6, <1>7, <1>8, <1>9, <1>10 DEF Next, Transaction, Host

-----------------------------------------------------------------------------
(* The first rule that matches *)

\* With allow rules first and the bypass ahead of the drops, the first match decides
\* as intended.
LEMMA FirstMatch ==
    ASSUME ChainInv
    PROVE  FirstMatchIsIntent
<1>. SUFFICES ASSUME ~stray, NEW p \in Ports
              PROVE  /\ Admits(Loopback, p)
                     /\ \A i \in {k.ip : k \in Keys} :
                          Admits(i, p) <=> p \notin Closed \/ \E k \in Present : k.ip = i /\ k.port = p
  BY DEF FirstMatchIsIntent
<1>1. Types /\ Ordered /\ Bypassed /\ p # Loopback
  BY ChainAssumption DEF ChainInv, Loopback
<1>2. DOMAIN chain \subseteq Nat
  BY <1>1, Positions
<1>. DEFINE M(i) == {m \in DOMAIN chain : Matches(chain[m], i, p)}
<1>3. Admits(Loopback, p)
  <2>. SUFFICES ASSUME NEW n \in First(M(Loopback)) PROVE Accepts(chain[n])
    BY DEF Admits
  <2>1. /\ n \in DOMAIN chain /\ Matches(chain[n], Loopback, p)
        /\ \A m \in M(Loopback) : n <= m
    BY DEF First
  <2>2. CASE chain[n].tag = "guard"
    <3>1. n \in GuardPositions
      BY <2>1, <2>2 DEF GuardPositions
    <3>2. PICK m \in GuardPositions : m <= n /\ chain[m].key = Loopback
      BY <1>1, <3>1 DEF Bypassed
    <3>3. m \in M(Loopback)
      BY <3>2 DEF Matches, GuardPositions
    <3>4. m = n
      BY <1>2, <2>1, <3>2, <3>3
    <3>. QED
      BY <3>2, <3>4 DEF Accepts
  <2>3. CASE chain[n].tag # "guard"
    BY <2>1, <2>3 DEF Matches, Accepts
  <2>. QED
    BY <2>2, <2>3
<1>4. ASSUME NEW i \in {k.ip : k \in Keys}
      PROVE  Admits(i, p) <=> p \notin Closed \/ \E k \in Present : k.ip = i /\ k.port = p
  <2>0. i # Loopback
    BY ChainAssumption DEF Loopback
  <2>1. ASSUME NEW n \in First(M(i))
        PROVE  /\ n \in DOMAIN chain /\ (\A m \in M(i) : n <= m)
               /\ \/ chain[n].tag = "allow" /\ chain[n].key.ip = i /\ chain[n].key.port = p
                  \/ chain[n].tag = "guard" /\ chain[n].key = p
    BY <2>0 DEF First, Matches
  <2>2. ASSUME Admits(i, p), p \in Closed PROVE \E k \in Present : k.ip = i /\ k.port = p
    <3>1. PICK g \in GuardPositions : chain[g].key = p
      BY <2>2 DEF Closed
    <3>2. g \in M(i) /\ M(i) \subseteq Nat
      BY <1>2, <3>1 DEF Matches, GuardPositions
    <3>3. PICK n \in First(M(i)) : TRUE
      BY <3>2, FirstExists
    <3>4. Accepts(chain[n])
      BY <2>2 DEF Admits
    <3>5. chain[n].tag = "allow" /\ chain[n].key.ip = i /\ chain[n].key.port = p /\ n \in DOMAIN chain
      BY <1>1, <2>1, <3>4 DEF Accepts
    <3>6. chain[n].key \in Present
      BY <3>5 DEF Present, Managed
    <3>. QED
      BY <3>5, <3>6
  <2>3. ASSUME p \notin Closed PROVE Admits(i, p)
    <3>. SUFFICES ASSUME NEW n \in First(M(i)) PROVE chain[n].tag = "allow"
      BY DEF Admits, Accepts
    <3>1. n \in DOMAIN chain /\ (chain[n].tag = "guard" /\ chain[n].key = p => p \in Closed)
      BY <1>1, <2>1 DEF Closed, GuardPositions
    <3>. QED
      BY <2>1, <2>3, <3>1
  <2>4. ASSUME NEW k \in Present, k.ip = i, k.port = p PROVE Admits(i, p)
    <3>. SUFFICES ASSUME NEW n \in First(M(i)) PROVE chain[n].tag = "allow"
      BY DEF Admits, Accepts
    <3>1. PICK a \in Managed : chain[a].key = k
      BY DEF Present
    <3>2. a \in M(i) /\ a \in DOMAIN chain /\ chain[a].tag = "allow"
      BY <2>4, <3>1 DEF Matches, Managed
    <3>3. n \in DOMAIN chain /\ n <= a /\ a \in Nat /\ n \in Nat
      BY <1>2, <2>1, <3>2
    <3>4. chain[n].tag # "guard"
      BY <1>1, <3>2, <3>3 DEF Ordered
    <3>. QED
      BY <2>1, <3>4
  <2>. QED
    BY <2>2, <2>3, <2>4
<1>. QED
  BY <1>3, <1>4

\* Whatever server, commands and operator do between each other's calls, ChainInv holds.
THEOREM InvariantHolds == Spec => []ChainInv
<1>1. Init => ChainInv
  BY InitInv
<1>2. ChainInv /\ [Next]_vars => ChainInv'
  BY NextInv
<1>. QED
  BY <1>1, <1>2, PTL DEF Spec

\* Allowlisted sources get in, loopback is never shut out and others stay out of the
\* closed ports, whatever order the calls of server, commands and operator come in.
THEOREM FirstMatchDecides == Spec => []FirstMatchIsIntent
<1>1. ChainInv => FirstMatchIsIntent
  BY FirstMatch
<1>. QED
  BY <1>1, InvariantHolds, PTL

-----------------------------------------------------------------------------
(* Steps *)

\* What a step can do to the rules.
LEMMA StepCases ==
    ASSUME ChainInv, [Next]_vars
    PROVE  \/ Relabelled /\ base' \in {base, TRUE}
           \/ \E k \in Keys : base /\ base' = base /\ chain' = InsertRule(k)
           \/ AddHostRule
           \/ \E p \in Procs : DeleteByHandle(p)
           \/ SyncGuardCommit
           \/ Flush
<1>1. CASE Call
  BY <1>1, CallStep
<1>2. ASSUME NEW p \in Procs, NEW k \in Keys, AddRule(p, k)
      PROVE  \/ Relabelled /\ base' \in {base, TRUE}
             \/ base /\ base' = base /\ chain' = InsertRule(k)
  <2>1. base' = base /\ (chain' = chain \/ (base /\ chain' = InsertRule(k)))
    BY <1>2, AddStep
  <2>2. chain' = chain => Relabelled
    BY DEF ChainInv, Types, Relabelled
  <2>. QED
    BY <2>1, <2>2
<1>3. ASSUME NEW p \in Procs, DeleteByHandleFails(p) PROVE Relabelled /\ base' \in {base, TRUE}
  BY <1>3, DeleteFailsStep
<1>4. CASE SyncGuardFails
  BY <1>4, ReleaseStep DEF SyncGuardFails, SyncGuardReturns, Procs
<1>5. ASSUME NEW p \in Procs, Crash(p) PROVE Relabelled /\ base' \in {base, TRUE}
  BY <1>5, ReleaseStep DEF Crash
<1>6. CASE UNCHANGED vars
  BY <1>6, StillStep DEF vars
<1>. QED
  BY <1>1, <1>2, <1>3, <1>4, <1>5, <1>6 DEF Next, Transaction, Host

\* The chain grows by one rule that is not the guard's.
LEMMA GrownCarries ==
    ASSUME ChainInv, NEW r \in RuleSet, r.by = {}, r.tag # "guard",
           chain' = <<r>> \o chain \/ chain' = Append(chain, r)
    PROVE  \E f, m : Carried(DOMAIN chain, f, {m}) /\ chain'[m] = r
<1>0. Types
  BY DEF ChainInv
<1>1. CASE chain' = <<r>> \o chain
  BY <1>0, <1>1, InsertCarries
<1>2. CASE chain' = Append(chain, r)
  BY <1>0, <1>2, AppendCarries
<1>. QED
  BY <1>1, <1>2

\* The ports of a guard that is left alone stay closed.
LEMMA CarriedClosed ==
    ASSUME NEW K, NEW f, NEW fresh, Carried(K, f, fresh), GuardPositions \subseteq K
    PROVE  /\ Closed \subseteq Closed'
           /\ (\A m \in fresh : chain'[m].tag # "guard") => Closed' = Closed
<1>1. \A n \in GuardPositions : f[n] \in GuardPositions' /\ chain'[f[n]].key = chain[n].key
  <2>1. GuardPositions \cap K = GuardPositions
    OBVIOUS
  <2>2. \A n \in GuardPositions : f[n] \in GuardPositions'
    BY <2>1, CarriedSets
  <2>3. \A n \in GuardPositions : chain'[f[n]].key = chain[n].key
    BY DEF Carried
  <2>. QED
    BY <2>2, <2>3
<1>2. Closed \subseteq Closed'
  BY <1>1 DEF Closed
<1>3. ASSUME \A m \in fresh : chain'[m].tag # "guard" PROVE Closed' \subseteq Closed
  <2>. SUFFICES ASSUME NEW j \in GuardPositions' PROVE \E n \in GuardPositions : chain[n].key = chain'[j].key
    BY DEF Closed
  <2>1. PICK n \in GuardPositions : j = f[n]
    BY <1>3, CarriedSets
  <2>. QED
    BY <1>1, <2>1
<1>. QED
  BY <1>2, <1>3

\* A key keeps a rule as long as one of its copies stays.
LEMMA CarriedPresent ==
    ASSUME NEW K, NEW f, NEW fresh, Carried(K, f, fresh), NEW n \in Managed, n \in K
    PROVE  chain[n].key \in Present'
<1>1. f[n] \in Managed' /\ chain'[f[n]].key = chain[n].key
  <2>1. f[n] \in Managed'
    BY CarriedSets
  <2>2. chain'[f[n]].key = chain[n].key
    BY DEF Carried
  <2>. QED
    BY <2>1, <2>2
<1>. QED
  BY <1>1 DEF Present

\* A sequence that another one ends with.
LEMMA SuffixShape ==
    ASSUME NEW R, NEW s \in Seq(R), NEW Q, NEW t \in Seq(Q), NEW c \in Nat, Len(t) = c + Len(s),
           \A n \in 1..Len(s) : t[c + n] = s[n]
    PROVE  IsSuffix(s, t)
<1>. DEFINE a == Reverse(s)
            b == Reverse(t)
<1>0. Len(s) \in Nat /\ Len(t) \in Nat /\ Len(s) <= Len(t)
  OBVIOUS
<1>1. /\ a = [n \in 1..Len(s) |-> s[(Len(s) - n) + 1]]
      /\ b = [n \in 1..Len(t) |-> t[(Len(t) - n) + 1]]
  BY DEF Reverse
<1>2. /\ \A n \in 1..Len(s) : (Len(s) - n) + 1 \in 1..Len(s)
      /\ \A n \in 1..Len(t) : (Len(t) - n) + 1 \in 1..Len(t)
  BY <1>0
<1>3. a \in Seq(R) /\ Len(a) = Len(s) /\ b \in Seq(Q) /\ Len(b) = Len(t)
  BY <1>0, <1>1, <1>2
<1>4. \A n \in 1..Len(s) : a[n] = b[n]
  <2>. SUFFICES ASSUME NEW n \in 1..Len(s) PROVE a[n] = b[n]
    OBVIOUS
  <2>1. /\ (Len(s) - n) + 1 \in 1..Len(s) /\ n \in 1..Len(t)
        /\ c + ((Len(s) - n) + 1) = (Len(t) - n) + 1
    BY <1>0
  <2>2. a[n] = s[(Len(s) - n) + 1] /\ b[n] = t[(Len(t) - n) + 1]
    BY <1>1, <2>1
  <2>. QED
    BY <2>1, <2>2
<1>. HIDE DEF a, b
<1>5. /\ SubSeq(a, 1, Len(s)) = [n \in 1..Len(s) |-> a[n]]
      /\ SubSeq(b, 1, Len(s)) = [n \in 1..Len(s) |-> b[n]]
  BY <1>0, <1>3
<1>6. SubSeq(a, 1, Len(a)) = SubSeq(b, 1, Len(a))
  BY <1>3, <1>4, <1>5
<1>. QED
  BY <1>0, <1>3, <1>6 DEF IsSuffix, IsPrefix, a, b

\* A chain whose guard is its last rules, and these the layout, closes the layout's ports.
LEMMA TailCloses ==
    ASSUME NEW ch \in Seq(RuleSet), NEW ports \in SUBSET Ports, NEW c \in Nat,
           Len(ch) = c + Len(guardLayout(ports)),
           \A n \in 1..Len(guardLayout(ports)) : ch[c + n].key = guardLayout(ports)[n],
           NEW G, G = (c + 1)..Len(ch)
    PROVE  /\ IsSuffix(guardLayout(ports), [n \in DOMAIN ch |-> ch[n].key])
           /\ {ch[n].key : n \in G} \ {Loopback} = ports
<1>. DEFINE g == guardLayout(ports)
            l == Len(guardLayout(ports))
            keys == [n \in DOMAIN ch |-> ch[n].key]
            R == Keys \cup Ports \cup {Loopback, None}
<1>0. g \in Seq(Ports \cup {Loopback}) /\ l \in Nat /\ DOMAIN ch = 1..Len(ch)
  BY LayoutShape
<1>1. \A n \in DOMAIN ch : ch[n].key \in R
  <2>1. \A n \in DOMAIN ch : ch[n] \in RuleSet
    OBVIOUS
  <2>. QED
    BY <2>1 DEF RuleSet
<1>2. keys \in Seq(R) /\ Len(keys) = Len(ch)
  BY <1>0, <1>1
<1>3. \A n \in 1..l : keys[c + n] = g[n]
  BY <1>0
<1>4. IsSuffix(g, keys)
  <2>. HIDE DEF g, keys, R
  <2>. QED
    BY <1>0, <1>2, <1>3, SuffixShape DEF g
<1>5. ASSUME NEW n \in G, ch[n].key # Loopback PROVE ch[n].key \in ports
  <2>1. n - c \in 1..l /\ c + (n - c) = n
    BY <1>0
  <2>2. ch[n].key = g[n - c]
    BY <2>1
  <2>. QED
    BY <1>5, <2>1, <2>2, LayoutShape
<1>6. ASSUME NEW x \in ports PROVE x # Loopback /\ \E n \in G : ch[n].key = x
  <2>1. PICK n \in 1..l : g[n] = x
    BY LayoutShape
  <2>2. c + n \in G /\ ch[c + n].key = x
    BY <1>0, <2>1
  <2>. QED
    BY <2>2, ChainAssumption DEF Loopback
<1>. QED
  BY <1>4, <1>5, <1>6

\* After SyncGuard's transaction exactly the ports it was asked for are closed.
LEMMA CommitCloses ==
    ASSUME ChainInv, SyncGuardCommit
    PROVE  LET ports == work[Server].ports
           IN  /\ IsSuffix(guardLayout(ports), [n \in DOMAIN chain' |-> chain'[n].key])
               /\ Closed' = ports /\ ports \in SUBSET Ports
<1>1. PICK ports, f, c :
        /\ ports \in SUBSET Ports /\ ports = work[Server].ports
        /\ c \in Nat /\ Len(chain') = c + Len(guardLayout(ports))
        /\ Carried(DOMAIN chain \ GuardPositions, f, (c + 1)..Len(chain'))
        /\ \A n \in 1..Len(guardLayout(ports)) : chain'[c + n] = GuardRule(guardLayout(ports)[n])
        /\ GuardPositions' = (c + 1)..Len(chain')
  BY CommitShape
<1>2. PICK ch, G : ch = chain' /\ G = GuardPositions'
  OBVIOUS
<1>3. ch \in Seq(RuleSet)
  BY <1>1, <1>2 DEF Carried
<1>4. \A n \in 1..Len(guardLayout(ports)) : ch[c + n].key = guardLayout(ports)[n]
  <2>1. \A x : GuardRule(x).key = x
    BY DEF GuardRule
  <2>. QED
    BY <1>1, <1>2, <2>1
<1>5. /\ ports \in SUBSET Ports
      /\ c \in Nat /\ Len(ch) = c + Len(guardLayout(ports)) /\ G = (c + 1)..Len(ch)
  BY <1>1, <1>2
<1>6. /\ IsSuffix(guardLayout(ports), [n \in DOMAIN ch |-> ch[n].key])
      /\ {ch[n].key : n \in G} \ {Loopback} = ports
  BY <1>3, <1>4, <1>5, TailCloses, Zenon
<1>. QED
  BY <1>1, <1>2, <1>6 DEF Closed

\* A guard found in place is the layout, with nothing of the guard elsewhere.
LEMMA InPlaceCloses ==
    ASSUME ChainInv, NEW ports \in SUBSET Ports, guardAtTail(ports)
    PROVE  /\ IsSuffix(guardLayout(ports), [n \in DOMAIN chain |-> chain[n].key])
           /\ Closed = ports
<1>0. Types
  BY DEF ChainInv
<1>. DEFINE g == guardLayout(ports)
            l == Len(guardLayout(ports))
            c == Len(chain) - l
            T == (c + 1)..Len(chain)
<1>1. g \in Seq(Ports \cup {Loopback}) /\ l \in Nat /\ DOMAIN g = 1..l
  BY LayoutShape
<1>2. /\ Cardinality(GuardPositions) = l
      /\ \A n \in 1..l : chain[c + n].tag = "guard" /\ chain[c + n].key = g[n]
  BY <1>1 DEF guardAtTail
<1>3. /\ DOMAIN chain = 1..Len(chain) /\ Len(chain) \in Nat
      /\ GuardPositions \in SUBSET DOMAIN chain
  BY <1>0, Positions DEF GuardPositions
<1>4. l <= Len(chain) /\ IsFiniteSet(GuardPositions)
  <2>1. IsFiniteSet(DOMAIN chain) /\ Cardinality(DOMAIN chain) = Len(chain)
    BY <1>3, FS_Interval
  <2>. QED
    BY <1>2, <1>3, <2>1, FS_Subset
<1>5. c \in Nat
  BY <1>1, <1>3, <1>4
<1>6. T \subseteq GuardPositions
  <2>. SUFFICES ASSUME NEW n \in T PROVE n \in GuardPositions
    OBVIOUS
  <2>1. n - c \in 1..l /\ c + (n - c) = n /\ n \in DOMAIN chain
    BY <1>1, <1>3, <1>5
  <2>2. chain[n].tag = "guard"
    BY <1>2, <2>1
  <2>. QED
    BY <2>1, <2>2 DEF GuardPositions
<1>7. Cardinality(T) = l
  <2>1. PICK a \in Int, b \in Int : a = c + 1 /\ b = Len(chain)
    <3>1. c + 1 \in Int /\ Len(chain) \in Int
      BY <1>1, <1>3
    <3>. QED
      BY <3>1, Zenon
  <2>2. Cardinality(a..b) = IF a > b THEN 0 ELSE b - a + 1
    BY FS_Interval
  <2>3. (IF a > b THEN 0 ELSE b - a + 1) = l
    BY <1>1, <1>3, <1>4, <2>1
  <2>. QED
    BY <2>1, <2>2, <2>3
<1>8. T = GuardPositions
  <2>. HIDE DEF T, l
  <2>. QED
    BY <1>2, <1>4, <1>6, <1>7, FS_Subset
<1>9. PICK d \in Nat, ch \in Seq(RuleSet) : d = c /\ ch = chain
  BY <1>0, <1>5 DEF Types
<1>10. PICK G : G = GuardPositions
  OBVIOUS
<1>11. /\ ch \in Seq(RuleSet) /\ d \in Nat
       /\ Len(ch) = d + Len(guardLayout(ports)) /\ G = (d + 1)..Len(ch)
       /\ \A n \in 1..Len(guardLayout(ports)) : ch[d + n].key = guardLayout(ports)[n]
  <2>1. Len(ch) = d + Len(guardLayout(ports))
    BY <1>1, <1>3, <1>9
  <2>2. G = (d + 1)..Len(ch)
    BY <1>8, <1>9, <1>10
  <2>3. \A n \in 1..Len(guardLayout(ports)) : ch[d + n].key = guardLayout(ports)[n]
    BY <1>2, <1>9
  <2>. QED
    BY <1>9, <2>1, <2>2, <2>3
<1>12. /\ IsSuffix(guardLayout(ports), [n \in DOMAIN ch |-> ch[n].key])
       /\ {ch[n].key : n \in G} \ {Loopback} = ports
  BY <1>11, TailCloses, Zenon
<1>. QED
  BY <1>9, <1>10, <1>12 DEF Closed

\* An allow rule or the operator's rule comes in: nothing else is touched.
LEMMA NewRule ==
    ASSUME ChainInv, AddHostRule \/ \E k \in Keys : chain' = InsertRule(k)
    PROVE  \E r, f, m :
             r \in RuleSet /\ Carried(DOMAIN chain, f, {m}) /\ chain'[m] = r /\ r.tag # "guard"
<1>1. CASE AddHostRule
  <2>1. HostRule \in RuleSet /\ HostRule.by = {} /\ HostRule.tag # "guard"
    BY DEF HostRule, RuleSet
  <2>2. chain' = <<HostRule>> \o chain \/ chain' = Append(chain, HostRule)
    BY <1>1 DEF AddHostRule
  <2>3. PICK f, m : Carried(DOMAIN chain, f, {m}) /\ chain'[m] = HostRule
    BY <2>1, <2>2, GrownCarries
  <2>. QED
    BY <1>1, <2>1, <2>3
<1>2. ASSUME NEW k \in Keys, chain' = InsertRule(k)
      PROVE  \E r, f, m :
               r \in RuleSet /\ Carried(DOMAIN chain, f, {m}) /\ chain'[m] = r /\ r.tag # "guard"
  <2>1. AllowRule(k) \in RuleSet /\ AllowRule(k).by = {} /\ AllowRule(k).tag # "guard"
    BY DEF AllowRule, RuleSet
  <2>2. chain' = <<AllowRule(k)>> \o chain
    BY <1>2 DEF InsertRule
  <2>3. PICK f, m : Carried(DOMAIN chain, f, {m}) /\ chain'[m] = AllowRule(k)
    BY <2>1, <2>2, GrownCarries
  <2>. QED
    BY <1>2, <2>1, <2>3
<1>. QED
  BY <1>1, <1>2

\* SyncGuard: "never a moment without a guard": no step opens a closed port but a
\* flush, a stale handle's deletion, or SyncGuard's own transaction for a guard
\* without it.
THEOREM GuardNeverOpens == Spec => GuardHolds
<1>. DEFINE A == \A p \in Closed \ Closed' :
                   \/ ~base' \/ stray'
                   \/ work[Server].ports # None /\ p \notin work[Server].ports
<1>1. ASSUME ChainInv, [Next]_vars PROVE A
  <2>0. Types
    BY <1>1 DEF ChainInv
  <2>1. CASE Relabelled
    BY <2>1, RelabelledSets
  <2>2. CASE AddHostRule \/ \E k \in Keys : chain' = InsertRule(k)
    <3>1. PICK f, m : Carried(DOMAIN chain, f, {m})
      BY <1>1, <2>2, NewRule
    <3>2. GuardPositions \subseteq DOMAIN chain
      BY DEF GuardPositions
    <3>. QED
      BY <3>1, <3>2, CarriedClosed
  <2>3. ASSUME NEW p \in Procs, DeleteByHandle(p) PROVE A
    <3>1. PICK n \in Named(p) : chain' = RemoveAt(chain, n) /\ stray' = (stray \/ chain[n].tag = "guard")
      BY <2>3 DEF DeleteByHandle
    <3>2. n \in DOMAIN chain
      BY DEF Named, First, Marked
    <3>3. PICK f : Carried(DOMAIN chain \ {n}, f, {})
      BY <2>0, <3>1, <3>2, DeleteCarries
    <3>4. CASE chain[n].tag = "guard"
      BY <3>1, <3>4
    <3>5. CASE chain[n].tag # "guard"
      <4>1. GuardPositions \subseteq DOMAIN chain \ {n}
        BY <3>5 DEF GuardPositions
      <4>. QED
        BY <3>3, <4>1, CarriedClosed
    <3>. QED
      BY <3>4, <3>5
  <2>4. CASE SyncGuardCommit
    <3>1. Closed' = work[Server].ports
      BY <1>1, <2>4, CommitCloses
    <3>2. work[Server].ports # None
      BY <2>4 DEF SyncGuardCommit, SyncGuardReturns
    <3>. QED
      BY <3>1, <3>2
  <2>5. CASE Flush
    BY <2>5 DEF Flush
  <2>. QED
    BY <1>1, <2>1, <2>2, <2>3, <2>4, <2>5, StepCases
<1>2. ChainInv /\ [Next]_vars => [A]_vars
  BY <1>1
<1>. QED
  BY <1>2, InvariantHolds, PTL DEF Spec, GuardHolds

\* A SyncGuard that reports success left the guard it was asked for, whole and last,
\* whether it found it there or put it there after others had changed the chain.
THEOREM SyncedIsInPlace == Spec => GuardSynced
<1>. DEFINE B == LET keys == [n \in DOMAIN chain' |-> chain'[n].key]
                 IN  /\ IsSuffix(guardLayout(synced'), keys)
                     /\ Closed' = synced'
            A == synced' # None /\ synced' # synced => B
<1>1. ASSUME ChainInv, [Next]_vars PROVE A
  <2>. SUFFICES ASSUME synced' # None, synced' # synced PROVE B
    OBVIOUS
  <2>1. ASSUME NEW ports \in SUBSET Ports, SyncGuard(ports) PROVE B
    <3>1. guardAtTail(ports) /\ synced' = ports /\ chain' = chain
      BY <2>1 DEF SyncGuard
    <3>2. IsSuffix(guardLayout(ports), [n \in DOMAIN chain |-> chain[n].key]) /\ Closed = ports
      BY <1>1, <3>1, InPlaceCloses
    <3>3. Closed' = Closed
      BY <3>1 DEF Closed, GuardPositions
    <3>. QED
      BY <3>1, <3>2, <3>3
  <2>2. CASE SyncGuardCommit
    <3>1. synced' = work[Server].ports
      BY <2>2 DEF SyncGuardCommit, SyncGuardReturns
    <3>2. /\ IsSuffix(guardLayout(work[Server].ports), [n \in DOMAIN chain' |-> chain'[n].key])
          /\ Closed' = work[Server].ports
      BY <1>1, <2>2, CommitCloses
    <3>. QED
      BY <3>1, <3>2
  <2>3. \/ \E ports \in SUBSET Ports : SyncGuard(ports)
        \/ SyncGuardCommit
    BY <1>1 DEF Next, Call, Transaction, Host, CallAddRule, RemoveRule, RemoveUserRules, Reconcile,
       ReconcileAll, Begin, EnsureBase, AddRule, DeleteByHandle, DeleteByHandleFails, SyncGuardFails,
       SyncGuardReturns, AddHostRule, Flush, Crash, vars
  <2>. QED
    BY <2>1, <2>2, <2>3
<1>2. ChainInv /\ [Next]_vars => [A]_vars
  BY <1>1
<1>. QED
  BY <1>2, InvariantHolds, PTL DEF Spec, GuardSynced

\* The last rule for a key goes only while a process that was asked to close it is
\* at work, or one that holds handles from before a flush.
THEOREM OnlyRequestsClose == Spec => ClosedOnlyOnRequest
<1>. DEFINE A == \A k \in Present \ Present' :
                   \/ ~base'
                   \/ \E p \in Procs : work[p].old \/ k \in work[p].close
<1>1. ASSUME ChainInv, [Next]_vars PROVE A
  <2>0. Types /\ Managed \subseteq DOMAIN chain
    BY <1>1 DEF ChainInv, Managed
  <2>1. CASE Relabelled
    BY <2>1, RelabelledSets
  <2>2. CASE AddHostRule \/ \E k \in Keys : chain' = InsertRule(k)
    <3>1. PICK f, m : Carried(DOMAIN chain, f, {m})
      BY <1>1, <2>2, NewRule
    <3>2. \A n \in Managed : chain[n].key \in Present'
      BY <2>0, <3>1, CarriedPresent
    <3>. QED
      BY <3>2 DEF Present
  <2>3. ASSUME NEW p \in Procs, DeleteByHandle(p) PROVE A
    <3>1. PICK n \in Named(p) : chain' = RemoveAt(chain, n)
      BY <2>3 DEF DeleteByHandle
    <3>2. n \in DOMAIN chain /\ (work[p].old \/ n \in Marked(p))
      BY <3>1 DEF Named, First, Marked
    <3>3. PICK K : K = DOMAIN chain \ {n}
      OBVIOUS
    <3>4. PICK f : Carried(K, f, {})
      BY <2>0, <3>1, <3>2, <3>3, DeleteCarries
    <3>5. Marks(p, work[p]) /\ work[p].ports = None
      BY <1>1, <2>3 DEF ChainInv, DeleteByHandle, Deleting
    <3>. SUFFICES ASSUME NEW k \in Present \ Present', ~work[p].old PROVE k \in work[p].close
      OBVIOUS
    <3>6. \A m \in Copies(k) : m = n
      <4>. SUFFICES ASSUME NEW m \in Copies(k), m # n PROVE FALSE
        OBVIOUS
      <4>1. m \in Managed /\ m \in K /\ chain[m].key = k
        BY <2>0, <3>3 DEF Copies
      <4>. QED
        BY <3>4, <4>1, CarriedPresent
    <3>7. n \in Marked(p) /\ chain[n].key = k
      BY <3>2, <3>6 DEF Present, Copies
    <3>8. Copies(k) \ Marked(p) = {}
      BY <3>6, <3>7
    <3>. QED
      BY <3>5, <3>7, <3>8 DEF Marks
  <2>4. CASE SyncGuardCommit
    <3>1. PICK K, f, fresh : Carried(K, f, fresh) /\ K = DOMAIN chain \ GuardPositions
      BY <1>1, <2>4, CommitShape
    <3>2. Managed \subseteq K
      BY <3>1 DEF Managed, GuardPositions
    <3>3. \A n \in Managed : chain[n].key \in Present'
      BY <3>1, <3>2, CarriedPresent
    <3>. QED
      BY <3>3 DEF Present
  <2>5. CASE Flush
    BY <2>5 DEF Flush
  <2>. QED
    BY <1>1, <2>1, <2>2, <2>3, <2>4, <2>5, StepCases
<1>2. ChainInv /\ [Next]_vars => [A]_vars
  BY <1>1
<1>. QED
  BY <1>2, InvariantHolds, PTL DEF Spec, ClosedOnlyOnRequest

-----------------------------------------------------------------------------
(* The firewall the other modules assume *)

Count(k) == Cardinality(Copies(k))

\* A key for which no rule is new has as many rules as were carried over.
LEMMA CarriedCopies ==
    ASSUME Types, NEW K, NEW f, NEW fresh, Carried(K, f, fresh), NEW k,
           \A m \in fresh : chain'[m].tag = "allow" => chain'[m].key # k
    PROVE  /\ IsFiniteSet(Copies(k)') /\ IsFiniteSet(Copies(k))
           /\ Cardinality(Copies(k)') = Cardinality(Copies(k) \cap K)
           /\ Copies(k) \subseteq K => Count(k)' = Count(k)
<1>1. PICK S \in SUBSET DOMAIN chain : S = Copies(k)
  BY DEF Copies, Managed
<1>2. PICK T : T = {f[n] : n \in S \cap K}
  OBVIOUS
<1>3. IsFiniteSet(T) /\ Cardinality(T) = Cardinality(S \cap K)
  BY <1>2, CarriedCount
<1>4. Copies(k)' = T
  BY <1>1, <1>2, CarriedSets
<1>5. S \subseteq K => S \cap K = S
  OBVIOUS
<1>6. IsFiniteSet(S)
  BY Positions
<1>. QED
  BY <1>1, <1>3, <1>4, <1>5, <1>6 DEF Count

\* An insertion adds one copy of its key.
LEMMA InsertCounts ==
    ASSUME ChainInv, NEW k \in Keys, chain' = InsertRule(k)
    PROVE  Count(k)' = Count(k) + 1 /\ \A j \in Keys : j # k => Count(j)' = Count(j)
<1>0. Types
  BY DEF ChainInv
<1>1. AllowRule(k) \in RuleSet /\ AllowRule(k).by = {} /\ AllowRule(k).tag = "allow" /\ AllowRule(k).key = k
  BY DEF AllowRule, RuleSet
<1>2. PICK f : Carried(DOMAIN chain, f, {1}) /\ chain'[1] = AllowRule(k)
  BY <1>0, <1>1, InsertCarries DEF InsertRule
<1>3. PICK K : K = DOMAIN chain
  OBVIOUS
<1>4. \A j : Copies(j) \subseteq K
  BY <1>3 DEF Copies, Managed
<1>5. ASSUME NEW j \in Keys, j # k PROVE Count(j)' = Count(j)
  <2>1. Carried(K, f, {1}) /\ \A m \in {1} : chain'[m].tag = "allow" => chain'[m].key # j
    BY <1>1, <1>2, <1>3, <1>5
  <2>. QED
    BY <1>0, <1>4, <2>1, CarriedCopies
<1>6. Count(k)' = Count(k) + 1
  <2>1. PICK S \in SUBSET DOMAIN chain : S = Copies(k)
    BY DEF Copies, Managed
  <2>2. PICK T : T = {f[n] : n \in S \cap K}
    OBVIOUS
  <2>3. IsFiniteSet(T) /\ Cardinality(T) = Cardinality(S)
    <3>1. S \cap K = S
      BY <1>3
    <3>2. IsFiniteSet(T) /\ Cardinality(T) = Cardinality(S \cap K)
      BY <1>0, <1>2, <1>3, <2>2, CarriedCount
    <3>. QED
      BY <3>1, <3>2
  <2>4. Copies(k)' = T \cup {1}
    <3>1. Copies(k)' = {f[n] : n \in Copies(k) \cap K}
                          \cup {m \in {1} : chain'[m].tag = "allow" /\ chain'[m].key = k}
      BY <1>2, <1>3, CarriedSets
    <3>2. {m \in {1} : chain'[m].tag = "allow" /\ chain'[m].key = k} = {1}
      BY <1>1, <1>2
    <3>. QED
      BY <2>1, <2>2, <3>1, <3>2
  <2>5. 1 \notin T
    BY <1>2, <1>3, <2>2 DEF Carried
  <2>6. Cardinality(T \cup {1}) = Cardinality(T) + 1
    BY <2>3, <2>5, FS_AddElement
  <2>. QED
    BY <2>1, <2>3, <2>4, <2>6 DEF Count
<1>. QED
  BY <1>5, <1>6

\* A deletion takes one copy of its key, if it is an allow rule's.
LEMMA DeleteCounts ==
    ASSUME ChainInv, NEW n \in DOMAIN chain, chain' = RemoveAt(chain, n)
    PROVE  /\ \A j \in Keys : n \notin Copies(j) => Count(j)' = Count(j)
           /\ \A j \in Keys : n \in Copies(j) => Count(j) > 0 /\ Count(j)' = Count(j) - 1
<1>0. Types
  BY DEF ChainInv
<1>1. PICK K : K = DOMAIN chain \ {n}
  OBVIOUS
<1>2. PICK f : Carried(K, f, {})
  BY <1>0, <1>1, DeleteCarries
<1>3. ASSUME NEW j \in Keys
      PROVE  /\ IsFiniteSet(Copies(j)') /\ IsFiniteSet(Copies(j))
             /\ Cardinality(Copies(j)') = Cardinality(Copies(j) \cap K)
             /\ Copies(j) \subseteq K => Count(j)' = Count(j)
  BY <1>0, <1>2, CarriedCopies
<1>4. ASSUME NEW j \in Keys, n \notin Copies(j) PROVE Count(j)' = Count(j)
  <2>1. Copies(j) \subseteq K
    BY <1>1, <1>4 DEF Copies, Managed
  <2>. QED
    BY <1>3, <2>1
<1>5. ASSUME NEW j \in Keys, n \in Copies(j) PROVE Count(j) > 0 /\ Count(j)' = Count(j) - 1
  <2>1. PICK S : S = Copies(j)
    OBVIOUS
  <2>2. S \cap K = S \ {n} /\ IsFiniteSet(S) /\ n \in S
    BY <1>1, <1>3, <1>5, <2>1 DEF Copies, Managed
  <2>3. Cardinality(S \ {n}) = Cardinality(S) - 1 /\ IsFiniteSet(S \ {n})
    BY <2>2, FS_RemoveElement
  <2>4. Cardinality(S) \in Nat /\ Cardinality(S \ {n}) \in Nat
    BY <2>2, <2>3, FS_CardinalityType
  <2>5. Cardinality(S) > 0
    BY <2>3, <2>4
  <2>6. Cardinality(Copies(j)') = Cardinality(S \ {n})
    BY <1>3, <2>1, <2>2
  <2>. QED
    BY <2>1, <2>3, <2>5, <2>6 DEF Count
<1>. QED
  BY <1>4, <1>5

\* A step of the backend is a step of the firewall, or none.
LEMMA FirewallStep ==
    ASSUME ChainInv, [Next]_vars
    PROVE  [Fw!Next]_(Fw!vars)
<1>. DEFINE copies == [k \in Keys |-> Count(k)]
<1>0. Types /\ base \in BOOLEAN /\ copies' = [k \in Keys |-> Count(k)'] /\ DOMAIN copies = Keys
  BY DEF ChainInv, Types
<1>1. \/ Fw!Next \/ (copies' = copies /\ Closed' = Closed /\ base' = base)
  <2>1. CASE Relabelled /\ base' \in {base, TRUE}
    <3>1. Closed' = Closed /\ \A k : Copies(k)' = Copies(k)
      BY <2>1, RelabelledSets
    <3>2. copies' = copies
      BY <3>1 DEF Count
    <3>. QED
      BY <2>1, <3>1, <3>2 DEF Fw!Next, Fw!EnsureBase, Count
  <2>2. ASSUME NEW k \in Keys, base, base' = base, chain' = InsertRule(k) PROVE Fw!AddRule(k)
    <3>1. PICK r, f, m : Carried(DOMAIN chain, f, {m}) /\ chain'[m] = r /\ r.tag # "guard"
      BY <2>2, NewRule
    <3>2. GuardPositions \subseteq DOMAIN chain /\ \A j \in {m} : chain'[j].tag # "guard"
      BY <3>1 DEF GuardPositions
    <3>3. Closed' = Closed
      BY <3>1, <3>2, CarriedClosed
    <3>4. Count(k)' = Count(k) + 1 /\ \A j \in Keys : j # k => Count(j)' = Count(j)
      BY <2>2, InsertCounts
    <3>5. copies' = [copies EXCEPT ![k] = @ + 1]
      BY <1>0, <3>4
    <3>. QED
      BY <2>2, <3>3, <3>5 DEF Fw!AddRule, Count
  <2>3. CASE AddHostRule
    <3>1. PICK r, f, m : Carried(DOMAIN chain, f, {m}) /\ chain'[m] = r /\ r.tag = "host"
      <4>2. HostRule \in RuleSet /\ HostRule.by = {} /\ HostRule.tag = "host"
        BY DEF HostRule, RuleSet
      <4>3. chain' = <<HostRule>> \o chain \/ chain' = Append(chain, HostRule)
        BY <2>3 DEF AddHostRule
      <4>4. PICK f, m : Carried(DOMAIN chain, f, {m}) /\ chain'[m] = HostRule
        BY <4>2, <4>3, GrownCarries
      <4>. QED
        BY <4>2, <4>4
    <3>2. GuardPositions \subseteq DOMAIN chain /\ \A j \in {m} : chain'[j].tag # "guard"
      BY <3>1 DEF GuardPositions
    <3>3. Closed' = Closed
      BY <3>1, <3>2, CarriedClosed
    <3>4. ASSUME NEW k \in Keys PROVE Count(k)' = Count(k)
      <4>1. PICK K : K = DOMAIN chain
        OBVIOUS
      <4>2. Carried(K, f, {m}) /\ Copies(k) \subseteq K
        BY <3>1, <4>1 DEF Copies, Managed
      <4>3. \A j \in {m} : chain'[j].tag = "allow" => chain'[j].key # k
        BY <3>1
      <4>. QED
        BY <1>0, <4>2, <4>3, CarriedCopies
    <3>5. copies' = copies
      BY <1>0, <3>4
    <3>. QED
      BY <2>3, <3>3, <3>5 DEF AddHostRule
  <2>4. ASSUME NEW p \in Procs, DeleteByHandle(p)
        PROVE  Fw!Next \/ (copies' = copies /\ Closed' = Closed /\ base' = base)
    <3>1. PICK n \in Named(p) : chain' = RemoveAt(chain, n)
      BY <2>4 DEF DeleteByHandle
    <3>2. n \in DOMAIN chain /\ base' = base /\ base
      <4>1. n \in DOMAIN chain
        BY <3>1 DEF Named, First, Marked
      <4>2. chain # <<>>
        BY <4>1
      <4>. QED
        BY <2>4, <4>1, <4>2 DEF ChainInv, DeleteByHandle
    <3>3. PICK K, f : Carried(K, f, {}) /\ K = DOMAIN chain \ {n}
      BY <1>0, <3>1, <3>2, DeleteCarries
    <3>4. chain[n] \in RuleSet
      BY <1>0, <3>2, Positions
    <3>5. /\ \A j \in Keys : n \notin Copies(j) => Count(j)' = Count(j)
          /\ \A j \in Keys : n \in Copies(j) => Count(j) > 0 /\ Count(j)' = Count(j) - 1
      BY <3>1, <3>2, DeleteCounts
    <3>6. chain[n].tag # "guard" => Closed' = Closed
      <4>. SUFFICES ASSUME chain[n].tag # "guard" PROVE Closed' = Closed
        OBVIOUS
      <4>1. GuardPositions \subseteq K
        BY <3>3 DEF GuardPositions
      <4>. QED
        BY <3>3, <4>1, CarriedClosed
    <3>7. CASE chain[n].tag = "allow"
      <4>1. PICK k \in Keys : k = chain[n].key
        BY <3>4, <3>7 DEF RuleSet
      <4>2. n \in Copies(k) /\ \A j \in Keys : j # k => n \notin Copies(j)
        BY <3>2, <3>7, <4>1 DEF Copies, Managed
      <4>3. copies' = [copies EXCEPT ![k] = @ - 1] /\ copies[k] > 0
        BY <1>0, <3>5, <4>2
      <4>4. Fw!DeleteRule(k)
        BY <3>2, <3>6, <3>7, <4>3 DEF Fw!DeleteRule, Count
      <4>. QED
        BY <4>4 DEF Fw!Next
    <3>8. CASE chain[n].tag # "allow"
      <4>1. \A j \in Keys : n \notin Copies(j)
        BY <3>8 DEF Copies, Managed
      <4>2. copies' = copies
        BY <1>0, <3>5, <4>1
      <4>3. CASE chain[n].tag = "guard"
        <5>1. Closed' \in SUBSET Ports
          <6>1. chain' \in Seq(RuleSet)
            BY <3>3 DEF Carried
          <6>2. \A j \in GuardPositions' : chain'[j].key \in Ports \cup {Loopback}
            BY <6>1 DEF GuardPositions, RuleSet
          <6>. QED
            BY <6>2 DEF Closed
        <5>2. PICK ports \in SUBSET Ports : ports = Closed'
          BY <5>1
        <5>3. Fw!SyncGuard(ports)
          BY <3>2, <4>2, <5>2 DEF Fw!SyncGuard, Count
        <5>. QED
          BY <5>3 DEF Fw!Next
      <4>4. CASE chain[n].tag # "guard"
        BY <3>2, <3>6, <4>2, <4>4
      <4>. QED
        BY <4>3, <4>4
    <3>. QED
      BY <3>7, <3>8
  <2>5. CASE SyncGuardCommit
    <3>1. PICK ports, f, c :
            /\ ports \in SUBSET Ports /\ ports = work[Server].ports /\ base /\ base' = base
            /\ Carried(DOMAIN chain \ GuardPositions, f, (c + 1)..Len(chain'))
            /\ GuardPositions' = (c + 1)..Len(chain')
      BY <2>5, CommitShape
    <3>2. Closed' = ports
      BY <2>5, <3>1, CommitCloses
    <3>3. PICK K, fresh : K = DOMAIN chain \ GuardPositions /\ fresh = (c + 1)..Len(chain')
      OBVIOUS
    <3>4. ASSUME NEW k \in Keys PROVE Count(k)' = Count(k)
      <4>1. Carried(K, f, fresh) /\ Copies(k) \subseteq K
        BY <3>1, <3>3 DEF Copies, Managed, GuardPositions
      <4>2. \A j \in fresh : chain'[j].tag = "guard"
        BY <3>1, <3>3 DEF GuardPositions
      <4>3. \A j \in fresh : chain'[j].tag = "allow" => chain'[j].key # k
        BY <4>2
      <4>. QED
        BY <1>0, <4>1, <4>3, CarriedCopies
    <3>5. copies' = copies
      BY <1>0, <3>4
    <3>6. Fw!SyncGuard(ports)
      BY <3>1, <3>2, <3>5 DEF Fw!SyncGuard, Count
    <3>. QED
      BY <3>1, <3>6 DEF Fw!Next
  <2>6. CASE Flush
    <3>1. chain' = <<>> /\ base' = FALSE
      BY <2>6 DEF Flush
    <3>2. Closed' = {} /\ \A k \in Keys : Copies(k)' = {}
      BY <3>1 DEF Closed, GuardPositions, Copies, Managed
    <3>3. \A k \in Keys : Count(k)' = 0
      BY <3>2, FS_EmptySet DEF Count
    <3>4. copies' = [k \in Keys |-> 0]
      BY <1>0, <3>3
    <3>. QED
      BY <3>1, <3>2, <3>4 DEF Fw!Next, Fw!Flush, Count
  <2>. QED
    BY <2>1, <2>2, <2>3, <2>4, <2>5, <2>6, StepCases DEF Fw!Next
<1>. QED
  BY <1>1 DEF Fw!vars, Count

\* The nftables backend implements the firewall that the hub's and the agent's modules
\* are written against: whatever runs beside it, each of its steps adds one rule, takes
\* one away, replaces the guard as a whole, or shows no effect; a flush empties it.
THEOREM BackendIsFirewall == Spec => ImplementsFirewall
<1>1. Init => Fw!Init
  <2>. SUFFICES ASSUME Init PROVE Fw!Init
    OBVIOUS
  <2>1. chain = <<>> /\ base = FALSE
    BY DEF Init
  <2>2. Closed = {} /\ \A k \in Keys : Copies(k) = {}
    BY <2>1 DEF Closed, GuardPositions, Copies, Managed
  <2>3. Cardinality({}) = 0
    BY FS_EmptySet
  <2>. QED
    BY <2>1, <2>2, <2>3 DEF Fw!Init
<1>2. ChainInv /\ [Next]_vars => [Fw!Next]_(Fw!vars)
  BY FirewallStep
<1>. QED
  BY <1>1, <1>2, InvariantHolds, PTL DEF Spec, ImplementsFirewall, Fw!Spec
=============================================================================
