----------------------------- MODULE GateProofs -----------------------------
(***************************************************************************)
(* Theorems about Gate for any numbers of hosts, proxies, requests in      *)
(* flight, secrets and counting errors, and any throttle limit.            *)
(***************************************************************************)
EXTENDS Gate, FiniteSetTheorems, TLAPS

RequestRecord == [phase : {"idle", "verify", "isadmin", "getuser", "admitted"},
                  host : Hosts \cup {NoHost}, ip : Peers \cup {NoHost},
                  signed : 0..MaxSecrets, admin : BOOLEAN, moved : BOOLEAN, got : Account]

\* A request in progress is throttled under an address its host can appear as.
OwnAddress ==
    \A r \in Requests : req[r].phase # "idle" =>
        req[r].host \in Hosts /\ req[r].ip \in Addresses(req[r].host)

\* What a request has read still holds, unless the account moved.
Current ==
    \A r \in Requests : ~req[r].moved =>
        /\ req[r].phase \in {"isadmin", "getuser"} => req[r].signed = account.secret
        /\ req[r].phase = "getuser" => account.admin

Inv ==
    /\ TypeOK
    /\ OwnAddress
    /\ Current
    /\ LockoutIsOwn
    /\ AdmittedIsAdmin

\* The fields of a request's record.
LEMMA RecordTypes ==
    /\ NoRequest \in RequestRecord /\ NoRequest.phase = "idle"
    /\ NoAccount \in Account
    /\ \A f \in RequestRecord :
         /\ f.phase \in {"idle", "verify", "isadmin", "getuser", "admitted"}
         /\ f.host \in Hosts \cup {NoHost} /\ f.ip \in Peers \cup {NoHost}
         /\ f.signed \in 0..MaxSecrets /\ f.admin \in BOOLEAN /\ f.moved \in BOOLEAN
         /\ f.got \in Account
BY GateAssumption DEF NoRequest, NoAccount, RequestRecord, Account

-----------------------------------------------------------------------------
(* Addresses *)

\* Whatever a client claims, the address it is throttled under is its own or a
\* trusted proxy's.
LEMMA AddressIsOwn ==
    ASSUME NEW h \in Hosts, NEW ip \in Addresses(h)
    PROVE  ip = h \/ ip \in Proxies
<1>1. PICK p \in {h} \cup Proxies : \E hs \in Sent(h, p) : ip = requestIP(p, hs)
  BY DEF Addresses
<1>2. PICK headers \in Sent(h, p) : ip = requestIP(p, headers)
  BY <1>1
<1>3. h \notin Proxies /\ h # NoHost /\ p # NoHost
  BY <1>1, GateAssumption
<1>4. CASE p \notin Proxies
  BY <1>1, <1>2, <1>3, <1>4 DEF requestIP, clientIP
<1>5. CASE p \in Proxies
  <2>1. PICK c \in Claims :
          \/ headers = [c EXCEPT !.real = h]
          \/ headers = [real |-> NoHost, forwarded |-> Append(c.forwarded, h)]
          \/ headers = NoHeaders
    BY <1>2, <1>3, <1>5 DEF Sent
  <2>2. c.forwarded \in Seq(Hosts) /\ c = [real |-> c.real, forwarded |-> c.forwarded]
    <3>1. CASE c = NoHeaders
      BY <3>1 DEF NoHeaders
    <3>2. CASE \E x \in Hosts : c = [real |-> x, forwarded |-> <<x>>]
      <4>1. PICK x \in Hosts : c = [real |-> x, forwarded |-> <<x>>]
        BY <3>2
      <4>2. c.real = x /\ c.forwarded = <<x>>
        BY <4>1
      <4>3. <<x>> \in Seq(Hosts)
        OBVIOUS
      <4>. QED BY <4>1, <4>2, <4>3
    <3>. QED BY <2>1, <3>1, <3>2 DEF Claims
  <2>3. CASE headers = [c EXCEPT !.real = h]
    <3>1. headers.real = h
      BY <2>2, <2>3
    <3>. QED BY <1>2, <1>3, <1>5, <3>1 DEF requestIP, clientIP
  <2>4. CASE headers = [real |-> NoHost, forwarded |-> Append(c.forwarded, h)]
    <3> DEFINE fwd == Append(c.forwarded, h)
    <3>1. fwd # <<>> /\ fwd[Len(fwd)] = h
      BY <2>2
    <3>2. headers.real = NoHost /\ headers.forwarded = fwd
      BY <2>4
    <3>3. clientIP(p, headers) = h
      BY <1>5, <3>1, <3>2 DEF clientIP
    <3>. QED BY <1>2, <1>3, <3>3 DEF requestIP
  <2>5. CASE headers = NoHeaders
    BY <1>2, <1>3, <1>5, <2>5 DEF requestIP, clientIP, NoHeaders
  <2>. QED BY <2>1, <2>3, <2>4, <2>5
<1>. QED BY <1>4, <1>5

-----------------------------------------------------------------------------
\* At the start nobody has failed and no request is in progress.
LEMMA InitInv == ASSUME Init PROVE Inv
<1>1. /\ account = [secret |-> 1, admin |-> TRUE] /\ issued = 1 /\ errors = 0 /\ failed = {}
      /\ fails = [ip \in Peers |-> 0] /\ req = [r \in Requests |-> NoRequest]
  BY DEF Init
<1>2. /\ account \in Account /\ account.secret = 1
      /\ 1 \in 1..MaxSecrets /\ 0 \in 0..MaxErrors
  BY <1>1, GateAssumption DEF Account
<1>3. TypeOK
  BY <1>1, <1>2, RecordTypes DEF TypeOK, RequestRecord
<1>4. OwnAddress /\ Current /\ AdmittedIsAdmin
  BY <1>1, RecordTypes DEF OwnAddress, Current, AdmittedIsAdmin
<1>5. LockoutIsOwn
  BY <1>1 DEF LockoutIsOwn, Peers
<1>. QED BY <1>3, <1>4, <1>5 DEF Inv

\* One request changes, the account does not, and the counts of failures grow
\* only by the request's own.
LEMMA OneRequest ==
    ASSUME Inv, NEW r \in Requests, NEW new \in RequestRecord,
           req' = [req EXCEPT ![r] = new],
           UNCHANGED <<account, issued>>, errors' \in 0..MaxErrors,
           fails' \in [Peers -> Nat], failed' \subseteq Hosts, LockoutIsOwn',
           new.phase = "idle" => new = NoRequest,
           new.phase \in {"isadmin", "getuser", "admitted"} => new.admin,
           new.phase # "idle" => new.host \in Hosts /\ new.ip \in Addresses(new.host),
           ~new.moved /\ new.phase \in {"isadmin", "getuser"} => new.signed = account.secret,
           ~new.moved /\ new.phase = "getuser" => account.admin,
           ~new.moved /\ new.phase = "admitted" => new.got.admin /\ new.got.secret = new.signed
    PROVE  Inv'
<1>1. req \in [Requests -> RequestRecord]
  BY DEF Inv, TypeOK, RequestRecord
<1>2. req' \in [Requests -> RequestRecord] /\ req'[r] = new
  BY <1>1
<1>3. \A s \in Requests : s # r => req'[s] = req[s]
  BY <1>1
<1>4. TypeOK'
  <2>1. \A s \in Requests :
          /\ req'[s].phase = "idle" => req'[s] = NoRequest
          /\ req'[s].phase \in {"isadmin", "getuser", "admitted"} => req'[s].admin
    BY <1>2, <1>3 DEF Inv, TypeOK
  <2>. QED BY <1>2, <2>1 DEF Inv, TypeOK, RequestRecord
<1>5. OwnAddress'
  BY <1>2, <1>3 DEF Inv, OwnAddress
<1>6. Current'
  BY <1>2, <1>3 DEF Inv, Current
<1>7. AdmittedIsAdmin'
  BY <1>2, <1>3 DEF Inv, AdmittedIsAdmin
<1>. QED BY <1>4, <1>5, <1>6, <1>7 DEF Inv

\* A request ends, having recorded a failure or not.
LEMMA Ends ==
    ASSUME Inv, NEW r \in Requests, Finish(r), UNCHANGED <<account, issued, errors>>,
           UNCHANGED <<fails, failed>> \/ (req[r].phase # "idle" /\ RecordFailedAttempt(r))
    PROVE  Inv'
<1>1. errors \in 0..MaxErrors /\ fails \in [Peers -> Nat] /\ failed \subseteq Hosts
  BY DEF Inv, TypeOK
<1>2. fails' \in [Peers -> Nat] /\ failed' \subseteq Hosts /\ LockoutIsOwn'
  <2>1. CASE UNCHANGED <<fails, failed>>
    BY <1>1, <2>1 DEF Inv, LockoutIsOwn
  <2>2. CASE /\ req[r].phase # "idle"
             /\ fails' = [fails EXCEPT ![req[r].ip] = @ + 1]
             /\ failed' = failed \cup {req[r].host}
    <3>1. req[r].host \in Hosts /\ (req[r].ip = req[r].host \/ req[r].ip \in Proxies)
      BY <2>2, AddressIsOwn DEF Inv, OwnAddress
    <3>2. req[r].ip \in Peers
      BY <3>1 DEF Peers
    <3>3. fails' \in [Peers -> Nat]
      BY <1>1, <2>2, <3>2
    <3>4. ASSUME NEW h \in Hosts, fails'[h] > 0 PROVE h \in failed'
      <4>1. h \in Peers /\ h \notin Proxies
        BY GateAssumption DEF Peers
      <4>2. CASE h = req[r].ip
        BY <2>2, <3>1, <4>1, <4>2
      <4>3. CASE h # req[r].ip
        <5>1. fails'[h] = fails[h]
          BY <1>1, <2>2, <4>1, <4>3
        <5>. QED BY <2>2, <3>4, <5>1 DEF Inv, LockoutIsOwn
      <4>. QED BY <4>2, <4>3
    <3>. QED BY <1>1, <2>2, <3>1, <3>3, <3>4 DEF LockoutIsOwn
  <2>. QED BY <2>1, <2>2 DEF RecordFailedAttempt
<1>3. req' = [req EXCEPT ![r] = NoRequest]
  BY DEF Finish
<1>. QED BY <1>1, <1>2, <1>3, RecordTypes, OneRequest

\* A request goes on to its next read.
LEMMA GoesOn ==
    ASSUME Inv, NEW r \in Requests, NEW p \in {"isadmin", "getuser"}, Go(r, p),
           req[r].phase # "idle", req[r].admin,
           UNCHANGED <<account, issued, fails, errors, failed>>,
           ~req[r].moved => req[r].signed = account.secret,
           ~req[r].moved /\ p = "getuser" => account.admin
    PROVE  Inv'
<1> DEFINE new == [req[r] EXCEPT !.phase = p]
<1>1. /\ req \in [Requests -> RequestRecord] /\ errors \in 0..MaxErrors
      /\ fails \in [Peers -> Nat] /\ failed \subseteq Hosts
  BY DEF Inv, TypeOK, RequestRecord
<1>2. req' = [req EXCEPT ![r] = new]
  BY <1>1 DEF Go
<1>3. /\ new \in RequestRecord /\ new.phase = p /\ new.host = req[r].host /\ new.ip = req[r].ip
      /\ new.signed = req[r].signed /\ new.admin = req[r].admin /\ new.moved = req[r].moved
  <2>1. req[r] \in RequestRecord
    BY <1>1
  <2>. QED BY <2>1 DEF RequestRecord
<1>4. new.host \in Hosts /\ new.ip \in Addresses(new.host)
  BY <1>3 DEF Inv, OwnAddress
<1>5. LockoutIsOwn'
  BY DEF Inv, LockoutIsOwn
<1> HIDE DEF new
<1>. QED BY <1>1, <1>2, <1>3, <1>4, <1>5, OneRequest

\* Somebody changes the account: those between two reads notice, as history.
LEMMA AccountMoves ==
    ASSUME Inv, req' = Moved, UNCHANGED <<fails, errors, failed>>,
           account' \in Account, issued' \in 1..MaxSecrets, account'.secret <= issued'
    PROVE  Inv'
<1> DEFINE new(r) == [req[r] EXCEPT !.moved = @ \/ req[r].phase \in {"isadmin", "getuser"}]
<1>1. req \in [Requests -> RequestRecord]
  BY DEF Inv, TypeOK, RequestRecord
<1>2. ASSUME NEW r \in Requests
      PROVE  /\ req'[r] \in RequestRecord /\ req'[r].phase = req[r].phase
             /\ req'[r].host = req[r].host /\ req'[r].ip = req[r].ip
             /\ req'[r].signed = req[r].signed /\ req'[r].admin = req[r].admin
             /\ req'[r].got = req[r].got
             /\ req'[r].moved = (req[r].moved \/ req[r].phase \in {"isadmin", "getuser"})
             /\ req[r].phase = "idle" => req'[r] = req[r]
  <2>1. req'[r] = new(r)
    BY DEF Moved
  <2>2. req[r] \in RequestRecord
    BY <1>1
  <2>3. req[r].moved \in BOOLEAN
    BY <2>2, RecordTypes
  <2>4. (req[r].moved \/ req[r].phase \in {"isadmin", "getuser"}) \in BOOLEAN
    BY <2>3, Zenon
  <2>5. new(r) \in RequestRecord
    BY <2>2, <2>4 DEF RequestRecord
  <2>6. req[r].phase = "idle" => new(r) = req[r]
    <3>1. ASSUME req[r].phase = "idle" PROVE new(r) = req[r]
      <4>1. (req[r].moved \/ req[r].phase \in {"isadmin", "getuser"}) = req[r].moved
        BY <2>3, <3>1
      <4>2. new(r) = [req[r] EXCEPT !.moved = req[r].moved]
        BY <2>2, <4>1 DEF RequestRecord
      <4>. QED BY <2>2, <4>2 DEF RequestRecord
    <3>. QED BY <3>1
  <2>. QED BY <2>1, <2>2, <2>5, <2>6 DEF RequestRecord
<1>3. req' \in [Requests -> RequestRecord]
  BY <1>2 DEF Moved
<1>4. TypeOK'
  <2>1. \A r \in Requests :
          /\ req'[r].phase = "idle" => req'[r] = NoRequest
          /\ req'[r].phase \in {"isadmin", "getuser", "admitted"} => req'[r].admin
    BY <1>2 DEF Inv, TypeOK
  <2>. QED BY <1>3, <2>1 DEF Inv, TypeOK, RequestRecord
<1>5. OwnAddress'
  BY <1>2 DEF Inv, OwnAddress
<1>6. Current'
  BY <1>2 DEF Current
<1>7. LockoutIsOwn'
  BY DEF Inv, LockoutIsOwn
<1>8. AdmittedIsAdmin'
  BY <1>2 DEF Inv, AdmittedIsAdmin
<1>. QED BY <1>4, <1>5, <1>6, <1>7, <1>8 DEF Inv

\* throttleGate brings in a request under an address of its host's own.
LEMMA AdmitStep ==
    ASSUME Inv, NEW r \in Requests, NEW h \in Senders, NEW ip \in Addresses(h),
           NEW signed \in 0..issued, NEW admin \in BOOLEAN, Admit(r, h, ip, signed, admin)
    PROVE  Inv'
<1> DEFINE new == [phase |-> "verify", host |-> h, ip |-> ip, signed |-> signed,
                   admin |-> admin, moved |-> FALSE, got |-> NoAccount]
<1>1. h \in Hosts /\ ip \in Peers
  BY AddressIsOwn, GateAssumption DEF Peers
<1>2. /\ errors \in 0..MaxErrors /\ fails \in [Peers -> Nat] /\ failed \subseteq Hosts
      /\ issued \in 1..MaxSecrets
  BY DEF Inv, TypeOK
<1>3. signed \in 0..MaxSecrets
  BY <1>2, GateAssumption
<1>4. new \in RequestRecord /\ new.phase = "verify" /\ new.host = h /\ new.ip = ip
  BY <1>1, <1>3, RecordTypes DEF RequestRecord
<1>5. /\ req' = [req EXCEPT ![r] = new] /\ UNCHANGED <<account, issued, fails, failed>>
      /\ errors' = errors \/ (errors < MaxErrors /\ errors' = errors + 1)
  BY DEF Admit
<1>6. errors' \in 0..MaxErrors
  BY <1>2, <1>5, GateAssumption
<1>7. LockoutIsOwn'
  BY <1>5 DEF Inv, LockoutIsOwn
<1> HIDE DEF new
<1>. QED BY <1>1, <1>2, <1>4, <1>5, <1>6, <1>7, OneRequest

\* Each read of VerifyHMAC and RequireAdmin preserves the invariant.
LEMMA HandleStep ==
    ASSUME Inv, NEW r \in Requests, Handle(r)
    PROVE  Inv'
<1>1. /\ req \in [Requests -> RequestRecord] /\ errors \in 0..MaxErrors
      /\ fails \in [Peers -> Nat] /\ failed \subseteq Hosts /\ account \in Account
  BY DEF Inv, TypeOK, RequestRecord
<1>2. req[r] \in RequestRecord
  BY <1>1
<1>3. CASE VerifyHMAC(r)
  <2>1. /\ req[r].phase = "verify" /\ req[r].signed = account.secret
        /\ UNCHANGED <<account, issued, fails, errors, failed>>
    BY <1>3 DEF VerifyHMAC, Verified
  <2>2. CASE req[r].admin
    BY <1>3, <2>1, <2>2, GoesOn DEF VerifyHMAC
  <2>3. CASE ~req[r].admin
    BY <1>3, <2>1, <2>3, Ends DEF VerifyHMAC
  <2>. QED BY <2>2, <2>3
<1>4. CASE VerifyFails(r)
  <2>1. req[r].phase = "verify" /\ RecordFailedAttempt(r) /\ Finish(r)
        /\ UNCHANGED <<account, issued, errors>>
    BY <1>4 DEF VerifyFails
  <2>. QED BY <2>1, Ends
<1>5. CASE IsAdmin(r)
  <2>1. /\ req[r].phase = "isadmin" /\ account.admin /\ Go(r, "getuser")
        /\ UNCHANGED <<account, issued, fails, errors, failed>>
    BY <1>5 DEF IsAdmin, adminRow
  <2>2. req[r].admin /\ (~req[r].moved => req[r].signed = account.secret)
    BY <2>1 DEF Inv, TypeOK, Current
  <2>. QED BY <2>1, <2>2, GoesOn
<1>6. CASE NotAdmin(r)
  <2>1. req[r].phase = "isadmin" /\ RecordFailedAttempt(r) /\ Finish(r)
        /\ UNCHANGED <<account, issued, errors>>
    BY <1>6 DEF NotAdmin
  <2>. QED BY <2>1, Ends
<1>7. CASE GetUser(r)
  <2> DEFINE new == [req[r] EXCEPT !.phase = "admitted", !.got = account]
  <2>1. /\ req[r].phase = "getuser" /\ req' = [req EXCEPT ![r] = new]
        /\ UNCHANGED <<account, issued, fails, errors, failed>>
    BY <1>1, <1>7 DEF GetUser
  <2>2. /\ new \in RequestRecord /\ new.phase = "admitted" /\ new.got = account
        /\ new.host = req[r].host /\ new.ip = req[r].ip /\ new.signed = req[r].signed
        /\ new.admin = req[r].admin /\ new.moved = req[r].moved
    BY <1>1, <1>2 DEF RequestRecord
  <2>3. /\ req[r].admin /\ req[r].host \in Hosts /\ req[r].ip \in Addresses(req[r].host)
        /\ ~req[r].moved => account.admin /\ account.secret = req[r].signed
    BY <2>1 DEF Inv, TypeOK, OwnAddress, Current
  <2>4. LockoutIsOwn'
    BY <2>1 DEF Inv, LockoutIsOwn
  <2> HIDE DEF new
  <2>. QED BY <1>1, <2>1, <2>2, <2>3, <2>4, OneRequest
<1>8. CASE TotpFailed(r)
  <2>1. req[r].phase = "admitted" /\ RecordFailedAttempt(r) /\ Finish(r)
        /\ UNCHANGED <<account, issued, errors>>
    BY <1>8 DEF TotpFailed
  <2>. QED BY <2>1, Ends
<1>9. CASE Done(r)
  BY <1>9, Ends DEF Done
<1>. QED BY <1>3, <1>4, <1>5, <1>6, <1>7, <1>8, <1>9 DEF Handle

\* The other requests and commands that change the account's row.
LEMMA AccountStep ==
    ASSUME Inv, (\E admin \in BOOLEAN : CreateUser(admin)) \/ RotateSecret \/ SetAdmin \/ DeleteUser
    PROVE  Inv'
<1>1. account \in Account /\ issued \in 1..MaxSecrets /\ account.secret <= issued
  BY DEF Inv, TypeOK
<1>2. account.secret \in 0..MaxSecrets /\ account.admin \in BOOLEAN
  BY <1>1 DEF Account
<1>3. ASSUME NEW admin \in BOOLEAN, NewSecret(admin) PROVE Inv'
  <2>1. /\ issued' = issued + 1 /\ issued < MaxSecrets /\ req' = Moved
        /\ account' = [secret |-> issued + 1, admin |-> admin]
        /\ UNCHANGED <<fails, errors, failed>>
    BY <1>3 DEF NewSecret
  <2>2. issued' \in 1..MaxSecrets /\ issued + 1 \in 0..MaxSecrets
    BY <1>1, <2>1, GateAssumption
  <2>3. account' \in Account /\ account'.secret = issued + 1
    BY <2>1, <2>2 DEF Account
  <2>4. account'.secret <= issued'
    BY <1>1, <2>1, <2>3
  <2>. QED BY <2>1, <2>2, <2>3, <2>4, AccountMoves
<1>4. CASE SetAdmin
  <2>1. /\ account' = [account EXCEPT !.admin = ~account.admin] /\ issued' = issued /\ req' = Moved
        /\ UNCHANGED <<fails, errors, failed>>
    BY <1>4 DEF SetAdmin
  <2>2. (~account.admin) \in BOOLEAN
    BY <1>2, Zenon
  <2>3. account' \in Account /\ account'.secret = account.secret
    BY <1>1, <2>1, <2>2 DEF Account
  <2>. QED BY <1>1, <2>1, <2>3, AccountMoves
<1>5. CASE DeleteUser
  <2>1. /\ account' = NoAccount /\ issued' = issued /\ req' = Moved
        /\ UNCHANGED <<fails, errors, failed>>
    BY <1>5 DEF DeleteUser
  <2>2. NoAccount.secret = 0 /\ NoAccount \in Account
    BY RecordTypes DEF NoAccount
  <2>3. account'.secret <= issued'
    BY <1>1, <2>1, <2>2, GateAssumption
  <2>. QED BY <1>1, <2>1, <2>2, <2>3, AccountMoves
<1>. QED BY <1>2, <1>3, <1>4, <1>5 DEF CreateUser, RotateSecret

\* Every step preserves the invariant.
LEMMA NextInv ==
    ASSUME Inv, [Next]_vars
    PROVE  Inv'
<1>1. ASSUME UNCHANGED vars PROVE Inv'
  BY <1>1 DEF vars, Inv, TypeOK, OwnAddress, Current, LockoutIsOwn, AdmittedIsAdmin
<1>2. ASSUME NEW r \in Requests, NEW h \in Senders, NEW signed \in 0..issued,
             NEW admin \in BOOLEAN, NEW ip \in Addresses(h), throttleGate(r, h, ip, signed, admin)
      PROVE  Inv'
  <2>1. CASE Throttled(ip)
    BY <1>1, <2>1 DEF Throttled
  <2>2. CASE Admit(r, h, ip, signed, admin)
    BY <2>2, AdmitStep
  <2>. QED BY <1>2, <2>1, <2>2 DEF throttleGate
<1>3. ASSUME NEW ip \in Peers, FailureAges(ip) PROVE Inv'
  <2>1. /\ fails \in [Peers -> Nat] /\ fails[ip] > 0
        /\ fails' = [fails EXCEPT ![ip] = fails[ip] - 1]
        /\ UNCHANGED <<account, issued, req, errors, failed>>
    BY <1>3 DEF FailureAges, Inv, TypeOK
  <2>2. fails' \in [Peers -> Nat]
    BY <2>1
  <2>3. TypeOK'
    BY <2>1, <2>2 DEF Inv, TypeOK
  <2>4. LockoutIsOwn'
    <3>1. ASSUME NEW h \in Hosts, fails'[h] > 0 PROVE h \in failed'
      <4>1. h \in Peers
        BY DEF Peers
      <4>2. fails[h] > 0
        BY <2>1, <3>1, <4>1
      <4>. QED BY <2>1, <4>2 DEF Inv, LockoutIsOwn
    <3>. QED BY <3>1 DEF LockoutIsOwn
  <2>5. OwnAddress' /\ Current' /\ AdmittedIsAdmin'
    BY <2>1 DEF Inv, OwnAddress, Current, AdmittedIsAdmin
  <2>. QED BY <2>3, <2>4, <2>5 DEF Inv
<1>. QED BY <1>1, <1>2, <1>3, HandleStep, AccountStep DEF Next

\* The invariant holds throughout.
LEMMA InvHolds == Spec => []Inv
<1>1. Init => Inv
  BY InitInv
<1>2. Inv /\ [Next]_vars => Inv'
  BY NextInv
<1>. QED BY <1>1, <1>2, PTL DEF Spec

-----------------------------------------------------------------------------
(* The throttle *)

\* Requests of an address that may still be recorded as failures.
InFlight(ip) == {r \in Requests : req[r].phase # "idle" /\ req[r].ip = ip}

Bound(ip) == fails[ip] + Cardinality(InFlight(ip)) <= MaxFailures + Cardinality(Requests) - 1 + errors

ThrottleInv == Inv /\ \A ip \in Peers : Bound(ip)

\* Sets of requests are finite.
LEMMA Counting ==
    ASSUME NEW S \in SUBSET Requests
    PROVE  /\ IsFiniteSet(S) /\ Cardinality(S) \in Nat /\ Cardinality(Requests) \in Nat
           /\ Cardinality(S) <= Cardinality(Requests)
BY FS_Subset, FS_CardinalityType, GateAssumption

\* A step that records nothing and brings nobody in.
LEMMA NotMore ==
    ASSUME ThrottleInv, NEW ip \in Peers, InFlight(ip)' \subseteq InFlight(ip),
           fails'[ip] \in Nat, fails'[ip] <= fails[ip], errors' = errors
    PROVE  Bound(ip)'
<1>1. /\ fails[ip] \in Nat /\ errors \in Nat /\ MaxFailures \in Nat
      /\ Bound(ip)
  BY GateAssumption DEF ThrottleInv, Inv, TypeOK
<1>2. InFlight(ip) \in SUBSET Requests /\ InFlight(ip)' \in SUBSET Requests
  BY DEF InFlight
<1>3. Cardinality(InFlight(ip)') <= Cardinality(InFlight(ip))
  BY <1>2, Counting, FS_Subset
<1>4. Cardinality(InFlight(ip)') \in Nat /\ Cardinality(InFlight(ip)) \in Nat
      /\ Cardinality(Requests) \in Nat
  BY <1>2, Counting
<1>. QED BY <1>1, <1>3, <1>4 DEF Bound

\* A request is let in below the limit, or a counting error is charged for it.
LEMMA AdmitBound ==
    ASSUME ThrottleInv, NEW r \in Requests, NEW h \in Senders, NEW ip0 \in Addresses(h),
           NEW signed \in 0..issued, NEW admin \in BOOLEAN, Admit(r, h, ip0, signed, admin),
           NEW ip \in Peers
    PROVE  Bound(ip)'
<1>1. /\ fails[ip] \in Nat /\ errors \in Nat /\ MaxFailures \in Nat \ {0}
      /\ fails' = fails /\ Bound(ip)
      /\ req \in [Requests -> RequestRecord]
  BY GateAssumption DEF ThrottleInv, Inv, TypeOK, Admit, RequestRecord
<1>2. InFlight(ip) \in SUBSET Requests /\ InFlight(ip)' \in SUBSET Requests
  BY DEF InFlight
<1>3. /\ Cardinality(InFlight(ip)') \in Nat /\ Cardinality(InFlight(ip)) \in Nat
      /\ Cardinality(Requests) \in Nat /\ Cardinality(InFlight(ip)') <= Cardinality(Requests)
      /\ IsFiniteSet(InFlight(ip))
  BY <1>2, Counting
<1>4. /\ req'[r].phase = "verify" /\ req'[r].ip = ip0
      /\ \A s \in Requests : s # r => req'[s] = req[s]
      /\ req[r].phase = "idle"
  BY <1>1, RecordTypes DEF Admit
<1>5. CASE ip # ip0
  <2>1. InFlight(ip)' \subseteq InFlight(ip)
    BY <1>4, <1>5 DEF InFlight
  <2>2. Cardinality(InFlight(ip)') <= Cardinality(InFlight(ip))
    BY <1>2, <1>3, <2>1, FS_Subset
  <2>3. errors' \in {errors, errors + 1}
    BY DEF Admit
  <2>. QED BY <1>1, <1>3, <2>2, <2>3 DEF Bound
<1>6. CASE ip = ip0 /\ ~CheckIPThrottle(ip) /\ UNCHANGED errors
  <2>1. fails[ip] < MaxFailures
    BY <1>1, <1>6 DEF CheckIPThrottle
  <2>. QED BY <1>1, <1>3, <1>6, <2>1 DEF Bound
<1>7. CASE ip = ip0 /\ errors' = errors + 1
  <2>1. InFlight(ip)' = InFlight(ip) \cup {r} /\ r \notin InFlight(ip)
    BY <1>4, <1>7 DEF InFlight
  <2>2. Cardinality(InFlight(ip)') = Cardinality(InFlight(ip)) + 1
    BY <1>3, <2>1, FS_AddElement
  <2>. QED BY <1>1, <1>3, <1>7, <2>2 DEF Bound
<1>. QED BY <1>5, <1>6, <1>7 DEF Admit

\* A failure recorded moves a request from those in flight to the count.
LEMMA RecordBound ==
    ASSUME ThrottleInv, NEW r \in Requests, req[r].phase # "idle",
           RecordFailedAttempt(r), Finish(r), errors' = errors, NEW ip \in Peers
    PROVE  Bound(ip)'
<1>1. /\ fails \in [Peers -> Nat] /\ errors \in Nat /\ MaxFailures \in Nat
      /\ Bound(ip)
      /\ req \in [Requests -> RequestRecord]
  BY GateAssumption DEF ThrottleInv, Inv, TypeOK, RequestRecord
<1>2. req'[r].phase = "idle" /\ \A s \in Requests : s # r => req'[s] = req[s]
  BY <1>1, RecordTypes DEF Finish
<1>3. InFlight(ip)' = InFlight(ip) \ {r}
  BY <1>2 DEF InFlight
<1>4. CASE UNCHANGED <<fails, failed>>
  BY <1>1, <1>3, <1>4, NotMore
<1>5. CASE fails' = [fails EXCEPT ![req[r].ip] = @ + 1] /\ ip # req[r].ip
  BY <1>1, <1>3, <1>5, NotMore
<1>6. CASE fails' = [fails EXCEPT ![req[r].ip] = @ + 1] /\ ip = req[r].ip
  <2>1. InFlight(ip) \in SUBSET Requests /\ r \in InFlight(ip)
    BY <1>6 DEF InFlight
  <2>2. IsFiniteSet(InFlight(ip)) /\ Cardinality(InFlight(ip)) \in Nat /\ Cardinality(Requests) \in Nat
    BY <2>1, Counting
  <2>3. Cardinality(InFlight(ip)') = Cardinality(InFlight(ip)) - 1
    BY <1>3, <2>1, <2>2, FS_RemoveElement
  <2>4. fails'[ip] = fails[ip] + 1 /\ fails[ip] \in Nat
    BY <1>1, <1>6
  <2>. QED BY <1>1, <2>2, <2>3, <2>4 DEF Bound
<1>. QED BY <1>4, <1>5, <1>6 DEF RecordFailedAttempt

\* A failure that is recorded takes its request out of flight.
LEMMA HandleBound ==
    ASSUME ThrottleInv, NEW r \in Requests, Handle(r), NEW ip \in Peers
    PROVE  Bound(ip)'
<1>1. fails[ip] \in Nat /\ req \in [Requests -> RequestRecord]
  BY DEF ThrottleInv, Inv, TypeOK, RequestRecord
<1>2. CASE VerifyFails(r) \/ NotAdmin(r) \/ TotpFailed(r)
  BY <1>2, RecordBound DEF VerifyFails, NotAdmin, TotpFailed
<1>3. ASSUME UNCHANGED <<fails, errors>>, NEW new, req' = [req EXCEPT ![r] = new],
             new.phase # "idle" => req[r].phase # "idle" /\ new.ip = req[r].ip
      PROVE  Bound(ip)'
  <2>1. req'[r] = new /\ \A s \in Requests : s # r => req'[s] = req[s]
    BY <1>1, <1>3
  <2>2. InFlight(ip)' \subseteq InFlight(ip)
    BY <1>3, <2>1 DEF InFlight
  <2>. QED BY <1>1, <1>3, <2>2, NotMore
<1>4. req[r] \in RequestRecord
  BY <1>1
<1>5. ASSUME NEW p, Go(r, p), UNCHANGED <<fails, errors>>, req[r].phase # "idle"
      PROVE  Bound(ip)'
  <2> DEFINE new == [req[r] EXCEPT !.phase = p]
  <2>1. new.ip = req[r].ip
    BY <1>4 DEF RequestRecord
  <2>2. req' = [req EXCEPT ![r] = new]
    BY <1>1, <1>5 DEF Go
  <2> HIDE DEF new
  <2>. QED BY <1>3, <1>5, <2>1, <2>2
<1>6. ASSUME Finish(r), UNCHANGED <<fails, errors>> PROVE Bound(ip)'
  BY <1>3, <1>6, RecordTypes DEF Finish
<1>7. CASE VerifyHMAC(r)
  BY <1>5, <1>6, <1>7 DEF VerifyHMAC
<1>8. CASE IsAdmin(r)
  BY <1>5, <1>8 DEF IsAdmin
<1>9. CASE GetUser(r)
  <2> DEFINE new == [req[r] EXCEPT !.phase = "admitted", !.got = account]
  <2>1. new.ip = req[r].ip
    BY <1>4 DEF RequestRecord
  <2>2. /\ req' = [req EXCEPT ![r] = new] /\ UNCHANGED <<fails, errors>>
        /\ req[r].phase # "idle"
    BY <1>1, <1>9 DEF GetUser
  <2> HIDE DEF new
  <2>. QED BY <1>3, <2>1, <2>2
<1>10. CASE Done(r)
  BY <1>6, <1>10 DEF Done
<1>. QED BY <1>2, <1>7, <1>8, <1>9, <1>10 DEF Handle

\* Every step preserves the bound.
LEMMA NextBound ==
    ASSUME ThrottleInv, [Next]_vars
    PROVE  ThrottleInv'
<1>1. Inv'
  BY NextInv DEF ThrottleInv
<1>2. SUFFICES ASSUME NEW ip \in Peers PROVE Bound(ip)'
  BY <1>1 DEF ThrottleInv
<1>3. fails \in [Peers -> Nat] /\ req \in [Requests -> RequestRecord]
  BY DEF ThrottleInv, Inv, TypeOK, RequestRecord
<1>4. ASSUME UNCHANGED <<req, errors>>, fails'[ip] \in Nat, fails'[ip] <= fails[ip]
      PROVE  Bound(ip)'
  BY <1>4, NotMore DEF InFlight
<1>5. CASE UNCHANGED vars
  BY <1>3, <1>4, <1>5 DEF vars
<1>6. ASSUME NEW r \in Requests, NEW h \in Senders, NEW signed \in 0..issued,
             NEW admin \in BOOLEAN, NEW i \in Addresses(h), throttleGate(r, h, i, signed, admin)
      PROVE  Bound(ip)'
  BY <1>5, <1>6, AdmitBound DEF throttleGate, Throttled
<1>7. ASSUME NEW i \in Peers, FailureAges(i) PROVE Bound(ip)'
  <2>1. fails'[ip] \in Nat /\ fails'[ip] <= fails[ip]
    BY <1>3, <1>7 DEF FailureAges
  <2>. QED BY <1>4, <1>7, <2>1 DEF FailureAges
<1>8. CASE (\E admin \in BOOLEAN : CreateUser(admin)) \/ RotateSecret \/ SetAdmin \/ DeleteUser
  <2>1. req' = Moved /\ UNCHANGED <<fails, errors>>
    BY <1>8 DEF CreateUser, RotateSecret, NewSecret, SetAdmin, DeleteUser
  <2>2. \A r \in Requests : req'[r].phase = req[r].phase /\ req'[r].ip = req[r].ip
    BY <1>3, <2>1 DEF Moved, RequestRecord
  <2>3. InFlight(ip)' \subseteq InFlight(ip)
    BY <2>2 DEF InFlight
  <2>. QED BY <1>3, <2>1, <2>3, NotMore
<1>. QED BY <1>5, <1>6, <1>7, <1>8, HandleBound DEF Next

\* However many requests are in flight, an address never exceeds
\* throttle_max_failures by more than the others in flight with the last one
\* admitted and the counting errors (throttleGate, CheckIPThrottle).
THEOREM OverrunIsBounded == Spec => []OverrunBounded
<1>1. Init => ThrottleInv
  <2>1. ASSUME Init PROVE ThrottleInv
    <3>1. Inv
      BY <2>1, InitInv
    <3>2. ASSUME NEW ip \in Peers PROVE Bound(ip)
      <4>1. InFlight(ip) = {}
        BY <2>1, RecordTypes DEF Init, InFlight
      <4>2. Cardinality(InFlight(ip)) = 0
        BY <4>1, FS_EmptySet
      <4>3. Cardinality(Requests) \in Nat /\ Cardinality(Requests) # 0
        BY GateAssumption, FS_CardinalityType, FS_EmptySet
      <4>4. fails[ip] = 0 /\ errors = 0
        BY <2>1 DEF Init
      <4>. QED BY <4>2, <4>3, <4>4, GateAssumption DEF Bound
    <3>. QED BY <3>1, <3>2 DEF ThrottleInv
  <2>. QED BY <2>1
<1>2. ThrottleInv /\ [Next]_vars => ThrottleInv'
  BY NextBound
<1>3. ThrottleInv => OverrunBounded
  <2>1. ASSUME ThrottleInv, NEW ip \in Peers
        PROVE  fails[ip] <= MaxFailures + Cardinality(Requests) - 1 + errors
    <3>1. fails[ip] \in Nat /\ errors \in Nat /\ MaxFailures \in Nat /\ Bound(ip)
      BY <2>1, GateAssumption DEF ThrottleInv, Inv, TypeOK
    <3>2. Cardinality(InFlight(ip)) \in Nat /\ Cardinality(Requests) \in Nat
      BY Counting DEF InFlight
    <3>. QED BY <3>1, <3>2 DEF Bound
  <2>. QED BY <2>1 DEF OverrunBounded
<1>. QED BY <1>1, <1>2, <1>3, PTL DEF Spec

-----------------------------------------------------------------------------
(* Theorems *)

\* Every variable has its type, and only admin endpoints read the row again
\* (RequireAdmin).
THEOREM TypesHold == Spec => []TypeOK
<1>1. Inv => TypeOK
  BY DEF Inv
<1>. QED BY <1>1, InvHolds, PTL

\* Whatever headers clients send and through whichever trusted proxy, a host has
\* failures on record only if one of its own requests failed (clientIP, requestIP).
THEOREM FailuresAreOwn == Spec => []LockoutIsOwn
<1>1. Inv => LockoutIsOwn
  BY DEF Inv
<1>. QED BY <1>1, InvHolds, PTL

\* An admin handler works with the row of an admin who signed the request, unless
\* the row changed between RequireAdmin's reads.
THEOREM AdminsAreAdmitted == Spec => []AdmittedIsAdmin
<1>1. Inv => AdmittedIsAdmin
  BY DEF Inv
<1>. QED BY <1>1, InvHolds, PTL
=============================================================================
