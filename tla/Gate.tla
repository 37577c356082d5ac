-------------------------------- MODULE Gate --------------------------------
(***************************************************************************)
(* What every /api/ request passes: the per-IP throttle, the signature     *)
(* and, on admin endpoints, the two further reads of RequireAdmin.         *)
(*                                                                         *)
(* The throttle is counted when a request arrives and its failure recorded *)
(* later; the account may be deleted, created again, promoted, demoted or  *)
(* given a new secret between any two of a request's reads.                *)
(***************************************************************************)
EXTENDS Naturals, Sequences, FiniteSets

CONSTANTS
    Hosts,       \* addresses of clients
    Senders,     \* bound: the clients that send requests
    Proxies,     \* trusted_proxies
    Requests,    \* requests that may be in progress at once
    MaxFailures, \* throttle_max_failures
    MaxSecrets,  \* bound: secrets the account ever has
    MaxErrors,   \* bound: failures counted wrongly by a database error
    NoHost       \* a missing or unusable address

ASSUME GateAssumption == /\ Senders \subseteq Hosts
                         /\ Proxies \cap Hosts = {}
                         /\ NoHost \notin Hosts \cup Proxies
                         /\ MaxFailures \in Nat \ {0}
                         /\ MaxSecrets \in Nat \ {0}
                         /\ MaxErrors \in Nat
                         /\ IsFiniteSet(Requests) /\ Requests # {}

VARIABLES
    account, \* the row of the account in question: its secret, 0 for no row, and is_admin
    issued,  \* secrets generated
    fails,   \* recent rows of failed_attempts by address
    req,     \* requests in progress
    errors,  \* history: requests let through because counting failed
    failed   \* history: hosts one of whose requests was recorded as a failure

vars == <<account, issued, fails, req, errors, failed>>

-----------------------------------------------------------------------------
Peers == Hosts \cup Proxies
NoAccount == [secret |-> 0, admin |-> FALSE]
Account == [secret : 0..MaxSecrets, admin : BOOLEAN]

\* The headers of a request: X-Real-IP, and X-Forwarded-For as a list.
NoHeaders == [real |-> NoHost, forwarded |-> <<>>]
NoRequest == [phase |-> "idle", host |-> NoHost, ip |-> NoHost, signed |-> 0,
              admin |-> FALSE, moved |-> FALSE, got |-> NoAccount]

\* What a client can claim, and what a proxy makes of it: it sets X-Real-IP,
\* appends to X-Forwarded-For, or sends nothing usable.
Claims == {NoHeaders} \cup {[real |-> h, forwarded |-> <<h>>] : h \in Hosts}
Sent(h, p) ==
    IF p = h THEN Claims
    ELSE UNION {{[c EXCEPT !.real = h], [real |-> NoHost, forwarded |-> Append(c.forwarded, h)],
                 NoHeaders} : c \in Claims}

\* Variant: the first entry of X-Forwarded-For.
clientIPLeftmost(p, headers) ==
    IF p \notin Proxies THEN p
    ELSE IF headers.real # NoHost THEN headers.real
    ELSE IF headers.forwarded # <<>> THEN Head(headers.forwarded)
    ELSE NoHost

clientIP(p, headers) ==
    IF p \notin Proxies THEN p
    ELSE IF headers.real # NoHost THEN headers.real
    ELSE IF headers.forwarded # <<>> THEN headers.forwarded[Len(headers.forwarded)]
    ELSE NoHost

\* The address a request is throttled under, a function of the request alone.
requestIP(p, headers) == IF clientIP(p, headers) = NoHost THEN p ELSE clientIP(p, headers)

\* Directly or through a proxy, with whatever headers.
Addresses(h) == UNION {{requestIP(p, headers) : headers \in Sent(h, p)} : p \in {h} \cup Proxies}

Finish(r) == req' = [req EXCEPT ![r] = NoRequest]
Go(r, phase) == req' = [req EXCEPT ![r].phase = phase]

\* RecordFailedAttempt, whose error is ignored.
RecordFailedAttempt(r) ==
    \/ /\ fails' = [fails EXCEPT ![req[r].ip] = @ + 1]
       /\ failed' = failed \cup {req[r].host}
    \/ UNCHANGED <<fails, failed>>

-----------------------------------------------------------------------------
(* A request *)

\* Variant: one failure too many is let through.
CheckIPThrottleLate(ip) == fails[ip] > MaxFailures

CheckIPThrottle(ip) == fails[ip] >= MaxFailures

\* Variant: a rejected request counts as a failure.
ThrottledCounts(ip) ==
    /\ CheckIPThrottle(ip)
    /\ fails' = [fails EXCEPT ![ip] = IF @ > MaxFailures THEN @ ELSE @ + 1]
    /\ UNCHANGED <<account, issued, req, errors, failed>>

\* 429, and nothing is recorded.
Throttled(ip) ==
    /\ CheckIPThrottle(ip)
    /\ UNCHANGED vars

\* The request goes on, if its address is not throttled or the failures cannot
\* be counted.
Admit(r, h, ip, signed, admin) ==
    /\ req[r] = NoRequest
    /\ \/ ~CheckIPThrottle(ip) /\ UNCHANGED errors
       \/ CheckIPThrottle(ip) /\ errors < MaxErrors /\ errors' = errors + 1
    /\ req' = [req EXCEPT ![r] = [phase |-> "verify", host |-> h, ip |-> ip, signed |-> signed,
                                  admin |-> admin, moved |-> FALSE, got |-> NoAccount]]
    /\ UNCHANGED <<account, issued, fails, failed>>

\* A request for an admin endpoint or another, signed with some secret of the
\* account; 0 stands for any header that cannot verify.
throttleGate(r, h, ip, signed, admin) ==
    \/ Throttled(ip)
    \/ Admit(r, h, ip, signed, admin)

\* VerifyHMAC.
Verified(r) == req[r].signed # 0 /\ req[r].signed = account.secret

\* Variant: every endpoint asks for an admin.
VerifyHMACAllAdmin(r) ==
    /\ req[r].phase = "verify"
    /\ Verified(r)
    /\ Go(r, "isadmin")
    /\ UNCHANGED <<account, issued, fails, errors, failed>>

VerifyHMAC(r) ==
    /\ req[r].phase = "verify"
    /\ Verified(r)
    /\ IF req[r].admin THEN Go(r, "isadmin") ELSE Finish(r)
    /\ UNCHANGED <<account, issued, fails, errors, failed>>

VerifyFails(r) ==
    /\ req[r].phase = "verify"
    /\ ~Verified(r)
    /\ RecordFailedAttempt(r)
    /\ Finish(r)
    /\ UNCHANGED <<account, issued, errors>>

\* Variant: any user with a valid signature.
adminRowAny == account.secret # 0

adminRow == account.secret # 0 /\ account.admin

IsAdmin(r) ==
    /\ req[r].phase = "isadmin"
    /\ adminRow
    /\ Go(r, "getuser")
    /\ UNCHANGED <<account, issued, fails, errors, failed>>

\* "Admin privileges required"; a failing query looks the same.
NotAdmin(r) ==
    /\ req[r].phase = "isadmin"
    /\ RecordFailedAttempt(r)
    /\ Finish(r)
    /\ UNCHANGED <<account, issued, errors>>

\* The row the handler works with, found or not.
GetUser(r) ==
    /\ req[r].phase = "getuser"
    /\ req' = [req EXCEPT ![r].phase = "admitted", ![r].got = account]
    /\ UNCHANGED <<account, issued, fails, errors, failed>>

\* The TOTP code that a handler asks for is wrong or used: that is one more
\* failure of the request's address.
TotpFailed(r) ==
    /\ req[r].phase = "admitted"
    /\ RecordFailedAttempt(r)
    /\ Finish(r)
    /\ UNCHANGED <<account, issued, errors>>

\* The handler is done, or the last query failed (nothing is recorded).
Done(r) ==
    /\ req[r].phase \in {"getuser", "admitted"}
    /\ Finish(r)
    /\ UNCHANGED <<account, issued, fails, errors, failed>>

-----------------------------------------------------------------------------
(* Surroundings *)

\* Other requests and commands change the row between a request's reads.
Moved == [r \in Requests |-> [req[r] EXCEPT !.moved = @ \/ req[r].phase \in {"isadmin", "getuser"}]]

NewSecret(admin) ==
    /\ issued < MaxSecrets
    /\ issued' = issued + 1
    /\ account' = [secret |-> issued', admin |-> admin]
    /\ req' = Moved
    /\ UNCHANGED <<fails, errors, failed>>

\* A new row under the name.
CreateUser(admin) == account = NoAccount /\ NewSecret(admin)

\* Revoke gives the row a new secret.
RotateSecret == account.secret # 0 /\ NewSecret(account.admin)

SetAdmin ==
    /\ account.secret # 0
    /\ account' = [account EXCEPT !.admin = ~@]
    /\ req' = Moved
    /\ UNCHANGED <<issued, fails, errors, failed>>

DeleteUser ==
    /\ account.secret # 0
    /\ account' = NoAccount
    /\ req' = Moved
    /\ UNCHANGED <<issued, fails, errors, failed>>

\* The oldest failure of an address leaves throttle_window.
FailureAges(ip) ==
    /\ fails[ip] > 0
    /\ fails' = [fails EXCEPT ![ip] = @ - 1]
    /\ UNCHANGED <<account, issued, req, errors, failed>>

Init ==
    /\ account = [secret |-> 1, admin |-> TRUE] /\ issued = 1
    /\ fails = [ip \in Peers |-> 0]
    /\ req = [r \in Requests |-> NoRequest]
    /\ errors = 0 /\ failed = {}

Handle(r) ==
    \/ VerifyHMAC(r) \/ VerifyFails(r) \/ IsAdmin(r) \/ NotAdmin(r) \/ GetUser(r)
    \/ TotpFailed(r) \/ Done(r)

Next ==
    \/ \E r \in Requests, h \in Senders, signed \in 0..issued, admin \in BOOLEAN :
         \E ip \in Addresses(h) : throttleGate(r, h, ip, signed, admin)
    \/ \E r \in Requests : Handle(r)
    \/ (\E admin \in BOOLEAN : CreateUser(admin)) \/ RotateSecret \/ SetAdmin \/ DeleteUser
    \/ \E ip \in Peers : FailureAges(ip)

Spec == Init /\ [][Next]_vars

\* Failures leave the window as time passes, whatever clients do.
FairSpec == Spec /\ \A ip \in Peers : WF_vars(FailureAges(ip))

-----------------------------------------------------------------------------
(* Properties *)

\* Every variable has its type; only admin endpoints read the row again, and a
\* request that is over leaves nothing behind.
TypeOK ==
    /\ account \in Account /\ issued \in 1..MaxSecrets /\ account.secret <= issued
    /\ fails \in [Peers -> Nat]
    /\ req \in [Requests -> [phase : {"idle", "verify", "isadmin", "getuser", "admitted"},
                             host : Hosts \cup {NoHost}, ip : Peers \cup {NoHost},
                             signed : 0..MaxSecrets, admin : BOOLEAN, moved : BOOLEAN,
                             got : Account]]
    /\ errors \in 0..MaxErrors
    /\ failed \subseteq Hosts
    /\ \A r \in Requests : /\ req[r].phase = "idle" => req[r] = NoRequest
                           /\ req[r].phase \in {"isadmin", "getuser", "admitted"} => req[r].admin

\* throttleGate counts before the handler and the failure is recorded inside it:
\* an address may exceed throttle_max_failures by the requests in flight with
\* the last one admitted, and by those a counting error let through; never more.
OverrunBounded ==
    \A ip \in Peers : fails[ip] <= MaxFailures + Cardinality(Requests) - 1 + errors

\* clientIP: "a client reaching the server directly cannot spoof"; nobody's
\* failures count against a host that has not failed itself.
LockoutIsOwn == \A h \in Hosts : fails[h] > 0 => h \in failed

\* RequireAdmin: if the account does not change between its reads, the handler
\* gets the row of an admin who signed it.
AdmittedIsAdmin ==
    \A r \in Requests : req[r].phase = "admitted" /\ ~req[r].moved
                           => req[r].got.admin /\ req[r].got.secret = req[r].signed

\* CheckIPThrottle: "the window slides cleanly: an IP unlocks once its failures
\* age past windowSec", however often it keeps asking.
LockoutEnds == \A ip \in Peers : CheckIPThrottle(ip) ~> ~CheckIPThrottle(ip)
=============================================================================
