-------------------------------- MODULE Totp --------------------------------
(***************************************************************************)
(* The TOTP second factor of one admin account: step-up, enrolment,        *)
(* activation and removal, as concurrent requests.                         *)
(*                                                                         *)
(* A request reads the admin's row when it authenticates, checks its code  *)
(* under totpMu, and acts on the database afterwards: the row it decides   *)
(* on may have changed twice by then.  The check itself is one step: it    *)
(* compares the code with the secret of the row read before and advances   *)
(* the stored counter in a single UPDATE.                                  *)
(*                                                                         *)
(* A code is the secret and the 30-second counter it was computed from.    *)
(***************************************************************************)
EXTENDS Naturals

CONSTANTS
    Requests,    \* requests that may be in progress at once
    Kinds,       \* endpoints in use: a subset of RequestKinds
    MaxFailures, \* throttle_max_failures
    MaxSecrets,  \* bound: secrets generated
    MaxTime,     \* bound: counter value up to which time runs
    MaxErrors    \* bound: checks let through over the cap by a database error

RequestKinds == {"stepup", "enroll", "activate", "disable"}

ASSUME TotpAssumption == /\ Kinds \subseteq RequestKinds
                         /\ MaxFailures \in Nat \ {0}
                         /\ MaxSecrets \in Nat \ {0}
                         /\ MaxTime \in Nat \ {0}
                         /\ MaxErrors \in Nat

VARIABLES
    secret,    \* users.totp_secret, 0 for NULL
    enabled,   \* users.totp_enabled
    last,      \* users.totp_last_counter
    issued,    \* secrets generated so far
    now,       \* time / totpStep
    fails,     \* "Invalid TOTP code" rows of the account within the window
    errors,    \* history: checks let through over the cap because counting failed
    req,       \* requests in progress: kind, next step, the row's secret and flag
               \* when read, whether a code has been accepted, the code
    confirmed, \* history: secrets an activation check has accepted a code for
    watched,   \* an arbitrary code, whose uses are recorded
    uses,      \* history: the consuming checks the watched code has passed
    stale      \* history: a request has acted on a row that had changed since it read it

row == <<secret, enabled, last, issued>>
counts == <<fails, errors>>
history == <<confirmed, watched, uses, stale>>
vars == <<row, now, counts, req, history>>

-----------------------------------------------------------------------------
totpWindow == 1

\* The codes of the secrets that can be generated, and a guess that is none of them.
Code == [secret : 1..MaxSecrets, counter : 1..(MaxTime + totpWindow)]
WrongCode == [secret |-> 0, counter |-> 0]
AnyCode == Code \cup {WrongCode}

NoRequest == [kind |-> "none", phase |-> "idle", secret |-> 0, was |-> FALSE, proved |-> FALSE,
              code |-> WrongCode]

Request(k, phase, c) ==
    [kind |-> k, phase |-> phase, secret |-> secret, was |-> enabled, proved |-> FALSE,
     code |-> c]

Finish(r) == req' = [req EXCEPT ![r] = NoRequest]
Act(r) == req' = [req EXCEPT ![r] = [kind |-> req[r].kind, phase |-> "act", secret |-> req[r].secret,
                                     was |-> req[r].was, proved |-> TRUE, code |-> WrongCode]]

\* r acts although an enrolment, an activation or a removal has come between.
Overtaken(r) == stale' = (stale \/ req[r].secret # secret \/ req[r].was # enabled)

\* Codes a client can send now: those of a generated secret around the present
\* time, and a wrong guess.
Sendable == {c \in Code : c.secret <= issued /\ c.counter >= now - totpWindow
                            /\ c.counter <= now + totpWindow} \cup {WrongCode}

\* VerifyTOTPCounter against the secret of the row the request has read.
VerifyTOTP(r) == /\ req[r].secret # 0
                 /\ req[r].code.secret = req[r].secret
                 /\ req[r].code.counter >= now - totpWindow
                 /\ req[r].code.counter <= now + totpWindow

\* Variant: enrolment never asks for a code.
BeginFreeEnroll(r, k, c) ==
    /\ req[r] = NoRequest
    /\ \/ /\ k = "activate" /\ secret # 0
          /\ req' = [req EXCEPT ![r] = Request(k, "check", c)]
       \/ /\ k \in {"stepup", "disable"} /\ enabled
          /\ req' = [req EXCEPT ![r] = Request(k, "check", c)]
       \/ /\ (k = "enroll" \/ (k = "disable" /\ ~enabled))
          /\ req' = [req EXCEPT ![r] = Request(k, "act", WrongCode)]
    /\ UNCHANGED <<row, now, counts, history>>

\* RequireAdmin reads the row.  Activation needs a pending secret and a code;
\* the others need a code only if the row says TOTP is enabled.  (A step-up
\* without TOTP changes nothing here.)
Begin(r, k, c) ==
    /\ req[r] = NoRequest
    /\ \/ /\ k = "activate" /\ secret # 0
          /\ req' = [req EXCEPT ![r] = Request(k, "check", c)]
       \/ /\ k # "activate" /\ enabled
          /\ req' = [req EXCEPT ![r] = Request(k, "check", c)]
       \/ /\ k \in {"enroll", "disable"} /\ ~enabled /\ c = WrongCode
          /\ req' = [req EXCEPT ![r] = Request(k, "act", WrongCode)]
    /\ UNCHANGED <<row, now, counts, history>>

\* Variant: one failure too many.
totpLockedLate == fails > MaxFailures

totpLocked == fails >= MaxFailures

\* totpLocked lets the check go on: the account is under its cap, or the failures
\* cannot be counted, "a counting error does not deny".
PastLock ==
    \/ ~totpLocked /\ UNCHANGED errors
    \/ totpLocked /\ errors < MaxErrors /\ errors' = errors + 1

\* Variant: the stored counter itself is accepted.
ConsumeTOTPCounterAgain(c) == last <= c /\ last' = c

\* Variant: the next counter is stored.
ConsumeTOTPCounterNext(c) == last < c /\ last' = c + 1

\* The UPDATE changes a row only while the stored counter is smaller.
ConsumeTOTPCounter(c) == last < c /\ last' = c

\* 429, nothing is recorded.
TotpLockedOut(r) ==
    /\ req[r].phase = "check"
    /\ totpLocked
    /\ Finish(r)
    /\ UNCHANGED <<row, now, counts, history>>

\* consumeTOTP (replay protection on): step-up, re-enrolment, removal.
ConsumeTOTP(r) ==
    /\ req[r].phase = "check" /\ req[r].kind # "activate"
    /\ PastLock
    /\ VerifyTOTP(r)
    /\ ConsumeTOTPCounter(req[r].code.counter)
    /\ uses' = IF req[r].code = watched THEN uses + 1 ELSE uses
    /\ Overtaken(r)
    /\ IF req[r].kind = "stepup" THEN Finish(r) ELSE Act(r)
    /\ UNCHANGED <<secret, enabled, issued, now, fails, confirmed, watched>>

\* Activation verifies the code and does not consume it.
ConfirmCode(r) ==
    /\ req[r].phase = "check" /\ req[r].kind = "activate"
    /\ PastLock
    /\ VerifyTOTP(r)
    /\ confirmed' = confirmed \cup {req[r].secret}
    /\ Act(r)
    /\ UNCHANGED <<row, now, fails, watched, uses, stale>>

\* totpFailed: a wrong code, or one already consumed.  The error of
\* RecordFailedAttempt is ignored.
TotpFailed(r) ==
    /\ req[r].phase = "check"
    /\ PastLock
    /\ \/ ~VerifyTOTP(r)
       \/ req[r].kind # "activate" /\ ~(last < req[r].code.counter)
    /\ fails' \in {fails, fails + 1}
    /\ Finish(r)
    /\ UNCHANGED <<row, now, history>>

\* Variant: a new secret leaves the flag alone.
SetTOTPSecretKeepsFlag(r) ==
    /\ req[r].phase = "act" /\ req[r].kind = "enroll"
    /\ issued < MaxSecrets
    /\ issued' = issued + 1
    /\ secret' = issued' /\ last' = 0
    /\ Finish(r) /\ Overtaken(r)
    /\ UNCHANGED <<enabled, now, counts, confirmed, watched, uses>>

SetTOTPSecret(r) ==
    /\ req[r].phase = "act" /\ req[r].kind = "enroll"
    /\ issued < MaxSecrets
    /\ issued' = issued + 1
    /\ secret' = issued' /\ enabled' = FALSE /\ last' = 0
    /\ Finish(r) /\ Overtaken(r)
    /\ UNCHANGED <<now, counts, confirmed, watched, uses>>

EnableTOTP(r) ==
    /\ req[r].phase = "act" /\ req[r].kind = "activate"
    /\ enabled' = TRUE
    /\ Finish(r) /\ Overtaken(r)
    /\ UNCHANGED <<secret, last, issued, now, counts, confirmed, watched, uses>>

DisableTOTP(r) ==
    /\ req[r].phase = "act" /\ req[r].kind = "disable"
    /\ secret' = 0 /\ enabled' = FALSE
    /\ Finish(r) /\ Overtaken(r)
    /\ UNCHANGED <<last, issued, now, counts, confirmed, watched, uses>>

\* A database error, or the server stops: the request ends where it is.
RequestFails(r) ==
    /\ req[r] # NoRequest
    /\ Finish(r)
    /\ UNCHANGED <<row, now, counts, history>>

\* Thirty seconds pass.
Tick ==
    /\ now < MaxTime
    /\ now' = now + 1
    /\ UNCHANGED <<row, counts, req, history>>

\* The oldest failure leaves the throttle window.
FailureAges ==
    /\ fails > 0
    /\ fails' = fails - 1
    /\ UNCHANGED <<row, now, errors, req, history>>

\* The account has TOTP enabled, or has never enrolled.
Init ==
    /\ \/ secret = 0 /\ enabled = FALSE /\ issued = 0
       \/ secret = 1 /\ enabled = TRUE /\ issued = 1
    /\ last = 0 /\ now = 1 /\ fails = 0 /\ errors = 0
    /\ req = [r \in Requests |-> NoRequest]
    /\ confirmed = {secret} \ {0}
    /\ watched \in Code
    /\ uses = 0 /\ stale = FALSE

Next ==
    \/ \E r \in Requests, k \in Kinds : \E c \in Sendable : Begin(r, k, c)
    \/ \E r \in Requests :
         \/ TotpLockedOut(r) \/ ConsumeTOTP(r) \/ ConfirmCode(r) \/ TotpFailed(r)
         \/ SetTOTPSecret(r) \/ EnableTOTP(r) \/ DisableTOTP(r) \/ RequestFails(r)
    \/ Tick \/ FailureAges

Spec == Init /\ [][Next]_vars

-----------------------------------------------------------------------------
(* Properties *)

\* Every variable has its type, and the stored counter is never ahead of the
\* codes a client can have.
TypeOK ==
    /\ secret \in 0..MaxSecrets /\ issued \in 0..MaxSecrets /\ secret <= issued
    /\ enabled \in BOOLEAN
    /\ last \in 0..(now + totpWindow)
    /\ now \in 1..MaxTime
    /\ fails \in Nat /\ errors \in 0..MaxErrors
    /\ req \in [Requests -> [kind : RequestKinds \cup {"none"}, phase : {"idle", "check", "act"},
                             secret : 0..MaxSecrets, was : BOOLEAN, proved : BOOLEAN,
                             code : AnyCode]]
    /\ confirmed \subseteq 1..MaxSecrets
    /\ watched \in Code /\ uses \in Nat
    /\ stale \in BOOLEAN

\* totpAttempt: "concurrent guesses cannot all pass the check before any failure
\* is counted": whatever runs at once, the account has no more recent failures
\* than the cap, but for one for each check that went on uncounted.
CapHolds == fails <= MaxFailures + errors

\* consumeTOTP: "two concurrent requests with one code cannot both win".  (After
\* a request has acted on a row that was replaced under it, the counter it
\* relies on may be another secret's.)
CodeConsumedOnce == ~stale => uses <= 1

\* totpEnroll: "The secret is stored but NOT active until /activate confirms a
\* code": unless a request was overtaken by another, an enabled account has a
\* secret, and a code of it was confirmed.
EnabledIsConfirmed == ~stale /\ enabled => secret \in confirmed

\* totpEnroll: "when TOTP is already enabled, the admin must prove current
\* possession (a valid current code) before the secret is overwritten", by a
\* request that has not been overtaken.
ReplacingNeedsCode ==
    [][~stale' /\ enabled /\ secret' # secret
          => \E r \in Requests : req[r].proved /\ req'[r] = NoRequest]_vars
=============================================================================
