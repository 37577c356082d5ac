----------------------------- MODULE TotpProofs -----------------------------
(***************************************************************************)
(* Theorems about Totp for any number of concurrent requests, any cap and  *)
(* any length of time.                                                     *)
(***************************************************************************)
EXTENDS Totp, TLAPS

CapInv == fails \in Nat /\ errors \in Nat /\ CapHolds

\* The cap is checked, and the failure counted, in one critical section: below
\* the cap one more failure reaches it at most, and over it each check that goes
\* on is one of those counted in errors.
LEMMA CapStep ==
    ASSUME CapInv, [Next]_vars
    PROVE  CapInv'
<1> USE TotpAssumption DEF CapInv, CapHolds
<1>1. ASSUME PastLock, fails' \in {fails, fails + 1} PROVE CapInv'
  <2>1. CASE ~totpLocked /\ UNCHANGED errors
    BY <1>1, <2>1 DEF totpLocked
  <2>2. CASE totpLocked /\ errors' = errors + 1
    BY <1>1, <2>2
  <2>. QED BY <1>1, <2>1, <2>2 DEF PastLock
<1>2. ASSUME errors' = errors, fails' = fails PROVE CapInv'
  BY <1>2
<1>3. ASSUME NEW r \in Requests, NEW k \in Kinds, NEW c \in Sendable, Begin(r, k, c)
      PROVE  CapInv'
  BY <1>2, <1>3 DEF Begin, counts
<1>4. ASSUME NEW r \in Requests, ConsumeTOTP(r) \/ ConfirmCode(r) \/ TotpFailed(r)
      PROVE  CapInv'
  BY <1>1, <1>4 DEF ConsumeTOTP, ConfirmCode, TotpFailed
<1>5. ASSUME NEW r \in Requests,
             \/ TotpLockedOut(r) \/ SetTOTPSecret(r) \/ EnableTOTP(r) \/ DisableTOTP(r)
             \/ RequestFails(r)
      PROVE  CapInv'
  BY <1>2, <1>5 DEF TotpLockedOut, SetTOTPSecret, EnableTOTP, DisableTOTP, RequestFails, counts
<1>6. CASE Tick \/ UNCHANGED vars
  BY <1>2, <1>6 DEF Tick, vars, counts
<1>7. CASE FailureAges
  BY <1>7 DEF FailureAges
<1>. QED BY <1>3, <1>4, <1>5, <1>6, <1>7 DEF Next

\* However many requests guess at once, the account has no more recent failures
\* than throttle_max_failures, but for one for each check that went on because
\* the failures could not be counted (totpAttempt, totpLocked).
THEOREM CapIsKept == Spec => []CapHolds
<1>1. Init => CapInv
  BY TotpAssumption DEF Init, CapInv, CapHolds
<1>2. CapInv /\ [Next]_vars => CapInv'
  BY CapStep
<1>3. CapInv => CapHolds
  BY DEF CapInv
<1>. QED BY <1>1, <1>2, <1>3, PTL DEF Spec

-----------------------------------------------------------------------------
(* The inductive invariant *)

RequestRecord == [kind : RequestKinds \cup {"none"}, phase : {"idle", "check", "act"},
                  secret : 0..MaxSecrets, was : BOOLEAN, proved : BOOLEAN, code : AnyCode]

\* A request about to act has had its code accepted where one is asked for.
Accepted ==
    \A r \in Requests : req[r].phase = "act" =>
        /\ req[r].kind = "activate" => req[r].secret \in confirmed
        /\ req[r].kind # "activate" /\ req[r].was => req[r].proved

\* The stored counter has passed the watched code once it is consumed, as long
\* as the account has the secret the code is of.
Passed ==
    ~stale /\ uses > 0 =>
        /\ watched.secret <= issued
        /\ watched.secret = secret => watched.counter <= last

Inv ==
    /\ TypeOK
    /\ Accepted
    /\ Passed
    /\ EnabledIsConfirmed
    /\ CodeConsumedOnce

\* The assumptions, and what the codes are.
LEMMA Constants ==
    /\ MaxSecrets \in Nat \ {0} /\ MaxTime \in Nat \ {0} /\ totpWindow = 1
    /\ Kinds \subseteq RequestKinds
    /\ MaxErrors \in Nat
    /\ WrongCode \in AnyCode /\ WrongCode.secret = 0
    /\ \A c \in Code : c.secret \in 1..MaxSecrets /\ c.counter \in 1..(MaxTime + totpWindow)
BY TotpAssumption DEF WrongCode, AnyCode, Code, totpWindow

\* The fields of a request's record.
LEMMA RecordTypes ==
    /\ NoRequest \in RequestRecord /\ NoRequest.phase = "idle"
    /\ \A f \in RequestRecord :
         /\ f.kind \in RequestKinds \cup {"none"} /\ f.phase \in {"idle", "check", "act"}
         /\ f.secret \in 0..MaxSecrets /\ f.was \in BOOLEAN /\ f.proved \in BOOLEAN
         /\ f.code \in AnyCode
BY Constants DEF NoRequest, RequestRecord

\* At the start no code has been used and an enabled secret is confirmed.
LEMMA InitInv == ASSUME Init PROVE Inv
<1>1. /\ last = 0 /\ now = 1 /\ fails = 0 /\ errors = 0 /\ req = [r \in Requests |-> NoRequest]
      /\ watched \in Code /\ uses = 0 /\ stale = FALSE
      /\ confirmed = {secret} \ {0}
  BY DEF Init
<1>2. \/ secret = 0 /\ enabled = FALSE /\ issued = 0
      \/ secret = 1 /\ enabled = TRUE /\ issued = 1
  BY DEF Init
<1>3. TypeOK
  <2>1. /\ secret \in 0..MaxSecrets /\ issued \in 0..MaxSecrets /\ secret <= issued
        /\ last \in 0..(now + totpWindow) /\ now \in 1..MaxTime
        /\ fails \in Nat /\ errors \in 0..MaxErrors /\ confirmed \subseteq 1..MaxSecrets
    BY <1>1, <1>2, Constants
  <2>2. enabled \in BOOLEAN /\ stale \in BOOLEAN
    BY <1>1, <1>2, Zenon
  <2>3. req \in [Requests -> RequestRecord]
    BY <1>1, RecordTypes
  <2>. QED BY <1>1, <2>1, <2>2, <2>3 DEF TypeOK, RequestRecord
<1>4. Accepted
  BY <1>1, RecordTypes DEF Accepted
<1>5. Passed /\ CodeConsumedOnce
  BY <1>1 DEF Passed, CodeConsumedOnce
<1>6. EnabledIsConfirmed
  BY <1>1, <1>2 DEF EnabledIsConfirmed
<1>. QED BY <1>3, <1>4, <1>5, <1>6 DEF Inv

-----------------------------------------------------------------------------
(* What a step does to the requests *)

\* A request that begins: it has its type, and acts at once only without TOTP.
LEMMA BeginStep ==
    ASSUME Inv, NEW r \in Requests, NEW k \in Kinds, NEW c \in Sendable, Begin(r, k, c)
    PROVE  /\ req' \in [Requests -> RequestRecord]
           /\ Accepted'
<1>1. PICK p \in {"check", "act"}, d \in {c, WrongCode} :
        /\ req' = [req EXCEPT ![r] = Request(k, p, d)]
        /\ p = "act" => k # "activate" /\ ~enabled
  BY DEF Begin
<1>2. c \in AnyCode
  BY DEF Sendable, AnyCode
<1>3. secret \in 0..MaxSecrets /\ enabled \in BOOLEAN /\ req \in [Requests -> RequestRecord]
  BY DEF Inv, TypeOK, RequestRecord
<1>4. d \in AnyCode
  BY <1>1, <1>2, Constants
<1>5. Request(k, p, d) \in RequestRecord
  BY <1>1, <1>3, <1>4, Constants DEF Request, RequestRecord
<1>6. req' \in [Requests -> RequestRecord]
  BY <1>1, <1>3, <1>5
<1>7. confirmed' = confirmed
  BY DEF Begin, history
<1>8. ASSUME NEW s \in Requests, req'[s].phase = "act"
      PROVE  /\ req'[s].kind = "activate" => req'[s].secret \in confirmed'
             /\ req'[s].kind # "activate" /\ req'[s].was => req'[s].proved
  <2>1. CASE s = r
    <3>1. req'[s] = Request(k, p, d)
      BY <1>1, <1>3, <2>1
    <3>2. /\ Request(k, p, d).phase = p /\ Request(k, p, d).kind = k
          /\ Request(k, p, d).was = enabled
      BY DEF Request
    <3>. QED BY <1>1, <1>8, <3>1, <3>2
  <2>2. CASE s # r
    <3>1. req'[s] = req[s]
      BY <1>1, <1>3, <2>2
    <3>. QED BY <1>7, <1>8, <3>1 DEF Inv, Accepted
  <2>. QED BY <2>1, <2>2
<1>. QED BY <1>6, <1>8 DEF Accepted

\* A request that ends.
LEMMA FinishStep ==
    ASSUME Inv, NEW r \in Requests, Finish(r), confirmed' = confirmed
    PROVE  /\ req' \in [Requests -> RequestRecord]
           /\ Accepted'
<1>1. req \in [Requests -> RequestRecord] /\ req' = [req EXCEPT ![r] = NoRequest]
  BY DEF Inv, TypeOK, RequestRecord, Finish
<1>2. req' \in [Requests -> RequestRecord]
  BY <1>1, RecordTypes
<1>3. ASSUME NEW s \in Requests, req'[s].phase = "act" PROVE req'[s] = req[s]
  BY <1>1, <1>3, RecordTypes
<1>. QED BY <1>2, <1>3 DEF Inv, Accepted

\* A request whose code has been accepted.
LEMMA ActStep ==
    ASSUME Inv, NEW r \in Requests, Act(r), confirmed \subseteq confirmed',
           req[r].kind = "activate" => req[r].secret \in confirmed'
    PROVE  /\ req' \in [Requests -> RequestRecord]
           /\ Accepted'
<1> DEFINE go == [kind |-> req[r].kind, phase |-> "act", secret |-> req[r].secret,
                  was |-> req[r].was, proved |-> TRUE, code |-> WrongCode]
<1>1. req \in [Requests -> RequestRecord] /\ req' = [req EXCEPT ![r] = go]
  BY DEF Inv, TypeOK, RequestRecord, Act
<1>2. req[r] \in RequestRecord
  BY <1>1
<1>3. go \in RequestRecord
  BY <1>2, RecordTypes, Constants DEF RequestRecord
<1>4. go.kind = req[r].kind /\ go.secret = req[r].secret /\ go.proved = TRUE
  OBVIOUS
<1>5. req' \in [Requests -> RequestRecord] /\ req'[r] = go
  BY <1>1, <1>3
<1>6. ASSUME NEW s \in Requests, s # r PROVE req'[s] = req[s]
  BY <1>1, <1>6
<1>7. ASSUME NEW s \in Requests, req'[s].phase = "act"
      PROVE  /\ req'[s].kind = "activate" => req'[s].secret \in confirmed'
             /\ req'[s].kind # "activate" /\ req'[s].was => req'[s].proved
  <2>1. CASE s = r
    BY <1>4, <1>5, <2>1
  <2>2. CASE s # r
    BY <1>6, <1>7, <2>2 DEF Inv, Accepted
  <2>. QED BY <2>1, <2>2
<1>. QED BY <1>5, <1>7 DEF Accepted

-----------------------------------------------------------------------------
(* The invariant is kept *)

\* As time runs the counter stays in range.
LEMMA LaterTime ==
    ASSUME NEW max \in Nat, NEW now1 \in 1..max, NEW now2 \in now1..max, NEW l \in 0..(now1 + totpWindow)
    PROVE  now2 \in 1..max /\ l \in 0..(now2 + totpWindow)
BY DEF totpWindow

\* The next secret and the reset counter are in range.
LEMMA NextSecret ==
    ASSUME NEW max \in Nat, NEW n \in 0..max, n < max, NEW time \in 1..MaxTime
    PROVE  n + 1 \in 0..max /\ n + 1 <= n + 1 /\ 0 \in 0..(time + totpWindow)
BY TotpAssumption DEF totpWindow

\* Steps that leave the row and the history alone.
LEMMA RequestsOnly ==
    ASSUME Inv, UNCHANGED <<row, history>>, now' \in now..MaxTime, fails' \in Nat,
           errors' \in 0..MaxErrors,
           req' \in [Requests -> RequestRecord], Accepted'
    PROVE  Inv'
<1>1. /\ UNCHANGED <<secret, enabled, last, issued>>
      /\ UNCHANGED <<confirmed, watched, uses, stale>>
  BY DEF row, history
<1>2. last \in 0..(now' + totpWindow) /\ now' \in 1..MaxTime
  BY LaterTime, TotpAssumption DEF Inv, TypeOK
<1>3. TypeOK'
  BY <1>1, <1>2 DEF Inv, TypeOK, RequestRecord
<1>4. Passed' /\ EnabledIsConfirmed' /\ CodeConsumedOnce'
  BY <1>1 DEF Inv, Passed, EnabledIsConfirmed, CodeConsumedOnce
<1>. QED BY <1>3, <1>4 DEF Inv

\* A check that goes on, counted or not.
LEMMA PastLockType ==
    ASSUME Inv, PastLock
    PROVE  errors' \in 0..MaxErrors
BY TotpAssumption DEF PastLock, Inv, TypeOK

\* One UPDATE moves the stored counter past the code it accepts.
LEMMA ConsumeStep ==
    ASSUME Inv, NEW r \in Requests, ConsumeTOTP(r)
    PROVE  Inv'
<1> DEFINE c == req[r].code
<1>1. /\ req[r].kind # "activate"
      /\ last < c.counter /\ last' = c.counter
      /\ req[r].secret # 0 /\ c.secret = req[r].secret /\ c.counter <= now + totpWindow
      /\ UNCHANGED <<secret, enabled, issued, now, fails, confirmed, watched>>
      /\ errors' \in 0..MaxErrors
  BY PastLockType DEF ConsumeTOTP, VerifyTOTP, ConsumeTOTPCounter
<1>2. /\ req \in [Requests -> RequestRecord] /\ secret \in 0..MaxSecrets /\ issued \in 0..MaxSecrets
      /\ secret <= issued /\ last \in 0..(now + totpWindow) /\ now \in 1..MaxTime
      /\ watched \in Code
  BY DEF Inv, TypeOK, RequestRecord
<1>3. req[r] \in RequestRecord
  BY <1>2
<1>4. c \in Code
  BY <1>1, <1>3, RecordTypes, Constants DEF AnyCode
<1>5. c.counter \in 1..(now + totpWindow)
  BY <1>1, <1>2, <1>4, Constants
<1>6. req' \in [Requests -> RequestRecord] /\ Accepted'
  <2>1. Finish(r) \/ Act(r)
    BY DEF ConsumeTOTP
  <2>. QED BY <1>1, <2>1, FinishStep, ActStep
<1>7. /\ uses \in Nat /\ uses' \in Nat
      /\ c # watched => uses' = uses
      /\ c = watched => uses' = uses + 1
  BY DEF ConsumeTOTP, Inv, TypeOK
<1>8. stale' = (stale \/ req[r].secret # secret \/ req[r].was # enabled)
  BY DEF ConsumeTOTP, Overtaken
<1>9. stale' \in BOOLEAN
  BY <1>8, Zenon
<1>10. ~stale' => ~stale /\ req[r].secret = secret
  BY <1>8
<1>11. TypeOK'
  BY <1>1, <1>2, <1>5, <1>6, <1>7, <1>9 DEF Inv, TypeOK, RequestRecord
<1>12. Passed'
  <2>1. CASE c = watched
    BY <1>1, <1>2, <1>4, <1>10, <2>1, Constants DEF Passed
  <2>2. CASE c # watched
    <3>1. watched.counter \in Nat /\ c.counter \in Nat /\ last \in Nat
      BY <1>2, <1>4, Constants
    <3>. QED BY <1>1, <1>7, <1>10, <2>2, <3>1 DEF Inv, Passed
  <2>. QED BY <2>1, <2>2
<1>13. EnabledIsConfirmed'
  BY <1>1, <1>10 DEF Inv, EnabledIsConfirmed
<1>14. CodeConsumedOnce'
  <2>1. CASE c = watched
    <3>1. ~stale' => uses = 0
      <4>1. watched.counter \in Nat /\ last \in Nat
        BY <1>2, Constants
      <4>. QED BY <1>1, <1>7, <1>10, <2>1, <4>1 DEF Inv, Passed
    <3>. QED BY <1>7, <1>10, <2>1, <3>1 DEF Inv, CodeConsumedOnce
  <2>2. CASE c # watched
    BY <1>7, <1>10, <2>2 DEF Inv, CodeConsumedOnce
  <2>. QED BY <2>1, <2>2
<1>. QED BY <1>6, <1>11, <1>12, <1>13, <1>14 DEF Inv

\* An activation check confirms the secret of the row it has read.
LEMMA ConfirmStep ==
    ASSUME Inv, NEW r \in Requests, ConfirmCode(r)
    PROVE  Inv'
<1>1. /\ UNCHANGED <<secret, enabled, last, issued, now, fails, watched, uses, stale>>
      /\ confirmed' = confirmed \cup {req[r].secret}
      /\ req[r].secret # 0
      /\ Act(r)
      /\ errors' \in 0..MaxErrors
  BY PastLockType DEF ConfirmCode, VerifyTOTP, row
<1>2. req[r].secret \in 1..MaxSecrets
  <2>1. req[r] \in RequestRecord
    BY DEF Inv, TypeOK, RequestRecord
  <2>. QED BY <1>1, <2>1, RecordTypes, Constants
<1>3. req' \in [Requests -> RequestRecord] /\ Accepted'
  BY <1>1, ActStep
<1>4. TypeOK'
  BY <1>1, <1>2, <1>3 DEF Inv, TypeOK, RequestRecord
<1>5. Passed' /\ EnabledIsConfirmed' /\ CodeConsumedOnce'
  BY <1>1 DEF Inv, Passed, EnabledIsConfirmed, CodeConsumedOnce
<1>. QED BY <1>3, <1>4, <1>5 DEF Inv

\* A new secret: no code of it exists, so none has been consumed.
LEMMA EnrollStep ==
    ASSUME Inv, NEW r \in Requests, SetTOTPSecret(r)
    PROVE  Inv'
<1>1. /\ UNCHANGED <<now, fails, errors, confirmed, watched, uses>>
      /\ issued < MaxSecrets /\ issued' = issued + 1 /\ secret' = issued + 1
      /\ enabled' = FALSE /\ last' = 0
      /\ Finish(r)
      /\ stale' = (stale \/ req[r].secret # secret \/ req[r].was # enabled)
  BY DEF SetTOTPSecret, Overtaken, counts
<1>2. stale' \in BOOLEAN
  BY <1>1, Zenon
<1>3. ~stale' => ~stale
  BY <1>1
<1>4. req' \in [Requests -> RequestRecord] /\ Accepted'
  BY <1>1, FinishStep
<1>5. issued \in 0..MaxSecrets /\ now \in 1..MaxTime /\ watched.secret \in Nat
  BY Constants DEF Inv, TypeOK
<1>6. TypeOK'
  <2>1. /\ secret' \in 0..MaxSecrets /\ issued' \in 0..MaxSecrets /\ secret' <= issued'
        /\ last' \in 0..(now + totpWindow) /\ enabled' \in BOOLEAN
    BY <1>1, <1>5, NextSecret, TotpAssumption
  <2>. QED BY <1>1, <1>2, <1>4, <2>1 DEF Inv, TypeOK, RequestRecord
<1>7. Passed'
  BY <1>1, <1>3, <1>5, Constants DEF Inv, Passed
<1>8. EnabledIsConfirmed' /\ CodeConsumedOnce'
  BY <1>1, <1>3 DEF Inv, EnabledIsConfirmed, CodeConsumedOnce
<1>. QED BY <1>4, <1>6, <1>7, <1>8 DEF Inv

\* Activation and removal change the flag, and removal clears the secret.
LEMMA FlagStep ==
    ASSUME Inv, NEW r \in Requests, EnableTOTP(r) \/ DisableTOTP(r)
    PROVE  Inv'
<1>1. /\ UNCHANGED <<last, issued, now, fails, errors, confirmed, watched, uses>>
      /\ Finish(r)
      /\ stale' = (stale \/ req[r].secret # secret \/ req[r].was # enabled)
      /\ secret' \in {0, secret} /\ enabled' \in BOOLEAN
  BY DEF EnableTOTP, DisableTOTP, Overtaken, counts
<1>2. stale' \in BOOLEAN
  BY <1>1, Zenon
<1>3. ~stale' => ~stale /\ req[r].secret = secret
  BY <1>1
<1>4. req' \in [Requests -> RequestRecord] /\ Accepted'
  BY <1>1, FinishStep
<1>5. /\ secret \in 0..MaxSecrets /\ issued \in 0..MaxSecrets /\ secret <= issued
      /\ watched.secret \in 1..MaxSecrets
  BY Constants DEF Inv, TypeOK
<1>6. secret' \in 0..MaxSecrets /\ secret' <= issued
  BY <1>1, <1>5, Constants
<1>7. TypeOK'
  BY <1>1, <1>2, <1>4, <1>6 DEF Inv, TypeOK, RequestRecord
<1>8. Passed' /\ CodeConsumedOnce'
  BY <1>1, <1>3, <1>5 DEF Inv, Passed, CodeConsumedOnce
<1>9. EnabledIsConfirmed'
  <2>1. CASE EnableTOTP(r)
    BY <1>1, <1>3, <2>1 DEF EnableTOTP, Inv, Accepted, EnabledIsConfirmed
  <2>2. CASE DisableTOTP(r)
    BY <2>2 DEF DisableTOTP, EnabledIsConfirmed
  <2>. QED BY <2>1, <2>2
<1>. QED BY <1>4, <1>7, <1>8, <1>9 DEF Inv

\* Every step preserves the invariant.
LEMMA NextInv ==
    ASSUME Inv, [Next]_vars
    PROVE  Inv'
<1>1. /\ now \in 1..MaxTime /\ now \in now..MaxTime /\ fails \in Nat /\ Accepted
      /\ errors \in 0..MaxErrors
      /\ req \in [Requests -> RequestRecord]
  BY Constants DEF Inv, TypeOK, RequestRecord
<1>2. ASSUME NEW r \in Requests, NEW k \in Kinds, NEW c \in Sendable, Begin(r, k, c)
      PROVE  Inv'
  <2>1. UNCHANGED <<row, history>> /\ now' = now /\ fails' = fails /\ errors' = errors
    BY <1>2 DEF Begin, counts
  <2>. QED BY <1>1, <1>2, <2>1, BeginStep, RequestsOnly
<1>3. ASSUME NEW r \in Requests, TotpLockedOut(r) \/ TotpFailed(r) \/ RequestFails(r)
      PROVE  Inv'
  <2>1. /\ UNCHANGED <<row, history>> /\ now' = now /\ fails' \in {fails, fails + 1}
        /\ errors' \in 0..MaxErrors
        /\ Finish(r)
    BY <1>1, <1>3, PastLockType DEF TotpLockedOut, TotpFailed, RequestFails, counts
  <2>2. confirmed' = confirmed
    BY <2>1 DEF history
  <2>3. fails' \in Nat
    BY <1>1, <2>1
  <2>. QED BY <1>1, <2>1, <2>2, <2>3, FinishStep, RequestsOnly
<1>4. CASE Tick \/ FailureAges \/ UNCHANGED vars
  <2>1. UNCHANGED <<row, history, req>>
    BY <1>4 DEF Tick, FailureAges, vars
  <2>2. now' \in now..MaxTime /\ fails' \in Nat /\ errors' \in 0..MaxErrors
    BY <1>1, <1>4, Constants DEF Tick, FailureAges, vars, counts
  <2>3. Accepted'
    BY <1>1, <2>1 DEF Accepted, history
  <2>. QED BY <1>1, <2>1, <2>2, <2>3, RequestsOnly
<1>. QED BY <1>2, <1>3, <1>4, ConsumeStep, ConfirmStep, EnrollStep, FlagStep DEF Next

\* The invariant holds throughout.
LEMMA InvHolds == Spec => []Inv
<1>1. Init => Inv
  BY InitInv
<1>2. Inv /\ [Next]_vars => Inv'
  BY NextInv
<1>. QED BY <1>1, <1>2, PTL DEF Spec

-----------------------------------------------------------------------------
(* Theorems *)

\* Every variable has its type and the stored counter is never ahead of the
\* codes that exist (ConsumeTOTPCounter stores only an accepted code's counter).
THEOREM TypesHold == Spec => []TypeOK
<1>1. Inv => TypeOK
  BY DEF Inv
<1>. QED BY <1>1, InvHolds, PTL

\* However many requests carry one code at the same time, it passes a consuming
\* check once, until a request has acted on a row replaced under it (consumeTOTP).
THEOREM CodeIsConsumedOnce == Spec => []CodeConsumedOnce
<1>1. Inv => CodeConsumedOnce
  BY DEF Inv
<1>. QED BY <1>1, InvHolds, PTL

\* A stored secret becomes the account's second factor only after a code of it
\* was confirmed, unless a request was overtaken (totpEnroll, totpActivate).
THEOREM EnabledAfterCode == Spec => []EnabledIsConfirmed
<1>1. Inv => EnabledIsConfirmed
  BY DEF Inv
<1>. QED BY <1>1, InvHolds, PTL

\* An enabled secret is replaced or removed only by a request whose code was
\* accepted, unless it was overtaken (totpEnroll, totpDisable).
THEOREM SecretNeedsCode == Spec => ReplacingNeedsCode
<1>1. ASSUME Inv, [Next]_vars, ~stale', enabled, secret' # secret
      PROVE  \E r \in Requests : req[r].proved /\ req'[r] = NoRequest
  <2>1. PICK r \in Requests : SetTOTPSecret(r) \/ DisableTOTP(r)
    BY <1>1 DEF Next, vars, row, Begin, TotpLockedOut, ConsumeTOTP, ConfirmCode, TotpFailed,
                EnableTOTP, RequestFails, Tick, FailureAges
  <2>2. /\ req[r].phase = "act" /\ req[r].kind # "activate" /\ Finish(r)
        /\ stale' = (stale \/ req[r].secret # secret \/ req[r].was # enabled)
    BY <2>1 DEF SetTOTPSecret, DisableTOTP, Overtaken
  <2>3. req[r].was
    BY <1>1, <2>2
  <2>4. req[r].proved
    BY <1>1, <2>2, <2>3 DEF Inv, Accepted
  <2>5. req'[r] = NoRequest
    <3>1. req \in [Requests -> RequestRecord]
      BY <1>1 DEF Inv, TypeOK, RequestRecord
    <3>. QED BY <2>2, <3>1 DEF Finish
  <2>. QED BY <2>4, <2>5
<1>2. Inv /\ [Next]_vars =>
        [~stale' /\ enabled /\ secret' # secret
           => \E r \in Requests : req[r].proved /\ req'[r] = NoRequest]_vars
  BY <1>1
<1>. QED BY <1>2, InvHolds, PTL DEF Spec, ReplacingNeedsCode
=============================================================================
