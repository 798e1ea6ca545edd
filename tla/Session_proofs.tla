--------------------------- MODULE Session_proofs ---------------------------
(***************************************************************************)
(* What claiming an instance and signing in guarantee for any number of    *)
(* browsers and any bounds: one claim wins whatever races, and, as long as *)
(* requests of the Security section do not overlap, the cached epoch is    *)
(* the stored one and the second factor is one the owner has.              *)
(***************************************************************************)
EXTENDS Session, FiniteSetTheorems, TLAPS

\* One visitor's password is stored, or none.
OneClaim == \E b : password \subseteq {b}

IInv == TypeOK /\ OneClaim

\* What requests of the Security section know, when there is one at a time.
OneAtATime ==
    \A b, c \in Browsers :
        req[b] \in SectionRequests /\ req[c] \in SectionRequests => b = c

\* The epoch a change of password is about to publish is the stored one.
EpochsFollow ==
    \A b \in Browsers : req[b] = "bumped" => bumped[b] = epoch

\* The secret whose code was typed is still the stored one when it is enabled.
SecretsFollow ==
    \A b \in Browsers :
        /\ req[b] \in {"confirm", "confirmWrite"} => enrollment[b] \in scanned
        /\ req[b] = "confirmWrite" => totp.secret = enrollment[b]

Serial ==
    /\ OneAtATime
    /\ EpochsFollow
    /\ EpochsAgree
    /\ SecretsFollow
    /\ OwnerHasTheSecret

-----------------------------------------------------------------------------

LEMMA Bounds ==
    /\ Threshold \in Nat /\ Threshold > 0
    /\ MaxChanges \in Nat /\ MaxSecrets \in Nat /\ MaxFaults \in Nat
  BY SessionAssumption

LEMMA InitOK == Init => IInv
  <1> SUFFICES ASSUME Init PROVE IInv
    OBVIOUS
  <1>1. TypeOK
    BY Bounds DEF Init, TypeOK, Pages, LoginForms, CodeForms, Requests, SectionRequests, NoCookie, DeadCookie
  <1>2. OneClaim
    BY DEF Init, OneClaim
  <1> QED BY <1>1, <1>2 DEF IInv

\* Following a redirect keeps the types.
LEMMA RoutingTyped ==
    ASSUME TypeOK, NEW b \in Browsers,
           Arrive(b)
    PROVE  TypeOK'
  <1> USE Bounds DEF TypeOK, Pages, LoginForms, CodeForms, Requests, SectionRequests, NoCookie, DeadCookie
  <1>1. CASE Arrive(b)
    BY <1>1 DEF Arrive, RouteSetup, RouteLogin, RouteApp, Seen,
        Goto, Send, Done, Fault, Strike, Refuse, ClaimRefused, InlineRefusal, LeavePage, Inside, Valid, Claimed, server, throttle, section
  <1> QED BY <1>1

\* A refused claim goes to the login page.
LEMMA ClaimRefusedTyped ==
    ASSUME TypeOK, NEW b \in Browsers, ClaimRefused(b)
    PROVE  TypeOK'
  <1>1. req' \in [Browsers -> Requests]
    BY DEF TypeOK, ClaimRefused, Done, Send, Requests
  <1>2. page' \in [Browsers -> Pages]
    BY DEF TypeOK, ClaimRefused, Goto, Pages, LoginForms, CodeForms
  <1>3. UNCHANGED <<demo, password, epoch, cached, totp, made, scanned, strikes, locked,
                    faults, cookie, refused, enrollment, status, bumped>>
    BY DEF ClaimRefused, server, throttle, section
  <1> QED BY <1>1, <1>2, <1>3 DEF TypeOK

\* The wizard and the claim keep the types.
LEMMA ClaimingTyped ==
    ASSUME TypeOK, NEW b \in Browsers,
           SubmitClaim(b) \/ CheckClaim(b) \/ PassGate(b) \/ FinishWizard(b)
    PROVE  TypeOK'
  <1> USE Bounds DEF TypeOK, Pages, LoginForms, CodeForms, Requests, SectionRequests, NoCookie, DeadCookie
  <1>1. CASE SubmitClaim(b)
    BY <1>1 DEF SubmitClaim,
        Goto, Send, Done, Fault, Strike, Refuse, ClaimRefused, InlineRefusal, LeavePage, Inside, Valid, Claimed, server, throttle, section
  <1>2. CASE CheckClaim(b)
    <2>1. CASE Claimed
      BY <1>2, <2>1, ClaimRefusedTyped DEF CheckClaim
    <2>2. CASE ~Claimed
      BY <1>2, <2>2 DEF CheckClaim, Send, server, throttle, section
    <2> QED BY <2>1, <2>2
  <1>3. CASE PassGate(b)
    <2>1. CASE ~GateOpen
      BY <1>3, <2>1, ClaimRefusedTyped DEF PassGate
    <2>2. CASE GateOpen
      <3>1. /\ password' = password \cup {b}
            /\ req' = [req EXCEPT ![b] = "none"]
            /\ UNCHANGED <<demo, epoch, cached, totp, made, scanned, strikes, locked,
                           enrollment, status, bumped>>
        BY <1>3, <2>2 DEF PassGate, Send, Done, throttle, section
      <3>2. cookie' \in [Browsers -> {DeadCookie, NoCookie} \cup 0..MaxChanges]
        BY <1>3, <2>2 DEF PassGate
      <3>3. page' \in [Browsers -> Pages] /\ refused' \subseteq Browsers /\ faults' \in 0..MaxFaults
        BY <1>3, <2>2 DEF PassGate, Goto, Fault
      <3> QED BY <3>1, <3>2, <3>3
    <2> QED BY <2>1, <2>2
  <1>4. CASE FinishWizard(b)
    BY <1>4 DEF FinishWizard,
        Goto, Send, Done, Fault, Strike, Refuse, ClaimRefused, InlineRefusal, LeavePage, Inside, Valid, Claimed, server, throttle, section
  <1> QED BY <1>1, <1>2, <1>3, <1>4

\* A failed attempt counts up to the threshold.
LEMMA StrikeOK ==
    ASSUME TypeOK, NEW b \in Browsers, Strike(b)
    PROVE  strikes' \in [Browsers -> 0..Threshold] /\ locked' \subseteq Browsers
  BY Bounds DEF TypeOK, Strike

\* Signing in keeps the types.
LEMMA SigningInTyped ==
    ASSUME TypeOK, NEW b \in Browsers,
           SubmitPassword(b) \/ CheckPassword(b) \/ IssueCookie(b) \/ SubmitCode(b)
           \/ CheckCode(b) \/ PreAuthDies(b) \/ Reload(b) \/ Unlock(b)
    PROVE  TypeOK'
  <1> USE Bounds DEF TypeOK, Pages, LoginForms, CodeForms, Requests, SectionRequests, NoCookie, DeadCookie
  <1>1. CASE SubmitPassword(b)
    BY <1>1 DEF SubmitPassword,
        Goto, Send, Done, Fault, Strike, Refuse, ClaimRefused, InlineRefusal, LeavePage, Inside, Valid, Claimed, server, throttle, section
  <1>2. CASE CheckPassword(b)
    <2>1. UNCHANGED <<server, cookie, section>> /\ refused' \subseteq Browsers
      BY <1>2 DEF CheckPassword, Refuse
    <2>2. strikes' \in [Browsers -> 0..Threshold] /\ locked' \subseteq Browsers
      BY <1>2, StrikeOK DEF CheckPassword, throttle
    <2>3. faults' \in 0..MaxFaults
      BY <1>2 DEF CheckPassword, Fault
    <2>4. page' \in [Browsers -> Pages] /\ req' \in [Browsers -> Requests]
      BY <1>2 DEF CheckPassword, Refuse, Goto, Send, Done
    <2> QED BY <2>1, <2>2, <2>3, <2>4 DEF server, section
  <1>3. CASE IssueCookie(b)
    BY <1>3 DEF IssueCookie,
        Goto, Send, Done, Fault, Strike, Refuse, ClaimRefused, InlineRefusal, LeavePage, Inside, Valid, Claimed, server, throttle, section
  <1>4. CASE SubmitCode(b)
    BY <1>4 DEF SubmitCode,
        Goto, Send, Done, Fault, Strike, Refuse, ClaimRefused, InlineRefusal, LeavePage, Inside, Valid, Claimed, server, throttle, section
  <1>5. CASE CheckCode(b)
    <2>1. UNCHANGED <<server, page, cookie, section>> /\ refused' \subseteq Browsers
      BY <1>5 DEF CheckCode, Refuse
    <2>2. strikes' \in [Browsers -> 0..Threshold] /\ locked' \subseteq Browsers
      BY <1>5, StrikeOK DEF CheckCode, throttle
    <2>3. faults' \in 0..MaxFaults
      BY <1>5 DEF CheckCode, Fault
    <2>4. req' \in [Browsers -> Requests]
      BY <1>5 DEF CheckCode, Refuse, Send, Done
    <2> QED BY <2>1, <2>2, <2>3, <2>4 DEF server, section
  <1>6. CASE Reload(b)
    <2>1. page' \in [Browsers -> Pages] /\ refused' \subseteq Browsers
      BY <1>6 DEF Reload, Goto
    <2> QED BY <1>6, <2>1 DEF Reload, server, throttle, section
  <1>7. CASE PreAuthDies(b)
    <2>1. page' \in [Browsers -> Pages] /\ faults' \in 0..MaxFaults
      BY <1>7 DEF PreAuthDies, Goto, Fault
    <2> QED BY <1>7, <2>1 DEF PreAuthDies, server, throttle, section
  <1>8. CASE Unlock(b)
    BY <1>8 DEF Unlock,
        Goto, Send, Done, Fault, Strike, Refuse, ClaimRefused, InlineRefusal, LeavePage, Inside, Valid, Claimed, server, throttle, section
  <1> QED BY <1>1, <1>2, <1>3, <1>4, <1>5, <1>6, <1>7, <1>8

\* Losing a session keeps the types.
LEMMA LosingTyped ==
    ASSUME TypeOK, NEW b \in Browsers,
           Expire(b) \/ Logout(b) \/ CookieDies(b)
    PROVE  TypeOK'
  <1> USE Bounds DEF TypeOK, Pages, LoginForms, CodeForms, Requests, SectionRequests, NoCookie, DeadCookie
  <1>1. CASE Expire(b)
    BY <1>1 DEF Expire,
        Goto, Send, Done, Fault, Strike, Refuse, ClaimRefused, InlineRefusal, LeavePage, Inside, Valid, Claimed, server, throttle, section
  <1>2. CASE Logout(b)
    BY <1>2 DEF Logout,
        Goto, Send, Done, Fault, Strike, Refuse, ClaimRefused, InlineRefusal, LeavePage, Inside, Valid, Claimed, server, throttle, section
  <1>3. CASE CookieDies(b)
    BY <1>3 DEF CookieDies,
        Goto, Send, Done, Fault, Strike, Refuse, ClaimRefused, InlineRefusal, LeavePage, Inside, Valid, Claimed, server, throttle, section
  <1> QED BY <1>1, <1>2, <1>3

\* A request put on its way, and nothing else.
SentOnly(b, r) ==
    /\ Send(b, r)
    /\ UNCHANGED <<demo, password, epoch, cached, totp, made, scanned, strikes, locked, faults,
                   page, cookie, refused, enrollment, status, bumped>>

\* It keeps the types.
LEMMA SentTyped ==
    ASSUME TypeOK, NEW b \in Browsers, NEW r \in Requests, SentOnly(b, r)
    PROVE  TypeOK'
  <1>1. req' \in [Browsers -> Requests]
    BY DEF TypeOK, SentOnly, Send
  <1> QED BY <1>1 DEF TypeOK, SentOnly

\* A form that shows the refusal and stays, and the requests of the section.
LEMMA SectionRequestsTyped ==
    ASSUME TypeOK, NEW b \in Browsers,
           InlineRefusal(b) \/ SubmitChange(b) \/ StartEnrollment(b) \/ SubmitDisable(b)
    PROVE  TypeOK'
  <1>1. PICK r \in {"none", "change", "enroll", "disable"} : SentOnly(b, r)
    BY DEF InlineRefusal, SubmitChange, StartEnrollment, SubmitDisable, SentOnly, Done,
           server, throttle, section
  <1>2. r \in Requests
    BY DEF Requests, SectionRequests
  <1> QED BY <1>1, <1>2, SentTyped

\* Changing the password keeps the types.
LEMMA ChangingTyped ==
    ASSUME TypeOK, NEW b \in Browsers,
           OpenSecurity(b) \/ SubmitChange(b) \/ CommitChange(b) \/ PublishEpoch(b)
    PROVE  TypeOK'
  <1>1. CASE SubmitChange(b) \/ InlineRefusal(b)
    BY <1>1, SectionRequestsTyped
  <1> USE Bounds DEF TypeOK, Pages, LoginForms, CodeForms, Requests, SectionRequests, NoCookie, DeadCookie
  <1>2. CASE OpenSecurity(b)
    BY <1>2 DEF OpenSecurity,
        Goto, Send, Done, Fault, Strike, Refuse, ClaimRefused, InlineRefusal, LeavePage, Inside, Valid, Claimed, server, throttle, section
  <1>3. CASE CommitChange(b)
    <2>1. CASE InlineRefusal(b)
      BY ONLY <1>1, <2>1
    <2>2. CASE Valid(b) /\ ~InlineRefusal(b)
      <3>1. epoch' \in 0..MaxChanges /\ bumped' \in [Browsers -> 0..MaxChanges]
        BY <1>3, <2>2 DEF CommitChange
      <3>2. req' \in [Browsers -> Requests]
        BY <1>3, <2>2 DEF CommitChange, Send
      <3> QED BY <1>3, <2>2, <3>1, <3>2 DEF CommitChange, throttle
    <2> QED BY ONLY <1>3, <2>1, <2>2 DEF CommitChange
  <1>4. CASE PublishEpoch(b)
    BY <1>4 DEF PublishEpoch,
        Goto, Send, Done, Fault, Strike, Refuse, ClaimRefused, InlineRefusal, LeavePage, Inside, Valid, Claimed, server, throttle, section
  <1> QED BY <1>1, <1>2, <1>3, <1>4

\* Enrolling and disabling keep the types.
LEMMA EnrollingTyped ==
    ASSUME TypeOK, NEW b \in Browsers,
           StartEnrollment(b) \/ CheckEnrollment(b) \/ WriteEnrollment(b) \/ CancelEnrollment(b)
           \/ SubmitEnrollmentCode(b) \/ CheckEnrollmentCode(b) \/ SwitchOn(b) \/ SubmitDisable(b) \/ SwitchOff(b)
    PROVE  TypeOK'
  <1>1. CASE StartEnrollment(b) \/ SubmitDisable(b) \/ InlineRefusal(b)
    BY <1>1, SectionRequestsTyped
  <1>2. CASE CheckEnrollment(b) /\ ~InlineRefusal(b)
    <2>1. SentOnly(b, "enrollWrite") /\ "enrollWrite" \in Requests
      BY <1>2 DEF CheckEnrollment, SentOnly, Requests, SectionRequests, server, throttle, section
    <2> QED BY <2>1, SentTyped
  <1> USE Bounds DEF TypeOK, Pages, LoginForms, CodeForms, Requests, SectionRequests, NoCookie, DeadCookie
  <1>3. CASE WriteEnrollment(b)
    BY <1>3 DEF WriteEnrollment,
        Goto, Send, Done, Fault, Strike, Refuse, ClaimRefused, InlineRefusal, LeavePage, Inside, Valid, Claimed, server, throttle, section
  <1>4. CASE CancelEnrollment(b)
    BY <1>4 DEF CancelEnrollment,
        Goto, Send, Done, Fault, Strike, Refuse, ClaimRefused, InlineRefusal, LeavePage, Inside, Valid, Claimed, server, throttle, section
  <1>5. CASE SubmitEnrollmentCode(b)
    <2>1. enrollment[b] \in 1..MaxSecrets
      BY <1>5 DEF SubmitEnrollmentCode
    <2>2. scanned' \subseteq 1..MaxSecrets
      BY <1>5, <2>1 DEF SubmitEnrollmentCode
    <2> QED BY <1>5, <2>2 DEF SubmitEnrollmentCode, Send, throttle, section
  <1>6. CASE CheckEnrollmentCode(b)
    BY <1>6 DEF CheckEnrollmentCode, CodeMatches,
        Goto, Send, Done, Fault, Strike, Refuse, ClaimRefused, InlineRefusal, LeavePage, Inside, Valid, Claimed, server, throttle, section
  <1>7. CASE SwitchOn(b)
    <2>1. /\ totp' \in [secret : 0..MaxSecrets, on : BOOLEAN]
          /\ status' \in [Browsers -> BOOLEAN]
      BY <1>7 DEF SwitchOn
    <2>2. enrollment' \in [Browsers -> 0..MaxSecrets] /\ req' \in [Browsers -> Requests]
      BY <1>7 DEF SwitchOn, Send, Done
    <2> QED BY <1>7, <2>1, <2>2 DEF SwitchOn, throttle
  <1>8. CASE SwitchOff(b) /\ ~InlineRefusal(b)
    <2>1. /\ totp' = [secret |-> 0, on |-> FALSE]
          /\ status' = [status EXCEPT ![b] = FALSE]
          /\ req' = [req EXCEPT ![b] = "none"]
          /\ UNCHANGED <<demo, password, epoch, cached, made, scanned, strikes, locked, faults,
                         page, cookie, refused, enrollment, bumped>>
      BY <1>8 DEF SwitchOff, Send, Done, throttle
    <2>2. totp' \in [secret : 0..MaxSecrets, on : BOOLEAN]
      BY <2>1
    <2>3. status' \in [Browsers -> BOOLEAN]
      BY <2>1
    <2>4. req' \in [Browsers -> Requests]
      BY <2>1
    <2> QED BY <2>1, <2>2, <2>3, <2>4
  <1> QED BY <1>1, <1>2, <1>3, <1>4, <1>5, <1>6, <1>7, <1>8

\* A restart keeps the types: what it loads is the stored epoch.
LEMMA RestartTyped ==
    ASSUME TypeOK, Restart
    PROVE  TypeOK'
  <1> USE Bounds
  <1>1. /\ cached' \in 0..MaxChanges
        /\ faults' \in 0..MaxFaults
        /\ refused' \subseteq Browsers
        /\ locked' = {}
    BY DEF TypeOK, Restart, Boot, Fault
  <1>2. strikes' \in [Browsers -> 0..Threshold] /\ bumped' \in [Browsers -> 0..MaxChanges]
    BY DEF Restart, Boot
  <1>3. req' \in [Browsers -> Requests]
    BY DEF Restart, Boot, Requests
  <1>4. UNCHANGED <<demo, password, epoch, totp, made, scanned, page, cookie, enrollment, status>>
    BY DEF Restart, Boot
  <1> QED BY <1>1, <1>2, <1>3, <1>4 DEF TypeOK

LEMMA NextTyped ==
    ASSUME TypeOK, Next
    PROVE  TypeOK'
  <1>1. ASSUME NEW b \in Browsers,
               \/ Arrive(b) \/ Serve(b) \/ SignIn(b) \/ Reload(b) \/ ManageSecurity(b)
               \/ Unlock(b) \/ Expire(b) \/ Logout(b) \/ CookieDies(b) \/ PreAuthDies(b)
        PROVE  TypeOK'
    BY <1>1, RoutingTyped, ClaimingTyped, SigningInTyped, LosingTyped, ChangingTyped,
        EnrollingTyped DEF Serve, SignIn, ManageSecurity
  <1> QED BY <1>1, RestartTyped DEF Next

-----------------------------------------------------------------------------

\* Only a claim that passes the gate stores a password, and only the first.
LEMMA PasswordWrites ==
    ASSUME Next
    PROVE  \/ password' = password
           \/ password = {} /\ \E b \in Browsers : password' = {b}
  <1> USE DEF server
  <1>1. ASSUME NEW b \in Browsers, Arrive(b) \/ ManageSecurity(b) PROVE password' = password
    BY <1>1 DEF Arrive, ManageSecurity, OpenSecurity, SubmitChange, StartEnrollment,
        CancelEnrollment, SubmitEnrollmentCode, SubmitDisable
  <1>2. ASSUME NEW b \in Browsers,
               \/ Unlock(b) \/ Expire(b) \/ Logout(b) \/ CookieDies(b) \/ PreAuthDies(b)
               \/ Reload(b)
        PROVE  password' = password
    BY <1>2 DEF Unlock, Expire, Logout, CookieDies, PreAuthDies, Reload
  <1>3. ASSUME NEW b \in Browsers, SignIn(b) PROVE password' = password
    BY <1>3 DEF SignIn, SubmitClaim, FinishWizard, SubmitPassword, SubmitCode
  <1>4. ASSUME NEW b \in Browsers, Serve(b), ~PassGate(b) PROVE password' = password
    <2>1. CheckClaim(b) \/ CheckPassword(b) \/ IssueCookie(b) \/ CheckCode(b) => password' = password
      BY DEF CheckClaim, ClaimRefused, CheckPassword, IssueCookie, CheckCode, Refuse
    <2>2. CommitChange(b) \/ PublishEpoch(b) \/ CheckEnrollment(b) \/ WriteEnrollment(b)
          => password' = password
      BY DEF CommitChange, PublishEpoch, CheckEnrollment, WriteEnrollment, InlineRefusal
    <2>3. CheckEnrollmentCode(b) \/ SwitchOn(b) \/ SwitchOff(b) => password' = password
      BY DEF CheckEnrollmentCode, SwitchOn, SwitchOff, InlineRefusal
    <2> QED BY <1>4, <2>1, <2>2, <2>3 DEF Serve
  <1>5. ASSUME NEW b \in Browsers, PassGate(b)
        PROVE  password' = password \/ (password = {} /\ password' = {b})
    BY <1>5 DEF PassGate, GateOpen, Claimed, ClaimRefused
  <1>6. Restart => password' = password
    BY DEF Restart, Boot
  <1> QED BY <1>1, <1>2, <1>3, <1>4, <1>5, <1>6 DEF Next

\* The inductive invariant, whatever overlaps.
THEOREM Invariance == Spec => []IInv
  <1>1. ASSUME IInv, [Next]_vars PROVE IInv'
    <2>1. CASE Next
      <3>1. TypeOK'
        BY <1>1, <2>1, NextTyped DEF IInv
      <3>2. OneClaim'
        BY <1>1, <2>1, PasswordWrites DEF IInv, OneClaim
      <3> QED BY <3>1, <3>2 DEF IInv
    <2>2. CASE UNCHANGED vars
      BY <1>1, <2>2 DEF vars, server, throttle, section, IInv, TypeOK, OneClaim
    <2> QED BY <1>1, <2>1, <2>2
  <1> QED BY InitOK, <1>1, PTL DEF Spec

\* The pages, the tables and the requests keep their types.
THEOREM TypeCorrect == Spec => []TypeOK
  <1>1. IInv => TypeOK
    BY DEF IInv
  <1> QED BY Invariance, <1>1, PTL

\* However many visitors claim at once and lose their answers, one password is
\* stored: "the winner's password hash is never overwritten" (routers/setup.py:52).
THEOREM OneVisitorClaims == Spec => []OneClaimWins
  <1>1. IInv => OneClaimWins
    <2> SUFFICES ASSUME IInv PROVE Cardinality(password) <= 1
      BY DEF OneClaimWins
    <2>1. PICK b : password \subseteq {b}
      BY DEF IInv, OneClaim
    <2>2. password = {} \/ password = {b}
      BY <2>1
    <2>3. Cardinality({}) = 0
      BY FS_EmptySet
    <2>4. Cardinality({b}) = 1
      BY FS_Singleton
    <2> QED BY <2>2, <2>3, <2>4
  <1> QED BY Invariance, <1>1, PTL

-----------------------------------------------------------------------------
(* One request of the Security section at a time.                          *)

\* A step outside the section sends none of its requests and drops no
\* publication of an epoch.
LEMMA Elsewhere ==
    ASSUME Serial,
           UNCHANGED <<epoch, cached, totp, scanned, bumped>>,
           \A c \in Browsers :
               /\ req'[c] \in SectionRequests => req'[c] = req[c] /\ enrollment'[c] = enrollment[c]
               /\ req[c] = "bumped" => req'[c] = "bumped"
    PROVE  Serial'
  <1>1. OneAtATime'
    BY DEF Serial, OneAtATime
  <1>2. EpochsFollow' /\ EpochsAgree'
    BY DEF Serial, EpochsFollow, EpochsAgree, SectionRequests
  <1>3. SecretsFollow' /\ OwnerHasTheSecret'
    BY DEF Serial, SecretsFollow, OwnerHasTheSecret, SectionRequests
  <1> QED BY <1>1, <1>2, <1>3 DEF Serial

\* Changing one browser's request from outside the section to outside it.
LEMMA OtherRequest ==
    ASSUME TypeOK, Serial, NEW b \in Browsers, NEW r,
           UNCHANGED <<epoch, cached, totp, scanned, bumped>>,
           req' = [req EXCEPT ![b] = r],
           r \notin SectionRequests,
           req[b] # "bumped",
           \A c \in Browsers \ {b} : enrollment'[c] = enrollment[c]
    PROVE  Serial'
  BY Elsewhere DEF TypeOK

LEMMA RoutingSerial ==
    ASSUME TypeOK, Serial, NEW b \in Browsers,
           \/ Arrive(b) \/ CookieDies(b) \/ PreAuthDies(b) \/ Reload(b) \/ Unlock(b)
           \/ OpenSecurity(b)
    PROVE  Serial'
  <1>1. UNCHANGED <<epoch, cached, totp, scanned, bumped, req, enrollment>>
    BY DEF Arrive, CookieDies, PreAuthDies, Reload, Unlock, OpenSecurity, server, section
  <1> QED BY <1>1, Elsewhere

LEMMA LosingSerial ==
    ASSUME TypeOK, Serial, NEW b \in Browsers, Expire(b) \/ Logout(b) \/ CancelEnrollment(b)
    PROVE  Serial'
  <1>1. UNCHANGED <<epoch, cached, totp, scanned, bumped>>
    BY DEF Expire, Logout, CancelEnrollment, server, section
  <1>2. \A c \in Browsers \ {b} : enrollment'[c] = enrollment[c]
    BY DEF TypeOK, Expire, Logout, CancelEnrollment, LeavePage
  <1>3. req' = [req EXCEPT ![b] = "none"] /\ req[b] # "bumped"
    BY DEF TypeOK, Expire, Logout, CancelEnrollment, Done, Send, Refusable
  <1> QED BY <1>1, <1>2, <1>3, OtherRequest DEF SectionRequests

LEMMA SigningInSerial ==
    ASSUME TypeOK, Serial, NEW b \in Browsers, SignIn(b)
    PROVE  Serial'
  <1>1. UNCHANGED <<epoch, cached, totp, scanned, bumped, enrollment>>
    BY DEF SignIn, SubmitClaim, FinishWizard, SubmitPassword, SubmitCode, server, section
  <1>2. \/ req' = req
        \/ \E r \in {"claim", "login", "code"} : req' = [req EXCEPT ![b] = r] /\ req[b] # "bumped"
    BY DEF SignIn, SubmitClaim, FinishWizard, SubmitPassword, SubmitCode, Send
  <1> QED BY <1>1, <1>2, Elsewhere, OtherRequest DEF SectionRequests

LEMMA AnsweringSerial ==
    ASSUME TypeOK, Serial, NEW b \in Browsers,
           CheckClaim(b) \/ PassGate(b) \/ CheckPassword(b) \/ IssueCookie(b) \/ CheckCode(b)
    PROVE  Serial'
  <1>1. UNCHANGED <<epoch, cached, totp, scanned, bumped, enrollment>>
    <2>1. CheckClaim(b) => UNCHANGED <<epoch, cached, totp, scanned, bumped, enrollment>>
      BY DEF CheckClaim, ClaimRefused, server, section
    <2>2. PassGate(b) => UNCHANGED <<epoch, cached, totp, scanned, bumped, enrollment>>
      BY DEF PassGate, ClaimRefused, server, section
    <2>3. CheckPassword(b) \/ IssueCookie(b) \/ CheckCode(b)
          => UNCHANGED <<epoch, cached, totp, scanned, bumped, enrollment>>
      BY DEF CheckPassword, IssueCookie, CheckCode, Refuse, server, section
    <2> QED BY <2>1, <2>2, <2>3
  <1>2. \E r \in {"none", "gate", "issue"} : req' = [req EXCEPT ![b] = r]
    <2>1. CheckClaim(b) \/ PassGate(b) => \E r \in {"none", "gate"} : req' = [req EXCEPT ![b] = r]
      BY DEF CheckClaim, PassGate, ClaimRefused, Done, Send
    <2>2. CheckPassword(b) \/ IssueCookie(b) \/ CheckCode(b)
          => \E r \in {"none", "issue"} : req' = [req EXCEPT ![b] = r]
      BY DEF CheckPassword, IssueCookie, CheckCode, Refuse, Done, Send
    <2> QED BY <2>1, <2>2
  <1>3. req[b] # "bumped"
    BY DEF CheckClaim, PassGate, CheckPassword, IssueCookie, CheckCode
  <1> QED BY <1>1, <1>2, <1>3, OtherRequest DEF SectionRequests

\* A request of the section is sent when there is no other.
LEMMA SendingSerial ==
    ASSUME TypeOK, Serial, ~Overlap, NEW b \in Browsers,
           SubmitChange(b) \/ StartEnrollment(b) \/ SubmitDisable(b) \/ SubmitEnrollmentCode(b)
    PROVE  Serial'
  <1>1. \A c \in Browsers : req[c] \notin SectionRequests
    BY DEF SubmitChange, StartEnrollment, SubmitDisable, SubmitEnrollmentCode, MaySend
  <1>2. PICK r \in {"change", "enroll", "disable", "confirm"} : req' = [req EXCEPT ![b] = r]
    BY DEF SubmitChange, StartEnrollment, SubmitDisable, SubmitEnrollmentCode, Send
  <1>3. UNCHANGED <<epoch, cached, totp, bumped, enrollment>>
    BY DEF SubmitChange, StartEnrollment, SubmitDisable, SubmitEnrollmentCode, server, section
  <1>4. /\ scanned \subseteq scanned'
        /\ req'[b] = "confirm" => enrollment[b] \in scanned'
    BY DEF SubmitChange, StartEnrollment, SubmitDisable, SubmitEnrollmentCode, server, Send, TypeOK
  <1>5. \A c \in Browsers : req'[c] = IF c = b THEN r ELSE req[c]
    BY <1>2 DEF TypeOK
  <1>6. OneAtATime'
    BY <1>1, <1>5 DEF OneAtATime
  <1>7. EpochsFollow' /\ EpochsAgree'
    BY <1>1, <1>3, <1>5 DEF Serial, EpochsFollow, EpochsAgree, SectionRequests
  <1>8. SecretsFollow'
    BY <1>1, <1>3, <1>4, <1>5 DEF SecretsFollow, SectionRequests
  <1>9. OwnerHasTheSecret'
    BY <1>3, <1>4 DEF Serial, OwnerHasTheSecret
  <1> QED BY <1>6, <1>7, <1>8, <1>9 DEF Serial

\* The request being served is the only one of the section.
LEMMA Alone ==
    ASSUME TypeOK, Serial, NEW b \in Browsers, NEW r,
           req[b] \in SectionRequests,
           req' = [req EXCEPT ![b] = r]
    PROVE  /\ OneAtATime'
           /\ req'[b] = r
           /\ \A c \in Browsers \ {b} : req[c] \notin SectionRequests /\ req'[c] = req[c]
  BY DEF TypeOK, Serial, OneAtATime

\* The stored epoch and the cached one move in two steps of one request.
LEMMA ChangingSerial ==
    ASSUME TypeOK, Serial, NEW b \in Browsers, CommitChange(b) \/ PublishEpoch(b)
    PROVE  Serial'
  <1>1. UNCHANGED <<totp, scanned, enrollment>>
    BY DEF CommitChange, PublishEpoch, InlineRefusal, server, section
  <1>2. CASE CommitChange(b) /\ ~Valid(b)
    BY <1>1, <1>2, OtherRequest DEF CommitChange, InlineRefusal, Done, Send, SectionRequests,
        server, section
  <1>3. CASE CommitChange(b) /\ Valid(b)
    <2>1. /\ req[b] = "change"
          /\ req' = [req EXCEPT ![b] = "bumped"]
          /\ bumped'[b] = epoch'
          /\ cached' = cached
      BY <1>3 DEF CommitChange, Send, TypeOK
    <2>2. /\ OneAtATime' /\ req'[b] = "bumped"
          /\ \A c \in Browsers \ {b} : req'[c] \notin SectionRequests
      BY <2>1, Alone DEF SectionRequests
    <2>3. EpochsFollow' /\ EpochsAgree'
      BY <2>1, <2>2 DEF EpochsFollow, EpochsAgree, SectionRequests
    <2>4. SecretsFollow' /\ OwnerHasTheSecret'
      BY <1>1, <2>2 DEF Serial, SecretsFollow, OwnerHasTheSecret, SectionRequests
    <2> QED BY <2>2, <2>3, <2>4 DEF Serial
  <1>4. CASE PublishEpoch(b)
    <2>1. /\ req[b] = "bumped"
          /\ req' = [req EXCEPT ![b] = "none"]
          /\ cached' = bumped[b] /\ bumped[b] = epoch
          /\ epoch' = epoch
      BY <1>4 DEF PublishEpoch, Done, Send, Serial, EpochsFollow
    <2>2. /\ OneAtATime' /\ req'[b] = "none"
          /\ \A c \in Browsers \ {b} : req'[c] \notin SectionRequests
      <3>1. req[b] \in SectionRequests
        BY <2>1 DEF SectionRequests
      <3>2. /\ OneAtATime' /\ req'[b] = "none"
            /\ \A c \in Browsers \ {b} : req[c] \notin SectionRequests /\ req'[c] = req[c]
        BY <2>1, <3>1, Alone
      <3> QED BY <3>2
    <2>3. EpochsFollow' /\ EpochsAgree'
      BY <2>1, <2>2 DEF EpochsFollow, EpochsAgree, SectionRequests
    <2>4. SecretsFollow' /\ OwnerHasTheSecret'
      BY <1>1, <2>2 DEF Serial, SecretsFollow, OwnerHasTheSecret, SectionRequests
    <2> QED BY <2>2, <2>3, <2>4 DEF Serial
  <1> QED BY <1>2, <1>3, <1>4

\* What a served request of the second factor leaves behind.
LEMMA ServedSerial ==
    ASSUME TypeOK, Serial, NEW b \in Browsers, NEW r,
           req[b] \in SectionRequests, req[b] # "bumped",
           req' = [req EXCEPT ![b] = r], r # "bumped", r # "confirm",
           UNCHANGED <<epoch, cached, scanned>>,
           OwnerHasTheSecret',
           r = "confirmWrite" => enrollment'[b] \in scanned /\ totp'.secret = enrollment'[b]
    PROVE  Serial'
  <1>1. /\ OneAtATime' /\ req'[b] = r
        /\ \A c \in Browsers \ {b} : req[c] \notin SectionRequests /\ req'[c] = req[c]
    BY Alone
  <1>2. \A c \in Browsers : req[c] # "bumped" /\ req'[c] # "bumped"
    BY <1>1 DEF SectionRequests
  <1>3. EpochsFollow' /\ EpochsAgree'
    BY <1>2 DEF Serial, EpochsFollow, EpochsAgree
  <1>4. SecretsFollow'
    BY <1>1 DEF SecretsFollow, SectionRequests
  <1> QED BY <1>1, <1>3, <1>4 DEF Serial

LEMMA EnrollingSerial ==
    ASSUME TypeOK, Serial, NEW b \in Browsers,
           \/ CheckEnrollment(b) \/ WriteEnrollment(b) \/ CheckEnrollmentCode(b)
           \/ SwitchOn(b) \/ SwitchOff(b)
    PROVE  Serial'
  <1> USE DEF server, section, Send, Done
  <1>1. CASE CheckEnrollment(b)
    <2>1. /\ req[b] = "enroll"
          /\ \E r \in {"none", "enrollWrite"} : req' = [req EXCEPT ![b] = r]
          /\ UNCHANGED <<epoch, cached, totp, scanned, enrollment>>
      BY <1>1 DEF CheckEnrollment, InlineRefusal
    <2>2. OwnerHasTheSecret'
      BY <2>1 DEF Serial, OwnerHasTheSecret
    <2>3. req[b] \in SectionRequests /\ req[b] # "bumped"
      BY <2>1 DEF SectionRequests
    <2>4. PICK r \in {"none", "enrollWrite"} : req' = [req EXCEPT ![b] = r]
      BY <2>1
    <2> QED BY <2>1, <2>2, <2>3, <2>4, ServedSerial
  <1>2. CASE WriteEnrollment(b)
    <2>1. /\ req[b] = "enrollWrite" /\ req' = [req EXCEPT ![b] = "none"]
          /\ totp' = [secret |-> made + 1, on |-> FALSE]
          /\ UNCHANGED <<epoch, cached, scanned>>
      BY <1>2 DEF WriteEnrollment
    <2>2. OwnerHasTheSecret'
      BY <2>1 DEF OwnerHasTheSecret
    <2>3. req[b] \in SectionRequests /\ req[b] # "bumped"
      BY <2>1 DEF SectionRequests
    <2> QED BY <2>1, <2>2, <2>3, ServedSerial
  <1>3. CASE CheckEnrollmentCode(b)
    <2>1. /\ req[b] = "confirm"
          /\ UNCHANGED <<epoch, cached, totp, scanned, enrollment>>
          /\ \E r \in {"none", "confirmWrite"} : req' = [req EXCEPT ![b] = r]
          /\ req' = [req EXCEPT ![b] = "none"] \/ totp.secret = enrollment[b]
      BY <1>3 DEF CheckEnrollmentCode, CodeMatches, InlineRefusal
    <2>2. enrollment[b] \in scanned /\ OwnerHasTheSecret'
      BY <2>1 DEF Serial, SecretsFollow, OwnerHasTheSecret
    <2>3. req[b] \in SectionRequests /\ req[b] # "bumped"
      BY <2>1 DEF SectionRequests
    <2>4. PICK r \in {"none", "confirmWrite"} : req' = [req EXCEPT ![b] = r]
      BY <2>1
    <2>5. r = "confirmWrite" => enrollment'[b] \in scanned /\ totp'.secret = enrollment'[b]
      <3>1. req'[b] = r /\ (req' = [req EXCEPT ![b] = "none"] => req'[b] = "none")
        BY <2>4 DEF TypeOK
      <3> QED BY <2>1, <2>2, <3>1
    <2> QED BY <2>1, <2>2, <2>3, <2>4, <2>5, ServedSerial
  <1>4. CASE SwitchOn(b)
    <2>1. /\ req[b] = "confirmWrite" /\ req' = [req EXCEPT ![b] = "none"]
          /\ totp'.secret = totp.secret
          /\ UNCHANGED <<epoch, cached, scanned>>
      BY <1>4 DEF SwitchOn, TypeOK
    <2>2. OwnerHasTheSecret'
      BY <2>1 DEF Serial, SecretsFollow, OwnerHasTheSecret
    <2>3. req[b] \in SectionRequests /\ req[b] # "bumped"
      BY <2>1 DEF SectionRequests
    <2> QED BY <2>1, <2>2, <2>3, ServedSerial
  <1>5. CASE SwitchOff(b)
    <2>1. /\ req[b] = "disable" /\ req' = [req EXCEPT ![b] = "none"]
          /\ UNCHANGED <<epoch, cached, scanned>>
      BY <1>5 DEF SwitchOff, InlineRefusal
    <2>2. totp' = totp \/ totp' = [secret |-> 0, on |-> FALSE]
      BY <1>5 DEF SwitchOff, InlineRefusal
    <2>3. OwnerHasTheSecret'
      BY <2>1, <2>2 DEF Serial, OwnerHasTheSecret
    <2>4. req[b] \in SectionRequests /\ req[b] # "bumped"
      BY <2>1 DEF SectionRequests
    <2> QED BY <2>1, <2>3, <2>4, ServedSerial
  <1> QED BY <1>1, <1>2, <1>3, <1>4, <1>5

\* No request survives a restart, and the epoch is read from the table.
LEMMA RestartSerial ==
    ASSUME Serial, Restart
    PROVE  Serial'
  <1>1. /\ cached' = epoch /\ UNCHANGED <<epoch, totp, scanned>>
        /\ \A c \in Browsers : req'[c] = "none"
    BY DEF Restart, Boot
  <1> QED
    BY <1>1 DEF Serial, OneAtATime, EpochsFollow, EpochsAgree, SecretsFollow, OwnerHasTheSecret,
        SectionRequests

LEMMA NextSerial ==
    ASSUME TypeOK, Serial, ~Overlap, [Next]_vars
    PROVE  Serial'
  <1>1. CASE UNCHANGED vars
    BY <1>1, Elsewhere DEF vars, server, section
  <1>2. CASE Restart
    BY <1>2, RestartSerial
  <1>3. ASSUME NEW b \in Browsers,
               \/ Arrive(b) \/ Serve(b) \/ SignIn(b) \/ Reload(b) \/ ManageSecurity(b)
               \/ Unlock(b) \/ Expire(b) \/ Logout(b) \/ CookieDies(b) \/ PreAuthDies(b)
        PROVE  Serial'
    BY <1>3, RoutingSerial, LosingSerial, SigningInSerial, AnsweringSerial, SendingSerial,
        ChangingSerial, EnrollingSerial DEF Serve, ManageSecurity
  <1> QED BY <1>1, <1>2, <1>3 DEF Next

\* With one request of the Security section at a time, what such a request has
\* read is still so when it writes (routers/auth.py).
LEMMA SerialInvariance ==
    ASSUME ~Overlap
    PROVE  Spec => []Serial
  <1>1. Init => Serial
    BY DEF Init, Serial, OneAtATime, EpochsFollow, EpochsAgree, SecretsFollow,
        OwnerHasTheSecret, SectionRequests
  <1>2. TypeOK /\ Serial /\ [Next]_vars => Serial'
    BY NextSerial
  <1> QED BY <1>1, <1>2, TypeCorrect, PTL DEF Spec

\* While requests of the Security section do not overlap, the epoch in memory
\* is the stored one whenever no change is between its commit and its
\* publication, whatever restarts, logs in or fails (routers/auth.py:182-186).
THEOREM CachedEpochAgrees ==
    ASSUME ~Overlap
    PROVE  Spec => []EpochsAgree
  <1>1. Serial => EpochsAgree
    BY DEF Serial
  <1> QED BY SerialInvariance, <1>1, PTL

\* While requests of the Security section do not overlap, 2FA is never on with
\* a secret the owner has not proved to have (routers/auth.py:225-300).
THEOREM NobodyIsLockedOut ==
    ASSUME ~Overlap
    PROVE  Spec => []OwnerHasTheSecret
  <1>1. Serial => OwnerHasTheSecret
    BY DEF Serial
  <1> QED BY SerialInvariance, <1>1, PTL
=============================================================================
