------------------------------ MODULE Session ------------------------------
(***************************************************************************)
(* Claiming an instance, signing in and staying signed in: the login and   *)
(* setup pages, the Security section, the Next middleware that routes by   *)
(* the presence of a cookie, and the backend that alone knows whether the  *)
(* cookie is valid (routers/auth.py, routers/setup.py).                    *)
(*                                                                         *)
(* Each browser has one page and at most one request in flight, and every  *)
(* request of the backend is split where it awaits between what it read    *)
(* and what it writes.  The owner uses all browsers, knows the password    *)
(* and has an authenticator for every enrollment that was typed in.  A     *)
(* cookie is the epoch it was issued at.                                   *)
(***************************************************************************)
EXTENDS Integers, FiniteSets

CONSTANTS Browsers,
          Overlap,      \* requests of the Security section may overlap
          Threshold,    \* LOCKOUT_THRESHOLD
          MaxChanges,   \* bound: changes of the password
          MaxSecrets,   \* bound: enrollments
          MaxFaults     \* bound: lost calls, typing errors, restarts, dead cookies

ASSUME SessionAssumption ==
    /\ Overlap \in BOOLEAN
    /\ Threshold \in Nat \ {0}
    /\ {MaxChanges, MaxSecrets, MaxFaults} \subseteq Nat

VARIABLES demo,        \* demo_mode
          password,    \* the claim whose password is stored; {}: unclaimed
          epoch,       \* user_setting token_epoch
          cached,      \* app.state.token_epoch
          totp,        \* user_setting totp_secret and totp_enabled
          made,        \* secrets generated so far
          scanned,     \* secrets in the owner's authenticator
          strikes,     \* LoginThrottle.failed_attempts of each address
          locked,      \* addresses with a lockout
          faults,
          page, cookie,
          req,         \* request in flight
          bumped,      \* new_epoch of a change of password in flight
          refused,     \* the login page shows an error
          enrollment,  \* secret on the screen; 0: none
          status       \* cached answer of GET /api/auth/2fa

server == <<demo, password, epoch, cached, totp, made, scanned>>
throttle == <<strikes, locked>>
section == <<enrollment, status, bumped>>
vars == <<server, throttle, faults, page, cookie, req, refused, section>>

NoCookie == -1
DeadCookie == -2

Init ==
    /\ demo \in BOOLEAN
    /\ password = IF demo THEN {"boot"} ELSE {}
    /\ epoch = 0
    /\ cached = 0
    /\ totp = [secret |-> 0, on |-> FALSE]
    /\ made = 0
    /\ scanned = {}
    /\ strikes = [b \in Browsers |-> 0]
    /\ locked = {}
    /\ faults = 0
    /\ page = [b \in Browsers |-> "toTrack"]
    /\ cookie = [b \in Browsers |-> NoCookie]
    /\ req = [b \in Browsers |-> "none"]
    /\ refused = {}
    /\ enrollment = [b \in Browsers |-> 0]
    /\ status = [b \in Browsers |-> FALSE]
    /\ bumped = [b \in Browsers |-> 0]

Claimed == password # {}

\* validate_session_token: the claim equals the cached epoch.
Valid(b) == cookie[b] = cached

\* The code form holds the pre-auth token; "expired": a token past its TTL.
CodeForms == {"code", "expired"}
LoginForms == {"login"} \cup CodeForms

Goto(b, p) == page' = [page EXCEPT ![b] = p]
Send(b, r) == req' = [req EXCEPT ![b] = r]
Done(b) == Send(b, "none")
Fault == faults < MaxFaults /\ faults' = faults + 1

-----------------------------------------------------------------------------
(***************************************************************************)
(* middleware.ts: one hop of a navigation.                                 *)
(***************************************************************************)

\* fetchClaimed: null when the status cannot be determined.
Seen(s) ==
    \/ s = (IF Claimed THEN "claimed" ELSE "unclaimed") /\ UNCHANGED faults
    \/ s = "unknown" /\ Fault

\* isClaimedStrict: fail open toward the wizard.
RouteSetup(b) ==
    /\ page[b] = "toSetup"
    /\ \E s \in {"claimed", "unclaimed", "unknown"} :
        Seen(s) /\ Goto(b, IF s = "claimed" THEN "toLogin" ELSE "setup")
    /\ UNCHANGED cookie

\* A cookie, valid or not, bounces to /track; demo mode mints a session.
RouteLogin(b) ==
    /\ page[b] = "toLogin"
    /\ \/ /\ cookie[b] # NoCookie
          /\ Goto(b, "toTrack")
          /\ UNCHANGED <<cookie, faults>>
       \/ /\ cookie[b] = NoCookie
          /\ demo
          /\ Goto(b, "toTrack")
          /\ cookie' = [cookie EXCEPT ![b] = 0]
          /\ UNCHANGED faults
       \/ /\ cookie[b] = NoCookie
          /\ demo => Fault
          /\ ~demo => UNCHANGED faults
          /\ Goto(b, "login")
          /\ UNCHANGED cookie

\* isClaimedOrUnknown: an unknown status goes to the login form.
RouteApp(b) ==
    /\ page[b] = "toTrack"
    /\ \/ /\ cookie[b] # NoCookie
          /\ Goto(b, "track")
          /\ UNCHANGED faults
       \/ /\ cookie[b] = NoCookie
          /\ \E s \in {"claimed", "unclaimed", "unknown"} :
              Seen(s) /\ Goto(b, IF s = "unclaimed" THEN "toSetup" ELSE "toLogin")
    /\ UNCHANGED cookie

Arrive(b) ==
    /\ req[b] = "none"
    /\ RouteSetup(b) \/ RouteLogin(b) \/ RouteApp(b)
    /\ UNCHANGED <<server, throttle, req, refused, section>>

-----------------------------------------------------------------------------
(***************************************************************************)
(* First run: two visitors may both see the wizard.                        *)
(***************************************************************************)

\* "Set password" in the wizard.
SubmitClaim(b) ==
    /\ page[b] = "setup"
    /\ req[b] = "none"
    /\ Send(b, "claim")
    /\ UNCHANGED <<server, throttle, faults, page, cookie, refused, section>>

\* 409: "redirecting to sign in".
ClaimRefused(b) ==
    /\ Done(b)
    /\ Goto(b, "toLogin")
    /\ UNCHANGED <<server, throttle, faults, cookie, refused, section>>

\* The fast path of claim().
CheckClaim(b) ==
    /\ req[b] = "claim"
    /\ IF Claimed THEN ClaimRefused(b)
       ELSE /\ Send(b, "gate")
            /\ UNCHANGED <<server, throttle, faults, page, cookie, refused, section>>

\* Mutant of GateOpen: the early check is trusted.
GateChecked == TRUE

\* INSERT ... ON CONFLICT DO NOTHING of setup_complete inserted a row.
GateOpen == ~Claimed

\* The claim is committed; its answer, or the one of GET /api/keys after it,
\* may be lost, and then the form is shown again.
PassGate(b) ==
    /\ req[b] = "gate"
    /\ IF ~GateOpen THEN ClaimRefused(b)
       ELSE /\ password' = password \cup {b}
            /\ Done(b)
            /\ \/ /\ cookie' = [cookie EXCEPT ![b] = epoch]
                  /\ \E p \in {"wizard", "toTrack"} : Goto(b, p)
                  /\ UNCHANGED faults
               \/ /\ Fault
                  /\ \E c \in {NoCookie, epoch} : cookie' = [cookie EXCEPT ![b] = c]
                  /\ UNCHANGED page
            /\ UNCHANGED <<demo, epoch, cached, totp, made, scanned, throttle, refused,
                           section>>

\* The last step of the wizard, or "Skip all and finish".
FinishWizard(b) ==
    /\ page[b] = "wizard"
    /\ Goto(b, "toTrack")
    /\ UNCHANGED <<server, throttle, faults, cookie, req, refused, section>>

-----------------------------------------------------------------------------
(***************************************************************************)
(* Signing in.                                                             *)
(***************************************************************************)

Refuse(b) ==
    /\ Done(b)
    /\ refused' = refused \cup {b}
    /\ UNCHANGED <<server, page, cookie, section>>

\* LoginThrottle.record_failure, counted up to the threshold
Strike(b) ==
    /\ strikes' = [strikes EXCEPT ![b] = IF @ < Threshold THEN @ + 1 ELSE @]
    /\ locked' = IF strikes[b] + 1 >= Threshold THEN locked \cup {b} ELSE locked

\* The cooldown has passed.
Unlock(b) ==
    /\ b \in locked
    /\ locked' = locked \ {b}
    /\ UNCHANGED <<server, strikes, faults, page, cookie, req, refused, section>>

\* A form that shows an error is submitted again: setSubmitError(null).
SubmitPassword(b) ==
    /\ page[b] = "login"
    /\ req[b] = "none"
    /\ Send(b, "login")
    /\ refused' = refused \ {b}
    /\ UNCHANGED <<server, throttle, faults, page, cookie, section>>

\* login() up to the epoch: 429, 401, a pre-auth token or the way to a cookie.
CheckPassword(b) ==
    /\ req[b] = "login"
    /\ \/ /\ b \in locked
          /\ Refuse(b)
          /\ UNCHANGED <<faults, throttle>>
       \/ /\ b \notin locked
          /\ Claimed => Fault
          /\ ~Claimed => UNCHANGED faults
          /\ Strike(b)
          /\ Refuse(b)
       \/ /\ b \notin locked
          /\ Claimed
          /\ totp.on
          /\ Done(b)
          /\ Goto(b, "code")
          /\ UNCHANGED <<server, throttle, faults, cookie, refused, section>>
       \/ /\ b \notin locked
          /\ Claimed
          /\ ~totp.on
          /\ Send(b, "issue")
          /\ UNCHANGED <<server, throttle, faults, page, cookie, refused, section>>

\* The login is complete: the streak is forgotten and redirectAfterLogin.
IssueCookie(b) ==
    /\ req[b] = "issue"
    /\ strikes' = [strikes EXCEPT ![b] = 0]
    /\ cookie' = [cookie EXCEPT ![b] = epoch]
    /\ Done(b)
    /\ Goto(b, "toTrack")
    /\ UNCHANGED <<server, locked, faults, refused, section>>

\* _PRE_AUTH_TTL_SECONDS pass on the code form, before a submission is checked.
PreAuthDies(b) ==
    /\ page[b] = "code"
    /\ req[b] # "issue"
    /\ Fault
    /\ Goto(b, "expired")
    /\ UNCHANGED <<server, throttle, cookie, req, refused, section>>

\* The form keeps its token: every submission sends the same one.
SubmitCode(b) ==
    /\ page[b] \in CodeForms
    /\ req[b] = "none"
    /\ Send(b, "code")
    /\ refused' = refused \ {b}
    /\ UNCHANGED <<server, throttle, faults, page, cookie, section>>

\* login_2fa(): a dead pre-auth token, a secret that was cleared or replaced
\* by a pending one meanwhile, and a mistyped code all get the same 401.
CheckCode(b) ==
    /\ req[b] = "code"
    /\ LET known == page[b] = "code" /\ totp.secret \in scanned
       IN  \/ /\ b \in locked
              /\ Refuse(b)
              /\ UNCHANGED <<faults, throttle>>
           \/ /\ b \notin locked
              /\ known => Fault
              /\ ~known => UNCHANGED faults
              /\ Strike(b)
              /\ Refuse(b)
           \/ /\ b \notin locked
              /\ known
              /\ Send(b, "issue")
              /\ UNCHANGED <<server, throttle, faults, page, cookie, refused, section>>

\* Neither form has a way back: only the owner's reload of a page that shows an
\* error forgets the pre-auth token, which is in the state of the page.
Reload(b) ==
    /\ page[b] \in LoginForms
    /\ b \in refused
    /\ req[b] = "none"
    /\ Goto(b, "toTrack")
    /\ refused' = refused \ {b}
    /\ UNCHANGED <<server, throttle, faults, cookie, req, section>>

-----------------------------------------------------------------------------
(***************************************************************************)
(* Losing a session.                                                       *)
(***************************************************************************)

Inside(b) == page[b] \in {"track", "security"}

\* What the section showed is gone: it is read again when it is opened.
LeavePage(b) ==
    /\ Goto(b, "toLogin")
    /\ enrollment' = [enrollment EXCEPT ![b] = 0]
    /\ status' = [status EXCEPT ![b] = FALSE]

\* Requests the session check would refuse; their page need not wait for them.
Refusable == {"none", "change", "enroll", "confirm", "disable"}

\* handleSessionExpired without its logout.
ExpireWithoutLogout(b) ==
    /\ Inside(b)
    /\ req[b] \in Refusable
    /\ ~Valid(b)
    /\ LeavePage(b)
    /\ Done(b)
    /\ UNCHANGED <<server, throttle, bumped, refused, cookie, faults>>

\* The first 401 of a page outside /api/auth/: logout, which may fail, and a
\* full navigation, after which the page's inFlight guard is gone.
Expire(b) ==
    /\ Inside(b)
    /\ req[b] \in Refusable
    /\ ~Valid(b)
    /\ LeavePage(b)
    /\ Done(b)
    /\ \/ cookie' = [cookie EXCEPT ![b] = NoCookie] /\ UNCHANGED faults
       \/ Fault /\ UNCHANGED cookie
    /\ UNCHANGED <<server, throttle, bumped, refused>>

\* LogoutButton: the page is left whether or not the call went through.
Logout(b) ==
    /\ Inside(b)
    /\ req[b] = "none"
    /\ LeavePage(b)
    /\ \/ cookie' = [cookie EXCEPT ![b] = NoCookie] /\ UNCHANGED faults
       \/ Fault /\ UNCHANGED cookie
    /\ UNCHANGED <<server, throttle, bumped, req, refused>>

\* The token runs out before the cookie does.
CookieDies(b) ==
    /\ cookie[b] >= 0
    /\ Fault
    /\ cookie' = [cookie EXCEPT ![b] = DeadCookie]
    /\ UNCHANGED <<server, throttle, page, req, refused, section>>

\* Everything in memory is new; requests in flight fail.
Boot(loaded) ==
    /\ Fault
    /\ cached' = loaded
    /\ strikes' = [b \in Browsers |-> 0]
    /\ locked' = {}
    /\ refused' = refused \cup {b \in Browsers : req[b] # "none" /\ page[b] \in LoginForms}
    /\ req' = [b \in Browsers |-> "none"]
    /\ bumped' = [b \in Browsers |-> 0]
    /\ UNCHANGED <<demo, password, epoch, totp, made, scanned, page, cookie,
                   enrollment, status>>

\* Mutant of Restart: a missing epoch row is not read as 0.
RestartUnread == Boot(IF epoch = 0 THEN NoCookie ELSE epoch)

\* Mutant of Restart: the epoch is not loaded.
RestartAtZero == Boot(0)

\* lifespan
Restart == Boot(epoch)

-----------------------------------------------------------------------------
(***************************************************************************)
(* The Security section.                                                   *)
(***************************************************************************)

SectionRequests == {"change", "bumped", "enroll", "enrollWrite", "confirm",
                    "confirmWrite", "disable"}

\* forbid_in_demo; with ~Overlap the owner waits for the other browser.
MaySend(b) ==
    /\ page[b] = "security"
    /\ req[b] = "none"
    /\ ~demo
    /\ Overlap \/ \A c \in Browsers : req[c] \notin SectionRequests

\* A 401 of /api/auth/ is shown in the form: "Current password is incorrect".
InlineRefusal(b) ==
    /\ Done(b)
    /\ UNCHANGED <<server, throttle, faults, page, cookie, refused, section>>

\* Opening the section reads the 2FA status.
OpenSecurity(b) ==
    /\ page[b] = "track"
    /\ Goto(b, "security")
    /\ status' = [status EXCEPT ![b] = totp.on]
    /\ UNCHANGED <<server, throttle, faults, cookie, req, refused, enrollment, bumped>>

SubmitChange(b) ==
    /\ MaySend(b)
    /\ epoch < MaxChanges
    /\ Send(b, "change")
    /\ UNCHANGED <<server, throttle, faults, page, cookie, refused, section>>

\* change_password() up to its commit: the hash and the epoch together.
CommitChange(b) ==
    /\ req[b] = "change"
    /\ \/ ~Valid(b) /\ InlineRefusal(b)
       \/ /\ Valid(b)
          /\ epoch < MaxChanges
          /\ epoch' = epoch + 1
          /\ bumped' = [bumped EXCEPT ![b] = epoch + 1]
          /\ Send(b, "bumped")
          /\ UNCHANGED <<demo, password, cached, totp, made, scanned, throttle,
                         faults, page, cookie, refused, enrollment, status>>

\* "Keep the middleware's cached epoch coherent": the epoch of this request.
PublishEpoch(b) ==
    /\ req[b] = "bumped"
    /\ cached' = bumped[b]
    /\ cookie' = [cookie EXCEPT ![b] = bumped[b]]
    /\ bumped' = [bumped EXCEPT ![b] = 0]
    /\ Done(b)
    /\ UNCHANGED <<demo, password, epoch, totp, made, scanned, throttle, faults,
                   page, refused, enrollment, status>>

\* "Enable" starts an enrollment.
StartEnrollment(b) ==
    /\ MaySend(b)
    /\ ~status[b]
    /\ enrollment[b] = 0
    /\ Send(b, "enroll")
    /\ UNCHANGED <<server, throttle, faults, page, cookie, refused, section>>

\* twofa_setup() refuses while 2FA is on.
CheckEnrollment(b) ==
    /\ req[b] = "enroll"
    /\ \/ (totp.on \/ ~Valid(b)) /\ InlineRefusal(b)
       \/ /\ Valid(b) /\ ~totp.on
          /\ made < MaxSecrets
          /\ Send(b, "enrollWrite")
          /\ UNCHANGED <<server, throttle, faults, page, cookie, refused, section>>
       \/ made = MaxSecrets /\ InlineRefusal(b)

\* A fresh secret replaces any pending one.
WriteEnrollment(b) ==
    /\ req[b] = "enrollWrite"
    /\ made < MaxSecrets
    /\ made' = made + 1
    /\ totp' = [secret |-> made + 1, on |-> FALSE]
    /\ enrollment' = [enrollment EXCEPT ![b] = made + 1]
    /\ Done(b)
    /\ UNCHANGED <<demo, password, epoch, cached, scanned, throttle, faults, page,
                   cookie, refused, status, bumped>>

CancelEnrollment(b) ==
    /\ page[b] = "security"
    /\ req[b] = "none"
    /\ enrollment[b] # 0
    /\ enrollment' = [enrollment EXCEPT ![b] = 0]
    /\ UNCHANGED <<server, throttle, faults, page, cookie, req, refused, status, bumped>>

\* The code typed is one of the secret on this screen.
SubmitEnrollmentCode(b) ==
    /\ MaySend(b)
    /\ enrollment[b] # 0
    /\ scanned' = scanned \cup {enrollment[b]}
    /\ Send(b, "confirm")
    /\ UNCHANGED <<demo, password, epoch, cached, totp, made, throttle, faults, page,
                   cookie, refused, section>>

\* Mutant of CodeMatches: a code of any enrollment will do.
CodeOfAnySecret(b) == totp.secret # 0

\* verify_code with the stored secret.
CodeMatches(b) == totp.secret = enrollment[b]

CheckEnrollmentCode(b) ==
    /\ req[b] = "confirm"
    /\ IF Valid(b) /\ CodeMatches(b)
       THEN /\ Send(b, "confirmWrite")
            /\ UNCHANGED <<server, throttle, faults, page, cookie, refused, section>>
       ELSE InlineRefusal(b)

SwitchOn(b) ==
    /\ req[b] = "confirmWrite"
    /\ totp' = [totp EXCEPT !.on = TRUE]
    /\ status' = [status EXCEPT ![b] = TRUE]
    /\ enrollment' = [enrollment EXCEPT ![b] = 0]
    /\ Done(b)
    /\ UNCHANGED <<demo, password, epoch, cached, made, scanned, throttle, faults,
                   page, cookie, refused, bumped>>

SubmitDisable(b) ==
    /\ MaySend(b)
    /\ status[b]
    /\ Send(b, "disable")
    /\ UNCHANGED <<server, throttle, faults, page, cookie, refused, section>>

\* twofa_disable(): secret and switch together.
SwitchOff(b) ==
    /\ req[b] = "disable"
    /\ \/ ~Valid(b) /\ InlineRefusal(b)
       \/ /\ Valid(b)
          /\ totp' = [secret |-> 0, on |-> FALSE]
          /\ status' = [status EXCEPT ![b] = FALSE]
          /\ Done(b)
          /\ UNCHANGED <<demo, password, epoch, cached, made, scanned, throttle,
                         faults, page, cookie, refused, enrollment, bumped>>

-----------------------------------------------------------------------------

\* What the backend does with a request it has.
Serve(b) ==
    \/ CheckClaim(b) \/ PassGate(b)
    \/ CheckPassword(b) \/ IssueCookie(b) \/ CheckCode(b)
    \/ CommitChange(b) \/ PublishEpoch(b)
    \/ CheckEnrollment(b) \/ WriteEnrollment(b)
    \/ CheckEnrollmentCode(b) \/ SwitchOn(b) \/ SwitchOff(b)

\* What the owner does to get in.
SignIn(b) ==
    \/ SubmitClaim(b) \/ FinishWizard(b)
    \/ SubmitPassword(b) \/ SubmitCode(b)

ManageSecurity(b) ==
    \/ OpenSecurity(b) \/ SubmitChange(b)
    \/ StartEnrollment(b) \/ CancelEnrollment(b) \/ SubmitEnrollmentCode(b)
    \/ SubmitDisable(b)

Next ==
    \/ \E b \in Browsers :
        \/ Arrive(b) \/ Serve(b) \/ SignIn(b) \/ Reload(b) \/ ManageSecurity(b)
        \/ Unlock(b) \/ Expire(b) \/ Logout(b) \/ CookieDies(b) \/ PreAuthDies(b)
    \/ Restart

\* Pages load, requests are answered, cooldowns end and the owner goes on.  The
\* page does not ask for a reload; that an owner who is refused again and again
\* reloads it at last is assumed of the owner, and only that: strong fairness,
\* because each new submission hides the error for a while.
Fairness ==
    \A b \in Browsers :
        /\ WF_vars(Arrive(b)) /\ WF_vars(Serve(b)) /\ WF_vars(SignIn(b))
        /\ WF_vars(Unlock(b)) /\ WF_vars(Expire(b)) /\ SF_vars(Reload(b))

Spec == Init /\ [][Next]_vars /\ Fairness

-----------------------------------------------------------------------------

Pages == {"toTrack", "toLogin", "toSetup", "setup", "wizard", "track",
          "security"} \cup LoginForms

Requests == {"none", "claim", "gate", "login", "issue", "code"} \cup SectionRequests

\* Type invariant.
TypeOK ==
    /\ demo \in BOOLEAN
    /\ password \subseteq Browsers \cup {"boot"}
    /\ epoch \in 0..MaxChanges /\ cached \in 0..MaxChanges
    /\ totp \in [secret : 0..MaxSecrets, on : BOOLEAN]
    /\ made \in 0..MaxSecrets /\ scanned \subseteq 1..MaxSecrets
    /\ strikes \in [Browsers -> 0..Threshold] /\ locked \subseteq Browsers
    /\ faults \in 0..MaxFaults
    /\ page \in [Browsers -> Pages]
    /\ cookie \in [Browsers -> {DeadCookie, NoCookie} \cup 0..MaxChanges]
    /\ req \in [Browsers -> Requests] /\ bumped \in [Browsers -> 0..MaxChanges]
    /\ refused \subseteq Browsers
    /\ enrollment \in [Browsers -> 0..MaxSecrets] /\ status \in [Browsers -> BOOLEAN]

\* "the winner's password hash is never overwritten" (routers/setup.py:52): of
\* the visitors who all passed the early check, one sets the password.
OneClaimWins == Cardinality(password) <= 1

\* "Keep the middleware's cached epoch coherent without a process restart"
\* (routers/auth.py:183): at rest, a new login is valid, whatever restarted.
\* Checked with ~Overlap: the requests of the Security section one at a time,
\* which the code leaves to the owner.
EpochsAgree ==
    (\A b \in Browsers : req[b] # "bumped") => cached = epoch

\* 2FA is on only with a secret the owner has typed a code of: two browsers
\* enrolling, a disable or a restart in between never lock the owner out.
\* Checked with ~Overlap too: the enrollments of the two browsers take turns
\* request by request, and none slips between another's check and its write.
OwnerHasTheSecret == totp.on => totp.secret \in scanned

\* Every browser gets in again and again: past lost calls, dead cookies the
\* middleware takes for sessions, lost claims, lockouts and password changes in
\* other browsers.  A code form whose pre-auth token died, or whose secret was
\* disabled or replaced in another browser, is refused for ever ("the retry just
\* 401s again", login/page.tsx:107) and strikes each time: the owner gets in
\* there once the page is reloaded, and the strikes and the lockout they left
\* do not stand in the way.
GetsIn == \A b \in Browsers : []<>(Inside(b) /\ Valid(b))
=============================================================================
