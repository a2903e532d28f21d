----------------------------- MODULE LoginPage -----------------------------
(* pages/LoginPage.tsx with the server's captchas.  A user signs in with a  *)
(* password and the digits of an image, or with a passkey.  The form may    *)
(* have one call of each kind out; when one has signed the user in, the     *)
(* other is still on its way, and so it is when he signs out and the page   *)
(* is mounted anew.  The passkey ceremony itself is in Passkey.             *)
EXTENDS WebPage

CONSTANTS
    Names,          \* usernames typed
    Captchas,       \* identities of captchas; more than can be held at a time
    MaxMounts,      \* bound: how often the page is mounted
    MaxFailures     \* bound: answers lost, restarts

ASSUME NamesAssumption == Names # {}

VARIABLES
    form,           \* the state of the page; a name is typed from the start
    image,          \* the captcha shown
    imageAsked,     \* whether a request for an image is on its way
    captchas,       \* the captchas the server can still verify
    signIns,        \* the calls that are out
    mount,          \* how often the page has been mounted
    signedAs,       \* the name of the tab's session; Null shows the page
    failures,
    hasty       \* history: a form was sent while a new image was on its way

loginVars == <<form, image, imageAsked, captchas, signIns, mount, signedAs, failures, hasty>>

\* What was typed for the digits, seen from the image shown.
Codes == {"blank", "right", "wrong"}
Blank(name) ==
    [mode |-> "password", name |-> name, code |-> "blank", busy |-> FALSE, passkeyBusy |-> FALSE]
Kinds == {"password", "passkey"}

\* A call: whether its form is still shown, what it carries, and its answer.
SignInCall ==
    [kind : Kinds, shown : BOOLEAN, name : Names, captcha : Captchas \cup {Null},
     right : BOOLEAN, password : BOOLEAN, answer : {Null, "ok", "refused"}]

LoginTypeOK ==
    /\ form \in [mode : Kinds, name : Names, code : Codes, busy : BOOLEAN, passkeyBusy : BOOLEAN]
    /\ image \in Captchas \cup {Null}
    /\ imageAsked \in BOOLEAN
    /\ captchas \subseteq Captchas
    /\ signIns \subseteq SignInCall
    /\ mount \in 1..MaxMounts
    /\ signedAs \in Names \cup {Null}
    /\ failures \in 0..MaxFailures
    /\ hasty \in BOOLEAN

LoginMount ==
    /\ form = Blank(CHOOSE name \in Names : TRUE)
    /\ image = Null
    /\ imageAsked = TRUE
    /\ captchas = {}
    /\ signIns = {}
    /\ mount = 1
    /\ signedAs = Null
    /\ failures = 0
    /\ hasty = FALSE

\* The page is shown while the tab has no token.
OnLogin == signedAs = Null
Failure == failures < MaxFailures /\ failures' = failures + 1

-----------------------------------------------------------------------------
\* The two tabs of the form.
setLoginMode(mode) ==
    /\ OnLogin
    /\ mode # form.mode
    /\ form' = [form EXCEPT !.mode = mode]
    /\ UNCHANGED <<image, imageAsked, captchas, signIns, mount, signedAs, failures, hasty>>

NameAlwaysOpen(name) ==                                        \* wrong variant
    /\ OnLogin
    /\ ~form.busy
    /\ form' = [form EXCEPT !.name = name]
    /\ UNCHANGED <<image, imageAsked, captchas, signIns, mount, signedAs, failures, hasty>>

\* The field is disabled while a call of the form is out.
setUsername(name) ==
    /\ OnLogin
    /\ ~form.busy /\ ~form.passkeyBusy
    /\ form' = [form EXCEPT !.name = name]
    /\ UNCHANGED <<image, imageAsked, captchas, signIns, mount, signedAs, failures, hasty>>

setCaptchaCode(code) ==
    /\ OnLogin
    /\ form.mode = "password" /\ ~form.busy /\ image # Null
    /\ form' = [form EXCEPT !.code = code]
    /\ UNCHANGED <<image, imageAsked, captchas, signIns, mount, signedAs, failures, hasty>>

\* The image is a button: the digits typed are forgotten and another image is
\* asked for; the request before is not waited for any more.
refreshCaptcha ==
    /\ OnLogin
    /\ form.mode = "password" /\ ~form.busy
    /\ image # Null \/ ~imageAsked
    /\ form' = [form EXCEPT !.code = "blank"]
    /\ imageAsked' = TRUE
    /\ UNCHANGED <<image, captchas, signIns, mount, signedAs, failures, hasty>>

\* Nothing is sent before an image is there and its digits are typed.
onSubmit(password) ==
    /\ OnLogin
    /\ form.mode = "password" /\ ~form.busy
    /\ image # Null /\ form.code # "blank"
    /\ form' = [form EXCEPT !.busy = TRUE]
    /\ signIns' = signIns \cup
         {[kind |-> "password", shown |-> TRUE, name |-> form.name, captcha |-> image,
           right |-> form.code = "right", password |-> password, answer |-> Null]}
    /\ hasty' = (hasty \/ imageAsked)
    /\ UNCHANGED <<image, imageAsked, captchas, mount, signedAs, failures>>

goPasskey ==
    /\ OnLogin
    /\ form.mode = "passkey" /\ ~form.busy /\ ~form.passkeyBusy
    /\ form' = [form EXCEPT !.passkeyBusy = TRUE]
    /\ signIns' = signIns \cup
         {[kind |-> "passkey", shown |-> TRUE, name |-> form.name, captcha |-> Null,
           right |-> TRUE, password |-> TRUE, answer |-> Null]}
    /\ UNCHANGED <<image, imageAsked, captchas, mount, signedAs, failures, hasty>>

-----------------------------------------------------------------------------
\* Verify of the captchas: a match uses the captcha up; what a mismatch does
\* to it is left to the store.
Matches(call) == call.right /\ call.captcha \in captchas
Verify(call) ==
    /\ captchas' \in IF Matches(call) THEN {captchas \ {call.captcha}}
                     ELSE {captchas, captchas \ {call.captcha}}

\* The handler of POST /auth/login: the captcha, then the password.
Login(call) ==
    /\ call.kind = "password" /\ call.answer = Null
    /\ Verify(call)
    /\ signIns' = (signIns \ {call}) \cup
         {[call EXCEPT !.answer = IF Matches(call) /\ call.password THEN "ok" ELSE "refused",
                       !.captcha = Null, !.right = FALSE, !.password = FALSE]}
    /\ UNCHANGED <<form, image, imageAsked, mount, signedAs, failures, hasty>>

\* login and loginWithPasskey keep the token and the user they were given;
\* the page is left, and its state with it.
SignInArrives(call) ==
    /\ call.answer = "ok" \/ call.kind = "passkey"
    /\ signedAs' = call.name
    /\ form' = Blank(call.name)
    /\ signIns' = {[c EXCEPT !.shown = FALSE] : c \in signIns \ {call}}
    /\ UNCHANGED <<image, imageAsked, captchas, mount, failures, hasty>>

\* The catch and the finally of onSubmit and goPasskey: the flag ends, after a
\* password the digits are forgotten and another image is asked for, when the
\* page is there to show it.
Settled(call) ==
    IF ~call.shown THEN form
    ELSE IF call.kind = "passkey" THEN [form EXCEPT !.passkeyBusy = FALSE]
    ELSE [form EXCEPT !.busy = FALSE, !.code = "blank"]
NoOtherImage(call) ==                                          \* wrong variant
    /\ form' = Settled(call)
    /\ signIns' = signIns \ {call}
    /\ UNCHANGED <<image, imageAsked, captchas, mount, signedAs>>
Refused(call) ==
    /\ form' = Settled(call)
    /\ signIns' = signIns \ {call}
    /\ imageAsked' = (imageAsked \/ (call.kind = "password" /\ signedAs = Null))
    /\ UNCHANGED <<image, captchas, mount, signedAs>>

SignInFails(call) ==
    /\ call.answer = "refused" \/ call.kind = "passkey"
    /\ Refused(call)
    /\ UNCHANGED <<failures, hasty>>

\* The answer, or the call, is lost.
SignInLost(call) ==
    /\ call.kind = "password"
    /\ Failure
    /\ Refused(call)
    /\ UNCHANGED hasty

\* GET /auth/captcha: Generate, and the image is shown.
HeldCaptchas == {image} \cup {call.captcha : call \in signIns}
Captcha ==
    /\ imageAsked
    /\ image' = CHOOSE c \in Captchas : c \notin HeldCaptchas
    /\ imageAsked' = FALSE
    /\ captchas' = (captchas \cap {call.captcha : call \in signIns}) \cup {image'}
    /\ form' = [form EXCEPT !.code = IF @ = "right" THEN "wrong" ELSE @]
    /\ UNCHANGED <<signIns, mount, signedAs, failures, hasty>>

\* The request fails, and is not tried again; the image before stays.
CaptchaLost ==
    /\ imageAsked
    /\ Failure
    /\ imageAsked' = FALSE
    /\ UNCHANGED <<form, image, captchas, signIns, mount, signedAs, hasty>>

\* The server is restarted: it has its captchas in memory.
Restart ==
    /\ Failure
    /\ captchas' = {}
    /\ UNCHANGED <<form, image, imageAsked, signIns, mount, signedAs, hasty>>

\* The user signs out, and the page is mounted again; the image is still in
\* the cache, and another is asked for.
SignedOut ==
    /\ signedAs # Null
    /\ mount < MaxMounts
    /\ mount' = mount + 1
    /\ signedAs' = Null
    /\ form' = Blank(CHOOSE name \in Names : TRUE)
    /\ imageAsked' = TRUE
    /\ UNCHANGED <<image, captchas, signIns, failures, hasty>>

LoginNext ==
    \/ \E mode \in Kinds : setLoginMode(mode)
    \/ \E name \in Names : setUsername(name)
    \/ \E code \in Codes : setCaptchaCode(code)
    \/ \E password \in BOOLEAN : onSubmit(password)
    \/ refreshCaptcha \/ goPasskey
    \/ \E call \in signIns :
          Login(call) \/ SignInArrives(call) \/ SignInFails(call) \/ SignInLost(call)
    \/ Captcha \/ CaptchaLost \/ Restart \/ SignedOut

LoginSpec == LoginMount /\ [][LoginNext]_loginVars

\* The server answers, and the user goes on: he loads an image where there is
\* none, waits for the one he has asked for, and tries it with his password.
LoginFairness ==
    /\ WF_loginVars(Captcha)
    /\ WF_loginVars(\E call \in signIns : Login(call))
    /\ WF_loginVars(\E call \in signIns :
                        call.kind = "password" /\ (SignInArrives(call) \/ SignInFails(call)))
    /\ SF_loginVars(setLoginMode("password"))
    /\ SF_loginVars(image = Null /\ refreshCaptcha)
    /\ SF_loginVars(~imageAsked /\ setCaptchaCode("right"))
    /\ SF_loginVars(~imageAsked /\ form.code = "right" /\ onSubmit(TRUE))

-----------------------------------------------------------------------------
\* Whichever of the calls of a form is answered, and however late, it signs in
\* the user whose name the form shows: the field is disabled while one of them
\* is out (LoginPage.tsx:290).
NameOfTheForm == \A call \in signIns : call.shown => signedAs = Null /\ call.name = form.name

\* No captcha that is used up, lost with the server's memory or never answered
\* locks a user out: if he goes on, and never sends the form while a new image
\* is on its way, he is signed in.  A failure brings another image
\* (LoginPage.tsx:257-262).
GetsIn == signedAs = Null ~> signedAs # Null \/ hasty

\* The form waits only while a call of it is out, also after one that has
\* thrown.
LoginWaits ==
    /\ form.busy => \E call \in signIns : call.shown /\ call.kind = "password"
    /\ form.passkeyBusy => \E call \in signIns : call.shown /\ call.kind = "passkey"
=============================================================================
