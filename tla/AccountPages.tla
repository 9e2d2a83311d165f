---------------------------- MODULE AccountPages ----------------------------
(***************************************************************************)
(* The sign-up and the login page of the web client (signup.js, login.js), *)
(* the requests they make (backend.js), and of the server who is           *)
(* registered.  One person uses one browser; an authenticator app gives    *)
(* that person the codes of the keys that were scanned.                    *)
(*                                                                         *)
(* The fields of a form are one value: the name, when every field holds    *)
(* what the page accepts and the password is confirmed, and else Blank.    *)
(* That a password is wrong is one reason of the server to refuse a login. *)
(* A registration draws a new key.  The i-th digit of the code of key k is *)
(* <<k, i>>; codes do not run out here.  The pop-ups cover little of the   *)
(* page, so the fields stay in reach.                                      *)
(***************************************************************************)
EXTENDS Naturals, Sequences

CONSTANTS
  Name, Blank,
  CodeLen,     \* digits of a code, 6 in the program
  MaxKey,      \* bound: registrations
  MaxRequest,  \* bound: requests under way
  MaxMishap    \* bound: losses of the network, and pages left while something
               \* is under way

ASSUME BlankAssumption == Blank \notin Name
ASSUME NumberAssumption ==
  CodeLen \in Nat \ {0} /\ MaxKey \in Nat /\ MaxRequest \in Nat /\ MaxMishap \in Nat

VARIABLES
  page,      \* the page that is open
  form,      \* its fields
  totp,      \* the digits in the pop-up of the login page
  totpOpen,  \* is that pop-up shown?
  qr,        \* the key that the pop-up of the sign-up page shows, or NoKey
  error,     \* is the message of the page shown?
  net,       \* net[s]: the s-th request of the browser
  accounts,  \* server: the registered users
  nextKey,   \* server: the key drawn next
  session,   \* the key of the user whose session the browser holds, or NoKey
  scanned,   \* the keys in the authenticator app
  excused,   \* keys the person or the network made away with (history)
  mishaps    \* how many of those that MaxMishap bounds

popups == <<totp, totpOpen, qr>>
server == <<accounts, nextKey>>
vars   == <<page, form, popups, error, net, server, session, scanned, excused, mishaps>>

NoKey == 0
Key   == 1..MaxKey
Slot  == 1..MaxRequest
Digit == Key \X (1..CodeLen)

Account == [name : Name, key : Key]

Code(k) == [i \in 1..CodeLen |-> <<k, i>>]

\* `key' is the key whose code a login gives, if it is a code, and then what the
\* answer is about; `left' is set when the page that made the request is gone.
Request ==
  [op : {"register", "login", "passkey"}, name : Name \union {Blank}, key : 0..MaxKey,
   at : {"idle", "sent", "ok", "failed"}, left : BOOLEAN]

Fetch(op, k) == [op |-> op, name |-> form, key |-> k, at |-> "sent", left |-> FALSE]

Idle    == [op |-> "login", name |-> Blank, key |-> NoKey, at |-> "idle", left |-> FALSE]
Busy(s) == net[s].at # "idle"

Send(r) ==
  \E s \in Slot :
    /\ ~Busy(s)
    /\ \A q \in 1..(s - 1) : Busy(q)
    /\ net' = [net EXCEPT ![s] = r]

Init ==
  /\ page = "signup"
  /\ form = Blank /\ totp = <<>> /\ totpOpen = FALSE /\ qr = NoKey /\ error = FALSE
  /\ net = [s \in Slot |-> Idle]
  /\ accounts = {} /\ nextKey = 1
  /\ session = NoKey /\ scanned = {} /\ excused = {} /\ mishaps = 0

\* Another page is loaded.  A request of the old one may still be served, but
\* nothing of the page is left to hear of it.
Abandoned(n) == [s \in Slot |-> IF n[s].at = "idle" THEN n[s] ELSE [n[s] EXCEPT !.left = TRUE]]

Mishap == mishaps < MaxMishap /\ mishaps' = mishaps + 1

MadeAway(k) == excused' = excused \union ({k} \ (scanned \union {NoKey}))

Blanked ==
  /\ form' = Blank /\ totp' = <<>> /\ totpOpen' = FALSE /\ qr' = NoKey /\ error' = FALSE

Load(p, n) ==
  /\ page' = p /\ Blanked
  /\ net' = Abandoned(n)
  /\ MadeAway(qr)

-----------------------------------------------------------------------------
(* What the person does on either page.                                    *)

\* A link, the address bar, or a click on the pop-up with the QR code
\* (signup.js), which leads to the login page.  Every page is served to
\* everybody (StaticEndpoint.cpp), the dashboard to who has no session, too.
Open(p) ==
  /\ IF \E s \in Slot : Busy(s) THEN Mishap ELSE UNCHANGED mishaps
  /\ Load(p, net)
  /\ UNCHANGED <<server, session, scanned>>

\* Typing into the login form hides its message.
Type(n) ==
  /\ page # "dashboard" /\ n # form
  /\ form' = n
  /\ error' = (error /\ page # "login")
  /\ UNCHANGED <<page, popups, net, server, session, scanned, excused, mishaps>>

-----------------------------------------------------------------------------
(* The sign-up page.                                                       *)

\* The fields are read and blanked before the await; a second registration can
\* be sent while the first is under way, or while its QR code is shown.
SubmitSignUp ==
  /\ page = "signup"
  /\ error' = FALSE
  /\ IF form # Blank
       THEN Send(Fetch("register", NoKey)) /\ form' = Blank
       ELSE UNCHANGED <<form, net>>
  /\ UNCHANGED <<page, popups, server, session, scanned, excused, mishaps>>

\* The person scans the code that is shown.
Scan ==
  /\ qr # NoKey /\ qr \notin scanned
  /\ scanned' = scanned \union {qr}
  /\ UNCHANGED <<page, form, popups, error, net, server, session, excused, mishaps>>

\* Sign-up with a passkey ends at once: it awaits a name nobody defines.
PasskeySignUp ==
  /\ page = "signup"
  /\ error' = FALSE
  /\ UNCHANGED <<page, form, popups, net, server, session, scanned, excused, mishaps>>

-----------------------------------------------------------------------------
(* The login page.                                                         *)

\* Opens the pop-up for the code; what it still holds stays in it, because the
\* handler blanks a property that the input does not have.
SubmitLogin ==
  /\ page = "login"
  /\ form # Blank
  /\ totpOpen' = TRUE
  /\ UNCHANGED <<page, form, totp, qr, error, net, server, session, scanned, excused, mishaps>>

\* The key a code belongs to.
KeyOf(code) == IF \E k \in Key : code = Code(k) THEN code[1][1] ELSE NoKey

\* handlePasswordLogin: whatever the fields hold by now, then they are blanked.
HandlePasswordLogin(code) ==
  /\ Send(Fetch("login", KeyOf(code)))
  /\ form' = Blank /\ totp' = <<>>

InputTotp_Keeps(value) ==
  IF Len(value) >= CodeLen
    THEN /\ totpOpen' = FALSE
         /\ Send(Fetch("login", KeyOf(value)))
         /\ form' = Blank /\ totp' = value
    ELSE totp' = value /\ UNCHANGED <<form, totpOpen, net>>

\* The input handler of the pop-up: with its last digit the code is sent.
InputTotp(value) ==
  IF Len(value) >= CodeLen
    THEN totpOpen' = FALSE /\ HandlePasswordLogin(value)
    ELSE totp' = value /\ UNCHANGED <<form, totpOpen, net>>

\* The next digit of some code that the app shows, not always of the same one,
\* or all digits taken back.
TypeTotp ==
  /\ totpOpen
  /\ \/ \E d \in scanned \X (1..CodeLen) : d[2] = Len(totp) + 1 /\ InputTotp(Append(totp, d))
     \/ totp # <<>> /\ InputTotp(<<>>)
  /\ UNCHANGED <<page, qr, error, server, session, scanned, excused, mishaps>>

\* The button of the pop-up sends a whole code and else complains.  The pop-up
\* is hidden at once; the code does that once the login is answered, when it
\* sends one, which it never does (NoWholeCode).
ClickSubmitTotp ==
  /\ totpOpen
  /\ IF Len(totp) = CodeLen
       THEN HandlePasswordLogin(totp) /\ UNCHANGED error
       ELSE error' = TRUE /\ UNCHANGED <<form, totp, net>>
  /\ totpOpen' = FALSE
  /\ UNCHANGED <<page, qr, server, session, scanned, excused, mishaps>>

PasskeyLogin ==
  /\ page = "login"
  /\ error' = FALSE
  /\ IF form # Blank THEN Send([Idle EXCEPT !.op = "passkey", !.at = "sent"]) ELSE UNCHANGED net
  /\ UNCHANGED <<page, form, popups, server, session, scanned, excused, mishaps>>

-----------------------------------------------------------------------------
(* The server.  It may refuse any registration or login, for its rate      *)
(* limit or its configuration.                                             *)

\* An answer bears no name, and no key when the request is refused.
Respond(s, k) == net' = [net EXCEPT ![s].at = "ok", ![s].key = k, ![s].name = Blank]

Refuse(s) == net' = [net EXCEPT ![s] = [Idle EXCEPT !.at = "failed", !.left = net[s].left]]

Register(s) ==
  LET r == net[s]
  IN  /\ r.op = "register" /\ r.at = "sent"
      /\ \/ /\ \A a \in accounts : a.name # r.name
            /\ nextKey <= MaxKey
            /\ accounts' = accounts \union {[name |-> r.name, key |-> nextKey]}
            /\ nextKey' = nextKey + 1
            /\ Respond(s, nextKey)
         \/ Refuse(s) /\ UNCHANGED server

LoginPassword_NoCode(a, r) == a.name = r.name

LoginPassword(a, r) == a.name = r.name /\ a.key = r.key

Login(s) ==
  LET r == net[s]
  IN  /\ r.op = "login" /\ r.at = "sent"
      /\ \/ \E a \in accounts : LoginPassword(a, r) /\ Respond(s, a.key)
         \/ Refuse(s)
      /\ UNCHANGED server

\* No such route is registered.
Passkey(s) ==
  /\ net[s].op = "passkey" /\ net[s].at = "sent"
  /\ Refuse(s)
  /\ UNCHANGED server

Serve(s) ==
  /\ Register(s) \/ Login(s) \/ Passkey(s)
  /\ UNCHANGED <<page, form, popups, error, session, scanned, excused, mishaps>>

\* The network loses the request or its answer: fetch throws.
Lose(s) ==
  /\ Mishap
  /\ net[s].at \in {"sent", "ok"}
  /\ Refuse(s)
  /\ IF net[s].op = "register" THEN MadeAway(net[s].key) ELSE UNCHANGED excused
  /\ UNCHANGED <<page, form, popups, error, server, session, scanned>>

-----------------------------------------------------------------------------
(* An answer arrives.                                                      *)

Done(s) == [net EXCEPT ![s] = Idle]

\* The page is gone; the browser may still store the cookie of a login.
Unheard(s) ==
  /\ net[s].left /\ net[s].at \in {"ok", "failed"}
  /\ net' = Done(s)
  /\ IF net[s].op = "register" THEN MadeAway(net[s].key) ELSE UNCHANGED excused
  /\ session' \in {session, IF net[s].op = "login" /\ net[s].at = "ok" THEN net[s].key ELSE session}
  /\ UNCHANGED <<page, form, popups, error, server, scanned, mishaps>>

\* What the message of either page says.
Failed(s) ==
  /\ ~net[s].left /\ net[s].at = "failed"
  /\ net' = Done(s)
  /\ error' = TRUE
  /\ UNCHANGED <<page, form, popups, server, session, scanned, excused, mishaps>>

Registered_ToLogin(s) ==
  /\ net[s].op = "register" /\ net[s].at = "ok" /\ ~net[s].left
  /\ page' = "login" /\ Blanked
  /\ net' = Abandoned(Done(s))
  /\ UNCHANGED <<server, session, scanned, excused, mishaps>>

Registered_Waits(s) ==
  /\ net[s].op = "register" /\ net[s].at = "ok" /\ ~net[s].left
  /\ qr = NoKey
  /\ net' = Done(s)
  /\ qr' = net[s].key
  /\ UNCHANGED <<page, form, totp, totpOpen, error, server, session, scanned, excused, mishaps>>

\* The QR code of the key is shown, in place of one that may be shown already.
Registered(s) ==
  /\ net[s].op = "register" /\ net[s].at = "ok" /\ ~net[s].left
  /\ net' = Done(s)
  /\ qr' = net[s].key
  /\ MadeAway(qr)
  /\ UNCHANGED <<page, form, totp, totpOpen, error, server, session, scanned, mishaps>>

LoggedIn(s) ==
  /\ net[s].op = "login" /\ net[s].at = "ok" /\ ~net[s].left
  /\ session' = net[s].key
  /\ Load("dashboard", Done(s))
  /\ UNCHANGED <<server, scanned, mishaps>>

Answered(s) == Unheard(s) \/ Failed(s) \/ Registered(s) \/ LoggedIn(s)

Person ==
  \/ \E p \in {"signup", "login", "dashboard"} : Open(p)
  \/ \E n \in Name \union {Blank} : Type(n)
  \/ SubmitSignUp \/ Scan \/ PasskeySignUp
  \/ SubmitLogin \/ TypeTotp \/ ClickSubmitTotp \/ PasskeyLogin

Next == Person \/ \E s \in Slot : Serve(s) \/ Lose(s) \/ Answered(s)

Spec == Init /\ [][Next]_vars

\* The server and the browser get on with every request; the person need not.
FairSpec == Spec /\ \A s \in Slot : WF_vars(Serve(s)) /\ WF_vars(Answered(s))

-----------------------------------------------------------------------------
(* What the pages should do.                                               *)

\* Every variable has its type: only what the pages validated is registered.
TypeOK ==
  /\ page \in {"signup", "login", "dashboard"}
  /\ form \in Name \union {Blank}
  /\ totp \in Seq(Digit) /\ totpOpen \in BOOLEAN /\ qr \in 0..MaxKey /\ error \in BOOLEAN
  /\ net \in [Slot -> Request]
  /\ accounts \subseteq Account /\ nextKey \in 1..(MaxKey + 1)
  /\ session \in 0..MaxKey /\ scanned \subseteq Key /\ excused \subseteq Key
  /\ mishaps \in Nat

\* A key is told once, in the answer to the registration: nobody can log in
\* without it.  It is in the app, or on the screen, or on its way there, or it
\* was lost in one of the ways that the person or the network answers for: the
\* page was left or its pop-up clicked away, a later registration's QR code
\* covered it, or the answer was lost.
EveryKeySeen ==
  \A a \in accounts :
    \/ a.key \in scanned \union excused \union {qr}
    \/ \E s \in Slot : net[s].op = "register" /\ net[s].at = "ok" /\ net[s].key = a.key

\* And keys on their way arrive or are lost in one of these ways: there is always
\* a later moment when no account's key is still to come.
KeysArrive == []<>(\A a \in accounts : a.key \in scanned \union excused \union {qr})

\* A session is only held with an account whose key the person has scanned, in
\* whatever order logins are typed and answered and pages left; whether the
\* dashboard is open says nothing of it, since that page is served to everybody.
SessionRightful ==
  session # NoKey => session \in scanned /\ \E a \in accounts : a.key = session

\* However a code comes to be typed, over what an earlier one has left: the
\* pop-up never keeps a whole one, so its button always asks for one
\* (login.js:50-58).
NoWholeCode == Len(totp) < CodeLen

=============================================================================
