--------------------------- MODULE Authenticator ---------------------------
(***************************************************************************)
(* Users, their credentials and their sessions: Authenticator with its     *)
(* UserStorage and SessionStorage, and the handlers of the web server that *)
(* call it.  A method runs under authLock from its first line to its last, *)
(* so it is one step; a handler calls several methods, and other handlers  *)
(* run in between.  There are at most as many clients as web threads.      *)
(*                                                                         *)
(* A client is what its requests show of it: the metadata (user agent and  *)
(* remote address), which may change from one request to the next, and the *)
(* cookie of its last login.  Tokens are random and 40 bytes long: here no *)
(* token is drawn twice.  The TOTP code of a login is that of a key.       *)
(*                                                                         *)
(* No endpoint calls userRemove, userChangeCredentials or sessionRemove    *)
(* yet; here a client that has been authenticated may, as its user.        *)
(* Refusals that come before any look at the state (bad JSON, no headers,  *)
(* rate limits, no memory for the hash) are left out.                      *)
(***************************************************************************)
EXTENDS Naturals, FiniteSets

CONSTANTS
  Client,
  Meta,         \* user agents and addresses
  Name,         \* names a client may send
  ValidName,    \* those IsValidUserName accepts
  Password,
  MaxSessions,  \* USER_MAX_ALLOWED_SESSIONS
  Expiry,       \* USER_SESSION_EXPIRATION_SECS
  MaxUser,      \* bound: how many users are ever added
  MaxToken,     \* bound: how many sessions are ever made
  MaxTime       \* bound: how long the clock runs

ASSUME NameAssumption == ValidName \subseteq Name
ASSUME NumberAssumption ==
  MaxSessions \in Nat /\ Expiry \in Nat /\ MaxUser \in Nat /\ MaxToken \in Nat /\ MaxTime \in Nat

VARIABLES
  users,      \* the users
  nextUser,   \* currUserID
  sessions,   \* the sessions of all users
  nextToken,  \* the next token drawn
  now,        \* the clock
  pc,         \* pc[c]: idle, what the handler of c's request does next, or stuck
  actor,      \* actor[c]: the user that handler acts for
  meta,       \* meta[c]: the metadata of c's last authenticated request
  cookie,     \* cookie[c]: the session c sends along
  granted,    \* which users have logged in from where, as read at the login (history)
  revoked     \* the tokens that came with other metadata (history)

vars == <<users, nextUser, sessions, nextToken, now, pc, actor, meta, cookie,
          granted, revoked>>

userVars    == <<users, nextUser>>
sessionVars == <<sessions, nextToken>>
clientVars  == <<pc, actor, meta, cookie>>
ghosts      == <<granted, revoked>>

NoUser   == 0
NoKey    == 0
NoCookie == [user |-> NoUser, token |-> 0]

User    == [id : 1..MaxUser, name : ValidName, password : Password, key : 0..MaxUser]
Session == [user : 1..MaxUser, token : 1..MaxToken, meta : Meta, expiration : Nat]

Init ==
  /\ users = {} /\ nextUser = 1
  /\ sessions = {} /\ nextToken = 1
  /\ now = 0
  /\ pc = [c \in Client |-> "idle"]
  /\ actor = [c \in Client |-> NoUser]
  /\ meta \in [Client -> Meta]
  /\ cookie = [c \in Client |-> NoCookie]
  /\ granted = {} /\ revoked = {}

-----------------------------------------------------------------------------
(* The sessions of one user.                                               *)

isExpired(s, t) == t > s.expiration

isValid_Anywhere(s, m, t) == ~isExpired(s, t)

isValid(s, m, t) == s.meta = m /\ ~isExpired(s, t)

Of(S, user) == {s \in S : s.user = user}

\* add and get first erase the expired sessions of the user they are asked about.
\* After that they read the clock again: it may be later, and a session that was
\* not erased may have expired.  (That erase_if reads it for each session anew
\* is left out.)
Later == now' \in now..MaxTime

Evicted_OneEarly(user) == {s \in sessions : s.user = user => now < s.expiration}

Evicted(user) == {s \in sessions : s.user = user => ~isExpired(s, now)}

TooMany_OneMore(S) == Cardinality(S) > MaxSessions

TooMany(S) == Cardinality(S) >= MaxSessions

eraseIndex_Last(S, s) ==
  {r \in S : \E q \in Of(S, s.user) : r.user = s.user => r.token < q.token}

eraseIndex(S, s) == S \ {s}

\* The handler of c goes on for a user, or ends.
Goto(c, label, user) ==
  /\ pc' = [pc EXCEPT ![c] = label]
  /\ actor' = [actor EXCEPT ![c] = user]

\* authLock is free, except that a stuck thread waits for it and holds it.
Enters(c, label) ==
  /\ \A d \in Client : pc[d] # "stuck"
  /\ pc[c] = label

-----------------------------------------------------------------------------
(* Registration and login.                                                 *)

IsValidUserName(name) == name \in ValidName

nameExists(name) == \E u \in users : u.name = name

userAdd(c, name, password) ==
  /\ Enters(c, "idle")
  /\ \/ /\ IsValidUserName(name)
        /\ ~nameExists(name)
        /\ nextUser <= MaxUser
        /\ users' = users \union
             {[id |-> nextUser, name |-> name, password |-> password, key |-> nextUser]}
        /\ nextUser' = nextUser + 1
     \/ /\ ~IsValidUserName(name) \/ nameExists(name)
        /\ UNCHANGED userVars
  /\ UNCHANGED <<sessionVars, now, clientVars, ghosts>>

\* The first user of the name decides.  Two may have one name once credentials
\* were changed; which of them comes first is left open.
loginPassword(u, name, password, key) ==
  u.name = name /\ u.key = key /\ u.password = password

userLoginPassword(c, name, password, key) ==
  /\ Enters(c, "idle")
  /\ \/ \E u \in users :
          /\ loginPassword(u, name, password, key)
          /\ Goto(c, "sessionAdd", u.id)
     \/ /\ \/ ~nameExists(name)
           \/ \E u \in users : u.name = name /\ ~loginPassword(u, name, password, key)
        /\ UNCHANGED <<pc, actor>>
  /\ UNCHANGED <<userVars, sessionVars, now, meta, cookie, ghosts>>

\* The second half of the login: the user of the first half may be gone.  The
\* headers m are read from a request that uWS only keeps for the handler's first
\* call: once the body comes after the headers they may be anything, or missing.
sessionAdd(c, m) ==
  LET user == actor[c]
      live == Evicted(user)
      same == {s \in Of(live, user) : isValid(s, m, now')}
      new  == [user |-> user, token |-> nextToken, meta |-> m, expiration |-> now' + Expiry]
  IN  /\ Enters(c, "sessionAdd")
      /\ Later
      /\ \/ \E s \in same :
              /\ sessions' = live
              /\ cookie' = [cookie EXCEPT ![c] = [user |-> user, token |-> s.token]]
              /\ UNCHANGED nextToken
         \/ /\ same = {}
            /\ TooMany(Of(live, user))
            /\ sessions' = live
            /\ UNCHANGED <<cookie, nextToken>>
         \/ /\ same = {}
            /\ ~TooMany(Of(live, user))
            /\ nextToken <= MaxToken
            /\ sessions' = live \union {new}
            /\ nextToken' = nextToken + 1
            /\ cookie' = [cookie EXCEPT ![c] = [user |-> user, token |-> nextToken]]
      /\ granted' = granted \union {<<user, m>>}
      /\ Goto(c, "idle", NoUser)
      /\ UNCHANGED <<userVars, meta, revoked>>

MissingHeaders(c) ==
  /\ pc[c] = "sessionAdd"
  /\ Goto(c, "idle", NoUser)
  /\ UNCHANGED <<userVars, sessionVars, now, meta, cookie, ghosts>>

-----------------------------------------------------------------------------
(* Authenticated requests.                                                 *)

\* HasValidSession: one search, by the user the cookie names.  A client may have
\* moved since its last request: m is where it is now.  A session that is found
\* but not valid is erased, be it that m differs or that it has just expired.
sessionAuth(c, m) ==
  LET user  == cookie[c].user
      live  == Evicted(user)
      match == {s \in Of(live, user) : s.token = cookie[c].token}
  IN  /\ Enters(c, "idle")
      /\ Later
      /\ cookie[c] # NoCookie
      /\ \/ /\ match = {}
            /\ sessions' = live
            /\ UNCHANGED <<pc, actor, revoked>>
         \/ /\ \E s \in match : isValid(s, m, now')
            /\ sessions' = live
            /\ Goto(c, "acting", user)
            /\ UNCHANGED revoked
         \/ /\ \E s \in match :
                 /\ ~isValid(s, m, now')
                 /\ sessions' = eraseIndex(live, s)
                 /\ revoked' = IF s.meta # m THEN revoked \union {s.token} ELSE revoked
            /\ UNCHANGED <<pc, actor>>
      /\ meta' = [meta EXCEPT ![c] = m]
      /\ UNCHANGED <<userVars, nextToken, cookie, granted>>

\* The handler proper, which works for the user it was given.
Respond(c) ==
  /\ pc[c] = "acting"
  /\ Goto(c, "idle", NoUser)
  /\ UNCHANGED <<userVars, sessionVars, now, meta, cookie, ghosts>>

\* A session is named by its creation time.
sessionRemove(c) ==
  /\ Enters(c, "acting")
  /\ \E s \in Of(sessions, actor[c]) : sessions' = eraseIndex(sessions, s)
  /\ Goto(c, "idle", NoUser)
  /\ UNCHANGED <<userVars, nextToken, now, meta, cookie, ghosts>>

\* The stored password is a hash, never equal to the one that is sent, and the
\* new credentials come without a TOTP key.  The new name is not looked up.
userChangeCredentials(c, name, password) ==
  /\ Enters(c, "acting")
  /\ users' = IF IsValidUserName(name)
                THEN {IF u.id = actor[c]
                        THEN [u EXCEPT !.name = name, !.password = password, !.key = NoKey]
                        ELSE u : u \in users}
                ELSE users
  /\ Goto(c, "idle", NoUser)
  /\ UNCHANGED <<nextUser, sessionVars, now, meta, cookie, ghosts>>

\* A user removes itself; for another user getIsAdmin is asked, which waits for
\* the lock that userRemove holds.
userRemove(c, user) ==
  /\ Enters(c, "acting")
  /\ \/ /\ user = actor[c]
        /\ users' = {u \in users : u.id # user}
        /\ Goto(c, "idle", NoUser)
     \/ /\ user # actor[c]
        /\ Goto(c, "stuck", NoUser)
        /\ UNCHANGED users
  /\ UNCHANGED <<nextUser, sessionVars, now, meta, cookie, ghosts>>

-----------------------------------------------------------------------------
(* The world around.                                                       *)

Tick ==
  /\ now < MaxTime
  /\ now' = now + 1
  /\ UNCHANGED <<userVars, sessionVars, clientVars, ghosts>>

-----------------------------------------------------------------------------

Handler(c) ==
  \/ \E name \in Name, password \in Password :
       \/ userAdd(c, name, password)
       \/ userChangeCredentials(c, name, password)
       \/ \E key \in 0..MaxUser : userLoginPassword(c, name, password, key)
  \/ \E m \in Meta : sessionAdd(c, m) \/ sessionAuth(c, m)
  \/ MissingHeaders(c) \/ sessionRemove(c) \/ Respond(c)
  \/ \E user \in 1..MaxUser : userRemove(c, user)

Next ==
  \/ \E c \in Client : Handler(c)
  \/ Tick

Spec == Init /\ [][Next]_vars

-----------------------------------------------------------------------------
(* Properties.                                                             *)

TypeOK ==
  /\ users \subseteq User
  /\ nextUser \in 1..(MaxUser + 1)
  /\ sessions \subseteq Session
  /\ nextToken \in 1..(MaxToken + 1)
  /\ now \in 0..MaxTime
  /\ pc \in [Client -> {"idle", "sessionAdd", "acting", "stuck"}]
  /\ actor \in [Client -> 0..MaxUser]
  /\ meta \in [Client -> Meta]
  /\ cookie \in [Client -> [user : 0..MaxUser, token : 0..MaxToken]]
  /\ granted \subseteq ((1..MaxUser) \X Meta)
  /\ revoked \subseteq 1..MaxToken

\* Whoever is served as a user has, from the same browser and address, logged in
\* as that user before, as far as the server could tell: also after the client has
\* moved and come back, and after users were removed and added.
ServedLoggedIn ==
  \A c \in Client : pc[c] = "acting" => <<actor[c], meta[c]>> \in granted

\* Authenticator.h:48: "or reuses an existing one that matches".  Two logins
\* from one place give one session, a second one only when the first has expired,
\* be it between the two looks at the clock; and with all that are kept, expired
\* ones included, a user never has more than allowed.
SessionsApart ==
  /\ \A s, r \in sessions :
       \/ s.token = r.token
       \/ s.user = r.user /\ s.meta = r.meta /\ ~isExpired(s, now) /\ ~isExpired(r, now)
       => s = r
  /\ \A user \in 1..MaxUser : Cardinality(Of(sessions, user)) <= MaxSessions

\* SessionStorage.h:73: "automatically revokes if the token matches but not the
\* meta-data".  A token that was shown from another place is never good again.
RevokedGone == \A s \in sessions : s.token \notin revoked

\* SessionStorage.h:23-26: a session ends when it has expired, when its own token
\* comes from another place, or when its user removes it; nobody else ends it.
SessionsEndRightly ==
  [][\A s \in sessions \ sessions' :
       \/ isExpired(s, now')
       \/ s.token \in revoked'
       \/ \E c \in Client : pc[c] = "acting" /\ actor[c] = s.user /\ pc'[c] = "idle"]_vars

=============================================================================
