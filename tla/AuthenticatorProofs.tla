------------------------ MODULE AuthenticatorProofs ------------------------
(***************************************************************************)
(* Proofs about Authenticator, for every number of clients, places, users, *)
(* sessions and ticks of the clock.                                        *)
(***************************************************************************)
EXTENDS Authenticator, FiniteSetTheorems, TLAPS

\* A handler that has a user to act for has a real one.
ActorInv ==
  \A c \in Client : pc[c] \in {"sessionAdd", "acting"} => actor[c] \in 1..MaxUser

TypeInv == TypeOK /\ ActorInv

\* Everything starts well typed, and with every handler idle.
LEMMA TypeInit == Init => TypeInv
<1> SUFFICES ASSUME Init
             PROVE  TypeInv
  OBVIOUS
<1> USE NumberAssumption DEF Init, NoUser, NoCookie
<1>1. users \subseteq User /\ sessions \subseteq Session
  BY DEF User, Session
<1>2. nextUser \in 1..(MaxUser + 1) /\ nextToken \in 1..(MaxToken + 1) /\ now \in 0..MaxTime
  OBVIOUS
<1>3. /\ pc \in [Client -> {"idle", "sessionAdd", "acting", "stuck"}]
      /\ actor \in [Client -> 0..MaxUser]
      /\ meta \in [Client -> Meta]
      /\ cookie \in [Client -> [user : 0..MaxUser, token : 0..MaxToken]]
  OBVIOUS
<1>4. ActorInv
  BY DEF ActorInv
<1> QED
  BY <1>1, <1>2, <1>3, <1>4 DEF TypeInv, TypeOK

\* Nobody is one of the values an actor may have.
LEMMA NoUserType == NoUser \in 0..MaxUser
BY NumberAssumption, SMT DEF NoUser

\* A step that moves the handler of one client on keeps the handlers' types, if
\* the label is one of theirs and goes with a real user where it has to.
LEMMA GotoStep ==
  ASSUME TypeInv, NEW c \in Client, NEW user \in 0..MaxUser,
         NEW label \in {"idle", "sessionAdd", "acting", "stuck"},
         label \in {"sessionAdd", "acting"} => user \in 1..MaxUser,
         Goto(c, label, user)
  PROVE  /\ pc' \in [Client -> {"idle", "sessionAdd", "acting", "stuck"}]
         /\ actor' \in [Client -> 0..MaxUser]
         /\ ActorInv'
<1> USE DEF TypeInv, TypeOK, Goto
<1>1. pc' \in [Client -> {"idle", "sessionAdd", "acting", "stuck"}]
  OBVIOUS
<1>2. actor' \in [Client -> 0..MaxUser]
  OBVIOUS
<1>3. ActorInv'
  BY DEF ActorInv
<1> QED
  BY <1>1, <1>2, <1>3

\* The sessions a search leaves are some of those that were there.
LEMMA EvictedFacts ==
  ASSUME NEW user
  PROVE  /\ Evicted(user) \subseteq sessions
         /\ \A s \in sessions \ Evicted(user) : isExpired(s, now)
         /\ \A s \in Of(Evicted(user), user) : s \in sessions /\ s.user = user
BY DEF Evicted, Of

\* Registration and changed credentials keep the users well typed.
LEMMA UsersStep ==
  ASSUME TypeInv, NEW c \in Client, NEW name \in Name, NEW password \in Password,
         userAdd(c, name, password) \/ userChangeCredentials(c, name, password)
  PROVE  users' \subseteq User /\ nextUser' \in 1..(MaxUser + 1)
<1> USE NumberAssumption, NameAssumption DEF TypeInv, TypeOK, userVars
<1>1. CASE userAdd(c, name, password)
  BY <1>1 DEF userAdd, User, IsValidUserName
<1>2. CASE userChangeCredentials(c, name, password)
  <2>1. CASE IsValidUserName(name)
    <3>1. \A u \in users : [u EXCEPT !.name = name, !.password = password, !.key = NoKey] \in User
      <4>1. NoKey \in 0..MaxUser /\ name \in ValidName
        BY <2>1 DEF IsValidUserName, NoKey
      <4>2. \A u \in users : u \in [id : 1..MaxUser, name : ValidName, password : Password, key : 0..MaxUser]
        BY DEF User
      <4> HIDE DEF NoKey
      <4> QED
        BY <4>1, <4>2 DEF User
    <3> QED
      BY <1>2, <2>1, <3>1 DEF userChangeCredentials
  <2> QED
    BY <1>2, <2>1 DEF userChangeCredentials
<1> QED
  BY <1>1, <1>2

\* A login's second half keeps sessions, tokens, cookies and history well typed.
LEMMA SessionAddTypes ==
  ASSUME TypeInv, NEW c \in Client, NEW m \in Meta, sessionAdd(c, m)
  PROVE  /\ sessions' \subseteq Session
         /\ nextToken' \in 1..(MaxToken + 1)
         /\ cookie' \in [Client -> [user : 0..MaxUser, token : 0..MaxToken]]
         /\ granted' \subseteq ((1..MaxUser) \X Meta)
<1> USE NumberAssumption DEF TypeInv, TypeOK
<1> DEFINE user == actor[c]
           live == Evicted(user)
           new  == [user |-> user, token |-> nextToken, meta |-> m, expiration |-> now' + Expiry]
<1>1. user \in 1..MaxUser
  BY DEF ActorInv, sessionAdd, Enters
<1>2. live \subseteq Session
  BY EvictedFacts
<1>3. \A t \in 1..MaxToken : [cookie EXCEPT ![c] = [user |-> user, token |-> t]]
                               \in [Client -> [user : 0..MaxUser, token : 0..MaxToken]]
  BY <1>1
<1>4. granted' \subseteq ((1..MaxUser) \X Meta)
  BY <1>1 DEF sessionAdd
<1>5. \/ /\ sessions' = live
         /\ \E s \in live : cookie' = [cookie EXCEPT ![c] = [user |-> user, token |-> s.token]]
         /\ UNCHANGED nextToken
      \/ /\ sessions' = live
         /\ UNCHANGED <<cookie, nextToken>>
      \/ /\ nextToken <= MaxToken
         /\ sessions' = live \union {new}
         /\ nextToken' = nextToken + 1
         /\ cookie' = [cookie EXCEPT ![c] = [user |-> user, token |-> nextToken]]
  BY Zenon DEF sessionAdd, Of
<1>6. \A s \in live : s.token \in 1..MaxToken
  BY <1>2 DEF Session
<1>7. nextToken <= MaxToken => new \in Session /\ nextToken \in 1..MaxToken
  <2>1. now' \in now..MaxTime /\ now \in 0..MaxTime
    BY Zenon DEF sessionAdd, Later
  <2>2. \A n \in 0..MaxTime : \A t \in n..MaxTime : t + Expiry \in Nat
    BY NumberAssumption
  <2>3. now' + Expiry \in Nat
    BY <2>1, <2>2
  <2> QED
    BY <1>1, <2>3 DEF Session
<1> HIDE DEF user, live, new
<1> QED
  BY <1>2, <1>3, <1>4, <1>5, <1>6, <1>7

\* The clock only goes on.
LEMMA ClockStep ==
  ASSUME TypeInv, [Next]_vars
  PROVE  now' \in 0..MaxTime /\ now <= now'
<1>0. now \in 0..MaxTime
  BY DEF TypeInv, TypeOK
<1>1. ASSUME now' \in now..MaxTime
      PROVE  now' \in 0..MaxTime /\ now <= now'
  BY <1>0, <1>1, NumberAssumption
<1>2. ASSUME now' = now
      PROVE  now' \in 0..MaxTime /\ now <= now'
  BY <1>0, <1>2, NumberAssumption
<1>3. ASSUME NEW c \in Client, NEW m \in Meta, sessionAdd(c, m) \/ sessionAuth(c, m)
      PROVE  now' \in now..MaxTime
  BY <1>3, Zenon DEF sessionAdd, sessionAuth, Later
<1>4. ASSUME NEW c \in Client, NEW name \in Name, NEW password \in Password,
             \/ userAdd(c, name, password) \/ userChangeCredentials(c, name, password)
             \/ \E key \in 0..MaxUser : userLoginPassword(c, name, password, key)
      PROVE  now' = now
  BY <1>4 DEF userAdd, userChangeCredentials, userLoginPassword
<1>5. ASSUME NEW c \in Client, MissingHeaders(c) \/ Respond(c) \/ sessionRemove(c)
                                 \/ \E user \in 1..MaxUser : userRemove(c, user)
      PROVE  now' = now
  BY <1>5 DEF MissingHeaders, Respond, sessionRemove, userRemove
<1>6. ASSUME Tick
      PROVE  now' \in now..MaxTime
  BY <1>0, <1>6, NumberAssumption DEF Tick
<1>7. ASSUME UNCHANGED vars
      PROVE  now' = now
  BY <1>7 DEF vars
<1> QED
  BY <1>1, <1>2, <1>3, <1>4, <1>5, <1>6, <1>7, Zenon DEF Next, Handler

\* Each step keeps every variable's type.
LEMMA TypeStep == TypeInv /\ [Next]_vars => TypeInv'
<1> SUFFICES ASSUME TypeInv, [Next]_vars
             PROVE  TypeInv'
  OBVIOUS
<1> USE DEF TypeInv, userVars, sessionVars, clientVars, ghosts
<1>1. ASSUME NEW c \in Client, NEW name \in Name, NEW password \in Password,
             userAdd(c, name, password)
      PROVE  TypeInv'
  <2>1. users' \subseteq User /\ nextUser' \in 1..(MaxUser + 1)
    BY <1>1, UsersStep
  <2> QED
    BY <1>1, <2>1 DEF userAdd, TypeOK, ActorInv
<1>2. ASSUME NEW c \in Client, NEW name \in Name, NEW password \in Password,
             userChangeCredentials(c, name, password)
      PROVE  TypeInv'
  <2>1. users' \subseteq User
    BY <1>2, UsersStep
  <2>2. Goto(c, "idle", NoUser) /\ NoUser \in 0..MaxUser
    BY <1>2, NoUserType, Zenon DEF userChangeCredentials
  <2> QED
    BY <1>2, <2>1, <2>2, GotoStep DEF userChangeCredentials, TypeOK
<1>3. ASSUME NEW c \in Client, NEW name \in Name, NEW password \in Password,
             NEW key \in 0..MaxUser, userLoginPassword(c, name, password, key)
      PROVE  TypeInv'
  <2>1. CASE UNCHANGED <<pc, actor>>
    BY <1>3, <2>1 DEF userLoginPassword, TypeOK, ActorInv
  <2>2. CASE \E u \in users : Goto(c, "sessionAdd", u.id)
    <3>1. PICK u \in users : Goto(c, "sessionAdd", u.id)
      BY <2>2
    <3>2. u.id \in 1..MaxUser /\ u.id \in 0..MaxUser
      BY NumberAssumption DEF TypeOK, User
    <3>3. /\ pc' \in [Client -> {"idle", "sessionAdd", "acting", "stuck"}]
          /\ actor' \in [Client -> 0..MaxUser]
          /\ ActorInv'
      BY <3>1, <3>2, GotoStep
    <3> QED
      BY <1>3, <3>3 DEF userLoginPassword, TypeOK
  <2> QED
    BY <1>3, <2>1, <2>2 DEF userLoginPassword
<1>4. ASSUME NEW c \in Client, NEW m \in Meta, sessionAdd(c, m)
      PROVE  TypeInv'
  <2>1. Goto(c, "idle", NoUser) /\ NoUser \in 0..MaxUser
    BY <1>4, NoUserType, Zenon DEF sessionAdd
  <2>2. UNCHANGED <<users, nextUser, meta, revoked>>
    BY <1>4, Zenon DEF sessionAdd
  <2>3. now' \in 0..MaxTime
    BY ClockStep
  <2> QED
    BY <1>4, <2>1, <2>2, <2>3, GotoStep, SessionAddTypes DEF TypeOK
<1>5. ASSUME NEW c \in Client, MissingHeaders(c) \/ Respond(c) \/ sessionRemove(c)
                                 \/ \E user \in 1..MaxUser : userRemove(c, user)
      PROVE  TypeInv'
  <2>1. Goto(c, "idle", NoUser) \/ Goto(c, "stuck", NoUser)
    BY <1>5 DEF MissingHeaders, Respond, sessionRemove, userRemove
  <2>2. /\ pc' \in [Client -> {"idle", "sessionAdd", "acting", "stuck"}]
        /\ actor' \in [Client -> 0..MaxUser]
        /\ ActorInv'
    BY <2>1, GotoStep, NumberAssumption DEF NoUser
  <2>3. users' \subseteq users /\ sessions' \subseteq sessions
    BY <1>5 DEF MissingHeaders, Respond, sessionRemove, userRemove, eraseIndex
  <2>4. UNCHANGED <<nextUser, nextToken, now, meta, cookie, granted, revoked>>
    BY <1>5 DEF MissingHeaders, Respond, sessionRemove, userRemove
  <2> QED
    BY <2>2, <2>3, <2>4 DEF TypeOK
<1>6. ASSUME NEW c \in Client, NEW m \in Meta, sessionAuth(c, m)
      PROVE  TypeInv'
  <2> DEFINE user  == cookie[c].user
             live  == Evicted(user)
             match == {s \in Of(live, user) : s.token = cookie[c].token}
  <2>1. \A s \in match : s \in sessions /\ s.user = user /\ s.token = cookie[c].token
    BY EvictedFacts
  <2>2. \A s \in match : user \in 1..MaxUser /\ user \in 0..MaxUser /\ cookie[c].token \in 1..MaxToken
    BY <2>1, NumberAssumption DEF TypeOK, Session
  <2>3. \/ sessions' = live /\ UNCHANGED <<pc, actor, revoked>>
        \/ match # {} /\ sessions' = live /\ Goto(c, "acting", user) /\ UNCHANGED revoked
        \/ /\ \E s \in match :
                /\ sessions' = live \ {s}
                /\ revoked' = revoked \/ revoked' = revoked \union {s.token}
           /\ UNCHANGED <<pc, actor>>
    BY <1>6, Zenon DEF sessionAuth, eraseIndex
  <2>4. /\ UNCHANGED <<users, nextUser, nextToken, cookie, granted>>
        /\ meta' \in [Client -> Meta] /\ now' \in 0..MaxTime
    <3>1. /\ meta' = [meta EXCEPT ![c] = m]
          /\ UNCHANGED <<users, nextUser, nextToken, cookie, granted>>
      BY <1>6, Zenon DEF sessionAuth
    <3>2. now' \in 0..MaxTime
      BY ClockStep
    <3>3. meta' \in [Client -> Meta]
      BY <3>1 DEF TypeOK
    <3> QED
      BY <3>1, <3>2, <3>3
  <2>5. live \subseteq sessions
    BY EvictedFacts
  <2> HIDE DEF user, live, match
  <2>r. revoked' \subseteq 1..MaxToken
    <3>1. \A s \in match : cookie[c].token = s.token /\ s.token \in 1..MaxToken
      BY <2>1, <2>2
    <3>2. revoked' = revoked \/ \E s \in match : revoked' = revoked \union {s.token}
      BY <2>3, Zenon
    <3> QED
      BY <3>1, <3>2 DEF TypeOK
  <2>l. sessions' \subseteq Session
    BY <2>3, <2>5, Zenon DEF TypeOK
  <2>6. CASE UNCHANGED <<pc, actor>>
    <3>1. TypeOK'
      BY <2>4, <2>6, <2>l, <2>r DEF TypeOK
    <3>2. ActorInv'
      BY <2>6, Zenon DEF ActorInv
    <3> QED
      BY <3>1, <3>2
  <2>7. CASE match # {} /\ sessions' = live /\ Goto(c, "acting", user) /\ UNCHANGED revoked
    <3>1. user \in 1..MaxUser /\ user \in 0..MaxUser
      BY <2>2, <2>7
    <3>2. /\ pc' \in [Client -> {"idle", "sessionAdd", "acting", "stuck"}]
          /\ actor' \in [Client -> 0..MaxUser]
          /\ ActorInv'
      BY <2>7, <3>1, GotoStep
    <3> QED
      BY <2>4, <2>5, <2>7, <3>2 DEF TypeOK
  <2> QED
    BY <2>3, <2>6, <2>7
<1>7. CASE Tick
  BY <1>7, NumberAssumption DEF Tick, TypeOK, ActorInv
<1>8. CASE UNCHANGED vars
  BY <1>8 DEF vars, TypeOK, ActorInv
<1> QED
  BY <1>1, <1>2, <1>3, <1>4, <1>5, <1>6, <1>7, <1>8, Zenon DEF Next, Handler

\* Users, sessions, cookies and handlers keep their types.
THEOREM TypeCorrect == Spec => []TypeOK
<1>1. TypeInv => TypeOK
  BY DEF TypeInv
<1> QED
  BY <1>1, TypeInit, TypeStep, PTL DEF Spec
-----------------------------------------------------------------------------
(* What a step does to the sessions.                                       *)

\* What has expired stays so.
LEMMA StillExpired ==
  ASSUME TypeInv, [Next]_vars, NEW s \in sessions, isExpired(s, now)
  PROVE  isExpired(s, now')
<1>1. now' \in 0..MaxTime /\ now <= now'
  BY ClockStep
<1>2. s.expiration \in Nat /\ now \in 0..MaxTime
  BY DEF TypeInv, TypeOK, Session
<1> QED
  BY <1>1, <1>2, NumberAssumption DEF isExpired

\* A login of user from m adds a session.
Added(user, m) ==
  /\ \A s \in Of(Evicted(user), user) : ~isValid(s, m, now')
  /\ ~TooMany(Of(Evicted(user), user))
  /\ sessions' = Evicted(user) \union
       {[user |-> user, token |-> nextToken, meta |-> m, expiration |-> now' + Expiry]}
  /\ nextToken' = nextToken + 1
  /\ <<user, m>> \in granted'

\* A login's second half leaves some of the sessions, or adds one.
LEMMA SessionAddStep ==
  ASSUME TypeInv, NEW c \in Client, NEW m \in Meta, sessionAdd(c, m)
  PROVE  /\ \/ sessions' = Evicted(actor[c]) /\ nextToken' = nextToken
            \/ Added(actor[c], m)
         /\ granted \subseteq granted' /\ revoked' = revoked
         /\ actor[c] \in 1..MaxUser
<1>1. actor[c] \in 1..MaxUser
  BY DEF TypeInv, ActorInv, sessionAdd, Enters
<1>2. <<actor[c], m>> \in granted' /\ granted \subseteq granted' /\ revoked' = revoked
  BY Zenon DEF sessionAdd
<1>3. \/ sessions' = Evicted(actor[c]) /\ nextToken' = nextToken
      \/ Added(actor[c], m)
  BY <1>2, Zenon DEF sessionAdd, Added
<1> QED
  BY <1>1, <1>2, <1>3

\* An authenticated request leaves some of the sessions, and revokes only a
\* token whose session it erases.
LEMMA SessionAuthStep ==
  ASSUME TypeInv, [Next]_vars, NEW c \in Client, NEW m \in Meta, sessionAuth(c, m)
  PROVE  /\ sessions' \subseteq sessions
         /\ UNCHANGED <<nextToken, granted>>
         /\ \/ revoked' = revoked
            \/ \E s \in sessions :
                 revoked' = revoked \union {s.token} /\ sessions' \subseteq sessions \ {s}
         /\ \A s \in sessions \ sessions' :
              isExpired(s, now') \/ (s.token \in revoked')
<1> DEFINE user  == cookie[c].user
           live  == Evicted(user)
           match == {s \in Of(live, user) : s.token = cookie[c].token}
<1>1. \A s \in match : s \in sessions /\ s.token = cookie[c].token
  BY EvictedFacts
<1>2. \/ sessions' = live /\ revoked' = revoked
      \/ \E s \in match :
           /\ sessions' = live \ {s}
           /\ \/ revoked' = revoked \union {s.token}
              \/ revoked' = revoked /\ isExpired(s, now')
  BY Zenon DEF sessionAuth, eraseIndex, isValid
<1>3. UNCHANGED <<nextToken, granted>>
  BY Zenon DEF sessionAuth
<1>4. live \subseteq sessions /\ \A s \in sessions \ live : isExpired(s, now')
  BY EvictedFacts, StillExpired
<1> HIDE DEF user, live, match
<1> QED
  BY <1>1, <1>2, <1>3, <1>4

\* What any step does to the sessions, the tokens and the histories.
LEMMA SessionsStep ==
  ASSUME TypeInv, [Next]_vars
  PROVE  \/ /\ sessions' \subseteq sessions /\ nextToken' = nextToken
            /\ granted \subseteq granted'
            /\ \/ revoked' = revoked
               \/ \E s \in sessions :
                    revoked' = revoked \union {s.token} /\ sessions' \subseteq sessions \ {s}
         \/ /\ \E user \in 1..MaxUser, m \in Meta : Added(user, m)
            /\ granted \subseteq granted' /\ revoked' = revoked
<1> USE DEF userVars, sessionVars, clientVars, ghosts
<1>1. ASSUME NEW c \in Client, NEW name \in Name, NEW password \in Password,
             \/ userAdd(c, name, password) \/ userChangeCredentials(c, name, password)
             \/ \E key \in 0..MaxUser : userLoginPassword(c, name, password, key)
      PROVE  UNCHANGED <<sessions, nextToken, granted, revoked>>
  BY <1>1 DEF userAdd, userChangeCredentials, userLoginPassword
<1>2. ASSUME NEW c \in Client, NEW m \in Meta, sessionAdd(c, m)
      PROVE  \/ sessions' \subseteq sessions /\ nextToken' = nextToken /\ granted \subseteq granted'
                /\ revoked' = revoked
             \/ /\ \E user \in 1..MaxUser : Added(user, m)
                /\ granted \subseteq granted' /\ revoked' = revoked
  BY <1>2, SessionAddStep, EvictedFacts, Zenon
<1>3. ASSUME NEW c \in Client, MissingHeaders(c) \/ Respond(c) \/ sessionRemove(c)
                                 \/ \E user \in 1..MaxUser : userRemove(c, user)
      PROVE  sessions' \subseteq sessions /\ UNCHANGED <<nextToken, granted, revoked>>
  BY <1>3 DEF MissingHeaders, Respond, sessionRemove, userRemove, eraseIndex
<1>4. CASE Tick
  BY <1>4 DEF Tick
<1>5. CASE UNCHANGED vars
  BY <1>5 DEF vars
<1>6. ASSUME NEW c \in Client, NEW m \in Meta, sessionAuth(c, m)
      PROVE  /\ sessions' \subseteq sessions /\ nextToken' = nextToken
             /\ granted \subseteq granted'
             /\ \/ revoked' = revoked
                \/ \E s \in sessions :
                     revoked' = revoked \union {s.token} /\ sessions' \subseteq sessions \ {s}
  BY <1>6, SessionAuthStep
<1> QED
  BY <1>1, <1>2, <1>3, <1>4, <1>5, <1>6 DEF Next, Handler

-----------------------------------------------------------------------------
(* Tokens.                                                                 *)

\* Tokens are drawn in order; none is of two sessions, and none of a session is
\* one that was revoked.
TokenInv ==
  /\ TypeInv
  /\ \A s \in sessions : s.token < nextToken
  /\ \A t \in revoked : t < nextToken
  /\ \A s, r \in sessions : s.token = r.token => s = r
  /\ RevokedGone

\* Each step keeps the tokens apart.
LEMMA TokenStep == TokenInv /\ [Next]_vars => TokenInv'
<1> SUFFICES ASSUME TokenInv, [Next]_vars
             PROVE  TokenInv'
  OBVIOUS
<1> USE DEF TokenInv, RevokedGone
<1>1. TypeInv'
  BY TypeStep
<1>2. \A s \in sessions : s.token \in Nat
  BY DEF TypeInv, TypeOK, Session
<1>3. nextToken \in Nat /\ revoked \subseteq Nat
  BY DEF TypeInv, TypeOK
<1>4. CASE /\ sessions' \subseteq sessions /\ nextToken' = nextToken
           /\ \/ revoked' = revoked
              \/ \E s \in sessions :
                   revoked' = revoked \union {s.token} /\ sessions' \subseteq sessions \ {s}
  BY <1>1, <1>2, <1>3, <1>4
<1>5. CASE (\E user \in 1..MaxUser, m \in Meta : Added(user, m)) /\ revoked' = revoked
  <2>1. PICK user \in 1..MaxUser, m \in Meta : Added(user, m)
    BY <1>5
  <2> DEFINE new == [user |-> user, token |-> nextToken, meta |-> m, expiration |-> now' + Expiry]
  <2>2. \A s \in sessions' : s \in sessions \/ s = new
    BY <2>1, EvictedFacts DEF Added
  <2>3. new.token = nextToken /\ nextToken' = nextToken + 1
    BY <2>1 DEF Added
  <2> HIDE DEF new
  <2> QED
    BY <1>1, <1>2, <1>3, <1>5, <2>2, <2>3
<1> QED
  BY <1>4, <1>5, SessionsStep

\* A token that was shown from another place is never good again.
THEOREM RevokedCorrect == Spec => []RevokedGone
<1>1. Init => TokenInv
  BY TypeInit DEF Init, TokenInv, RevokedGone
<1>2. TokenInv => RevokedGone
  BY DEF TokenInv
<1> QED
  BY <1>1, <1>2, TokenStep, PTL DEF Spec
-----------------------------------------------------------------------------
(* Who is served.                                                          *)

\* Each session belongs to somebody who logged in from its place.
GrantedInv ==
  /\ TypeInv
  /\ \A s \in sessions : <<s.user, s.meta>> \in granted
  /\ ServedLoggedIn

\* A handler that acts for a user did so before the step, or the step found a
\* session of that user made from the place the client is at.
LEMMA ServedStep ==
  ASSUME TypeInv, [Next]_vars, NEW d \in Client, pc'[d] = "acting"
  PROVE  \/ pc[d] = "acting" /\ actor'[d] = actor[d] /\ meta'[d] = meta[d]
         \/ \E s \in sessions : actor'[d] = s.user /\ meta'[d] = s.meta
<1> USE DEF userVars, sessionVars, clientVars, ghosts
<1>1. ASSUME NEW c \in Client, NEW label, NEW user, Goto(c, label, user), label # "acting",
             meta' = meta
      PROVE  pc[d] = "acting" /\ actor'[d] = actor[d] /\ meta'[d] = meta[d]
  BY <1>1 DEF Goto, TypeInv, TypeOK
<1>2. ASSUME UNCHANGED <<pc, actor, meta>>
      PROVE  pc[d] = "acting" /\ actor'[d] = actor[d] /\ meta'[d] = meta[d]
  BY <1>2
<1>3. ASSUME NEW c \in Client, NEW name \in Name, NEW password \in Password,
             \/ userAdd(c, name, password) \/ userChangeCredentials(c, name, password)
             \/ \E key \in 0..MaxUser : userLoginPassword(c, name, password, key)
      PROVE  pc[d] = "acting" /\ actor'[d] = actor[d] /\ meta'[d] = meta[d]
  <2>1. CASE UNCHANGED <<pc, actor, meta>>
    BY <1>2, <2>1
  <2>2. CASE /\ meta' = meta
             /\ Goto(c, "idle", NoUser) \/ \E u \in users : Goto(c, "sessionAdd", u.id)
    BY <1>1, <2>2
  <2> QED
    BY <1>3, <2>1, <2>2 DEF userAdd, userChangeCredentials, userLoginPassword
<1>4. ASSUME NEW c \in Client,
             \/ \E m \in Meta : sessionAdd(c, m)
             \/ MissingHeaders(c) \/ Respond(c) \/ sessionRemove(c)
             \/ \E user \in 1..MaxUser : userRemove(c, user)
      PROVE  pc[d] = "acting" /\ actor'[d] = actor[d] /\ meta'[d] = meta[d]
  <2>1. meta' = meta /\ (Goto(c, "idle", NoUser) \/ Goto(c, "stuck", NoUser))
    BY <1>4, Zenon DEF sessionAdd, MissingHeaders, Respond, sessionRemove, userRemove
  <2> QED
    BY <1>1, <2>1
<1>5. ASSUME NEW c \in Client, NEW m \in Meta, sessionAuth(c, m)
      PROVE  \/ pc[d] = "acting" /\ actor'[d] = actor[d] /\ meta'[d] = meta[d]
             \/ \E s \in sessions : actor'[d] = s.user /\ meta'[d] = s.meta
  <2> DEFINE match == {s \in Of(Evicted(cookie[c].user), cookie[c].user) :
                         s.token = cookie[c].token}
  <2>1. pc[c] = "idle" /\ meta' = [meta EXCEPT ![c] = m]
    BY <1>5, Zenon DEF sessionAuth, Enters
  <2>2. \/ UNCHANGED <<pc, actor>>
        \/ Goto(c, "acting", cookie[c].user) /\ \E s \in match : s.meta = m
    BY <1>5, Zenon DEF sessionAuth, isValid
  <2>3. \A s \in match : s \in sessions /\ s.user = cookie[c].user
    BY EvictedFacts
  <2> HIDE DEF match
  <2>4. CASE d # c
    BY <2>1, <2>2, <2>4 DEF Goto, TypeInv, TypeOK
  <2>5. CASE d = c
    <3>1. Goto(c, "acting", cookie[c].user) /\ \E s \in match : s.meta = m
      BY <2>1, <2>2, <2>5
    <3>2. meta'[c] = m /\ actor'[c] = cookie[c].user
      BY <2>1, <3>1 DEF Goto, TypeInv, TypeOK
    <3> QED
      BY <2>3, <2>5, <3>1, <3>2
  <2> QED
    BY <2>4, <2>5
<1>6. ASSUME Tick \/ UNCHANGED vars
      PROVE  pc[d] = "acting" /\ actor'[d] = actor[d] /\ meta'[d] = meta[d]
  BY <1>2, <1>6 DEF Tick, vars
<1> QED
  BY <1>3, <1>4, <1>5, <1>6 DEF Next, Handler

\* Each step keeps sessions and handlers to places of a login.
LEMMA GrantedStep == GrantedInv /\ [Next]_vars => GrantedInv'
<1> SUFFICES ASSUME GrantedInv, [Next]_vars
             PROVE  GrantedInv'
  OBVIOUS
<1> USE DEF GrantedInv
<1>1. TypeInv'
  BY TypeStep
<1>2. granted \subseteq granted'
  BY SessionsStep
<1>3. \A s \in sessions' : <<s.user, s.meta>> \in granted'
  <2>1. CASE sessions' \subseteq sessions
    BY <1>2, <2>1
  <2>2. CASE \E user \in 1..MaxUser, m \in Meta : Added(user, m)
    <3>1. PICK user \in 1..MaxUser, m \in Meta : Added(user, m)
      BY <2>2
    <3>2. \A s \in sessions' : s \in sessions \/ (s.user = user /\ s.meta = m)
      BY <3>1, EvictedFacts DEF Added
    <3>3. <<user, m>> \in granted'
      BY <3>1 DEF Added
    <3> QED
      BY <1>2, <3>2, <3>3
  <2> QED
    BY <2>1, <2>2, SessionsStep
<1>4. ServedLoggedIn'
  <2> SUFFICES ASSUME NEW d \in Client, pc'[d] = "acting"
               PROVE  <<actor'[d], meta'[d]>> \in granted'
    BY DEF ServedLoggedIn
  <2> QED
    BY <1>2, ServedStep DEF ServedLoggedIn
<1> QED
  BY <1>1, <1>3, <1>4

\* Whoever is served as a user has logged in as that user from the same place.
THEOREM ServedCorrect == Spec => []ServedLoggedIn
<1>1. Init => GrantedInv
  BY TypeInit DEF Init, GrantedInv, ServedLoggedIn
<1>2. GrantedInv => ServedLoggedIn
  BY DEF GrantedInv
<1> QED
  BY <1>1, <1>2, GrantedStep, PTL DEF Spec

-----------------------------------------------------------------------------
(* How many sessions there are.                                            *)

\* The sessions are finitely many, their tokens differ, and the limit is kept.
ApartInv ==
  /\ TokenInv
  /\ IsFiniteSet(sessions)
  /\ SessionsApart

\* A session added to a user's sessions keeps to the limit.
LEMMA AddedCount ==
  ASSUME ApartInv, NEW user \in 1..MaxUser, NEW m \in Meta, Added(user, m),
         NEW u \in 1..MaxUser
  PROVE  IsFiniteSet(sessions') /\ Cardinality(Of(sessions', u)) <= MaxSessions
<1> DEFINE new == [user |-> user, token |-> nextToken, meta |-> m, expiration |-> now' + Expiry]
           live == Evicted(user)
<1>1. live \subseteq sessions /\ sessions' = live \union {new} /\ new.user = user
  BY EvictedFacts DEF Added
<1>2. IsFiniteSet(live) /\ IsFiniteSet(Of(live, u)) /\ IsFiniteSet(Of(sessions, u))
  <2>1. Of(live, u) \subseteq sessions /\ Of(sessions, u) \subseteq sessions
    BY <1>1 DEF Of
  <2> QED
    BY <1>1, <2>1, FS_Subset DEF ApartInv
<1>3. ~TooMany(Of(live, user))
  BY DEF Added
<1> HIDE DEF new, live
<1>4. IsFiniteSet(sessions')
  BY <1>1, <1>2, FS_AddElement
<1>5. Cardinality(Of(live, u)) \in Nat /\ Cardinality(Of(sessions, u)) \in Nat
  BY <1>2, FS_CardinalityType
<1>6. CASE u = user
  <2>1. Of(sessions', u) = Of(live, u) \union {new}
    BY <1>1, <1>6 DEF Of
  <2>2. \/ Cardinality(Of(sessions', u)) = Cardinality(Of(live, u))
        \/ Cardinality(Of(sessions', u)) = Cardinality(Of(live, u)) + 1
    <3> DEFINE L == Of(live, u)
    <3>1. IsFiniteSet(L) => \/ Cardinality(L \union {new}) = Cardinality(L)
                            \/ Cardinality(L \union {new}) = Cardinality(L) + 1
      <4> HIDE DEF L
      <4> QED
        BY FS_AddElement
    <3> QED
      BY <1>2, <2>1, <3>1
  <2>3. ~(Cardinality(Of(live, u)) >= MaxSessions)
    BY <1>3, <1>6 DEF TooMany
  <2> QED
    BY <1>4, <1>5, <2>2, <2>3, NumberAssumption
<1>7. CASE u # user
  <2>1. Of(sessions', u) \subseteq Of(sessions, u)
    BY <1>1, <1>7 DEF Of
  <2>2. Cardinality(Of(sessions', u)) <= Cardinality(Of(sessions, u))
    BY <1>2, <2>1, FS_Subset
  <2>3. Cardinality(Of(sessions', u)) \in Nat
    BY <1>2, <2>1, FS_Subset, FS_CardinalityType
  <2> QED
    BY <1>4, <1>5, <2>2, <2>3, NumberAssumption DEF ApartInv, SessionsApart
<1> QED
  BY <1>6, <1>7

\* Each step keeps the sessions of a user apart and to the limit.
LEMMA ApartStep == ApartInv /\ [Next]_vars => ApartInv'
<1> SUFFICES ASSUME ApartInv, [Next]_vars
             PROVE  ApartInv'
  OBVIOUS
<1>1. TokenInv' /\ TypeInv
  BY TokenStep DEF ApartInv, TokenInv
<1>2. CASE sessions' \subseteq sessions
  <2>1. IsFiniteSet(sessions')
    BY <1>2, FS_Subset DEF ApartInv
  <2>2. ASSUME NEW s \in sessions', NEW r \in sessions',
               \/ s.token = r.token
               \/ s.user = r.user /\ s.meta = r.meta /\ ~isExpired(s, now') /\ ~isExpired(r, now')
        PROVE  s = r
    BY <1>1, <1>2, <2>2, StillExpired DEF ApartInv, SessionsApart
  <2>3. ASSUME NEW u \in 1..MaxUser
        PROVE  Cardinality(Of(sessions', u)) <= MaxSessions
    <3>1. Of(sessions', u) \subseteq Of(sessions, u) /\ Of(sessions, u) \subseteq sessions
      BY <1>2 DEF Of
    <3>2. IsFiniteSet(Of(sessions, u)) /\ IsFiniteSet(Of(sessions', u))
      BY <3>1, FS_Subset DEF ApartInv
    <3>3. Cardinality(Of(sessions', u)) <= Cardinality(Of(sessions, u))
      BY <3>1, <3>2, FS_Subset
    <3>4. Cardinality(Of(sessions', u)) \in Nat /\ Cardinality(Of(sessions, u)) \in Nat
      BY <3>2, FS_CardinalityType
    <3> QED
      BY <3>3, <3>4, NumberAssumption DEF ApartInv, SessionsApart
  <2> QED
    BY <1>1, <2>1, <2>2, <2>3 DEF ApartInv, SessionsApart, Of
<1>3. CASE \E user \in 1..MaxUser, m \in Meta : Added(user, m)
  <2>1. PICK user \in 1..MaxUser, m \in Meta : Added(user, m)
    BY <1>3
  <2> DEFINE new == [user |-> user, token |-> nextToken, meta |-> m, expiration |-> now' + Expiry]
  <2>2. \A s \in sessions' : s \in Evicted(user) \/ s = new
    BY <2>1 DEF Added
  <2>3. new.user = user /\ new.meta = m
    OBVIOUS
  <2>4. /\ \A s \in Evicted(user) : s \in sessions
        /\ \A s \in Evicted(user) : s.user = user /\ s.meta = m => isExpired(s, now')
    BY <2>1, EvictedFacts, Zenon DEF Added, Of, isValid
  <2> HIDE DEF new
  <2>5. ASSUME NEW s \in sessions', NEW r \in sessions',
               s.user = r.user, s.meta = r.meta, ~isExpired(s, now'), ~isExpired(r, now')
        PROVE  s = r
    <3>1. CASE s \in sessions /\ r \in sessions
      BY <1>1, <2>5, <3>1, StillExpired DEF ApartInv, SessionsApart
    <3>2. CASE s = new /\ r = new
      BY <3>2
    <3>3. CASE s = new /\ r \in Evicted(user)
      BY <2>3, <2>4, <2>5, <3>3
    <3>4. CASE r = new /\ s \in Evicted(user)
      BY <2>3, <2>4, <2>5, <3>4
    <3> QED
      BY <2>2, <2>4, <3>1, <3>2, <3>3, <3>4
  <2>6. \A s, r \in sessions' : s.token = r.token => s = r
    BY <1>1 DEF TokenInv
  <2>7. \A u \in 1..MaxUser : Cardinality(Of(sessions', u)) <= MaxSessions
    BY <2>1, AddedCount
  <2>8. IsFiniteSet(sessions')
    BY <2>1, AddedCount
  <2> QED
    BY <1>1, <2>5, <2>6, <2>7, <2>8 DEF ApartInv, SessionsApart, Of
<1> QED
  BY <1>1, <1>2, <1>3, SessionsStep

\* No two unexpired sessions of a user are from one place, and no user has too
\* many sessions.
THEOREM ApartCorrect == Spec => []SessionsApart
<1>1. Init => ApartInv
  <2> SUFFICES ASSUME Init
               PROVE  ApartInv
    OBVIOUS
  <2>1. TokenInv
    BY TypeInit DEF Init, TokenInv, RevokedGone
  <2>2. IsFiniteSet(sessions)
    BY FS_EmptySet DEF Init
  <2>3. \A u \in 1..MaxUser : Of(sessions, u) = {}
    BY DEF Init, Of
  <2>4. \A u \in 1..MaxUser : Cardinality(Of(sessions, u)) <= MaxSessions
    BY <2>3, FS_EmptySet, NumberAssumption
  <2> QED
    BY <2>1, <2>2, <2>4 DEF ApartInv, SessionsApart, Init
<1>2. ApartInv => SessionsApart
  BY DEF ApartInv
<1> QED
  BY <1>1, <1>2, ApartStep, PTL DEF Spec

-----------------------------------------------------------------------------
(* How sessions end.                                                       *)

\* A session ends when it has expired, when its token was shown from another
\* place, or when a handler acting for its user removes it.
THEOREM SessionsEndCorrect == Spec => SessionsEndRightly
<1> DEFINE Ends == \A s \in sessions \ sessions' :
                     \/ isExpired(s, now')
                     \/ s.token \in revoked'
                     \/ \E c \in Client : pc[c] = "acting" /\ actor[c] = s.user /\ pc'[c] = "idle"
<1>1. TypeInv /\ [Next]_vars => [Ends]_vars
  <2> SUFFICES ASSUME TypeInv, Next
               PROVE  Ends
    OBVIOUS
  <2> USE DEF userVars, sessionVars, clientVars, ghosts
  <2>1. CASE sessions \subseteq sessions'
    BY <2>1
  <2>2. ASSUME NEW c \in Client, NEW m \in Meta, sessionAdd(c, m)
        PROVE  Ends
    <3>1. Evicted(actor[c]) \subseteq sessions'
      BY <2>2, SessionAddStep DEF Added
    <3> QED
      BY <3>1, EvictedFacts, StillExpired
  <2>3. ASSUME NEW c \in Client, NEW m \in Meta, sessionAuth(c, m)
        PROVE  Ends
    BY <2>3, SessionAuthStep
  <2>4. ASSUME NEW c \in Client, sessionRemove(c)
        PROVE  Ends
    <3>1. PICK s \in Of(sessions, actor[c]) : sessions' = eraseIndex(sessions, s)
      BY <2>4 DEF sessionRemove
    <3>2. \A r \in sessions \ sessions' : r.user = actor[c]
      BY <3>1 DEF Of, eraseIndex
    <3>3. pc[c] = "acting" /\ pc'[c] = "idle"
      BY <2>4 DEF sessionRemove, Enters, Goto, TypeInv, TypeOK
    <3> QED
      BY <3>2, <3>3
  <2>5. ASSUME NEW c \in Client, NEW name \in Name, NEW password \in Password,
               \/ userAdd(c, name, password) \/ userChangeCredentials(c, name, password)
               \/ \E key \in 0..MaxUser : userLoginPassword(c, name, password, key)
        PROVE  sessions \subseteq sessions'
    BY <2>5 DEF userAdd, userChangeCredentials, userLoginPassword
  <2>6. ASSUME NEW c \in Client, MissingHeaders(c) \/ Respond(c)
                                   \/ \E user \in 1..MaxUser : userRemove(c, user)
        PROVE  sessions \subseteq sessions'
    BY <2>6 DEF MissingHeaders, Respond, userRemove
  <2>7. Tick => sessions \subseteq sessions'
    BY DEF Tick
  <2> QED
    BY <2>1, <2>2, <2>3, <2>4, <2>5, <2>6, <2>7, Zenon DEF Next, Handler
<1> QED
  BY <1>1, TypeInit, TypeStep, PTL DEF Spec, SessionsEndRightly
=============================================================================
