------------------------- MODULE AccountPagesProofs -------------------------
(***************************************************************************)
(* Proofs about AccountPages, for any names, any number of keys and        *)
(* requests, and codes of any length.                                      *)
(***************************************************************************)
EXTENDS AccountPages, SequenceTheorems, TLAPS

(***************************************************************************)
(* Requests.                                                               *)
(***************************************************************************)

NetType == net \in [Slot -> Request]

\* The mark of a free slot is a request, which is neither a registration nor in
\* any state but idle.
LEMMA IdleType == Idle \in Request /\ Idle.op = "login" /\ Idle.at = "idle" /\ Idle.key = NoKey
BY NumberAssumption, SMT DEF Idle, Request, NoKey

\* What the page asks for is a request.
LEMMA FetchType ==
  ASSUME NEW op \in {"register", "login"}, NEW k \in 0..MaxKey, form \in Name \union {Blank}
  PROVE  /\ Fetch(op, k) \in Request /\ Fetch(op, k).op = op /\ Fetch(op, k).key = k
         /\ Fetch(op, k).at = "sent" /\ Fetch(op, k).name = form
BY SMT DEF Fetch, Request

\* So is a login with a passkey.
LEMMA PasskeyType ==
  ASSUME NEW r, r = [Idle EXCEPT !.op = "passkey", !.at = "sent"]
  PROVE  r \in Request /\ r.op = "passkey" /\ r.at = "sent" /\ r.key = NoKey
<1>1. Idle \in Request
  BY IdleType
<1>2. r \in Request
  BY <1>1, Zenon DEF Request
<1>3. r.op = "passkey" /\ r.at = "sent" /\ r.key = NoKey
  BY SMT DEF Idle
<1> QED
  BY <1>2, <1>3

\* The parts of a request.
LEMMA Fields ==
  \A r \in Request :
    /\ r.op \in {"register", "login", "passkey"} /\ r.name \in Name \union {Blank}
    /\ r.key \in 0..MaxKey /\ r.at \in {"idle", "sent", "ok", "failed"}
BY SMT DEF Request

\* A request leaves in a free slot, and no other slot changes.
LEMMA SendSlot ==
  ASSUME NetType, NEW r \in Request, Send(r)
  PROVE  /\ NetType'
         /\ \E s \in Slot : ~Busy(s) /\ net'[s] = r /\ \A q \in Slot \ {s} : net'[q] = net[q]
BY Zenon DEF Send, NetType

\* A request is answered, with a key or with a refusal.
Answer(s, at, k) ==
  \/ at = "ok" /\ Respond(s, k)
  \/ at = "failed" /\ k = NoKey /\ Refuse(s)

\* The server's operations and the network's losses answer in one of these ways.
LEMMA Answers ==
  /\ \A s \in Slot : Refuse(s) => Answer(s, "failed", NoKey)
  /\ \A s \in Slot, k \in 0..MaxKey : Respond(s, k) => Answer(s, "ok", k)
BY Zenon DEF Answer

\* The answer goes on in the slot of its request, and keeps what it was about
\* unless it refuses.
LEMMA AnswerSlot ==
  ASSUME NetType, NEW s \in Slot, NEW at \in {"ok", "failed"}, NEW k \in 0..MaxKey, Answer(s, at, k)
  PROVE  /\ NetType'
         /\ net'[s].at = at /\ net'[s].key = k
         /\ at = "ok" => net'[s].op = net[s].op
         /\ \A q \in Slot \ {s} : net'[q] = net[q]
<1>1. net[s] \in Request
  BY DEF NetType
<1>2. ASSUME NEW r \in Request, r.at = at, r.key = k, at = "ok" => r.op = net[s].op,
             net' = [net EXCEPT ![s] = r]
      PROVE  /\ NetType'
             /\ net'[s].at = at /\ net'[s].key = k
             /\ at = "ok" => net'[s].op = net[s].op
             /\ \A q \in Slot \ {s} : net'[q] = net[q]
  BY <1>2, Zenon DEF NetType
<1>3. CASE at = "ok" /\ Respond(s, k)
  <2> DEFINE r == [[[net[s] EXCEPT !.at = "ok"] EXCEPT !.key = k] EXCEPT !.name = Blank]
  <2>1. net' = [net EXCEPT ![s] = r]
    BY <1>3, Zenon DEF Respond
  <2>2. r \in Request
    BY <1>1, Zenon DEF Request
  <2>3. r.op = net[s].op /\ r.at = "ok" /\ r.key = k
    BY <1>1, SMT DEF Request
  <2> HIDE DEF r
  <2> QED
    BY <1>2, <1>3, <2>1, <2>2, <2>3
<1>4. CASE at = "failed" /\ k = NoKey /\ Refuse(s)
  <2> DEFINE r == [[Idle EXCEPT !.at = "failed"] EXCEPT !.left = net[s].left]
  <2>1. net' = [net EXCEPT ![s] = r]
    BY <1>4, Zenon DEF Refuse
  <2>2. net[s].left \in BOOLEAN
    BY <1>1, SMT DEF Request
  <2>3. r \in Request
    BY <2>2, IdleType, Zenon DEF Request
  <2>4. r.at = "failed" /\ r.key = NoKey
    BY SMT DEF Idle
  <2> HIDE DEF r
  <2>5. r.at = at /\ r.key = k /\ at # "ok"
    BY <1>4, <2>4
  <2> QED
    BY <1>2, <2>1, <2>3, <2>5
<1> QED
  BY <1>3, <1>4 DEF Answer

\* A slot is freed.
LEMMA DoneSlot ==
  ASSUME NetType, NEW s \in Slot
  PROVE  /\ Done(s) \in [Slot -> Request]
         /\ Done(s)[s] = Idle
         /\ \A q \in Slot \ {s} : Done(s)[q] = net[q]
BY IdleType, Zenon DEF Done, NetType

\* Leaving a page leaves what was asked for.
LEMMA AbandonedSlots ==
  ASSUME NEW n \in [Slot -> Request]
  PROVE  /\ Abandoned(n) \in [Slot -> Request]
         /\ \A s \in Slot : /\ Abandoned(n)[s].op = n[s].op /\ Abandoned(n)[s].name = n[s].name
                            /\ Abandoned(n)[s].at = n[s].at /\ Abandoned(n)[s].key = n[s].key
<1>1. ASSUME NEW s \in Slot
      PROVE  /\ Abandoned(n)[s] \in Request
             /\ Abandoned(n)[s].op = n[s].op /\ Abandoned(n)[s].name = n[s].name
             /\ Abandoned(n)[s].at = n[s].at /\ Abandoned(n)[s].key = n[s].key
  <2>1. n[s] \in Request
    OBVIOUS
  <2>2. Abandoned(n)[s] = IF n[s].at = "idle" THEN n[s] ELSE [n[s] EXCEPT !.left = TRUE]
    BY Zenon DEF Abandoned
  <2>3. [n[s] EXCEPT !.left = TRUE] \in Request
    BY <2>1, Zenon DEF Request
  <2>4. /\ [n[s] EXCEPT !.left = TRUE].op = n[s].op /\ [n[s] EXCEPT !.left = TRUE].name = n[s].name
        /\ [n[s] EXCEPT !.left = TRUE].at = n[s].at /\ [n[s] EXCEPT !.left = TRUE].key = n[s].key
    BY <2>1, SMT DEF Request
  <2> QED
    BY <2>1, <2>2, <2>3, <2>4, Zenon
<1>2. Abandoned(n) = [s \in Slot |-> Abandoned(n)[s]]
  BY Zenon DEF Abandoned
<1> QED
  BY <1>1, <1>2, Zenon

(***************************************************************************)
(* Types.                                                                  *)
(***************************************************************************)

FormType == page \in {"signup", "login", "dashboard"} /\ form \in Name \union {Blank} /\ error \in BOOLEAN

TotpType == totp \in Seq(Digit) /\ totpOpen \in BOOLEAN

KeyType ==
  /\ qr \in 0..MaxKey /\ session \in 0..MaxKey
  /\ scanned \subseteq Key /\ excused \subseteq Key /\ mishaps \in Nat

ServerType == accounts \subseteq Account /\ nextKey \in 1..(MaxKey + 1)

\* A registration that is under way has the name the page has validated.
Named == \A s \in Slot : net[s].op = "register" /\ net[s].at = "sent" => net[s].name \in Name

TypeInv == FormType /\ TotpType /\ KeyType /\ ServerType /\ NetType /\ Named

\* The parts are the whole, but for the names.
LEMMA TypeParts == TypeOK <=> FormType /\ TotpType /\ KeyType /\ ServerType /\ NetType
BY Zenon DEF TypeOK, FormType, TotpType, KeyType, ServerType, NetType

\* The pages start with their types.
LEMMA TypeInit == Init => TypeInv
<1> SUFFICES ASSUME Init
             PROVE  TypeInv
  OBVIOUS
<1>1. FormType
  BY Zenon DEF Init, FormType
<1>2. TotpType
  BY EmptySeq, Zenon DEF Init, TotpType
<1>3. KeyType /\ ServerType
  BY NumberAssumption, SMT DEF Init, KeyType, ServerType, NoKey
<1>4. NetType
  BY IdleType, Zenon DEF Init, NetType
<1>5. Named
  <2>1. \A s \in Slot : net[s] = Idle
    BY Zenon DEF Init
  <2>2. Idle.op # "register"
    BY IdleType
  <2> QED
    BY <2>1, <2>2, Zenon DEF Named
<1> QED
  BY <1>1, <1>2, <1>3, <1>4, <1>5 DEF TypeInv

\* A key that is made away with is a key.
LEMMA MadeAwayType ==
  ASSUME KeyType, NEW k \in 0..MaxKey, MadeAway(k)
  PROVE  /\ excused' \subseteq Key
         /\ excused \subseteq excused'
         /\ k # NoKey => k \in scanned \union excused'
<1>1. k # NoKey => k \in Key
  BY NumberAssumption, SMT DEF Key, NoKey
<1> QED
  BY <1>1, Zenon DEF MadeAway, KeyType

\* The name of a registration stays, and a new one has been validated.
LEMMA NamedSent ==
  ASSUME NetType, Named, NEW r \in Request, r.op = "register" => r.name \in Name, Send(r)
  PROVE  NetType' /\ Named'
<1>1. PICK s \in Slot : net'[s] = r /\ \A q \in Slot \ {s} : net'[q] = net[q]
  BY SendSlot
<1> QED
  BY <1>1, SendSlot, Zenon DEF Named

\* So does it when another request is answered, or lost.
LEMMA NamedAnswered ==
  ASSUME NetType, Named, NEW s \in Slot, NEW at \in {"ok", "failed"}, NEW k \in 0..MaxKey,
         Answer(s, at, k)
  PROVE  NetType' /\ Named'
<1>1. NetType' /\ net'[s].at # "sent" /\ \A q \in Slot \ {s} : net'[q] = net[q]
  BY AnswerSlot
<1> QED
  BY <1>1, Zenon DEF Named

\* And when a request has ended.
LEMMA NamedDone ==
  ASSUME NetType, Named, NEW s \in Slot
  PROVE  Done(s) \in [Slot -> Request]
         /\ \A q \in Slot : Done(s)[q].op = "register" /\ Done(s)[q].at = "sent" => Done(s)[q].name \in Name
<1>1. Idle.op # "register"
  BY IdleType
<1> QED
  BY <1>1, DoneSlot, Zenon DEF Named

\* And when the page is left.
LEMMA NamedLoad ==
  ASSUME KeyType, NEW p \in {"signup", "login", "dashboard"}, NEW n \in [Slot -> Request],
         \A q \in Slot : n[q].op = "register" /\ n[q].at = "sent" => n[q].name \in Name, Load(p, n)
  PROVE  FormType' /\ TotpType' /\ NetType' /\ Named' /\ qr' \in 0..MaxKey /\ excused' \subseteq Key
<1>1. FormType'
  BY Zenon DEF Load, Blanked, FormType
<1>2. TotpType'
  BY EmptySeq, Zenon DEF Load, Blanked, TotpType
<1>3. NetType' /\ Named'
  <2>1. net' = Abandoned(n)
    BY DEF Load
  <2> QED
    BY <2>1, AbandonedSlots, Zenon DEF NetType, Named
<1>4. qr' \in 0..MaxKey
  <2>1. qr' = NoKey
    BY DEF Load, Blanked
  <2> QED
    BY <2>1, NumberAssumption, SMT DEF NoKey
<1>5. excused' \subseteq Key
  BY MadeAwayType DEF Load, KeyType
<1> QED
  BY <1>1, <1>2, <1>3, <1>4, <1>5

\* The key of a code is a key, or none.
LEMMA KeyOfType ==
  ASSUME NEW code
  PROVE  /\ KeyOf(code) \in 0..MaxKey
         /\ KeyOf(code) # NoKey => \E k \in Key : code = Code(k) /\ KeyOf(code) = k
<1>0. 1 \in 1..CodeLen
  BY NumberAssumption, SMT
<1>1. \A k \in Key : Code(k)[1][1] = k
  <2>1. \A k \in Key : Code(k)[1] = <<k, 1>>
    BY <1>0, Zenon DEF Code
  <2> QED
    BY <2>1, SMT
<1>2. CASE \E k \in Key : code = Code(k)
  <2>1. PICK k \in Key : code = Code(k)
    BY <1>2
  <2>2. KeyOf(code) = k
    BY <1>1, <1>2, <2>1, Zenon DEF KeyOf
  <2>3. k \in 0..MaxKey
    BY NumberAssumption, SMT DEF Key
  <2> QED
    BY <2>1, <2>2, <2>3
<1>3. CASE ~\E k \in Key : code = Code(k)
  <2>1. KeyOf(code) = NoKey
    BY <1>3, Zenon DEF KeyOf
  <2>2. NoKey \in 0..MaxKey
    BY NumberAssumption, SMT DEF NoKey
  <2> QED
    BY <2>1, <2>2
<1> QED
  BY <1>2, <1>3

\* Every key is between none and the last.
LEMMA KeyRange == Key \subseteq 0..MaxKey /\ NoKey \in 0..MaxKey /\ NoKey \notin Key
BY NumberAssumption, SMT DEF Key, NoKey

\* What the person does keeps every variable's type.
LEMMA TypePerson == TypeInv /\ Person => TypeInv'
<1> SUFFICES ASSUME TypeInv, Person
             PROVE  TypeInv'
  OBVIOUS
<1>0. FormType /\ TotpType /\ KeyType /\ ServerType /\ NetType /\ Named
  BY DEF TypeInv
<1>n. form \in Name \union {Blank}
  BY <1>0 DEF FormType
<1>s. UNCHANGED server => ServerType'
  BY <1>0, Zenon DEF server, ServerType
<1>k. KeyRange /\ <<>> \in Seq(Digit)
  BY KeyRange, EmptySeq
<1>a. ASSUME NEW code, HandlePasswordLogin(code)
      PROVE  NetType' /\ Named' /\ form' \in Name \union {Blank} /\ totp' \in Seq(Digit)
  <2>1. KeyOf(code) \in 0..MaxKey
    BY KeyOfType
  <2> DEFINE r == Fetch("login", KeyOf(code))
  <2>2. r \in Request /\ r.op = "login"
    BY <1>n, <2>1, FetchType
  <2> HIDE DEF r
  <2>3. Send(r) /\ form' = Blank /\ totp' = <<>>
    BY <1>a DEF HandlePasswordLogin, r
  <2>4. r.op = "register" => r.name \in Name
    BY <2>2
  <2> QED
    BY <1>0, <1>k, <2>2, <2>3, <2>4, NamedSent
<1>1. ASSUME NEW p \in {"signup", "login", "dashboard"}, Open(p)
      PROVE  TypeInv'
  <2>1. Load(p, net) /\ UNCHANGED server /\ UNCHANGED <<session, scanned>>
    BY <1>1 DEF Open
  <2>2. FormType' /\ TotpType' /\ NetType' /\ Named' /\ qr' \in 0..MaxKey /\ excused' \subseteq Key
    BY <1>0, <2>1, NamedLoad, Zenon DEF NetType, Named
  <2>3. mishaps' \in Nat
    <3>1. mishaps \in Nat /\ (mishaps' = mishaps \/ mishaps' = mishaps + 1)
      BY <1>0, <1>1, Zenon DEF KeyType, Open, Mishap
    <3> QED
      BY <3>1, SMT
  <2>4. KeyType'
    BY <1>0, <2>1, <2>2, <2>3, Zenon DEF KeyType
  <2> QED
    BY <1>s, <2>1, <2>2, <2>4, Zenon DEF TypeInv
<1>2. ASSUME NEW n \in Name \union {Blank}, Type(n)
      PROVE  TypeInv'
  <2>1. FormType'
    BY <1>0, <1>2, Zenon DEF Type, FormType
  <2>2. TotpType' /\ KeyType' /\ NetType' /\ Named'
    BY <1>0, <1>2, Zenon DEF Type, popups, TotpType, KeyType, NetType, Named
  <2> QED
    BY <1>s, <1>2, <2>1, <2>2, Zenon DEF TypeInv, Type
<1>3. CASE SubmitSignUp
  <2>1. FormType' /\ TotpType' /\ KeyType' /\ UNCHANGED server
    BY <1>0, <1>3, Zenon DEF SubmitSignUp, FormType, TotpType, KeyType, popups
  <2>2. NetType' /\ Named'
    <3>1. CASE form # Blank
      <4> DEFINE r == Fetch("register", NoKey)
      <4>1. r \in Request /\ r.name = form
        BY <1>n, KeyRange, FetchType
      <4>2. Send(r) /\ form \in Name
        BY <1>3, <1>n, <3>1 DEF SubmitSignUp
      <4> HIDE DEF r
      <4> QED
        BY <1>0, <4>1, <4>2, NamedSent
    <3>2. CASE form = Blank
      BY <1>0, <1>3, <3>2, Zenon DEF SubmitSignUp, NetType, Named
    <3> QED
      BY <3>1, <3>2
  <2> QED
    BY <1>s, <2>1, <2>2, Zenon DEF TypeInv
<1>4. CASE Scan
  <2>1. qr \in Key
    BY <1>0, <1>4, NumberAssumption, SMT DEF Scan, KeyType, Key, NoKey
  <2>2. FormType' /\ TotpType' /\ KeyType' /\ NetType' /\ Named' /\ UNCHANGED server
    BY <1>0, <1>4, <2>1, Zenon DEF Scan, popups, FormType, TotpType, KeyType, NetType, Named
  <2> QED
    BY <1>s, <2>2, Zenon DEF TypeInv
<1>5. CASE PasskeySignUp
  <2>1. FormType' /\ TotpType' /\ KeyType' /\ NetType' /\ Named' /\ UNCHANGED server
    BY <1>0, <1>5, Zenon DEF PasskeySignUp, FormType, TotpType, KeyType, NetType, Named, popups
  <2> QED
    BY <1>s, <2>1, Zenon DEF TypeInv
<1>6. CASE SubmitLogin
  <2>1. FormType' /\ TotpType' /\ KeyType' /\ NetType' /\ Named' /\ UNCHANGED server
    BY <1>0, <1>6, Zenon DEF SubmitLogin, FormType, TotpType, KeyType, NetType, Named
  <2> QED
    BY <1>s, <2>1, Zenon DEF TypeInv
<1>7. CASE TypeTotp
  <2>0. UNCHANGED <<page, qr, error, session, scanned, excused, mishaps>> /\ UNCHANGED server
    BY <1>7, Zenon DEF TypeTotp
  <2>1. KeyType' /\ page' \in {"signup", "login", "dashboard"} /\ error' \in BOOLEAN
    BY <1>0, <2>0, Zenon DEF KeyType, FormType
  <2>2. ASSUME NEW value \in Seq(Digit), InputTotp(value)
        PROVE  NetType' /\ Named' /\ form' \in Name \union {Blank} /\ totp' \in Seq(Digit)
               /\ totpOpen' \in BOOLEAN
    <3>1. CASE Len(value) >= CodeLen
      BY <1>a, <2>2, <3>1, Zenon DEF InputTotp
    <3>2. CASE ~(Len(value) >= CodeLen)
      BY <1>0, <2>2, <3>2, Zenon DEF InputTotp, NetType, Named, FormType, TotpType
    <3> QED
      BY <3>1, <3>2
  <2>3. \A d \in scanned \X (1..CodeLen) : Append(totp, d) \in Seq(Digit)
    <3>1. scanned \X (1..CodeLen) \subseteq Digit
      BY <1>0, Zenon DEF KeyType, Digit
    <3> QED
      BY <1>0, <3>1, AppendProperties, Zenon DEF TotpType
  <2>4. NetType' /\ Named' /\ form' \in Name \union {Blank} /\ totp' \in Seq(Digit)
        /\ totpOpen' \in BOOLEAN
    BY <1>7, <1>k, <2>2, <2>3, Zenon DEF TypeTotp
  <2> QED
    BY <1>s, <2>0, <2>1, <2>4, Zenon DEF TypeInv, FormType, TotpType
<1>8. CASE ClickSubmitTotp
  <2>0. UNCHANGED <<page, qr, session, scanned, excused, mishaps>> /\ UNCHANGED server
    BY <1>8, Zenon DEF ClickSubmitTotp
  <2>1. KeyType' /\ page' \in {"signup", "login", "dashboard"} /\ totpOpen' \in BOOLEAN
        /\ error' \in BOOLEAN
    BY <1>0, <1>8, <2>0, Zenon DEF KeyType, FormType, ClickSubmitTotp
  <2>2. NetType' /\ Named' /\ form' \in Name \union {Blank} /\ totp' \in Seq(Digit)
    <3>1. CASE Len(totp) = CodeLen
      BY <1>8, <1>a, <3>1, Zenon DEF ClickSubmitTotp
    <3>2. CASE Len(totp) # CodeLen
      BY <1>0, <1>8, <3>2, Zenon DEF ClickSubmitTotp, NetType, Named, FormType, TotpType
    <3> QED
      BY <3>1, <3>2
  <2> QED
    BY <1>s, <2>0, <2>1, <2>2, Zenon DEF TypeInv, FormType, TotpType
<1>9. CASE PasskeyLogin
  <2>1. FormType' /\ TotpType' /\ KeyType' /\ UNCHANGED server
    BY <1>0, <1>9, Zenon DEF PasskeyLogin, FormType, TotpType, KeyType, popups
  <2>2. NetType' /\ Named'
    <3> DEFINE r == [Idle EXCEPT !.op = "passkey", !.at = "sent"]
    <3>1. r \in Request /\ r.op = "passkey"
      BY PasskeyType
    <3>2. Send(r) \/ UNCHANGED net
      BY <1>9 DEF PasskeyLogin
    <3> HIDE DEF r
    <3>3. CASE Send(r)
      <4>1. r.op = "register" => r.name \in Name
        BY <3>1
      <4> QED
        BY <1>0, <3>1, <3>3, <4>1, NamedSent
    <3>4. CASE UNCHANGED net
      BY <1>0, <3>4, Zenon DEF NetType, Named
    <3> QED
      BY <3>2, <3>3, <3>4
  <2> QED
    BY <1>s, <2>1, <2>2, Zenon DEF TypeInv
<1> QED
  BY <1>1, <1>2, <1>3, <1>4, <1>5, <1>6, <1>7, <1>8, <1>9, Zenon DEF Person

\* The server keeps every variable's type: only what the page validated is
\* registered.
LEMMA TypeServe == \A s \in Slot : TypeInv /\ Serve(s) => TypeInv'
<1> SUFFICES ASSUME NEW s \in Slot, TypeInv, Serve(s)
             PROVE  TypeInv'
  OBVIOUS
<1>0. FormType /\ TotpType /\ KeyType /\ ServerType /\ NetType /\ Named
  BY DEF TypeInv
<1>1. FormType' /\ TotpType' /\ KeyType'
  BY <1>0, Zenon DEF Serve, popups, FormType, TotpType, KeyType
<1>2. ServerType' /\ \E at \in {"ok", "failed"}, k \in 0..MaxKey : Answer(s, at, k)
  <2>1. CASE Register(s)
    <3>1. CASE Refuse(s) /\ UNCHANGED server
      BY <1>0, <3>1, KeyRange, Answers, Zenon DEF ServerType, server
    <3>2. CASE /\ nextKey <= MaxKey
               /\ accounts' = accounts \union {[name |-> net[s].name, key |-> nextKey]}
               /\ nextKey' = nextKey + 1
               /\ Respond(s, nextKey)
      <4>1. nextKey \in 0..MaxKey /\ nextKey \in Key /\ nextKey' \in 1..(MaxKey + 1)
        BY <1>0, <3>2, NumberAssumption, SMT DEF ServerType, Key
      <4>2. net[s].name \in Name
        BY <1>0, <2>1, Zenon DEF Register, Named
      <4>3. [name |-> net[s].name, key |-> nextKey] \in Account
        BY <4>1, <4>2, Zenon DEF Account
      <4> QED
        BY <1>0, <3>2, <4>1, <4>3, Answers, Zenon DEF ServerType
    <3> QED
      BY <2>1, <3>1, <3>2, Zenon DEF Register
  <2>2. CASE Login(s)
    <3>1. \A a \in accounts : a.key \in 0..MaxKey
      <4>1. \A a \in Account : a.key \in Key
        BY SMT DEF Account
      <4> QED
        BY <1>0, <4>1, KeyRange, Zenon DEF ServerType
    <3> QED
      BY <1>0, <2>2, <3>1, KeyRange, Answers, Zenon DEF Login, ServerType, server
  <2>3. CASE Passkey(s)
    BY <1>0, <2>3, KeyRange, Answers, Zenon DEF Passkey, ServerType, server
  <2> QED
    BY <2>1, <2>2, <2>3, Zenon DEF Serve
<1>3. NetType' /\ Named'
  BY <1>0, <1>2, NamedAnswered, Zenon
<1> QED
  BY <1>1, <1>2, <1>3 DEF TypeInv

\* So does the network.
LEMMA TypeLose == \A s \in Slot : TypeInv /\ Lose(s) => TypeInv'
<1> SUFFICES ASSUME NEW s \in Slot, TypeInv, Lose(s)
             PROVE  TypeInv'
  OBVIOUS
<1>0. FormType /\ TotpType /\ KeyType /\ ServerType /\ NetType /\ Named
  BY DEF TypeInv
<1>1. FormType' /\ TotpType' /\ ServerType' /\ UNCHANGED <<qr, session, scanned>>
  BY <1>0, Zenon DEF Lose, popups, server, FormType, TotpType, ServerType
<1>2. net[s].key \in 0..MaxKey
  BY <1>0, Fields, Zenon DEF NetType
<1>3. excused' \subseteq Key
  BY <1>0, <1>2, MadeAwayType, Zenon DEF Lose, KeyType
<1>4. mishaps' \in Nat
  BY <1>0, SMT DEF Lose, Mishap, KeyType
<1>5. KeyType'
  BY <1>0, <1>1, <1>3, <1>4, Zenon DEF KeyType
<1>6. NetType' /\ Named'
  <2>1. Answer(s, "failed", NoKey)
    BY Answers DEF Lose
  <2> QED
    BY <1>0, <2>1, KeyRange, Answers, NamedAnswered, Zenon
<1> QED
  BY <1>1, <1>5, <1>6 DEF TypeInv

\* So does an answer.
LEMMA TypeAnswered == \A s \in Slot : TypeInv /\ Answered(s) => TypeInv'
<1> SUFFICES ASSUME NEW s \in Slot, TypeInv, Answered(s)
             PROVE  TypeInv'
  OBVIOUS
<1>0. FormType /\ TotpType /\ KeyType /\ ServerType /\ NetType /\ Named
  BY DEF TypeInv
<1>k. net[s].key \in 0..MaxKey /\ qr \in 0..MaxKey
  BY <1>0, Fields, Zenon DEF NetType, KeyType
<1>n. Done(s) \in [Slot -> Request]
      /\ \A q \in Slot : Done(s)[q].op = "register" /\ Done(s)[q].at = "sent" => Done(s)[q].name \in Name
  BY <1>0, NamedDone
<1>d. net' = Done(s) => NetType' /\ Named'
  BY <1>n, Zenon DEF NetType, Named
<1>1. CASE Unheard(s)
  <2>1. FormType' /\ TotpType' /\ ServerType'
    BY <1>0, <1>1, Zenon DEF Unheard, popups, server, FormType, TotpType, ServerType
  <2>2. excused' \subseteq Key
    BY <1>0, <1>1, <1>k, MadeAwayType, Zenon DEF Unheard, KeyType
  <2>3. KeyType'
    BY <1>0, <1>1, <1>k, <2>2, Zenon DEF Unheard, popups, KeyType
  <2> QED
    BY <1>1, <1>d, <2>1, <2>3, Zenon DEF Unheard, TypeInv
<1>2. CASE Failed(s)
  <2>1. FormType' /\ TotpType' /\ ServerType' /\ KeyType'
    BY <1>0, <1>2, Zenon DEF Failed, popups, server, FormType, TotpType, ServerType, KeyType
  <2> QED
    BY <1>2, <1>d, <2>1, Zenon DEF Failed, TypeInv
<1>3. CASE Registered(s)
  <2>1. FormType' /\ TotpType' /\ ServerType'
    BY <1>0, <1>3, Zenon DEF Registered, server, FormType, TotpType, ServerType
  <2>2. excused' \subseteq Key
    BY <1>0, <1>3, <1>k, MadeAwayType, Zenon DEF Registered
  <2>3. KeyType'
    BY <1>0, <1>3, <1>k, <2>2, Zenon DEF Registered, KeyType
  <2> QED
    BY <1>3, <1>d, <2>1, <2>3, Zenon DEF Registered, TypeInv
<1>4. CASE LoggedIn(s)
  <2>1. Load("dashboard", Done(s)) /\ session' = net[s].key /\ UNCHANGED <<scanned, mishaps>>
        /\ UNCHANGED server
    BY <1>4, Zenon DEF LoggedIn
  <2>2. FormType' /\ TotpType' /\ NetType' /\ Named' /\ qr' \in 0..MaxKey /\ excused' \subseteq Key
    BY <1>0, <1>n, <2>1, NamedLoad
  <2>3. KeyType' /\ ServerType'
    BY <1>0, <1>k, <2>1, <2>2, Zenon DEF KeyType, ServerType, server
  <2> QED
    BY <2>2, <2>3 DEF TypeInv
<1> QED
  BY <1>1, <1>2, <1>3, <1>4, Zenon DEF Answered

\* Every step keeps every variable's type.
LEMMA TypeStep == TypeInv /\ [Next]_vars => TypeInv'
<1>1. TypeInv /\ UNCHANGED vars => TypeInv'
  <2> SUFFICES ASSUME TypeInv, UNCHANGED vars
               PROVE  TypeInv'
    OBVIOUS
  <2>1. UNCHANGED popups /\ UNCHANGED server
        /\ UNCHANGED <<page, form, error, net, session, scanned, excused, mishaps>>
    BY Zenon DEF vars
  <2> QED
    BY <2>1, Zenon DEF popups, server, TypeInv, FormType, TotpType, KeyType, ServerType, NetType, Named
<1> QED
  BY <1>1, TypePerson, TypeServe, TypeLose, TypeAnswered, Zenon DEF Next

\* Forms, keys, requests and accounts keep their types (signup.js, login.js).
THEOREM TypeCorrect == Spec => []TypeOK
<1>1. TypeInv => TypeOK
  BY TypeParts DEF TypeInv
<1> QED
  BY <1>1, TypeInit, TypeStep, PTL DEF Spec

\* The type invariant with the names.
LEMMA TypeInvariant == Spec => []TypeInv
BY TypeInit, TypeStep, PTL DEF Spec

(***************************************************************************)
(* The code that is typed.                                                 *)
(***************************************************************************)

\* The digits in the pop-up are of codes that the app shows, and not yet whole.
CodeInv ==
  /\ \A i \in 1..Len(totp) : totp[i] \in scanned \X (1..CodeLen)
  /\ Len(totp) < CodeLen

\* No digit is typed at the start.
LEMMA CodeInit == Init => CodeInv
BY NumberAssumption, SMT DEF Init, CodeInv

\* One more digit of a code that the app shows.
LEMMA DigitTyped ==
  ASSUME TypeInv, CodeInv, NEW d \in scanned \X (1..CodeLen)
  PROVE  /\ Append(totp, d) \in Seq(Digit)
         /\ \A i \in 1..Len(Append(totp, d)) : Append(totp, d)[i] \in scanned \X (1..CodeLen)
<1>1. totp \in Seq(Digit) /\ d \in Digit /\ Len(totp) \in Nat
  <2>1. scanned \subseteq Key /\ totp \in Seq(Digit)
    BY Zenon DEF TypeInv, KeyType, TotpType
  <2>2. d \in Digit
    BY <2>1, Zenon DEF Digit
  <2> QED
    BY <2>1, <2>2, LenProperties
<1>2. /\ Append(totp, d) \in Seq(Digit)
      /\ Len(Append(totp, d)) = Len(totp) + 1
      /\ \A i \in 1..Len(totp) : Append(totp, d)[i] = totp[i]
      /\ Append(totp, d)[Len(totp) + 1] = d
  BY <1>1, AppendProperties
<1>3. \A i \in 1..(Len(totp) + 1) : i \in 1..Len(totp) \/ i = Len(totp) + 1
  BY <1>1, SMT
<1> QED
  BY <1>2, <1>3, Zenon DEF CodeInv

\* What the pop-up takes, it sends or keeps.
LEMMA InputKeeps ==
  ASSUME NEW value \in Seq(Digit), InputTotp(value),
         \A i \in 1..Len(value) : value[i] \in scanned \X (1..CodeLen), scanned' = scanned
  PROVE  CodeInv'
<1>1. CASE Len(value) >= CodeLen
  <2>1. totp' = <<>>
    BY <1>1, Zenon DEF InputTotp, HandlePasswordLogin
  <2> QED
    BY <2>1, NumberAssumption, SMT DEF CodeInv
<1>2. CASE ~(Len(value) >= CodeLen)
  <2>1. totp' = value
    BY <1>2, Zenon DEF InputTotp
  <2>2. Len(value) < CodeLen
    <3>1. Len(value) \in Nat
      BY LenProperties
    <3> QED
      BY <1>2, <3>1, NumberAssumption, SMT
  <2> QED
    BY <2>1, <2>2, Zenon DEF CodeInv
<1> QED
  BY <1>1, <1>2

\* Every step leaves less than a whole code, of keys that were scanned.
LEMMA CodeStep == TypeInv /\ CodeInv /\ [Next]_vars => CodeInv'
<1> SUFFICES ASSUME TypeInv, CodeInv, [Next]_vars
             PROVE  CodeInv'
  OBVIOUS
<1>a. CASE totp' = <<>>
  BY <1>a, NumberAssumption, SMT DEF CodeInv
<1>b. CASE totp' = totp /\ scanned \subseteq scanned'
  <2>1. \A x \in scanned \X (1..CodeLen) : x \in scanned' \X (1..CodeLen)
    BY <1>b, Zenon
  <2>2. \A i \in 1..Len(totp') : totp'[i] \in scanned' \X (1..CodeLen)
    BY <1>b, <2>1, Zenon DEF CodeInv
  <2> QED
    BY <1>b, <2>2, Zenon DEF CodeInv
<1>1. CASE TypeTotp
  <2>1. scanned' = scanned
    BY <1>1, Zenon DEF TypeTotp
  <2>2. ASSUME NEW d \in scanned \X (1..CodeLen), InputTotp(Append(totp, d))
        PROVE  CodeInv'
    BY <2>1, <2>2, DigitTyped, InputKeeps, Zenon
  <2>3. CASE InputTotp(<<>>)
    <3>1. <<>> \in Seq(Digit) /\ \A i \in 1..Len(<<>>) : <<>>[i] \in scanned \X (1..CodeLen)
      BY EmptySeq, SMT
    <3> QED
      BY <2>1, <2>3, <3>1, InputKeeps, Zenon
  <2> QED
    BY <1>1, <2>2, <2>3, Zenon DEF TypeTotp
<1>2. CASE ClickSubmitTotp
  <2>1. scanned' = scanned /\ (totp' = <<>> \/ totp' = totp)
    BY <1>2, Zenon DEF ClickSubmitTotp, HandlePasswordLogin
  <2> QED
    BY <1>a, <1>b, <2>1, Zenon
<1>3. CASE Person /\ ~TypeTotp /\ ~ClickSubmitTotp
  <2>1. totp' = <<>> \/ (totp' = totp /\ scanned \subseteq scanned')
    BY <1>3, Zenon DEF Person, Open, Load, Blanked, Type, SubmitSignUp, Scan, PasskeySignUp,
                       SubmitLogin, PasskeyLogin, popups
  <2> QED
    BY <1>a, <1>b, <2>1
<1>4. ASSUME NEW s \in Slot, Serve(s) \/ Lose(s) \/ Answered(s)
      PROVE  CodeInv'
  <2>1. totp' = <<>> \/ (totp' = totp /\ scanned \subseteq scanned')
    BY <1>4, Zenon DEF Serve, Lose, Answered, Unheard, Failed, Registered, LoggedIn, Load, Blanked,
                       popups
  <2> QED
    BY <1>a, <1>b, <2>1
<1>5. CASE UNCHANGED vars
  <2>1. totp' = totp /\ scanned \subseteq scanned'
    BY <1>5, Zenon DEF vars, popups
  <2> QED
    BY <1>b, <2>1
<1> QED
  BY <1>1, <1>2, <1>3, <1>4, <1>5, Zenon DEF Next

\* However a code comes to be typed, the pop-up never keeps a whole one
\* (the input handler of totpPopupInput in login.js).
THEOREM CodeCorrect == Spec => []NoWholeCode
<1>1. CodeInv => NoWholeCode
  BY DEF CodeInv, NoWholeCode
<1> QED
  BY <1>1, TypeInvariant, CodeInit, CodeStep, PTL DEF Spec

(***************************************************************************)
(* What a step sends, and what it keeps.                                   *)
(***************************************************************************)

\* A code that is made of digits of the app's is of a key in the app.
LEMMA KeyOfScanned ==
  ASSUME NEW code, Len(code) >= CodeLen, Len(code) \in Nat,
         \A i \in 1..Len(code) : code[i] \in scanned \X (1..CodeLen)
  PROVE  KeyOf(code) \in scanned \union {NoKey}
<1>1. CASE KeyOf(code) # NoKey
  <2>1. PICK k \in Key : code = Code(k) /\ KeyOf(code) = k
    BY <1>1, KeyOfType
  <2>2. 1 \in 1..Len(code) /\ 1 \in 1..CodeLen
    BY NumberAssumption, SMT
  <2>3. code[1] = <<k, 1>>
    BY <2>1, <2>2, Zenon DEF Code
  <2>4. <<k, 1>> \in scanned \X (1..CodeLen)
    BY <2>2, <2>3, Zenon
  <2> QED
    BY <2>1, <2>4, Zenon
<1> QED
  BY <1>1

\* A request that the person sends: a login is with a code of a key in the app.
Sends == \E r \in Request :
           /\ r.at = "sent"
           /\ r.op = "login" => r.key \in scanned \union {NoKey}
           /\ Send(r)

\* What the person does but to load another page.
Stays ==
  /\ UNCHANGED <<page, qr, session, excused>> /\ UNCHANGED server
  /\ scanned \subseteq scanned'
  /\ UNCHANGED net \/ Sends

\* Everything the person does is one or the other.
LEMMA PersonStays ==
  TypeInv /\ CodeInv /\ Person => Stays \/ \E p \in {"signup", "login", "dashboard"} : Open(p)
<1> SUFFICES ASSUME TypeInv, CodeInv, Person, \A p \in {"signup", "login", "dashboard"} : ~Open(p)
             PROVE  Stays
  OBVIOUS
<1>0. form \in Name \union {Blank} /\ totp \in Seq(Digit)
  BY DEF TypeInv, FormType, TotpType
<1>1. UNCHANGED <<page, qr, session, excused>> /\ UNCHANGED server /\ scanned \subseteq scanned'
  BY Zenon DEF Person, Type, SubmitSignUp, Scan, PasskeySignUp, SubmitLogin, TypeTotp,
               ClickSubmitTotp, PasskeyLogin, popups
<1>a. ASSUME NEW code \in Seq(Digit), HandlePasswordLogin(code), Len(code) >= CodeLen,
             \A i \in 1..Len(code) : code[i] \in scanned \X (1..CodeLen)
      PROVE  Sends
  <2>1. KeyOf(code) \in scanned \union {NoKey} /\ KeyOf(code) \in 0..MaxKey
    <3>1. Len(code) \in Nat
      BY LenProperties
    <3> QED
      BY <1>a, <3>1, KeyOfScanned, KeyOfType
  <2> DEFINE r == Fetch("login", KeyOf(code))
  <2>2. r \in Request /\ r.at = "sent" /\ r.key = KeyOf(code)
    BY <1>0, <2>1, FetchType
  <2>3. Send(r)
    BY <1>a DEF HandlePasswordLogin
  <2> HIDE DEF r
  <2> QED
    BY <2>1, <2>2, <2>3, Zenon DEF Sends
<1>2. CASE SubmitSignUp
  <2>1. CASE form # Blank
    <3> DEFINE r == Fetch("register", NoKey)
    <3>1. r \in Request /\ r.at = "sent" /\ r.op = "register"
      BY <1>0, KeyRange, FetchType
    <3>2. Send(r)
      BY <1>2, <2>1 DEF SubmitSignUp
    <3> HIDE DEF r
    <3>3. r.op # "login"
      BY <3>1
    <3> QED
      BY <1>1, <3>1, <3>2, <3>3, Zenon DEF Sends, Stays
  <2>2. CASE form = Blank
    BY <1>1, <1>2, <2>2, Zenon DEF SubmitSignUp, Stays
  <2> QED
    BY <2>1, <2>2
<1>3. CASE TypeTotp
  <2>1. ASSUME NEW value \in Seq(Digit), InputTotp(value),
               \A i \in 1..Len(value) : value[i] \in scanned \X (1..CodeLen)
        PROVE  UNCHANGED net \/ Sends
    BY <1>a, <2>1, Zenon DEF InputTotp
  <2>2. <<>> \in Seq(Digit) /\ \A i \in 1..Len(<<>>) : <<>>[i] \in scanned \X (1..CodeLen)
    BY EmptySeq, SMT
  <2>3. UNCHANGED net \/ Sends
    <3>1. ASSUME NEW d \in scanned \X (1..CodeLen), InputTotp(Append(totp, d))
          PROVE  UNCHANGED net \/ Sends
      BY <2>1, <3>1, DigitTyped, Zenon
    <3>2. CASE InputTotp(<<>>)
      BY <2>1, <2>2, <3>2, Zenon
    <3> QED
      BY <1>3, <3>1, <3>2, Zenon DEF TypeTotp
  <2> QED
    BY <1>1, <2>3, Zenon DEF Stays
<1>4. CASE ClickSubmitTotp
  <2>1. CASE Len(totp) = CodeLen
    <3>1. Len(totp) >= CodeLen
      BY <2>1, NumberAssumption, SMT
    <3>2. HandlePasswordLogin(totp)
      BY <1>4, <2>1 DEF ClickSubmitTotp
    <3>3. Sends
      BY <1>0, <1>a, <3>1, <3>2, Zenon DEF CodeInv
    <3> QED
      BY <1>1, <3>3, Zenon DEF Stays
  <2>2. CASE Len(totp) # CodeLen
    BY <1>1, <1>4, <2>2, Zenon DEF ClickSubmitTotp, Stays
  <2> QED
    BY <2>1, <2>2
<1>5. CASE PasskeyLogin
  <2> DEFINE r == [Idle EXCEPT !.op = "passkey", !.at = "sent"]
  <2>1. r \in Request /\ r.at = "sent" /\ r.op = "passkey"
    BY PasskeyType
  <2>2. Send(r) \/ UNCHANGED net
    BY <1>5 DEF PasskeyLogin
  <2> HIDE DEF r
  <2>3. r.op # "login"
    BY <2>1
  <2> QED
    BY <1>1, <2>1, <2>2, <2>3, Zenon DEF Sends, Stays
<1>6. CASE Scan \/ PasskeySignUp \/ SubmitLogin \/ \E n \in Name \union {Blank} : Type(n)
  BY <1>1, <1>6, Zenon DEF Scan, PasskeySignUp, SubmitLogin, Type, Stays
<1> QED
  BY <1>2, <1>3, <1>4, <1>5, <1>6, Zenon DEF Person

(***************************************************************************)
(* Keys that are registered.                                               *)
(***************************************************************************)

\* The key is on its way to the page, in the answer to its registration.
OnWay(k) == \E s \in Slot : net[s].op = "register" /\ net[s].at = "ok" /\ net[s].key = k

Seen(k) == k \in scanned \union excused \union {qr} \/ OnWay(k)

\* It stays on its way when another request leaves.
LEMMA WaySent ==
  ASSUME NetType, NEW k, OnWay(k), NEW r \in Request, Send(r)
  PROVE  OnWay(k)'
<1>1. PICK s \in Slot : ~Busy(s) /\ net'[s] = r /\ \A q \in Slot \ {s} : net'[q] = net[q]
  BY SendSlot
<1>2. PICK q \in Slot : net[q].op = "register" /\ net[q].at = "ok" /\ net[q].key = k
  BY DEF OnWay
<1>3. q # s
  BY <1>1, <1>2 DEF Busy
<1> QED
  BY <1>1, <1>2, <1>3, Zenon DEF OnWay

\* It stays on its way when another request is answered.
LEMMA WayAnswered ==
  ASSUME NetType, NEW k, OnWay(k), NEW s \in Slot, net[s].at # "ok",
         NEW at \in {"ok", "failed"}, NEW x \in 0..MaxKey, Answer(s, at, x)
  PROVE  OnWay(k)'
<1>1. \A q \in Slot \ {s} : net'[q] = net[q]
  BY AnswerSlot
<1>2. PICK q \in Slot : net[q].op = "register" /\ net[q].at = "ok" /\ net[q].key = k
  BY DEF OnWay
<1>3. q # s
  BY <1>2
<1> QED
  BY <1>1, <1>2, <1>3, Zenon DEF OnWay

\* It stays on its way when the page is left.
LEMMA WayLeft ==
  ASSUME NEW n \in [Slot -> Request], NEW k, net' = Abandoned(n),
         \E s \in Slot : n[s].op = "register" /\ n[s].at = "ok" /\ n[s].key = k
  PROVE  OnWay(k)'
<1>1. PICK s \in Slot : n[s].op = "register" /\ n[s].at = "ok" /\ n[s].key = k
  OBVIOUS
<1>2. net'[s].op = "register" /\ net'[s].at = "ok" /\ net'[s].key = k
  BY <1>1, AbandonedSlots
<1> QED
  BY <1>2, Zenon DEF OnWay

\* It stays on its way when a request ends that did not bring it.
LEMMA WayDone ==
  ASSUME NetType, NEW k, OnWay(k), NEW s \in Slot,
         ~(net[s].op = "register" /\ net[s].at = "ok" /\ net[s].key = k)
  PROVE  \E q \in Slot : Done(s)[q].op = "register" /\ Done(s)[q].at = "ok" /\ Done(s)[q].key = k
<1>1. PICK q \in Slot : net[q].op = "register" /\ net[q].at = "ok" /\ net[q].key = k
  BY DEF OnWay
<1>2. q # s
  BY <1>1
<1> QED
  BY <1>1, <1>2, DoneSlot, Zenon

\* So it does when that is all.
LEMMA WayEnded ==
  ASSUME NetType, NEW k, NEW s \in Slot, net' = Done(s),
         ~(net[s].op = "register" /\ net[s].at = "ok" /\ net[s].key = k)
  PROVE  OnWay(k) => OnWay(k)'
<1> SUFFICES ASSUME OnWay(k)
             PROVE  \E q \in Slot : net'[q].op = "register" /\ net'[q].at = "ok" /\ net'[q].key = k
  BY Zenon DEF OnWay
<1>1. \E q \in Slot : Done(s)[q].op = "register" /\ Done(s)[q].at = "ok" /\ Done(s)[q].key = k
  BY WayDone
<1> QED
  BY <1>1

\* A key that was seen, on the screen or otherwise, or is on its way there, stays
\* so, or is made away with.
LEMMA SeenStep ==
  ASSUME TypeInv, CodeInv, [Next]_vars, NEW k \in Key, Seen(k)
  PROVE  Seen(k)'
<1>0. KeyType /\ NetType
  BY DEF TypeInv
<1>k. k # NoKey /\ k \in 0..MaxKey /\ qr \in 0..MaxKey
  BY <1>0, KeyRange DEF KeyType
<1>a. CASE UNCHANGED <<qr, net>> /\ scanned \subseteq scanned' /\ excused \subseteq excused'
  BY <1>a, Zenon DEF Seen, OnWay
<1>b. ASSUME scanned \subseteq scanned', excused \subseteq excused', OnWay(k) => Seen(k)',
             qr = k => k \in scanned' \union excused' \union {qr'}
      PROVE  Seen(k)'
  BY <1>b, Zenon DEF Seen
<1>q. MadeAway(qr) => excused \subseteq excused' /\ (qr = k => k \in scanned \union excused')
  BY <1>0, <1>k, MadeAwayType
<1>1. CASE Stays
  <2>1. scanned \subseteq scanned' /\ excused' = excused /\ qr' = qr
    BY <1>1, Zenon DEF Stays
  <2>2. OnWay(k) => OnWay(k)'
    <3>1. CASE UNCHANGED net
      BY <3>1, Zenon DEF OnWay
    <3>2. CASE Sends
      BY <1>0, <3>2, WaySent, Zenon DEF Sends
    <3> QED
      BY <1>1, <3>1, <3>2 DEF Stays
  <2> QED
    BY <1>b, <2>1, <2>2, Zenon DEF Seen
<1>2. ASSUME NEW p \in {"signup", "login", "dashboard"}, Open(p)
      PROVE  Seen(k)'
  <2>1. net' = Abandoned(net) /\ MadeAway(qr) /\ scanned' = scanned
    BY <1>2, Zenon DEF Open, Load
  <2>2. OnWay(k) => OnWay(k)'
    BY <1>0, <2>1, WayLeft DEF NetType, OnWay
  <2> QED
    BY <1>b, <1>q, <2>1, <2>2, Zenon DEF Seen
<1>3. ASSUME NEW s \in Slot, Serve(s)
      PROVE  Seen(k)'
  <2>1. UNCHANGED <<qr, scanned, excused>>
    BY <1>3, Zenon DEF Serve, popups
  <2>2. net[s].at # "ok"
    BY <1>3, Zenon DEF Serve, Register, Login, Passkey
  <2>3. \E at \in {"ok", "failed"}, x \in 0..MaxKey : Answer(s, at, x)
    <3>1. NoKey \in 0..MaxKey
      BY KeyRange
    <3>2. CASE Register(s)
      <4>1. nextKey <= MaxKey => nextKey \in 0..MaxKey
        BY NumberAssumption, SMT DEF TypeInv, ServerType
      <4> QED
        BY <3>1, <3>2, <4>1, Answers, Zenon DEF Register
    <3>3. CASE Login(s)
      <4>1. \A a \in Account : a.key \in Key
        BY SMT DEF Account
      <4>2. \A a \in accounts : a.key \in 0..MaxKey
        BY <4>1, KeyRange, Zenon DEF TypeInv, ServerType
      <4> QED
        BY <3>1, <3>3, <4>2, Answers, Zenon DEF Login
    <3>4. CASE Passkey(s)
      BY <3>1, <3>4, Answers, Zenon DEF Passkey
    <3> QED
      BY <1>3, <3>2, <3>3, <3>4 DEF Serve
  <2>4. OnWay(k) => OnWay(k)'
    BY <1>0, <2>2, <2>3, WayAnswered, Zenon
  <2> QED
    BY <1>b, <2>1, <2>4, Zenon DEF Seen
<1>4. ASSUME NEW s \in Slot, Lose(s)
      PROVE  Seen(k)'
  <2>1. /\ UNCHANGED <<qr, scanned>> /\ Answer(s, "failed", NoKey)
        /\ IF net[s].op = "register" THEN MadeAway(net[s].key) ELSE UNCHANGED excused
    BY <1>4, Answers, Zenon DEF Lose, popups
  <2>2. net[s].key \in 0..MaxKey
    BY <1>0, Fields, Zenon DEF NetType
  <2>3. excused \subseteq excused'
    BY <1>0, <2>1, <2>2, MadeAwayType
  <2>4. OnWay(k) => Seen(k)'
    <3> SUFFICES ASSUME OnWay(k)
                 PROVE  Seen(k)'
      OBVIOUS
    <3>1. PICK q \in Slot : net[q].op = "register" /\ net[q].at = "ok" /\ net[q].key = k
      BY DEF OnWay
    <3>2. CASE q = s
      <4>1. k \in scanned \union excused'
        BY <1>0, <1>k, <2>1, <3>1, <3>2, MadeAwayType
      <4> QED
        BY <2>1, <4>1, Zenon DEF Seen
    <3>3. CASE q # s
      <4>1. net'[q] = net[q]
        BY <1>0, <2>1, <3>3, KeyRange, AnswerSlot
      <4> QED
        BY <3>1, <4>1, Zenon DEF Seen, OnWay
    <3> QED
      BY <3>2, <3>3
  <2> QED
    BY <1>b, <2>1, <2>3, <2>4, Zenon
<1>5. ASSUME NEW s \in Slot, Answered(s)
      PROVE  Seen(k)'
  <2>0. net[s].key \in 0..MaxKey
    BY <1>0, Fields, Zenon DEF NetType
  <2>1. CASE Unheard(s)
    <3>1. /\ UNCHANGED <<qr, scanned>> /\ net' = Done(s)
          /\ IF net[s].op = "register" THEN MadeAway(net[s].key) ELSE UNCHANGED excused
      BY <2>1, Zenon DEF Unheard, popups
    <3>2. excused \subseteq excused'
      BY <1>0, <2>0, <3>1, MadeAwayType
    <3>3. CASE net[s].op = "register" /\ net[s].at = "ok" /\ net[s].key = k
      <4>1. k \in scanned \union excused'
        BY <1>0, <1>k, <3>1, <3>3, MadeAwayType
      <4> QED
        BY <3>1, <4>1, Zenon DEF Seen
    <3>4. CASE ~(net[s].op = "register" /\ net[s].at = "ok" /\ net[s].key = k)
      <4>1. OnWay(k) => OnWay(k)'
        BY <1>0, <3>1, <3>4, WayEnded
      <4> QED
        BY <1>b, <3>1, <3>2, <4>1, Zenon DEF Seen
    <3> QED
      BY <3>3, <3>4
  <2>2. CASE Failed(s)
    <3>1. UNCHANGED <<qr, scanned, excused>> /\ net' = Done(s) /\ net[s].at # "ok"
      BY <2>2, Zenon DEF Failed, popups
    <3>2. OnWay(k) => OnWay(k)'
      BY <1>0, <3>1, WayEnded
    <3> QED
      BY <1>b, <3>1, <3>2, Zenon DEF Seen
  <2>3. CASE Registered(s)
    <3>1. scanned' = scanned /\ net' = Done(s) /\ qr' = net[s].key /\ MadeAway(qr)
      BY <2>3, Zenon DEF Registered
    <3>2. CASE net[s].key = k
      BY <3>1, <3>2, Zenon DEF Seen
    <3>3. CASE net[s].key # k
      <4>1. OnWay(k) => OnWay(k)'
        BY <1>0, <3>1, <3>3, WayEnded
      <4> QED
        BY <1>b, <1>q, <3>1, <4>1, Zenon DEF Seen
    <3> QED
      BY <3>2, <3>3
  <2>4. CASE LoggedIn(s)
    <3>1. scanned' = scanned /\ net' = Abandoned(Done(s)) /\ MadeAway(qr) /\ net[s].op # "register"
      BY <2>4, Zenon DEF LoggedIn, Load
    <3>2. Done(s) \in [Slot -> Request]
      BY <1>0, DoneSlot
    <3>3. OnWay(k) => OnWay(k)'
      BY <1>0, <3>1, <3>2, WayDone, WayLeft, Zenon
    <3> QED
      BY <1>b, <1>q, <3>1, <3>3, Zenon DEF Seen
  <2> QED
    BY <1>5, <2>1, <2>2, <2>3, <2>4 DEF Answered
<1>6. CASE UNCHANGED vars
  <2>1. UNCHANGED <<qr, net>> /\ scanned \subseteq scanned' /\ excused \subseteq excused'
    BY <1>6, Zenon DEF vars, popups
  <2> QED
    BY <1>a, <2>1
<1> QED
  BY <1>1, <1>2, <1>3, <1>4, <1>5, <1>6, PersonStays, Zenon DEF Next

\* Only a registration that is answered adds an account, and none is removed.
LEMMA AccountsStep ==
  ASSUME TypeInv, CodeInv, [Next]_vars
  PROVE  /\ accounts \subseteq accounts'
         /\ \A a \in accounts' : a \in accounts \/ (a.key \in Key /\ OnWay(a.key)')
<1>0. NetType /\ ServerType
  BY DEF TypeInv
<1>a. CASE UNCHANGED server
  BY <1>a, Zenon DEF server
<1>1. CASE Person
  BY <1>1, <1>a, PersonStays, Zenon DEF Stays, Open
<1>2. ASSUME NEW s \in Slot, Register(s), ~UNCHANGED server
      PROVE  /\ accounts \subseteq accounts'
             /\ \A a \in accounts' : a \in accounts \/ (a.key \in Key /\ OnWay(a.key)')
  <2> DEFINE new == [name |-> net[s].name, key |-> nextKey]
  <2>1. /\ nextKey <= MaxKey /\ accounts' = accounts \union {new} /\ Respond(s, nextKey)
        /\ net[s].op = "register"
    BY <1>2, Zenon DEF Register
  <2>2. nextKey \in Key /\ nextKey \in 0..MaxKey
    BY <1>0, <2>1, NumberAssumption, SMT DEF ServerType, Key
  <2>3. net'[s].op = "register" /\ net'[s].at = "ok" /\ net'[s].key = nextKey
    BY <1>0, <2>1, <2>2, Answers, AnswerSlot
  <2>5. new.key = nextKey
    OBVIOUS
  <2> HIDE DEF new
  <2> QED
    BY <2>1, <2>2, <2>3, <2>5, Zenon DEF OnWay
<1>3. ASSUME NEW s \in Slot, Serve(s)
      PROVE  UNCHANGED server \/ Register(s)
  BY <1>3, Zenon DEF Serve, Login, Passkey
<1>4. ASSUME NEW s \in Slot, Lose(s) \/ Answered(s)
      PROVE  UNCHANGED server
  BY <1>4, Zenon DEF Lose, Answered, Unheard, Failed, Registered, LoggedIn
<1>5. UNCHANGED vars => UNCHANGED server
  BY Zenon DEF vars
<1> QED
  BY <1>a, <1>1, <1>2, <1>3, <1>4, <1>5, Zenon DEF Next

\* The key of every account is in the app, or on the screen, or on its way there,
\* or was lost in a way that the person or the network answers for (the answer
\* to a registration in signup.js).
THEOREM KeysCorrect == Spec => []EveryKeySeen
<1>1. EveryKeySeen <=> \A a \in accounts : Seen(a.key)
  BY Zenon DEF EveryKeySeen, Seen, OnWay
<1>2. Init => EveryKeySeen
  BY Zenon DEF Init, EveryKeySeen
<1>3. TypeInv /\ CodeInv /\ EveryKeySeen /\ [Next]_vars => EveryKeySeen'
  <2> SUFFICES ASSUME TypeInv, CodeInv, EveryKeySeen, [Next]_vars
               PROVE  EveryKeySeen'
    OBVIOUS
  <2>1. \A a \in accounts : a.key \in Key
    <3>1. \A a \in Account : a.key \in Key
      BY SMT DEF Account
    <3> QED
      BY <3>1, Zenon DEF TypeInv, ServerType
  <2>2. ASSUME NEW a \in accounts
        PROVE  Seen(a.key)'
    <3>1. a.key \in Key /\ Seen(a.key)
      BY <1>1, <2>1, <2>2
    <3> DEFINE k == a.key
    <3>2. k \in Key /\ Seen(k)
      BY <3>1
    <3> HIDE DEF k
    <3>3. Seen(k)'
      BY <3>2, SeenStep
    <3> QED
      BY <3>3 DEF k
  <2>3. ASSUME NEW a \in accounts'
        PROVE  a.key \in scanned' \union excused' \union {qr'}
               \/ \E s \in Slot : net'[s].op = "register" /\ net'[s].at = "ok" /\ net'[s].key = a.key
    <3>1. a \in accounts \/ OnWay(a.key)'
      BY AccountsStep
    <3>2. CASE a \in accounts
      BY <2>2, <3>2, Zenon DEF Seen, OnWay
    <3>3. CASE OnWay(a.key)'
      BY <3>3, Zenon DEF OnWay
    <3> QED
      BY <3>1, <3>2, <3>3
  <2> QED
    BY <2>3, Zenon DEF EveryKeySeen
<1> QED
  BY <1>2, <1>3, TypeInvariant, CodeInit, CodeStep, PTL DEF Spec

(***************************************************************************)
(* Sessions.                                                               *)
(***************************************************************************)

\* The key is in the app and of an account.
Rightful(k) == k \in scanned /\ \E a \in accounts : a.key = k

\* A login is sent with a code of a key in the app, or with none, and is answered
\* for a key that is also an account's.
LoginInv ==
  \A s \in Slot : net[s].op = "login" =>
    /\ net[s].at = "sent" => net[s].key \in scanned \union {NoKey}
    /\ net[s].at = "ok" => Rightful(net[s].key)

SessionInv == LoginInv /\ SessionRightful

\* Nobody is logged in at the start.
LEMMA SessionInit == Init => SessionInv
<1> SUFFICES ASSUME Init
             PROVE  SessionInv
  OBVIOUS
<1>1. \A s \in Slot : net[s].at = "idle"
  BY IdleType, Zenon DEF Init
<1>2. LoginInv
  BY <1>1, Zenon DEF LoginInv
<1>3. SessionRightful
  BY Zenon DEF Init, SessionRightful
<1> QED
  BY <1>2, <1>3 DEF SessionInv

\* Nothing takes a key out of the app, or an account away.
LEMMA RightfulStep ==
  ASSUME TypeInv, CodeInv, [Next]_vars
  PROVE  scanned \subseteq scanned' /\ \A k \in Nat : Rightful(k) => Rightful(k)'
<1>1. scanned \subseteq scanned'
  <2>1. CASE Person
    BY <2>1, PersonStays, Zenon DEF Stays, Open
  <2>2. ASSUME NEW s \in Slot, Serve(s) \/ Lose(s) \/ Answered(s)
        PROVE  scanned \subseteq scanned'
    BY <2>2, Zenon DEF Serve, Lose, Answered, Unheard, Failed, Registered, LoggedIn
  <2>3. CASE UNCHANGED vars
    BY <2>3, Zenon DEF vars
  <2> QED
    BY <2>1, <2>2, <2>3, Zenon DEF Next
<1>2. accounts \subseteq accounts'
  BY AccountsStep
<1> QED
  BY <1>1, <1>2, Zenon DEF Rightful

\* The session stays, or is that of a login that was answered.
LEMMA SessionStep ==
  ASSUME TypeInv, CodeInv, SessionInv, [Next]_vars
  PROVE  SessionRightful'
<1>0. session \in Nat /\ NoKey \notin scanned /\ \A s \in Slot : net[s].key \in Nat
  <2>1. session \in 0..MaxKey /\ NoKey \notin scanned
    BY KeyRange, Zenon DEF TypeInv, KeyType
  <2>2. \A s \in Slot : net[s].key \in 0..MaxKey
    BY Fields, Zenon DEF TypeInv, NetType
  <2> QED
    BY <2>1, <2>2, SMT
<1>1. \A k \in Nat : Rightful(k) => Rightful(k)'
  BY RightfulStep
<1>2. session # NoKey => Rightful(session)
  BY Zenon DEF SessionInv, SessionRightful, Rightful
<1>a. ASSUME session' = session
      PROVE  SessionRightful'
  <2>1. session # NoKey => session \in scanned' /\ \E a \in accounts' : a.key = session
    BY <1>0, <1>1, <1>2, Zenon DEF Rightful
  <2> QED
    BY <1>2, <1>a, <2>1, Zenon DEF SessionRightful
<1>b. ASSUME NEW s \in Slot, net[s].op = "login", net[s].at = "ok", session' = net[s].key
      PROVE  SessionRightful'
  <2>1. Rightful(net[s].key)
    BY <1>b, Zenon DEF SessionInv, LoginInv
  <2>2. net[s].key \in scanned' /\ \E a \in accounts' : a.key = net[s].key
    BY <1>0, <1>1, <2>1, Zenon DEF Rightful
  <2>3. net[s].key # NoKey
    BY <1>0, <2>1, Zenon DEF Rightful
  <2> QED
    BY <1>b, <2>2, <2>3, Zenon DEF SessionRightful
<1>3. CASE Person
  <2>1. CASE Stays
    BY <1>a, <2>1, Zenon DEF Stays
  <2>2. ASSUME NEW p \in {"signup", "login", "dashboard"}, Open(p)
        PROVE  SessionRightful'
    <3>1. session' = session
      BY <2>2, Zenon DEF Open
    <3> QED
      BY <1>a, <3>1
  <2> QED
    BY <1>3, <2>1, <2>2, PersonStays
<1>4. ASSUME NEW s \in Slot, Serve(s) \/ Lose(s) \/ Failed(s) \/ Registered(s)
      PROVE  SessionRightful'
  BY <1>4, <1>a, Zenon DEF Serve, Lose, Failed, Registered
<1>5. ASSUME NEW s \in Slot, Unheard(s)
      PROVE  SessionRightful'
  <2>1. session' = session \/ (net[s].op = "login" /\ net[s].at = "ok"
                                /\ session' = net[s].key)
    BY <1>5, Zenon DEF Unheard
  <2> QED
    BY <1>a, <1>b, <2>1
<1>6. ASSUME NEW s \in Slot, LoggedIn(s)
      PROVE  SessionRightful'
  BY <1>6, <1>b, Zenon DEF LoggedIn
<1>7. CASE UNCHANGED vars
  BY <1>7, <1>a, Zenon DEF vars
<1> QED
  BY <1>3, <1>4, <1>5, <1>6, <1>7, Zenon DEF Next, Answered

\* How a step changes the logins: one may be sent, one may be answered, and the
\* others stay or end.
LEMMA LoginStep ==
  ASSUME TypeInv, CodeInv, SessionInv, [Next]_vars
  PROVE  LoginInv'
<1>0. NetType /\ KeyType
  BY DEF TypeInv
<1>1. scanned \subseteq scanned' /\ \A k \in Nat : Rightful(k) => Rightful(k)'
  BY RightfulStep
<1> DEFINE Fine(r) ==
      r.op = "login" =>
        /\ r.at = "sent" => r.key \in scanned' \union {NoKey}
        /\ r.at = "ok" => (r.key \in scanned' /\ \E a \in accounts' : a.key = r.key)
<1>2. \A s \in Slot : Fine(net[s])
  <2>1. \A s \in Slot : net[s].key \in Nat
    <3>1. \A s \in Slot : net[s].key \in 0..MaxKey
      BY <1>0, Fields, Zenon DEF NetType
    <3> QED
      BY <3>1, SMT
  <2> QED
    BY <1>1, <2>1, Zenon DEF SessionInv, LoginInv, Rightful
<1>3. Fine(Idle)
  <2>1. Idle.at = "idle"
    BY IdleType
  <2> QED
    BY <2>1
<1>d. ASSUME NEW s \in Slot
      PROVE  Done(s) \in [Slot -> Request] /\ \A q \in Slot : Fine(Done(s)[q])
  <2>1. \A q \in Slot : Done(s)[q] = Idle \/ Done(s)[q] = net[q]
    BY <1>0, DoneSlot, Zenon
  <2>2. Done(s) \in [Slot -> Request]
    BY <1>0, DoneSlot
  <2>3. ASSUME NEW q \in Slot
        PROVE  Fine(Done(s)[q])
    <3>1. CASE Done(s)[q] = Idle
      BY <1>3, <3>1
    <3>2. CASE Done(s)[q] = net[q]
      BY <1>2, <3>2
    <3> QED
      BY <2>1, <3>1, <3>2
  <2> QED
    BY <2>2, <2>3
<1>l. ASSUME NEW n \in [Slot -> Request], net' = Abandoned(n), \A q \in Slot : Fine(n[q])
      PROVE  \A q \in Slot : Fine(net'[q])
  <2> SUFFICES ASSUME NEW q \in Slot
               PROVE  Fine(net'[q])
    OBVIOUS
  <2>1. net'[q].op = n[q].op /\ net'[q].at = n[q].at /\ net'[q].key = n[q].key
    BY <1>l, AbandonedSlots, Zenon
  <2>2. Fine(n[q])
    BY <1>l
  <2> QED
    BY <2>1, <2>2
<1>q. (\A q \in Slot : Fine(net'[q])) => LoginInv'
  BY Zenon DEF LoginInv, Rightful
<1>4. CASE Person
  <2>1. CASE UNCHANGED net
    BY <1>2, <1>q, <2>1, Zenon
  <2>2. CASE Sends
    <3>1. PICK r \in Request : /\ r.at = "sent"
                               /\ r.op = "login" => r.key \in scanned \union {NoKey}
                               /\ Send(r)
      BY <2>2 DEF Sends
    <3>2. PICK s \in Slot : net'[s] = r /\ \A q \in Slot \ {s} : net'[q] = net[q]
      BY <1>0, <3>1, SendSlot
    <3>3. Fine(r)
      BY <1>1, <3>1, Zenon
    <3>4. \A q \in Slot : net'[q] = r \/ net'[q] = net[q]
      BY <3>2
    <3> QED
      BY <1>2, <1>q, <3>3, <3>4, Zenon
  <2>3. ASSUME NEW p \in {"signup", "login", "dashboard"}, Open(p)
        PROVE  LoginInv'
    <3>1. net' = Abandoned(net)
      BY <2>3 DEF Open, Load
    <3> QED
      BY <1>0, <1>2, <1>l, <1>q, <3>1 DEF NetType
  <2> QED
    BY <1>4, <2>1, <2>2, <2>3, PersonStays DEF Stays
<1>a. ASSUME NEW s \in Slot, NEW at \in {"ok", "failed"}, NEW k \in 0..MaxKey, Answer(s, at, k),
             net[s].op = "login" /\ at = "ok" => k \in scanned' /\ \E a \in accounts' : a.key = k
      PROVE  LoginInv'
  <2>1. /\ net'[s].at = at /\ net'[s].key = k /\ (at = "ok" => net'[s].op = net[s].op)
        /\ \A q \in Slot \ {s} : net'[q] = net[q]
    BY <1>0, <1>a, AnswerSlot
  <2>2. Fine(net'[s])
    BY <1>a, <2>1
  <2>3. \A q \in Slot : q # s => Fine(net'[q])
    BY <1>2, <2>1, Zenon
  <2>4. \A q \in Slot : Fine(net'[q])
    <3>1. ASSUME NEW q \in Slot
          PROVE  Fine(net'[q])
      BY <2>2, <2>3
    <3> QED
      BY <3>1
  <2> QED
    BY <1>q, <2>4
<1>5. ASSUME NEW s \in Slot, Serve(s)
      PROVE  LoginInv'
  <2>0. NoKey \in 0..MaxKey
    BY KeyRange
  <2>1. CASE Refuse(s)
    BY <1>a, <2>0, <2>1, Answers
  <2>2. CASE Register(s) /\ ~Refuse(s)
    <3>1. Respond(s, nextKey) /\ nextKey <= MaxKey /\ net[s].op = "register"
      BY <2>2, Zenon DEF Register
    <3>2. nextKey \in 0..MaxKey
      BY <3>1, NumberAssumption, SMT DEF TypeInv, ServerType
    <3>3. net[s].op # "login"
      BY <3>1
    <3> QED
      BY <1>a, <3>1, <3>2, <3>3, Answers
  <2>3. CASE Login(s) /\ ~Refuse(s)
    <3>1. PICK a \in accounts : LoginPassword(a, net[s]) /\ Respond(s, a.key)
      BY <2>3, Zenon DEF Login
    <3>2. a.key \in Key /\ a.key = net[s].key /\ net[s].op = "login" /\ net[s].at = "sent"
      <4>1. \A x \in Account : x.key \in Key
        BY SMT DEF Account
      <4> QED
        BY <2>3, <3>1, <4>1, Zenon DEF Login, LoginPassword, TypeInv, ServerType
    <3>3. a.key \in scanned /\ a.key \in 0..MaxKey /\ a.key # NoKey
      <4>1. a.key # NoKey /\ a.key \in 0..MaxKey
        BY <3>2, KeyRange, Zenon
      <4>2. net[s].key \in scanned \union {NoKey}
        BY <3>2, Zenon DEF SessionInv, LoginInv
      <4> QED
        BY <3>2, <4>1, <4>2
    <3>4. a \in accounts'
      BY AccountsStep
    <3> QED
      BY <1>1, <1>a, <3>1, <3>3, <3>4, Answers, Zenon
  <2> QED
    BY <1>5, <2>1, <2>2, <2>3, Zenon DEF Serve, Passkey
<1>6. ASSUME NEW s \in Slot, Lose(s)
      PROVE  LoginInv'
  <2>1. Answer(s, "failed", NoKey) /\ NoKey \in 0..MaxKey
    BY <1>6, KeyRange, Answers DEF Lose
  <2> QED
    BY <1>a, <2>1
<1>7. ASSUME NEW s \in Slot, Answered(s)
      PROVE  LoginInv'
  <2>1. net' = Done(s) \/ net' = Abandoned(Done(s))
    BY <1>7, Zenon DEF Answered, Unheard, Failed, Registered, LoggedIn, Load
  <2>2. CASE net' = Done(s)
    BY <1>d, <1>q, <2>2, Zenon
  <2>3. CASE net' = Abandoned(Done(s))
    BY <1>d, <1>l, <1>q, <2>3
  <2> QED
    BY <2>1, <2>2, <2>3
<1>8. CASE UNCHANGED vars
  <2>1. net' = net
    BY <1>8, Zenon DEF vars
  <2> QED
    BY <1>2, <1>q, <2>1, Zenon
<1> QED
  BY <1>4, <1>5, <1>6, <1>7, <1>8, Zenon DEF Next

\* A session is held only with an account whose key was scanned, in whatever order
\* logins are answered and pages left (handlePasswordLogin in login.js).
THEOREM SessionCorrect == Spec => []SessionRightful
<1>1. TypeInv /\ CodeInv /\ SessionInv /\ [Next]_vars => SessionInv'
  BY SessionStep, LoginStep DEF SessionInv
<1>2. SessionInv => SessionRightful
  BY DEF SessionInv
<1> QED
  BY <1>1, <1>2, SessionInit, TypeInvariant, CodeInit, CodeStep, PTL DEF Spec

=============================================================================
