---------------------------- MODULE RestApi_proofs ----------------------------
(***************************************************************************)
(* Proofs about RestApi, for every set of users, connections and threads,  *)
(* any lifetime of tokens and any length of time: its types, and who is    *)
(* let through with which token.  That Stop returns is left to TLC.        *)
(***************************************************************************)
EXTENDS RestApi, TLAPS

LEMMA NoTokenIsNoToken == NoToken \notin Token
BY DEF NoToken, Token

\* Tokens that are made have the claims and the times they are made with.
LEMMA GenerateToken ==
  ASSUME NEW u \in User, NEW r \in Role, NEW life \in Nat, NEW now \in Nat,
         NEW claims, claims.sub = u, claims.role = r
  PROVE  /\ Generate(claims, life, now) \in Token
         /\ Generate(claims, life, now).sub = u
         /\ Generate(claims, life, now).role = r
         /\ Generate(claims, life, now).iat = now
BY DEF Generate, Token

LEMMA LaterIsNat ==
  ASSUME AuthTypeOK, NEW later, Ticks(later)
  PROVE  later \in 0..MaxTime /\ later \in Nat /\ clock <= later
BY AuthAssumption DEF AuthTypeOK, Ticks

LEMMA LoginTokens ==
  ASSUME AuthTypeOK, NEW u \in User, NEW later \in Nat, NEW t \in Login(u, later)
  PROVE  t \in Token /\ t.sub = u /\ t.role = users[u] /\ t.iat \in {clock, later}
<1>1. users[u] \in Role /\ clock \in Nat
  BY DEF AuthTypeOK
<1>2. QED
  BY <1>1, GenerateToken, AuthAssumption DEF Login

LEMMA RefreshTokens ==
  ASSUME NEW t \in Token, NEW later \in Nat, NEW n \in RefreshToken(t, later)
  PROVE  n \in Token /\ n.sub = t.sub /\ n.role = t.role /\ n.iat = later
<1>1. t.sub \in User /\ t.role \in Role
  BY DEF Token
<1>2. QED
  BY <1>1, GenerateToken, AuthAssumption DEF RefreshToken

\* What a request carries.
LEMMA RequestFields ==
  ASSUME NEW r \in Request \cup {NoRequest}
  PROVE  /\ r.op = "login" => r.user \in User
         /\ r.op \in {"refresh", "logout", "view", "resource"} => r.token \in Token \cup {NoToken}
         /\ r.op \in {"none", "other", "preflight", "login", "refresh", "logout", "view", "resource"}
BY DEF Request, PublicRequest, GuardedRequest, NoRequest

----------------------------------------------------------------------------
(* What holds besides the types:                                           *)

\* Tokens say of their user what was registered, and were made by now.
Genuine == \A t \in issued : t.role = users[t.sub] /\ t.iat <= clock

\* Only tokens that were handed out are revoked; one that was made in this
\* second was also logged out in it.
Gone == /\ loggedOut \subseteq revoked
        /\ revoked \subseteq issued
        /\ \A t \in revoked : t.iat = clock => t \in outNow

\* A request that is at work is no preflight, and its token was handed out.
Asked == \A c \in Conn :
  /\ OnThread(c) => req[c].op \in {"other", "login", "refresh", "logout", "view", "resource"}
  /\ req[c].op \in {"refresh", "logout", "view", "resource"} => req[c].token \in issued \cup {NoToken}

\* What the middlewares have seen stays so while they hold the mutex.
Admitted == \A c \in Conn :
  phase[c] = "handling" /\ ~IsPublicPath(req[c])
    => req[c].token \in issued \ revoked

Mutex == \A c, d \in Conn : InRouter(c) /\ InRouter(d) => c = d

RestInv == TypeOK /\ Genuine /\ Gone /\ Asked /\ Admitted /\ Mutex

----------------------------------------------------------------------------
(* Steps that only move bytes: no request gets on *)

NetStep == \/ \E c \in Conn : Client(c) \/ OnReadError(c) \/ OnWrite(c)
           \/ StopIoContext \/ StopJoins

LEMMA NetTypes ==
  ASSUME TypeOK, NetStep
  PROVE  /\ TypeOK'
         /\ UNCHANGED <<authVars, req, history>>
         /\ \A d \in Conn : OnThread(d)' => phase'[d] = phase[d]
<1> USE DEF netVars
<1>1. ASSUME NEW c \in Conn, SessionEnds(c), UNCHANGED <<authVars, server, req, history>>
      PROVE  TypeOK' /\ \A d \in Conn : OnThread(d)' => phase'[d] = phase[d]
  BY <1>1 DEF SessionEnds, TypeOK, AuthTypeOK, authVars, history, OnThread, InRouter
<1>2. ASSUME NEW c \in Conn, AcceptLoop(c)
      PROVE  TypeOK' /\ \A d \in Conn : OnThread(d)' => phase'[d] = phase[d]
  BY <1>2 DEF AcceptLoop, TypeOK, AuthTypeOK, authVars, history, OnThread, InRouter
<1>3. ASSUME NEW c \in Conn, ClientSends(c)
      PROVE  TypeOK' /\ \A d \in Conn : OnThread(d)' => phase'[d] = phase[d]
  BY <1>3 DEF ClientSends, TypeOK, AuthTypeOK, authVars, history, OnThread, InRouter
<1>4. ASSUME NEW c \in Conn, ResponseArrives(c)
      PROVE  TypeOK' /\ \A d \in Conn : OnThread(d)' => phase'[d] = phase[d]
  BY <1>4 DEF ResponseArrives, TypeOK, AuthTypeOK, authVars, history, OnThread, InRouter
<1>5. ASSUME NEW c \in Conn, OnWrite(c)
      PROVE  TypeOK' /\ \A d \in Conn : OnThread(d)' => phase'[d] = phase[d]
  <2>1. CASE phase' = [phase EXCEPT ![c] = "reading"] /\ DoRead(c)
    <3>1. lost' \subseteq Conn \ Pipelining
      BY <2>1 DEF DoRead, Discards, TypeOK
    <3>2. torn' \in [Conn -> BOOLEAN] /\ inbox' = inbox
      BY <2>1 DEF DoRead, TypeOK
    <3>3. QED
      BY <1>5, <2>1, <3>1, <3>2
         DEF OnWrite, TypeOK, AuthTypeOK, authVars, history, OnThread, InRouter
  <2>2. QED
    BY <1>1, <1>5, <2>1 DEF OnWrite
<1>6. CASE StopIoContext
  BY <1>6 DEF StopIoContext, TypeOK, AuthTypeOK, authVars, history, OnThread, InRouter
<1>7. CASE StopJoins
  BY <1>7 DEF StopJoins, TypeOK, AuthTypeOK, authVars, history, OnThread, InRouter
<1>8. UNCHANGED <<authVars, req, history>>
  BY DEF NetStep, Client, AcceptLoop, ClientSends, ConnectionLost, ResponseArrives,
         OnReadError, OnWrite, StopIoContext, StopJoins
<1>9. QED
  BY <1>1, <1>2, <1>3, <1>4, <1>5, <1>6, <1>7, <1>8
     DEF NetStep, Client, ConnectionLost, OnReadError

LEMMA NetKeeps ==
  ASSUME RestInv, NetStep
  PROVE  RestInv'
<1>1. /\ TypeOK' /\ UNCHANGED <<authVars, req, history>>
      /\ \A d \in Conn : OnThread(d)' => phase'[d] = phase[d]
  BY NetTypes DEF RestInv
<1>2. \A d \in Conn : /\ InRouter(d)' => InRouter(d)
                      /\ OnThread(d)' => OnThread(d)
                      /\ phase'[d] = "handling" => phase[d] = "handling"
  BY <1>1 DEF InRouter, OnThread
<1>3. Genuine' /\ Gone'
  BY <1>1 DEF RestInv, Genuine, Gone, authVars, history
<1>4. Asked' /\ Admitted' /\ Mutex'
  BY <1>1, <1>2 DEF RestInv, Asked, Admitted, Mutex, authVars, history, IsPublicPath
<1>5. QED
  BY <1>1, <1>3, <1>4 DEF RestInv

----------------------------------------------------------------------------
(* Steps that get one request on                                           *)

LEMMA OnReadKeeps ==
  ASSUME RestInv, NEW c \in Conn, OnRead(c)
  PROVE  RestInv'
<1> USE DEF RestInv
<1>1. UNCHANGED <<authVars, server, torn, lost, history>> /\ inbox' = [inbox EXCEPT ![c] = 0]
  BY DEF OnRead
<1>2. PICK r \in MayAsk :
        IF r.op = "preflight" THEN Answered(c)
        ELSE req' = [req EXCEPT ![c] = r] /\ phase' = [phase EXCEPT ![c] = "received"]
  BY DEF OnRead
<1>3. /\ r \in Request
      /\ r.op \in {"refresh", "logout", "view", "resource"} => r.token \in issued \cup {NoToken}
      /\ r.op \in {"preflight", "other", "login", "refresh", "logout", "view", "resource"}
  BY DEF MayAsk, Request, PublicRequest, GuardedRequest, TypeOK
<1>4. \A d \in Conn \ {c} : req'[d] = req[d] /\ phase'[d] = phase[d]
  BY <1>2 DEF Answered, TypeOK
<1>5. \/ r.op # "preflight" /\ req'[c] = r /\ phase'[c] = "received"
      \/ req'[c] = NoRequest /\ phase'[c] = "writing"
  BY <1>2 DEF Answered, TypeOK
<1>6. TypeOK'
  <2>1. req' \in [Conn -> Request \cup {NoRequest}]
    BY <1>2, <1>3 DEF Answered, TypeOK
  <2>2. phase' \in [Conn -> {"closed", "reading", "received", "guarding", "handling",
                             "writing", "answered"}]
    BY <1>2 DEF Answered, TypeOK
  <2>3. QED
    BY <1>1, <2>1, <2>2 DEF TypeOK, AuthTypeOK, authVars, history
<1>7. Genuine' /\ Gone'
  BY <1>1 DEF Genuine, Gone, authVars, history
<1>8. Asked'
  <2>1. ASSUME NEW d \in Conn
        PROVE  /\ OnThread(d)' => req'[d].op \in {"other", "login", "refresh", "logout", "view", "resource"}
               /\ req'[d].op \in {"refresh", "logout", "view", "resource"}
                    => req'[d].token \in issued \cup {NoToken}
    <3>1. CASE d = c
      BY <1>3, <1>5, <3>1 DEF OnThread, InRouter, NoRequest
    <3>2. CASE d # c
      BY <1>4, <3>2 DEF Asked, OnThread, InRouter
    <3>3. QED
      BY <3>1, <3>2
  <2>2. QED
    BY <1>1, <2>1 DEF Asked, history
<1>9. Admitted' /\ Mutex'
  BY <1>1, <1>4, <1>5 DEF Admitted, Mutex, InRouter, IsPublicPath, authVars, history
<1>10. QED
  BY <1>6, <1>7, <1>8, <1>9

\* A request that leaves the router without an effect, or waits for nothing more.
LEMMA AnsweredKeeps ==
  ASSUME RestInv, NEW c \in Conn, Answered(c), UNCHANGED <<authVars, server, netVars, history>>
  PROVE  RestInv'
<1> USE DEF RestInv
<1>1. req'[c] = NoRequest /\ phase'[c] = "writing"
  BY DEF Answered, TypeOK
<1>2. \A d \in Conn \ {c} : req'[d] = req[d] /\ phase'[d] = phase[d]
  BY DEF Answered, TypeOK
<1>3. TypeOK'
  BY DEF Answered, TypeOK, AuthTypeOK, authVars, netVars, history
<1>4. Genuine' /\ Gone'
  BY DEF Genuine, Gone, authVars, history
<1>5. Asked'
  <2>1. ASSUME NEW d \in Conn
        PROVE  /\ OnThread(d)' => req'[d].op \in {"other", "login", "refresh", "logout", "view", "resource"}
               /\ req'[d].op \in {"refresh", "logout", "view", "resource"}
                    => req'[d].token \in issued \cup {NoToken}
    BY <1>1, <1>2 DEF Asked, OnThread, InRouter, NoRequest
  <2>2. QED
    BY <2>1 DEF Asked, history
<1>6. Admitted' /\ Mutex'
  BY <1>1, <1>2 DEF Admitted, Mutex, InRouter, IsPublicPath, authVars, history
<1>7. QED
  BY <1>3, <1>4, <1>5, <1>6

LEMMA GuardKeeps ==
  ASSUME RestInv, NEW c \in Conn,
         DispatchLocks(c) \/ MiddlewareRefuses(c) \/ MiddlewareAccepts(c)
  PROVE  RestInv'
<1> USE DEF RestInv
<1>1. CASE DispatchLocks(c)
  <2>1. phase' = [phase EXCEPT ![c] = "guarding"] /\ phase[c] = "received"
        /\ UNCHANGED <<authVars, server, req, netVars, history>>
    BY <1>1 DEF DispatchLocks
  <2>2. TypeOK' /\ Genuine' /\ Gone'
    BY <2>1 DEF TypeOK, AuthTypeOK, Genuine, Gone, authVars, netVars, history
  <2>3. phase'[c] = "guarding" /\ \A d \in Conn \ {c} : phase'[d] = phase[d]
    BY <2>1 DEF TypeOK
  <2>4. Asked' /\ Admitted'
    BY <2>1, <2>3 DEF Asked, Admitted, OnThread, InRouter, IsPublicPath, authVars, history
  <2>5. Mutex'
    BY <1>1, <2>3 DEF Mutex, InRouter, DispatchLocks, RouterFree
  <2>6. QED
    BY <2>2, <2>4, <2>5
<1>2. CASE MiddlewareRefuses(c)
  BY <1>2, AnsweredKeeps DEF MiddlewareRefuses
<1>3. CASE MiddlewareAccepts(c)
  <2>1. phase' = [phase EXCEPT ![c] = "handling"] /\ phase[c] = "guarding"
        /\ UNCHANGED <<authVars, server, req, netVars, history>>
    BY <1>3 DEF MiddlewareAccepts
  <2>2. TypeOK' /\ Genuine' /\ Gone'
    BY <2>1 DEF TypeOK, AuthTypeOK, Genuine, Gone, authVars, netVars, history
  <2>3. phase'[c] = "handling" /\ \A d \in Conn \ {c} : phase'[d] = phase[d]
    BY <2>1 DEF TypeOK
  <2>4. Asked' /\ Mutex'
    BY <2>1, <2>3 DEF Asked, Mutex, OnThread, InRouter, history
  <2>5. ~IsPublicPath(req[c]) => req[c].token \in issued \ revoked
    <3> SUFFICES ASSUME ~IsPublicPath(req[c])
                 PROVE  req[c].token \in issued \ revoked
      OBVIOUS
    <3>1. req[c].op \in {"logout", "view", "resource"}
      BY <2>1 DEF Asked, OnThread, InRouter, IsPublicPath
    <3>2. MiddlewaresPass(req[c].token)
      BY <1>3 DEF MiddlewareAccepts, Refused
    <3>3. req[c].token # NoToken
      BY <3>2 DEF MiddlewaresPass, ValidateToken, Verify
    <3>4. req[c].token \in issued
      BY <3>1, <3>3 DEF Asked
    <3>5. QED
      BY <3>2, <3>4 DEF MiddlewaresPass, ValidateToken
  <2>6. Admitted'
    BY <2>1, <2>3, <2>5 DEF Admitted, IsPublicPath, authVars, history
  <2>7. QED
    BY <2>2, <2>4, <2>6
<1>4. QED
  BY <1>1, <1>2, <1>3

----------------------------------------------------------------------------
(* Handlers: while one is at work no other request is in the router        *)

\* Tokens are handed out: they are genuine, of now, and not yet revoked.
LEMMA IssueKeeps ==
  ASSUME RestInv, NEW c \in Conn, Answers(c), Ticks(clock'),
         NEW new \in SUBSET Token, issued' = issued \cup new,
         \A t \in new : t.role = users[t.sub] /\ t.iat \in {clock, clock'},
         outNow' = (IF clock' = clock THEN outNow ELSE {}),
         UNCHANGED <<revoked, loggedOut>>
  PROVE  RestInv'
<1> USE DEF RestInv
<1>1. /\ phase[c] = "handling" /\ Answered(c)
      /\ UNCHANGED <<users, server, netVars>>
  BY DEF Answers
<1>2. req'[c] = NoRequest /\ phase'[c] = "writing"
  BY <1>1 DEF Answered, TypeOK
<1>3. \A d \in Conn \ {c} : req'[d] = req[d] /\ phase'[d] = phase[d]
  BY <1>1 DEF Answered, TypeOK
<1>4. clock \in Nat /\ clock' \in 0..MaxTime /\ clock' \in Nat /\ clock <= clock'
  BY LaterIsNat, AuthAssumption DEF TypeOK, AuthTypeOK
<1>5. TypeOK'
  <2>1. AuthTypeOK'
    BY <1>1, <1>4 DEF TypeOK, AuthTypeOK
  <2>2. req' \in [Conn -> Request \cup {NoRequest}]
    BY <1>1 DEF TypeOK, Answered
  <2>3. phase' \in [Conn -> {"closed", "reading", "received", "guarding", "handling",
                             "writing", "answered"}]
    BY <1>1 DEF TypeOK, Answered
  <2>4. issued' \subseteq Token /\ loggedOut' \subseteq Token /\ outNow' \subseteq Token
    BY DEF TypeOK
  <2>5. QED
    BY <1>1, <2>1, <2>2, <2>3, <2>4 DEF TypeOK, netVars
<1>6. \A t \in issued : t.iat \in Nat
  BY DEF TypeOK, Token
<1>7. Genuine'
  BY <1>1, <1>4, <1>6 DEF Genuine
<1>8. Gone'
  <2>1. \A t \in revoked : t.iat <= clock /\ t.iat \in Nat
    BY <1>6 DEF Gone, Genuine
  <2>2. \A t \in revoked : t.iat = clock' => clock' = clock /\ t \in outNow
    BY <1>4, <2>1 DEF Gone
  <2>3. QED
    BY <2>2 DEF Gone
<1>9. Asked'
  <2>1. ASSUME NEW d \in Conn
        PROVE  /\ OnThread(d)' => req'[d].op \in {"other", "login", "refresh", "logout", "view", "resource"}
               /\ req'[d].op \in {"refresh", "logout", "view", "resource"}
                    => req'[d].token \in issued' \cup {NoToken}
    BY <1>2, <1>3 DEF Asked, OnThread, InRouter, NoRequest
  <2>2. QED
    BY <2>1 DEF Asked
<1>10. Admitted' /\ Mutex'
  BY <1>2, <1>3 DEF Admitted, Mutex, InRouter, IsPublicPath
<1>11. QED
  BY <1>5, <1>7, <1>8, <1>9, <1>10

LEMMA LogoutKeeps ==
  ASSUME RestInv, NEW c \in Conn, HandleLogout(c)
  PROVE  RestInv'
<1> USE DEF RestInv
<1> DEFINE t == req[c].token
<1>1. /\ phase[c] = "handling" /\ Answered(c) /\ req[c].op = "logout"
      /\ UNCHANGED <<users, server, netVars, clock, issued>>
      /\ revoked' = revoked \cup {t} /\ loggedOut' = loggedOut \cup {t}
      /\ outNow' = outNow \cup {t}
  BY DEF HandleLogout, Answers, Logout
<1>2. t \in issued /\ t \in Token
  BY <1>1 DEF Admitted, IsPublicPath, TypeOK
<1>3. req'[c] = NoRequest /\ phase'[c] = "writing"
  BY <1>1 DEF Answered, TypeOK
<1>4. \A d \in Conn \ {c} : req'[d] = req[d] /\ phase'[d] = phase[d]
  BY <1>1 DEF Answered, TypeOK
<1>5. TypeOK'
  <2>1. req' \in [Conn -> Request \cup {NoRequest}]
    BY <1>1 DEF TypeOK, Answered
  <2>2. phase' \in [Conn -> {"closed", "reading", "received", "guarding", "handling",
                             "writing", "answered"}]
    BY <1>1 DEF TypeOK, Answered
  <2>3. AuthTypeOK' /\ issued' \subseteq Token /\ loggedOut' \subseteq Token
        /\ outNow' \subseteq Token
    BY <1>1, <1>2 DEF TypeOK, AuthTypeOK
  <2>4. QED
    BY <1>1, <2>1, <2>2, <2>3 DEF TypeOK, netVars
<1>6. Genuine' /\ Gone'
  BY <1>1, <1>2 DEF Genuine, Gone
<1>7. Asked'
  <2>1. ASSUME NEW d \in Conn
        PROVE  /\ OnThread(d)' => req'[d].op \in {"other", "login", "refresh", "logout", "view", "resource"}
               /\ req'[d].op \in {"refresh", "logout", "view", "resource"}
                    => req'[d].token \in issued \cup {NoToken}
    BY <1>3, <1>4 DEF Asked, OnThread, InRouter, NoRequest
  <2>2. QED
    BY <1>1, <2>1 DEF Asked
<1>8. \A d \in Conn : ~InRouter(d)'
  <2>1. \A d \in Conn \ {c} : ~InRouter(d)
    BY <1>1 DEF Mutex, InRouter
  <2>2. QED
    BY <1>3, <1>4, <2>1 DEF InRouter
<1>9. Admitted' /\ Mutex'
  BY <1>8 DEF Admitted, Mutex, InRouter
<1>10. QED
  BY <1>5, <1>6, <1>7, <1>9

LEMMA HandlerKeeps ==
  ASSUME RestInv, NEW c \in Conn,
         HandleLogin(c) \/ HandleRefresh(c) \/ HandlePublic(c) \/ HandleResource(c)
  PROVE  RestInv'
<1>1. CASE HandleLogin(c)
  <2>1. req[c].user \in User
    BY <1>1, RequestFields DEF HandleLogin, RestInv, TypeOK
  <2>2. clock' \in Nat
    BY <1>1, LaterIsNat DEF HandleLogin, RestInv, TypeOK
  <2>3. \A t \in Login(req[c].user, clock') :
          t \in Token /\ t.role = users[t.sub] /\ t.iat \in {clock, clock'}
    BY <2>1, <2>2, LoginTokens DEF RestInv, TypeOK
  <2>4. QED
    BY <1>1, <2>3, IssueKeeps DEF HandleLogin
<1>2. CASE HandleRefresh(c)
  <2> DEFINE t == req[c].token
  <2> SUFFICES \E new \in SUBSET Token :
                 /\ issued' = issued \cup new
                 /\ \A n \in new : n.role = users[n.sub] /\ n.iat \in {clock, clock'}
    BY <1>2, IssueKeeps DEF HandleRefresh
  <2>1. clock' \in Nat /\ clock \in Nat
    BY <1>2, LaterIsNat DEF HandleRefresh, RestInv, TypeOK, AuthTypeOK
  <2>2. CASE Refreshes(t)
    <3>1. t \in issued /\ t \in Token /\ t.role = users[t.sub]
      <4>1. t # NoToken
        BY <2>2 DEF Refreshes, Verify
      <4>2. QED
        BY <1>2, <4>1 DEF HandleRefresh, RestInv, Asked, TypeOK, Genuine
    <3>2. \A n \in RefreshToken(t, clock') :
            n \in Token /\ n.role = users[n.sub] /\ n.iat \in {clock, clock'}
      BY <2>1, <3>1, RefreshTokens
    <3>3. QED
      BY <1>2, <2>2, <3>2 DEF HandleRefresh
  <2>3. CASE ~Refreshes(t)
    <3>1. issued' = issued \cup {}
      BY <1>2, <2>3 DEF HandleRefresh
    <3>2. {} \in SUBSET Token /\ \A n \in {} : n.role = users[n.sub] /\ n.iat \in {clock, clock'}
      OBVIOUS
    <3> WITNESS {} \in SUBSET Token
    <3>3. QED
      BY <3>1, <3>2
  <2>4. QED
    BY <2>2, <2>3
<1>3. CASE HandlePublic(c) \/ HandleResource(c)
  BY <1>3, AnsweredKeeps DEF HandlePublic, HandleResource, Answers, authVars
<1>4. QED
  BY <1>1, <1>2, <1>3

LEMMA SecondKeeps ==
  ASSUME RestInv, SecondPasses
  PROVE  RestInv'
<1> USE DEF RestInv
<1>1. /\ clock' = clock + 1 /\ clock < MaxTime /\ outNow' = {}
      /\ UNCHANGED <<users, revoked, server, phase, req, netVars, issued, loggedOut>>
  BY DEF SecondPasses, Tick
<1>2. clock \in Nat /\ clock' \in 0..MaxTime
  BY <1>1, AuthAssumption DEF TypeOK, AuthTypeOK
<1>3. TypeOK'
  BY <1>1, <1>2 DEF TypeOK, AuthTypeOK, netVars
<1>4. \A t \in issued : t.iat \in Nat
  BY DEF TypeOK, Token
<1>5. Genuine'
  BY <1>1, <1>2, <1>4 DEF Genuine
<1>6. Gone'
  <2>1. \A t \in revoked : t.iat <= clock /\ t.iat \in Nat
    BY <1>4 DEF Gone, Genuine
  <2>2. \A t \in revoked : t.iat # clock'
    BY <1>1, <1>2, <2>1
  <2>3. QED
    BY <1>1, <2>2 DEF Gone
<1>7. Asked' /\ Admitted' /\ Mutex'
  BY <1>1 DEF Asked, Admitted, Mutex, OnThread, InRouter, IsPublicPath
<1>8. QED
  BY <1>3, <1>5, <1>6, <1>7

LEMMA RestStep == RestInv /\ [Next]_vars => RestInv'
<1> SUFFICES ASSUME RestInv, [Next]_vars PROVE RestInv'
  OBVIOUS
<1>1. CASE NetStep
  BY <1>1, NetKeeps
<1>2. ASSUME NEW c \in Conn, OnRead(c) \/ Router(c) PROVE RestInv'
  BY <1>2, OnReadKeeps, GuardKeeps, HandlerKeeps, LogoutKeeps DEF Router
<1>3. CASE SecondPasses
  BY <1>3, SecondKeeps
<1>4. CASE UNCHANGED vars
  BY <1>4 DEF vars, RestInv, TypeOK, AuthTypeOK, authVars, netVars, history, Genuine, Gone,
              Asked, Admitted, Mutex, OnThread, InRouter, IsPublicPath
<1>5. QED
  BY <1>1, <1>2, <1>3, <1>4 DEF Next, NetStep, Session

LEMMA RestInit == Init => RestInv
<1> SUFFICES ASSUME Init PROVE RestInv
  OBVIOUS
<1>1. AuthTypeOK
  BY AuthAssumption DEF Init, AuthInit, AuthTypeOK
<1>2. TypeOK
  BY <1>1 DEF Init, TypeOK
<1>3. Genuine /\ Gone
  BY DEF Init, AuthInit, Genuine, Gone
<1>4. Asked /\ Admitted /\ Mutex
  BY DEF Init, Asked, Admitted, Mutex, OnThread, InRouter, NoRequest
<1>5. QED
  BY <1>2, <1>3, <1>4 DEF RestInv

LEMMA RestInvariant == Spec => []RestInv
BY RestInit, RestStep, PTL DEF Spec

----------------------------------------------------------------------------

\* Every reachable state of the REST API is of the types declared for it.
THEOREM RestTypes == Spec => []TypeOK
<1>1. RestInv => TypeOK
  BY DEF RestInv
<1>2. QED
  BY <1>1, RestInvariant, PTL

\* Once the logout of a token has been answered no request that the middlewares
\* have let through is at work with it.
THEOREM LogoutIsFinal == Spec => []LoggedOutNeverServed
<1>1. RestInv => LoggedOutNeverServed
  BY DEF RestInv, Admitted, Gone, LoggedOutNeverServed
<1>2. QED
  BY <1>1, RestInvariant, PTL

\* The buffer that DoRead empties holds nothing of a client that waits for
\* its answers.
THEOREM WaitingClientsAreHeard == Spec => []OnlyPipelinedIsLost
<1>1. Init => OnlyPipelinedIsLost
  BY DEF Init, OnlyPipelinedIsLost
<1>2. RestInv /\ OnlyPipelinedIsLost /\ [Next]_vars => OnlyPipelinedIsLost'
  <2> SUFFICES ASSUME RestInv, OnlyPipelinedIsLost, [Next]_vars PROVE OnlyPipelinedIsLost'
    OBVIOUS
  <2> USE DEF netVars
  <2>1. ASSUME NEW c \in Conn, SessionEnds(c) PROVE OnlyPipelinedIsLost'
    BY <2>1 DEF SessionEnds, OnlyPipelinedIsLost, RestInv, TypeOK
  <2>2. ASSUME NEW c \in Conn, DoRead(c) PROVE OnlyPipelinedIsLost'
    BY <2>2 DEF DoRead, Discards, InBuffer, OnlyPipelinedIsLost, RestInv, TypeOK
  <2>3. ASSUME UNCHANGED <<torn, lost>> PROVE OnlyPipelinedIsLost'
    BY <2>3 DEF OnlyPipelinedIsLost
  <2>4. ASSUME NEW c \in Conn, Client(c) PROVE OnlyPipelinedIsLost'
    BY <2>1, <2>3, <2>4 DEF Client, AcceptLoop, ClientSends, ConnectionLost, ResponseArrives
  <2>5. ASSUME NEW c \in Conn, OnRead(c) \/ OnReadError(c) \/ OnWrite(c)
        PROVE  OnlyPipelinedIsLost'
    BY <2>1, <2>2, <2>3, <2>5 DEF OnRead, OnReadError, OnWrite
  <2>6. ASSUME NEW c \in Conn, Router(c) PROVE OnlyPipelinedIsLost'
    BY <2>3, <2>6 DEF Router, DispatchLocks, MiddlewareRefuses, MiddlewareAccepts,
                      HandleLogin, HandleRefresh, HandleLogout, HandlePublic,
                      HandleResource, Answers
  <2>7. CASE StopIoContext \/ SecondPasses \/ UNCHANGED vars
    BY <2>3, <2>7 DEF StopIoContext, SecondPasses, vars
  <2>8. CASE StopJoins
    BY <2>8 DEF StopJoins, OnlyPipelinedIsLost
  <2>9. QED
    BY <2>4, <2>5, <2>6, <2>7, <2>8 DEF Next, Session
<1>3. QED
  BY <1>1, <1>2, RestInvariant, PTL DEF Spec

\* The clock stands or goes on by one second in every step.
LEMMA ClockSteps ==
  ASSUME RestInv, [Next]_vars
  PROVE  clock' \in Nat /\ clock \in Nat /\ clock' \in {clock, clock + 1}
<1>1. RestInv'
  BY RestStep
<1>2. clock \in Nat /\ clock' \in Nat
  BY <1>1, AuthAssumption DEF RestInv, TypeOK, AuthTypeOK
<1>3. clock' \in {clock, clock + 1}
  BY DEF Next, Session, Client, Router, vars, authVars, AcceptLoop, ClientSends,
         ConnectionLost, ResponseArrives, OnRead, OnReadError, OnWrite, DispatchLocks,
         MiddlewareRefuses, MiddlewareAccepts, HandleLogin, HandleRefresh, HandleLogout,
         HandlePublic, HandleResource, Ticks, StopIoContext, StopJoins, SecondPasses, Tick
<1>4. QED
  BY <1>2, <1>3

\* A login or refresh hands out no token that is revoked, but one that was
\* handed out and logged out in the same second.
THEOREM FreshTokensWork == Spec => FreshTokenWorks
<1>1. RestInv /\ [Next]_vars =>
        [\A c \in Conn :
           phase[c] = "handling" /\ phase'[c] = "writing" =>
             /\ req[c].op = "login" =>
                  Login(req[c].user, clock') \cap revoked \subseteq outNow
             /\ req[c].op = "refresh" /\ Refreshes(req[c].token) =>
                  RefreshToken(req[c].token, clock') \cap revoked \subseteq outNow]_vars
  <2> SUFFICES ASSUME RestInv, [Next]_vars, NEW c \in Conn, phase[c] = "handling"
               PROVE  /\ req[c].op = "login" =>
                           Login(req[c].user, clock') \cap revoked \subseteq outNow
                      /\ req[c].op = "refresh" /\ Refreshes(req[c].token) =>
                           RefreshToken(req[c].token, clock') \cap revoked \subseteq outNow
    OBVIOUS
  <2>1. clock' \in Nat /\ clock \in Nat /\ clock' \in {clock, clock + 1}
    BY ClockSteps
  <2>2. \A t \in revoked : t.iat \in Nat /\ t.iat <= clock /\ (t.iat = clock => t \in outNow)
    BY DEF RestInv, Genuine, Gone, TypeOK, Token
  <2>3. ASSUME NEW t \in revoked, t.iat \in {clock, clock'} PROVE t \in outNow
    BY <2>1, <2>2, <2>3
  <2>4. ASSUME req[c].op = "login"
        PROVE  Login(req[c].user, clock') \cap revoked \subseteq outNow
    <3>1. req[c].user \in User
      BY <2>4, RequestFields DEF RestInv, TypeOK
    <3>2. QED
      BY <2>1, <2>3, <3>1, LoginTokens DEF RestInv, TypeOK
  <2>5. ASSUME req[c].op = "refresh", Refreshes(req[c].token)
        PROVE  RefreshToken(req[c].token, clock') \cap revoked \subseteq outNow
    <3>1. req[c].token \in Token
      BY <2>5, RequestFields DEF RestInv, TypeOK, Refreshes, Verify
    <3>2. QED
      BY <2>1, <2>3, <3>1, RefreshTokens
  <2>6. QED
    BY <2>4, <2>5
<1>2. QED
  BY <1>1, RestInvariant, PTL DEF Spec, FreshTokenWorks
=============================================================================
