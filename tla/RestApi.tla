------------------------------- MODULE RestApi -------------------------------
(***************************************************************************)
(* The REST API: HttpServer and HttpSession, the router with its           *)
(* middlewares, and the controllers, over AuthenticationService.           *)
(*                                                                         *)
(* The io threads run one handler of a connection at a time.  OnRead does  *)
(* all the work of a request: it takes the router's mutex, runs every      *)
(* middleware, runs the route's handler, and starts the write.  These are  *)
(* separate steps, as other connections, the clock and Stop move between   *)
(* them.  What a controller does beyond AuthenticationService is left to   *)
(* the modules of its component: a resource request succeeds or fails.     *)
(***************************************************************************)
EXTENDS Authentication, FiniteSets

CONSTANTS
  Conn,       \* connections that may be open at a time
  Pipelining, \* those whose client sends before it has its answer
  Threads     \* m_threadCount

ASSUME RestAssumption == Pipelining \subseteq Conn /\ Threads \in Nat \ {0}

VARIABLES
  server,   \* "running", "stopping" (io_context stopped), "stopped" (joined)
  phase,    \* what the session of a connection is doing
  req,      \* the request it is doing it for
  inbox,    \* requests in the socket, not yet read
  lost,     \* waiting clients of which a request was thrown away (history)
  torn,     \* the socket goes on in the middle of a request
  issued,   \* tokens handed out (history)
  loggedOut,\* tokens whose logout was answered (history)
  outNow    \* those answered in this second (history)

netVars == <<inbox, torn, lost>>
history == <<issued, loggedOut, outNow>>
vars == <<authVars, server, phase, req, netVars, history>>

\* Paths by the way they are guarded and by what they do to tokens.  "other" is
\* a public request that ends without an effect on tokens: /health, a failed or
\* malformed login, an unknown method of a public path; "view" is a GET of devices,
\* sensors or metrics, "resource" any other request of a controller.
NoRequest == [op |-> "none"]
PublicRequest == [op : {"other", "preflight"}] \cup [op : {"login"}, user : User]
                   \cup [op : {"refresh"}, token : Token \cup {NoToken}]
GuardedRequest == [op : {"logout", "view", "resource"}, token : Token \cup {NoToken}]
Request == PublicRequest \cup GuardedRequest

IsPublicPath(r) == r.op \in {"other", "login", "refresh"}

InRouter(c) == phase[c] \in {"guarding", "handling"}
OnThread(c) == phase[c] = "received" \/ InRouter(c)

\* Type invariant: tokens, the phases of the sessions, the bytes under way, history.
TypeOK ==
  /\ AuthTypeOK
  /\ server \in {"running", "stopping", "stopped"}
  /\ phase \in [Conn -> {"closed", "reading", "received", "guarding", "handling",
                         "writing", "answered"}]
  /\ req \in [Conn -> Request \cup {NoRequest}]
  /\ inbox \in [Conn -> {0, 1}]
  /\ lost \subseteq Conn \ Pipelining
  /\ torn \in [Conn -> BOOLEAN]
  /\ issued \subseteq Token
  /\ loggedOut \subseteq Token
  /\ outNow \subseteq Token

\* The server has been started and nobody is connected.
Init ==
  /\ AuthInit
  /\ server = "running"
  /\ phase = [c \in Conn |-> "closed"]
  /\ req = [c \in Conn |-> NoRequest]
  /\ inbox = [c \in Conn |-> 0]
  /\ lost = {}
  /\ torn = [c \in Conn |-> FALSE]
  /\ issued = {} /\ loggedOut = {} /\ outNow = {}

----------------------------------------------------------------------------
(* The client and the connection *)

\* AcceptLoop makes a session of a new connection, and the session reads.
AcceptLoop(c) ==
  /\ server = "running"
  /\ phase[c] = "closed"
  /\ phase' = [phase EXCEPT ![c] = "reading"]
  /\ UNCHANGED <<authVars, server, req, netVars, history>>

\* (What is sent to a server that stops is never read.)
\* A client that does not pipeline sends when every request has its answer.
ClientSends(c) ==
  /\ server = "running"
  /\ phase[c] # "closed"
  /\ inbox[c] = 0
  /\ c \in Pipelining \/ phase[c] \in {"reading", "answered"}
  /\ inbox' = [inbox EXCEPT ![c] = 1]
  /\ UNCHANGED <<authVars, server, phase, req, torn, lost, history>>

\* The session is not continued, and what was under way is gone with it.
SessionEnds(c) ==
  /\ phase' = [phase EXCEPT ![c] = "closed"]
  /\ inbox' = [inbox EXCEPT ![c] = 0]
  /\ torn' = [torn EXCEPT ![c] = FALSE]
  /\ UNCHANGED lost

\* The connection fails, or the client ends it: the next read or write of the
\* session reports it.
ConnectionLost(c) ==
  /\ phase[c] \in {"reading", "writing", "answered"}
  /\ SessionEnds(c)
  /\ UNCHANGED <<authVars, server, req, history>>

----------------------------------------------------------------------------
(* HttpSession *)

\* The request a client may make: it knows the tokens that were handed out.
MayAsk == [op : {"other", "preflight"}] \cup [op : {"login"}, user : User]
            \cup [op : {"refresh", "logout", "view", "resource"}, token : issued \cup {NoToken}]

\* SendResponse starts the write; nothing looks at the request again.
Answered(c) == /\ phase' = [phase EXCEPT ![c] = "writing"]
               /\ req' = [req EXCEPT ![c] = NoRequest]

\* async_read completes on a free io thread and returns one request.
OnRead(c) ==
  /\ server = "running"
  /\ phase[c] = "reading" /\ inbox[c] = 1 /\ ~torn[c]
  /\ Cardinality({d \in Conn : OnThread(d)}) < Threads
  /\ inbox' = [inbox EXCEPT ![c] = 0]
  /\ \E r \in MayAsk :
       IF r.op = "preflight"
         THEN Answered(c)
         ELSE /\ req' = [req EXCEPT ![c] = r]
              /\ phase' = [phase EXCEPT ![c] = "received"]
  /\ UNCHANGED <<authVars, server, torn, lost, history>>

\* What comes next is the second half of a request: the parser reports an
\* error, and the session ends without an answer.
OnReadError(c) ==
  /\ server = "running"
  /\ phase[c] = "reading" /\ torn[c]
  /\ SessionEnds(c)
  /\ UNCHANGED <<authVars, server, req, history>>

\* The write was started on the thread of the handler: the client can have the
\* answer before OnWrite runs.
ResponseArrives(c) ==
  /\ phase[c] = "writing"
  /\ phase' = [phase EXCEPT ![c] = "answered"]
  /\ UNCHANGED <<authVars, server, req, netVars, history>>

\* A request of a client that waits for its answers is recorded as lost.
Discards(c, dropped) == lost' = IF dropped THEN lost \cup ({c} \ Pipelining) ELSE lost

\* What async_read may have left in m_buffer after the request it returned:
\* whole requests or part of one, if the client sent more than it returned.
InBuffer(c) == IF c \in Pipelining THEN {"nothing", "requests", "part"} ELSE {"nothing"}

\* Mutant of DoRead: what has arrived in the meantime is thrown away too.
DoReadDrains(c) ==
  \E left \in InBuffer(c) :
    /\ Discards(c, left = "requests" \/ inbox[c] = 1)
    /\ inbox' = [inbox EXCEPT ![c] = 0]
    /\ torn' = [torn EXCEPT ![c] = left = "part"]

\* DoRead empties m_buffer before it reads.
DoRead(c) ==
  \E left \in InBuffer(c) :
    /\ Discards(c, left = "requests")
    /\ torn' = [torn EXCEPT ![c] = left = "part"]
    /\ UNCHANGED inbox

\* The session reads on, or it shuts the connection down if the request was
\* the last one (keep_alive).
OnWrite(c) ==
  /\ server = "running"
  /\ phase[c] = "answered"
  /\ \/ /\ phase' = [phase EXCEPT ![c] = "reading"]
        /\ DoRead(c)
     \/ SessionEnds(c)
  /\ UNCHANGED <<authVars, server, req, history>>

----------------------------------------------------------------------------
(* HttpRouter and the middlewares *)

\* Mutant of RouterFree: handlers of different connections run side by side.
RouterFreeAlways == TRUE

RouterFree == \A d \in Conn : ~InRouter(d)

\* Dispatch takes the mutex and keeps it until it returns.
DispatchLocks(c) ==
  /\ phase[c] = "received"
  /\ RouterFree
  /\ phase' = [phase EXCEPT ![c] = "guarding"]
  /\ UNCHANGED <<authVars, server, req, netVars, history>>

\* What the controllers add.  A middleware belongs to the router, not to a route.
Middlewares == {<<"devices", "Read">>, <<"devices", "Write">>, <<"sensors", "Read">>,
                <<"automation", "Read">>, <<"automation", "Write">>, <<"metrics", "Read">>}

MiddlewaresPass(t) ==
  /\ ValidateToken(t)
  /\ \A mw \in Middlewares : CanAccess(t.role, mw[1], mw[2])

Refused(r) == ~IsPublicPath(r) /\ ~MiddlewaresPass(r.token)

\* Mutant of MiddlewareRefuses: the answer is sent with the mutex still held.
MiddlewareRefusesLocked(c) ==
  /\ phase[c] = "guarding"
  /\ Refused(req[c])
  /\ UNCHANGED <<authVars, server, phase, req, netVars, history>>

\* One of the middlewares answers 401 or 403.  (Each of them validates the token
\* again; as only the clock moves meanwhile, the last one decides.)
MiddlewareRefuses(c) ==
  /\ phase[c] = "guarding"
  /\ Refused(req[c])
  /\ Answered(c)
  /\ UNCHANGED <<authVars, server, netVars, history>>

MiddlewareAccepts(c) ==
  /\ phase[c] = "guarding"
  /\ ~Refused(req[c])
  /\ phase' = [phase EXCEPT ![c] = "handling"]
  /\ UNCHANGED <<authVars, server, req, netVars, history>>

----------------------------------------------------------------------------
(* Handlers: each computes the answer, and Dispatch releases the mutex *)

Answers(c) == /\ phase[c] = "handling"
              /\ Answered(c)
              /\ UNCHANGED <<users, server, netVars>>

\* AuthController, POST /auth/login with the right password.
HandleLogin(c) ==
  /\ req[c].op = "login"
  /\ Answers(c)
  /\ Ticks(clock')
  /\ issued' = issued \cup Login(req[c].user, clock')
  /\ outNow' = IF clock' = clock THEN outNow ELSE {}
  /\ UNCHANGED <<revoked, loggedOut>>

\* AuthController, POST /auth/refresh.
HandleRefresh(c) ==
  /\ req[c].op = "refresh"
  /\ Answers(c)
  /\ Ticks(clock')
  /\ issued' = IF Refreshes(req[c].token)
                 THEN issued \cup RefreshToken(req[c].token, clock') ELSE issued
  /\ outNow' = IF clock' = clock THEN outNow ELSE {}
  /\ UNCHANGED <<revoked, loggedOut>>

\* AuthController, POST /auth/logout.  The answer is 204 in any case.
HandleLogout(c) ==
  /\ req[c].op = "logout"
  /\ Answers(c)
  /\ Logout(req[c].token)
  /\ loggedOut' = loggedOut \cup {req[c].token}
  /\ outNow' = outNow \cup {req[c].token}
  /\ UNCHANGED <<clock, issued>>

\* The other handlers leave tokens alone.  One that throws is answered 500 by OnRead.
\* HealthController, or a login that fails.
HandlePublic(c) ==
  /\ req[c].op = "other"
  /\ Answers(c)
  /\ UNCHANGED <<clock, revoked, history>>

\* DeviceController; and the sensor, automation and metrics controllers likewise.
HandleResource(c) ==
  /\ req[c].op \in {"view", "resource"}
  /\ Answers(c)
  /\ UNCHANGED <<clock, revoked, history>>

----------------------------------------------------------------------------
(* HttpServer::Stop: handlers that have begun go on to their end *)

StopIoContext ==
  /\ server = "running"
  /\ server' = "stopping"
  /\ UNCHANGED <<authVars, phase, req, netVars, history>>

\* The threads are joined.  The sessions, which nobody runs any more, go with
\* the io_context when the server is destroyed.
StopJoins ==
  /\ server = "stopping"
  /\ \A c \in Conn : ~OnThread(c)
  /\ server' = "stopped"
  /\ phase' = [c \in Conn |-> "closed"]
  /\ inbox' = [c \in Conn |-> 0]
  /\ torn' = [c \in Conn |-> FALSE]
  /\ UNCHANGED <<authVars, req, lost, history>>

SecondPasses ==
  /\ Tick
  /\ outNow' = {}
  /\ UNCHANGED <<server, phase, req, netVars, issued, loggedOut>>

Router(c) == \/ DispatchLocks(c) \/ MiddlewareRefuses(c) \/ MiddlewareAccepts(c)
             \/ HandleLogin(c) \/ HandleRefresh(c) \/ HandleLogout(c)
             \/ HandlePublic(c) \/ HandleResource(c)

Session(c) == OnRead(c) \/ OnReadError(c) \/ OnWrite(c) \/ Router(c)

Client(c) == AcceptLoop(c) \/ ClientSends(c) \/ ConnectionLost(c) \/ ResponseArrives(c)

Next == \/ \E c \in Conn : Session(c) \/ Client(c)
        \/ StopIoContext \/ StopJoins
        \/ SecondPasses

\* A handler that has the mutex goes on, and one that waits for it gets it when
\* it stays free.  Nothing is assumed of clients, of Stop or of the clock.
Fairness == /\ \A c \in Conn : WF_vars(Router(c)) /\ WF_vars(OnRead(c))
            /\ WF_vars(StopJoins)

Spec == Init /\ [][Next]_vars /\ Fairness

----------------------------------------------------------------------------
(* Properties *)

\* A request that was let through is not at work with a token whose logout has
\* been answered, on whatever connection: Dispatch holds one mutex over
\* the middlewares and the handler.  (The logout itself is at work until then.)
LoggedOutNeverServed ==
  \A c \in Conn : phase[c] = "handling" /\ ~IsPublicPath(req[c])
                    => req[c].token \notin loggedOut

\* A login or a refresh hands out a token that is already revoked only if
\* that very token was logged out in the same second: payloads then are equal.
FreshTokenWorks ==
  [][\A c \in Conn :
       phase[c] = "handling" /\ phase'[c] = "writing" =>
         /\ req[c].op = "login" =>
              Login(req[c].user, clock') \cap revoked \subseteq outNow
         /\ req[c].op = "refresh" /\ Refreshes(req[c].token) =>
              RefreshToken(req[c].token, clock') \cap revoked \subseteq outNow]_vars

\* Whoever may read devices, sensors and metrics is not refused when reading them with a
\* good token: the documented right of a Viewer.  The code refuses it, as the middlewares of
\* all the controllers guard every route.
RightsAreEnough ==
  [][\A c \in Conn :
       /\ phase[c] = "guarding" /\ phase'[c] = "writing"
       /\ req[c].op = "view" /\ ValidateToken(req[c].token)
       => \E resource \in {"devices", "sensors", "metrics"} :
            ~CanAccess(req[c].token.role, resource, "Read")]_vars

\* No request of a client that waits for its answers is thrown away with the
\* buffer or cut in two, however late OnWrite runs.
OnlyPipelinedIsLost == lost = {} /\ \A c \in Conn \ Pipelining : ~torn[c]

\* Stop returns: every handler that has begun comes to its end.
StopReturns == server = "stopping" ~> server = "stopped"
=============================================================================
