---------------------------- MODULE UserService -----------------------------
(***************************************************************************)
(* user-service: the HTTP handlers for registration, login and profile     *)
(* over one users table, the NATS responder for user.get, and the life of  *)
(* the processes that run both, which Kubernetes starts, stops with        *)
(* SIGTERM and starts again.                                               *)
(*                                                                         *)
(* Every database call of a handler is a step; hashing and comparing       *)
(* passwords belongs to the step next to it.  A responder takes one        *)
(* message at a time from its subscription's queue.  On SIGTERM the NATS   *)
(* connection is drained and closed; the HTTP server is not, and serves    *)
(* calls until the process is gone.  Only a timer bounds how long that     *)
(* takes.                                                                  *)
(***************************************************************************)
EXTENDS Naturals, Sequences

LOCAL INSTANCE SequencesExt

CONSTANTS
  Calls,          \* HTTP calls; a user is named by the call that registered it
  Sends,          \* what each call may send, see Bodies
  Emails, Passwords,
  Requests,       \* requests for user.get
  Asks,           \* the user each asks for
  Procs,          \* the processes that run the service
  JwtSecret,      \* is JWT_SECRET set?
  Faults,         \* what may go wrong in this instance, see FaultKinds
  None            \* nobody, nothing yet

FaultKinds ==
  { "dbError",    \* a database call fails, having been applied or not
    "lost",       \* NATS loses a request on its way to a process
    "crash" }     \* a process dies

\* A registration and a login carry credentials, a profile call a user's id,
\* which the gateway puts in its x-user-id header, or none.
Bodies == [does: {"register", "login"}, email: Emails, password: Passwords]
            \cup [does: {"profile"}, id: Calls \cup {None}]

\* The 200s are told apart by what they carry.
Codes == {"201", "token", "profile", "400", "401", "404", "409", "500", "cut off"}
\* A request has failed when it is told so, or gives up.
Replies == {"user", "not found", "failed"}

ASSUME CallsAssumption == Sends \in [Calls -> SUBSET Bodies]
ASSUME AsksAssumption == Asks \in [Requests -> Calls] /\ Calls \cap Requests = {}
ASSUME NoneAssumption ==
  None \notin Calls \cup Bodies \cup Requests \cup Procs \cup Codes \cup Replies \cup {"waiting"}
ASSUME FaultsAssumption == Faults \subseteq FaultKinds /\ JwtSecret \in BOOLEAN

VARIABLES
  users,          \* the users table
  body,           \* what each HTTP call has sent
  pc,             \* where it is in its handler
  at,             \* the process that runs it
  answer,         \* the HTTP answer: a status code, or cut off
  proc,           \* what each process is doing
  queue,          \* the messages delivered to its subscription and not taken
  handling,       \* the message its responder is at
  got,            \* what each request has got
  promised        \* history: logins, profile calls and requests that began after
                  \* the registration of their user was answered

callVars == <<body, pc, at, answer>>
natsVars == <<queue, handling, got>>
vars == <<users, callVars, proc, natsVars, promised>>

Rows == [id: Calls, email: Emails, password: Passwords]

HasEmail(e) == {u \in users : u.email = e}
HasId(id) == {u \in users : u.id = id}
Registered == {c \in Calls : answer[c] = "201"}

Up(p) == proc[p] # "exited"
Connected(p) == proc[p] \in {"running", "draining"}

Init ==
  /\ users    = {}
  /\ body     = [c \in Calls |-> None]
  /\ pc       = [c \in Calls |-> "idle"]
  /\ at       = [c \in Calls |-> None]
  /\ answer   = [c \in Calls |-> None]
  /\ proc     = [p \in Procs |-> "running"]
  /\ queue    = [p \in Procs |-> <<>>]
  /\ handling = [p \in Procs |-> None]
  /\ got      = [q \in Requests |-> None]
  /\ promised = {}

-----------------------------------------------------------------------------
(* HTTP calls.                                                             *)

Go(c, phase) == pc' = [pc EXCEPT ![c] = phase]
Answer(c, code) ==
  /\ Go(c, "done")
  /\ at' = [at EXCEPT ![c] = None]
  /\ answer' = [answer EXCEPT ![c] = code]
  /\ UNCHANGED body
GoOn(c, phase) == Go(c, phase) /\ UNCHANGED <<body, at, answer>>
Begin(x, whom) == promised' = IF whom # {} THEN promised \cup {x} ELSE promised

(* Mutant: the error's own code is the status.                             *)
FailsOpenly(c) == "dbError" \in Faults /\ Answer(c, "P1001")

(* The errorHandler's default: an error it does not know.                  *)
Fails(c) == "dbError" \in Faults /\ Answer(c, "500")

(* The registered users a call is about: a login gives their credentials.  *)
AboutUser(b) ==
  { r \in Registered :
      \/ b.does = "login" /\ body[r].email = b.email /\ body[r].password = b.password
      \/ b.does = "profile" /\ b.id = r }

(* The port stays open for as long as the process lives.                   *)
Arrive(c, p) ==
  /\ pc[c] = "idle" /\ Up(p)
  /\ \E b \in Sends[c] :
       /\ body' = [body EXCEPT ![c] = b]
       /\ Begin(c, AboutUser(b))
       /\ Go(c, CASE b.does = "register" -> "check"
                  [] b.does = "login" -> "look up"
                  [] b.does = "profile" -> "read")
  /\ at' = [at EXCEPT ![c] = p]
  /\ UNCHANGED <<users, answer, proc, natsVars>>

CheckEmail(c) ==
  /\ pc[c] = "check"
  /\ \/ HasEmail(body[c].email) # {} /\ Answer(c, "409")
     \/ HasEmail(body[c].email) = {} /\ GoOn(c, "create")
     \/ Fails(c)
  /\ UNCHANGED <<users, proc, natsVars, promised>>

NewRow(c) == [id |-> c, email |-> body[c].email, password |-> body[c].password]

(* Mutants: users.email is not UNIQUE; the create is not awaited.          *)
InsertUserTwice(c) ==
  /\ pc[c] = "create"
  /\ users' = users \cup {NewRow(c)} /\ GoOn(c, "created")
  /\ UNCHANGED <<proc, natsVars, promised>>
InsertUserUnawaited(c) ==
  /\ \/ pc[c] = "create" /\ Answer(c, "201") /\ UNCHANGED users
     \/ /\ answer[c] = "201" /\ HasEmail(body[c].email) = {}
        /\ users' = users \cup {NewRow(c)} /\ UNCHANGED callVars
  /\ UNCHANGED <<proc, natsVars, promised>>

(* user.create.  users.email is UNIQUE: of two that passed the check one   *)
(* is told 500, for the error is not the one that makes a 409.             *)
InsertUser(c) ==
  /\ pc[c] = "create"
  /\ \/ /\ HasEmail(body[c].email) = {}
        /\ users' = users \cup {NewRow(c)} /\ GoOn(c, "created")
     \/ /\ HasEmail(body[c].email) # {}
        /\ Answer(c, "500") /\ UNCHANGED users
     \/ Fails(c) /\ UNCHANGED users
  /\ UNCHANGED <<proc, natsVars, promised>>

Register(c) ==
  /\ pc[c] = "created"
  /\ Answer(c, "201") \/ Fails(c)
  /\ UNCHANGED <<users, proc, natsVars, promised>>

Login(c) ==
  /\ pc[c] = "look up"
  /\ \/ \E u \in HasEmail(body[c].email) :
          Answer(c, IF u.password # body[c].password THEN "401"
                    ELSE IF JwtSecret THEN "token" ELSE "400")
     \/ HasEmail(body[c].email) = {} /\ Answer(c, "401")
     \/ Fails(c)
  /\ UNCHANGED <<users, proc, natsVars, promised>>

GetProfile(c) ==
  /\ pc[c] = "read"
  /\ \/ body[c].id = None /\ Answer(c, "401")
     \/ /\ body[c].id # None
        /\ \/ Answer(c, IF HasId(body[c].id) # {} THEN "profile" ELSE "404")
           \/ Fails(c)
  /\ UNCHANGED <<users, proc, natsVars, promised>>

-----------------------------------------------------------------------------
(* user.get.                                                               *)

(* NATS gives the request to one subscriber of the queue group, which may  *)
(* have just unsubscribed; or loses it; or tells the sender that there is  *)
(* no subscriber.                                                          *)
Ask(q) ==
  /\ got[q] = None
  /\ \/ /\ \E p \in Procs : Connected(p) /\ queue' = [queue EXCEPT ![p] = Append(@, q)]
        /\ got' = [got EXCEPT ![q] = "waiting"]
     \/ /\ "lost" \in Faults \/ \A p \in Procs : proc[p] # "running"
        /\ got' = [got EXCEPT ![q] = "failed"] /\ UNCHANGED queue
  /\ Begin(q, Registered \cap {Asks[q]})
  /\ UNCHANGED <<users, callVars, proc, handling>>

TimeOut(q) ==
  /\ got[q] = "waiting"
  /\ got' = [got EXCEPT ![q] = "failed"]
  /\ UNCHANGED <<users, callVars, proc, queue, handling, promised>>

(* for await (const msg of sub), on until the connection is closed.        *)
Take(p) ==
  /\ Connected(p) /\ handling[p] = None /\ queue[p] # <<>>
  /\ handling' = [handling EXCEPT ![p] = Head(queue[p])]
  /\ queue' = [queue EXCEPT ![p] = Tail(@)]
  /\ UNCHANGED <<users, callVars, proc, got, promised>>

(* A reply reaches a sender that still waits, over an open connection.     *)
Reply(p, q, what) ==
  got' = IF Connected(p) /\ got[q] = "waiting" THEN [got EXCEPT ![q] = what] ELSE got

(* Mutant: the try surrounds the loop, which a handler's error then ends.  *)
HandlerEndsTheLoop(p) ==
  LET q == handling[p] IN
  /\ handling[p] # None
  /\ HasId(Asks[q]) # {} /\ Reply(p, q, "user")
  /\ handling' = [handling EXCEPT ![p] = None]
  /\ UNCHANGED <<users, callVars, proc, queue, promised>>

(* The handler reads the user and replies, or throws: then the reply is an *)
(* error.  The dead letter goes to a subject nobody subscribes to, where   *)
(* NATS drops it.                                                          *)
HandlerEnds(p) ==
  LET q == handling[p] IN
  /\ handling[p] # None
  /\ \/ HasId(Asks[q]) # {} /\ Reply(p, q, "user")
     \/ HasId(Asks[q]) = {} /\ Reply(p, q, "not found")
     \/ "dbError" \in Faults /\ Reply(p, q, "failed")
  /\ handling' = [handling EXCEPT ![p] = None]
  /\ UNCHANGED <<users, callVars, proc, queue, promised>>

-----------------------------------------------------------------------------
(* The processes.                                                          *)

Become(p, state) == proc' = [proc EXCEPT ![p] = state]

(* What a process was at is gone with it; its callers see a reset.         *)
Exit(p) ==
  /\ Become(p, "exited")
  /\ queue' = [queue EXCEPT ![p] = <<>>]
  /\ handling' = [handling EXCEPT ![p] = None]
  /\ pc' = [c \in Calls |-> IF at[c] = p THEN "done" ELSE pc[c]]
  /\ at' = [c \in Calls |-> IF at[c] = p THEN None ELSE at[c]]
  /\ answer' = [c \in Calls |-> IF at[c] = p THEN "cut off" ELSE answer[c]]
  /\ UNCHANGED <<users, body, got, promised>>

(* Connect, subscribe, listen.  A start that fails exits, and is repeated. *)
Start(p) ==
  /\ proc[p] = "exited"
  /\ Become(p, "running")
  /\ UNCHANGED <<users, callVars, natsVars, promised>>

(* SIGTERM: the subscriptions end, and the connection is being drained.    *)
Stop(p) ==
  /\ proc[p] = "running"
  /\ Become(p, "draining")
  /\ UNCHANGED <<users, callVars, natsVars, promised>>

(* drain() resolves once NATS has confirmed it, whatever the handler is    *)
(* at; what has not been taken by then gets no reply.                      *)
Drained(p) ==
  /\ proc[p] = "draining"
  /\ Become(p, "closed")
  /\ queue' = [queue EXCEPT ![p] = <<>>]
  /\ UNCHANGED <<users, callVars, handling, got, promised>>

(* After $disconnect; or when drain() throws, as it does for a second      *)
(* SIGTERM.                                                                *)
ShutDown(p) == proc[p] \in {"draining", "closed"} /\ Exit(p)

(* Mutant: the timer is cleared when the connection is closed.             *)
ForceExitWhileDraining(p) == proc[p] = "draining" /\ Exit(p)

(* 10 s after SIGTERM.                                                     *)
ForceExit(p) == proc[p] \in {"draining", "closed"} /\ Exit(p)

Crash(p) == "crash" \in Faults /\ proc[p] = "running" /\ Exit(p)

-----------------------------------------------------------------------------

CallStep(c) ==
  CheckEmail(c) \/ InsertUser(c) \/ Register(c) \/ Login(c) \/ GetProfile(c)

ProcStep(p) ==
  \/ Take(p) \/ HandlerEnds(p)
  \/ Start(p) \/ Stop(p) \/ Drained(p) \/ ShutDown(p) \/ ForceExit(p) \/ Crash(p)

Next ==
  \/ \E c \in Calls : CallStep(c) \/ \E p \in Procs : Arrive(c, p)
  \/ \E q \in Requests : Ask(q) \/ TimeOut(q)
  \/ \E p \in Procs : ProcStep(p)

Spec == Init /\ [][Next]_vars

(* Node resumes a responder whose await is over, the database answers it   *)
(* or fails, timers fire.  Nothing is assumed of NATS, of the senders, nor *)
(* of the calls that shutdown awaits.                                      *)
FairSpec ==
  Spec /\ \A p \in Procs : WF_vars(Take(p) \/ HandlerEnds(p)) /\ WF_vars(ForceExit(p))

-----------------------------------------------------------------------------

TypeOK ==
  /\ users \subseteq Rows
  /\ body \in [Calls -> Bodies \cup {None}]
  /\ pc \in [Calls -> {"idle", "check", "create", "created", "look up", "read", "done"}]
  /\ at \in [Calls -> Procs \cup {None}]
  /\ answer \in [Calls -> Codes \cup {None}]
  /\ proc \in [Procs -> {"running", "draining", "closed", "exited"}]
  /\ queue \in [Procs -> Seq(Requests)]
  /\ handling \in [Procs -> Requests \cup {None}]
  /\ got \in [Requests -> Replies \cup {"waiting", None}]
  /\ promised \subseteq Calls \cup Requests

(* A registration answered with 201 has made the one account of its        *)
(* e-mail, with its password, however many registered that e-mail at once  *)
(* and whatever failed or stopped; and a login succeeds only with the      *)
(* password of the one account.                                            *)
AnsweredHasAccount ==
  \A c \in Calls :
    /\ answer[c] = "201" => HasEmail(body[c].email) = {NewRow(c)}
    /\ answer[c] = "token" =>
         \E u \in users : /\ HasEmail(body[c].email) = {u}
                          /\ u.password = body[c].password

(* Who was told `201' is known from then on, to every process: a login     *)
(* with these credentials, a profile or a user.get that begins after that  *)
(* is never told that there is no such user.                               *)
ReadYourRegistration ==
  /\ \A c \in Calls \cap promised : answer[c] \notin {"401", "404"}
  /\ \A q \in Requests \cap promised : got[q] # "not found"

Queued(q) == \E p \in Procs : q \in Range(queue[p])

(* A message delivered to a process does not stay in its queue, although   *)
(* handlers throw, senders give up and processes stop.                     *)
QueueKeepsMoving ==
  \A q \in Requests : Queued(q) ~> ~Queued(q)

(* A process told to stop is gone in the end, although NATS may never      *)
(* confirm the drain and the database never the disconnect.                *)
ShutdownEnds ==
  \A p \in Procs : proc[p] \in {"draining", "closed"} ~> proc[p] = "exited"
=============================================================================
