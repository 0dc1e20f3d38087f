------------------------- MODULE UserServiceProofs --------------------------
(***************************************************************************)
(* Proofs about UserService, for every set of calls, requests and          *)
(* processes, everything the calls may send, and every combination of      *)
(* faults.                                                                 *)
(***************************************************************************)
EXTENDS UserService, SequenceTheorems, TLAPS

(* Where a call is in its handler says what it has sent; a registration    *)
(* past its insert, or answered, has its row, and so has a login's token.  *)
CallInv(c) ==
  /\ pc[c] # "idle" => body[c] \in Bodies
  /\ at[c] # None => pc[c] \notin {"idle", "done"}
  /\ answer[c] # None => pc[c] = "done"
  /\ pc[c] \in {"check", "create", "created"} => body[c].does = "register"
  /\ pc[c] = "look up" => body[c].does = "login"
  /\ pc[c] = "read" => body[c].does = "profile"
  /\ pc[c] = "created" => NewRow(c) \in users
  /\ answer[c] = "201" => body[c].does = "register" /\ NewRow(c) \in users
  /\ answer[c] = "token" =>
       \E u \in users : u.email = body[c].email /\ u.password = body[c].password

(* The UNIQUE constraint.                                                  *)
UniqueEmails == \A u, v \in users : u.email = v.email => u = v

(* A promised call or request is about a user whose 201 has been said.     *)
PromiseInv ==
  /\ \A c \in Calls \cap promised :
       /\ pc[c] # "idle"
       /\ AboutUser(body[c]) # {}
       /\ answer[c] \notin {"401", "404"}
  /\ \A q \in Requests \cap promised : answer[Asks[q]] = "201" /\ got[q] # "not found"

AccountInv == TypeOK /\ (\A c \in Calls : CallInv(c)) /\ UniqueEmails /\ PromiseInv

LEMMA InitAccountInv == Init => AccountInv
<1> SUFFICES ASSUME Init PROVE AccountInv
  OBVIOUS
<1>1. TypeOK
  BY DEF Init, TypeOK
<1>2. \A c \in Calls : CallInv(c)
  BY NoneAssumption DEF Init, CallInv, Codes
<1>3. QED
  BY <1>1, <1>2 DEF Init, AccountInv, UniqueEmails, PromiseInv

-----------------------------------------------------------------------------
(* Type correctness.                                                       *)

CallNext == \E c \in Calls : CallStep(c) \/ \E p \in Procs : Arrive(c, p)
NatsNext ==
  \/ \E q \in Requests : Ask(q) \/ TimeOut(q)
  \/ \E p \in Procs : Take(p) \/ HandlerEnds(p)
LifeNext(p) == Start(p) \/ Stop(p) \/ Drained(p) \/ ShutDown(p) \/ ForceExit(p) \/ Crash(p)

LEMMA NextSplit == Next => CallNext \/ NatsNext \/ \E p \in Procs : LifeNext(p)
BY DEF Next, ProcStep, CallNext, NatsNext, LifeNext

LEMMA AnswerTypes ==
  ASSUME TypeOK, NEW c \in Calls, NEW code \in Codes, Answer(c, code)
  PROVE  /\ body' \in [Calls -> Bodies \cup {None}]
         /\ pc' \in [Calls -> {"idle", "check", "create", "created", "look up", "read", "done"}]
         /\ at' \in [Calls -> Procs \cup {None}]
         /\ answer' \in [Calls -> Codes \cup {None}]
BY DEF TypeOK, Answer, Go

LEMMA CallTypes == AccountInv /\ CallNext => TypeOK'
<1> SUFFICES ASSUME AccountInv, NEW c \in Calls, CallStep(c) \/ \E p \in Procs : Arrive(c, p)
             PROVE  TypeOK'
  BY DEF CallNext
<1>0. TypeOK /\ CallInv(c)
  BY DEF AccountInv
<1>1. CASE \E p \in Procs : Arrive(c, p)
  <2>1. PICK p \in Procs : Arrive(c, p)
    BY <1>1
  <2>2. PICK b \in Sends[c] :
          /\ body' = [body EXCEPT ![c] = b]
          /\ Begin(c, AboutUser(b))
          /\ Go(c, CASE b.does = "register" -> "check"
                     [] b.does = "login" -> "look up"
                     [] b.does = "profile" -> "read")
    BY <2>1 DEF Arrive
  <2>3. b \in Bodies
    BY CallsAssumption
  <2>4. b.does \in {"register", "login", "profile"}
    BY <2>3 DEF Bodies
  <2>5. body' \in [Calls -> Bodies \cup {None}]
    BY <1>0, <2>2, <2>3 DEF TypeOK
  <2>6. pc' \in [Calls -> {"idle", "check", "create", "created", "look up", "read", "done"}]
    BY <1>0, <2>2, <2>4 DEF TypeOK, Go
  <2>7. promised' \subseteq Calls \cup Requests
    BY <1>0, <2>2 DEF TypeOK, Begin
  <2>8. QED
    BY <1>0, <2>1, <2>5, <2>6, <2>7 DEF Arrive, TypeOK, natsVars
<1>2. CASE InsertUser(c)
  <2>1. NewRow(c) \in Rows
    BY <1>0, <1>2 DEF InsertUser, CallInv, NewRow, Rows, Bodies
  <2>2. users' \subseteq Rows
    BY <1>0, <1>2, <2>1 DEF InsertUser, TypeOK
  <2>3. CASE GoOn(c, "created")
    BY <1>0, <1>2, <2>2, <2>3 DEF InsertUser, TypeOK, GoOn, Go, natsVars
  <2>4. CASE Answer(c, "500")
    BY <1>0, <1>2, <2>2, <2>4, AnswerTypes DEF InsertUser, TypeOK, natsVars, Codes
  <2>5. QED
    BY <1>2, <2>3, <2>4 DEF InsertUser, Fails
<1>3. CASE CheckEmail(c) \/ Register(c) \/ Login(c) \/ GetProfile(c)
  <2>1. UNCHANGED <<users, proc, natsVars, promised>>
    BY <1>3 DEF CheckEmail, Register, Login, GetProfile
  <2>2. CASE GoOn(c, "create")
    BY <1>0, <2>1, <2>2 DEF TypeOK, GoOn, Go, natsVars
  <2>3. CASE \E code \in Codes : Answer(c, code)
    BY <1>0, <2>1, <2>3, AnswerTypes DEF TypeOK, natsVars
  <2>4. QED
    BY <1>3, <2>2, <2>3 DEF CheckEmail, Register, Login, GetProfile, Fails, Codes
<1>4. QED
  BY <1>1, <1>2, <1>3 DEF CallStep

LEMMA NatsTypes == TypeOK /\ NatsNext => TypeOK'
<1> SUFFICES ASSUME TypeOK, NatsNext PROVE TypeOK'
  OBVIOUS
<1> USE DEF TypeOK
<1>1. ASSUME NEW q \in Requests, Ask(q) PROVE TypeOK'
  <2>1. \A p \in Procs : Append(queue[p], q) \in Seq(Requests)
    BY AppendProperties
  <2> HIDE DEF TypeOK
  <2>2. queue' \in [Procs -> Seq(Requests)]
    BY <1>1, <2>1 DEF Ask, TypeOK
  <2> USE DEF TypeOK
  <2>3. QED
    BY <1>1, <2>2 DEF Ask, Begin, Replies, callVars
<1>2. ASSUME NEW q \in Requests, TimeOut(q) PROVE TypeOK'
  BY <1>2 DEF TimeOut, Replies, callVars
<1>3. ASSUME NEW p \in Procs, Take(p) PROVE TypeOK'
  <2>1. queue[p] \in Seq(Requests) /\ queue[p] # <<>>
    BY <1>3 DEF Take
  <2>2. Head(queue[p]) \in Requests /\ Tail(queue[p]) \in Seq(Requests)
    BY <2>1, HeadTailProperties
  <2>3. QED
    BY <1>3, <2>2 DEF Take, callVars
<1>4. ASSUME NEW p \in Procs, HandlerEnds(p) PROVE TypeOK'
  <2>1. got' \in [Requests -> Replies \cup {"waiting", None}]
    BY <1>4 DEF HandlerEnds, Reply, Replies
  <2>2. QED
    BY <1>4, <2>1 DEF HandlerEnds, callVars
<1>5. QED
  BY <1>1, <1>2, <1>3, <1>4 DEF NatsNext

LEMMA LifeTypes ==
  ASSUME TypeOK, NEW p \in Procs, LifeNext(p)
  PROVE  TypeOK'
<1> USE DEF TypeOK
<1>1. CASE Start(p) \/ Stop(p)
  BY <1>1 DEF Start, Stop, Become, callVars, natsVars
<1>2. CASE Drained(p)
  BY <1>2, EmptySeq DEF Drained, Become, callVars
<1>3. CASE Exit(p)
  <2>1. answer' \in [Calls -> Codes \cup {None}]
    BY <1>3 DEF Exit, Codes
  <2>2. body' \in [Calls -> Bodies \cup {None}]
    BY <1>3 DEF Exit
  <2>3. queue' \in [Procs -> Seq(Requests)]
    BY <1>3, EmptySeq DEF Exit
  <2>4. QED
    BY <1>3, <2>1, <2>2, <2>3 DEF Exit, Become
<1>4. QED
  BY <1>1, <1>2, <1>3 DEF LifeNext, ShutDown, ForceExit, Crash

LEMMA NextTypes == AccountInv /\ [Next]_vars => TypeOK'
<1>1. ASSUME TypeOK, UNCHANGED vars PROVE TypeOK'
  BY <1>1 DEF TypeOK, vars, callVars, natsVars
<1>2. QED
  BY <1>1, NextSplit, CallTypes, NatsTypes, LifeTypes DEF AccountInv

-----------------------------------------------------------------------------
(* What no step takes back.                                                *)

Keeps ==
  /\ users \subseteq users'
  /\ \A c \in Calls :
       /\ pc[c] # "idle" => pc'[c] # "idle" /\ body'[c] = body[c]
       /\ answer[c] # None => answer'[c] = answer[c]

LEMMA AnswerKeeps ==
  ASSUME AccountInv, NEW c \in Calls, NEW code \in Codes, pc[c] # "done",
         Answer(c, code), users \subseteq users'
  PROVE  Keeps
BY DEF AccountInv, CallInv, TypeOK, Answer, Go, Keeps

LEMMA GoOnKeeps ==
  ASSUME AccountInv, NEW c \in Calls, NEW phase \in {"create", "created"},
         GoOn(c, phase), users \subseteq users'
  PROVE  Keeps
BY DEF AccountInv, TypeOK, GoOn, Go, Keeps

LEMMA ExitKeeps ==
  ASSUME AccountInv, NEW p \in Procs, Exit(p)
  PROVE  Keeps
<1>1. ASSUME NEW c \in Calls, at[c] = p PROVE pc[c] \notin {"idle", "done"} /\ answer[c] = None
  BY <1>1, NoneAssumption DEF AccountInv, CallInv
<1>2. QED
  BY <1>1 DEF Exit, Keeps

LEMMA OtherCall ==
  ASSUME NEW d \in Calls, CallInv(d), users \subseteq users',
         pc'[d] = pc[d], at'[d] = at[d], answer'[d] = answer[d], body'[d] = body[d]
  PROVE  CallInv(d)'
BY DEF CallInv, NewRow

LEMMA AnswerCallInv ==
  ASSUME AccountInv, NEW c \in Calls, NEW code \in Codes, pc[c] # "idle",
         Answer(c, code), users \subseteq users',
         code = "201" => body[c].does = "register" /\ NewRow(c) \in users,
         code = "token" =>
           \E u \in users : u.email = body[c].email /\ u.password = body[c].password
  PROVE  \A d \in Calls : CallInv(d)'
<1>1. pc' = [pc EXCEPT ![c] = "done"] /\ at' = [at EXCEPT ![c] = None]
      /\ answer' = [answer EXCEPT ![c] = code] /\ body' = body
  BY DEF Answer, Go
<1>2. ASSUME NEW d \in Calls, d # c PROVE CallInv(d)'
  BY <1>1, <1>2, OtherCall DEF AccountInv, TypeOK
<1>3. CallInv(c)'
  <2>1. pc'[c] = "done" /\ at'[c] = None /\ answer'[c] = code /\ body'[c] = body[c]
    BY <1>1 DEF AccountInv, TypeOK
  <2>2. NewRow(c)' = NewRow(c)
    BY <2>1 DEF NewRow
  <2>3. QED
    BY <2>1, <2>2 DEF AccountInv, CallInv
<1>4. QED
  BY <1>2, <1>3

LEMMA GoOnCallInv ==
  ASSUME AccountInv, NEW c \in Calls, NEW phase \in {"create", "created"},
         pc[c] \in {"check", "create"}, GoOn(c, phase), users \subseteq users',
         phase = "created" => NewRow(c) \in users'
  PROVE  \A d \in Calls : CallInv(d)'
<1>1. pc' = [pc EXCEPT ![c] = phase] /\ at' = at /\ answer' = answer /\ body' = body
  BY DEF GoOn, Go
<1>2. ASSUME NEW d \in Calls, d # c PROVE CallInv(d)'
  BY <1>1, <1>2, OtherCall DEF AccountInv, TypeOK
<1>3. CallInv(c)'
  <2>1. pc'[c] = phase /\ at'[c] = at[c] /\ answer'[c] = answer[c] /\ body'[c] = body[c]
    BY <1>1 DEF AccountInv, TypeOK
  <2>2. NewRow(c)' = NewRow(c)
    BY <2>1 DEF NewRow
  <2>3. CallInv(c)
    BY DEF AccountInv
  <2>4. answer[c] = None
    BY <2>3 DEF CallInv
  <2>5. None \notin Codes
    BY NoneAssumption
  <2>6. QED
    BY <2>1, <2>2, <2>3, <2>4, <2>5 DEF CallInv, Codes
<1>4. QED
  BY <1>2, <1>3

(* Who is registered stays so, with the same credentials.                  *)
LEMMA AboutGrows ==
  ASSUME AccountInv, Keeps, NEW b
  PROVE  AboutUser(b) \subseteq AboutUser(b)'
<1>1. ASSUME NEW r \in Registered PROVE r \in Registered' /\ body'[r] = body[r]
  <2>1. r \in Calls /\ answer[r] = "201" /\ answer[r] # None
    BY NoneAssumption DEF Registered, Codes
  <2>2. pc[r] = "done"
    BY <2>1 DEF AccountInv, CallInv
  <2>3. QED
    BY <2>1, <2>2 DEF Keeps, Registered
<1>2. QED
  BY <1>1 DEF AboutUser

LEMMA PromiseStep ==
  ASSUME AccountInv, Keeps,
         \A c \in Calls \cap promised' : answer'[c] \notin {"401", "404"},
         \A q \in Requests \cap promised' : got'[q] # "not found",
         \A c \in Calls \cap (promised' \ promised) :
           pc'[c] # "idle" /\ AboutUser(body[c])' # {},
         \A q \in Requests \cap (promised' \ promised) : answer[Asks[q]] = "201"
  PROVE  PromiseInv'
<1>1. ASSUME NEW c \in Calls, c \in promised
      PROVE  pc'[c] # "idle" /\ AboutUser(body[c])' # {}
  <2>1. pc[c] # "idle" /\ AboutUser(body[c]) # {}
    BY <1>1 DEF AccountInv, PromiseInv
  <2>2. pc'[c] # "idle" /\ body'[c] = body[c]
    BY <2>1 DEF Keeps
  <2>3. PICK b : b = body[c]
    OBVIOUS
  <2>4. AboutUser(b) # {} /\ AboutUser(b) \subseteq AboutUser(b)'
    BY <2>1, <2>3, AboutGrows
  <2>5. QED
    BY <2>2, <2>3, <2>4 DEF AboutUser
<1>2. ASSUME NEW q \in Requests, q \in promised' PROVE answer'[Asks[q]] = "201"
  <2>1. answer[Asks[q]] = "201" /\ Asks[q] \in Calls
    BY <1>2, AsksAssumption DEF AccountInv, PromiseInv
  <2>2. QED
    BY <2>1, NoneAssumption DEF Keeps, Codes
<1>3. QED
  BY <1>1, <1>2 DEF PromiseInv

(* A call that is not about a user promised to it may be answered at will; *)
(* and no other is told 401 or 404.                                        *)
LEMMA AnswerPromise ==
  ASSUME AccountInv, NEW c \in Calls, NEW code \in Codes, Answer(c, code), Keeps,
         promised' = promised, got' = got,
         AboutUser(body[c]) # {} => code \notin {"401", "404"}
  PROVE  PromiseInv'
<1>1. \A d \in Calls \cap promised : answer'[d] \notin {"401", "404"}
  BY DEF AccountInv, PromiseInv, TypeOK, Answer
<1>2. \A q \in Requests \cap promised : got'[q] # "not found"
  BY DEF AccountInv, PromiseInv
<1>3. QED
  BY <1>1, <1>2, PromiseStep

LEMMA SameAnswersPromise ==
  ASSUME AccountInv, Keeps, promised' = promised,
         \A c \in Calls : answer'[c] \in {answer[c], "cut off"},
         \A q \in Requests \cap promised : got'[q] # "not found"
  PROVE  PromiseInv'
BY PromiseStep DEF AccountInv, PromiseInv

(* Whom a login or profile call is about has the one row of the e-mail.    *)
LEMMA AboutHasRow ==
  ASSUME AccountInv, NEW c \in Calls, NEW r \in AboutUser(body[c])
  PROVE  /\ NewRow(r) \in users
         /\ body[c].does = "login" =>
              /\ NewRow(r) \in HasEmail(body[c].email)
              /\ \A u \in HasEmail(body[c].email) : u.password = body[c].password
         /\ body[c].does = "profile" => NewRow(r) \in HasId(body[c].id)
<1>1. r \in Calls /\ answer[r] = "201"
  BY DEF AboutUser, Registered
<1>2. NewRow(r) \in users
  BY <1>1 DEF AccountInv, CallInv
<1>3. NewRow(r).id = r /\ NewRow(r).email = body[r].email
      /\ NewRow(r).password = body[r].password
  BY DEF NewRow
<1>4. CASE body[c].does = "login"
  <2>1. NewRow(r).email = body[c].email /\ NewRow(r).password = body[c].password
    BY <1>3, <1>4 DEF AboutUser
  <2>2. QED
    BY <1>2, <1>4, <2>1 DEF HasEmail, AccountInv, UniqueEmails
<1>5. CASE body[c].does = "profile"
  BY <1>2, <1>3, <1>5 DEF AboutUser, HasId
<1>6. QED
  BY <1>2, <1>4, <1>5

-----------------------------------------------------------------------------
(* The steps.                                                              *)

RestInv == (\A c \in Calls : CallInv(c)) /\ UniqueEmails /\ PromiseInv

(* An answer that is no 201, no token, and no 401 or 404 against a promise. *)
LEMMA PlainAnswer ==
  ASSUME AccountInv, NEW c \in Calls, NEW code \in Codes, pc[c] \notin {"idle", "done"},
         Answer(c, code), UNCHANGED <<users, proc, natsVars, promised>>,
         code = "201" => body[c].does = "register" /\ NewRow(c) \in users,
         code = "token" =>
           \E u \in users : u.email = body[c].email /\ u.password = body[c].password,
         AboutUser(body[c]) # {} => code \notin {"401", "404"}
  PROVE  RestInv'
<1>1. users \subseteq users' /\ got' = got /\ promised' = promised
  BY DEF natsVars
<1>2. Keeps
  BY <1>1, AnswerKeeps
<1>3. PromiseInv'
  BY <1>1, <1>2, AnswerPromise
<1>4. \A d \in Calls : CallInv(d)'
  BY <1>1, AnswerCallInv
<1>5. UniqueEmails'
  BY DEF AccountInv, UniqueEmails
<1>6. QED
  BY <1>3, <1>4, <1>5 DEF RestInv

LEMMA GoOnStep ==
  ASSUME AccountInv, NEW c \in Calls, NEW phase \in {"create", "created"},
         pc[c] \in {"check", "create"}, GoOn(c, phase), users \subseteq users',
         UNCHANGED <<natsVars, promised>>, UniqueEmails',
         phase = "created" => NewRow(c) \in users'
  PROVE  RestInv'
<1>1. Keeps
  BY GoOnKeeps
<1>2. answer' = answer /\ got' = got /\ promised' = promised
  BY DEF GoOn, natsVars
<1>3. PromiseInv'
  BY <1>1, <1>2, SameAnswersPromise DEF AccountInv, PromiseInv
<1>4. \A d \in Calls : CallInv(d)'
  BY GoOnCallInv
<1>5. QED
  BY <1>3, <1>4 DEF RestInv

LEMMA CallSteps ==
  ASSUME AccountInv, NEW c \in Calls, CallStep(c)
  PROVE  RestInv'
<1>0. CallInv(c) /\ UniqueEmails /\ "500" \in Codes
  BY DEF AccountInv, Codes
<1>1. CASE CheckEmail(c)
  <2>1. pc[c] = "check" /\ UNCHANGED <<users, proc, natsVars, promised>>
    BY <1>1 DEF CheckEmail
  <2>2. CASE GoOn(c, "create")
    BY <1>0, <2>1, <2>2, GoOnStep DEF UniqueEmails
  <2>3. CASE Answer(c, "409") \/ Answer(c, "500")
    BY <2>1, <2>3, PlainAnswer DEF Codes
  <2>4. QED
    BY <1>1, <2>2, <2>3 DEF CheckEmail, Fails
<1>2. CASE InsertUser(c)
  <2>1. pc[c] = "create" /\ UNCHANGED <<proc, natsVars, promised>>
    BY <1>2 DEF InsertUser
  <2>2. CASE /\ HasEmail(body[c].email) = {}
             /\ users' = users \cup {NewRow(c)} /\ GoOn(c, "created")
    <3>1. UniqueEmails'
      BY <1>0, <2>2 DEF UniqueEmails, HasEmail, NewRow
    <3>2. QED
      BY <2>1, <2>2, <3>1, GoOnStep
  <2>3. CASE Answer(c, "500") /\ UNCHANGED users
    BY <1>0, <2>1, <2>3, PlainAnswer
  <2>4. QED
    BY <1>2, <2>2, <2>3 DEF InsertUser, Fails
<1>3. CASE Register(c)
  <2>1. pc[c] = "created" /\ UNCHANGED <<users, proc, natsVars, promised>>
    BY <1>3 DEF Register
  <2>2. body[c].does = "register" /\ NewRow(c) \in users
    BY <1>0, <2>1 DEF CallInv
  <2>3. CASE Answer(c, "201")
    BY <2>1, <2>2, <2>3, PlainAnswer DEF Codes
  <2>4. CASE Answer(c, "500")
    BY <1>0, <2>1, <2>4, PlainAnswer
  <2>5. QED
    BY <1>3, <2>3, <2>4 DEF Register, Fails
<1>4. CASE Login(c)
  <2>1. pc[c] = "look up" /\ UNCHANGED <<users, proc, natsVars, promised>>
    BY <1>4 DEF Login
  <2>2. body[c].does = "login"
    BY <1>0, <2>1 DEF CallInv
  <2>3. ASSUME NEW u \in HasEmail(body[c].email), u.password # body[c].password,
               Answer(c, "401")
        PROVE  RestInv'
    <3>1. AboutUser(body[c]) = {}
      BY <2>2, <2>3, AboutHasRow
    <3>2. QED
      BY <2>1, <2>3, <3>1, PlainAnswer DEF Codes
  <2>4. ASSUME NEW u \in HasEmail(body[c].email), u.password = body[c].password,
               Answer(c, "token") \/ Answer(c, "400")
        PROVE  RestInv'
    <3>1. u \in users /\ u.email = body[c].email
      BY DEF HasEmail
    <3>2. QED
      BY <2>1, <2>4, <3>1, PlainAnswer DEF Codes
  <2>5. ASSUME HasEmail(body[c].email) = {}, Answer(c, "401") PROVE RestInv'
    <3>1. AboutUser(body[c]) = {}
      BY <2>2, <2>5, AboutHasRow
    <3>2. QED
      BY <2>1, <2>5, <3>1, PlainAnswer DEF Codes
  <2>6. CASE Answer(c, "500")
    BY <1>0, <2>1, <2>6, PlainAnswer
  <2>7. QED
    BY <1>4, <2>3, <2>4, <2>5, <2>6 DEF Login, Fails
<1>5. CASE GetProfile(c)
  <2>1. pc[c] = "read" /\ UNCHANGED <<users, proc, natsVars, promised>>
    BY <1>5 DEF GetProfile
  <2>2. body[c].does = "profile"
    BY <1>0, <2>1 DEF CallInv
  <2>3. ASSUME HasId(body[c].id) = {}, Answer(c, "404") PROVE RestInv'
    <3>1. AboutUser(body[c]) = {}
      BY <2>2, <2>3, AboutHasRow
    <3>2. QED
      BY <2>1, <2>3, <3>1, PlainAnswer DEF Codes
  <2>4. ASSUME body[c].id = None, Answer(c, "401") PROVE RestInv'
    <3>1. AboutUser(body[c]) = {}
      BY <2>2, <2>4, NoneAssumption DEF AboutUser, Registered
    <3>2. QED
      BY <2>1, <2>4, <3>1, PlainAnswer DEF Codes
  <2>5. CASE Answer(c, "profile") \/ Answer(c, "500")
    BY <1>0, <2>1, <2>5, PlainAnswer DEF Codes
  <2>6. QED
    BY <1>5, <2>3, <2>4, <2>5 DEF GetProfile, Fails
<1>6. QED
  BY <1>1, <1>2, <1>3, <1>4, <1>5 DEF CallStep

LEMMA ArriveStep ==
  ASSUME AccountInv, NEW c \in Calls, NEW p \in Procs, Arrive(c, p)
  PROVE  RestInv'
<1>0. pc[c] = "idle" /\ users' = users /\ answer' = answer /\ got' = got
  BY DEF Arrive, natsVars
<1>1. PICK b \in Sends[c] :
        /\ body' = [body EXCEPT ![c] = b]
        /\ Begin(c, AboutUser(b))
        /\ Go(c, CASE b.does = "register" -> "check"
                   [] b.does = "login" -> "look up"
                   [] b.does = "profile" -> "read")
  BY DEF Arrive
<1>2. b \in Bodies /\ b.does \in {"register", "login", "profile"}
  BY CallsAssumption DEF Bodies
<1>3. body'[c] = b /\ at'[c] = p /\ answer[c] = None
      /\ pc'[c] = (CASE b.does = "register" -> "check"
                     [] b.does = "login" -> "look up"
                     [] b.does = "profile" -> "read")
  BY <1>0, <1>1 DEF AccountInv, CallInv, TypeOK, Arrive, Go
<1>4. \A d \in Calls \ {c} :
        body'[d] = body[d] /\ at'[d] = at[d] /\ pc'[d] = pc[d] /\ answer'[d] = answer[d]
  BY <1>0, <1>1 DEF AccountInv, TypeOK, Arrive, Go
<1>5. Keeps
  BY <1>0, <1>4 DEF Keeps
<1>6. \A d \in Calls : CallInv(d)'
  <2>1. ASSUME NEW d \in Calls \ {c} PROVE CallInv(d)'
    BY <1>0, <1>4, OtherCall DEF AccountInv
  <2>2. None \notin Codes
    BY NoneAssumption
  <2>3. pc'[c] \in {"check", "look up", "read"} /\ answer'[c] = None
    BY <1>0, <1>2, <1>3
  <2>4. pc'[c] = "check" => b.does = "register"
    BY <1>2, <1>3
  <2>5. pc'[c] = "look up" => b.does = "login"
    BY <1>2, <1>3
  <2>6. pc'[c] = "read" => b.does = "profile"
    BY <1>2, <1>3
  <2>7. CallInv(c)'
    BY <1>2, <1>3, <2>2, <2>3, <2>4, <2>5, <2>6 DEF CallInv, Codes
  <2>8. QED
    BY <2>1, <2>7
<1>7. PromiseInv'
  <2>1. \A d \in Calls \cap promised' : answer'[d] \notin {"401", "404"}
    <3>1. c \in promised \/ answer[c] \notin {"401", "404"}
      BY <1>3, NoneAssumption DEF Codes
    <3>2. promised' \subseteq promised \cup {c}
      BY <1>1 DEF Begin
    <3>3. QED
      BY <1>0, <3>1, <3>2 DEF AccountInv, PromiseInv
  <2>2. Requests \cap promised' = Requests \cap promised
    BY <1>1, AsksAssumption DEF Begin
  <2>3. AboutUser(b) \subseteq AboutUser(b)'
    BY <1>5, AboutGrows
  <2>4. \A d \in Calls \cap (promised' \ promised) : d = c /\ AboutUser(b) # {}
    BY <1>1 DEF Begin
  <2>5. \A d \in Calls \cap promised : pc[d] # "idle"
    BY DEF AccountInv, PromiseInv
  <2>6. c \notin promised
    BY <1>0, <2>5
  <2>7. AboutUser(b) # {} => AboutUser(body[c])' # {}
    BY <1>3, <2>3 DEF AboutUser
  <2>8. pc'[c] # "idle"
    BY <1>2, <1>3
  <2>9. \A d \in Calls \cap (promised' \ promised) :
          pc'[d] # "idle" /\ AboutUser(body[d])' # {}
    BY <2>4, <2>7, <2>8
  <2>10. QED
    BY <1>0, <1>5, <2>1, <2>2, <2>9, PromiseStep DEF AccountInv, PromiseInv
<1>8. QED
  BY <1>0, <1>6, <1>7 DEF RestInv, AccountInv, UniqueEmails

(* A step that no call is in.                                              *)
LEMMA QuietStep ==
  ASSUME AccountInv, UNCHANGED <<users, callVars>>
  PROVE  /\ Keeps
         /\ (\A c \in Calls : CallInv(c)') /\ UniqueEmails'
<1>1. users' = users /\ body' = body /\ pc' = pc /\ at' = at /\ answer' = answer
  BY DEF callVars
<1>2. Keeps
  BY <1>1 DEF Keeps
<1>3. \A c \in Calls : CallInv(c)'
  BY <1>1, OtherCall DEF AccountInv
<1>4. QED
  BY <1>1, <1>2, <1>3 DEF AccountInv, UniqueEmails

LEMMA NatsSteps ==
  ASSUME AccountInv, NatsNext
  PROVE  RestInv'
<1>1. UNCHANGED <<users, callVars>>
  BY DEF NatsNext, Ask, TimeOut, Take, HandlerEnds
<1>2. answer' = answer
  BY <1>1 DEF callVars
<1>3. Keeps /\ (\A c \in Calls : CallInv(c)') /\ UniqueEmails'
  BY <1>1, QuietStep
<1>4. ASSUME NEW q \in Requests, Ask(q) PROVE PromiseInv'
  <2>1. promised' \subseteq promised \cup {q}
        /\ (q \in promised' \ promised => answer[Asks[q]] = "201")
    BY <1>4 DEF Ask, Begin, Registered
  <2>2. got' \in [Requests -> Replies \cup {"waiting", None}]
        /\ got'[q] \in {"waiting", "failed"}
        /\ \A r \in Requests \ {q} : got'[r] = got[r]
    BY <1>4 DEF Ask, AccountInv, TypeOK, Replies
  <2>3. \A r \in Requests \cap promised' : got'[r] # "not found"
    BY <2>1, <2>2 DEF AccountInv, PromiseInv
  <2>4. Calls \cap promised' = Calls \cap promised
    BY <2>1, AsksAssumption, <1>4 DEF Ask, Begin
  <2>5. QED
    BY <1>2, <1>3, <2>1, <2>3, <2>4, PromiseStep DEF AccountInv, PromiseInv
<1>5. ASSUME promised' = promised,
             \A q \in Requests \cap promised : got'[q] # "not found"
      PROVE  PromiseInv'
  BY <1>2, <1>3, <1>5, SameAnswersPromise
<1>6. ASSUME NEW q \in Requests, TimeOut(q) PROVE PromiseInv'
  <2>1. \A r \in Requests : got'[r] \in {got[r], "failed"}
    BY <1>6 DEF TimeOut, AccountInv, TypeOK
  <2>2. QED
    BY <1>5, <1>6, <2>1 DEF TimeOut, AccountInv, PromiseInv
<1>7. ASSUME NEW p \in Procs, Take(p) PROVE PromiseInv'
  BY <1>5, <1>7 DEF Take, AccountInv, PromiseInv
<1>8. ASSUME NEW p \in Procs, HandlerEnds(p) PROVE PromiseInv'
  <2> DEFINE q == handling[p]
  <2>1. q \in Requests /\ promised' = promised
    BY <1>8 DEF HandlerEnds, AccountInv, TypeOK
  <2>2. ASSUME q \in promised PROVE HasId(Asks[q]) # {}
    <3>1. answer[Asks[q]] = "201" /\ Asks[q] \in Calls
      BY <2>1, <2>2, AsksAssumption DEF AccountInv, PromiseInv
    <3>2. NewRow(Asks[q]) \in users
      BY <3>1 DEF AccountInv, CallInv
    <3>3. QED
      BY <3>2 DEF HasId, NewRow
  <2>3. \A r \in Requests \ {q} : got'[r] = got[r]
    BY <1>8 DEF HandlerEnds, Reply, AccountInv, TypeOK
  <2>4. q \in promised => got'[q] # "not found"
    <3>1. ASSUME q \in promised PROVE Reply(p, q, "user") \/ Reply(p, q, "failed")
      BY <1>8, <2>2, <3>1 DEF HandlerEnds
    <3>2. q \in promised => got[q] # "not found"
      BY <2>1 DEF AccountInv, PromiseInv
    <3>3. QED
      BY <2>1, <3>1, <3>2 DEF Reply, AccountInv, TypeOK
  <2>5. \A r \in Requests \cap promised : got'[r] # "not found"
    BY <2>3, <2>4 DEF AccountInv, PromiseInv
  <2>6. QED
    BY <1>5, <2>1, <2>5
<1>9. QED
  BY <1>3, <1>4, <1>6, <1>7, <1>8 DEF NatsNext, RestInv

LEMMA LifeSteps ==
  ASSUME AccountInv, NEW p \in Procs, LifeNext(p)
  PROVE  RestInv'
<1>1. CASE Start(p) \/ Stop(p) \/ Drained(p)
  <2>1. UNCHANGED <<users, callVars>> /\ promised' = promised /\ got' = got
    BY <1>1 DEF Start, Stop, Drained, natsVars
  <2>2. Keeps /\ (\A c \in Calls : CallInv(c)') /\ UniqueEmails'
    BY <2>1, QuietStep
  <2>3. PromiseInv'
    BY <2>1, <2>2, SameAnswersPromise DEF callVars, AccountInv, PromiseInv
  <2>4. QED
    BY <2>2, <2>3 DEF RestInv
<1>2. CASE Exit(p)
  <2>1. users' = users /\ body' = body /\ promised' = promised /\ got' = got
    BY <1>2 DEF Exit
  <2>2. ASSUME NEW c \in Calls PROVE CallInv(c)'
    <3>1. CallInv(c)
      BY DEF AccountInv
    <3>2. CASE at[c] = p
      <4>1. pc'[c] = "done" /\ at'[c] = None /\ answer'[c] = "cut off"
        BY <1>2, <3>2 DEF Exit
      <4>2. pc[c] # "idle"
        BY <3>1, <3>2, NoneAssumption DEF CallInv
      <4>3. QED
        BY <2>1, <3>1, <4>1, <4>2 DEF CallInv
    <3>3. CASE at[c] # p
      <4>1. pc'[c] = pc[c] /\ at'[c] = at[c] /\ answer'[c] = answer[c]
        BY <1>2, <3>3 DEF Exit
      <4>2. QED
        BY <2>1, <3>1, <4>1, OtherCall
    <3>4. QED
      BY <3>2, <3>3
  <2>3. \A c \in Calls : answer'[c] \in {answer[c], "cut off"}
    BY <1>2 DEF Exit
  <2>4. PromiseInv'
    BY <1>2, <2>1, <2>3, ExitKeeps, SameAnswersPromise DEF AccountInv, PromiseInv
  <2>5. QED
    BY <2>1, <2>2, <2>4 DEF RestInv, AccountInv, UniqueEmails
<1>3. QED
  BY <1>1, <1>2 DEF LifeNext, ShutDown, ForceExit, Crash

LEMMA InvStep == AccountInv /\ [Next]_vars => AccountInv'
<1> SUFFICES ASSUME AccountInv, [Next]_vars PROVE RestInv'
  BY NextTypes DEF AccountInv, RestInv
<1>1. CASE UNCHANGED vars
  <2>1. UNCHANGED <<users, callVars>> /\ promised' = promised /\ got' = got
    BY <1>1 DEF vars, natsVars
  <2>2. Keeps /\ (\A c \in Calls : CallInv(c)') /\ UniqueEmails'
    BY <2>1, QuietStep
  <2>3. PromiseInv'
    BY <2>1, <2>2, SameAnswersPromise DEF callVars, AccountInv, PromiseInv
  <2>4. QED
    BY <2>2, <2>3 DEF RestInv
<1>2. CASE CallNext
  BY <1>2, CallSteps, ArriveStep DEF CallNext
<1>3. CASE NatsNext
  BY <1>3, NatsSteps
<1>4. CASE \E p \in Procs : LifeNext(p)
  BY <1>4, LifeSteps
<1>5. QED
  BY <1>1, <1>2, <1>3, <1>4, NextSplit

LEMMA SpecInv == Spec => []AccountInv
BY InitAccountInv, InvStep, PTL DEF Spec

-----------------------------------------------------------------------------
(* The theorems.                                                           *)

(* The users table, the calls, the responders and the processes keep their *)
(* types; an answer is one of the codes the handlers know.                 *)
THEOREM UserTypeCorrect == Spec => []TypeOK
<1>1. AccountInv => TypeOK
  BY DEF AccountInv
<1>2. QED
  BY <1>1, SpecInv, PTL

(* However many registrations race for an e-mail, and whatever fails or    *)
(* stops, a registration told 201 made the one account of its e-mail, and  *)
(* a token goes to the password of the one account.                        *)
THEOREM AccountsAreUnique == Spec => []AnsweredHasAccount
<1>1. AccountInv => AnsweredHasAccount
  <2> SUFFICES ASSUME AccountInv, NEW c \in Calls
               PROVE  /\ answer[c] = "201" => HasEmail(body[c].email) = {NewRow(c)}
                      /\ answer[c] = "token" =>
                           \E u \in users : /\ HasEmail(body[c].email) = {u}
                                            /\ u.password = body[c].password
    BY DEF AnsweredHasAccount
  <2>1. CallInv(c) /\ UniqueEmails
    BY DEF AccountInv
  <2>2. answer[c] = "201" => NewRow(c) \in users /\ NewRow(c).email = body[c].email
    BY <2>1 DEF CallInv, NewRow
  <2>3. \A u \in users : u.email = body[c].email => HasEmail(body[c].email) = {u}
    BY <2>1 DEF UniqueEmails, HasEmail
  <2>4. QED
    BY <2>1, <2>2, <2>3 DEF CallInv
<1>2. QED
  BY <1>1, SpecInv, PTL

(* A login, a profile call or a user.get that begins after a registration  *)
(* was answered with 201 is never told that there is no such user.         *)
THEOREM RegistrationsAreKnown == Spec => []ReadYourRegistration
<1>1. AccountInv => ReadYourRegistration
  BY DEF AccountInv, PromiseInv, ReadYourRegistration
<1>2. QED
  BY <1>1, SpecInv, PTL
=============================================================================
