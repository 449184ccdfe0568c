----------------------------- MODULE PortalProofs -----------------------------
(***************************************************************************)
(* What holds of the record for every number of processes, accounts,       *)
(* enrollment codes and codes sold, whatever is lost, late, cut short,     *)
(* revoked or killed, and whether or not loading and saving may fail.      *)
(***************************************************************************)
EXTENDS Portal, TLAPS

Step == Ask \union {"idle", "verify", "save"}
Job == [step: Step, bearer: Bearer, code: Code \union {Nothing},
        record: Record \union {Absent}]
Line == {Nothing} \union Request \union Answer
Books == [unspent: SUBSET EnrollCode, valid: SUBSET EnrollCode, sold: SUBSET Code]

\* Every piece of state has its type.  TypeOK says less of what the commands
\* and the connections carry than an inductive invariant has to.
Types ==
    /\ store \in Record \union {Absent}
    /\ url \in Url
    /\ strays \subseteq {r \in Request : r.ask = "enroll"}
    /\ portal \in Books
    /\ job \in [Proc -> Job]
    /\ line \in [Proc -> Line]

\* The record is as one answer of the portal gave it, changed at most by codes
\* sold for its secret.
Genuine(r, books) ==
    /\ r.bearer # NoBearer =>
          /\ r.account = AccountOf[r.bearer]
          /\ r.secret = SecretOf[r.account]
          /\ r.bearer \notin books.unspent
    /\ r.state # FreshState =>
          \E c \in books.sold :
              /\ c.key = r.secret
              /\ c.counter = r.state.lastCounter
              /\ r.state.lastTokenWasGrace = (c.type = "Grace")

\* A request for the newest code of an account finds one if there is any.
NewestExists(books) ==
    \A account \in Account :
        (\E c \in books.sold : c.key = SecretOf[account]) =>
            \E c \in books.sold :
                /\ c.key = SecretOf[account]
                /\ \A d \in books.sold : d.key = c.key => d.counter <= c.counter

\* What a command carries from one step to the next.
JobOK(j, books) ==
    /\ j.step = "verify" =>
          j.code \in books.sold \/ (j.code \in Code /\ j.code.key = NoKey)
    /\ j.step = "save" => j.record \in Record /\ Genuine(j.record, books)

\* What is on its connection: nothing unless it asked, and then its request or
\* an answer to what it asked.
LineOK(j, l, books) ==
    /\ l = Nothing <=> j.step \notin Ask
    /\ l \in Request => l.ask = j.step
    /\ l \in Answer /\ Usable(l) =>
          /\ j.step = "enroll" => l.body \in Record /\ Genuine(l.body, books)
          /\ j.step = "token" => l.body \in books.sold

\* The inductive invariant: the properties hold of the record on disk because
\* they hold of every record under way to it, in a command or an answer.
Inv ==
    /\ Types
    /\ NewestExists(portal)
    /\ store # Absent => Genuine(store, portal)
    /\ \A p \in Proc : JobOK(job[p], portal) /\ LineOK(job[p], line[p], portal)

\* The portal's books only move forward: codes are spent and sold.
Forward(books, later) ==
    /\ later \in Books
    /\ books.sold \subseteq later.sold
    /\ later.unspent \subseteq books.unspent

-----------------------------------------------------------------------------
(* The operators of the model.                                             *)

\* A request is not an answer.
LEMMA RequestIsNoAnswer == \A l \in Answer : l \notin Request
  <1> SUFFICES ASSUME NEW l \in Answer, l \in Request PROVE FALSE
    OBVIOUS
  <1>1. DOMAIN l = {"status", "body"}  BY DEF Answer
  <1>2. DOMAIN l = {"ask", "with"}  BY DEF Request
  <1> QED  BY <1>1, <1>2

LEMMA IdleIsTyped == Idle \in Job
  BY DEF Idle, Job, Step, Bearer

\* A record as provisioning makes it.
LEMMA ProvisionedIsRecord ==
    ASSUME NEW account \in Account, NEW bearer \in Bearer
    PROVE  LET r == Provisioned(account, bearer) IN
           /\ r \in Record
           /\ r.account = account /\ r.secret = SecretOf[account]
           /\ r.bearer = bearer /\ r.state = FreshState
  <1>1. FreshState \in DeviceState
    BY DEF FreshState, DeviceState, Status
  <1> QED BY <1>1, PortalAssumption DEF Provisioned, Record

\* What is genuine stays so as the books move forward.
LEMMA GenuineStays ==
    ASSUME NEW r, NEW books, NEW later, Forward(books, later), Genuine(r, books)
    PROVE  Genuine(r, later)
  BY DEF Forward, Genuine

LEMMA JobAndLineStay ==
    ASSUME NEW j, NEW l, NEW books, NEW later, Forward(books, later),
           JobOK(j, books), LineOK(j, l, books)
    PROVE  JobOK(j, later) /\ LineOK(j, l, later)
  <1>1. JobOK(j, later)
    BY GenuineStays DEF Forward, JobOK
  <1>2. LineOK(j, l, later)
    BY GenuineStays DEF Forward, LineOK
  <1> QED  BY <1>1, <1>2

LEMMA BooksMoveForward ==
    ASSUME portal \in Books, NEW request \in Request
    PROVE  Forward(portal, BooksAfter(request)) /\ BooksAfter(request).sold = portal.sold
  BY DEF Books, Forward, BooksAfter

\* Selling a code leaves each account with a newest one.
LEMMA SaleKeepsNewest ==
    ASSUME NEW books \in Books, NewestExists(books), NEW c \in Code,
           NEW later \in Books, later.sold = books.sold \union {c}
    PROVE  NewestExists(later)
  <1> SUFFICES ASSUME NEW account \in Account,
                      NEW b \in later.sold, b.key = SecretOf[account]
               PROVE  \E m \in later.sold :
                          /\ m.key = SecretOf[account]
                          /\ \A d \in later.sold : d.key = m.key => d.counter <= m.counter
    BY DEF NewestExists
  <1>1. \A d \in later.sold : d.counter \in Nat
    BY CodeAssumption DEF Books
  <1>2. CASE \A d \in books.sold : d.key = SecretOf[account] => d.counter <= c.counter
    <2>1. CASE c.key = SecretOf[account]
      BY <1>1, <1>2, <2>1
    <2>2. CASE c.key # SecretOf[account]
      <3>1. b \in books.sold  BY <2>2
      <3>2. PICK m \in books.sold :
                /\ m.key = SecretOf[account]
                /\ \A d \in books.sold : d.key = m.key => d.counter <= m.counter
        BY <3>1 DEF NewestExists
      <3> QED  BY <2>2, <3>2
    <2> QED  BY <2>1, <2>2
  <1>3. CASE \E d \in books.sold : d.key = SecretOf[account] /\ ~(d.counter <= c.counter)
    <2>1. PICK d \in books.sold : d.key = SecretOf[account] /\ ~(d.counter <= c.counter)
      BY <1>3
    <2>2. PICK m \in books.sold :
              /\ m.key = SecretOf[account]
              /\ \A e \in books.sold : e.key = m.key => e.counter <= m.counter
      BY <2>1 DEF NewestExists
    <2>3. d.counter <= m.counter /\ c.counter \in Nat /\ d.counter \in Nat /\ m.counter \in Nat
      BY <1>1, <2>1, <2>2
    <2>4. c.counter <= m.counter
      BY <2>1, <2>3
    <2> QED  BY <2>2, <2>4
  <1> QED  BY <1>2, <1>3

\* The newest code of an account is a code sold.
LEMMA NewestIsSold ==
    ASSUME NewestExists(portal), NEW account \in Account,
           \E c \in portal.sold : c.key = SecretOf[account]
    PROVE  Newest(account) \in portal.sold
  <1>1. PICK m \in portal.sold :
            /\ m.key = SecretOf[account]
            /\ \A d \in portal.sold : d.key = m.key => d.counter <= m.counter
    BY DEF NewestExists
  <1> QED  BY <1>1 DEF Newest

\* The portal answers what it was asked, and out of its books.
LEMMA ReplyIsRight ==
    ASSUME portal \in Books, NewestExists(portal), NEW request \in Request
    PROVE  LET reply == ReplyTo(request) IN
           /\ reply \in Answer
           /\ Usable(reply) =>
                 /\ request.ask = "enroll" =>
                       reply.body \in Record /\ Genuine(reply.body, BooksAfter(request))
                 /\ request.ask = "token" => reply.body \in portal.sold
  <1> DEFINE account == AccountOf[request.with]
             reply == ReplyTo(request)
  <1>1. /\ request.ask \in Ask /\ request.with \in Bearer
        /\ portal.unspent \subseteq EnrollCode /\ portal.valid \subseteq EnrollCode
        /\ portal.sold \subseteq Code
        /\ \A status \in {200, 401, 404, 422}, body \in Record \union Code \union {Garbled, Nothing} :
              /\ Reply(status, body) \in Answer
              /\ Reply(status, body).body = body
              /\ Usable(Reply(status, body)) => status = 200
        /\ ~Usable(Reply(422, Garbled)) /\ ~Usable(Reply(401, Garbled))
        /\ ~Usable(Reply(404, Garbled))
    BY DEF Request, Books, Answer, Reply, Usable
  <1>2. CASE request.ask = "enroll"
    <2>1. CASE request.with \in portal.unspent
      <3>1. request.with \in EnrollCode /\ account \in Account /\ request.with \in Bearer
        BY <1>1, <2>1, PortalAssumption
      <3>2. reply = Reply(200, Provisioned(account, request.with))
        BY <1>2, <2>1 DEF ReplyTo
      <3>3. LET r == Provisioned(account, request.with) IN
            /\ r \in Record
            /\ r.account = account /\ r.secret = SecretOf[account]
            /\ r.bearer = request.with /\ r.state = FreshState
        BY <3>1, ProvisionedIsRecord
      <3>4. request.with \notin BooksAfter(request).unspent
        BY <1>2, <2>1 DEF BooksAfter, Books
      <3>5. Genuine(Provisioned(account, request.with), BooksAfter(request))
        BY <3>3, <3>4 DEF Genuine
      <3> QED  BY <1>1, <1>2, <3>2, <3>3, <3>5
    <2>2. CASE request.with \notin portal.unspent
      <3>1. reply = Reply(422, Garbled)
        BY <1>2, <2>2 DEF ReplyTo
      <3> QED  BY <1>1, <3>1
    <2> QED  BY <2>1, <2>2
  <1>3. CASE request.ask # "enroll" /\ request.with \notin portal.valid
    <2>1. reply = Reply(401, Garbled)
      BY <1>3 DEF ReplyTo
    <2> QED  BY <1>1, <2>1
  <1>4. CASE request.ask = "heartbeat" /\ request.with \in portal.valid
    <2>1. reply = Reply(200, Nothing)
      BY <1>4 DEF ReplyTo
    <2> QED  BY <1>1, <1>4, <2>1
  <1>5. CASE request.ask = "token" /\ request.with \in portal.valid
    <2>1. account \in Account
      BY <1>1, <1>5, PortalAssumption
    <2>2. CASE \E c \in portal.sold : c.key = SecretOf[account]
      <3>1. reply = Reply(200, Newest(account))
        BY <1>5, <2>2 DEF ReplyTo
      <3>2. Newest(account) \in portal.sold
        BY <2>1, <2>2, NewestIsSold
      <3> QED  BY <1>1, <1>5, <3>1, <3>2
    <2>3. CASE ~ \E c \in portal.sold : c.key = SecretOf[account]
      <3>1. reply = Reply(404, Garbled)
        BY <1>5, <2>3 DEF ReplyTo
      <3> QED  BY <1>1, <3>1
    <2> QED  BY <2>2, <2>3
  <1> QED  BY <1>1, <1>2, <1>3, <1>4, <1>5 DEF Ask

-----------------------------------------------------------------------------
(* The steps.  Nearly all of them touch one process.                       *)

\* A step that changes nothing of the other processes, and leaves with process
\* p what the invariant asks for, keeps the invariant.
LEMMA OneProcessMoves ==
    ASSUME Inv, NEW p \in Proc, NEW j \in Job, NEW l \in Line,
           job' = [job EXCEPT ![p] = j],
           line' = [line EXCEPT ![p] = l],
           Forward(portal, portal'), NewestExists(portal'),
           JobOK(j, portal'), LineOK(j, l, portal'),
           store' \in Record \union {Absent},
           store' # Absent => Genuine(store', portal'),
           url' \in Url,
           strays' \subseteq {r \in Request : r.ask = "enroll"}
    PROVE  Inv'
  <1>1. job' \in [Proc -> Job] /\ line' \in [Proc -> Line]
    BY DEF Inv, Types
  <1>2. Types'
    BY <1>1 DEF Types, Forward
  <1>3. job'[p] = j /\ line'[p] = l
    BY DEF Inv, Types
  <1>4. \A q \in Proc : JobOK(job'[q], portal') /\ LineOK(job'[q], line'[q], portal')
    <2> SUFFICES ASSUME NEW q \in Proc, q # p
                 PROVE  JobOK(job'[q], portal') /\ LineOK(job'[q], line'[q], portal')
      BY <1>3
    <2>1. job'[q] = job[q] /\ line'[q] = line[q]
      BY DEF Inv, Types
    <2>2. JobOK(job[q], portal) /\ LineOK(job[q], line[q], portal)
      BY DEF Inv
    <2> QED  BY <2>1, <2>2, JobAndLineStay
  <1> QED  BY <1>2, <1>4 DEF Inv

\* A step of the portal by itself.
LEMMA BooksMove ==
    ASSUME Inv, Forward(portal, portal'), NewestExists(portal'),
           UNCHANGED <<store, url, job, line>>,
           strays' \subseteq {r \in Request : r.ask = "enroll"}
    PROVE  Inv'
  <1>1. Types'
    BY DEF Inv, Types, Forward
  <1>2. store' # Absent => Genuine(store', portal')
    BY GenuineStays DEF Inv
  <1>3. \A q \in Proc : JobOK(job'[q], portal') /\ LineOK(job'[q], line'[q], portal')
    <2> TAKE q \in Proc
    <2>1. JobOK(job[q], portal) /\ LineOK(job[q], line[q], portal)
      BY DEF Inv
    <2> QED  BY <2>1, JobAndLineStay
  <1> QED  BY <1>1, <1>2, <1>3 DEF Inv

LEMMA InitInv == Init => Inv
  <1> SUFFICES ASSUME Init PROVE Inv
    OBVIOUS
  <1>1. Types
    BY IdleIsTyped DEF Init, Types, Url, Line, Books
  <1>2. NewestExists(portal)
    BY DEF Init, NewestExists
  <1>3. \A p \in Proc : JobOK(job[p], portal) /\ LineOK(job[p], line[p], portal)
    BY NothingAssumption DEF Init, Idle, JobOK, LineOK, Ask
  <1> QED  BY <1>1, <1>2, <1>3 DEF Init, Inv

\* A command that ends leaves nothing behind, whatever it was doing.
LEMMA CommandEnds ==
    ASSUME Inv, NEW p \in Proc, End(p),
           line' = [line EXCEPT ![p] = Nothing],
           store' \in Record \union {Absent},
           store' # Absent => Genuine(store', portal),
           url' \in Url, portal' = portal,
           strays' \subseteq {r \in Request : r.ask = "enroll"}
    PROVE  Inv'
  <1>1. Idle \in Job /\ Nothing \in Line
    BY IdleIsTyped DEF Line
  <1>2. JobOK(Idle, portal) /\ LineOK(Idle, Nothing, portal)
    BY NothingAssumption DEF Idle, JobOK, LineOK, Ask
  <1>3. Forward(portal, portal) /\ NewestExists(portal)
    BY DEF Inv, Types, Forward
  <1> QED  BY <1>1, <1>2, <1>3, OneProcessMoves DEF End

\* A command without a connection that goes on as j.
LEMMA CommandGoesOn ==
    ASSUME Inv, NEW p \in Proc, NEW j \in Job, NEW l \in Line,
           job' = [job EXCEPT ![p] = j], line' = [line EXCEPT ![p] = l],
           JobOK(j, portal), LineOK(j, l, portal),
           url' \in Url, UNCHANGED <<store, strays, portal>>
    PROVE  Inv'
  <1>1. Forward(portal, portal) /\ NewestExists(portal)
    BY DEF Inv, Types, Forward
  <1>2. store' \in Record \union {Absent} /\ (store' # Absent => Genuine(store', portal'))
    BY DEF Inv, Types
  <1>3. strays' \subseteq {r \in Request : r.ask = "enroll"}
    BY DEF Inv, Types
  <1> QED  BY <1>1, <1>2, <1>3, OneProcessMoves

\* Where a command stands, and what is on its connection.
LEMMA AtProcess ==
    ASSUME Inv, NEW p \in Proc
    PROVE  /\ job[p] \in Job /\ line[p] \in Line
           /\ JobOK(job[p], portal) /\ LineOK(job[p], line[p], portal)
           /\ line = [line EXCEPT ![p] = line[p]]
           /\ job = [job EXCEPT ![p] = job[p]]
           /\ Answered(p) => line[p] \in Answer
           /\ Asked(p) => line[p] \in Request /\ line[p].ask = job[p].step
  BY DEF Inv, Types, Line, Answered, Asked, LineOK

LEMMA CommandInv ==
    ASSUME Inv, NEW p \in Proc, Command(p)
    PROVE  Inv'
  <1>1. /\ line[p] = Nothing <=> job[p].step \notin Ask
        /\ line = [line EXCEPT ![p] = line[p]]
    BY AtProcess DEF LineOK
  <1>2. /\ store \in Record \union {Absent} /\ url \in Url
        /\ store # Absent => Genuine(store, portal)
        /\ portal.sold \subseteq Code
    BY DEF Inv, Types, Books
  <1>3. ASSUME NEW ask \in Ask, NEW with \in Bearer,
               job' = [job EXCEPT ![p] = [Idle EXCEPT !.step = ask, !.bearer = with]],
               Send(p, ask, with), url' \in Url, UNCHANGED <<store, strays, portal>>
        PROVE  Inv'
    <2> DEFINE j == [Idle EXCEPT !.step = ask, !.bearer = with]
               l == [ask |-> ask, with |-> with]
    <2>1. j \in Job /\ j.step = ask
      BY DEF Idle, Job, Step
    <2>2. l \in Request /\ l.ask = ask
      BY DEF Request
    <2>3. JobOK(j, portal) /\ LineOK(j, l, portal) /\ l \in Line
      BY <2>1, <2>2, RequestIsNoAnswer, NothingAssumption DEF JobOK, LineOK, Line, Ask
    <2>4. job' = [job EXCEPT ![p] = j] /\ line' = [line EXCEPT ![p] = l]
      BY <1>3 DEF Send
    <2> HIDE DEF j, l
    <2> QED  BY <1>3, <2>1, <2>3, <2>4, CommandGoesOn
  <1>4. ASSUME NEW j \in Job, j.step \in {"verify", "save"}, job[p] = Idle,
               job' = [job EXCEPT ![p] = j], JobOK(j, portal),
               UNCHANGED <<store, url, line, strays, portal>>
        PROVE  Inv'
    <2>1. line[p] = Nothing
      BY <1>1, <1>4 DEF Idle, Ask
    <2>2. LineOK(j, Nothing, portal)
      BY <1>4, NothingAssumption DEF LineOK, Ask
    <2>3. line' = [line EXCEPT ![p] = Nothing]
      BY <1>1, <1>4, <2>1
    <2> QED  BY <1>2, <1>4, <2>2, <2>3, CommandGoesOn DEF Line
  <1>5. ASSUME NEW code \in EnrollCode, NEW u \in Url, Enroll(p, code, u) PROVE Inv'
    <2>1. url' \in Url
      BY <1>2, <1>5 DEF Enroll, Written
    <2> QED  BY <1>3, <1>5, <2>1 DEF Enroll, Ask, Bearer
  <1>6. CASE Heartbeat(p) \/ FetchToken(p)
    <2>1. store.bearer \in Bearer
      BY <1>2, <1>6 DEF Heartbeat, FetchToken, AskAs, Record
    <2>2. CASE Heartbeat(p)
      BY <1>2, <1>3, <2>1, <2>2 DEF Heartbeat, AskAs, Ask
    <2>3. CASE FetchToken(p)
      BY <1>2, <1>3, <2>1, <2>3 DEF FetchToken, AskAs, Ask
    <2> QED  BY <1>6, <2>2, <2>3
  <1>7. ASSUME NEW code \in Code, EnterCode(p, code) PROVE Inv'
    <2> DEFINE j == [Idle EXCEPT !.step = "verify", !.code = code]
    <2>1. j \in Job /\ j.step = "verify" /\ j.code = code
      BY DEF Idle, Job, Step, Bearer
    <2>2. JobOK(j, portal)
      BY <1>7, <2>1 DEF EnterCode, JobOK
    <2> QED  BY <1>4, <1>7, <2>1, <2>2 DEF EnterCode
  <1>8. ASSUME NEW account \in Account, Provision(p, account) PROVE Inv'
    <2> DEFINE r == OfflineRecord(account)
               j == [Idle EXCEPT !.step = "save", !.record = r]
    <2>1. r \in Record /\ r.bearer = NoBearer /\ r.state = FreshState
      BY ProvisionedIsRecord DEF OfflineRecord, Bearer
    <2>2. j \in Job /\ j.step = "save" /\ j.record = r
      BY <2>1 DEF Idle, Job, Step, Bearer
    <2>3. JobOK(j, portal)
      BY <2>1, <2>2 DEF JobOK, Genuine
    <2> QED  BY <1>4, <1>8, <2>2, <2>3 DEF Provision
  <1> QED  BY <1>5, <1>6, <1>7, <1>8 DEF Command

\* A code that is accepted is the device's own, and what it leaves is a state.
LEMMA AcceptedState ==
    ASSUME NEW state \in DeviceState, NEW c \in Code, NEW secret \in Secret,
           NEW day \in Nat, Apply(state, c, secret, day).result = "Accepted"
    PROVE  LET after == Apply(state, c, secret, day).state IN
           /\ c.key = secret
           /\ after \in DeviceState
           /\ after.lastCounter = c.counter
           /\ after.lastTokenWasGrace = (c.type = "Grace")
  <1>1. c.key = secret
    BY DEF Apply, Decode
  <1>2. c.counter \in Nat /\ c.durationDays \in Nat
    BY CodeAssumption
  <1>3. PICK token : token = Decode(c, secret)
    OBVIOUS
  <1>4. /\ token.counter = c.counter /\ token.durationDays = c.durationDays
        /\ token.type = c.type
    BY <1>1, <1>3 DEF Decode
  <1>5. Apply(state, c, secret, day).state = Redeemed(state, token, day)
    BY <1>3 DEF Apply
  <1>6. Later(day, state.lockDeadlineDay) + token.durationDays \in Nat
    BY <1>2, <1>4 DEF Later, DeviceState
  <1>7. PICK after : after = Redeemed(state, token, day)
    OBVIOUS
  <1>8. /\ after \in DeviceState /\ after.lastCounter = c.counter
        /\ after.lastTokenWasGrace = (c.type = "Grace")
    BY <1>2, <1>4, <1>6, <1>7 DEF Redeemed, DeviceState, Status
  <1> QED BY <1>1, <1>5, <1>7, <1>8

\* Verifying a code keeps a record genuine: a code with its secret was sold.
LEMMA AcceptedIsGenuine ==
    ASSUME NEW r \in Record, NEW c \in Code, NEW day \in Day, NEW books,
           Genuine(r, books), c \in books.sold \/ c.key = NoKey,
           Apply(r.state, c, r.secret, day).result = "Accepted"
    PROVE  LET after == [r EXCEPT !.state = Apply(r.state, c, r.secret, day).state] IN
           after \in Record /\ Genuine(after, books)
  <1> DEFINE state == Apply(r.state, c, r.secret, day).state
             after == [r EXCEPT !.state = state]
  <1>1. r.state \in DeviceState /\ r.secret \in Secret /\ day \in Nat
    BY PortalAssumption DEF Record
  <1>2. c.key = r.secret
    BY <1>1, AcceptedState
  <1>3. c \in books.sold
    BY <1>1, <1>2, CodeAssumption
  <1>4. /\ state \in DeviceState
        /\ state.lastCounter = c.counter
        /\ state.lastTokenWasGrace = (c.type = "Grace")
    BY <1>1, AcceptedState
  <1> HIDE DEF state
  <1>5. /\ after \in Record /\ after.state = state /\ after.account = r.account
        /\ after.secret = r.secret /\ after.bearer = r.bearer
    BY <1>4 DEF Record
  <1> HIDE DEF after
  <1>6. Genuine(after, books)
    BY <1>2, <1>3, <1>4, <1>5 DEF Genuine
  <1> QED  BY <1>5, <1>6 DEF after, state

LEMMA ContinueInv ==
    ASSUME Inv, NEW p \in Proc, Continue(p)
    PROVE  Inv'
  <1> USE NothingAssumption
  <1> DEFINE j == job[p]
  <1>1. /\ j \in Job /\ JobOK(j, portal) /\ LineOK(j, line[p], portal)
        /\ line = [line EXCEPT ![p] = line[p]]
        /\ Answered(p) => line[p] \in Answer
        /\ j.step \notin Ask => line[p] = Nothing
    BY AtProcess DEF LineOK
  <1>2. /\ store \in Record \union {Absent} /\ url \in Url
        /\ store # Absent => Genuine(store, portal)
        /\ strays \subseteq {r \in Request : r.ask = "enroll"}
        /\ portal.sold \subseteq Code
    BY DEF Inv, Types, Books
  <1>3. ASSUME End(p), line' = [line EXCEPT ![p] = Nothing],
               UNCHANGED <<store, url, strays, portal>>
        PROVE  Inv'
    BY <1>2, <1>3, CommandEnds
  <1>4. ASSUME j.step \notin Ask, End(p), UNCHANGED <<store, url, line, strays, portal>>
        PROVE  Inv'
    <2>1. line' = [line EXCEPT ![p] = Nothing]
      BY <1>1, <1>4
    <2> QED  BY <1>3, <1>4, <2>1
  <1>5. ASSUME NEW k \in Job, k.step \in {"verify", "save"}, JobOK(k, portal),
               job' = [job EXCEPT ![p] = k], line' = [line EXCEPT ![p] = Nothing],
               UNCHANGED <<store, url, strays, portal>>
        PROVE  Inv'
    <2>1. LineOK(k, Nothing, portal)
      BY <1>5 DEF LineOK, Ask
    <2> QED  BY <1>2, <1>5, <2>1, CommandGoesOn DEF Line
  <1>6. CASE EnrollAnswered(p)
    <2>1. CASE Usable(line[p])
      <3> DEFINE k == [j EXCEPT !.step = "save", !.record = line[p].body]
      <3>1. line[p].body \in Record /\ Genuine(line[p].body, portal)
        BY <1>1, <1>6, <2>1 DEF EnrollAnswered, LineOK
      <3>2. k \in Job /\ k.step = "save" /\ k.record = line[p].body
        BY <1>1, <3>1 DEF Job, Step
      <3>3. job' = [job EXCEPT ![p] = k]
        BY <1>6, <2>1 DEF EnrollAnswered
      <3> HIDE DEF k
      <3>4. JobOK(k, portal)
        BY <3>1, <3>2 DEF JobOK
      <3> QED  BY <1>5, <1>6, <3>2, <3>3, <3>4 DEF EnrollAnswered
    <2>2. CASE ~Usable(line[p])
      BY <1>3, <1>6, <2>2 DEF EnrollAnswered
    <2> QED  BY <2>1, <2>2
  <1>7. CASE FetchAnswered(p)
    <2>1. CASE Usable(line[p])
      <3> DEFINE k == [j EXCEPT !.step = "verify", !.code = line[p].body]
      <3>1. line[p].body \in portal.sold
        BY <1>1, <1>7, <2>1 DEF FetchAnswered, LineOK
      <3>2. k \in Job /\ k.step = "verify" /\ k.code = line[p].body
        BY <1>1, <1>2, <3>1 DEF Job, Step
      <3>3. job' = [job EXCEPT ![p] = k]
        BY <1>7, <2>1 DEF FetchAnswered
      <3> HIDE DEF k
      <3>4. JobOK(k, portal)
        BY <3>1, <3>2 DEF JobOK
      <3> QED  BY <1>5, <1>7, <3>2, <3>3, <3>4 DEF FetchAnswered
    <2>2. CASE ~Usable(line[p])
      BY <1>3, <1>7, <2>2 DEF FetchAnswered
    <2> QED  BY <2>1, <2>2
  <1>8. CASE HeartbeatAnswered(p)
    BY <1>3, <1>8 DEF HeartbeatAnswered
  <1>9. CASE Verify(p)
    <2>1. PICK today \in Day :
            LET outcome == Apply(store.state, j.code, store.secret, today) IN
            IF outcome.result = "Accepted"
            THEN job' = [job EXCEPT ![p].step = "save",
                                    ![p].record = [store EXCEPT !.state = outcome.state]]
            ELSE End(p)
      BY <1>9 DEF Verify, SecretFor
    <2>2. j.step \notin Ask /\ UNCHANGED <<store, url, line, strays, portal>>
      BY <1>9 DEF Verify, Ask
    <2>3. CASE Apply(store.state, j.code, store.secret, today).result = "Accepted"
      <3> DEFINE r == [store EXCEPT !.state =
                           Apply(store.state, j.code, store.secret, today).state]
                 k == [j EXCEPT !.step = "save", !.record = r]
      <3>1. /\ store \in Record /\ Genuine(store, portal) /\ j.code \in Code
            /\ j.code \in portal.sold \/ j.code.key = NoKey
        BY <1>1, <1>2, <1>9 DEF Verify, JobOK
      <3>2. r \in Record /\ Genuine(r, portal)
        BY <2>3, <3>1, AcceptedIsGenuine
      <3>3. job' = [job EXCEPT ![p].step = "save", ![p].record = r]
        BY <2>1, <2>3
      <3> HIDE DEF r
      <3>4. k \in Job /\ k.step = "save" /\ k.record = r /\ job' = [job EXCEPT ![p] = k]
        BY <1>1, <3>2, <3>3 DEF Job, Step
      <3> HIDE DEF k
      <3>5. JobOK(k, portal)
        BY <3>2, <3>4 DEF JobOK
      <3>6. line' = [line EXCEPT ![p] = Nothing]
        BY <1>1, <2>2
      <3> QED  BY <1>5, <2>2, <3>4, <3>5, <3>6
    <2>4. CASE Apply(store.state, j.code, store.secret, today).result # "Accepted"
      <3>1. End(p)
        BY <2>1, <2>4
      <3> QED  BY <1>4, <2>2, <3>1
    <2> QED  BY <2>3, <2>4
  <1>10. CASE LoadFails(p)
    BY <1>4, <1>10 DEF LoadFails, Ask
  <1>11. CASE Save(p)
    <2>1. store' \in Record /\ Genuine(store', portal)
      BY <1>1, <1>11 DEF Save, JobOK
    <2>2. line' = [line EXCEPT ![p] = Nothing]
      BY <1>1, <1>11 DEF Save, Ask
    <2> QED  BY <1>2, <1>11, <2>1, <2>2, CommandEnds DEF Save
  <1>12. CASE SaveFails(p)
    BY <1>4, <1>12 DEF SaveFails, Ask
  <1> QED
    BY <1>6, <1>7, <1>8, <1>9, <1>10, <1>11, <1>12 DEF Continue

\* Connections break, answers are cut short, processes are killed.
LEMMA ConnectionInv ==
    ASSUME Inv, NEW p \in Proc,
           Serve(p) \/ CutShort(p) \/ NotCompleted(p) \/ Kill(p)
    PROVE  Inv'
  <1> USE NothingAssumption
  <1>1. /\ job[p] \in Job /\ JobOK(job[p], portal) /\ LineOK(job[p], line[p], portal)
        /\ job = [job EXCEPT ![p] = job[p]]
        /\ Answered(p) => line[p] \in Answer
        /\ Asked(p) => line[p] \in Request /\ line[p].ask = job[p].step
    BY AtProcess
  <1>2. /\ store \in Record \union {Absent} /\ url \in Url
        /\ store # Absent => Genuine(store, portal)
        /\ strays \subseteq {r \in Request : r.ask = "enroll"}
        /\ portal \in Books /\ NewestExists(portal)
    BY DEF Inv, Types
  <1>3. CASE Serve(p)
    <2> DEFINE l == ReplyTo(line[p])
    <2>1. line[p] \in Request /\ line[p].ask = job[p].step /\ line[p] # Nothing
      BY <1>1, <1>3 DEF Serve, Asked
    <2>2. Forward(portal, portal') /\ portal'.sold = portal.sold
      BY <1>2, <1>3, <2>1, BooksMoveForward DEF Serve
    <2>3. /\ l \in Answer
          /\ Usable(l) =>
                /\ job[p].step = "enroll" => l.body \in Record /\ Genuine(l.body, portal')
                /\ job[p].step = "token" => l.body \in portal'.sold
      BY <1>2, <1>3, <2>1, <2>2, ReplyIsRight DEF Serve
    <2>4. line' = [line EXCEPT ![p] = l] /\ UNCHANGED <<store, url, job, strays>>
      BY <1>3 DEF Serve
    <2> HIDE DEF l
    <2>5. LineOK(job[p], l, portal') /\ l \in Line
      BY <1>1, <2>1, <2>3, RequestIsNoAnswer DEF LineOK, Line
    <2>6. JobOK(job[p], portal')
      BY <1>1, <2>2, JobAndLineStay
    <2>7. NewestExists(portal')
      BY <1>2, <2>2 DEF NewestExists
    <2>8. store' # Absent => Genuine(store', portal')
      BY <1>2, <2>2, <2>4, GenuineStays
    <2> QED  BY <1>1, <1>2, <2>2, <2>4, <2>5, <2>6, <2>7, <2>8, OneProcessMoves
  <1>4. CASE CutShort(p)
    <2> DEFINE l == [line[p] EXCEPT !.body = Garbled]
    <2>1. line[p] \in Answer /\ line[p] # Nothing
      BY <1>1, <1>4 DEF CutShort, Answered
    <2>2. l \in Answer /\ l.body = Garbled
      BY <2>1 DEF Answer
    <2>3. line' = [line EXCEPT ![p] = l] /\ UNCHANGED <<store, url, job, strays, portal>>
      BY <1>4 DEF CutShort
    <2> HIDE DEF l
    <2>4. LineOK(job[p], l, portal) /\ l \in Line
      BY <1>1, <2>1, <2>2, RequestIsNoAnswer DEF LineOK, Line, Usable
    <2> QED  BY <1>1, <1>2, <2>3, <2>4, CommandGoesOn
  <1>5. strays \union Leftover(p) \subseteq {r \in Request : r.ask = "enroll"}
    BY <1>2 DEF Leftover, Asked
  <1>6. CASE NotCompleted(p)
    BY <1>2, <1>5, <1>6, CommandEnds DEF NotCompleted
  <1>7. CASE Kill(p)
    BY <1>2, <1>5, <1>7, CommandEnds DEF Kill
  <1> QED  BY <1>3, <1>4, <1>6, <1>7

\* What happens without the device taking part.
LEMMA ElsewhereInv ==
    ASSUME Inv,
           \/ \E u \in Url : SetUrl(u)
           \/ \E request \in strays : ServeStray(request)
           \/ \E code \in Code : Sell(code)
           \/ \E bearer \in EnrollCode : Revoke(bearer)
    PROVE  Inv'
  <1>1. /\ portal \in Books /\ NewestExists(portal) /\ url \in Url
        /\ strays \subseteq {r \in Request : r.ask = "enroll"}
    BY DEF Inv, Types
  <1>2. ASSUME NEW u \in Url, SetUrl(u) PROVE Inv'
    <2>1. url' \in Url
      BY <1>1, <1>2 DEF SetUrl, Written
    <2> QED  BY <1>2, <2>1 DEF SetUrl, Inv, Types
  <1>3. ASSUME NEW request \in strays, ServeStray(request) PROVE Inv'
    <2>1. Forward(portal, portal') /\ portal'.sold = portal.sold
      BY <1>1, <1>3, BooksMoveForward DEF ServeStray
    <2>2. NewestExists(portal')
      BY <1>1, <2>1 DEF NewestExists
    <2>3. UNCHANGED <<store, url, job, line>> /\ strays' \subseteq strays
      BY <1>3 DEF ServeStray
    <2> QED  BY <1>1, <2>1, <2>2, <2>3, BooksMove
  <1>4. ASSUME NEW code \in Code, Sell(code) PROVE Inv'
    <2>1. Forward(portal, portal') /\ portal'.sold = portal.sold \union {code}
      BY <1>1, <1>4 DEF Sell, Books, Forward
    <2>2. NewestExists(portal')
      BY <1>1, <2>1, SaleKeepsNewest DEF Forward
    <2> QED  BY <1>1, <1>4, <2>1, <2>2, BooksMove DEF Sell
  <1>5. ASSUME NEW bearer \in EnrollCode, Revoke(bearer) PROVE Inv'
    <2>1. Forward(portal, portal') /\ portal'.sold = portal.sold
      BY <1>1, <1>5 DEF Revoke, Books, Forward
    <2>2. NewestExists(portal')
      BY <1>1, <2>1 DEF NewestExists
    <2> QED  BY <1>1, <1>5, <2>1, <2>2, BooksMove DEF Revoke
  <1> QED  BY <1>2, <1>3, <1>4, <1>5

LEMMA StepInv == Inv /\ [Next]_vars => Inv'
  <1> SUFFICES ASSUME Inv, [Next]_vars PROVE Inv'
    OBVIOUS
  <1>1. CASE UNCHANGED vars
    BY <1>1 DEF vars, Inv, Types
  <1>2. CASE Next
    BY <1>2, CommandInv, ContinueInv, ConnectionInv, ElsewhereInv DEF Next
  <1> QED  BY <1>1, <1>2

LEMMA Invariance == Spec => []Inv
  BY InitInv, StepInv, PTL DEF Spec

\* Only whole records are ever carried to the store, and no answer is mistaken
\* for another, however answers are cut short or come late.
THEOREM TypeCorrect == Spec => []TypeOK
  <1>1. Inv => TypeOK
    BY DEF Inv, Types, TypeOK, Job, Step, Books, JobOK, LineOK
  <1> QED  BY <1>1, Invariance, PTL

\* A bearer token is kept with the account and secret it was given out with.
THEOREM RecordIsOneAnswerEver == Spec => []RecordIsOneAnswer
  <1>1. Inv => RecordIsOneAnswer
    BY DEF Inv, Genuine, RecordIsOneAnswer
  <1> QED  BY <1>1, Invariance, PTL

\* Only a code sold for the device's own secret has ever moved its state.
THEOREM OpenedByItsOwnCodeEver == Spec => []OpenedByItsOwnCode
  <1>1. Inv => OpenedByItsOwnCode
    BY DEF Inv, Genuine, OpenedByItsOwnCode
  <1> QED  BY <1>1, Invariance, PTL

=============================================================================
