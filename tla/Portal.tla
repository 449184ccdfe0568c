-------------------------------- MODULE Portal --------------------------------
(***************************************************************************)
(* The installer's commands that talk to the portal (enroll, heartbeat,    *)
(* fetch-token) and those that write the same record without it            *)
(* (provision, apply-code), over src/net.  Requests and answers get lost,  *)
(* come late or come cut off; processes are killed; commands overlap.      *)
(*                                                                         *)
(* The portal is external.  A bearer token is named after the one-time     *)
(* enrollment code it was given out for.  Loading and saving the record    *)
(* are one step each, as AtomicStore has it; applyCode takes two.  What    *)
(* savers that meet do to the file is LocalStore's matter.                 *)
(***************************************************************************)
EXTENDS Verifier

CONSTANTS
    Proc,           \* processes that run commands
    Account,        \* customers' accounts, one device each
    SecretOf,       \* the secret the portal keeps for an account
    EnrollCode,     \* the one-time codes the operator will hand out
    AccountOf,      \* the account an enrollment code is for
    Day,            \* what the clock may show
    Absent,         \* no record: the device is not provisioned
    NoBearer,       \* the deviceToken of an offline provisioning: ""
    Garbled,        \* a body Json::parse refuses or finds no token in
    Nothing,        \* no request, no answer, no argument
    Faults,         \* may loading and saving the record fail?
    Kills           \* may a process end in the middle of a command?

ASSUME PortalAssumption ==
    /\ SecretOf \in [Account -> Secret]
    /\ AccountOf \in [EnrollCode -> Account]
    /\ Day \subseteq Nat
    /\ NoBearer \notin EnrollCode
    /\ Faults \in BOOLEAN /\ Kills \in BOOLEAN

Bearer == EnrollCode \union {NoBearer}
Record == [account: Account, secret: Secret, bearer: Bearer, state: DeviceState]

\* Any address but the portal's behaves like one that never answers.
Url == {"", "portal"}

VARIABLES
    store,      \* state.bin
    url,        \* PortalUrl in the registry
    job,        \* what each process is doing, and with what
    line,       \* each process's connection: a request or an answer under way
    strays,     \* requests whose sender gave up and that may yet be served
    portal      \* the portal's books

vars == <<store, url, job, line, strays, portal>>

Idle == [step |-> "idle", bearer |-> NoBearer, code |-> Nothing, record |-> Absent]
Ask == {"enroll", "heartbeat", "token"}
Request == [ask: Ask, with: Bearer]
Answer == [status: {200, 401, 404, 422},
           body: Record \union Code \union {Garbled, Nothing}]

\* Nothing can be told from what is sent over a connection.
ASSUME NothingAssumption == Nothing \notin Request /\ Nothing \notin Answer

Init ==
    /\ store = Absent /\ url = ""
    /\ job = [p \in Proc |-> Idle]
    /\ line = [p \in Proc |-> Nothing]
    /\ strays = {}
    /\ portal = [unspent |-> EnrollCode, valid |-> {}, sold |-> {}]

\* A record of defaults with what provisioning fills in.
Provisioned(account, bearer) ==
    [account |-> account, secret |-> SecretOf[account], bearer |-> bearer,
     state |-> FreshState]

\* The command prints what became of it and ends.
End(p) == job' = [job EXCEPT ![p] = Idle]

-----------------------------------------------------------------------------
(* HttpClient::send, up to the answer.                                     *)

Send(p, ask, with) == line' = [line EXCEPT ![p] = [ask |-> ask, with |-> with]]

Asked(p) == line[p] # Nothing /\ line[p] \in Request
Answered(p) == line[p] # Nothing /\ line[p] \notin Request

\* What the portal may still receive, as far as its books depend on it.
Leftover(p) == IF Asked(p) THEN {r \in {line[p]} : r.ask = "enroll"} ELSE {}

\* No connection, a timeout or a broken line: completed stays false and every
\* command fails.  A request already on its way may arrive all the same.
NotCompleted(p) ==
    /\ line[p] # Nothing
    /\ line' = [line EXCEPT ![p] = Nothing]
    /\ strays' \in {strays, strays \union Leftover(p)}
    /\ End(p)
    /\ UNCHANGED <<store, url, portal>>

\* WinHttpReadData fails half way: the response counts as completed.
CutShort(p) ==
    /\ Answered(p) /\ line[p].body # Garbled
    /\ line' = [line EXCEPT ![p].body = Garbled]
    /\ UNCHANGED <<store, url, job, strays, portal>>

\* Not the code: the body is not looked at before it is used.
UsableUnparsed(answer) == answer.status = 200

\* Status 200 and a body that parses and has a token in it.
Usable(answer) == answer.status = 200 /\ answer.body # Garbled

-----------------------------------------------------------------------------
(* The portal.                                                             *)

Reply(status, body) == [status |-> status, body |-> body]

\* The newest code sold for an account.
Newest(account) ==
    CHOOSE c \in portal.sold :
        /\ c.key = SecretOf[account]
        /\ \A d \in portal.sold : d.key = c.key => d.counter <= c.counter

ReplyTo(request) ==
    LET account == AccountOf[request.with]
        known == request.with \in portal.valid
    IN  CASE request.ask = "enroll" ->
                IF request.with \in portal.unspent
                THEN Reply(200, Provisioned(account, request.with)) ELSE Reply(422, Garbled)
          [] request.ask # "enroll" /\ ~known -> Reply(401, Garbled)
          [] request.ask = "heartbeat" /\ known -> Reply(200, Nothing)
          [] request.ask = "token" /\ known ->
                IF \E c \in portal.sold : c.key = SecretOf[account]
                THEN Reply(200, Newest(account)) ELSE Reply(404, Garbled)

\* An enrollment code is consumed by the first request that redeems it.
BooksAfter(request) ==
    IF request.ask = "enroll" /\ request.with \in portal.unspent
    THEN [portal EXCEPT !.unspent = @ \ {request.with}, !.valid = @ \union {request.with}]
    ELSE portal

Serve(p) ==
    /\ Asked(p)
    /\ line' = [line EXCEPT ![p] = ReplyTo(line[p])]
    /\ portal' = BooksAfter(line[p])
    /\ UNCHANGED <<store, url, job, strays>>

\* Nobody is left to hear the answer.
ServeStray(request) ==
    /\ request \in strays
    /\ strays' = strays \ {request}
    /\ portal' = BooksAfter(request)
    /\ UNCHANGED <<store, url, job, line>>

Sell(c) ==
    /\ c.key \in Secret /\ c \notin portal.sold
    /\ portal' = [portal EXCEPT !.sold = @ \union {c}]
    /\ UNCHANGED <<store, url, job, line, strays>>

Revoke(bearer) ==
    /\ bearer \in portal.valid
    /\ portal' = [portal EXCEPT !.valid = @ \ {bearer}]
    /\ UNCHANGED <<store, url, job, line, strays>>

-----------------------------------------------------------------------------
(* The commands.                                                           *)

\* RegSetKeyValue, whose result nobody looks at.
Written(u) == IF Faults THEN {u, url} ELSE {u}

\* set-url; uninstall clears it with the other settings.
SetUrl(u) ==
    /\ url' \in Written(u)
    /\ UNCHANGED <<store, job, line, strays, portal>>

\* enroll with a one-time code, and with --url or the address in the registry.
Enroll(p, code, u) ==
    /\ job[p] = Idle
    /\ LET address == IF u = "" THEN url ELSE u IN
       /\ address # ""
       /\ url' \in Written(address)
       /\ Send(p, "enroll", code)
    /\ job' = [job EXCEPT ![p] = [Idle EXCEPT !.step = "enroll", !.bearer = code]]
    /\ UNCHANGED <<store, strays, portal>>

\* The answer becomes a record of defaults, whatever record was there.
EnrollAnswered(p) ==
    /\ Answered(p) /\ job[p].step = "enroll"
    /\ line' = [line EXCEPT ![p] = Nothing]
    /\ IF Usable(line[p])
       THEN job' = [job EXCEPT ![p].step = "save", ![p].record = line[p].body]
       ELSE End(p)
    /\ UNCHANGED <<store, url, strays, portal>>

\* heartbeat and fetch-token of an enrolled device.
AskAs(p, ask) ==
    /\ job[p] = Idle
    /\ url # "" /\ store # Absent
    /\ store.bearer # NoBearer
    /\ Send(p, ask, store.bearer)
    /\ job' = [job EXCEPT ![p] = [Idle EXCEPT !.step = ask, !.bearer = store.bearer]]
    /\ UNCHANGED <<store, url, strays, portal>>

Heartbeat(p) == AskAs(p, "heartbeat")
FetchToken(p) == AskAs(p, "token")

\* Only the status counts, and nothing but the printed line depends on it.
HeartbeatAnswered(p) ==
    /\ Answered(p) /\ job[p].step = "heartbeat"
    /\ line' = [line EXCEPT ![p] = Nothing]
    /\ End(p)
    /\ UNCHANGED <<store, url, strays, portal>>

FetchAnswered(p) ==
    /\ Answered(p) /\ job[p].step = "token"
    /\ line' = [line EXCEPT ![p] = Nothing]
    /\ IF Usable(line[p])
       THEN job' = [job EXCEPT ![p].step = "verify", ![p].code = line[p].body]
       ELSE End(p)
    /\ UNCHANGED <<store, url, strays, portal>>

\* apply-code with a code somebody bought, perhaps for another device, or with
\* a string that is no code.
EnterCode(p, code) ==
    /\ job[p] = Idle
    /\ code \in portal.sold \/ code.key = NoKey
    /\ job' = [job EXCEPT ![p] = [Idle EXCEPT !.step = "verify", !.code = code]]
    /\ UNCHANGED <<store, url, line, strays, portal>>

\* Not the code: verified with the secret of the record the bearer came from.
SecretForAsker(p) ==
    IF job[p].bearer = NoBearer THEN store.secret ELSE SecretOf[AccountOf[job[p].bearer]]

\* applyCode verifies with the secret of the record it has just loaded.
SecretFor(p) == store.secret

\* applyCode up to the save.  It loads the record again: the one whose bearer
\* was sent may have been replaced since.
Verify(p) ==
    /\ job[p].step = "verify"
    /\ store # Absent
    /\ \E today \in Day :
        LET outcome == Apply(store.state, job[p].code, SecretFor(p), today) IN
        IF outcome.result = "Accepted"
        THEN job' = [job EXCEPT ![p].step = "save",
                                ![p].record = [store EXCEPT !.state = outcome.state]]
        ELSE End(p)
    /\ UNCHANGED <<store, url, line, strays, portal>>

LoadFails(p) ==
    /\ job[p].step = "verify"
    /\ store = Absent \/ Faults
    /\ End(p)
    /\ UNCHANGED <<store, url, line, strays, portal>>

\* Not the code: provisioning by hand keeps the bearer of the record before.
OfflineRecordMerged(account) ==
    Provisioned(account, IF store = Absent THEN NoBearer ELSE store.bearer)

OfflineRecord(account) == Provisioned(account, NoBearer)

\* provision, with account and secret as the portal shows them.
Provision(p, account) ==
    /\ job[p] = Idle
    /\ job' = [job EXCEPT ![p] = [Idle EXCEPT !.step = "save",
                                              !.record = OfflineRecord(account)]]
    /\ UNCHANGED <<store, url, line, strays, portal>>

Save(p) ==
    /\ job[p].step = "save"
    /\ store' = job[p].record
    /\ End(p)
    /\ UNCHANGED <<url, line, strays, portal>>

SaveFails(p) ==
    /\ job[p].step = "save" /\ Faults
    /\ End(p)
    /\ UNCHANGED <<store, url, line, strays, portal>>

Kill(p) ==
    /\ Kills /\ job[p] # Idle
    /\ End(p)
    /\ line' = [line EXCEPT ![p] = Nothing]
    /\ strays' \in {strays, strays \union Leftover(p)}
    /\ UNCHANGED <<store, url, portal>>

Command(p) ==
    \/ \E code \in EnrollCode, u \in Url : Enroll(p, code, u)
    \/ Heartbeat(p)
    \/ FetchToken(p)
    \/ \E code \in Code : EnterCode(p, code)
    \/ \E account \in Account : Provision(p, account)

\* What a command does once it has begun.
Continue(p) ==
    \/ EnrollAnswered(p) \/ HeartbeatAnswered(p) \/ FetchAnswered(p)
    \/ Verify(p) \/ LoadFails(p)
    \/ Save(p) \/ SaveFails(p)

Next ==
    \/ \E p \in Proc :
        \/ Command(p) \/ Continue(p)
        \/ Serve(p) \/ CutShort(p) \/ NotCompleted(p)
        \/ Kill(p)
    \/ \E u \in Url : SetUrl(u)
    \/ \E request \in strays : ServeStray(request)
    \/ \E code \in Code : Sell(code)
    \/ \E bearer \in EnrollCode : Revoke(bearer)

Spec == Init /\ [][Next]_vars

-----------------------------------------------------------------------------
(* Properties.                                                             *)

\* Everything is what its name says; above all, only a whole record is ever
\* carried to the store.
TypeOK ==
    /\ store \in Record \union {Absent}
    /\ url \in Url
    /\ strays \subseteq Request
    /\ portal \in [unspent: SUBSET EnrollCode, valid: SUBSET EnrollCode, sold: SUBSET Code]
    /\ \A p \in Proc :
        /\ job[p].step \in Ask \union {"idle", "verify", "save"}
        /\ job[p].bearer \in Bearer
        /\ job[p].step = "save" => job[p].record \in Record
        /\ job[p].step = "verify" => job[p].code \in Code
        /\ (line[p] # Nothing) <=> (job[p].step \in Ask)

\* A device that holds a bearer holds it with the account and the secret the
\* portal gave out with it, and for a code that is spent, however enrolling,
\* provisioning by hand and late saves of applyCode overlap.
RecordIsOneAnswer ==
    store # Absent /\ store.bearer # NoBearer =>
        /\ store.account = AccountOf[store.bearer]
        /\ store.secret = SecretOf[store.account]
        /\ store.bearer \notin portal.unspent

\* A device is opened by codes sold for its own secret: the state it holds was
\* left by one, even if it was enrolled anew while a code was fetched or saved.
OpenedByItsOwnCode ==
    store # Absent /\ store.state # FreshState =>
        \E c \in portal.sold :
            /\ c.key = store.secret
            /\ c.counter = store.state.lastCounter
            /\ store.state.lastTokenWasGrace = (c.type = "Grace")

=============================================================================
