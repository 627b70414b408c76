------------------------------- MODULE Server -------------------------------
(***************************************************************************)
(* The process (server.ts, app.ts, prismaFactory.ts) and what a request    *)
(* goes through in it: rate limit, authentication, the limit on writes,    *)
(* the handler, the transaction, a read after it, the answer.  The process *)
(* starts, serves, shuts down on a signal and may be killed at any moment. *)
(***************************************************************************)
EXTENDS Posting

CONSTANTS
  Requests,   \* postings that come through this process; the others post elsewhere
  Rereads     \* requests whose handler reads again after the commit

ASSUME RequestsAssumption == Requests \subseteq Posters

VARIABLES
  life,      \* of the process
  http       \* the requests in it

serverVars == <<postingVars, life, http>>

Lives == {"off", "starting", "listening", "closing", "releasing", "exited"}
Codes == {0, 200, 400, 500}    \* 200 for any 2xx, 400 for any 4xx, 0 for none
HttpRequests ==
  [pc : {"new", "auth", "handler", "database", "reread", "done"}, code : Codes, client : {"waiting", "gone"}]
NewHttp == [pc |-> "new", code |-> 0, client |-> "waiting"]

(* The request goes on; the rest of the process stays as it is. *)
HttpTo(p, pc) == http' = [http EXCEPT ![p].pc = pc] /\ UNCHANGED life

(* An answer to a client that is gone goes nowhere. *)
Answer(p, code) ==
  /\ http' = [http EXCEPT ![p].pc = "done", ![p].code = IF http[p].client = "gone" THEN 0 ELSE code]
  /\ UNCHANGED life

InFlight == {p \in Requests : http[p].pc \notin {"new", "done"}}
-----------------------------------------------------------------------------
(* start(): the probe of the database decides between listening and exit.   *)
Boot == life = "off" /\ life' = "starting" /\ UNCHANGED <<postingVars, http>>

Probe ==
  /\ life = "starting" /\ life' \in {"listening", "exited"}
  /\ UNCHANGED <<postingVars, http>>

(* A connection that brought another request and may bring p: server.close  *)
(* ends idle connections only, one that was busy stays for some seconds.    *)
KeptAlive(p) == \E q \in Requests \ {p} : http[q].pc # "new" /\ http[q].client = "waiting"

(* generalLimiter, before authentication.  The counts of the limiters, which *)
(* depend on traffic outside the model, are left out: any request may be    *)
(* one too many.                                                            *)
Arrive(p) ==
  /\ life = "listening" \/ (life = "closing" /\ KeptAlive(p))
  /\ http[p].pc = "new"
  /\ Answer(p, 400) \/ HttpTo(p, "auth")
  /\ UNCHANGED postingVars

(* verifyBearer: one 401, whatever is wrong with the token. *)
TokenRefused(p) == Answer(p, 400)

(* requireUser: 401 for a user without a row, 500 if the query fails. *)
UserRefused(p) == \E code \in {400, 500} : Answer(p, code)

(* mutationLimiter, by the verified user *)
WriteLimited(p) == Answer(p, 400)

Authenticate(p) ==
  /\ http[p].pc = "auth"
  /\ TokenRefused(p) \/ UserRefused(p) \/ WriteLimited(p) \/ HttpTo(p, "handler")
  /\ UNCHANGED postingVars

(* forwardError and errorHandler: an operational error of the service keeps *)
(* its status, anything else is a 500.                                      *)
ErrorAnswered(p) == \E code \in {400, 500} : Answer(p, code)

(* Mutant: the answer is sent before the transaction is awaited. *)
AnswersUnawaited(p) ==
  http[p].pc = "handler" /\ Answer(p, 200) /\ Enlisted(p)

(* The handler: an error of the service before the transaction, or the      *)
(* transaction.                                                             *)
Handle(p) ==
  /\ http[p].pc = "handler"
  /\ \/ ErrorAnswered(p) /\ UNCHANGED postingVars
     \/ HttpTo(p, "database") /\ Enlisted(p)

(* A connection is given only until the pool ends. *)
DatabaseStep(p) ==
  /\ PostingStep(p) /\ (tx[p].st = "waiting" /\ life = "releasing" => GiveUp(p))
  /\ UNCHANGED <<life, http>>

(* The promise of the transaction settles.  Some of the errors that end one *)
(* are translated (P2025, P2003).  The acknowledgment of a commit may be    *)
(* lost with the connection.                                                *)
TransactionSettled(p) ==
  /\ http[p].pc = "database" /\ UNCHANGED postingVars
  /\ \/ tx[p].st = "aborted" /\ ErrorAnswered(p)
     \/ tx[p].st = "committed"
        /\ \/ Answer(p, 500)
           \/ IF p \in Rereads THEN HttpTo(p, "reread") ELSE Answer(p, 200)

(* The handlers of a wallet: netWorthSnapshot after the service. *)
Reread(p) ==
  /\ http[p].pc = "reread" /\ UNCHANGED postingVars
  /\ \E code \in {200, 500} : Answer(p, code)

(* The client closes the connection; the handler goes on. *)
HangUp(p) ==
  /\ p \in InFlight /\ http[p].client = "waiting"
  /\ http' = [http EXCEPT ![p].client = "gone"]
  /\ UNCHANGED <<postingVars, life>>
-----------------------------------------------------------------------------
(* Mutant: the database is released at the signal. *)
ReleasesAtSignal ==
  life = "listening" /\ life' = "releasing" /\ UNCHANGED <<postingVars, http>>

(* SIGINT or SIGTERM: server.close; a second signal does nothing. *)
Signal ==
  life = "listening" /\ life' = "closing" /\ UNCHANGED <<postingVars, http>>

(* server.close calls back when no connection is left: those whose clients  *)
(* are gone do not count.                                                   *)
Closed ==
  /\ life = "closing"
  /\ \A p \in InFlight : http[p].client = "gone"
  /\ life' = "releasing" /\ UNCHANGED <<postingVars, http>>

(* closePrisma, then process.exit: pool.end waits for the connections that  *)
(* are out.  Handlers without a client end where they are.                  *)
Released ==
  /\ life = "releasing" /\ Connected = {}
  /\ life' = "exited" /\ AbortAll
  /\ http' = [p \in Requests |-> IF p \in InFlight THEN [http[p] EXCEPT !.pc = "done"] ELSE http[p]]

(* The process is killed, or a signal reaches it before it handles any; a   *)
(* supervisor starts it again (Boot).                                       *)
Crash ==
  /\ life \notin {"off", "exited"}
  /\ life' = "off" /\ AbortAll
  /\ http' = [p \in Requests |->
       IF p \in InFlight THEN [http[p] EXCEPT !.pc = "done", !.client = "gone"] ELSE http[p]]

ServerInit ==
  /\ PostingInit /\ life = "off"
  /\ http = [p \in Requests |-> NewHttp]

RequestStep(p) ==
  Authenticate(p) \/ Handle(p) \/ DatabaseStep(p) \/ TransactionSettled(p) \/ Reread(p)

LifeGoesOn == Probe \/ Closed \/ Released

ServerNext ==
  \/ \E p \in Requests : Arrive(p) \/ RequestStep(p) \/ HangUp(p)
  \/ Boot \/ LifeGoesOn \/ Signal \/ Crash

(* The process and the database go on with what can be done.  A rollback    *)
(* comes only to those who would wait for ever (Victim); nothing is         *)
(* promised of boots, new requests, signals or crashes.                     *)
DatabaseGoesOn(p) ==
  /\ DatabaseStep(p)
  /\ \/ Acquire(p) \/ Increment(p) \/ CommitPosting(p) \/ Victim(p)
     \/ life = "releasing" /\ GiveUp(p)
RequestGoesOn(p) ==
  Authenticate(p) \/ Handle(p) \/ DatabaseGoesOn(p) \/ TransactionSettled(p) \/ Reread(p)
ServerFairness ==
  (\A p \in Requests : WF_serverVars(RequestGoesOn(p))) /\ WF_serverVars(LifeGoesOn)

ServerSpec == ServerInit /\ [][ServerNext]_serverVars /\ ServerFairness
-----------------------------------------------------------------------------
ServerTypeOK ==
  /\ PostingTypeOK /\ life \in Lives
  /\ http \in [Requests -> HttpRequests]

(* A status is a statement about the ledger: after a 2xx the posting is     *)
(* committed, after a 4xx nothing of it was written and nothing will be.    *)
(* Only a 500 leaves it open, so repeating the request may post twice.  And *)
(* no transaction runs on behind an answer.                                 *)
AnswersTruthful ==
  \A p \in Requests :
    /\ http[p].code = 200 => tx[p].st = "committed"
    /\ http[p].code = 400 => tx[p].st \in {"none", "aborted"}
    /\ tx[p].st \in {"waiting", "open"} => http[p].pc = "database"

(* "Stop accepting new connections, then release DB resources": once the    *)
(* database is being released every request whose client stayed has its     *)
(* answer, whatever was in flight at the signal; and a process that is gone *)
(* leaves no transaction behind.                                            *)
NobodyDropped ==
  /\ life \in {"releasing", "exited"} =>
       \A p \in Requests : http[p].client = "waiting" /\ http[p].pc # "new" => http[p].code # 0
  /\ life \in {"exited", "off"} => Unfinished = {}

(* A request can go on by itself: it waits for nothing, or for what is      *)
(* there, or the database is about to end its wait.                         *)
CanGoOn(p) ==
  \/ http[p].pc \in {"auth", "handler", "reread"}
  \/ http[p].pc = "database" /\ tx[p].st \in {"committed", "aborted"}
  \/ tx[p].st = "waiting" /\ (life = "releasing" \/ Cardinality(Connected) < pool)
  \/ /\ tx[p].st = "open"
     /\ \/ tx[p].at = Len(Increments[p])
        \/ LET d == Increments[p][tx[p].at + 1] IN d.amount = 0 \/ RowFree(p, d.wallet)
        \/ Deadlocked(p)

LifeCanGoOn ==
  \/ life = "starting"
  \/ life = "closing" /\ \A p \in InFlight : http[p].client = "gone"
  \/ life = "releasing" /\ Connected = {}

(* Nobody waits for everybody: as long as a request is in flight some       *)
(* request can go on, and a process that starts or shuts down can go on or  *)
(* waits for one that can.                                                  *)
NeverStuck ==
  /\ InFlight # {} => \E p \in InFlight : CanGoOn(p)
  /\ life \in {"starting", "closing", "releasing"} => LifeCanGoOn \/ \E p \in InFlight : CanGoOn(p)

(* The steps a request has before it, at most. *)
StepsLeft(pc, st, at) ==
  CASE pc = "new"     -> 12
    [] pc = "auth"    -> 11
    [] pc = "handler" -> 10
    [] pc = "reread"  -> 1
    [] pc = "done"    -> 0
    [] OTHER -> IF st = "waiting" THEN 9 ELSE IF st = "open" THEN 8 - at ELSE 2

Left(p) == StepsLeft(http[p].pc, tx[p].st, tx[p].at)

(* No step of anyone sets a request back, and each of its own steps brings  *)
(* it nearer to its end: nothing is retried behind the client's back.       *)
EveryStepCounts ==
  [][\A p \in Requests : Left(p)' \in 0..Left(p) /\ (RequestStep(p) => Left(p)' # Left(p))]_serverVars

(* A shutdown ends, unless a crash comes first: no request in flight can    *)
(* hold it up for ever, not even two transfers in opposite directions; and  *)
(* every request that has arrived ends.  Whoever can go on is let go on.    *)
ShutdownEnds ==
  /\ life = "closing" ~> life \in {"exited", "off"}
  /\ \A p \in Requests : p \in InFlight ~> http[p].pc = "done"
  /\ [](\A p \in Requests : CanGoOn(p) => ENABLED RequestGoesOn(p))
  /\ [](LifeCanGoOn => ENABLED LifeGoesOn)
=============================================================================
