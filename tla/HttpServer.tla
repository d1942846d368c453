----------------------------- MODULE HttpServer -----------------------------
(***************************************************************************)
(* The HTTP transport (internal/transport/httptransport) and main's use of  *)
(* it: Server.Run, the goroutine that serves, the handler of each           *)
(* connection, and clients that stop talking or go away.                    *)
(*                                                                         *)
(* net/http is external: what it does with a connection is modelled as far  *)
(* as Run and handleExecute rely on it.  Judge is the JudgeEngine, which     *)
(* answers every request (JudgeEngine!EveryRequestAnswered).                *)
(***************************************************************************)
EXTENDS Integers

CONSTANTS Conns,        \* connections
          Bodies,       \* kinds of request bodies
          MaxRequests   \* bound: requests on one connection

ASSUME HttpAssumption == MaxRequests \in Nat
                         /\ Bodies \subseteq {"valid", "malformed", "trailing", "tooLarge", "refused"}

VARIABLES
  run,          \* where Server.Run is
  signalled,    \* serverCtx is done
  serve,        \* the goroutine of ListenAndServe
  serveErr,     \* it recorded an error
  shutdownErr,  \* Shutdown could not close the listener
  runErr,       \* Run returned an error
  inShutdown,   \* http.Server: Shutdown was called, the listeners are closed
  conn,         \* the server's side of each connection
  client,       \* its other side: "here", "stalled" or "gone"
  body,         \* the body of the request being served
  status,       \* the status to be written
  judged,       \* history: what became of the judging of the last request
  requests,     \* history: requests that arrived on the connection
  answered      \* history: answers written to it

runVars == <<run, signalled, serve, serveErr, shutdownErr, runErr, inShutdown>>
connVars == <<conn, client, body, status, judged, requests, answered>>
httpVars == <<runVars, connVars>>

TypeOK ==
  /\ run \in {"select", "shutdown", "waitServe", "returned"}
  /\ {signalled, serveErr, shutdownErr, runErr, inShutdown} \subseteq BOOLEAN
  /\ serve \in {"starting", "unbound", "bound", "serving", "failed", "done"}
  /\ conn \in [Conns -> {"none", "new", "reading", "judging", "writing", "idle", "closed"}]
  /\ client \in [Conns -> {"here", "stalled", "gone"}]
  /\ body \in [Conns -> Bodies \cup {"none"}]
  /\ status \in [Conns -> {0, 200, 400}]
  /\ judged \in [Conns -> {"no", "begun", "finished", "cancelled"}]
  /\ {requests, answered} \subseteq [Conns -> 0..MaxRequests]

HttpInit ==
  /\ run = "select" /\ signalled = FALSE /\ serve = "starting"
  /\ serveErr = FALSE /\ shutdownErr = FALSE /\ runErr = FALSE /\ inShutdown = FALSE
  /\ conn = [c \in Conns |-> "none"] /\ client = [c \in Conns |-> "here"]
  /\ body = [c \in Conns |-> "none"] /\ status = [c \in Conns |-> 0]
  /\ judged = [c \in Conns |-> "no"] /\ requests = [c \in Conns |-> 0]
  /\ answered = [c \in Conns |-> 0]

-----------------------------------------------------------------------------
(* ListenAndServe, in its goroutine: it looks at inShutdown before it listens  *)
(* and before it serves, listening or accepting may fail, and a closed listener *)
(* makes it return ErrServerClosed.  A failure is decided by net/http before    *)
(* the goroutine of Run records it.                                             *)
ServeGoto(there) ==
  serve' = there /\ UNCHANGED <<run, signalled, shutdownErr, runErr, inShutdown, connVars>>
ServeAdvances ==
  /\ ~inShutdown /\ UNCHANGED serveErr
  /\ \/ serve = "starting" /\ ServeGoto("bound")
     \/ serve = "bound" /\ ServeGoto("serving")
ServeFails ==
  /\ ~inShutdown /\ UNCHANGED serveErr
  /\ \/ serve = "starting" /\ ServeGoto("unbound")
     \/ serve = "serving" /\ ServeGoto("failed")
ServeReturns ==
  \/ serve \in {"unbound", "failed"} /\ serveErr' = TRUE /\ ServeGoto("done")
  \/ /\ serve \in {"starting", "bound", "serving"} /\ inShutdown
     /\ ServeGoto("done") /\ UNCHANGED serveErr

(* SIGINT or SIGTERM; more of them change nothing before Run returns. *)
Signal ==
  /\ ~signalled /\ run # "returned"
  /\ signalled' = TRUE
  /\ UNCHANGED <<run, serve, serveErr, shutdownErr, runErr, inShutdown, connVars>>

(* The listeners that Shutdown closes: the one that is being served, also if   *)
(* accepting has just failed and Serve has yet to take it off the list.         *)
Listening == serve \in {"serving", "failed"}

(* The select of Run, and the beginning of Shutdown: closing the listener may   *)
(* fail, which Shutdown returns in the end, and the loop that accepts leaves all *)
(* the same.                                                                    *)
Stop ==
  /\ run = "select" /\ (serve = "done" \/ signalled)
  /\ run' = "shutdown" /\ inShutdown' = TRUE
  /\ shutdownErr' \in IF Listening THEN BOOLEAN ELSE {FALSE}
  /\ UNCHANGED <<signalled, serve, serveErr, runErr, connVars>>

(* Mutant: a connection whose answer is being written counts as idle. *)
MutantMayClose(c) == conn[c] \in {"new", "idle", "writing"}
(* The connections Shutdown closes while it waits: idle ones, and new ones      *)
(* that have been silent for five seconds.                                      *)
MayClose(c) == conn[c] \in {"new", "idle"}

(* Mutant: Shutdown does not wait for the accepting loop. *)
MutantListenersGone == inShutdown
(* Shutdown first waits for the loops that accept: one may just have accepted.  *)
ListenersGone == inShutdown /\ serve # "serving"

(* Mutant: only connections that never sent anything are closed. *)
MutantCloseIdle(c) ==
  /\ run = "shutdown" /\ ListenersGone /\ MayClose(c) /\ conn[c] # "idle"
  /\ conn' = [conn EXCEPT ![c] = "closed"]
  /\ UNCHANGED <<runVars, client, body, status, judged, requests, answered>>
CloseIdle(c) ==
  /\ run = "shutdown" /\ ListenersGone /\ MayClose(c)
  /\ conn' = [conn EXCEPT ![c] = "closed"]
  /\ UNCHANGED <<runVars, client, body, status, judged, requests, answered>>

(* Shutdown has no deadline: its context is context.Background(), so no error    *)
(* but that of the listener can come out of it.                                  *)
ShutdownReturns ==
  /\ run = "shutdown" /\ ListenersGone
  /\ \A c \in Conns : conn[c] \in {"none", "closed"}
  /\ run' = "waitServe"
  /\ UNCHANGED <<signalled, serve, serveErr, shutdownErr, runErr, inShutdown, connVars>>

(* <-serveDone *)
ServeIsDone == serve = "done"

(* errors.Join(serveErr, shutdownErr) *)
RunReturns ==
  /\ run = "waitServe" /\ ServeIsDone
  /\ run' = "returned" /\ runErr' = (serveErr \/ shutdownErr)
  /\ UNCHANGED <<signalled, serve, serveErr, shutdownErr, inShutdown, connVars>>

-----------------------------------------------------------------------------
ConnGoto(c, there) == conn' = [conn EXCEPT ![c] = there]

(* Also while the listener is being closed: the loop may just have accepted.   *)
Accept(c) ==
  /\ serve = "serving" /\ conn[c] = "none" /\ client[c] = "here"
  /\ ConnGoto(c, "new")
  /\ UNCHANGED <<runVars, client, body, status, judged, requests, answered>>

(* The first bytes of a request: the connection is active. *)
RequestArrives(c, b) ==
  /\ conn[c] \in {"new", "idle"} /\ client[c] = "here" /\ requests[c] < MaxRequests
  /\ ConnGoto(c, "reading")
  /\ body' = [body EXCEPT ![c] = b]
  /\ judged' = [judged EXCEPT ![c] = "no"]
  /\ requests' = [requests EXCEPT ![c] = @ + 1]
  /\ UNCHANGED <<runVars, client, status, answered>>

Respond(c, code) == ConnGoto(c, "writing") /\ status' = [status EXCEPT ![c] = code]

(* handleExecute reads the body: it must be one JSON object, of known fields   *)
(* and not too large, and all of it must come within the read timeout.          *)
ReadBody(c) ==
  /\ conn[c] = "reading" /\ client[c] = "here"
  /\ IF body[c] \in {"valid", "refused"}
       THEN /\ ConnGoto(c, "judging") /\ UNCHANGED status
            /\ judged' = [judged EXCEPT ![c] = "begun"]
       ELSE Respond(c, 400) /\ UNCHANGED judged
  /\ UNCHANGED <<runVars, client, body, requests, answered>>

(* The client has gone, or the read timeout strikes. *)
ReadFails(c) ==
  /\ conn[c] = "reading" /\ client[c] # "here"
  /\ Respond(c, 400)
  /\ UNCHANGED <<runVars, client, body, judged, requests, answered>>

(* context.WithoutCancel: what becomes of the judging. *)
Outcome(c) == "finished"

(* Mutant: an error of Judge is answered as a failure of the server. *)
MutantJudgeStatus(c) == IF body[c] = "refused" THEN 500 ELSE 200
(* Judge returns an error for a request it refuses, a result otherwise. *)
JudgeStatus(c) == IF body[c] = "refused" THEN 400 ELSE 200

JudgeReturns(c) ==
  /\ conn[c] = "judging"
  /\ judged' = [judged EXCEPT ![c] = Outcome(c)]
  /\ Respond(c, JudgeStatus(c))
  /\ UNCHANGED <<runVars, client, body, requests, answered>>

(* A client that is there and does not read: an error fits into the buffers,    *)
(* a result need not, and there is no write timeout.                            *)
StuckWriter(c) == conn[c] = "writing" /\ client[c] = "stalled" /\ status[c] = 200

(* The response is written, or the write fails because the client is gone.  The *)
(* connection stays for another request if net/http lets it.                    *)
Written(c) ==
  /\ conn[c] = "writing" /\ ~StuckWriter(c)
  /\ \/ ConnGoto(c, "closed")
     \/ client[c] = "here" /\ ~inShutdown /\ ConnGoto(c, "idle")
  /\ answered' = [answered EXCEPT ![c] = @ + 1]
  /\ status' = [status EXCEPT ![c] = 0]
  /\ UNCHANGED <<runVars, client, body, judged, requests>>

(* The read timeout also ends a connection that waits for a request.            *)
IdleTimesOut(c) ==
  /\ conn[c] \in {"new", "idle"}
  /\ ConnGoto(c, "closed")
  /\ UNCHANGED <<runVars, client, body, status, judged, requests, answered>>

ClientStalls(c) ==
  /\ client[c] = "here" /\ conn[c] \notin {"none", "closed"}
  /\ client' = [client EXCEPT ![c] = "stalled"]
  /\ UNCHANGED <<runVars, conn, body, status, judged, requests, answered>>

(* A silent connection is closed at once; a handler goes on. *)
ClientLeaves(c) ==
  /\ client[c] # "gone" /\ conn[c] \notin {"none", "closed"}
  /\ client' = [client EXCEPT ![c] = "gone"]
  /\ conn' = [conn EXCEPT ![c] = IF @ \in {"new", "idle"} THEN "closed" ELSE @]
  /\ UNCHANGED <<runVars, body, status, judged, requests, answered>>

-----------------------------------------------------------------------------
Runner == Stop \/ (\E c \in Conns : CloseIdle(c)) \/ ShutdownReturns \/ RunReturns
Handler(c) == ReadBody(c) \/ ReadFails(c) \/ JudgeReturns(c) \/ Written(c)
Client(c) ==
  Accept(c) \/ IdleTimesOut(c) \/ (\E b \in Bodies : RequestArrives(c, b)) \/ ClientStalls(c) \/ ClientLeaves(c)
HttpTerminated == run = "returned" /\ UNCHANGED httpVars

HttpNext ==
  \/ Runner \/ ServeAdvances \/ ServeFails \/ ServeReturns \/ Signal
  \/ \E c \in Conns : Handler(c) \/ Client(c)
  \/ HttpTerminated

HttpSpec == HttpInit /\ [][HttpNext]_httpVars

(* Goroutines run; a read ends by its data or by the read timeout; judging ends. *)
(* No client has to do anything, and no signal has to come.                      *)
HttpFairSpec ==
  /\ HttpSpec
  /\ WF_httpVars(Runner) /\ WF_httpVars(ServeAdvances) /\ WF_httpVars(ServeReturns)
  /\ \A c \in Conns : WF_httpVars(Handler(c)) /\ WF_httpVars(CloseIdle(c))

-----------------------------------------------------------------------------
(* "Waits for active requests to finish before returning": once Run has          *)
(* returned, no handler runs and no connection is open, whatever came first: a   *)
(* signal during start-up, a failing accept, a connection that was accepted just *)
(* as Shutdown closed the listener, requests arriving on idle connections.       *)
ReturnedIsQuiet == run = "returned" => \A c \in Conns : conn[c] \in {"none", "closed"}

(* Run returns an error exactly if serving failed by itself or the listener      *)
(* could not be closed, also when a failure races with the signal and with       *)
(* Shutdown: main's exit code depends on it.  A failure of serving counts from   *)
(* the moment net/http met it, so none is recorded after Run has read the error. *)
ErrorIsReported ==
  run = "returned" => (runErr <=> (serveErr \/ serve \in {"unbound", "failed"} \/ shutdownErr))

(* "Once the request is read, judging finishes even if the client disconnects":  *)
(* and nothing but an answer that was judged is sent with status 200.            *)
JudgingFinishes ==
  \A c \in Conns :
    /\ judged[c] # "cancelled"
    /\ conn[c] \in {"idle", "closed"} => judged[c] # "begun"
    /\ status[c] = 200 => judged[c] = "finished"

(* Shutting down costs no answer: a client that does not leave is sent one answer *)
(* for each request that arrived, before its connection rests or is closed.       *)
EveryRequestIsAnswered ==
  \A c \in Conns :
    client[c] # "gone" /\ conn[c] \in {"new", "idle", "closed"} => answered[c] = requests[c]

(* Every request that has arrived leaves the handler, although its client may     *)
(* stall or go, unless that client is there and never reads the answer.           *)
EveryHandlerEnds ==
  \A c \in Conns :
    (conn[c] \in {"reading", "judging"}) ~> (conn[c] \in {"idle", "closed"} \/ StuckWriter(c))

(* After a signal, or after serving has failed, Run returns: with no limit on    *)
(* the wait, the only thing that can keep it is a client that never reads its    *)
(* answer and never goes.                                                        *)
RunReturnsUnlessStuck ==
  (<>(signalled \/ serve = "done"))
    => (<>(run = "returned") \/ <>[](\E c \in Conns : StuckWriter(c)))

(* When Run returns, everything has ended, and its error tells of every failure.  *)
RunEndsCleanly == ReturnedIsQuiet /\ ErrorIsReported

(* A request that was read is judged to the end and, while its client is there,   *)
(* answered, whatever happens to the server or to the client meanwhile.           *)
RequestsAreServed == JudgingFinishes /\ EveryRequestIsAnswered

(* Neither a handler nor Run waits forever, unless for a client that is there and *)
(* never reads its answer.                                                        *)
NobodyWaitsForever == EveryHandlerEnds /\ RunReturnsUnlessStuck
=============================================================================
