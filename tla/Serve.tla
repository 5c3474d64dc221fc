------------------------------- MODULE Serve -------------------------------
(***************************************************************************)
(* The serving process: requests pass the middleware of the HTTP server,   *)
(* initial POSTs are admitted as sessions, calls are routed, leased, sent  *)
(* downstream and classified, generations of one server come and go, and a *)
(* signal or a failure of Serve ends the process.  The server stays        *)
(* enabled: the coordinator's other states are in Coordinator.             *)
(***************************************************************************)
EXTENDS Naturals, FiniteSets, Sequences

CONSTANTS MaxReqs,        \* requests, numbered in the order they arrive
          Queries,        \* what the middleware sees of a request
          TokenSets,      \* the token lists a reload may bring
          PublicMode, AllowedHosts, TrustedProxies,
          MaxSessions, MaxConcurrency, MaxRecent, MaxGens

ASSUME ServeAssumption ==
  /\ MaxSessions \in Nat \ {0} /\ MaxConcurrency \in Nat \ {0}
  /\ MaxRecent \in Nat \ {0} /\ MaxReqs \in Nat /\ MaxGens \in Nat
  /\ PublicMode \in BOOLEAN

VARIABLES phase, expired, failed, initMu, sessions, req, ready, gen, recent

vars == <<phase, expired, failed, initMu, sessions, req, ready, gen, recent>>
hubvars == <<phase, expired, failed>>
inbound == <<initMu, sessions>>

Reqs == 1..MaxReqs
Gens == 1..MaxGens

(* A request: what it is (a POST without a session id, a tools/call or a GET
   stream of a session), where it is, the generation it holds a lease of, whether its
   client cancelled it, the error of its call context, what CallTool returned,
   whether the tool ran, and the answer.  Two fields are history: whether the
   client had left when CallTool returned, and as which of the calls it was
   recorded. *)
Fresh == [kind |-> "none", pc |-> "new", gen |-> 0, left |-> FALSE, callErr |-> "none",
          reply |-> "none", ran |-> FALSE, answer |-> "none",
          gone |-> FALSE, turn |-> 0]
Unused == [state |-> "unused", admission |-> FALSE, active |-> 0, ctx |-> TRUE,
           late |-> FALSE]

Init ==
  /\ phase = "serving" /\ expired = FALSE /\ failed = FALSE
  /\ initMu = 0 /\ sessions = 0
  /\ req = [r \in Reqs |-> Fresh]
  /\ ready = 0 /\ gen = [g \in Gens |-> Unused] /\ recent = <<>>

To(r, pc) == req' = [req EXCEPT ![r].pc = pc]
Done(r, a) == req' = [req EXCEPT ![r] = [Fresh EXCEPT !.pc = "done", !.answer = a]]
Is(r, kind) == req[r].kind = kind

InFlight(r) == req[r].pc \notin {"new", "done"}

-----------------------------------------------------------------------------
(* The middleware; the controller's token list follows reloads, so any of
   TokenSets may be in force when a request arrives. *)
authorizedBearer(q, tokens) == IF tokens = {} THEN ~PublicMode ELSE q.token \in tokens

isHTTPSRequest(q) == q.tls \/ (q.peer \in TrustedProxies /\ q.proto = "https")

isAllowedHost(q) == IF PublicMode THEN q.host \in AllowedHosts ELSE q.host = "loopback"

wrapSecurityMiddleware(q, tokens) ==
  /\ PublicMode => isHTTPSRequest(q)
  /\ ~q.origin /\ authorizedBearer(q, tokens) /\ isAllowedHost(q)

(* A request arrives and is turned away or reaches handleMCP, which also turns
   away the stateless protocol. *)
Arrive(r, kind, q, tokens) ==
  /\ phase = "serving" /\ req[r].pc = "new"
  /\ \A p \in 1..(r - 1) : req[p].pc # "new"
  /\ kind = "init" \/ sessions > 0
  /\ IF wrapSecurityMiddleware(q, tokens) /\ ~q.stateless
     THEN req' = [req EXCEPT ![r].kind = kind,
                    ![r].pc = CASE kind = "init" -> "init" [] kind = "call" -> "route"
                                [] OTHER -> "open"]
     ELSE Done(r, "answered")
  /\ UNCHANGED <<hubvars, inbound, ready, gen, recent>>

-----------------------------------------------------------------------------
(* Session admission. *)
LockInit_None(r) == initMu' = initMu
LockInit(r) == initMu = 0 /\ initMu' = r

countSessions(r) ==
  /\ req[r].pc = "init" /\ LockInit(r)
  /\ To(r, IF sessions >= MaxSessions THEN "full" ELSE "body")
  /\ UNCHANGED <<hubvars, sessions, ready, gen, recent>>

(* The SDK reads the body under the read deadline, makes the session and
   answers; initMu is released when the handler returns.  \E ok: the body is
   an initialize request that arrives in time. *)
ServeInit(r) ==
  /\ req[r].pc \in {"full", "body"}
  /\ initMu' = IF initMu = r THEN 0 ELSE initMu
  /\ Done(r, "answered")
  /\ \E ok \in (IF req[r].pc = "body" THEN BOOLEAN ELSE {FALSE}) :
       sessions' = IF ok THEN sessions + 1 ELSE sessions
  /\ UNCHANGED <<hubvars, ready, gen, recent>>

(* A session ends by DELETE or by its idle timeout. *)
EndSession ==
  /\ sessions > 0 /\ sessions' = sessions - 1
  /\ UNCHANGED <<hubvars, initMu, req, ready, gen, recent>>

CloseStream(r) ==
  /\ req[r].pc = "open" /\ Done(r, "answered")
  /\ UNCHANGED <<hubvars, inbound, ready, gen, recent>>

-----------------------------------------------------------------------------
(* A call: RouteTool and what it calls.  \E known: the route table changes
   with publications, which Publisher models. *)
Reject(c, a) ==
  req' = [req EXCEPT ![c].pc = "record", ![c].answer = a]

LookupRoute(c) ==
  /\ req[c].pc = "route"
  /\ \/ To(c, "lease")
     \/ Reject(c, "unknown")
  /\ UNCHANGED <<hubvars, inbound, ready, gen, recent>>

Stopped == phase \in {"stopping", "cancelled", "exited"}

(* Manager.AcquireLease and Coordinator.AcquireLease find the generation ... *)
AcquireLease(c) ==
  /\ req[c].pc = "lease"
  /\ IF Stopped \/ ready = 0 THEN Reject(c, "unavailable")
     ELSE req' = [req EXCEPT ![c].pc = "acquire", ![c].gen = ready]
  /\ UNCHANGED <<hubvars, inbound, ready, gen, recent>>

(* ... and Generation.acquire is asked for the lease after their locks are
   released.  The call's context is a child of the request's, which may have
   ended by now. *)
acquire(c) ==
  /\ req[c].pc = "acquire"
  /\ LET g == req[c].gen IN
     CASE ~gen[g].admission -> Reject(c, "unavailable") /\ UNCHANGED gen
       [] gen[g].admission /\ gen[g].active >= MaxConcurrency ->
            Reject(c, "busy") /\ UNCHANGED gen
       [] OTHER -> /\ gen' = [gen EXCEPT ![g].active = @ + 1]
                   /\ req' = [req EXCEPT ![c].pc = "sent",
                                         ![c].callErr = IF req[c].left THEN "canceled" ELSE "none"]
  /\ UNCHANGED <<hubvars, inbound, ready, recent>>

(* The contexts of a call: its client cancels it, before it is sent or while it
   is in progress, its timer fires, or the goroutine that waits for the end of
   the generation cancels it. *)
Routed(c) == req[c].pc \in {"route", "lease", "acquire"}
InCall(c) == req[c].pc \in {"sent", "replied", "checked"}

EndContext(c, e) ==
  req' = [req EXCEPT ![c].callErr = IF @ = "none" THEN e ELSE @]

ClientCancels(c) ==
  /\ (Routed(c) \/ InCall(c)) /\ ~req[c].left
  /\ req' = [req EXCEPT ![c].left = TRUE,
                        ![c].callErr = IF @ = "none" /\ InCall(c) THEN "canceled" ELSE @]
  /\ UNCHANGED <<hubvars, inbound, ready, gen, recent>>

CallTimesOut(c) ==
  /\ InCall(c) /\ req[c].callErr = "none" /\ EndContext(c, "deadline")
  /\ UNCHANGED <<hubvars, inbound, ready, gen, recent>>

generationDone(c) ==
  /\ InCall(c) /\ req[c].callErr = "none" /\ ~gen[req[c].gen].ctx
  /\ EndContext(c, "canceled")
  /\ UNCHANGED <<hubvars, inbound, ready, gen, recent>>

(* CallTool returns the server's answer, or an error: from the server, from
   the connection, or because the call context ended. *)
CallTool(c, reply) ==
  /\ req[c].pc = "sent"
  /\ reply # "error" => gen[req[c].gen].state # "closed"
  /\ req' = [req EXCEPT ![c].pc = "replied", ![c].reply = reply,
                        ![c].ran = reply # "error", ![c].gone = req[c].left]
  /\ UNCHANGED <<hubvars, inbound, ready, gen, recent>>

(* The deferred Release comes before the deferred record. *)
Return(c, a) ==
  /\ gen' = [gen EXCEPT ![req[c].gen].active = @ - 1]
  /\ Reject(c, a)

(* RouteTool first asks whether its client has left ... *)
checkClient(c) ==
  /\ req[c].pc = "replied"
  /\ IF req[c].left THEN Return(c, "cancelled")
                    ELSE To(c, "checked") /\ UNCHANGED gen
  /\ UNCHANGED <<hubvars, inbound, ready, recent>>

Answer(c) ==
  CASE req[c].reply = "error" -> "downstream_error"
    [] req[c].reply = "toolError" -> "tool_error"
    [] OTHER -> "success"

Outcome_ErrorFirst(c) ==
  IF req[c].reply # "error" /\ req[c].callErr = "deadline" THEN "timeout" ELSE Answer(c)

(* ... and then looks for another reason, in this order.  The client may leave
   between the two. *)
Outcome(c) ==
  CASE req[c].callErr = "deadline" -> "timeout"
    [] req[c].callErr = "canceled" -> "stopped"
    [] OTHER -> Answer(c)

classify(c) ==
  /\ req[c].pc = "checked" /\ Return(c, Outcome(c))
  /\ UNCHANGED <<hubvars, inbound, ready, recent>>

Ended == {c \in Reqs : req[c].answer = "recorded"}

RecordCall(c) ==
  /\ req[c].pc = "record"
  /\ LET all == Append(recent, c) IN
     recent' = IF Len(all) > MaxRecent THEN Tail(all) ELSE all
  /\ req' = [req EXCEPT ![c] = [Fresh EXCEPT !.pc = "done", !.answer = "recorded",
                                             !.turn = Cardinality(Ended) + 1]]
  /\ UNCHANGED <<hubvars, inbound, ready, gen>>

-----------------------------------------------------------------------------
(* The generations of the server, from Coordinator and Generation.  The context
   of a generation is a child of the manager's. *)
Connect(g) ==
  /\ ~Stopped /\ gen[g].state = "unused"
  /\ \A h \in Gens : gen[h].state = IF h < g THEN "closed" ELSE "unused"
  /\ gen' = [gen EXCEPT ![g] = [@ EXCEPT !.state = "current", !.admission = TRUE,
                                         !.ctx = ~failed]]
  /\ ready' = g
  /\ UNCHANGED <<hubvars, inbound, req, recent>>

(* The coordinator stops giving the generation out, for a reload, a lost
   session or its Stop; drain then closes its admission ... *)
Retire(g) ==
  /\ ready = g /\ g # 0 /\ ready' = 0
  /\ UNCHANGED <<hubvars, inbound, req, gen, recent>>

drain(g) ==
  /\ gen[g].state = "current" /\ ready # g
  /\ gen' = [gen EXCEPT ![g].state = "draining", ![g].admission = FALSE]
  /\ UNCHANGED <<hubvars, inbound, req, ready, recent>>

(* ... and returns when the leases are back or its timer has fired, which it
   may at any time; Close follows. *)
drainTimeout(g) ==
  /\ gen[g].state = "draining" /\ ~gen[g].late
  /\ gen' = [gen EXCEPT ![g].late = TRUE]
  /\ UNCHANGED <<hubvars, inbound, req, ready, recent>>

Close(g) ==
  /\ gen[g].state = "draining" /\ (gen[g].active = 0 \/ gen[g].late)
  /\ gen' = [gen EXCEPT ![g].state = "closed", ![g].ctx = FALSE]
  /\ UNCHANGED <<hubvars, inbound, req, ready, recent>>

-----------------------------------------------------------------------------
(* The end of the process.  After the signal Shutdown waits for every request
   and stream, under a context of five seconds that Manager.Stop then gets. *)
Cancelled == [g \in Gens |-> IF gen[g].state = "unused" THEN Unused
                              ELSE [gen[g] EXCEPT !.ctx = FALSE]]

Signal_CancelFirst == phase' = "draining" /\ gen' = Cancelled
Signal == phase' = "draining" /\ UNCHANGED gen

Shutdown ==
  /\ phase = "serving" /\ Signal
  /\ UNCHANGED <<expired, failed, inbound, req, ready, recent>>

ShutdownExpires ==
  /\ phase \in {"draining", "stopping"} /\ ~expired /\ expired' = TRUE
  /\ UNCHANGED <<phase, failed, inbound, req, ready, gen, recent>>

HTTPDrained_NoDeadline == \A r \in Reqs : ~InFlight(r)
HTTPDrained == expired \/ \A r \in Reqs : ~InFlight(r)

StopManager ==
  /\ phase = "failing" \/ (phase = "draining" /\ HTTPDrained)
  /\ phase' = "stopping"
  /\ UNCHANGED <<expired, failed, inbound, req, ready, gen, recent>>

(* Serve fails: the manager's context is cancelled before Manager.Stop, while
   leases are still given out. *)
ServeFails ==
  /\ phase = "serving" /\ phase' = "failing" /\ failed' = TRUE
  /\ gen' = Cancelled
  /\ UNCHANGED <<expired, inbound, req, ready, recent>>

(* Manager.Stop returns when every coordinator has stopped, or by its context,
   and its own context is cancelled either way. *)
CoordinatorsStopped == \A g \in Gens : gen[g].state \in {"unused", "closed"}

ManagerStops ==
  /\ phase = "stopping"
  /\ CoordinatorsStopped \/ expired
  /\ phase' = "cancelled" /\ gen' = Cancelled
  /\ UNCHANGED <<expired, failed, inbound, req, ready, recent>>

Exit ==
  /\ phase = "cancelled" /\ phase' = "exited"
  /\ UNCHANGED <<expired, failed, inbound, req, ready, gen, recent>>

-----------------------------------------------------------------------------
RouteTool(c) == LookupRoute(c) \/ AcquireLease(c) \/ acquire(c) \/ CallTimesOut(c)
                  \/ generationDone(c) \/ CallTool(c, "error") \/ checkClient(c)
                  \/ classify(c) \/ RecordCall(c)
handleInit(r) == countSessions(r) \/ ServeInit(r)
Retiring(g) == drain(g) \/ drainTimeout(g) \/ Close(g)
Ending == ShutdownExpires \/ StopManager \/ ManagerStops \/ Exit

Step ==
  \/ \E r \in Reqs, kind \in {"init", "call", "stream"}, q \in Queries,
        tokens \in TokenSets : Arrive(r, kind, q, tokens)
  \/ \E r \in Reqs : \/ handleInit(r) \/ CloseStream(r)
                     \/ RouteTool(r) \/ ClientCancels(r)
                     \/ \E a \in {"ok", "toolError"} : CallTool(r, a)
  \/ \E g \in Gens : Connect(g) \/ Retire(g) \/ Retiring(g)
  \/ EndSession \/ Shutdown \/ ServeFails \/ Ending

(* Once the process has exited nothing moves. *)
Next == phase # "exited" /\ Step

(* Locks, timers and goroutines of the process make progress; clients, the
   downstream server and reloads need not. *)
Fairness ==
  /\ \A r \in Reqs : WF_vars(phase # "exited" /\ (handleInit(r) \/ RouteTool(r)))
  /\ \A g \in Gens : /\ WF_vars(phase # "exited" /\ Retiring(g))
                     /\ WF_vars(Stopped /\ phase # "exited" /\ Retire(g))
  /\ WF_vars(Ending)

Spec == Init /\ [][Next]_vars /\ Fairness

-----------------------------------------------------------------------------
(* The calls that hold a lease of generation g. *)
Holders(g) == {c \in Reqs : InCall(c) /\ req[c].gen = g}

(* The limits hold however requests interleave.  handleMCP counts the sessions
   and lets the SDK add one under initMu, so there are never more than the
   limit; and the count behind a generation's concurrency limit is the number
   of calls inside it, whichever of its contexts or its server ended each of
   them and whatever became of the generation meanwhile. *)
LimitsHold ==
  /\ sessions <= MaxSessions
  /\ \A g \in Gens : /\ gen[g].active = Cardinality(Holders(g))
                     /\ gen[g].active <= MaxConcurrency

(* RouteTool's answer names the real reason: what is refused never reached a
   server, success means that the tool ran and no context had ended, a timeout,
   a cancellation or the end of the generation is reported as such and never
   blamed on the server.  A client that had left when CallTool returned is told
   so and nothing else; the one case in which "the generation stopped" is said
   of a generation that did not is a client that leaves between RouteTool's two
   looks at its contexts.  And the diagnostics (RecordCall) hold the latest
   calls, as many as the limit allows, in the order in which they ended. *)
AnswerIsHonest ==
  /\ \A c \in {d \in Reqs : req[d].pc = "record"} : LET r == req[c] IN
       /\ r.answer \in {"unknown", "busy", "unavailable"} => ~r.ran /\ r.callErr = "none"
       /\ r.answer \in {"success", "tool_error"} => r.ran /\ r.callErr = "none"
       /\ r.answer = "cancelled" => r.left
       /\ r.gone => r.answer = "cancelled"
       /\ r.answer = "timeout" => r.callErr = "deadline"
       /\ r.answer = "stopped" => r.left \/ ~gen[r.gen].ctx
       /\ r.answer = "downstream_error" => ~r.ran /\ r.callErr = "none"
  /\ LET n == Cardinality(Ended)
         k == IF n > MaxRecent THEN MaxRecent ELSE n
     IN  /\ Len(recent) = k
         /\ \A i \in 1..k : recent[i] \in Ended /\ req[recent[i]].turn = n - k + i

(* Manager.Stop, Coordinator and the order of runServe: the context of a
   generation with calls in it is cancelled only when a time limit has passed
   (the drain's or the shutdown's) or when Serve itself has failed. *)
DrainBeforeCancel ==
  \A g \in Gens : ~gen[g].ctx /\ gen[g].active > 0
                    => gen[g].late \/ expired \/ failed

(* Every wait of the serving process is bounded: with finitely many requests,
   calls and initial POSTs are all answered and a shutdown that has begun
   reaches the exit, whatever clients and servers do. *)
EverythingEnds ==
  []<>(\/ phase = "exited"
       \/ phase = "serving" /\ \A r \in Reqs : InFlight(r) => Is(r, "stream"))
=============================================================================
