---------------------------- MODULE ServeProofs ----------------------------
(***************************************************************************)
(* Proofs about Serve, for any number of requests, generations and         *)
(* sessions and any limits.                                                *)
(***************************************************************************)
EXTENDS Serve, FiniteSetTheorems, TLAPS

Labels == {"new", "init", "full", "body", "open", "route", "lease", "acquire", "sent",
           "replied", "checked", "record", "done"}

Answers == {"none", "answered", "unknown", "unavailable", "busy", "cancelled", "timeout",
            "stopped", "downstream_error", "tool_error", "success", "recorded"}

Kinds == {"init", "call", "stream"}

Replies == {"error", "ok", "toolError"}

Request == [kind : {"none", "init", "call", "stream"}, pc : Labels, gen : Gens \cup {0},
            left : BOOLEAN, callErr : {"none", "deadline", "canceled"},
            reply : {"none", "error", "ok", "toolError"}, ran : BOOLEAN,
            answer : Answers, gone : BOOLEAN, turn : Nat]

Gen == [state : {"unused", "current", "draining", "closed"}, admission : BOOLEAN,
        active : Int, ctx : BOOLEAN, late : BOOLEAN]

Types ==
    /\ req \in [Reqs -> Request] /\ gen \in [Gens -> Gen]
    /\ initMu \in Nat /\ sessions \in Nat /\ ready \in Gens \cup {0}
    /\ expired \in BOOLEAN /\ failed \in BOOLEAN

(* Whoever has counted the sessions holds initMu, and what it counted is   *)
(* still true.                                                             *)
SessionInv ==
    /\ sessions <= MaxSessions
    /\ \A r \in Reqs : /\ req[r].pc \in {"full", "body"} => initMu = r
                       /\ req[r].pc = "body" => sessions < MaxSessions

(* A generation x admits calls only while it is current; its context ends  *)
(* with its Close, or when e: the shutdown has expired, or Serve has failed.*)
GenOK(x, e) ==
    /\ x.admission => x.state = "current"
    /\ x.state = "unused" => x.ctx
    /\ x.state = "closed" => ~x.ctx
    /\ ~x.ctx => x.state = "closed" \/ e
    /\ ~x.ctx /\ x.active > 0 => x.late \/ e

GenInv == \A g \in Gens : GenOK(gen[g], expired \/ failed)

(* What the answer of a call x says of it; G are the generations.          *)
Honest(x, G) ==
    /\ x.answer \in {"unknown", "busy", "unavailable"} => ~x.ran /\ x.callErr = "none"
    /\ x.answer \in {"success", "tool_error"} => x.ran /\ x.callErr = "none"
    /\ x.answer = "cancelled" => x.left
    /\ x.gone => x.answer = "cancelled"
    /\ x.answer = "timeout" => x.callErr = "deadline"
    /\ x.answer = "stopped" => x.left \/ ~G[x.gen].ctx
    /\ x.answer = "downstream_error" => ~x.ran /\ x.callErr = "none"

(* A call that has its lease.                                              *)
Within == {"sent", "replied", "checked"}

(* What is known of a request x on its way to the answer.                  *)
RequestOK(x, G) ==
    /\ x.pc \notin Within \cup {"record", "done"} =>
           ~x.ran /\ ~x.gone /\ x.callErr = "none"
    /\ x.pc \in Within \cup {"acquire"} => x.gen \in Gens
    /\ x.pc = "sent" => ~x.ran /\ ~x.gone
    /\ x.pc \in {"replied", "checked"} => (x.ran <=> x.reply # "error")
    /\ x.pc = "replied" /\ x.gone => x.left
    /\ x.pc = "checked" => ~x.gone
    /\ x.pc \in Within /\ x.callErr = "canceled" => x.left \/ ~G[x.gen].ctx
    /\ x.pc # "done" => x.answer # "recorded"
    /\ x.pc = "record" /\ x.answer = "stopped" => x.gen \in Gens
    /\ x.pc = "record" => Honest(x, G)

RequestInv == \A r \in Reqs : RequestOK(req[r], gen)

(* The diagnostics: the latest of the calls that have ended, in order.     *)
Kept(n) == IF n > MaxRecent THEN MaxRecent ELSE n

RecentInv ==
    /\ recent \in Seq(Reqs)
    /\ Len(recent) = Kept(Cardinality(Ended))
    /\ \A i \in 1..Len(recent) :
           /\ recent[i] \in Ended
           /\ req[recent[i]].turn = Cardinality(Ended) - Len(recent) + i

IInv == Types /\ SessionInv /\ GenInv /\ RequestInv /\ RecentInv

-----------------------------------------------------------------------------
LEMMA InitIInv == Init => IInv
  <1> SUFFICES ASSUME Init PROVE IInv
    BY Zenon
  <1>1. Fresh \in Request /\ Unused \in Gen
    <2>1. Fresh \in Request
      BY SMT DEF Fresh, Request, Labels, Answers
    <2>2. 0 \in Int
      OBVIOUS
    <2>3. Unused \in Gen
      BY <2>2, SMT DEF Unused, Gen
    <2> QED BY <2>1, <2>3, Zenon
  <1>2. Types
    BY <1>1, Zenon DEF Init, Types
  <1>3. \A r \in Reqs : req[r] = Fresh
    BY Zenon DEF Init
  <1>4. SessionInv
    BY <1>3, ServeAssumption DEF Init, SessionInv, Fresh
  <1>5. GenInv
    BY Zenon DEF Init, GenInv, GenOK, Unused
  <1>6. RequestInv
    BY <1>3 DEF RequestInv, RequestOK, Fresh, Within
  <1>7. RecentInv
    <2>1. Ended = {}
      BY <1>3 DEF Ended, Fresh
    <2>2. Cardinality(Ended) = 0
      BY <2>1, FS_EmptySet, Zenon
    <2>3. recent = << >> /\ Len(recent) = 0 /\ recent \in Seq(Reqs)
      BY DEF Init
    <2>4. Kept(0) = 0
      BY ServeAssumption DEF Kept
    <2> QED BY <2>2, <2>3, <2>4 DEF RecentInv
  <1> QED BY <1>2, <1>4, <1>5, <1>6, <1>7, Zenon DEF IInv

(* A context that has ended stays ended, so nothing said of a request is   *)
(* undone by a step of its generation.                                     *)
LEMMA RequestFrame ==
  ASSUME NEW x, NEW G, NEW H, RequestOK(x, G), \A g \in Gens : ~G[g].ctx => ~H[g].ctx
  PROVE  RequestOK(x, H)
  <1>1. CASE x.pc \in Within
    BY <1>1, Zenon DEF RequestOK, Within
  <1>2. CASE x.pc = "record"
    <2>1. Honest(x, H)
      BY <1>2, Zenon DEF RequestOK, Honest
    <2> QED BY <1>2, <2>1, Zenon DEF RequestOK, Within
  <1>3. CASE x.pc \notin Within \cup {"record"}
    BY <1>3, Zenon DEF RequestOK
  <1> QED BY <1>1, <1>2, <1>3, Zenon

LEMMA RequestsPrimed ==
  ASSUME \A r \in Reqs : RequestOK(req'[r], gen')
  PROVE  RequestInv'
  BY Zenon DEF RequestInv, RequestOK, Honest

LEMMA RequestsStay ==
  ASSUME RequestInv, RecentInv, UNCHANGED <<req, recent>>,
         \A g \in Gens : ~gen[g].ctx => ~gen'[g].ctx
  PROVE  RequestInv' /\ RecentInv'
  <1>1. RequestInv'
    <2>1. \A r \in Reqs : RequestOK(req[r], gen')
      BY RequestFrame, Zenon DEF RequestInv
    <2>2. \A r \in Reqs : RequestOK(req'[r], gen')
      BY <2>1, Zenon
    <2> QED BY <2>2, RequestsPrimed, Zenon
  <1>2. Ended' = Ended
    BY Zenon DEF Ended
  <1> QED BY <1>1, <1>2, Zenon DEF RecentInv, Kept

(* The diagnostics are about calls that are over.                          *)
LEMMA RecentStays ==
  ASSUME RecentInv, UNCHANGED recent, Ended' = Ended,
         \A r \in Ended : req'[r] = req[r]
  PROVE  RecentInv'
  <1>1. \A i \in 1..Len(recent) : req'[recent[i]].turn = req[recent[i]].turn
    BY Zenon DEF RecentInv
  <1> QED BY <1>1, Zenon DEF RecentInv, Kept

(* One request moves on and is not recorded.                               *)
LEMMA RequestStep ==
  ASSUME Types, RequestInv, RecentInv, NEW c \in Reqs, NEW y \in Request,
         req' = [req EXCEPT ![c] = y], RequestOK(y, gen), req[c].pc # "done",
         y.answer # "recorded", UNCHANGED recent,
         \A g \in Gens : ~gen[g].ctx => ~gen'[g].ctx
  PROVE  RequestInv' /\ RecentInv' /\ req' \in [Reqs -> Request]
  <1>1. /\ req' \in [Reqs -> Request] /\ req'[c] = y
        /\ \A r \in Reqs \ {c} : req'[r] = req[r]
    BY Zenon DEF Types
  <1>2. \A r \in Reqs : RequestOK(req'[r], gen)
    BY <1>1, Zenon DEF RequestInv
  <1>3. \A r \in Reqs : RequestOK(req'[r], gen')
    BY <1>2, RequestFrame, Zenon
  <1>4. RequestInv'
    BY <1>3, RequestsPrimed, Zenon
  <1>5. req[c].answer # "recorded"
    BY Zenon DEF RequestInv, RequestOK
  <1>6. Ended' = Ended /\ \A r \in Ended : req'[r] = req[r]
    BY <1>1, <1>5, Zenon DEF Ended
  <1>7. RecentInv'
    BY <1>6, RecentStays, Zenon
  <1> QED BY <1>1, <1>4, <1>7, Zenon

(* ... and nothing but the request changes.                                *)
LEMMA RequestOnly ==
  ASSUME IInv, NEW c \in Reqs, NEW y \in Request, req' = [req EXCEPT ![c] = y],
         RequestOK(y, gen), req[c].pc # "done", y.answer # "recorded",
         y.pc \notin {"full", "body"},
         UNCHANGED <<expired, failed, initMu, sessions, ready, gen, recent>>
  PROVE  IInv'
  <1>1. Types /\ SessionInv /\ GenInv /\ RequestInv /\ RecentInv
    BY Zenon DEF IInv
  <1>2. \A g \in Gens : ~gen[g].ctx => ~gen'[g].ctx
    BY Zenon
  <1>3. RequestInv' /\ RecentInv' /\ req' \in [Reqs -> Request]
    BY <1>1, <1>2, RequestStep, Zenon
  <1>4. Types'
    BY <1>1, <1>3, Zenon DEF Types
  <1>5. SessionInv'
    <2>1. req'[c] = y /\ \A r \in Reqs \ {c} : req'[r] = req[r]
      BY <1>1, Zenon DEF Types
    <2> QED BY <1>1, <2>1, Zenon DEF SessionInv
  <1>6. GenInv'
    BY <1>1, Zenon DEF GenInv, GenOK
  <1> QED BY <1>3, <1>4, <1>5, <1>6, Zenon DEF IInv

-----------------------------------------------------------------------------
(* The end of a request that is not a call.                                *)
Over(a) == [Fresh EXCEPT !.pc = "done", !.answer = a]

LEMMA OverOK ==
  ASSUME NEW G, NEW a \in {"answered"}
  PROVE  /\ Over(a) \in Request /\ RequestOK(Over(a), G)
         /\ Over(a).pc = "done" /\ Over(a).answer = a
  <1>1. 0 \in Nat
    OBVIOUS
  <1> QED BY <1>1, Zenon DEF Over, Fresh, Request, Labels, Answers, RequestOK, Within

(* The end of a call, recorded as the n-th.                                *)
Logged(n) == [Fresh EXCEPT !.pc = "done", !.answer = "recorded", !.turn = n]

LEMMA LoggedOK ==
  ASSUME NEW G, NEW n \in Nat
  PROVE  /\ Logged(n) \in Request /\ RequestOK(Logged(n), G)
         /\ Logged(n).pc = "done" /\ Logged(n).answer = "recorded"
         /\ Logged(n).turn = n
  BY Zenon DEF Logged, Fresh, Request, Labels, Answers, RequestOK, Within

(* A request that passed the middleware.                                   *)
Entered(x, k, l) == [x EXCEPT !.kind = k, !.pc = l]

LEMMA EnteredType ==
  ASSUME NEW x \in Request, NEW k \in Kinds, NEW l \in Labels
  PROVE  /\ Entered(x, k, l) \in Request /\ Entered(x, k, l).pc = l
         /\ Entered(x, k, l).answer = x.answer /\ Entered(x, k, l).ran = x.ran
         /\ Entered(x, k, l).left = x.left /\ Entered(x, k, l).callErr = x.callErr
         /\ Entered(x, k, l).gen = x.gen /\ Entered(x, k, l).gone = x.gone
  BY Zenon DEF Entered, Request, Kinds

LEMMA ArriveStep ==
  ASSUME IInv, NEW r \in Reqs, NEW kind \in {"init", "call", "stream"},
         NEW q \in Queries, NEW tokens \in TokenSets, Arrive(r, kind, q, tokens)
  PROVE  IInv'
  <1>1. /\ req[r].pc = "new"
        /\ UNCHANGED <<expired, failed, initMu, sessions, ready, gen, recent>>
    BY Zenon DEF Arrive, hubvars, inbound
  <1>2. req \in [Reqs -> Request] /\ RequestOK(req[r], gen)
    BY Zenon DEF IInv, Types, RequestInv
  <1>3. CASE wrapSecurityMiddleware(q, tokens) /\ ~q.stateless
    <2> DEFINE to == CASE kind = "init" -> "init" [] kind = "call" -> "route"
                       [] OTHER -> "open"
               y == Entered(req[r], kind, to)
    <2>1. req' = [req EXCEPT ![r].kind = kind, ![r].pc = to]
      BY <1>3, Zenon DEF Arrive
    <2>2. req' = [req EXCEPT ![r] = y]
      BY <1>2, <2>1, Zenon DEF Entered
    <2>3. to \in {"init", "route", "open"}
      BY Zenon
    <2> HIDE DEF to
    <2>4. /\ y \in Request /\ y.pc = to /\ y.answer = req[r].answer /\ y.ran = req[r].ran
          /\ y.left = req[r].left /\ y.callErr = req[r].callErr
          /\ y.gone = req[r].gone
      <3>1. req[r] \in Request /\ to \in Labels
        BY <1>2, <2>3, Zenon DEF Labels
      <3>2. kind \in Kinds
        BY Zenon DEF Kinds
      <3> HIDE DEF to
      <3> QED BY <3>1, <3>2, EnteredType
    <2> HIDE DEF y
    <2>5. RequestOK(y, gen) /\ y.answer # "recorded"
      BY <1>1, <1>2, <2>3, <2>4, Zenon DEF RequestOK, Within
    <2>6. req[r].pc # "done" /\ y.pc \notin {"full", "body"}
      BY <1>1, <2>3, <2>4, Zenon
    <2> QED BY <1>1, <2>2, <2>4, <2>5, <2>6, RequestOnly, Zenon
  <1>4. CASE ~(wrapSecurityMiddleware(q, tokens) /\ ~q.stateless)
    <2>1. req' = [req EXCEPT ![r] = Over("answered")]
      BY <1>4, Zenon DEF Arrive, Done, Over
    <2> QED BY <1>1, <2>1, OverOK, RequestOnly, Zenon
  <1> QED BY <1>3, <1>4, Zenon

LEMMA CloseStreamStep ==
  ASSUME IInv, NEW r \in Reqs, CloseStream(r)
  PROVE  IInv'
  <1>1. /\ req[r].pc = "open" /\ req' = [req EXCEPT ![r] = Over("answered")]
        /\ UNCHANGED <<expired, failed, initMu, sessions, ready, gen, recent>>
    BY Zenon DEF CloseStream, Done, Over, hubvars, inbound
  <1> QED BY <1>1, OverOK, RequestOnly, Zenon

(* handleMCP: the count is taken, and used, under initMu.                  *)
LEMMA CountStep ==
  ASSUME IInv, NEW r \in Reqs, countSessions(r)
  PROVE  IInv'
  <1> DEFINE to == IF sessions >= MaxSessions THEN "full" ELSE "body"
             y == [req[r] EXCEPT !.pc = to]
  <1>1. /\ req[r].pc = "init" /\ initMu = 0 /\ initMu' = r
        /\ req' = [req EXCEPT ![r].pc = to]
        /\ UNCHANGED <<expired, failed, sessions, ready, gen, recent>>
    BY Zenon DEF countSessions, LockInit, To, hubvars
  <1>2. Types /\ SessionInv /\ GenInv /\ RequestInv /\ RecentInv
    BY Zenon DEF IInv
  <1>3. /\ req \in [Reqs -> Request] /\ sessions \in Nat /\ MaxSessions \in Nat
        /\ RequestOK(req[r], gen)
    BY <1>2, ServeAssumption, Zenon DEF Types, RequestInv
  <1>4. req' = [req EXCEPT ![r] = y]
    BY <1>1, <1>3, Zenon
  <1>5. to \in {"full", "body"} /\ (to = "body" => sessions < MaxSessions)
    BY <1>3
  <1> HIDE DEF to
  <1>6. /\ y \in Request /\ y.pc = to /\ y.answer = req[r].answer /\ y.ran = req[r].ran
        /\ y.left = req[r].left /\ y.callErr = req[r].callErr
        /\ y.gone = req[r].gone
    BY <1>3, <1>5 DEF Request, Labels
  <1> HIDE DEF y
  <1>7. RequestOK(y, gen) /\ y.answer # "recorded"
    BY <1>1, <1>3, <1>5, <1>6, Zenon DEF RequestOK, Within
  <1>8. RequestInv' /\ RecentInv' /\ req' \in [Reqs -> Request]
    <2>1. \A g \in Gens : ~gen[g].ctx => ~gen'[g].ctx
      BY <1>1, Zenon
    <2>2. req[r].pc # "done" /\ UNCHANGED recent
      BY <1>1, Zenon
    <2> QED BY <1>2, <1>4, <1>6, <1>7, <2>1, <2>2, RequestStep, Zenon
  <1>9. SessionInv'
    <2>1. \A p \in Reqs : p # 0
      BY ServeAssumption DEF Reqs
    <2>2. \A p \in Reqs : req[p].pc \notin {"full", "body"}
      BY <1>1, <1>2, <2>1, Zenon DEF SessionInv
    <2>3. req'[r] = y /\ \A p \in Reqs \ {r} : req'[p] = req[p]
      BY <1>3, <1>4, Zenon
    <2> QED BY <1>1, <1>2, <1>5, <1>6, <2>2, <2>3, Zenon DEF SessionInv
  <1>10. Types'
    <2>1. r \in Nat
      BY ServeAssumption DEF Reqs
    <2> QED BY <1>1, <1>2, <1>8, <2>1, Zenon DEF Types
  <1>11. GenInv'
    BY <1>1, <1>2, Zenon DEF GenInv, GenOK
  <1> QED BY <1>8, <1>9, <1>10, <1>11, Zenon DEF IInv

LEMMA ServeInitStep ==
  ASSUME IInv, NEW r \in Reqs, ServeInit(r)
  PROVE  IInv'
  <1>1. /\ req[r].pc \in {"full", "body"} /\ initMu' = IF initMu = r THEN 0 ELSE initMu
        /\ req' = [req EXCEPT ![r] = Over("answered")]
        /\ UNCHANGED <<expired, failed, ready, gen, recent>>
    BY Zenon DEF ServeInit, Done, Over, hubvars
  <1>2. Types /\ SessionInv /\ GenInv /\ RequestInv /\ RecentInv
    BY Zenon DEF IInv
  <1>3. req \in [Reqs -> Request] /\ sessions \in Nat /\ MaxSessions \in Nat /\ initMu = r
    BY <1>1, <1>2, ServeAssumption, Zenon DEF Types, SessionInv
  <1>4. sessions' = sessions \/ (req[r].pc = "body" /\ sessions' = sessions + 1)
    BY Zenon DEF ServeInit
  <1>5. RequestInv' /\ RecentInv' /\ req' \in [Reqs -> Request]
    <2>1. \A g \in Gens : ~gen[g].ctx => ~gen'[g].ctx
      BY <1>1, Zenon
    <2>2. req[r].pc # "done" /\ UNCHANGED recent /\ req' = [req EXCEPT ![r] = Over("answered")]
      BY <1>1, Zenon
    <2>3. /\ Over("answered") \in Request /\ RequestOK(Over("answered"), gen)
          /\ Over("answered").answer # "recorded"
      BY OverOK, Zenon
    <2> QED BY <1>2, <2>1, <2>2, <2>3, RequestStep, Zenon
  <1>6. SessionInv'
    <2>1. \A p \in Reqs \ {r} : req[p].pc \notin {"full", "body"}
      BY <1>2, <1>3, Zenon DEF SessionInv
    <2>2. /\ req'[r].pc = "done" /\ \A p \in Reqs \ {r} : req'[p] = req[p]
      BY <1>1, <1>3, OverOK, Zenon
    <2>3. sessions' <= MaxSessions
      BY <1>2, <1>3, <1>4 DEF SessionInv
    <2> QED BY <2>1, <2>2, <2>3, Zenon DEF SessionInv
  <1>7. Types'
    BY <1>1, <1>2, <1>3, <1>4, <1>5 DEF Types
  <1>8. GenInv'
    BY <1>1, <1>2, Zenon DEF GenInv, GenOK
  <1> QED BY <1>5, <1>6, <1>7, <1>8, Zenon DEF IInv

-----------------------------------------------------------------------------
(* A call goes on to another label, or to its record with an answer.       *)
Going(x, l) == [x EXCEPT !.pc = l]

Answered(x, a) == [x EXCEPT !.pc = "record", !.answer = a]

LEMMA GoingType ==
  ASSUME NEW x \in Request, NEW l \in Labels
  PROVE  /\ Going(x, l) \in Request /\ Going(x, l).pc = l
         /\ Going(x, l).answer = x.answer /\ Going(x, l).ran = x.ran
         /\ Going(x, l).left = x.left /\ Going(x, l).callErr = x.callErr
         /\ Going(x, l).gen = x.gen /\ Going(x, l).reply = x.reply
         /\ Going(x, l).gone = x.gone
  BY Zenon DEF Going, Request

LEMMA AnsweredType ==
  ASSUME NEW x \in Request, NEW a \in Answers
  PROVE  /\ Answered(x, a) \in Request /\ Answered(x, a).pc = "record"
         /\ Answered(x, a).answer = a /\ Answered(x, a).ran = x.ran
         /\ Answered(x, a).left = x.left /\ Answered(x, a).callErr = x.callErr
         /\ Answered(x, a).gen = x.gen /\ Answered(x, a).gone = x.gone
  BY Zenon DEF Answered, Request, Labels

(* A call that is turned away has not been sent.                           *)
LEMMA TurnedAway ==
  ASSUME NEW G, NEW x \in Request, x.pc \in {"route", "lease", "acquire"},
         RequestOK(x, G), NEW a \in {"unknown", "unavailable", "busy"}
  PROVE  /\ Answered(x, a) \in Request /\ RequestOK(Answered(x, a), G)
         /\ Answered(x, a).answer # "recorded" /\ Answered(x, a).pc = "record"
  <1> DEFINE y == Answered(x, a)
  <1>1. a \in Answers
    BY Zenon DEF Answers
  <1>2. /\ y \in Request /\ y.pc = "record" /\ y.answer = a /\ y.ran = x.ran
        /\ y.left = x.left /\ y.callErr = x.callErr /\ y.gone = x.gone
    BY <1>1, AnsweredType, Zenon
  <1>3. ~x.ran /\ ~x.gone /\ x.callErr = "none"
    BY Zenon DEF RequestOK, Within
  <1> HIDE DEF y
  <1>4. Honest(y, G) /\ RequestOK(y, G)
    BY <1>2, <1>3, Zenon DEF Honest, RequestOK, Within
  <1> QED BY <1>2, <1>4, Zenon DEF y

LEMMA RouteStep ==
  ASSUME IInv, NEW c \in Reqs, LookupRoute(c) \/ AcquireLease(c)
  PROVE  IInv'
  <1>1. /\ req[c].pc \in {"route", "lease"}
        /\ UNCHANGED <<expired, failed, initMu, sessions, ready, gen, recent>>
    BY Zenon DEF LookupRoute, AcquireLease, hubvars, inbound
  <1>2. /\ req \in [Reqs -> Request] /\ RequestOK(req[c], gen) /\ req[c] \in Request
        /\ ready \in Gens \cup {0}
    BY Zenon DEF IInv, Types, RequestInv
  <1>3. CASE \E a \in {"unknown", "unavailable"} : Reject(c, a)
    <2>1. PICK a \in {"unknown", "unavailable"} : Reject(c, a)
      BY <1>3, Zenon
    <2>2. req' = [req EXCEPT ![c] = Answered(req[c], a)]
      BY <1>2, <2>1, Zenon DEF Reject, Answered
    <2>3. /\ Answered(req[c], a) \in Request /\ RequestOK(Answered(req[c], a), gen)
          /\ Answered(req[c], a).answer # "recorded" /\ Answered(req[c], a).pc = "record"
      BY <1>1, <1>2, TurnedAway
    <2> QED BY <1>1, <2>2, <2>3, RequestOnly, Zenon
  <1>4. CASE req[c].pc = "route" /\ To(c, "lease")
    <2> DEFINE y == Going(req[c], "lease")
    <2>1. req' = [req EXCEPT ![c] = y]
      BY <1>2, <1>4, Zenon DEF To, Going
    <2>2. /\ y \in Request /\ y.pc = "lease" /\ y.answer = req[c].answer
          /\ y.ran = req[c].ran /\ y.gone = req[c].gone /\ y.callErr = req[c].callErr
      BY <1>2, GoingType DEF Labels
    <2> HIDE DEF y
    <2>3. RequestOK(y, gen) /\ y.answer # "recorded"
      BY <1>1, <1>2, <2>2, Zenon DEF RequestOK, Within
    <2> QED BY <1>1, <2>1, <2>2, <2>3, RequestOnly, Zenon
  <1>5. CASE ready # 0 /\ req' = [req EXCEPT ![c].pc = "acquire", ![c].gen = ready]
    <2> DEFINE y == [req[c] EXCEPT !.pc = "acquire", !.gen = ready]
    <2>1. req' = [req EXCEPT ![c] = y]
      BY <1>2, <1>5, Zenon
    <2>2. /\ y \in Request /\ y.pc = "acquire" /\ y.answer = req[c].answer
          /\ y.ran = req[c].ran /\ y.gone = req[c].gone /\ y.callErr = req[c].callErr
          /\ y.gen = ready
      BY <1>2, Zenon DEF Request, Labels
    <2> HIDE DEF y
    <2>3. RequestOK(y, gen) /\ y.answer # "recorded"
      BY <1>1, <1>2, <1>5, <2>2, Zenon DEF RequestOK, Within
    <2> QED BY <1>1, <2>1, <2>2, <2>3, RequestOnly, Zenon
  <1> QED BY <1>3, <1>4, <1>5, Zenon DEF LookupRoute, AcquireLease

(* The contexts of a call, before it is sent and in progress.              *)
LEMMA ContextStep ==
  ASSUME IInv, NEW c \in Reqs, ClientCancels(c) \/ CallTimesOut(c) \/ generationDone(c)
  PROVE  IInv'
  <1>1. /\ req[c].pc \in Within \cup {"route", "lease", "acquire"}
        /\ UNCHANGED <<expired, failed, initMu, sessions, ready, gen, recent>>
    BY Zenon DEF ClientCancels, CallTimesOut, generationDone, Routed, InCall, Within,
           hubvars, inbound
  <1>2. /\ req \in [Reqs -> Request] /\ RequestOK(req[c], gen) /\ req[c] \in Request
    BY Zenon DEF IInv, Types, RequestInv
  <1>3. PICK e \in {"none", "deadline", "canceled"}, l \in BOOLEAN :
          /\ req' = [req EXCEPT ![c] = [req[c] EXCEPT !.left = l, !.callErr = e]]
          /\ req[c].left => l
          /\ req[c].pc \in Within \/ e = req[c].callErr
          /\ e = "canceled" /\ ~l =>
                 ~gen[req[c].gen].ctx \/ (req[c].callErr = "canceled" /\ ~req[c].left)
    <2>1. req[c].callErr \in {"none", "deadline", "canceled"} /\ req[c].left \in BOOLEAN
      BY <1>2, Zenon DEF Request
    <2>2. CASE ClientCancels(c)
      <3> DEFINE e == IF req[c].callErr = "none" /\ InCall(c) THEN "canceled"
                                                             ELSE req[c].callErr
      <3>1. req' = [req EXCEPT ![c] = [req[c] EXCEPT !.left = TRUE, !.callErr = e]]
        BY <1>2, <2>2, Zenon DEF ClientCancels
      <3>2. e \in {"none", "deadline", "canceled"}
        BY <2>1, Zenon
      <3>3. req[c].pc \in Within \/ e = req[c].callErr
        BY Zenon DEF InCall, Within
      <3> HIDE DEF e
      <3> QED BY <3>1, <3>2, <3>3, Zenon
    <2>3. CASE CallTimesOut(c)
      <3>1. req' = [req EXCEPT ![c] = [req[c] EXCEPT !.left = req[c].left,
                                                     !.callErr = "deadline"]]
        BY <1>2, <2>1, <2>3, Zenon DEF CallTimesOut, EndContext, Request
      <3>2. req[c].pc \in Within
        BY <2>3, Zenon DEF CallTimesOut, InCall, Within
      <3> QED BY <2>1, <3>1, <3>2, Zenon
    <2>4. CASE generationDone(c)
      <3>1. req' = [req EXCEPT ![c] = [req[c] EXCEPT !.left = req[c].left,
                                                     !.callErr = "canceled"]]
        BY <1>2, <2>1, <2>4, Zenon DEF generationDone, EndContext, Request
      <3>2. ~gen[req[c].gen].ctx /\ req[c].pc \in Within
        BY <2>4, Zenon DEF generationDone, InCall, Within
      <3> QED BY <2>1, <3>1, <3>2, Zenon
    <2> QED BY <2>2, <2>3, <2>4, Zenon
  <1> DEFINE y == [req[c] EXCEPT !.left = l, !.callErr = e]
  <1>4. /\ y \in Request /\ y.pc = req[c].pc /\ y.answer = req[c].answer
        /\ y.ran = req[c].ran /\ y.left = l /\ y.callErr = e /\ y.gen = req[c].gen
        /\ y.reply = req[c].reply /\ y.gone = req[c].gone
    BY <1>2, <1>3, Zenon DEF Request
  <1>5. req' = [req EXCEPT ![c] = y]
    BY <1>3, Zenon
  <1> HIDE DEF y
  <1>6. RequestOK(y, gen) /\ y.answer # "recorded"
    <2>1. y.pc \in Within /\ e = "canceled" => l \/ ~gen[y.gen].ctx
      BY <1>2, <1>3, <1>4, Zenon DEF RequestOK
    <2>2. y.pc \notin {"record", "done", "full", "body"}
      BY <1>1, <1>4, Zenon DEF Within
    <2>3. y.pc \notin Within => y.callErr = "none"
      BY <1>1, <1>2, <1>3, <1>4, <2>2, Zenon DEF RequestOK
    <2> QED BY <1>2, <1>3, <1>4, <2>1, <2>2, <2>3, Zenon DEF RequestOK
  <1>7. req[c].pc # "done" /\ y.pc \notin {"full", "body"}
    BY <1>1, <1>4, Zenon DEF Within
  <1> QED BY <1>1, <1>4, <1>5, <1>6, <1>7, RequestOnly, Zenon

Replied(x, a, b) == [x EXCEPT !.pc = "replied", !.reply = a, !.ran = b, !.gone = x.left]

LEMMA RepliedType ==
  ASSUME NEW x \in Request, NEW a \in Replies, NEW b \in BOOLEAN
  PROVE  /\ Replied(x, a, b) \in Request /\ Replied(x, a, b).pc = "replied"
         /\ Replied(x, a, b).answer = x.answer /\ Replied(x, a, b).ran = b
         /\ Replied(x, a, b).left = x.left /\ Replied(x, a, b).callErr = x.callErr
         /\ Replied(x, a, b).gen = x.gen /\ Replied(x, a, b).reply = a
         /\ Replied(x, a, b).gone = x.left
  <1>1. "replied" \in Labels /\ x.left \in BOOLEAN
    BY Zenon DEF Labels, Request
  <1>2. Replied(x, a, b) \in Request
    BY <1>1, Zenon DEF Replied, Request, Replies
  <1> QED BY <1>2, Zenon DEF Replied, Request

LEMMA CallToolStep ==
  ASSUME IInv, NEW c \in Reqs, NEW reply \in {"error", "ok", "toolError"},
         CallTool(c, reply)
  PROVE  IInv'
  <1> DEFINE b == reply # "error"
             y == Replied(req[c], reply, b)
  <1>1. /\ req[c].pc = "sent"
        /\ req' = [req EXCEPT ![c].pc = "replied", ![c].reply = reply, ![c].ran = b,
                              ![c].gone = req[c].left]
        /\ UNCHANGED <<expired, failed, initMu, sessions, ready, gen, recent>>
    BY Zenon DEF CallTool, hubvars, inbound
  <1>2. /\ req \in [Reqs -> Request] /\ RequestOK(req[c], gen) /\ req[c] \in Request
    BY Zenon DEF IInv, Types, RequestInv
  <1>3. b \in BOOLEAN /\ reply \in Replies
    BY Zenon DEF Replies
  <1>4. req' = [req EXCEPT ![c] = y]
    BY <1>1, <1>2, Zenon DEF Replied
  <1> HIDE DEF b
  <1>5. /\ y \in Request /\ y.pc = "replied" /\ y.answer = req[c].answer
        /\ y.ran = b /\ y.left = req[c].left /\ y.callErr = req[c].callErr
        /\ y.gen = req[c].gen /\ y.reply = reply /\ y.gone = req[c].left
    BY <1>2, <1>3, RepliedType
  <1> HIDE DEF y
  <1>6. RequestOK(y, gen) /\ y.answer # "recorded"
    BY <1>1, <1>2, <1>5, Zenon DEF RequestOK, Within, b
  <1> QED BY <1>1, <1>4, <1>5, <1>6, RequestOnly, Zenon

-----------------------------------------------------------------------------
(* One generation x becomes y.                                             *)
LEMMA GenStep ==
  ASSUME Types, GenInv, NEW g \in Gens, NEW y \in Gen, gen' = [gen EXCEPT ![g] = y],
         GenOK(y, expired \/ failed), ~gen[g].ctx => ~y.ctx, UNCHANGED <<expired, failed>>
  PROVE  /\ GenInv' /\ gen' \in [Gens -> Gen]
         /\ \A h \in Gens : ~gen[h].ctx => ~gen'[h].ctx
  <1>1. /\ gen' \in [Gens -> Gen] /\ gen'[g] = y
        /\ \A h \in Gens \ {g} : gen'[h] = gen[h]
    BY Zenon DEF Types
  <1>2. \A h \in Gens : GenOK(gen'[h], expired \/ failed)
    BY <1>1, Zenon DEF GenInv
  <1>3. GenInv'
    BY <1>2, Zenon DEF GenInv, GenOK
  <1>4. \A h \in Gens : ~gen[h].ctx => ~gen'[h].ctx
    BY <1>1, Zenon
  <1> QED BY <1>1, <1>3, <1>4, Zenon

(* A lease more or less: calls are admitted by a generation whose context  *)
(* is alive, or when a limit has passed already.                           *)
LEMMA LeaseOK ==
  ASSUME NEW x \in Gen, NEW e \in BOOLEAN, GenOK(x, e), NEW d \in {1, -1},
         d = 1 => x.admission
  PROVE  LET y == [x EXCEPT !.active = @ + d]
         IN  y \in Gen /\ GenOK(y, e) /\ (~x.ctx => ~y.ctx)
  <1> DEFINE y == [x EXCEPT !.active = @ + d]
  <1>1. /\ y \in Gen /\ y.active = x.active + d /\ y.state = x.state /\ y.ctx = x.ctx
        /\ y.late = x.late /\ y.admission = x.admission
    BY DEF Gen
  <1> HIDE DEF y
  <1>2. x.active \in Int
    BY Zenon DEF Gen
  <1>3. ~x.ctx /\ x.active + d > 0 => x.late \/ e
    <2>1. CASE d = 1
      BY <2>1, Zenon DEF GenOK
    <2>2. CASE d = -1
      BY <1>2, <2>2 DEF GenOK
    <2> QED BY <2>1, <2>2, Zenon
  <1>4. GenOK(y, e)
    BY <1>1, <1>3, Zenon DEF GenOK
  <1> QED BY <1>1, <1>4, Zenon DEF y

(* A call and its generation change together.                              *)
LEMMA LeaseStep ==
  ASSUME IInv, NEW c \in Reqs, NEW y \in Request, req' = [req EXCEPT ![c] = y],
         RequestOK(y, gen), req[c].pc # "done", y.answer # "recorded",
         y.pc \notin {"full", "body"}, NEW g \in Gens, NEW d \in {1, -1},
         d = 1 => gen[g].admission, gen' = [gen EXCEPT ![g].active = @ + d],
         UNCHANGED <<expired, failed, initMu, sessions, ready, recent>>
  PROVE  IInv'
  <1>1. Types /\ SessionInv /\ GenInv /\ RequestInv /\ RecentInv
    BY Zenon DEF IInv
  <1> DEFINE z == [gen[g] EXCEPT !.active = @ + d]
  <1>2. gen[g] \in Gen /\ (expired \/ failed) \in BOOLEAN /\ GenOK(gen[g], expired \/ failed)
    BY <1>1, Zenon DEF Types, GenInv
  <1>3. z \in Gen /\ GenOK(z, expired \/ failed) /\ (~gen[g].ctx => ~z.ctx)
    BY <1>2, LeaseOK, Zenon
  <1>4. gen' = [gen EXCEPT ![g] = z]
    BY <1>1, Zenon DEF Types
  <1> HIDE DEF z
  <1>5. /\ GenInv' /\ gen' \in [Gens -> Gen]
        /\ \A h \in Gens : ~gen[h].ctx => ~gen'[h].ctx
    BY <1>1, <1>3, <1>4, GenStep, Zenon
  <1>6. RequestInv' /\ RecentInv' /\ req' \in [Reqs -> Request]
    BY <1>1, <1>5, RequestStep, Zenon
  <1>7. Types'
    BY <1>1, <1>5, <1>6, Zenon DEF Types
  <1>8. SessionInv'
    <2>1. req'[c] = y /\ \A r \in Reqs \ {c} : req'[r] = req[r]
      BY <1>1, Zenon DEF Types
    <2> QED BY <1>1, <2>1, Zenon DEF SessionInv
  <1> QED BY <1>5, <1>6, <1>7, <1>8, Zenon DEF IInv

(* A call is sent, with what has become of its context.                    *)
Sent(x, e) == [x EXCEPT !.pc = "sent", !.callErr = e]

LEMMA SentType ==
  ASSUME NEW x \in Request, NEW e \in {"none", "canceled"}
  PROVE  /\ Sent(x, e) \in Request /\ Sent(x, e).pc = "sent"
         /\ Sent(x, e).answer = x.answer /\ Sent(x, e).ran = x.ran
         /\ Sent(x, e).left = x.left /\ Sent(x, e).callErr = e
         /\ Sent(x, e).gen = x.gen /\ Sent(x, e).gone = x.gone
  <1>1. "sent" \in Labels
    BY Zenon DEF Labels
  <1> QED BY <1>1, Zenon DEF Sent, Request

LEMMA AcquireStep ==
  ASSUME IInv, NEW c \in Reqs, acquire(c)
  PROVE  IInv'
  <1>1. /\ req[c].pc = "acquire"
        /\ UNCHANGED <<expired, failed, initMu, sessions, ready, recent>>
    BY Zenon DEF acquire, hubvars, inbound
  <1>2. /\ req \in [Reqs -> Request] /\ RequestOK(req[c], gen) /\ req[c] \in Request
        /\ req[c].gen \in Gens
    BY <1>1, Zenon DEF IInv, Types, RequestInv, RequestOK, Within
  <1>3. CASE (\E a \in {"unavailable", "busy"} : Reject(c, a)) /\ UNCHANGED gen
    <2>1. PICK a \in {"unavailable", "busy"} : Reject(c, a)
      BY <1>3, Zenon
    <2>2. req' = [req EXCEPT ![c] = Answered(req[c], a)]
      BY <1>2, <2>1, Zenon DEF Reject, Answered
    <2>3. /\ Answered(req[c], a) \in Request /\ RequestOK(Answered(req[c], a), gen)
          /\ Answered(req[c], a).answer # "recorded" /\ Answered(req[c], a).pc = "record"
      BY <1>1, <1>2, TurnedAway
    <2> QED BY <1>1, <1>3, <2>2, <2>3, RequestOnly, Zenon
  <1> DEFINE e == IF req[c].left THEN "canceled" ELSE "none"
  <1>4. CASE /\ gen[req[c].gen].admission
             /\ gen' = [gen EXCEPT ![req[c].gen].active = @ + 1]
             /\ req' = [req EXCEPT ![c].pc = "sent", ![c].callErr = e]
    <2> DEFINE y == Sent(req[c], e)
    <2>1. req' = [req EXCEPT ![c] = y]
      BY <1>2, <1>4, Zenon DEF Sent
    <2>2. e \in {"none", "canceled"} /\ (e = "canceled" => req[c].left)
      BY Zenon
    <2> HIDE DEF e
    <2>3. /\ y \in Request /\ y.pc = "sent" /\ y.answer = req[c].answer
          /\ y.ran = req[c].ran /\ y.left = req[c].left /\ y.callErr = e
          /\ y.gen = req[c].gen /\ y.gone = req[c].gone
      BY <1>2, <2>2, SentType, Zenon
    <2> HIDE DEF y
    <2>4. RequestOK(y, gen) /\ y.answer # "recorded"
      BY <1>1, <1>2, <2>2, <2>3, Zenon DEF RequestOK, Within
    <2> QED BY <1>1, <1>2, <1>4, <2>1, <2>3, <2>4, LeaseStep, Zenon
  <1> QED BY <1>3, <1>4, Zenon DEF acquire

(* RouteTool's reason, in the order it looks for it.                       *)
LEMMA OutcomeIs ==
  ASSUME NEW c \in Reqs, req[c] \in Request
  PROVE  /\ Outcome(c) \in {"timeout", "stopped", "downstream_error", "tool_error",
                             "success"}
         /\ Outcome(c) = "timeout" => req[c].callErr = "deadline"
         /\ Outcome(c) = "stopped" => req[c].callErr = "canceled"
         /\ Outcome(c) = "downstream_error" =>
                req[c].callErr = "none" /\ req[c].reply = "error"
         /\ Outcome(c) \in {"success", "tool_error"} =>
                req[c].callErr = "none" /\ req[c].reply # "error"
  <1>1. req[c].callErr \in {"none", "deadline", "canceled"}
    BY Zenon DEF Request
  <1>2. CASE req[c].callErr = "deadline"
    <2>1. Outcome(c) = "timeout"
      BY <1>2, Zenon DEF Outcome
    <2> QED BY <1>2, <2>1, Zenon
  <1>3. CASE req[c].callErr = "canceled"
    <2>1. Outcome(c) = "stopped"
      BY <1>3, Zenon DEF Outcome
    <2> QED BY <1>3, <2>1, Zenon
  <1>4. CASE req[c].callErr = "none"
    <2>1. Outcome(c) = Answer(c)
      BY <1>4, Zenon DEF Outcome
    <2>2. CASE req[c].reply = "error"
      BY <1>4, <2>1, <2>2, Zenon DEF Answer
    <2>3. CASE req[c].reply = "toolError"
      BY <1>4, <2>1, <2>3, Zenon DEF Answer
    <2>4. CASE req[c].reply \notin {"error", "toolError"}
      BY <1>4, <2>1, <2>4, Zenon DEF Answer
    <2> QED BY <2>2, <2>3, <2>4, Zenon
  <1> QED BY <1>1, <1>2, <1>3, <1>4, Zenon

(* A call that returns with answer a, which is honest, gives its lease     *)
(* back.                                                                   *)
LEMMA ReturnStep ==
  ASSUME IInv, NEW c \in Reqs, NEW a \in Answers \ {"recorded"}, Return(c, a),
         req[c].pc \in Within, Honest(Answered(req[c], a), gen),
         UNCHANGED <<expired, failed, initMu, sessions, ready, recent>>
  PROVE  IInv'
  <1> DEFINE y == Answered(req[c], a)
  <1>1. /\ req \in [Reqs -> Request] /\ RequestOK(req[c], gen) /\ req[c] \in Request
        /\ req[c].gen \in Gens /\ gen \in [Gens -> Gen]
    BY Zenon DEF IInv, Types, RequestInv, RequestOK
  <1>2. /\ gen' = [gen EXCEPT ![req[c].gen].active = @ - 1]
        /\ req' = [req EXCEPT ![c] = y]
    BY <1>1, Zenon DEF Return, Reject, Answered
  <1>3. gen' = [gen EXCEPT ![req[c].gen].active = @ + (-1)]
    <2>1. gen[req[c].gen].active \in Int
      BY <1>1, Zenon DEF Gen
    <2> QED BY <1>1, <1>2, <2>1, Zenon
  <1>4. y \in Request /\ y.pc = "record" /\ y.answer = a /\ y.gen = req[c].gen
    BY <1>1, AnsweredType, Zenon
  <1>5. Honest(y, gen)
    BY Zenon
  <1> HIDE DEF y
  <1>6. RequestOK(y, gen) /\ y.answer # "recorded"
    BY <1>1, <1>4, <1>5, Zenon DEF RequestOK, Within
  <1>7. PICK d \in {1, -1} : d = -1
    BY Zenon
  <1>8. gen' = [gen EXCEPT ![req[c].gen].active = @ + d] /\ (d = 1 => gen[req[c].gen].admission)
    BY <1>3, <1>7
  <1>9. req[c].pc # "done" /\ y.pc \notin {"full", "body"}
    BY <1>4, Zenon DEF Within
  <1> QED BY <1>1, <1>2, <1>4, <1>6, <1>8, <1>9, LeaseStep, Zenon

LEMMA CheckStep ==
  ASSUME IInv, NEW c \in Reqs, checkClient(c)
  PROVE  IInv'
  <1>1. /\ req[c].pc = "replied"
        /\ UNCHANGED <<expired, failed, initMu, sessions, ready, recent>>
    BY Zenon DEF checkClient, hubvars, inbound
  <1>2. /\ req \in [Reqs -> Request] /\ RequestOK(req[c], gen) /\ req[c] \in Request
    BY Zenon DEF IInv, Types, RequestInv
  <1>3. CASE req[c].left
    <2> DEFINE y == Answered(req[c], "cancelled")
    <2>1. y.answer = "cancelled" /\ y.left = req[c].left
      BY <1>2, AnsweredType, Zenon DEF Answers
    <2> HIDE DEF y
    <2>2. Honest(y, gen)
      BY <1>3, <2>1, Zenon DEF Honest
    <2>3. Return(c, "cancelled")
      BY <1>3, Zenon DEF checkClient
    <2>4. "cancelled" \in Answers \ {"recorded"} /\ req[c].pc \in Within
      BY <1>1, Zenon DEF Answers, Within
    <2> QED BY <1>1, <2>2, <2>3, <2>4, ReturnStep, Zenon DEF y
  <1>4. CASE ~req[c].left
    <2> DEFINE y == Going(req[c], "checked")
    <2>1. req' = [req EXCEPT ![c] = y] /\ UNCHANGED gen
      BY <1>2, <1>4, Zenon DEF checkClient, To, Going
    <2>2. /\ y \in Request /\ y.pc = "checked" /\ y.answer = req[c].answer
          /\ y.ran = req[c].ran /\ y.left = req[c].left /\ y.callErr = req[c].callErr
          /\ y.gen = req[c].gen /\ y.reply = req[c].reply /\ y.gone = req[c].gone
      BY <1>2, GoingType, Zenon DEF Labels
    <2> HIDE DEF y
    <2>3. RequestOK(y, gen) /\ y.answer # "recorded"
      BY <1>1, <1>2, <1>4, <2>2, Zenon DEF RequestOK, Within
    <2> QED BY <1>1, <2>1, <2>2, <2>3, RequestOnly, Zenon
  <1> QED BY <1>3, <1>4, Zenon

LEMMA ClassifyStep ==
  ASSUME IInv, NEW c \in Reqs, classify(c)
  PROVE  IInv'
  <1> DEFINE y == Answered(req[c], Outcome(c))
  <1>1. /\ req[c].pc = "checked" /\ Return(c, Outcome(c))
        /\ UNCHANGED <<expired, failed, initMu, sessions, ready, recent>>
    BY Zenon DEF classify, hubvars, inbound
  <1>2. /\ req \in [Reqs -> Request] /\ RequestOK(req[c], gen) /\ req[c] \in Request
    BY Zenon DEF IInv, Types, RequestInv
  <1>3. Outcome(c) \in Answers \ {"recorded"} /\ req[c].pc \in Within
    BY <1>1, <1>2, OutcomeIs, Zenon DEF Answers, Within
  <1>4. /\ y.answer = Outcome(c) /\ y.ran = req[c].ran /\ y.left = req[c].left
        /\ y.callErr = req[c].callErr /\ y.gen = req[c].gen /\ y.gone = req[c].gone
    BY <1>2, <1>3, AnsweredType, Zenon
  <1>5. /\ ~req[c].gone /\ (req[c].ran <=> req[c].reply # "error")
        /\ req[c].callErr = "canceled" => req[c].left \/ ~gen[req[c].gen].ctx
    BY <1>1, <1>2, <1>3, Zenon DEF RequestOK
  <1> HIDE DEF y
  <1>6. Honest(y, gen)
    BY <1>2, <1>4, <1>5, OutcomeIs, Zenon DEF Honest
  <1> QED BY <1>1, <1>3, <1>6, ReturnStep, Zenon DEF y

-----------------------------------------------------------------------------
LEMMA EndedFinite == IsFiniteSet(Ended) /\ Cardinality(Ended) \in Nat
  <1>1. IsFiniteSet(Reqs)
    BY FS_Interval, ServeAssumption DEF Reqs
  <1>2. Ended \in SUBSET Reqs
    BY Zenon DEF Ended
  <1>3. IsFiniteSet(Ended)
    BY <1>1, <1>2, FS_Subset, Zenon
  <1> QED BY <1>3, FS_CardinalityType, Zenon

(* RecordCall: the ring keeps the latest calls, in the order they ended.   *)
LEMMA RecordStep ==
  ASSUME IInv, NEW c \in Reqs, RecordCall(c)
  PROVE  IInv'
  <1> DEFINE all == Append(recent, c)
             k == Cardinality(Ended)
             y == Logged(k + 1)
  <1>1. /\ req[c].pc = "record" /\ req' = [req EXCEPT ![c] = y]
        /\ recent' = IF Len(all) > MaxRecent THEN Tail(all) ELSE all
        /\ UNCHANGED <<expired, failed, initMu, sessions, ready, gen>>
    BY Zenon DEF RecordCall, Logged, hubvars, inbound
  <1>2. Types /\ SessionInv /\ GenInv /\ RequestInv /\ RecentInv
    BY Zenon DEF IInv
  <1>3. k \in Nat /\ k + 1 \in Nat
    BY EndedFinite
  <1>4. /\ y \in Request /\ RequestOK(y, gen)
        /\ y.pc = "done" /\ y.answer = "recorded" /\ y.turn = k + 1
    BY <1>3, LoggedOK, Zenon
  <1> HIDE DEF k, y
  <1>5. /\ req' \in [Reqs -> Request] /\ req'[c] = y
        /\ \A r \in Reqs \ {c} : req'[r] = req[r]
    BY <1>1, <1>2, <1>4, Zenon DEF Types
  <1>6. Types' /\ SessionInv'
    BY <1>1, <1>2, <1>4, <1>5, Zenon DEF Types, SessionInv
  <1>7. GenInv'
    BY <1>1, <1>2, Zenon DEF GenInv, GenOK
  <1>8. RequestInv'
    <2>1. \A r \in Reqs : RequestOK(req'[r], gen)
      BY <1>2, <1>4, <1>5, Zenon DEF RequestInv
    <2>2. \A r \in Reqs : RequestOK(req'[r], gen')
      BY <1>1, <2>1, Zenon
    <2> QED BY <2>2, RequestsPrimed, Zenon
  <1>9. /\ c \notin Ended /\ Ended' = Ended \cup {c}
        /\ \A r \in Ended : req'[r] = req[r]
    <2>1. req[c].answer # "recorded"
      BY <1>1, <1>2, Zenon DEF RequestInv, RequestOK
    <2> QED BY <1>4, <1>5, <2>1, Zenon DEF Ended
  <1>10. RecentInv'
    <2> DEFINE n == Len(recent)
    <2>1. Cardinality(Ended') = k + 1
      BY <1>9, EndedFinite, FS_AddElement, Zenon DEF k
    <2>2. /\ recent \in Seq(Reqs) /\ n \in Nat /\ n = Kept(k)
          /\ \A i \in 1..n : recent[i] \in Ended /\ req[recent[i]].turn = k - n + i
      BY <1>2 DEF RecentInv, k
    <2>3. /\ all \in Seq(Reqs) /\ Len(all) = n + 1 /\ all[n + 1] = c
          /\ \A i \in 1..n : all[i] = recent[i]
      BY <2>2
    <2> HIDE DEF all, n
    <2>4. ASSUME NEW i \in 1..(n + 1)
          PROVE  all[i] \in Ended' /\ req'[all[i]].turn = k - n + i
      <3>1. CASE i = n + 1
        <4>1. k - n + (n + 1) = k + 1
          BY <1>3, <2>2
        <4> QED BY <1>4, <1>5, <1>9, <2>3, <3>1, <4>1, Zenon
      <3>2. CASE i # n + 1
        <4>1. i \in 1..n
          BY <2>2, <3>2
        <4>2. all[i] = recent[i] /\ recent[i] \in Ended /\ req[recent[i]].turn = k - n + i
          BY <2>2, <2>3, <4>1, Zenon
        <4> QED BY <1>9, <4>2, Zenon
      <3> QED BY <3>1, <3>2, Zenon
    <2>5. MaxRecent \in Nat \ {0}
      BY ServeAssumption, Zenon
    <2>6. CASE n + 1 > MaxRecent
      <3>1. recent' = Tail(all)
        BY <1>1, <2>3, <2>6, Zenon
      <3>2. /\ recent' \in Seq(Reqs) /\ Len(recent') = n
            /\ \A i \in 1..n : recent'[i] = all[i + 1]
        BY <2>2, <2>3, <3>1
      <3>3. n = Kept(k + 1)
        BY <1>3, <2>2, <2>5, <2>6 DEF Kept
      <3>4. ASSUME NEW i \in 1..n
            PROVE  recent'[i] \in Ended' /\ req'[recent'[i]].turn = (k + 1) - n + i
        <4>1. i + 1 \in 1..(n + 1) /\ k - n + (i + 1) = (k + 1) - n + i
          BY <1>3, <2>2
        <4> QED BY <2>4, <3>2, <4>1, Zenon
      <3> QED BY <2>1, <3>2, <3>3, <3>4, Zenon DEF RecentInv, Kept
    <2>7. CASE ~(n + 1 > MaxRecent)
      <3>1. recent' = all
        BY <1>1, <2>3, <2>7, Zenon
      <3>2. n + 1 = Kept(k + 1)
        BY <1>3, <2>2, <2>5, <2>7 DEF Kept
      <3>3. ASSUME NEW i \in 1..(n + 1)
            PROVE  recent'[i] \in Ended' /\ req'[recent'[i]].turn = (k + 1) - (n + 1) + i
        <4>1. k - n + i = (k + 1) - (n + 1) + i
          BY <1>3, <2>2
        <4> QED BY <2>4, <3>1, <4>1, Zenon
      <3> QED BY <2>1, <2>3, <3>1, <3>2, <3>3, Zenon DEF RecentInv, Kept
    <2> QED BY <2>6, <2>7, Zenon
  <1> QED BY <1>6, <1>7, <1>8, <1>10, Zenon DEF IInv

-----------------------------------------------------------------------------
(* Steps that leave the requests alone.                                    *)
LEMMA Elsewhere ==
  ASSUME IInv, UNCHANGED <<req, recent, initMu, sessions>>,
         gen' \in [Gens -> Gen], GenInv', \A g \in Gens : ~gen[g].ctx => ~gen'[g].ctx,
         ready' \in Gens \cup {0}, expired' \in BOOLEAN, failed' \in BOOLEAN
  PROVE  IInv'
  <1>1. Types /\ SessionInv /\ RequestInv /\ RecentInv
    BY Zenon DEF IInv
  <1>2. RequestInv' /\ RecentInv'
    BY <1>1, RequestsStay, Zenon
  <1>3. Types' /\ SessionInv'
    BY <1>1, Zenon DEF Types, SessionInv
  <1> QED BY <1>2, <1>3, Zenon DEF IInv

LEMMA GenerationStep ==
  ASSUME IInv, NEW g \in Gens, Connect(g) \/ Retire(g) \/ Retiring(g)
  PROVE  IInv'
  <1>1. UNCHANGED <<req, recent, initMu, sessions, expired, failed>>
    BY Zenon DEF Connect, Retire, Retiring, drain, drainTimeout, Close, hubvars, inbound
  <1>2. Types /\ GenInv /\ gen \in [Gens -> Gen] /\ gen[g] \in Gen
        /\ GenOK(gen[g], expired \/ failed)
    BY Zenon DEF IInv, Types, GenInv
  <1>3. /\ expired' \in BOOLEAN /\ failed' \in BOOLEAN /\ ready' \in Gens \cup {0}
    BY <1>1, <1>2, Zenon DEF Types, Connect, Retire, Retiring, drain, drainTimeout, Close
  <1>4. CASE UNCHANGED gen
    <2>1. GenInv'
      BY <1>1, <1>2, <1>4, Zenon DEF GenInv, GenOK
    <2> QED BY <1>1, <1>2, <1>3, <1>4, <2>1, Elsewhere, Zenon
  <1>5. CASE \E y \in Gen : /\ gen' = [gen EXCEPT ![g] = y]
                            /\ GenOK(y, expired \/ failed) /\ (~gen[g].ctx => ~y.ctx)
    <2>1. PICK y \in Gen : /\ gen' = [gen EXCEPT ![g] = y]
                           /\ GenOK(y, expired \/ failed) /\ (~gen[g].ctx => ~y.ctx)
      BY <1>5, Zenon
    <2>2. /\ GenInv' /\ gen' \in [Gens -> Gen]
          /\ \A h \in Gens : ~gen[h].ctx => ~gen'[h].ctx
      BY <1>1, <1>2, <2>1, GenStep, Zenon
    <2> QED BY <1>1, <1>3, <2>2, Elsewhere, Zenon
  <1>6. CASE Connect(g)
    <2> DEFINE y == [gen[g] EXCEPT !.state = "current", !.admission = TRUE, !.ctx = ~failed]
    <2>1. gen' = [gen EXCEPT ![g] = y] /\ gen[g].state = "unused"
      BY <1>2, <1>6, Zenon DEF Connect
    <2>2. /\ y \in Gen /\ y.state = "current" /\ y.ctx = ~failed /\ y.active = gen[g].active
      BY <1>2, Zenon DEF Gen
    <2>3. gen[g].ctx
      BY <1>2, <2>1, Zenon DEF GenOK
    <2> HIDE DEF y
    <2>4. GenOK(y, expired \/ failed) /\ (~gen[g].ctx => ~y.ctx)
      BY <2>2, <2>3, Zenon DEF GenOK
    <2> QED BY <1>5, <2>1, <2>2, <2>4, Zenon
  <1>7. CASE Retire(g)
    BY <1>4, <1>7, Zenon DEF Retire
  <1>8. CASE drain(g)
    <2> DEFINE y == [gen[g] EXCEPT !.state = "draining", !.admission = FALSE]
    <2>1. gen' = [gen EXCEPT ![g] = y] /\ gen[g].state = "current"
      BY <1>2, <1>8, Zenon DEF drain
    <2>2. /\ y \in Gen /\ y.state = "draining" /\ y.ctx = gen[g].ctx /\ ~y.admission
          /\ y.active = gen[g].active /\ y.late = gen[g].late
      BY <1>2, Zenon DEF Gen
    <2> HIDE DEF y
    <2>3. GenOK(y, expired \/ failed) /\ (~gen[g].ctx => ~y.ctx)
      BY <1>2, <2>1, <2>2, Zenon DEF GenOK
    <2> QED BY <1>5, <2>1, <2>2, <2>3, Zenon
  <1>9. CASE drainTimeout(g)
    <2> DEFINE y == [gen[g] EXCEPT !.late = TRUE]
    <2>1. gen' = [gen EXCEPT ![g] = y] /\ gen[g].state = "draining"
      BY <1>2, <1>9, Zenon DEF drainTimeout
    <2>2. /\ y \in Gen /\ y.state = "draining" /\ y.ctx = gen[g].ctx
          /\ y.admission = gen[g].admission /\ y.active = gen[g].active /\ y.late
      BY <1>2, <2>1, Zenon DEF Gen
    <2> HIDE DEF y
    <2>3. GenOK(y, expired \/ failed) /\ (~gen[g].ctx => ~y.ctx)
      BY <1>2, <2>1, <2>2, Zenon DEF GenOK
    <2> QED BY <1>5, <2>1, <2>2, <2>3, Zenon
  <1>10. CASE Close(g)
    <2> DEFINE y == [gen[g] EXCEPT !.state = "closed", !.ctx = FALSE]
    <2>1. /\ gen' = [gen EXCEPT ![g] = y] /\ gen[g].state = "draining"
          /\ gen[g].active = 0 \/ gen[g].late
      BY <1>2, <1>10, Zenon DEF Close
    <2>2. ~gen[g].admission /\ (gen[g].active > 0 => gen[g].late)
      BY <1>2, <2>1 DEF GenOK
    <2>3. /\ y \in Gen /\ y.state = "closed" /\ ~y.ctx /\ y.admission = gen[g].admission
          /\ y.active = gen[g].active /\ y.late = gen[g].late
      BY <1>2, <2>2, Zenon DEF Gen
    <2> HIDE DEF y
    <2>4. GenOK(y, expired \/ failed) /\ (~gen[g].ctx => ~y.ctx)
      BY <2>2, <2>3, Zenon DEF GenOK
    <2> QED BY <1>5, <2>1, <2>3, <2>4, Zenon
  <1> QED BY <1>6, <1>7, <1>8, <1>9, <1>10, Zenon DEF Retiring

LEMMA EndSessionStep ==
  ASSUME IInv, EndSession
  PROVE  IInv'
  <1>1. /\ sessions > 0 /\ sessions' = sessions - 1
        /\ UNCHANGED <<expired, failed, initMu, req, ready, gen, recent>>
    BY Zenon DEF EndSession, hubvars
  <1>2. Types /\ SessionInv /\ GenInv /\ RequestInv /\ RecentInv
    BY Zenon DEF IInv
  <1>3. sessions' \in Nat /\ sessions' < sessions /\ MaxSessions \in Nat /\ sessions \in Nat
    BY <1>1, <1>2, ServeAssumption DEF Types
  <1>4. Types' /\ SessionInv'
    BY <1>1, <1>2, <1>3 DEF Types, SessionInv
  <1>5. GenInv'
    BY <1>1, <1>2, Zenon DEF GenInv, GenOK
  <1>6. RequestInv' /\ RecentInv'
    BY <1>1, <1>2, RequestsStay, Zenon
  <1> QED BY <1>4, <1>5, <1>6, Zenon DEF IInv

(* Every context of the manager is cancelled.                              *)
LEMMA CancelledOK ==
  ASSUME Types, GenInv, gen' = Cancelled, NEW e \in BOOLEAN,
         expired \/ failed => e, e \/ CoordinatorsStopped
  PROVE  /\ gen' \in [Gens -> Gen]
         /\ \A g \in Gens : ~gen[g].ctx => ~gen'[g].ctx
         /\ \A g \in Gens : GenOK(gen'[g], e)
  <1>1. ASSUME NEW g \in Gens
        PROVE  gen'[g] \in Gen /\ (~gen[g].ctx => ~gen'[g].ctx) /\ GenOK(gen'[g], e)
    <2>1. gen[g] \in Gen /\ GenOK(gen[g], expired \/ failed)
      BY Zenon DEF Types, GenInv
    <2>2. CASE gen[g].state = "unused"
      <3>1. gen'[g] = Unused
        BY <2>2, Zenon DEF Cancelled
      <3>2. gen[g].ctx
        BY <2>1, <2>2, Zenon DEF GenOK
      <3>3. Unused \in Gen
        BY DEF Unused, Gen
      <3>4. GenOK(Unused, e)
        BY Zenon DEF GenOK, Unused
      <3> QED BY <3>1, <3>2, <3>3, <3>4, Zenon
    <2>3. CASE gen[g].state # "unused"
      <3> DEFINE y == [gen[g] EXCEPT !.ctx = FALSE]
      <3>1. gen'[g] = y
        BY <2>3, Zenon DEF Cancelled
      <3>2. /\ y \in Gen /\ ~y.ctx /\ y.state = gen[g].state /\ y.active = gen[g].active
            /\ y.late = gen[g].late /\ y.admission = gen[g].admission
        BY <2>1, Zenon DEF Gen
      <3> HIDE DEF y
      <3>3. CASE e
        BY <2>1, <2>3, <3>1, <3>2, <3>3, Zenon DEF GenOK
      <3>4. CASE CoordinatorsStopped /\ ~e
        <4>1. gen[g].state = "closed" /\ ~expired /\ ~failed
          BY <2>3, <3>4, Zenon DEF CoordinatorsStopped
        <4>2. ~gen[g].ctx
          BY <2>1, <4>1, Zenon DEF GenOK
        <4> QED BY <2>1, <3>1, <3>2, <4>1, <4>2, Zenon DEF GenOK
      <3> QED BY <3>3, <3>4, Zenon
    <2> QED BY <2>2, <2>3, Zenon
  <1>2. gen' = [g \in Gens |-> gen'[g]]
    BY Zenon DEF Cancelled
  <1> QED BY <1>1, <1>2, Zenon

LEMMA EndingStep ==
  ASSUME IInv, Shutdown \/ ServeFails \/ Ending
  PROVE  IInv'
  <1>1. UNCHANGED <<req, recent, initMu, sessions, ready>>
    BY Zenon DEF Shutdown, ServeFails, Ending, ShutdownExpires, StopManager, ManagerStops, Exit,
           inbound
  <1>2. Types /\ GenInv /\ gen \in [Gens -> Gen] /\ ready \in Gens \cup {0}
        /\ expired \in BOOLEAN /\ failed \in BOOLEAN
    BY Zenon DEF IInv, Types
  <1>3. CASE Shutdown \/ ShutdownExpires \/ StopManager \/ Exit
    <2>1. UNCHANGED <<gen, failed>> /\ expired' \in BOOLEAN /\ (expired => expired')
      BY <1>2, <1>3, Zenon DEF Shutdown, Signal, ShutdownExpires, StopManager, Exit
    <2>2. \A g \in Gens : GenOK(gen[g], expired' \/ failed')
      BY <1>2, <2>1, Zenon DEF GenInv, GenOK
    <2>3. GenInv'
      BY <2>1, <2>2, Zenon DEF GenInv, GenOK
    <2> QED BY <1>1, <1>2, <2>1, <2>3, Elsewhere, Zenon
  <1>4. CASE ServeFails \/ ManagerStops
    <2>1. /\ gen' = Cancelled /\ expired' = expired /\ failed' \in BOOLEAN
          /\ (failed => failed') /\ (expired' \/ failed' \/ CoordinatorsStopped)
      BY <1>2, <1>4, Zenon DEF ServeFails, ManagerStops
    <2>2. /\ gen' \in [Gens -> Gen]
          /\ \A g \in Gens : ~gen[g].ctx => ~gen'[g].ctx
          /\ \A g \in Gens : GenOK(gen'[g], expired' \/ failed')
      <3>1. PICK e \in BOOLEAN : e <=> (expired' \/ failed')
        BY Zenon
      <3>2. (expired \/ failed => e) /\ (e \/ CoordinatorsStopped)
        BY <2>1, <3>1, Zenon
      <3>3. /\ gen' \in [Gens -> Gen]
            /\ \A g \in Gens : ~gen[g].ctx => ~gen'[g].ctx
            /\ \A g \in Gens : GenOK(gen'[g], e)
        BY <1>2, <2>1, <3>2, CancelledOK, Zenon
      <3>4. \A g \in Gens : GenOK(gen'[g], expired' \/ failed')
        BY <3>1, <3>3, Zenon DEF GenOK
      <3> QED BY <3>3, <3>4, Zenon
    <2>3. GenInv'
      BY <2>2, Zenon DEF GenInv, GenOK
    <2> QED BY <1>1, <1>2, <2>1, <2>2, <2>3, Elsewhere, Zenon
  <1> QED BY <1>3, <1>4, Zenon DEF Ending

LEMMA StutterStep ==
  ASSUME IInv, UNCHANGED vars
  PROVE  IInv'
  <1>1. UNCHANGED <<expired, failed, initMu, sessions, req, ready, gen, recent>>
    BY Zenon DEF vars
  <1>2. Types /\ GenInv
    BY Zenon DEF IInv
  <1>3. GenInv'
    BY <1>1, <1>2, Zenon DEF GenInv, GenOK
  <1> QED BY <1>1, <1>2, <1>3, Elsewhere, Zenon DEF Types

LEMMA StepIInv == IInv /\ [Next]_vars => IInv'
  <1> SUFFICES ASSUME IInv, [Next]_vars PROVE IInv'
    BY Zenon
  <1>1. CASE \E r \in Reqs, kind \in {"init", "call", "stream"}, q \in Queries,
                tokens \in TokenSets : Arrive(r, kind, q, tokens)
    BY <1>1, ArriveStep, Zenon
  <1>2. ASSUME NEW r \in Reqs, handleInit(r) \/ CloseStream(r)
        PROVE  IInv'
    BY <1>2, CountStep, ServeInitStep, CloseStreamStep, Zenon DEF handleInit
  <1>3. ASSUME NEW r \in Reqs, RouteTool(r) \/ ClientCancels(r)
        PROVE  IInv'
    <2>1. CASE LookupRoute(r) \/ AcquireLease(r)
      BY <2>1, RouteStep, Zenon
    <2>2. CASE acquire(r)
      BY <2>2, AcquireStep, Zenon
    <2>3. CASE ClientCancels(r) \/ CallTimesOut(r) \/ generationDone(r)
      BY <2>3, ContextStep, Zenon
    <2>4. CASE CallTool(r, "error")
      BY <2>4, CallToolStep, Zenon
    <2>5. CASE checkClient(r) \/ classify(r)
      BY <2>5, CheckStep, ClassifyStep, Zenon
    <2>6. CASE RecordCall(r)
      BY <2>6, RecordStep, Zenon
    <2> QED BY <1>3, <2>1, <2>2, <2>3, <2>4, <2>5, <2>6, Zenon DEF RouteTool
  <1>4. ASSUME NEW r \in Reqs, NEW a \in {"ok", "toolError"}, CallTool(r, a)
        PROVE  IInv'
    BY <1>4, CallToolStep, Zenon
  <1>5. CASE \E g \in Gens : Connect(g) \/ Retire(g) \/ Retiring(g)
    BY <1>5, GenerationStep, Zenon
  <1>6. CASE EndSession
    BY <1>6, EndSessionStep, Zenon
  <1>7. CASE Shutdown \/ ServeFails \/ Ending
    BY <1>7, EndingStep, Zenon
  <1>8. CASE UNCHANGED vars
    BY <1>8, StutterStep, Zenon
  <1> QED BY <1>1, <1>2, <1>3, <1>4, <1>5, <1>6, <1>7, <1>8, Zenon DEF Next, Step

LEMMA Inductive == Spec => []IInv
  BY InitIInv, StepIInv, PTL DEF Spec

-----------------------------------------------------------------------------
(* Who is inside a generation, and who holds initMu.                       *)
Inside(x, g) == x.pc \in Within /\ x.gen = g

LeaseInv ==
    \A g \in Gens : /\ gen[g].active = Cardinality(Holders(g))
                    /\ gen[g].active <= MaxConcurrency
                    /\ gen[g].state = "unused" => gen[g].active = 0

LockInv == initMu # 0 => initMu \in Reqs /\ req[initMu].pc \in {"full", "body"}

LEMMA HoldersFinite ==
  ASSUME NEW g
  PROVE  IsFiniteSet(Holders(g)) /\ Cardinality(Holders(g)) \in Nat
  <1>1. IsFiniteSet(Reqs)
    BY FS_Interval, ServeAssumption DEF Reqs
  <1>2. Holders(g) \in SUBSET Reqs
    BY Zenon DEF Holders
  <1>3. IsFiniteSet(Holders(g))
    BY <1>1, <1>2, FS_Subset
  <1> QED BY <1>3, FS_CardinalityType

LEMMA HoldersAre ==
  ASSUME NEW g
  PROVE  /\ Holders(g) = {c \in Reqs : Inside(req[c], g)}
         /\ Holders(g)' = {c \in Reqs : Inside(req'[c], g)}
  BY Zenon DEF Holders, InCall, Inside, Within

LEMMA LeasesPrimed ==
  ASSUME \A g \in Gens : /\ gen'[g].active = Cardinality(Holders(g)')
                         /\ gen'[g].active <= MaxConcurrency
                         /\ gen'[g].state = "unused" => gen'[g].active = 0
  PROVE  LeaseInv'
  BY Zenon DEF LeaseInv

(* Nobody comes in or goes out, and no count changes.                      *)
LEMMA LeaseFrame ==
  ASSUME LeaseInv, \A c \in Reqs, g \in Gens : Inside(req'[c], g) <=> Inside(req[c], g),
         \A g \in Gens : /\ gen'[g].active = gen[g].active
                         /\ gen'[g].state = "unused" => gen[g].state = "unused"
  PROVE  LeaseInv'
  <1>1. ASSUME NEW g \in Gens
        PROVE  Holders(g)' = Holders(g)
    BY HoldersAre, Zenon
  <1>2. ASSUME NEW g \in Gens
        PROVE  /\ gen'[g].active = Cardinality(Holders(g)')
               /\ gen'[g].active <= MaxConcurrency
               /\ gen'[g].state = "unused" => gen'[g].active = 0
    BY <1>1, Zenon DEF LeaseInv
  <1> QED BY <1>2, LeasesPrimed, Zenon

(* What the step of one call c does to the calls inside g.                 *)
LEMMA HoldersChange ==
  ASSUME NEW c \in Reqs, NEW g, \A r \in Reqs \ {c} : req'[r] = req[r]
  PROVE  /\ (Inside(req'[c], g) <=> Inside(req[c], g)) => Holders(g)' = Holders(g)
         /\ Inside(req'[c], g) /\ ~Inside(req[c], g) =>
              Cardinality(Holders(g)') = Cardinality(Holders(g)) + 1
         /\ ~Inside(req'[c], g) /\ Inside(req[c], g) =>
              /\ Cardinality(Holders(g)') = Cardinality(Holders(g)) - 1
              /\ Cardinality(Holders(g)) \in Nat \ {0}
  <1> DEFINE H == Holders(g)
             K == Holders(g)'
  <1>1. H = {r \in Reqs : Inside(req[r], g)} /\ K = {r \in Reqs : Inside(req'[r], g)}
    BY HoldersAre, Zenon
  <1>2. IsFiniteSet(H) /\ Cardinality(H) \in Nat
    BY HoldersFinite, Zenon
  <1> HIDE DEF H, K
  <1>3. ASSUME Inside(req'[c], g) <=> Inside(req[c], g)
        PROVE  K = H
    BY <1>1, <1>3
  <1>4. ASSUME Inside(req'[c], g), ~Inside(req[c], g)
        PROVE  Cardinality(K) = Cardinality(H) + 1
    <2>1. c \notin H /\ K = H \cup {c}
      BY <1>1, <1>4
    <2> QED BY <1>2, <2>1, FS_AddElement, Zenon
  <1>5. ASSUME ~Inside(req'[c], g), Inside(req[c], g)
        PROVE  Cardinality(K) = Cardinality(H) - 1 /\ Cardinality(H) \in Nat \ {0}
    <2>1. c \in H /\ K = H \ {c}
      BY <1>1, <1>5
    <2>2. Cardinality(H) # 0
      BY <1>2, <2>1, FS_EmptySet, Zenon
    <2> QED BY <1>2, <2>1, <2>2, FS_RemoveElement, Zenon
  <1> QED BY <1>3, <1>4, <1>5, Zenon DEF H, K

(* The steps of a request outside the generations ...                      *)
Outer(c) ==
    \/ \E kind \in {"init", "call", "stream"}, q \in Queries, tokens \in TokenSets :
          Arrive(c, kind, q, tokens)
    \/ CloseStream(c) \/ LookupRoute(c) \/ AcquireLease(c) \/ RecordCall(c)
    \/ Routed(c) /\ ClientCancels(c)

(* ... and inside one.                                                     *)
Inner(c) ==
    \/ InCall(c) /\ ClientCancels(c)
    \/ CallTimesOut(c) \/ generationDone(c)
    \/ checkClient(c) /\ ~req[c].left
    \/ \E a \in {"error", "ok", "toolError"} : CallTool(c, a)

LEMMA OuterMoves ==
  ASSUME IInv, NEW c \in Reqs, Outer(c)
  PROVE  /\ req[c].pc \notin {"full", "body"} \cup Within
         /\ req'[c].pc \notin Within
         /\ \A r \in Reqs \ {c} : req'[r] = req[r]
         /\ UNCHANGED <<gen, initMu>>
  <1>1. req \in [Reqs -> Request]
    BY Zenon DEF IInv, Types
  <1>2. CASE \E kind \in {"init", "call", "stream"}, q \in Queries, tokens \in TokenSets :
               Arrive(c, kind, q, tokens)
    <2>1. PICK kind \in {"init", "call", "stream"}, q \in Queries, tokens \in TokenSets :
            Arrive(c, kind, q, tokens)
      BY <1>2, Zenon
    <2>2. req[c].pc = "new" /\ UNCHANGED <<gen, initMu>>
      BY <2>1, Zenon DEF Arrive, inbound
    <2>3. PICK l \in {"init", "route", "open"} :
            req' = [req EXCEPT ![c].kind = kind, ![c].pc = l] \/ Done(c, "answered")
      BY <2>1 DEF Arrive
    <2>4. req' = [req EXCEPT ![c] = Entered(req[c], kind, l)] \/ Done(c, "answered")
      BY <1>1, <2>3, Zenon DEF Entered
    <2>5. req' = [req EXCEPT ![c] = Entered(req[c], kind, l)]
            \/ req' = [req EXCEPT ![c] = Over("answered")]
      BY <2>4, Zenon DEF Done, Over
    <2>6. Entered(req[c], kind, l).pc = l
      BY <1>1, <2>3, EnteredType DEF Kinds, Labels
    <2> QED BY <1>1, <2>2, <2>3, <2>5, <2>6, OverOK DEF Within
  <1>3. CASE CloseStream(c) \/ RecordCall(c)
    <2>1. req[c].pc \in {"open", "record"} /\ UNCHANGED <<gen, initMu>>
      BY <1>3, Zenon DEF CloseStream, RecordCall, inbound
    <2>2. PICK y : req' = [req EXCEPT ![c] = y] /\ y.pc = "done"
      <3> DEFINE n == Cardinality(Ended) + 1
      <3>1. CASE CloseStream(c)
        BY <3>1, OverOK, Zenon DEF CloseStream, Done, Over
      <3>2. CASE RecordCall(c)
        <4>1. req' = [req EXCEPT ![c] = Logged(n)]
          BY <3>2, Zenon DEF RecordCall, Logged
        <4>2. n \in Nat
          BY EndedFinite
        <4> HIDE DEF n
        <4> QED BY <4>1, <4>2, LoggedOK, Zenon
      <3> QED BY <1>3, <3>1, <3>2, Zenon
    <2> QED BY <1>1, <2>1, <2>2, Zenon DEF Within
  <1>4. CASE LookupRoute(c) \/ AcquireLease(c)
    <2>1. req[c].pc \in {"route", "lease"} /\ UNCHANGED <<gen, initMu>>
      BY <1>4, Zenon DEF LookupRoute, AcquireLease, inbound
    <2>2. req[c] \in Request
      BY <1>1, Zenon
    <2>3. CASE To(c, "lease")
      <3>1. req' = [req EXCEPT ![c] = Going(req[c], "lease")]
        BY <1>1, <2>3, Zenon DEF To, Going
      <3>2. Going(req[c], "lease").pc = "lease"
        BY <2>2, Zenon DEF Going, Request
      <3> QED BY <1>1, <2>1, <3>1, <3>2, Zenon DEF Within
    <2>4. CASE \E a \in {"unknown", "unavailable"} : Reject(c, a)
      <3>1. PICK a \in {"unknown", "unavailable"} : Reject(c, a)
        BY <2>4, Zenon
      <3>2. req' = [req EXCEPT ![c] = Answered(req[c], a)]
        BY <1>1, <3>1, Zenon DEF Reject, Answered
      <3>3. Answered(req[c], a).pc = "record"
        BY <2>2, Zenon DEF Answered, Request
      <3> QED BY <1>1, <2>1, <3>2, <3>3, Zenon DEF Within
    <2>5. CASE req' = [req EXCEPT ![c].pc = "acquire", ![c].gen = ready]
      <3> DEFINE y == [req[c] EXCEPT !.pc = "acquire", !.gen = ready]
      <3>1. req' = [req EXCEPT ![c] = y]
        BY <1>1, <2>5, Zenon
      <3>2. y.pc = "acquire"
        BY <2>2, Zenon DEF Request
      <3> HIDE DEF y
      <3> QED BY <1>1, <2>1, <3>1, <3>2, Zenon DEF Within
    <2> QED BY <1>4, <2>3, <2>4, <2>5, Zenon DEF LookupRoute, AcquireLease
  <1>5. CASE Routed(c) /\ ClientCancels(c)
    <2>1. req[c].pc \in {"route", "lease", "acquire"} /\ UNCHANGED <<gen, initMu>>
      BY <1>5, Zenon DEF Routed, ClientCancels, inbound
    <2>2. PICK e : req' = [req EXCEPT ![c] = [req[c] EXCEPT !.left = TRUE, !.callErr = e]]
      BY <1>1, <1>5, Zenon DEF ClientCancels
    <2>3. [req[c] EXCEPT !.left = TRUE, !.callErr = e].pc = req[c].pc
      BY <1>1, Zenon DEF Request
    <2> QED BY <1>1, <2>1, <2>2, <2>3, Zenon DEF Within
  <1> QED BY <1>2, <1>3, <1>4, <1>5, Zenon DEF Outer

LEMMA InnerMoves ==
  ASSUME IInv, NEW c \in Reqs, Inner(c)
  PROVE  /\ req[c].pc \in Within /\ req'[c].pc \in Within
         /\ req'[c].gen = req[c].gen
         /\ \A r \in Reqs \ {c} : req'[r] = req[r]
         /\ UNCHANGED <<gen, initMu>>
  <1>1. req \in [Reqs -> Request] /\ req[c] \in Request
    BY Zenon DEF IInv, Types
  <1>2. CASE (InCall(c) /\ ClientCancels(c)) \/ CallTimesOut(c) \/ generationDone(c)
    <2>1. req[c].pc \in Within /\ UNCHANGED <<gen, initMu>>
      BY <1>2, Zenon DEF ClientCancels, CallTimesOut, generationDone, InCall, Within, inbound
    <2>2. \E l, e : \/ req' = [req EXCEPT ![c].left = l, ![c].callErr = e]
                    \/ req' = [req EXCEPT ![c].callErr = e]
      BY <1>2, Zenon DEF ClientCancels, CallTimesOut, generationDone, EndContext
    <2>3. PICK l, e : \/ req' = [req EXCEPT ![c].left = l, ![c].callErr = e]
                      \/ req' = [req EXCEPT ![c].callErr = e]
      BY <2>2, Zenon
    <2>4. PICK y : /\ req' = [req EXCEPT ![c] = y]
                   /\ \/ y = [req[c] EXCEPT !.left = l, !.callErr = e]
                      \/ y = [req[c] EXCEPT !.callErr = e]
      BY <1>1, <2>3, Zenon
    <2>5. y.pc = req[c].pc /\ y.gen = req[c].gen
      BY <1>1, <2>4, Zenon DEF Request
    <2> QED BY <1>1, <2>1, <2>4, <2>5
  <1>3. CASE \E a \in {"error", "ok", "toolError"} : CallTool(c, a)
    <2>1. PICK a \in {"error", "ok", "toolError"} : CallTool(c, a)
      BY <1>3, Zenon
    <2> DEFINE b == a # "error"
    <2>2. /\ req[c].pc = "sent" /\ UNCHANGED <<gen, initMu>>
          /\ req' = [req EXCEPT ![c].pc = "replied", ![c].reply = a, ![c].ran = b,
                                ![c].gone = req[c].left]
      BY <2>1, Zenon DEF CallTool, inbound
    <2>3. req' = [req EXCEPT ![c] = Replied(req[c], a, b)]
      BY <1>1, <2>2, Zenon DEF Replied
    <2> HIDE DEF b
    <2>4. Replied(req[c], a, b).pc = "replied" /\ Replied(req[c], a, b).gen = req[c].gen
      BY <1>1, Zenon DEF Replied, Request
    <2> QED BY <1>1, <2>2, <2>3, <2>4, Zenon DEF Within
  <1>4. CASE checkClient(c) /\ ~req[c].left
    <2>1. /\ req[c].pc = "replied" /\ UNCHANGED <<gen, initMu>>
          /\ req' = [req EXCEPT ![c] = Going(req[c], "checked")]
      BY <1>1, <1>4, Zenon DEF checkClient, To, Going, inbound
    <2>2. Going(req[c], "checked").pc = "checked" /\ Going(req[c], "checked").gen = req[c].gen
      BY <1>1, Zenon DEF Going, Request
    <2> QED BY <1>1, <2>1, <2>2, Zenon DEF Within
  <1> QED BY <1>2, <1>3, <1>4, Zenon DEF Inner

(* A call comes in ...                                                     *)
LEMMA AcquireLeases ==
  ASSUME IInv, LeaseInv, NEW c \in Reqs, acquire(c)
  PROVE  LeaseInv'
  <1>1. /\ req[c].pc = "acquire" /\ req \in [Reqs -> Request] /\ req[c] \in Request
        /\ gen \in [Gens -> Gen] /\ req[c].gen \in Gens
    BY Zenon DEF IInv, Types, RequestInv, RequestOK, Within, acquire
  <1>2. PICK g \in Gens : g = req[c].gen
    BY <1>1, Zenon
  <1>3. CASE (\E a \in {"unavailable", "busy"} : Reject(c, a)) /\ UNCHANGED gen
    <2>1. PICK a \in {"unavailable", "busy"} : Reject(c, a)
      BY <1>3, Zenon
    <2>2. req' = [req EXCEPT ![c] = Answered(req[c], a)]
      BY <1>1, <2>1, Zenon DEF Reject, Answered
    <2>3. Answered(req[c], a).pc = "record"
      BY <1>1, Zenon DEF Answered, Request
    <2>4. \A r \in Reqs, h \in Gens : Inside(req'[r], h) <=> Inside(req[r], h)
      BY <1>1, <2>2, <2>3 DEF Inside, Within
    <2> QED BY <1>3, <2>4, LeaseFrame, Zenon
  <1> DEFINE e == IF req[c].left THEN "canceled" ELSE "none"
  <1>4. CASE /\ gen[g].admission /\ ~(gen[g].active >= MaxConcurrency)
             /\ gen' = [gen EXCEPT ![g].active = @ + 1]
             /\ req' = [req EXCEPT ![c].pc = "sent", ![c].callErr = e]
    <2>1. req' = [req EXCEPT ![c] = Sent(req[c], e)]
      BY <1>1, <1>4, Zenon DEF Sent
    <2>2. Sent(req[c], e).pc = "sent" /\ Sent(req[c], e).gen = g
      BY <1>1, <1>2, Zenon DEF Sent, Request
    <2>3. /\ Inside(req'[c], g) /\ ~Inside(req[c], g)
          /\ \A h \in Gens \ {g} : ~Inside(req'[c], h) /\ ~Inside(req[c], h)
          /\ \A r \in Reqs \ {c} : req'[r] = req[r]
      BY <1>1, <1>2, <2>1, <2>2, Zenon DEF Inside, Within
    <2>4. /\ Cardinality(Holders(g)') = Cardinality(Holders(g)) + 1
          /\ \A h \in Gens \ {g} : Holders(h)' = Holders(h)
      BY <2>3, HoldersChange, Zenon
    <2> DEFINE y == [gen[g] EXCEPT !.active = @ + 1]
    <2>5. gen' = [gen EXCEPT ![g] = y]
      BY <1>1, <1>4, Zenon
    <2>6. y.active = gen[g].active + 1 /\ y.state = gen[g].state /\ gen[g].active \in Int
      BY <1>1, Zenon DEF Gen
    <2> HIDE DEF y
    <2>7. gen'[g] = y /\ \A h \in Gens \ {g} : gen'[h] = gen[h]
      BY <1>1, <2>5, Zenon
    <2>8. gen[g].state = "current"
      BY <1>4, Zenon DEF IInv, GenInv, GenOK
    <2>9. ASSUME NEW h \in Gens
          PROVE  /\ gen'[h].active = Cardinality(Holders(h)')
                 /\ gen'[h].active <= MaxConcurrency
                 /\ gen'[h].state = "unused" => gen'[h].active = 0
      <3>1. CASE h = g
        <4>1. gen[g].active = Cardinality(Holders(g))
          BY Zenon DEF LeaseInv
        <4>2. y.active = Cardinality(Holders(g)')
          BY <2>4, <2>6, <4>1, Zenon
        <4>3. y.active <= MaxConcurrency
          BY <1>4, <2>6, ServeAssumption
        <4>4. y.state # "unused"
          BY <2>6, <2>8, Zenon
        <4> QED BY <2>7, <3>1, <4>2, <4>3, <4>4, Zenon
      <3>2. CASE h # g
        <4>1. gen'[h] = gen[h] /\ Holders(h)' = Holders(h)
          BY <2>4, <2>7, <3>2, Zenon
        <4> QED BY <4>1, Zenon DEF LeaseInv
      <3> QED BY <3>1, <3>2, Zenon
    <2> QED BY <2>9, LeasesPrimed, Zenon
  <1> QED BY <1>2, <1>3, <1>4, Zenon DEF acquire

(* ... and goes out.                                                       *)
LEMMA ReturnLeases ==
  ASSUME IInv, LeaseInv, NEW c \in Reqs, NEW a, Return(c, a), req[c].pc \in Within
  PROVE  LeaseInv'
  <1>1. /\ req \in [Reqs -> Request] /\ req[c] \in Request
        /\ gen \in [Gens -> Gen] /\ req[c].gen \in Gens
    BY Zenon DEF IInv, Types, RequestInv, RequestOK
  <1>2. PICK g \in Gens : g = req[c].gen
    BY <1>1, Zenon
  <1> DEFINE y == [gen[g] EXCEPT !.active = @ - 1]
  <1>3. req' = [req EXCEPT ![c] = Answered(req[c], a)] /\ gen' = [gen EXCEPT ![g] = y]
    BY <1>1, <1>2, Zenon DEF Return, Reject, Answered
  <1>4. Answered(req[c], a).pc = "record"
    BY <1>1, Zenon DEF Answered, Request
  <1>5. y.active = gen[g].active - 1 /\ y.state = gen[g].state /\ gen[g].active \in Int
    BY <1>1, Zenon DEF Gen
  <1> HIDE DEF y
  <1>6. gen'[g] = y /\ \A h \in Gens \ {g} : gen'[h] = gen[h]
    BY <1>1, <1>3, Zenon
  <1>7. /\ Inside(req[c], g) /\ \A h \in Gens : ~Inside(req'[c], h)
        /\ \A h \in Gens \ {g} : ~Inside(req[c], h)
        /\ \A r \in Reqs \ {c} : req'[r] = req[r]
    BY <1>1, <1>2, <1>3, <1>4, Zenon DEF Inside, Within
  <1>8. /\ Cardinality(Holders(g)') = Cardinality(Holders(g)) - 1
        /\ Cardinality(Holders(g)) \in Nat \ {0}
        /\ \A h \in Gens \ {g} : Holders(h)' = Holders(h)
    BY <1>7, HoldersChange, Zenon
  <1>9. ASSUME NEW h \in Gens
        PROVE  /\ gen'[h].active = Cardinality(Holders(h)')
               /\ gen'[h].active <= MaxConcurrency
               /\ gen'[h].state = "unused" => gen'[h].active = 0
    <2>1. CASE h = g
      <3>1. gen[g].active = Cardinality(Holders(g)) /\ gen[g].active <= MaxConcurrency
        BY Zenon DEF LeaseInv
      <3>2. y.active = Cardinality(Holders(g)')
        BY <1>5, <1>8, <3>1, Zenon
      <3>3. y.active <= MaxConcurrency /\ gen[g].active # 0
        BY <1>5, <1>8, <3>1, ServeAssumption
      <3>4. y.state # "unused"
        BY <1>5, <3>3, Zenon DEF LeaseInv
      <3> QED BY <1>6, <2>1, <3>2, <3>3, <3>4, Zenon
    <2>2. CASE h # g
      <3>1. gen'[h] = gen[h] /\ Holders(h)' = Holders(h)
        BY <1>6, <1>8, <2>2, Zenon
      <3> QED BY <3>1, Zenon DEF LeaseInv
    <2> QED BY <2>1, <2>2, Zenon
  <1> QED BY <1>9, LeasesPrimed, Zenon

LEMMA ClassifyLeases ==
  ASSUME IInv, LeaseInv, NEW c \in Reqs, classify(c) \/ (checkClient(c) /\ req[c].left)
  PROVE  LeaseInv'
  <1>1. req[c].pc \in Within /\ \E a : Return(c, a)
    BY Zenon DEF classify, checkClient, Within
  <1> QED BY <1>1, ReturnLeases, Zenon

(* The lock stays with the request that is being admitted.                 *)
LEMMA LockFrame ==
  ASSUME LockInv, UNCHANGED initMu,
         \A r \in Reqs : req[r].pc \in {"full", "body"} => req'[r] = req[r]
  PROVE  LockInv'
  BY Zenon DEF LockInv

LEMMA CallLocks ==
  ASSUME IInv, LockInv, NEW c \in Reqs, acquire(c) \/ checkClient(c) \/ classify(c)
  PROVE  LockInv'
  <1>1. req \in [Reqs -> Request] /\ req[c].pc \notin {"full", "body"} /\ UNCHANGED initMu
    BY Zenon DEF IInv, Types, acquire, checkClient, classify, inbound
  <1>2. \A r \in Reqs \ {c} : req'[r] = req[r]
    BY <1>1, Zenon DEF acquire, checkClient, classify, Return, To, Reject
  <1> QED BY <1>1, <1>2, LockFrame, Zenon

LEMMA OuterHeld ==
  ASSUME IInv, LeaseInv, LockInv, NEW c \in Reqs, Outer(c)
  PROVE  LeaseInv' /\ LockInv'
  <1>1. /\ req[c].pc \notin {"full", "body"} \cup Within
        /\ req'[c].pc \notin Within
        /\ \A r \in Reqs \ {c} : req'[r] = req[r]
        /\ UNCHANGED gen /\ UNCHANGED initMu
    BY OuterMoves, Zenon
  <1>2. \A r \in Reqs, g \in Gens : Inside(req'[r], g) <=> Inside(req[r], g)
    BY <1>1, Zenon DEF Inside
  <1>3. \A r \in Reqs : req[r].pc \in {"full", "body"} => req'[r] = req[r]
    BY <1>1, Zenon DEF Within
  <1>4. LeaseInv'
    BY <1>1, <1>2, LeaseFrame, Zenon
  <1>5. LockInv'
    BY <1>1, <1>3, LockFrame, Zenon
  <1> QED BY <1>4, <1>5, Zenon

LEMMA InnerHeld ==
  ASSUME IInv, LeaseInv, LockInv, NEW c \in Reqs, Inner(c)
  PROVE  LeaseInv' /\ LockInv'
  <1>1. /\ req[c].pc \in Within /\ req'[c].pc \in Within
        /\ req'[c].gen = req[c].gen
        /\ \A r \in Reqs \ {c} : req'[r] = req[r]
        /\ UNCHANGED gen /\ UNCHANGED initMu
    BY InnerMoves, Zenon
  <1>2. \A r \in Reqs, g \in Gens : Inside(req'[r], g) <=> Inside(req[r], g)
    BY <1>1, Zenon DEF Inside
  <1>3. \A r \in Reqs : req[r].pc \in {"full", "body"} => req'[r] = req[r]
    BY <1>1, Zenon DEF Within
  <1>4. LeaseInv'
    BY <1>1, <1>2, LeaseFrame, Zenon
  <1>5. LockInv'
    BY <1>1, <1>3, LockFrame, Zenon
  <1> QED BY <1>4, <1>5, Zenon

(* Session admission takes the lock and gives it back.                     *)
LEMMA InitHeld ==
  ASSUME IInv, LeaseInv, LockInv, NEW r \in Reqs, handleInit(r)
  PROVE  LeaseInv' /\ LockInv'
  <1>1. req \in [Reqs -> Request] /\ req[r] \in Request
    BY Zenon DEF IInv, Types
  <1>2. CASE countSessions(r)
    <2>1. PICK l \in {"full", "body"} : req' = [req EXCEPT ![r] = Going(req[r], l)]
      BY <1>1, <1>2, Zenon DEF countSessions, To, Going
    <2>2. req[r].pc = "init" /\ initMu' = r /\ UNCHANGED gen
      BY <1>2, Zenon DEF countSessions, LockInit
    <2>3. Going(req[r], l).pc = l
      BY <1>1, Zenon DEF Going, Request
    <2>4. req'[r].pc = l /\ \A c \in Reqs \ {r} : req'[c] = req[c]
      BY <1>1, <2>1, <2>3, Zenon
    <2>5. \A c \in Reqs, g \in Gens : Inside(req'[c], g) <=> Inside(req[c], g)
      BY <2>2, <2>4 DEF Inside, Within
    <2>6. LockInv'
      BY <2>2, <2>4, Zenon DEF LockInv
    <2> QED BY <2>2, <2>5, <2>6, LeaseFrame, Zenon
  <1>3. CASE ServeInit(r)
    <2>1. req[r].pc \in {"full", "body"} /\ UNCHANGED gen
      BY <1>3, Zenon DEF ServeInit
    <2>2. initMu = r
      BY <2>1, Zenon DEF IInv, SessionInv
    <2>3. initMu' = 0
      BY <1>3, <2>2, Zenon DEF ServeInit
    <2>4. req' = [req EXCEPT ![r] = Over("answered")]
      BY <1>3, Zenon DEF ServeInit, Done, Over
    <2>5. \A c \in Reqs, g \in Gens : Inside(req'[c], g) <=> Inside(req[c], g)
      BY <1>1, <2>1, <2>4, OverOK DEF Inside, Within
    <2>6. LockInv'
      BY <2>3, Zenon DEF LockInv
    <2> QED BY <2>1, <2>5, <2>6, LeaseFrame, Zenon
  <1> QED BY <1>2, <1>3, Zenon DEF handleInit

(* The generations and the end of the process leave the calls where they   *)
(* are, and their count.                                                   *)
LEMMA ElsewhereHeld ==
  ASSUME LeaseInv, LockInv, UNCHANGED <<req, initMu>>,
         \A g \in Gens : /\ gen'[g].active = gen[g].active
                         /\ gen'[g].state = "unused" => gen[g].state = "unused"
  PROVE  LeaseInv' /\ LockInv'
  <1>1. \A c \in Reqs, g \in Gens : Inside(req'[c], g) <=> Inside(req[c], g)
    BY Zenon
  <1>2. \A r \in Reqs : req[r].pc \in {"full", "body"} => req'[r] = req[r]
    BY Zenon
  <1> QED BY <1>1, <1>2, LeaseFrame, LockFrame, Zenon

LEMMA GenerationHeld ==
  ASSUME IInv, LeaseInv, LockInv, NEW g \in Gens, Connect(g) \/ Retire(g) \/ Retiring(g)
  PROVE  LeaseInv' /\ LockInv'
  <1>1. gen \in [Gens -> Gen] /\ gen[g] \in Gen
    BY Zenon DEF IInv, Types
  <1>2. UNCHANGED <<req, initMu>>
    BY Zenon DEF Connect, Retire, Retiring, drain, drainTimeout, Close, inbound
  <1>3. \/ UNCHANGED gen
        \/ \E y : /\ gen' = [gen EXCEPT ![g] = y]
                  /\ y.active = gen[g].active /\ y.state # "unused"
    <2>1. CASE Connect(g)
      <3> DEFINE y == [gen[g] EXCEPT !.state = "current", !.admission = TRUE, !.ctx = ~failed]
      <3>1. gen' = [gen EXCEPT ![g] = y]
        BY <1>1, <2>1, Zenon DEF Connect
      <3>2. y.active = gen[g].active /\ y.state = "current"
        BY <1>1, Zenon DEF Gen
      <3> HIDE DEF y
      <3> QED BY <3>1, <3>2, Zenon
    <2>2. CASE Retire(g)
      BY <2>2, Zenon DEF Retire
    <2>3. CASE drain(g)
      <3> DEFINE y == [gen[g] EXCEPT !.state = "draining", !.admission = FALSE]
      <3>1. gen' = [gen EXCEPT ![g] = y]
        BY <1>1, <2>3, Zenon DEF drain
      <3>2. y.active = gen[g].active /\ y.state = "draining"
        BY <1>1, Zenon DEF Gen
      <3> HIDE DEF y
      <3> QED BY <3>1, <3>2, Zenon
    <2>4. CASE Close(g)
      <3> DEFINE y == [gen[g] EXCEPT !.state = "closed", !.ctx = FALSE]
      <3>1. gen' = [gen EXCEPT ![g] = y]
        BY <1>1, <2>4, Zenon DEF Close
      <3>2. y.active = gen[g].active /\ y.state = "closed"
        BY <1>1, Zenon DEF Gen
      <3> HIDE DEF y
      <3> QED BY <3>1, <3>2, Zenon
    <2>5. CASE drainTimeout(g)
      <3> DEFINE y == [gen[g] EXCEPT !.late = TRUE]
      <3>1. gen' = [gen EXCEPT ![g] = y] /\ gen[g].state = "draining"
        BY <1>1, <2>5, Zenon DEF drainTimeout
      <3>2. y.active = gen[g].active /\ y.state = gen[g].state
        BY <1>1, Zenon DEF Gen
      <3> HIDE DEF y
      <3> QED BY <3>1, <3>2, Zenon
    <2> QED BY <2>1, <2>2, <2>3, <2>4, <2>5, Zenon DEF Retiring
  <1>4. \A h \in Gens : /\ gen'[h].active = gen[h].active
                        /\ gen'[h].state = "unused" => gen[h].state = "unused"
    BY <1>1, <1>3
  <1> QED BY <1>2, <1>4, ElsewhereHeld, Zenon

LEMMA EndingHeld ==
  ASSUME IInv, LeaseInv, LockInv, Shutdown \/ ServeFails \/ Ending
  PROVE  LeaseInv' /\ LockInv'
  <1>1. gen \in [Gens -> Gen]
    BY Zenon DEF IInv, Types
  <1>2. UNCHANGED <<req, initMu>> /\ (UNCHANGED gen \/ gen' = Cancelled)
    BY Zenon DEF Shutdown, Signal, ServeFails, Ending, ShutdownExpires, StopManager, ManagerStops,
           Exit, inbound
  <1>3. ASSUME NEW h \in Gens, gen' = Cancelled
        PROVE  /\ gen'[h].active = gen[h].active
               /\ gen'[h].state = "unused" => gen[h].state = "unused"
    <2>1. CASE gen[h].state = "unused"
      <3>1. gen'[h] = Unused
        BY <1>3, <2>1, Zenon DEF Cancelled
      <3>2. gen[h].active = 0
        BY <2>1, Zenon DEF LeaseInv
      <3>3. Unused.active = 0
        BY DEF Unused
      <3> QED BY <2>1, <3>1, <3>2, <3>3, Zenon
    <2>2. CASE gen[h].state # "unused"
      <3>1. gen'[h] = [gen[h] EXCEPT !.ctx = FALSE] /\ gen[h] \in Gen
        BY <1>1, <1>3, <2>2, Zenon DEF Cancelled
      <3> QED BY <3>1, Zenon DEF Gen
    <2> QED BY <2>1, <2>2, Zenon
  <1> QED BY <1>2, <1>3, ElsewhereHeld, Zenon

LEMMA StepHeld == IInv /\ LeaseInv /\ LockInv /\ [Next]_vars => LeaseInv' /\ LockInv'
  <1> SUFFICES ASSUME IInv, LeaseInv, LockInv, [Next]_vars PROVE LeaseInv' /\ LockInv'
    BY Zenon
  <1>1. ASSUME NEW c \in Reqs, Outer(c)
        PROVE  LeaseInv' /\ LockInv'
    BY <1>1, OuterHeld, Zenon
  <1>2. ASSUME NEW c \in Reqs, Inner(c)
        PROVE  LeaseInv' /\ LockInv'
    BY <1>2, InnerHeld, Zenon
  <1>3. ASSUME NEW c \in Reqs, acquire(c) \/ classify(c) \/ (checkClient(c) /\ req[c].left)
        PROVE  LeaseInv' /\ LockInv'
    BY <1>3, AcquireLeases, ClassifyLeases, CallLocks, Zenon
  <1>4. ASSUME NEW c \in Reqs, handleInit(c)
        PROVE  LeaseInv' /\ LockInv'
    BY <1>4, InitHeld, Zenon
  <1>5. ASSUME NEW g \in Gens, Connect(g) \/ Retire(g) \/ Retiring(g)
        PROVE  LeaseInv' /\ LockInv'
    BY <1>5, GenerationHeld, Zenon
  <1>6. CASE EndSession \/ UNCHANGED vars
    <2>1. UNCHANGED <<req, initMu>> /\ UNCHANGED gen
      BY <1>6, Zenon DEF EndSession, vars
    <2> QED BY <2>1, ElsewhereHeld, Zenon
  <1>7. CASE Shutdown \/ ServeFails \/ Ending
    BY <1>7, EndingHeld, Zenon
  <1>8. CASE Step
    <2>1. ASSUME NEW r \in Reqs, RouteTool(r)
          PROVE  LeaseInv' /\ LockInv'
      BY <1>1, <1>2, <1>3, <2>1, Zenon DEF RouteTool, Outer, Inner
    <2>2. ASSUME NEW r \in Reqs, CloseStream(r)
          PROVE  LeaseInv' /\ LockInv'
      BY <1>1, <2>2, Zenon DEF Outer
    <2>3. ASSUME NEW r \in Reqs, ClientCancels(r) \/ \E a \in {"ok", "toolError"} : CallTool(r, a)
          PROVE  LeaseInv' /\ LockInv'
      BY <1>1, <1>2, <2>3, Zenon DEF Outer, Inner, ClientCancels
    <2>4. CASE \E r \in Reqs, kind \in {"init", "call", "stream"}, q \in Queries,
                  tokens \in TokenSets : Arrive(r, kind, q, tokens)
      BY <1>1, <2>4, Zenon DEF Outer
    <2> QED BY <1>4, <1>5, <1>6, <1>7, <1>8, <2>1, <2>2, <2>3, <2>4, Zenon DEF Step
  <1> QED BY <1>6, <1>8, Zenon DEF Next

LEMMA InitHolds == Init => LeaseInv /\ LockInv
  <1> SUFFICES ASSUME Init PROVE LeaseInv /\ LockInv
    BY Zenon
  <1>1. LockInv
    BY Zenon DEF Init, LockInv
  <1>2. ASSUME NEW g \in Gens
        PROVE  gen[g].active = 0 /\ Holders(g) = {}
    <2>1. gen[g].active = 0
      BY <1>2, Zenon DEF Init, Unused
    <2>2. \A c \in Reqs : req[c].pc = "new"
      BY Zenon DEF Init, Fresh
    <2>3. \A c \in Reqs : ~InCall(c)
      BY <2>2, Zenon DEF InCall
    <2> QED BY <2>1, <2>3, Zenon DEF Holders
  <1>3. 0 <= MaxConcurrency
    BY ServeAssumption
  <1> QED BY <1>1, <1>2, <1>3, FS_EmptySet, Zenon DEF LeaseInv

LEMMA Held == Spec => [](IInv /\ LeaseInv /\ LockInv)
  BY Inductive, InitHolds, StepHeld, PTL DEF Spec

(* Sessions never exceed the limit that handleMCP enforces under initMu,   *)
(* and the count behind a generation's concurrency limit is always the     *)
(* number of calls inside it (types.go: acquire, Release): no              *)
(* interleaving of answers, timeouts, cancellations and retirements leaks  *)
(* a lease or gives one back twice.                                        *)
THEOREM LimitsAreKept == Spec => []LimitsHold
  <1>1. IInv /\ LeaseInv => LimitsHold
    BY Zenon DEF IInv, SessionInv, LeaseInv, LimitsHold
  <1> QED BY <1>1, Held, PTL

(* Nothing is left behind: when no request is in flight, initMu is free    *)
(* and every generation's count is back at zero, so the drain of a         *)
(* generation never waits for a call that is over (http.go: handleMCP;     *)
(* router.go: RouteTool's deferred Release).                               *)
THEOREM IdleHoldsNothing ==
  Spec => []((\A r \in Reqs : ~InFlight(r)) =>
               initMu = 0 /\ \A g \in Gens : gen[g].active = 0)
  <1>1. ASSUME LeaseInv, LockInv, \A r \in Reqs : ~InFlight(r)
        PROVE  initMu = 0 /\ \A g \in Gens : gen[g].active = 0
    <2>1. \A r \in Reqs : req[r].pc \in {"new", "done"}
      BY <1>1, Zenon DEF InFlight
    <2>2. initMu = 0
      BY <1>1, <2>1, Zenon DEF LockInv
    <2>3. \A r \in Reqs : ~InCall(r)
      BY <2>1, Zenon DEF InCall
    <2>4. \A g \in Gens : Holders(g) = {}
      BY <2>3, Zenon DEF Holders
    <2> QED BY <1>1, <2>2, <2>4, FS_EmptySet, Zenon DEF LeaseInv
  <1> QED BY <1>1, Held, PTL

(* No call loses the context of its generation before a time limit has     *)
(* passed or Serve has failed (app.go: runServe; Manager.Stop).            *)
THEOREM DrainComesFirst == Spec => []DrainBeforeCancel
  <1>1. IInv => DrainBeforeCancel
    BY Zenon DEF IInv, GenInv, GenOK, DrainBeforeCancel
  <1> QED BY <1>1, Inductive, PTL

(* The answer of every call names the real reason, and the diagnostics     *)
(* hold the latest calls, in the order in which they ended (router.go:     *)
(* RouteTool; manager.go: RecordCall).                                     *)
THEOREM AnswersAreHonest == Spec => []AnswerIsHonest
  <1>1. IInv => AnswerIsHonest
    <2> SUFFICES ASSUME IInv PROVE AnswerIsHonest
      BY Zenon
    <2>1. \A c \in {d \in Reqs : req[d].pc = "record"} : Honest(req[c], gen)
      BY Zenon DEF IInv, RequestInv, RequestOK
    <2>2. LET n == Cardinality(Ended)
              k == Kept(n)
          IN  /\ Len(recent) = k
              /\ \A i \in 1..k : recent[i] \in Ended /\ req[recent[i]].turn = n - k + i
      BY Zenon DEF IInv, RecentInv
    <2> QED BY <2>1, <2>2, Zenon DEF AnswerIsHonest, Honest, Kept
  <1> QED BY <1>1, Inductive, PTL
=============================================================================
