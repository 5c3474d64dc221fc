-------------------------- MODULE GenerationProofs --------------------------
(***************************************************************************)
(* Proofs about Generation, for any number of callers, drainers and any    *)
(* concurrency limit.                                                      *)
(***************************************************************************)
EXTENDS Generation, FiniteSetTheorems, TLAPS

Past == {"close", "cancel", "teardown", "done"}

(* Whoever began to drain or closed has shut the gate.                     *)
Shut ==
    /\ \A d \in Drainers : pc[d] # "idle" => ~admission
    /\ closed => ~admission

(* Leaving drain without the timer means that nobody is inside.            *)
PastIsEmpty == ~timedOut => \A d \in Drainers : pc[d] \in Past => active = 0

IInv == TypeOK /\ ActiveCountsLeases /\ Shut /\ PastIsEmpty

(* The limit in force is positive, whatever was configured.                *)
LEMMA LimitPositive == maxConcurrency \in Nat \ {0}
  BY ConcurrencyAssumption DEF maxConcurrency

LEMMA HoldersFinite == IsFiniteSet(Holders)
  <1>1. Holders \subseteq Callers  BY Zenon DEF Holders
  <1> QED  BY <1>1, CallersAssumption, FS_Subset, Zenon

LEMMA InitIInv == Init => IInv
  <1> SUFFICES ASSUME Init PROVE IInv  BY Zenon
  <1>0. active \in 0..maxConcurrency
    BY LimitPositive DEF Init, newGeneration
  <1>1. TypeOK  BY <1>0, Zenon DEF Init, newGeneration, TypeOK
  <1>2. Holders = {}  BY Zenon DEF Init, Holders
  <1>3. ActiveCountsLeases
    BY <1>2, FS_EmptySet, Zenon DEF Init, newGeneration, ActiveCountsLeases
  <1>4. Shut /\ PastIsEmpty
    BY Zenon DEF Init, newGeneration, Shut, PastIsEmpty, Past
  <1> QED  BY <1>1, <1>3, <1>4, Zenon DEF IInv

(* What a step does to the callers that hold a lease.                      *)
LEMMA AcquireHolders ==
  ASSUME IInv, NEW c \in Callers, acquire(c)
  PROVE  /\ c \notin Holders
         /\ Holders' = Holders \cup {c}
         /\ Cardinality(Holders') = Cardinality(Holders) + 1
  <1>1. c \notin Holders /\ Holders' = Holders \cup {c}
    BY Zenon DEF IInv, TypeOK, acquire, Holders
  <1> QED  BY <1>1, HoldersFinite, FS_AddElement, Zenon

LEMMA ReleaseHolders ==
  ASSUME IInv, NEW c \in Callers, Release(c), lease[c] = "held"
  PROVE  /\ c \in Holders
         /\ Holders' = Holders \ {c}
         /\ Cardinality(Holders') = Cardinality(Holders) - 1
         /\ Cardinality(Holders) \in Nat \ {0}
  <1>1. c \in Holders /\ Holders' = Holders \ {c}
    BY Zenon DEF IInv, TypeOK, Release, Holders
  <1>2. Cardinality(Holders) \in Nat /\ Cardinality(Holders) # 0
    BY <1>1, HoldersFinite, FS_CardinalityType, FS_EmptySet, Zenon
  <1> QED  BY <1>1, <1>2, HoldersFinite, FS_RemoveElement, Zenon

LEMMA ReleaseAgain ==
  ASSUME IInv, NEW c \in Callers, Release(c), lease[c] # "held"
  PROVE  Holders' = Holders /\ UNCHANGED <<active, drainCh>>
  BY Zenon DEF IInv, TypeOK, Release, releaseOnce, Holders

LEMMA DrainerHolders ==
  ASSUME UNCHANGED lease
  PROVE  Holders' = Holders
  BY Zenon DEF Holders

(* The drainers and closers touch neither the leases nor the count.        *)
LEMMA CallerStep ==
  ASSUME IInv, NEW c \in Callers, acquire(c) \/ Release(c)
  PROVE  IInv'
  <1> USE LimitPositive
  <1>1. CASE acquire(c)
    <2>1. active' \in 0..maxConcurrency /\ active' = active + 1
      BY <1>1 DEF IInv, TypeOK, acquire, belowLimit
    <2>2. TypeOK'  BY <1>1, <2>1, Zenon DEF IInv, TypeOK, acquire
    <2>3. ActiveCountsLeases'
      BY <1>1, <2>1, AcquireHolders, Zenon DEF IInv, ActiveCountsLeases
    <2>4. Shut'  BY <1>1, Zenon DEF IInv, Shut, acquire
    <2>5. \A d \in Drainers : pc[d] = "idle"
      BY <1>1, Zenon DEF IInv, Shut, acquire, admits
    <2>6. PastIsEmpty'  BY <1>1, <2>5, Zenon DEF PastIsEmpty, Past, acquire
    <2> QED  BY <2>2, <2>3, <2>4, <2>6, Zenon DEF IInv
  <1>2. CASE Release(c) /\ lease[c] = "held"
    <2>1. active = Cardinality(Holders) /\ active \in Nat \ {0}
      BY <1>2, ReleaseHolders, Zenon DEF IInv, ActiveCountsLeases
    <2>2. active' = active - 1
      BY <1>2, <2>1 DEF Release, releaseOnce, release
    <2>3. active' \in 0..maxConcurrency
      BY <2>1, <2>2 DEF IInv, TypeOK
    <2>4. drainCh' \in BOOLEAN
      BY <1>2, Zenon DEF Release, releaseOnce, release
    <2>5. TypeOK'  BY <1>2, <2>3, <2>4, Zenon DEF IInv, TypeOK, Release
    <2>6. ActiveCountsLeases'
      BY <1>2, <2>1, <2>2, ReleaseHolders, Zenon DEF ActiveCountsLeases
    <2>7. Shut'  BY <1>2, Zenon DEF IInv, Shut, Release
    <2>8. PastIsEmpty'
      BY <1>2, <2>1, Zenon DEF IInv, PastIsEmpty, Past, Release
    <2> QED  BY <2>5, <2>6, <2>7, <2>8, Zenon DEF IInv
  <1>3. CASE Release(c) /\ lease[c] # "held"
    <2>1. Holders' = Holders /\ UNCHANGED <<active, drainCh>>
      BY <1>3, ReleaseAgain, Zenon
    <2>2. TypeOK'  BY <1>3, <2>1, Zenon DEF IInv, TypeOK, Release
    <2>3. ActiveCountsLeases'  BY <2>1, Zenon DEF IInv, ActiveCountsLeases
    <2>4. Shut' /\ PastIsEmpty'
      BY <1>3, <2>1, Zenon DEF IInv, Shut, PastIsEmpty, Past, Release
    <2> QED  BY <2>2, <2>3, <2>4, Zenon DEF IInv
  <1> QED  BY <1>1, <1>2, <1>3, Zenon

LEMMA DrainerStep ==
  ASSUME IInv, NEW d \in Drainers, drain(d) \/ Close(d)
  PROVE  IInv'
  <1> DEFINE Moves == drainStart(d) \/ drainCheck(d) \/ drainWake(d) \/ drainTimeout(d)
                     \/ closeMark(d) \/ closeCancel(d) \/ closeSession(d) \/ closeAgain(d)
  <1>0. Moves  BY Zenon DEF drain, Close
  <1>1. UNCHANGED <<active, lease>>
    BY <1>0, Zenon DEF drainStart, drainCheck, drainWake, drainTimeout, closeMark,
                closeCancel, closeSession, closeAgain
  <1>2. TypeOK'
    <2>1. active' \in 0..maxConcurrency  BY <1>1, Zenon DEF IInv, TypeOK
    <2>2. lease' \in [Callers -> {"none", "held", "released"}]
      BY <1>1, Zenon DEF IInv, TypeOK
    <2>3. /\ admission' \in BOOLEAN /\ drainCh' \in BOOLEAN
          /\ closed' \in BOOLEAN /\ ctxDone' \in BOOLEAN
          /\ parentDone' \in BOOLEAN
          /\ session' \in BOOLEAN /\ timedOut' \in BOOLEAN
          /\ closeOnce' \in {"new", "busy", "done"}
      BY <1>0, ZenonT(60) DEF IInv, TypeOK, drainStart, drainCheck, drainWake, drainTimeout,
                  closeMark, closeCancel, closeSession, closeAgain
    <2>4. pc' \in [Drainers -> {"idle", "check", "select", "close", "cancel",
                                "teardown", "done"}]
      BY <1>0, Zenon DEF IInv, TypeOK, drainStart, drainCheck, drainWake, drainTimeout,
                  closeMark, closeCancel, closeSession, closeAgain, Goto
    <2> QED  BY <2>1, <2>2, <2>3, <2>4, Zenon DEF TypeOK
  <1>3. ActiveCountsLeases'
    BY <1>1, DrainerHolders, Zenon DEF IInv, ActiveCountsLeases
  <1>4. Shut'
    BY <1>0 DEF IInv, TypeOK, Shut, drainStart, drainCheck, drainWake,
                drainTimeout, closeMark, closeCancel, closeSession, closeAgain,
                Goto
  <1>5. PastIsEmpty'
    BY <1>0, <1>1, Zenon DEF IInv, TypeOK, PastIsEmpty, Past, drainStart, drainCheck,
                drainWake, drainTimeout, closeMark, closeCancel, closeSession,
                closeAgain, Goto
  <1> QED  BY <1>2, <1>3, <1>4, <1>5, Zenon DEF IInv

LEMMA ParentStep ==
  ASSUME IInv, parentEnds
  PROVE  IInv'
  <1>1. UNCHANGED <<admission, active, closed, lease, pc, timedOut>>
    BY Zenon DEF parentEnds
  <1>2. TypeOK'  BY Zenon DEF IInv, TypeOK, parentEnds
  <1>3. ActiveCountsLeases'
    BY <1>1, DrainerHolders, Zenon DEF IInv, ActiveCountsLeases
  <1>4. Shut' /\ PastIsEmpty'
    BY <1>1, Zenon DEF IInv, Shut, PastIsEmpty, Past
  <1> QED  BY <1>2, <1>3, <1>4, Zenon DEF IInv

LEMMA StutterIInv == IInv /\ UNCHANGED vars => IInv'
  BY DEF vars, IInv, TypeOK, ActiveCountsLeases, Holders, Shut, PastIsEmpty, Past

LEMMA NextIInv == IInv /\ [Next]_vars => IInv'
  BY CallerStep, DrainerStep, ParentStep, StutterIInv, Zenon DEF Next

(* The inductive invariant holds in every reachable state of a generation. *)
THEOREM Inductive == Spec => []IInv
  BY InitIInv, NextIInv, PTL DEF Spec

(* The types, and with them the bound on calls in flight: active never     *)
(* exceeds maxConcurrency (types.go: acquire).                             *)
THEOREM TypeCorrect == Spec => []TypeOK
  <1>1. IInv => TypeOK  BY Zenon DEF IInv
  <1> QED  BY <1>1, Inductive, PTL

(* The counter is the number of leases out, for any number of callers that *)
(* release as often as they like (types.go: acquire, release, Release).    *)
THEOREM CountIsExact == Spec => []ActiveCountsLeases
  <1>1. IInv => ActiveCountsLeases  BY Zenon DEF IInv
  <1> QED  BY <1>1, Inductive, PTL

(* A drain that did not time out leaves nobody inside, for any number of   *)
(* concurrent drainers (types.go: drain).                                  *)
THEOREM DrainIsSafe == Spec => []DrainedIsEmpty
  <1>1. IInv => DrainedIsEmpty
    <2> SUFFICES ASSUME IInv, ~timedOut,
                        NEW d \in Drainers, pc[d] \in Past
                 PROVE  Holders = {}
      BY Zenon DEF DrainedIsEmpty, Past
    <2>1. Cardinality(Holders) = 0
      BY Zenon DEF IInv, PastIsEmpty, ActiveCountsLeases
    <2> QED  BY <2>1, HoldersFinite, FS_EmptySet, Zenon
  <1> QED  BY <1>1, Inductive, PTL
-----------------------------------------------------------------------------
(* The token a wait needs: release leaves one when it takes the count to   *)
(* zero, drain waits only while the count is not zero, and whoever takes   *)
(* the token goes on to check.                                             *)
LEMMA CallerWakes ==
  ASSUME IInv, SomebodyWakes, NEW c \in Callers, acquire(c) \/ Release(c)
  PROVE  SomebodyWakes'
  <1>0. UNCHANGED pc  BY Zenon DEF acquire, Release
  <1>1. CASE acquire(c)
    <2>1. active' # 0  BY <1>1 DEF IInv, TypeOK, acquire
    <2> QED  BY <2>1, Zenon DEF SomebodyWakes
  <1>2. CASE Release(c) /\ lease[c] = "held"
    <2>1. active' = 0 => active - 1 <= 0
      BY <1>2, LimitPositive DEF IInv, TypeOK, Release, releaseOnce, release
    <2>2. active' = 0 => lastOut(active - 1)  BY <2>1, Zenon DEF lastOut
    <2>3. drainCh' = (drainCh \/ lastOut(active - 1))
      BY <1>2, Zenon DEF Release, releaseOnce, release
    <2> QED  BY <2>2, <2>3, Zenon DEF SomebodyWakes
  <1>3. CASE Release(c) /\ lease[c] # "held"
    BY <1>0, <1>3, ReleaseAgain, Zenon DEF SomebodyWakes
  <1> QED  BY <1>1, <1>2, <1>3, Zenon

LEMMA DrainerWakes ==
  ASSUME IInv, SomebodyWakes, NEW d \in Drainers, drain(d) \/ Close(d)
  PROVE  SomebodyWakes'
  <1>1. CASE drainCheck(d) /\ active # 0
    BY <1>1, Zenon DEF SomebodyWakes, drainCheck
  <1>2. CASE ~(drainCheck(d) /\ active # 0)
    <2>1. pc'[d] \notin {"idle", "select"}
      BY <1>2, Zenon DEF IInv, TypeOK, drain, Close, drainStart, drainCheck, drainWake,
                  drainTimeout, closeMark, closeCancel, closeSession, closeAgain, Goto
    <2> QED  BY <2>1, Zenon DEF SomebodyWakes
  <1> QED  BY <1>1, <1>2, Zenon

(* No lost wake-up, for any number of drainers and callers: with nobody    *)
(* inside, not all drainers sleep without a token (types.go: release,      *)
(* drain).                                                                 *)
THEOREM NoLostWakeup == Spec => []SomebodyWakes
  <1>1. Init => SomebodyWakes
    BY Zenon DEF Init, SomebodyWakes
  <1>2. IInv /\ SomebodyWakes /\ [Next]_vars => SomebodyWakes'
    <2>1. SomebodyWakes /\ UNCHANGED vars => SomebodyWakes'
      BY DEF vars, SomebodyWakes
    <2>2. SomebodyWakes /\ parentEnds => SomebodyWakes'
      BY DEF parentEnds, SomebodyWakes
    <2> QED  BY <2>1, <2>2, CallerWakes, DrainerWakes, Zenon DEF Next
  <1> QED  BY <1>1, <1>2, Inductive, PTL DEF Spec
-----------------------------------------------------------------------------
(* Refinement: the initial state is the gate's, and every step is a step   *)
(* of the gate or a stutter.                                               *)
LEMMA InitGate == Init => Gate!GateInit
  BY Zenon DEF Init, newGeneration, Gate!GateInit, Holders

LEMMA CallerGate ==
  ASSUME IInv, NEW c \in Callers, acquire(c) \/ Release(c)
  PROVE  [Gate!GateNext]_(Gate!gateVars)
  <1>0. UNCHANGED <<admission, timedOut, ctxDone, parentDone>>
    BY Zenon DEF acquire, Release
  <1>1. CASE acquire(c)
    <2>1. admission
      BY <1>1, Zenon DEF acquire, admits
    <2>2. Cardinality(Holders) < maxConcurrency
      BY <1>1, Zenon DEF IInv, ActiveCountsLeases, acquire, belowLimit
    <2>3. c \notin Holders /\ Holders' = Holders \cup {c}
      BY <1>1, AcquireHolders, Zenon
    <2>4. Gate!Cardinality(Holders) = Cardinality(Holders)
      BY Zenon DEF Gate!Cardinality, Cardinality
    <2>5. Gate!Take(c)  BY <1>0, <2>1, <2>2, <2>3, <2>4, Zenon DEF Gate!Take
    <2> QED  BY <2>5, Zenon DEF Gate!GateNext
  <1>2. CASE Release(c) /\ lease[c] = "held"
    <2>1. Gate!Give(c)  BY <1>0, <1>2, ReleaseHolders, Zenon DEF Gate!Give
    <2> QED  BY <2>1, Zenon DEF Gate!GateNext
  <1>3. CASE Release(c) /\ lease[c] # "held"
    BY <1>0, <1>3, ReleaseAgain, Zenon DEF Gate!gateVars
  <1> QED  BY <1>1, <1>2, <1>3, Zenon

LEMMA DrainerGate ==
  ASSUME IInv, NEW d \in Drainers, drain(d) \/ Close(d)
  PROVE  [Gate!GateNext]_(Gate!gateVars)
  <1>0. Holders' = Holders
    BY Zenon DEF Holders, drain, Close, drainStart, drainCheck, drainWake,
           drainTimeout, closeMark, closeCancel, closeSession, closeAgain
  <1>1. CASE drainStart(d)
    <2>1. CASE admission
      <3>1. Gate!Shut  BY <1>0, <1>1, <2>1, Zenon DEF drainStart, Gate!Shut
      <3> QED  BY <3>1, Zenon DEF Gate!GateNext
    <2>2. CASE ~admission
      BY <1>0, <1>1, <2>2, Zenon DEF IInv, TypeOK, drainStart, Gate!gateVars
    <2> QED  BY <2>1, <2>2, Zenon
  <1>2. CASE drainTimeout(d)
    <2>1. ~admission
      BY <1>2, Zenon DEF IInv, Shut, drainTimeout
    <2>2. Gate!Expire
      BY <1>0, <1>2, <2>1, Zenon DEF drainTimeout, Gate!Expire
    <2> QED  BY <2>2, Zenon DEF Gate!GateNext
  <1>3. CASE closeCancel(d)
    <2>1. ~admission /\ pc[d] \in Past
      BY <1>3, Zenon DEF IInv, Shut, closeCancel, Past
    <2>2. timedOut \/ Cardinality(Holders) = 0
      BY <2>1, Zenon DEF IInv, PastIsEmpty, ActiveCountsLeases
    <2>3. timedOut \/ Holders = {}
      BY <2>2, HoldersFinite, FS_EmptySet, Zenon
    <2>4. Gate!TakeAway
      BY <1>0, <1>3, <2>1, <2>3, Zenon DEF closeCancel, Gate!TakeAway
    <2> QED  BY <2>4, Zenon DEF Gate!GateNext
  <1>4. CASE closeMark(d)
    BY <1>0, <1>4, Zenon DEF IInv, TypeOK, Shut, closeMark, Gate!gateVars
  <1>5. CASE drainCheck(d) \/ drainWake(d) \/ closeSession(d) \/ closeAgain(d)
    BY <1>0, <1>5, Zenon DEF drainCheck, drainWake, closeSession, closeAgain,
                      Gate!gateVars
  <1> QED  BY <1>1, <1>2, <1>3, <1>4, <1>5, Zenon DEF drain, Close

LEMMA ParentGate ==
  ASSUME parentEnds
  PROVE  Gate!Sever
  <1>1. Holders' = Holders  BY DrainerHolders, Zenon DEF parentEnds
  <1> QED  BY <1>1, Zenon DEF parentEnds, Gate!Sever

LEMMA NextGate == IInv /\ [Next]_vars => [Gate!GateNext]_(Gate!gateVars)
  <1>1. UNCHANGED vars => UNCHANGED Gate!gateVars
    BY DEF vars, Gate!gateVars, Holders
  <1>2. parentEnds => Gate!GateNext  BY ParentGate, Zenon DEF Gate!GateNext
  <1> QED  BY <1>1, <1>2, CallerGate, DrainerGate, Zenon DEF Next

(* The whole Generation implements the gate: bounded admission, shut for   *)
(* good, the context taken away only from nobody, after the deadline or by *)
(* the end of the coordinator's own (types.go: Generation).                *)
THEOREM GateRefinement == Spec => ImplementsGate
  BY Inductive, InitGate, NextGate, PTL DEF Spec, ImplementsGate, Gate!GateSpec
-----------------------------------------------------------------------------
(* The sync.Once of Close: its body is run by one goroutine, and only when *)
(* it has returned does anybody find it done, with the context cancelled   *)
(* and the session closed.                                                 *)
InBody(d) == pc[d] \in {"cancel", "teardown"}

OnceInv ==
    /\ closeOnce = "new" => session
    /\ closeOnce = "done" => ~session /\ ctxDone
    /\ \A d \in Drainers :
           /\ pc[d] = "cancel" => closeOnce = "busy" /\ session
           /\ pc[d] = "teardown" => closeOnce = "busy" /\ ctxDone
    /\ \A d, e \in Drainers : InBody(d) /\ InBody(e) => d = e

(* A step of one drainer leaves the others where they are.                 *)
LEMMA OthersStay ==
  ASSUME IInv, NEW d \in Drainers, drain(d) \/ Close(d)
  PROVE  \A e \in Drainers : e # d => pc'[e] = pc[e]
  BY Zenon DEF IInv, TypeOK, drain, Close, drainStart, drainCheck, drainWake,
         drainTimeout, closeMark, closeCancel, closeSession, closeAgain, Goto

LEMMA InitOnce == Init => OnceInv
  BY Zenon DEF Init, newGeneration, OnceInv, InBody

LEMMA DrainerOnce ==
  ASSUME IInv, OnceInv, NEW d \in Drainers, drain(d) \/ Close(d)
  PROVE  OnceInv'
  <1>0. \A e \in Drainers : e # d => pc'[e] = pc[e]  BY OthersStay, Zenon
  <1>1. CASE drain(d)
    <2>1. pc'[d] \notin {"cancel", "teardown"}
      BY <1>1, Zenon DEF IInv, TypeOK, drain, drainStart, drainCheck, drainWake,
             drainTimeout, Goto
    <2>2. UNCHANGED <<closeOnce, session, ctxDone>>
      BY <1>1, Zenon DEF drain, drainStart, drainCheck, drainWake, drainTimeout
    <2> QED  BY <1>0, <2>1, <2>2, Zenon DEF OnceInv, InBody
  <1>2. CASE closeMark(d)
    <2>1. /\ pc'[d] = "cancel" /\ closeOnce = "new" /\ closeOnce' = "busy"
          /\ UNCHANGED <<session, ctxDone>>
      BY <1>2, Zenon DEF IInv, TypeOK, closeMark, Goto
    <2>2. \A e \in Drainers : ~InBody(e)
      BY <2>1, Zenon DEF OnceInv, InBody
    <2> QED  BY <1>0, <2>1, <2>2, Zenon DEF OnceInv, InBody
  <1>3. CASE closeCancel(d)
    <2>1. /\ pc[d] = "cancel" /\ pc'[d] = "teardown" /\ ctxDone' = TRUE
          /\ UNCHANGED <<session, closeOnce>>
      BY <1>3, Zenon DEF IInv, TypeOK, closeCancel, Goto
    <2>2. closeOnce = "busy" /\ \A e \in Drainers : e # d => ~InBody(e)
      BY <2>1, Zenon DEF OnceInv, InBody
    <2> QED  BY <1>0, <2>1, <2>2, Zenon DEF OnceInv, InBody
  <1>4. CASE closeSession(d)
    <2>1. /\ pc[d] = "teardown" /\ pc'[d] = "done"
          /\ session' = FALSE /\ closeOnce' = "done" /\ UNCHANGED ctxDone
      BY <1>4, Zenon DEF IInv, TypeOK, closeSession, Goto
    <2>2. ctxDone /\ \A e \in Drainers : e # d => ~InBody(e)
      BY <2>1, Zenon DEF OnceInv, InBody
    <2> QED  BY <1>0, <2>1, <2>2, Zenon DEF OnceInv, InBody
  <1>5. CASE closeAgain(d)
    <2>1. pc'[d] = "done" /\ UNCHANGED <<closeOnce, session, ctxDone>>
      BY <1>5, Zenon DEF IInv, TypeOK, closeAgain, Goto
    <2> QED  BY <1>0, <2>1, Zenon DEF OnceInv, InBody
  <1> QED  BY <1>1, <1>2, <1>3, <1>4, <1>5, Zenon DEF Close

LEMMA OnceFrame ==
  ASSUME OnceInv, UNCHANGED <<closeOnce, session, ctxDone, pc>>
  PROVE  OnceInv'
  BY Zenon DEF OnceInv, InBody

(* The coordinator's context only adds to what is cancelled.               *)
LEMMA ParentOnce ==
  ASSUME OnceInv, parentEnds
  PROVE  OnceInv'
  BY Zenon DEF OnceInv, InBody, parentEnds

LEMMA NextOnce == IInv /\ OnceInv /\ [Next]_vars => OnceInv'
  <1>1. ASSUME OnceInv, UNCHANGED vars PROVE OnceInv'
    BY <1>1, OnceFrame, Zenon DEF vars
  <1>2. ASSUME OnceInv, NEW c \in Callers, acquire(c) \/ Release(c)
        PROVE  OnceInv'
    BY <1>2, OnceFrame, Zenon DEF acquire, Release
  <1> QED  BY <1>1, <1>2, DrainerOnce, ParentOnce, Zenon DEF Next

(* One goroutine runs the body of Close, however many call it, and nobody  *)
(* returns from Close before that body is through (types.go: Close).       *)
THEOREM CloseRunsOnce == Spec => []OnceInv
  BY InitOnce, NextOnce, Inductive, PTL DEF Spec
-----------------------------------------------------------------------------
(* Refinement of the view: drainStart is Drain, closeCancel is Dies unless *)
(* the coordinator's context was first, parentEnds is Severs, the two ways *)
(* out of Close are Retire, everything else is a stutter.                  *)
stages == [d \in Drainers |-> stageOf(d)]

LEMMA StagesMove ==
  ASSUME NEW d \in Drainers,
         \A e \in Drainers : e # d => pc'[e] = pc[e],
         NEW s, stageOf(d)' = s
  PROVE  stages' = [stages EXCEPT ![d] = s]
  <1>1. \A e \in Drainers : e # d => stageOf(e)' = stageOf(e)
    BY Zenon DEF stageOf
  <1>2. stages' = [e \in Drainers |-> stageOf(e)']  BY Zenon DEF stages
  <1>3. \A e \in Drainers : stageOf(e)' = IF e = d THEN s ELSE stages[e]
    BY <1>1, Zenon DEF stages
  <1>4. DOMAIN stages = Drainers  BY Zenon DEF stages
  <1> QED  BY <1>2, <1>3, <1>4, Zenon

LEMMA StagesStay ==
  ASSUME \A e \in Drainers : stageOf(e)' = stageOf(e)
  PROVE  stages' = stages
  BY Zenon DEF stages

LEMMA InitView == Init => View!ViewInit
  BY DEF Init, newGeneration, View!ViewInit, stageOf

LEMMA CallerView ==
  ASSUME NEW c \in Callers, acquire(c) \/ Release(c)
  PROVE  UNCHANGED View!viewVars
  <1>1. UNCHANGED <<admission, session, ctxDone, parentDone, pc>>
    BY Zenon DEF acquire, Release
  <1>2. stages' = stages  BY <1>1, StagesStay, Zenon DEF stageOf
  <1> QED  BY <1>1, <1>2, Zenon DEF View!viewVars, stages

LEMMA DrainerView ==
  ASSUME IInv, OnceInv, NEW d \in Drainers, drain(d) \/ Close(d)
  PROVE  [View!ViewNext]_(View!viewVars)
  <1>0. \A e \in Drainers : e # d => pc'[e] = pc[e]  BY OthersStay, Zenon
  <1>a. stages[d] = stageOf(d)  BY Zenon DEF stages
  <1>b. \A e \in Drainers : e # d => stageOf(e)' = stageOf(e)
    BY <1>0, Zenon DEF stageOf
  <1>1. CASE drainStart(d)
    <2>1. pc[d] = "idle" /\ pc'[d] \in {"close", "check"}
      BY <1>1, Zenon DEF IInv, TypeOK, drainStart, Goto
    <2>2. stageOf(d) = "idle" /\ stageOf(d)' = "draining"
      BY <2>1 DEF stageOf
    <2>3. stages' = [stages EXCEPT ![d] = "draining"]
      BY <1>0, <2>2, StagesMove, Zenon
    <2>4. View!Drain(d)
      BY <1>1, <1>a, <2>2, <2>3, Zenon DEF drainStart, View!Drain, stages
    <2> QED  BY <2>4, Zenon DEF View!ViewNext
  <1>2. CASE closeCancel(d)
    <2>1. pc[d] = "cancel" /\ pc'[d] = "teardown"
      BY <1>2, Zenon DEF IInv, TypeOK, closeCancel, Goto
    <2>2. session  BY <2>1, Zenon DEF OnceInv
    <2>3. stageOf(d) = "draining" /\ stageOf(d)' = "draining"
      BY <2>1 DEF stageOf
    <2>4. stages' = stages  BY <1>b, <2>3, StagesStay, Zenon
    <2>5. CASE ~ctxDone
      <3>1. View!Dies
        BY <1>2, <1>a, <2>2, <2>3, <2>4, <2>5, Zenon DEF closeCancel, View!Dies, stages
      <3> QED  BY <3>1, Zenon DEF View!ViewNext
    <2>6. CASE ctxDone
      BY <1>2, <2>4, <2>6, Zenon DEF IInv, TypeOK, closeCancel, View!viewVars, stages
    <2> QED  BY <2>5, <2>6, Zenon
  <1>3. CASE closeSession(d) \/ closeAgain(d)
    <2>1. pc[d] \in {"teardown", "close"} /\ pc'[d] = "done"
      BY <1>3, Zenon DEF IInv, TypeOK, closeSession, closeAgain, Goto
    <2>2. stageOf(d) = "draining" /\ stageOf(d)' = "retired"
      BY <2>1 DEF stageOf
    <2>3. stages' = [stages EXCEPT ![d] = "retired"]
      BY <1>0, <2>2, StagesMove, Zenon
    <2>4. session' = FALSE
      BY <1>3, Zenon DEF IInv, TypeOK, OnceInv, closeSession, closeAgain
    <2>5. ctxDone' = TRUE
      BY <1>3, Zenon DEF IInv, TypeOK, OnceInv, closeSession, closeAgain
    <2>6. admission' = FALSE
      BY <1>3, <2>1, Zenon DEF IInv, TypeOK, Shut, closeSession, closeAgain
    <2>7. UNCHANGED parentDone
      BY <1>3, Zenon DEF closeSession, closeAgain
    <2>8. View!Retire(d)
      BY <1>a, <2>2, <2>3, <2>4, <2>5, <2>6, <2>7, Zenon DEF View!Retire, stages
    <2> QED  BY <2>8, Zenon DEF View!ViewNext
  <1>4. CASE drainCheck(d) \/ drainWake(d) \/ drainTimeout(d) \/ closeMark(d)
    <2>1. /\ pc[d] \in {"check", "select", "close"}
          /\ pc'[d] \in {"check", "select", "close", "cancel"}
      BY <1>4, Zenon DEF IInv, TypeOK, drainCheck, drainWake, drainTimeout,
             closeMark, Goto
    <2>2. stageOf(d)' = stageOf(d)  BY <2>1 DEF stageOf
    <2>3. stages' = stages  BY <1>b, <2>2, StagesStay, Zenon
    <2>4. admission' = admission
      BY <1>4, <2>1, Zenon DEF IInv, TypeOK, Shut, drainCheck, drainWake,
             drainTimeout, closeMark
    <2>5. UNCHANGED <<session, ctxDone, parentDone>>
      BY <1>4, Zenon DEF drainCheck, drainWake, drainTimeout, closeMark
    <2> QED  BY <2>3, <2>4, <2>5, Zenon DEF View!viewVars, stages
  <1> QED  BY <1>1, <1>2, <1>3, <1>4, Zenon DEF drain, Close

LEMMA ParentView ==
  ASSUME parentEnds
  PROVE  View!Severs
  <1>1. stages' = stages  BY StagesStay, Zenon DEF parentEnds, stageOf
  <1> QED  BY <1>1, Zenon DEF parentEnds, View!Severs, stages

LEMMA NextView ==
  IInv /\ OnceInv /\ [Next]_vars => [View!ViewNext]_(View!viewVars)
  <1>1. UNCHANGED vars => UNCHANGED View!viewVars
    BY DEF vars, View!viewVars, stageOf
  <1>2. parentEnds => View!ViewNext  BY ParentView, Zenon DEF View!ViewNext
  <1> QED  BY <1>1, <1>2, CallerView, DrainerView, Zenon DEF Next

(* drain and Close are the two steps Coordinator takes them for, for any   *)
(* number of goroutines that retire one generation (types.go: drain,       *)
(* Close).                                                                 *)
THEOREM ViewRefinement == Spec => ImplementsView
  BY Inductive, CloseRunsOnce, InitView, NextView, PTL
     DEF Spec, ImplementsView, View!ViewSpec

(* The Generation keeps both promises: the gate its callers see and the    *)
(* view its coordinator takes of it (types.go: the whole Generation).      *)
THEOREM Refinement == Spec => ImplementsBoth
  BY GateRefinement, ViewRefinement, PTL DEF ImplementsBoth
=============================================================================
