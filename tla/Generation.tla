----------------------------- MODULE Generation -----------------------------
(***************************************************************************)
(* One Generation of a downstream server (internal/manager/types.go): the  *)
(* admission flag, the count of active leases, the one-slot wake-up        *)
(* channel of drain, and Close behind a sync.Once.                         *)
(*                                                                         *)
(* Callers are the calls in flight (Coordinator.AcquireLease, then         *)
(* Lease.Release).  Drainers are the goroutines that run                   *)
(* "gen.drain(timeout); gen.Close()": the coordinator's own goroutine and  *)
(* a Coordinator.Stop.  Every section the code runs under g.mu is one      *)
(* step; a drainer waiting in select, or in sync.Once.Do behind another    *)
(* closer, can be overtaken by everybody else.  The generation's context   *)
(* is a child of the coordinator's (coordinator.go:                        *)
(* handleConnectingAndReady), which can end at any time.                   *)
(***************************************************************************)
EXTENDS Integers, FiniteSets

CONSTANTS Callers,               \* calls that may hold a lease
          Drainers,              \* goroutines that drain and close
          ConfiguredConcurrency, \* ResolvedServer.MaxConcurrency
          DefaultMaxConcurrency  \* config.DefaultMaxConcurrency

ASSUME CallersAssumption == IsFiniteSet(Callers)
ASSUME ConcurrencyAssumption ==
    /\ ConfiguredConcurrency \in Int
    /\ DefaultMaxConcurrency \in Nat \ {0}

VARIABLES admission,   \* Generation.admission
          active,      \* Generation.active
          drainCh,     \* a token is waiting in Generation.drainCh (capacity 1)
          closed,      \* Generation.closed
          ctxDone,     \* Generation.ctx has ended (what GenerationDone reports)
          parentDone,  \* the coordinator's context, its parent, has ended
          session,     \* Close has yet to close the session and the process
          closeOnce,   \* Generation.closeOnce: "new", "busy" or "done"
          lease,       \* lease[c]: the Lease object caller c was given last
          pc,          \* pc[d]: where drainer d is
          timedOut     \* a drain has returned because its timer fired

vars == <<admission, active, drainCh, closed, ctxDone, parentDone, session,
          closeOnce, lease, pc, timedOut>>

maxConcurrency ==
    IF ConfiguredConcurrency <= 0 THEN DefaultMaxConcurrency
                                  ELSE ConfiguredConcurrency

Holders == {c \in Callers : lease[c] = "held"}

TypeOK ==
    /\ admission \in BOOLEAN
    /\ active \in 0..maxConcurrency
    /\ drainCh \in BOOLEAN
    /\ closed \in BOOLEAN
    /\ ctxDone \in BOOLEAN
    /\ parentDone \in BOOLEAN
    /\ session \in BOOLEAN
    /\ closeOnce \in {"new", "busy", "done"}
    /\ lease \in [Callers -> {"none", "held", "released"}]
    /\ pc \in [Drainers -> {"idle", "check", "select", "close", "cancel",
                            "teardown", "done"}]
    /\ timedOut \in BOOLEAN

newGeneration ==
    /\ admission = TRUE
    /\ active = 0
    /\ drainCh = FALSE
    /\ closed = FALSE
    /\ ctxDone = FALSE
    /\ parentDone = FALSE
    /\ session = TRUE
    /\ closeOnce = "new"

Init ==
    /\ newGeneration
    /\ lease = [c \in Callers |-> "none"]
    /\ pc = [d \in Drainers |-> "idle"]
    /\ timedOut = FALSE
-----------------------------------------------------------------------------
admits_UntilClosed == ~closed
admits == admission /\ ~closed

belowLimit == active < maxConcurrency

(* acquire: the two refusals leave everything as it is.                    *)
acquire(c) ==
    /\ lease[c] # "held"
    /\ admits
    /\ belowLimit
    /\ active' = active + 1
    /\ lease' = [lease EXCEPT ![c] = "held"]
    /\ UNCHANGED <<admission, drainCh, closed, ctxDone, parentDone, session,
                   closeOnce, pc, timedOut>>

(* Generation.release: the counter never goes below zero, and reaching it  *)
(* leaves at most one token in drainCh.                                    *)
lastOut_BelowZero(remaining) == remaining < 0
lastOut(remaining) == remaining <= 0

release ==
    LET remaining == active - 1
    IN  /\ active' = IF remaining <= 0 THEN 0 ELSE remaining
        /\ drainCh' = (drainCh \/ lastOut(remaining))

(* Lease.Release runs release once, however often the holder calls it.     *)
releaseOnce_EveryTime(c) == TRUE
releaseOnce(c) == lease[c] = "held"

Release(c) ==
    /\ lease[c] # "none"
    /\ \/ releaseOnce(c) /\ release
       \/ ~releaseOnce(c) /\ UNCHANGED <<active, drainCh>>
    /\ lease' = [lease EXCEPT ![c] = "released"]
    /\ UNCHANGED <<admission, closed, ctxDone, parentDone, session, closeOnce,
                   pc, timedOut>>
-----------------------------------------------------------------------------
Goto(d, label) == pc' = [pc EXCEPT ![d] = label]

drainStart(d) ==
    /\ pc[d] = "idle"
    /\ admission' = FALSE
    /\ Goto(d, IF active = 0 THEN "close" ELSE "check")
    /\ UNCHANGED <<active, drainCh, closed, ctxDone, parentDone, session,
                   closeOnce, lease, timedOut>>

drainCheck(d) ==
    /\ pc[d] = "check"
    /\ Goto(d, IF active = 0 THEN "close" ELSE "select")
    /\ UNCHANGED <<admission, active, drainCh, closed, ctxDone, parentDone,
                   session, closeOnce, lease, timedOut>>

drainWake(d) ==
    /\ pc[d] = "select"
    /\ drainCh
    /\ drainCh' = FALSE
    /\ Goto(d, "check")
    /\ UNCHANGED <<admission, active, closed, ctxDone, parentDone, session,
                   closeOnce, lease, timedOut>>

drainTimeout_NoTimer(d) == FALSE /\ UNCHANGED vars
drainTimeout(d) ==
    /\ pc[d] = "select"
    /\ timedOut' = TRUE
    /\ Goto(d, "close")
    /\ UNCHANGED <<admission, active, drainCh, closed, ctxDone, parentDone,
                   session, closeOnce, lease>>

(* Close: the first closer runs the body of closeOnce.Do ...               *)
closeMark(d) ==
    /\ pc[d] = "close"
    /\ closeOnce = "new"
    /\ closeOnce' = "busy"
    /\ admission' = FALSE
    /\ closed' = TRUE
    /\ Goto(d, "cancel")
    /\ UNCHANGED <<active, drainCh, ctxDone, parentDone, session, lease,
                   timedOut>>

closeCancel(d) ==
    /\ pc[d] = "cancel"
    /\ ctxDone' = TRUE
    /\ Goto(d, "teardown")
    /\ UNCHANGED <<admission, active, drainCh, closed, parentDone, session,
                   closeOnce, lease, timedOut>>

closeSession(d) ==
    /\ pc[d] = "teardown"
    /\ session' = FALSE
    /\ closeOnce' = "done"
    /\ Goto(d, "done")
    /\ UNCHANGED <<admission, active, drainCh, closed, ctxDone, parentDone,
                   lease, timedOut>>

closeAgain_NoWait(d) ==
    /\ pc[d] = "close"
    /\ closeOnce # "new"
    /\ Goto(d, "done")
    /\ UNCHANGED <<admission, active, drainCh, closed, ctxDone, parentDone,
                   session, closeOnce, lease, timedOut>>

(* ... and any other closer waits in Do until that body has returned.      *)
closeAgain(d) ==
    /\ pc[d] = "close"
    /\ closeOnce = "done"
    /\ Goto(d, "done")
    /\ UNCHANGED <<admission, active, drainCh, closed, ctxDone, parentDone,
                   session, closeOnce, lease, timedOut>>

Close(d) == closeMark(d) \/ closeCancel(d) \/ closeSession(d) \/ closeAgain(d)

(* The coordinator's context ends: the manager's Stop gave up waiting for  *)
(* the drains or serving failed, with admission perhaps open and nobody    *)
(* draining.  drain does not look at it, and acquire goes on admitting.    *)
parentEnds ==
    /\ ~parentDone
    /\ parentDone' = TRUE
    /\ ctxDone' = TRUE
    /\ UNCHANGED <<admission, active, drainCh, closed, session, closeOnce,
                   lease, pc, timedOut>>

drain(d) ==
    drainStart(d) \/ drainCheck(d) \/ drainWake(d) \/ drainTimeout(d)
-----------------------------------------------------------------------------
Next ==
    \/ \E c \in Callers : acquire(c) \/ Release(c)
    \/ \E d \in Drainers : drain(d) \/ Close(d)
    \/ parentEnds

Spec == Init /\ [][Next]_vars

(* A goroutine that has begun to drain keeps running, and its timer fires; *)
(* nobody is obliged to begin one, and no call is obliged to end.          *)
Fairness ==
    \A d \in Drainers : WF_vars((drain(d) /\ pc[d] # "idle") \/ Close(d))

FairSpec == Spec /\ Fairness
-----------------------------------------------------------------------------
(* The counter behind the concurrency limit and the drain is the number of *)
(* calls that really hold a lease (types.go: acquire, release,             *)
(* Lease.Release), whatever order they end in and however often a lease is *)
(* released.                                                               *)
ActiveCountsLeases == active = Cardinality(Holders)

(* A drain that returned without its timer left nobody inside: from then   *)
(* on no call holds a lease of this generation, although acquire and       *)
(* release go on running concurrently (types.go: drain, acquire).          *)
DrainedIsEmpty ==
    (~timedOut /\ \E d \in Drainers : pc[d] \in {"close", "cancel", "teardown", "done"})
        => Holders = {}

(* When no call is left inside, the drainers do not all sleep in the       *)
(* select of drain with no token to wake one of them: the first drain ends *)
(* with the calls it waits for and not with its timer (types.go: release,  *)
(* drain).                                                                 *)
SomebodyWakes ==
    active = 0 /\ ~drainCh /\ (\E d \in Drainers : pc[d] = "select")
        => \E d \in Drainers : pc[d] \notin {"idle", "select"}

(* Every drain that began ends with the session closed and the drainer     *)
(* returned, also when two goroutines drain and close at the same time     *)
(* (types.go: drain, Close).                                               *)
DrainTerminates ==
    \A d \in Drainers :
        pc[d] # "idle" ~> (pc[d] = "done" /\ ~session)

(* The generation implements the gate of LeaseGate.                        *)
Gate == INSTANCE LeaseGate
            WITH Limit <- maxConcurrency, open <- admission,
                 holders <- Holders, expired <- timedOut,
                 lost <- ctxDone, severed <- parentDone

(* Bounded admission, a gate shut for good, and no context taken away from *)
(* an admitted call before the drain deadline unless the coordinator's own *)
(* context ended: every step of the code is a step of the gate or leaves   *)
(* it alone (types.go: the whole Generation; coordinator.go: genCtx).      *)
ImplementsGate == Gate!GateSpec

(* The generation is also what Coordinator takes it for.                   *)
stageOf(d) ==
    CASE pc[d] = "idle" -> "idle"
      [] pc[d] = "done" -> "retired"
      [] OTHER -> "draining"

View == INSTANCE GenerationView
            WITH open <- session, dead <- ctxDone, severed <- parentDone,
                 stage <- [d \in Drainers |-> stageOf(d)]

(* drain followed by Close looks to its caller like two steps, also when   *)
(* another goroutine is draining or closing the same generation and when   *)
(* the coordinator's context has ended meanwhile: admission is shut from   *)
(* the first on, and Close returns to every caller, not only to the one    *)
(* that ran the body of the sync.Once, with the session closed and the     *)
(* context cancelled (types.go: drain, Close).                             *)
ImplementsView == View!ViewSpec

(* What a generation promises to the calls and to the coordinator.         *)
ImplementsBoth == ImplementsGate /\ ImplementsView
=============================================================================
