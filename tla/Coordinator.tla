----------------------------- MODULE Coordinator -----------------------------
(***************************************************************************)
(* One Coordinator (internal/manager/coordinator.go): the goroutine "run"  *)
(* that connects, discovers, publishes, serves, drains and backs off for   *)
(* one downstream server, and the calls that reach it from other           *)
(* goroutines: UpdateConfig and Stop (from Manager.Apply and               *)
(* Manager.Stop, internal/manager/manager.go), Refresh, and the session's  *)
(* tools/list_changed callback.                                            *)
(*                                                                         *)
(* A section under c.mu is one step.  publishMu is a variable, because     *)
(* what it excludes is the point: a discovery result commits in three      *)
(* steps under it and everything that takes only c.mu runs in between.     *)
(* Every channel operation, network call and unlocked gap is a place where *)
(* the other goroutines may run.                                           *)
(*                                                                         *)
(* Abstracted data: a configuration is its enabled flag, one value for all *)
(* the settings diffConfig compares under changeConnection, the disabled   *)
(* tools and the call timeout.  Revisions are only compared for equality,  *)
(* so an update adds one to this server's own revision.  Generation ids    *)
(* are slots, reused once nobody refers to them.  A drain is the contract  *)
(* proved of Generation: admission closes, and the drainer goes on when    *)
(* the leases are back or its timer fires, which here is a free choice of  *)
(* moment.  Delays, counts, error texts and timestamps are left out.       *)
(* PublishServer cannot fail: the only error of UpdateServerTools is an id *)
(* that config validation has already refused with the same expression.    *)
(***************************************************************************)
EXTENDS Naturals

CONSTANTS
    Tools,       \* original tool names a downstream may offer
    Conns,       \* connection-level settings
    Timeouts,    \* call timeouts
    Configs,     \* resolved configurations Apply may bring
    Lists,       \* tool lists the downstream may have
    Gens,        \* generation slots
    NoGen,       \* the nil *Generation
    Refreshers,  \* callers of Refresh
    NoReq,       \* no request in refreshCh / the refresh has no caller
    MaxRevision  \* bound on the revisions Apply brings

ConfigType == [enabled : BOOLEAN, conn : Conns, disabled : SUBSET Tools,
               callTimeout : Timeouts]

ASSUME ConfigsAssumption == Configs \subseteq ConfigType /\ Configs # {}
ASSUME ListsAssumption == Lists \subseteq SUBSET Tools
ASSUME NilAssumption == NoGen \notin Gens /\ NoReq \notin Refreshers
ASSUME BoundAssumption == MaxRevision \in Nat

VARIABLES
    \* Coordinator fields guarded by c.mu
    desired, state, stopped, currentGen, cachedTools,
    operationCancel, operationRevision,
    opDone,        \* opCtx of the attempt in progress is cancelled
    ctxDone,       \* c.ctx is cancelled
    publishMu,     \* "free", or who holds it: "run" or "update"
    reconcileCh, toolChangedCh, refreshCh,    \* channels of capacity 1
    \* Generation fields
    admission, open, dead, conn, callTimeout,
    \* locals of the run goroutine
    pc, cont, held, tgt, attempt, listed, ref, asker,
    \* Coordinator.Stop, and the Manager call that asked for it
    spc, sgen, mpc,
    removed,       \* that call was an Apply that drops this server
    upd,           \* locals of UpdateConfig between its two steps
    \* callers of Refresh
    rpc, reply,
    \* the catalog entry of this server, and the downstream itself
    published, downTools,
    note,          \* a tools/list_changed is on its way to onToolListChanged
    refreshDropped \* history: the last tool refresh returned an error

fields    == <<desired, state, stopped, currentGen, cachedTools>>
operation == <<operationCancel, operationRevision, opDone>>
channels  == <<reconcileCh, toolChangedCh, refreshCh>>
gens      == <<admission, open, dead, conn, callTimeout>>
locals    == <<cont, held, tgt, attempt, listed, ref, asker>>
stopping  == <<spc, sgen, mpc, removed, upd, ctxDone>>
requests  == <<rpc, reply>>
down      == <<downTools, note, refreshDropped>>

vars == <<fields, operation, channels, gens, pc, locals, stopping, requests,
          publishMu, published, down>>

Desired == [rev : Nat, cfg : ConfigType]

(* What UpdateConfig carries from its section under c.mu to the rest: the  *)
(* kind of change, the revision of the operation to cancel (0: none), the  *)
(* generation, and whether the server was ready.                           *)
Changes == {"none", "tools", "timeout", "toolsAndTimeout", "connection"}

Update == [change : Changes, op : Nat, gen : Gens \cup {NoGen}, ready : BOOLEAN]

noUpdate == [change |-> "none", op |-> 0, gen |-> NoGen, ready |-> FALSE]

States == {"disabled", "connecting", "ready", "unavailable", "backoff",
           "draining", "closed"}

Labels == {"loop", "pick", "disable", "unpublish", "drain", "retire",
           "disabledWait", "connect", "takeOld", "limiter", "dial", "check",
           "discover", "errCheck", "lockPublish", "publish", "commit",
           "ready", "refreshList", "refreshLock", "refreshPublish", "failed",
           "enterBackoff", "backoff", "leave", "exit", "exiting", "exited"}

FlagsOK ==
    /\ stopped \in BOOLEAN /\ ctxDone \in BOOLEAN
    /\ operationCancel \in BOOLEAN /\ opDone \in BOOLEAN
    /\ reconcileCh \in BOOLEAN /\ toolChangedCh \in BOOLEAN
    /\ attempt \in BOOLEAN /\ removed \in BOOLEAN
    /\ note \in BOOLEAN /\ refreshDropped \in BOOLEAN

LabelsOK ==
    /\ state \in States
    /\ publishMu \in {"free", "run", "update"}
    /\ pc \in Labels
    /\ cont \in {"disabledWait", "limiter", "leave", "failed"}
    /\ spc \in {"idle", "drain", "retire", "cancel", "done"}
    /\ mpc \in {"serving", "removing", "stopping", "done"}

RevisionsOK ==
    /\ desired \in Desired /\ tgt \in Desired /\ ref \in Desired
    /\ operationRevision \in Nat
    /\ upd \in Update

ToolsOK ==
    /\ cachedTools \in SUBSET Tools /\ listed \in SUBSET Tools
    /\ published \in SUBSET Tools /\ downTools \in SUBSET Tools

GenerationsOK ==
    /\ admission \in [Gens -> BOOLEAN]
    /\ open \in [Gens -> BOOLEAN]
    /\ dead \in [Gens -> BOOLEAN]
    /\ conn \in [Gens -> Conns]
    /\ callTimeout \in [Gens -> Timeouts]

(* The ready loop and the refresh never work on a nil generation.          *)
PointersOK ==
    /\ currentGen \in Gens \cup {NoGen}
    /\ held \in Gens \cup {NoGen}
    /\ sgen \in Gens \cup {NoGen}
    /\ pc \in {"ready", "refreshList", "refreshLock", "refreshPublish"} =>
           held \in Gens

RequestsOK ==
    /\ refreshCh \in Refreshers \cup {NoReq}
    /\ asker \in Refreshers \cup {NoReq}
    /\ rpc \in [Refreshers -> {"idle", "send", "wait"}]
    /\ reply \in [Refreshers -> {"none", "nil", "error"}]

TypeOK ==
    /\ FlagsOK /\ LabelsOK /\ RevisionsOK /\ ToolsOK
    /\ GenerationsOK /\ PointersOK /\ RequestsOK

(* The value of a local that is out of scope.                              *)
unset == [rev |-> 0, cfg |-> CHOOSE c \in Configs : TRUE]

Init ==
    /\ \E c \in Configs : desired = [rev |-> 1, cfg |-> c]
    /\ state = IF desired.cfg.enabled THEN "connecting" ELSE "disabled"
    /\ stopped = FALSE
    /\ currentGen = NoGen
    /\ cachedTools = {}
    /\ operationCancel = FALSE /\ operationRevision = 0 /\ opDone = FALSE
    /\ ctxDone = FALSE
    /\ publishMu = "free"
    /\ reconcileCh = FALSE /\ toolChangedCh = FALSE /\ refreshCh = NoReq
    /\ admission = [g \in Gens |-> FALSE]
    /\ open = [g \in Gens |-> FALSE]
    /\ dead = [g \in Gens |-> TRUE]
    /\ conn = [g \in Gens |-> desired.cfg.conn]
    /\ callTimeout = [g \in Gens |-> desired.cfg.callTimeout]
    /\ pc = "loop" /\ cont = "leave" /\ held = NoGen
    /\ tgt = unset /\ attempt = FALSE /\ listed = {}
    /\ ref = unset /\ asker = NoReq
    /\ spc = "idle" /\ sgen = NoGen /\ mpc = "serving" /\ removed = FALSE
    /\ upd = noUpdate
    /\ rpc = [r \in Refreshers |-> "idle"]
    /\ reply = [r \in Refreshers |-> "none"]
    /\ published = {}
    /\ downTools \in Lists
    /\ note = FALSE /\ refreshDropped = FALSE

(* targetCurrent: the revision being connected is still the wanted one.    *)
targetCurrent_AnyRevision == ~stopped /\ desired.cfg.enabled

targetCurrent_IgnoresStop == desired.cfg.enabled /\ desired.rev = tgt.rev

targetCurrent == ~stopped /\ desired.cfg.enabled /\ desired.rev = tgt.rev

opCtxErr == opDone \/ ctxDone

(* What the catalog publishes of a tool list: the names the configuration  *)
(* does not disable (names, schemas and capacity are the catalog's own).   *)
Filter(tools, cfg) == tools \ cfg.disabled

Free(g) == ~open[g] /\ g \notin {currentGen, held, sgen}

Goto(from, to) == pc = from /\ pc' = to

(* gen.drain: admission closes at once; a nil generation is skipped.       *)
DrainStart(g) ==
    admission' = IF g = NoGen THEN admission
                              ELSE [admission EXCEPT ![g] = FALSE]

Retire_NoClose(g) ==
    /\ UNCHANGED <<open, dead>>
    /\ DrainStart(g)

(* gen.Close, when the leases are back or the drain timer has fired.       *)
Retire(g) ==
    IF g = NoGen THEN UNCHANGED <<admission, open, dead>>
    ELSE /\ admission' = [admission EXCEPT ![g] = FALSE]
         /\ open' = [open EXCEPT ![g] = FALSE]
         /\ dead' = [dead EXCEPT ![g] = TRUE]

Reply_OnlySuccess(r, answer) ==
    reply' = IF r \in Refreshers /\ rpc[r] = "wait" /\ answer = "nil"
             THEN [reply EXCEPT ![r] = answer] ELSE reply

(* The answer to a Refresh; its channel has room, so nobody blocks, and an *)
(* answer to a caller that has given up is garbage.                        *)
Reply(r, answer) ==
    reply' = IF r \in Refreshers /\ rpc[r] = "wait"
             THEN [reply EXCEPT ![r] = answer] ELSE reply
-----------------------------------------------------------------------------
(* run: the loop, and the deferred Stop on the way out.                    *)
runLoop ==
    /\ \/ ctxDone /\ Goto("loop", "exit")
       \/ ~ctxDone /\ Goto("loop", "pick")
    /\ UNCHANGED <<fields, operation, channels, gens, locals, stopping,
                   requests, publishMu, published, down>>

runPick ==
    /\ \/ stopped /\ Goto("pick", "exit")
       \/ ~stopped /\ desired.cfg.enabled /\ Goto("pick", "connect")
       \/ ~stopped /\ ~desired.cfg.enabled /\ Goto("pick", "disable")
    /\ UNCHANGED <<fields, operation, channels, gens, locals, stopping,
                   requests, publishMu, published, down>>

(* "gen.drain(c.drainTimeout); gen.Close()" wherever run executes it.      *)
runDrain ==
    /\ Goto("drain", "retire")
    /\ DrainStart(held)
    /\ UNCHANGED <<fields, operation, channels, open, dead, conn, callTimeout,
                   locals, stopping, requests, publishMu, published, down>>

runRetire ==
    /\ Goto("retire", cont)
    /\ Retire(held)
    /\ held' = NoGen
    /\ cont' = "leave"
    /\ UNCHANGED <<fields, operation, channels, conn, callTimeout, tgt, attempt,
                   listed, ref, asker, stopping, requests, publishMu,
                   published, down>>
-----------------------------------------------------------------------------
(* handleDisabled                                                          *)
handleDisabled ==
    /\ \/ /\ stopped
          /\ Goto("disable", "loop")
          /\ UNCHANGED <<state, currentGen, held, cont>>
       \/ /\ ~stopped
          /\ Goto("disable", "unpublish")
          /\ state' = "disabled"
          /\ held' = currentGen
          /\ currentGen' = NoGen
          /\ cont' = "disabledWait"
    /\ UNCHANGED <<desired, stopped, cachedTools, operation, channels, gens,
                   tgt, attempt, listed, ref, asker, stopping, requests,
                   publishMu, published, down>>

disabledUnpublish_Keeps ==
    /\ Goto("unpublish", "drain")
    /\ UNCHANGED <<fields, operation, channels, gens, locals, stopping,
                   requests, publishMu, published, down>>

disabledUnpublish ==
    /\ publishMu = "free"
    /\ Goto("unpublish", "drain")
    /\ published' = {}
    /\ UNCHANGED <<fields, operation, channels, gens, locals, stopping,
                   requests, publishMu, down>>

disabledWait ==
    /\ Goto("disabledWait", "loop")
    /\ \/ /\ reconcileCh
          /\ reconcileCh' = FALSE
          /\ UNCHANGED <<refreshCh, reply>>
       \/ /\ refreshCh # NoReq
          /\ refreshCh' = NoReq
          /\ Reply(refreshCh, "error")
          /\ UNCHANGED reconcileCh
       \/ ctxDone /\ UNCHANGED <<reconcileCh, refreshCh, reply>>
    /\ UNCHANGED <<fields, operation, toolChangedCh, gens, locals, stopping,
                   rpc, publishMu, published, down>>
-----------------------------------------------------------------------------
(* handleConnectingAndReady                                                *)
connectStart ==
    /\ \/ /\ stopped \/ ctxDone
          /\ Goto("connect", "loop")
          /\ UNCHANGED <<state, operation, tgt>>
       \/ /\ ~stopped /\ ~ctxDone
          /\ Goto("connect", "takeOld")
          /\ state' = "connecting"
          /\ tgt' = desired
          /\ operationCancel' = TRUE
          /\ operationRevision' = desired.rev
          /\ opDone' = FALSE
    /\ UNCHANGED <<desired, stopped, currentGen, cachedTools, channels, gens,
                   cont, held, attempt, listed, ref, asker, stopping,
                   requests, publishMu, published, down>>

drainAndCloseOldGen ==
    /\ Goto("takeOld", "drain")
    /\ held' = currentGen
    /\ currentGen' = NoGen
    /\ cont' = "limiter"
    /\ UNCHANGED <<desired, state, stopped, cachedTools, operation, channels,
                   gens, tgt, attempt, listed, ref, asker, stopping, requests,
                   publishMu, published, down>>

limiterSelect ==
    /\ \/ Goto("limiter", "dial") /\ UNCHANGED reconcileCh
       \/ opCtxErr /\ Goto("limiter", "leave") /\ UNCHANGED reconcileCh
       \/ reconcileCh /\ Goto("limiter", "leave") /\ reconcileCh' = FALSE
    /\ UNCHANGED <<fields, operation, toolChangedCh, refreshCh, gens, locals,
                   stopping, requests, publishMu, published, down>>

(* CreateSession returns a session or an error, whatever opCtx says.       *)
createSession ==
    /\ \/ Goto("dial", "check") /\ attempt' = TRUE
       \/ Goto("dial", "errCheck") /\ UNCHANGED attempt
    /\ UNCHANGED <<fields, operation, channels, gens, cont, held, tgt, listed,
                   ref, asker, stopping, requests, publishMu, published, down>>

checkTarget_Leaks ==
    /\ Goto("check", IF targetCurrent THEN "discover" ELSE "leave")
    /\ UNCHANGED <<fields, operation, channels, gens, locals, stopping,
                   requests, publishMu, published, down>>

checkTarget ==
    /\ \/ ~targetCurrent /\ Goto("check", "leave") /\ attempt' = FALSE
       \/ targetCurrent /\ Goto("check", "discover") /\ UNCHANGED attempt
    /\ UNCHANGED <<fields, operation, channels, gens, cont, held, tgt, listed,
                   ref, asker, stopping, requests, publishMu, published, down>>

(* ListAllTools returns the downstream's list, or an error and the attempt *)
(* is closed.                                                              *)
discover ==
    /\ \/ /\ Goto("discover", "lockPublish")
          /\ listed' = downTools
          /\ UNCHANGED attempt
       \/ /\ Goto("discover", "errCheck")
          /\ attempt' = FALSE
          /\ UNCHANGED listed
    /\ UNCHANGED <<fields, operation, channels, gens, cont, held, tgt, ref,
                   asker, stopping, requests, publishMu, published, down>>

connectError ==
    /\ \/ (opCtxErr \/ ~targetCurrent) /\ Goto("errCheck", "leave")
       \/ ~opCtxErr /\ targetCurrent /\ Goto("errCheck", "failed")
    /\ UNCHANGED <<fields, operation, channels, gens, locals, stopping,
                   requests, publishMu, published, down>>

lockPublish ==
    /\ publishMu = "free"
    /\ \/ /\ ~targetCurrent
          /\ Goto("lockPublish", "leave")
          /\ attempt' = FALSE
          /\ UNCHANGED publishMu
       \/ /\ targetCurrent
          /\ Goto("lockPublish", "publish")
          /\ publishMu' = "run"
          /\ UNCHANGED attempt
    /\ UNCHANGED <<fields, operation, channels, gens, cont, held, tgt, listed,
                   ref, asker, stopping, requests, published, down>>

publishDiscovered ==
    /\ Goto("publish", "commit")
    /\ published' = Filter(listed, tgt.cfg)
    /\ UNCHANGED <<fields, operation, channels, gens, locals, stopping,
                   requests, publishMu, down>>

(* The last check under c.mu: install the new generation and become ready, *)
(* or roll the publication back (which CommitIsCurrent shows is never      *)
(* needed).                                                                *)
install_ReadsOldGen(g) ==
    /\ Free(g)
    /\ admission' = [admission EXCEPT ![g] = TRUE]
    /\ open' = [open EXCEPT ![g] = TRUE]
    /\ dead' = [dead EXCEPT ![g] = FALSE]
    /\ conn' = [conn EXCEPT ![g] = tgt.cfg.conn]
    /\ callTimeout' = [callTimeout EXCEPT ![g] = tgt.cfg.callTimeout]
    /\ currentGen' = g
    /\ held' = currentGen

install(g) ==
    /\ Free(g)
    /\ admission' = [admission EXCEPT ![g] = TRUE]
    /\ open' = [open EXCEPT ![g] = TRUE]
    /\ dead' = [dead EXCEPT ![g] = FALSE]
    /\ conn' = [conn EXCEPT ![g] = tgt.cfg.conn]
    /\ callTimeout' = [callTimeout EXCEPT ![g] = tgt.cfg.callTimeout]
    /\ currentGen' = g
    /\ held' = g

(* The startup context is the session's lifetime (downstream/session.go,   *)
(* dialTransport): from here on nobody may cancel it for another revision. *)
disownStartup_Forgotten == UNCHANGED operationCancel

disownStartup == operationCancel' = FALSE

commit ==
    /\ pc = "commit"
    /\ IF targetCurrent
       THEN /\ \E g \in Gens : install(g)
            /\ cachedTools' = listed
            /\ state' = "ready"
            /\ disownStartup
            /\ refreshDropped' = FALSE
            /\ pc' = "ready"
            /\ UNCHANGED published
       ELSE /\ published' = {}
            /\ pc' = "leave"
            /\ UNCHANGED <<gens, currentGen, held, cachedTools, state,
                           operationCancel, refreshDropped>>
    /\ attempt' = FALSE
    /\ listed' = {}
    /\ publishMu' = "free"
    /\ UNCHANGED <<desired, stopped, operationRevision, opDone, channels, cont,
                   tgt, ref, asker, stopping, requests, downTools,
                   note>>

(* The deferred function: cancel the operation, forget it if it is ours.   *)
leave ==
    /\ Goto("leave", "loop")
    /\ opDone' = TRUE
    /\ operationCancel' = (operationCancel /\ operationRevision # tgt.rev)
    /\ tgt' = unset
    /\ listed' = {}
    /\ UNCHANGED <<fields, operationRevision, channels, gens, cont, held,
                   attempt, ref, asker, stopping, requests, publishMu,
                   published, down>>
-----------------------------------------------------------------------------
(* readyLoop                                                               *)
readyReconcile ==
    /\ reconcileCh
    /\ Goto("ready", "drain")
    /\ reconcileCh' = FALSE
    /\ state' = "draining"
    /\ cont' = "leave"
    /\ UNCHANGED <<desired, stopped, currentGen, cachedTools, operation,
                   toolChangedCh, refreshCh, gens, held, tgt, attempt, listed,
                   ref, asker, stopping, requests, publishMu, published, down>>

readyTick ==
    /\ Goto("ready", "drain")
    /\ dead[held]
    /\ state' = "unavailable"
    /\ cont' = "failed"
    /\ UNCHANGED <<desired, stopped, currentGen, cachedTools, operation,
                   channels, gens, held, tgt, attempt, listed, ref, asker,
                   stopping, requests, publishMu, published, down>>

readyCancelled ==
    /\ ctxDone
    /\ Goto("ready", "drain")
    /\ cont' = "leave"
    /\ UNCHANGED <<fields, operation, channels, gens, held, tgt, attempt,
                   listed, ref, asker, stopping, requests, publishMu,
                   published, down>>

(* refreshTools, for a list_changed token or for a caller of Refresh; it   *)
(* ends in an answer, and its locals are gone.                             *)
superseded == currentGen # held \/ state # "ready"

refreshDone(r, answer) ==
    /\ pc' = "ready"
    /\ Reply(r, answer)
    /\ refreshDropped' = (answer = "error")
    /\ ref' = unset /\ asker' = NoReq /\ listed' = {}

refreshStart(r) ==
    /\ pc = "ready"
    /\ IF superseded
       THEN refreshDone(r, "error")
       ELSE /\ pc' = "refreshList"
            /\ ref' = desired
            /\ asker' = r
            /\ UNCHANGED <<listed, reply, refreshDropped>>
    /\ UNCHANGED <<fields, operation, reconcileCh, gens, cont, held, tgt,
                   attempt, stopping, rpc, publishMu, published, downTools,
                   note>>

readyToolsChanged ==
    /\ toolChangedCh
    /\ toolChangedCh' = FALSE
    /\ refreshStart(NoReq)
    /\ UNCHANGED refreshCh

readyRefresh ==
    /\ refreshCh # NoReq
    /\ refreshCh' = NoReq
    /\ refreshStart(refreshCh)
    /\ UNCHANGED toolChangedCh

refreshList ==
    /\ pc = "refreshList"
    /\ \/ /\ ~dead[held]
          /\ pc' = "refreshLock"
          /\ listed' = downTools
          /\ UNCHANGED <<ref, asker, reply, refreshDropped>>
       \/ refreshDone(asker, "error")
    /\ UNCHANGED <<fields, operation, channels, gens, cont, held, tgt, attempt,
                   stopping, rpc, publishMu, published, downTools, note>>

refreshStale_SameGeneration == stopped \/ superseded

refreshStale == stopped \/ superseded \/ desired.rev # ref.rev

refreshLock ==
    /\ pc = "refreshLock"
    /\ publishMu = "free"
    /\ IF refreshStale
       THEN refreshDone(asker, "error") /\ UNCHANGED publishMu
       ELSE /\ pc' = "refreshPublish"
            /\ publishMu' = "run"
            /\ UNCHANGED <<listed, ref, asker, reply, refreshDropped>>
    /\ UNCHANGED <<fields, operation, channels, gens, cont, held, tgt, attempt,
                   stopping, rpc, published, downTools, note>>

refreshPublish ==
    /\ pc = "refreshPublish"
    /\ published' = Filter(listed, ref.cfg)
    /\ cachedTools' = IF currentGen = held /\ desired.rev = ref.rev
                      THEN listed ELSE cachedTools
    /\ publishMu' = "free"
    /\ refreshDone(asker, "nil")
    /\ UNCHANGED <<desired, state, stopped, currentGen, operation, channels,
                   gens, cont, held, tgt, attempt, stopping, rpc, downTools,
                   note>>
-----------------------------------------------------------------------------
(* handleConnectFailure                                                    *)
connectFailed ==
    /\ \/ (stopped \/ ctxDone) /\ Goto("failed", "leave") /\ UNCHANGED state
       \/ ~stopped /\ ~ctxDone /\ Goto("failed", "enterBackoff")
          /\ state' = "unavailable"
    /\ UNCHANGED <<desired, stopped, currentGen, cachedTools, operation,
                   channels, gens, locals, stopping, requests, publishMu,
                   published, down>>

enterBackoff ==
    /\ \/ stopped /\ Goto("enterBackoff", "leave") /\ UNCHANGED state
       \/ ~stopped /\ Goto("enterBackoff", "backoff") /\ state' = "backoff"
    /\ UNCHANGED <<desired, stopped, currentGen, cachedTools, operation,
                   channels, gens, locals, stopping, requests, publishMu,
                   published, down>>

(* The select of handleConnectFailure; its ctx.Done case leaves like the   *)
(* delay.                                                                  *)
backoffDelay ==
    /\ Goto("backoff", "leave")
    /\ UNCHANGED <<fields, operation, channels, gens, locals, stopping,
                   requests, publishMu, published, down>>

backoffReconcile ==
    /\ reconcileCh
    /\ Goto("backoff", "leave")
    /\ reconcileCh' = FALSE
    /\ UNCHANGED <<fields, operation, toolChangedCh, refreshCh, gens, locals,
                   stopping, requests, publishMu, published, down>>

backoffRefresh ==
    /\ refreshCh # NoReq
    /\ Goto("backoff", "leave")
    /\ refreshCh' = NoReq
    /\ Reply(refreshCh, "nil")
    /\ UNCHANGED <<fields, operation, reconcileCh, toolChangedCh, gens, locals,
                   stopping, rpc, publishMu, published, down>>
-----------------------------------------------------------------------------
(* Stop, called by the Manager and deferred by run: one section under both *)
(* locks, then the drain of the generation it took, then c.cancel.         *)
stopBody ==
    /\ stopped' = TRUE
    /\ opDone' = (opDone \/ operationCancel)
    /\ operationCancel' = FALSE
    /\ sgen' = currentGen
    /\ currentGen' = NoGen
    /\ state' = "closed"
    /\ spc' = "drain"
    /\ UNCHANGED <<desired, cachedTools, operationRevision>>

Stop ==
    /\ publishMu = "free"
    /\ IF stopped THEN UNCHANGED <<fields, operation, sgen, spc>> ELSE stopBody

runExit ==
    /\ Goto("exit", IF stopped THEN "exited" ELSE "exiting")
    /\ Stop
    /\ UNCHANGED <<channels, gens, locals, mpc, removed, upd, ctxDone,
                   requests, publishMu, published, down>>

runExited ==
    /\ spc = "done"
    /\ Goto("exiting", "exited")
    /\ UNCHANGED <<fields, operation, channels, gens, locals, stopping,
                   requests, publishMu, published, down>>

stopDrain ==
    /\ spc = "drain"
    /\ spc' = "retire"
    /\ DrainStart(sgen)
    /\ UNCHANGED <<fields, operation, channels, open, dead, conn, callTimeout,
                   pc, locals, sgen, mpc, removed, upd, ctxDone, requests,
                   publishMu, published, down>>

stopRetire ==
    /\ spc = "retire"
    /\ spc' = "cancel"
    /\ Retire(sgen)
    /\ sgen' = NoGen
    /\ UNCHANGED <<fields, operation, channels, conn, callTimeout, pc, locals,
                   mpc, removed, upd, ctxDone, requests, publishMu, published,
                   down>>

stopCancel_NoCancel ==
    /\ spc = "cancel"
    /\ spc' = "done"
    /\ UNCHANGED <<fields, operation, channels, gens, pc, locals, sgen, mpc,
                   removed, upd, ctxDone, requests, publishMu, published, down>>

stopCancel ==
    /\ spc = "cancel"
    /\ spc' = "done"
    /\ ctxDone' = TRUE
    /\ UNCHANGED <<fields, operation, channels, gens, pc, locals, sgen, mpc,
                   removed, upd, requests, publishMu, published, down>>
-----------------------------------------------------------------------------
(* Manager.Apply without this server: it leaves the map, its tools leave   *)
(* the catalog, and only then Stop is called.  Manager.Stop goes straight  *)
(* to Stop.  m.mu keeps both apart from an UpdateConfig in progress.       *)
applyDrops ==
    /\ mpc = "serving" /\ publishMu # "update"
    /\ mpc' = "removing"
    /\ removed' = TRUE
    /\ UNCHANGED <<fields, operation, channels, gens, pc, locals, spc, sgen,
                   upd, ctxDone, requests, publishMu, published, down>>

applyRemoveServer ==
    /\ mpc = "removing"
    /\ mpc' = "stopping"
    /\ published' = {}
    /\ UNCHANGED <<fields, operation, channels, gens, pc, locals, spc, sgen,
                   removed, upd, ctxDone, requests, publishMu, down>>

managerStop ==
    /\ mpc = "serving" /\ publishMu # "update"
    /\ mpc' = "stopping"
    /\ UNCHANGED <<fields, operation, channels, gens, pc, locals, spc, sgen,
                   removed, upd, ctxDone, requests, publishMu, published, down>>

managerStops ==
    /\ mpc = "stopping"
    /\ mpc' = "done"
    /\ Stop
    /\ UNCHANGED <<channels, gens, pc, locals, removed, upd, ctxDone, requests,
                   publishMu, published, down>>

(* UpdateConfig, from Manager.Apply with a new revision: first what it     *)
(* does under c.mu, then the rest of it, all under publishMu.              *)
hotChange(old, new) ==
    LET tools   == old.disabled # new.disabled
        timeout == old.callTimeout # new.callTimeout
    IN  IF tools /\ timeout THEN "toolsAndTimeout"
        ELSE IF tools THEN "tools"
        ELSE IF timeout THEN "timeout"
        ELSE "none"

diffConfig_HotFirst(old, new) ==
    IF hotChange(old, new) # "none" THEN hotChange(old, new)
    ELSE IF old.enabled # new.enabled \/ old.conn # new.conn THEN "connection"
    ELSE "none"

diffConfig(old, new) ==
    IF old.enabled # new.enabled \/ old.conn # new.conn THEN "connection"
    ELSE hotChange(old, new)

UpdateConfig(c) ==
    /\ mpc = "serving" /\ publishMu = "free"
    /\ desired.rev < MaxRevision
    /\ diffConfig(desired.cfg, c) # "none"
    /\ desired' = [rev |-> desired.rev + 1, cfg |-> c]
    /\ upd' = [change |-> diffConfig(desired.cfg, c),
               op |-> IF operationCancel /\ operationRevision # desired.rev + 1
                      THEN operationRevision ELSE 0,
               gen |-> currentGen,
               ready |-> state = "ready"]
    /\ publishMu' = "update"
    /\ UNCHANGED <<state, stopped, currentGen, cachedTools, operation,
                   channels, gens, pc, locals, spc, sgen, mpc, removed,
                   ctxDone, requests, published, down>>

needsReconcile_Never == FALSE

needsReconcile == upd.change = "connection"

updateRest ==
    /\ publishMu = "update"
    /\ publishMu' = "free"
    /\ upd' = noUpdate
    /\ opDone' = (opDone \/ (upd.op # 0 /\ upd.op = operationRevision))
    /\ reconcileCh' = (reconcileCh \/ needsReconcile)
    /\ callTimeout' = IF upd.change \in {"timeout", "toolsAndTimeout"}
                         /\ upd.gen # NoGen
                      THEN [callTimeout EXCEPT ![upd.gen] = desired.cfg.callTimeout]
                      ELSE callTimeout
    /\ published' = IF upd.change \in {"tools", "toolsAndTimeout"}
                       /\ upd.ready /\ cachedTools # {}
                    THEN Filter(cachedTools, desired.cfg) ELSE published
    /\ UNCHANGED <<fields, operationCancel, operationRevision, toolChangedCh,
                   refreshCh, admission, open, dead, conn, pc, locals, spc,
                   sgen, mpc, removed, ctxDone, requests, down>>
-----------------------------------------------------------------------------
(* Refresh, by one caller at a time per r; stoppedCh is closed when Stop   *)
(* is done, and the caller's context may end at any time.                  *)
Refresh(r) ==
    /\ rpc[r] = "idle" /\ refreshCh # r /\ asker # r
    /\ rpc' = [rpc EXCEPT ![r] = "send"]
    /\ UNCHANGED <<fields, operation, channels, gens, pc, locals, stopping,
                   reply, publishMu, published, down>>

refreshSend(r) ==
    /\ rpc[r] = "send" /\ refreshCh = NoReq
    /\ rpc' = [rpc EXCEPT ![r] = "wait"]
    /\ refreshCh' = r
    /\ UNCHANGED <<fields, operation, reconcileCh, toolChangedCh, gens, pc,
                   locals, stopping, reply, publishMu, published, down>>

refreshReturn(r) ==
    /\ rpc[r] # "idle"
    /\ reply[r] # "none" \/ spc = "done"
    /\ rpc' = [rpc EXCEPT ![r] = "idle"]
    /\ reply' = [reply EXCEPT ![r] = "none"]
    /\ UNCHANGED <<fields, operation, channels, gens, pc, locals, stopping,
                   publishMu, published, down>>

refreshGivesUp(r) ==
    /\ rpc[r] # "idle"
    /\ rpc' = [rpc EXCEPT ![r] = "idle"]
    /\ reply' = [reply EXCEPT ![r] = "none"]
    /\ UNCHANGED <<fields, operation, channels, gens, pc, locals, stopping,
                   publishMu, published, down>>
-----------------------------------------------------------------------------
(* The rest of the world: the parent context ends, a session dies, the     *)
(* downstream changes its tools and says so while a session is up.         *)
parentCancel ==
    /\ ~ctxDone
    /\ ctxDone' = TRUE
    /\ UNCHANGED <<fields, operation, channels, gens, pc, locals, spc, sgen,
                   mpc, removed, upd, requests, publishMu, published, down>>

sessionDies(g) ==
    /\ open[g] /\ ~dead[g]
    /\ dead' = [dead EXCEPT ![g] = TRUE]
    /\ UNCHANGED <<fields, operation, channels, admission, open, conn,
                   callTimeout, pc, locals, stopping, requests, publishMu,
                   published, down>>

sessionUp == attempt \/ \E g \in Gens : open[g] /\ ~dead[g]

downstreamChanges(tools) ==
    /\ tools # downTools
    /\ downTools' = tools
    /\ note' = (note \/ sessionUp)
    /\ UNCHANGED <<fields, operation, channels, gens, pc, locals, stopping,
                   requests, publishMu, published, refreshDropped>>

onToolListChanged_WhenReady ==
    /\ note
    /\ note' = FALSE
    /\ toolChangedCh' = (toolChangedCh \/ state = "ready")
    /\ UNCHANGED <<fields, operation, reconcileCh, refreshCh, gens, pc, locals,
                   stopping, requests, publishMu, published, downTools,
                   refreshDropped>>

onToolListChanged ==
    /\ note
    /\ note' = FALSE
    /\ toolChangedCh' = TRUE
    /\ UNCHANGED <<fields, operation, reconcileCh, refreshCh, gens, pc, locals,
                   stopping, requests, publishMu, published, downTools,
                   refreshDropped>>
-----------------------------------------------------------------------------
loopSteps == runLoop \/ runPick \/ runDrain \/ runRetire \/ runExit \/ runExited

disabledSteps == handleDisabled \/ disabledUnpublish \/ disabledWait

connectSteps ==
    \/ connectStart \/ drainAndCloseOldGen \/ limiterSelect \/ createSession
    \/ checkTarget \/ discover \/ connectError

publishSteps == lockPublish \/ publishDiscovered \/ commit \/ leave

readySteps ==
    \/ readyReconcile \/ readyTick \/ readyCancelled
    \/ readyToolsChanged \/ readyRefresh

refreshSteps == refreshList \/ refreshLock \/ refreshPublish

failureSteps ==
    \/ connectFailed \/ enterBackoff
    \/ backoffDelay \/ backoffReconcile \/ backoffRefresh

run ==
    \/ loopSteps \/ disabledSteps \/ connectSteps \/ publishSteps
    \/ readySteps \/ refreshSteps \/ failureSteps

stopSteps == stopDrain \/ stopRetire \/ stopCancel

manage == applyDrops \/ applyRemoveServer \/ managerStop \/ managerStops

world ==
    \/ parentCancel
    \/ \E g \in Gens : sessionDies(g)
    \/ \E tools \in Lists : downstreamChanges(tools)
    \/ onToolListChanged

caller(r) == Refresh(r) \/ refreshSend(r) \/ refreshReturn(r) \/ refreshGivesUp(r)

Next ==
    \/ run \/ stopSteps \/ manage \/ updateRest \/ world
    \/ \E c \in Configs : UpdateConfig(c)
    \/ \E r \in Refreshers : caller(r)

Spec == Init /\ [][Next]_vars

(* Every network call has a timeout, so the goroutine always goes on.  The *)
(* runtime picks among the ready cases of a select at random, so a case    *)
(* that is ready again and again is taken; a request already waiting when  *)
(* the backoff begins is ready before its delay.  A mutex wanted for long  *)
(* is handed over to the waiter.                                           *)
Fairness ==
    /\ WF_vars(run) /\ WF_vars(stopSteps) /\ WF_vars(updateRest)
    /\ WF_vars(applyRemoveServer) /\ SF_vars(managerStops)
    /\ SF_vars(readyCancelled) /\ SF_vars(readyReconcile)
    /\ SF_vars(readyRefresh) /\ SF_vars(backoffRefresh)
    /\ \A r \in Refreshers : WF_vars(refreshSend(r)) /\ WF_vars(refreshReturn(r))

FairSpec == Spec /\ Fairness
-----------------------------------------------------------------------------
(* A discovery result is published and committed, and a refresh published, *)
(* only while the revision it was made for is the desired one and nothing  *)
(* has stopped the coordinator: publishMu orders UpdateConfig and Stop     *)
(* before or after the whole of it ("an older discovery result can never   *)
(* commit after this update"), so the rollback in the commit is dead code. *)
CommitIsCurrent ==
    /\ pc \in {"publish", "commit"} =>
           ~stopped /\ desired.cfg.enabled /\ desired.rev = tgt.rev
    /\ pc = "refreshPublish" =>
           ~stopped /\ desired.rev = ref.rev /\ currentGen = held

(* While a server is ready, what the catalog holds of it is its tool list  *)
(* through the desired filter, whichever of discovery, refresh and         *)
(* UpdateConfig published last (or a reconcile is pending, which replaces  *)
(* the generation together with its tools).                                *)
PublishedMatchesDesired ==
    state = "ready" /\ publishMu = "free" /\ mpc = "serving" =>
        published = cachedTools \ desired.cfg.disabled \/ reconcileCh

(* A ready generation was built from the desired connection settings and   *)
(* calls with the desired timeout, or a reconcile is already pending for   *)
(* it: no UpdateConfig is missed by an attempt it overtakes.               *)
ReadyServesDesired ==
    state = "ready" /\ publishMu = "free" =>
        \/ /\ desired.cfg.enabled
           /\ conn[currentGen] = desired.cfg.conn
           /\ callTimeout[currentGen] = desired.cfg.callTimeout
        \/ reconcileCh

(* Break before make: the session of the previous generation is closed     *)
(* before another one is opened, whatever Stop and run drain at once.      *)
OneInstance ==
    \A g \in Gens : open[g] => ~attempt /\ \A h \in Gens : open[h] => h = g

(* A session lives on the context of the attempt that opened it; while it  *)
(* serves, and while the calls it admitted drain, no UpdateConfig and no   *)
(* Stop cancels that context ("Tool/filter and call-timeout edits are hot  *)
(* changes and must not cancel its lifetime").                             *)
SessionKeepsItsContext ==
    opDone =>
        /\ pc \notin {"ready", "refreshList", "refreshLock", "refreshPublish"}
        /\ pc \in {"drain", "retire"} => cont \notin {"leave", "failed"}

(* A disabled server waits with nothing published and nothing open.        *)
DisabledIsGone ==
    pc = "disabledWait" /\ mpc = "serving" =>
        published = {} /\ ~attempt /\ \A g \in Gens : ~open[g]

(* Once Stop has begun no lease can be had: AcquireLease finds no ready    *)
(* generation, although run goes on and may still write c.state; and once  *)
(* it has drained no generation admits at all.                             *)
StopClosesAdmission ==
    stopped => /\ state # "ready" /\ currentGen = NoGen
               /\ spc # "drain" => \A g \in Gens : ~admission[g]

(* When the goroutine and Stop have both ended no session is left open,    *)
(* whatever attempt Stop found under way.                                  *)
NothingLeaks ==
    pc = "exited" /\ spc = "done" => ~attempt /\ \A g \in Gens : ~open[g]

(* A list_changed that arrives at any time during connection or refresh is *)
(* not lost: a ready server whose last refresh succeeded and that has no   *)
(* notification pending holds the downstream's current list.               *)
NoMissedChange ==
    pc = "ready" /\ ~superseded /\ ~dead[held] /\ ~refreshDropped
        /\ ~note /\ ~toolChangedCh => cachedTools = downTools

(* Nothing enters the catalog once Stop has begun, although the goroutine  *)
(* may be anywhere in a connection or a refresh; and from the moment Apply *)
(* drops the server or Manager.Stop begins, only a publication that run    *)
(* has begun under publishMu can still put tools there (coordinator.go:    *)
(* Stop, UpdateConfig, refreshTools; manager.go: Apply).                   *)
NoPublishAfterStop ==
    [][published' \notin {published, {}} =>
           ~stopped /\ (publishMu = "run" \/ mpc = "serving")]_vars

(* The removal of a server leaves nothing of it in the catalog.            *)
RemovedIsGone ==
    removed /\ pc = "exited" /\ spc = "done" /\ mpc = "done" => published = {}

(* The desired state wins: a disabled server's tools leave the catalog, an *)
(* enabled one does not stay parked, and a generation with the wrong       *)
(* connection settings does not stay ready.                                *)
Reconciles ==
    /\ ~desired.cfg.enabled ~> desired.cfg.enabled \/ published = {} \/ ctxDone \/ stopped
    /\ pc = "disabledWait" /\ desired.cfg.enabled ~> pc # "disabledWait"
    /\ \A c \in Conns :
           state = "ready" /\ desired.cfg.conn # c /\ conn[currentGen] = c
               ~> state # "ready" \/ desired.cfg.conn = c

(* A Stop, by the Manager or deferred, ends: the goroutine exits, the      *)
(* session is closed and stoppedCh is closed.                              *)
StopFinishes == (stopped \/ mpc = "stopping" \/ ctxDone) ~> (pc = "exited" /\ spc = "done")

(* A Refresh whose context does not end is answered in whatever state the  *)
(* coordinator is, or released by stoppedCh.                               *)
RefreshAnswered == \A r \in Refreshers : rpc[r] # "idle" ~> rpc[r] = "idle"
=============================================================================
