------------------------------- MODULE Bridge -------------------------------
(***************************************************************************)
(* The stdio bridge: it copies the Hub's tool list into a local registry,  *)
(* follows the Hub's tools/list_changed notifications, answers local       *)
(* tools/list requests from the registry and ends with the Hub session,    *)
(* its client or its parent context.  The model begins with the session    *)
(* dialled.  The Hub answers a listing page by page, each from the list it *)
(* has at that moment.                                                     *)
(***************************************************************************)
EXTENDS Naturals, Sequences, FiniteSets

CONSTANTS HubLists,      \* the Hub's successive lists: tool name -> definition;
                         \* a name stands for its place in the Hub's order
          PageSize,      \* tools in a full page of the Hub's answer
          Requests,      \* local tools/list requests that may be under way
          Capacity,      \* of Session.changeCh
          MaxFailures    \* listings that fail while the session lives

ASSUME BridgeAssumption ==
  /\ Len(HubLists) \in Nat \ {0} /\ PageSize \in Nat \ {0}
  /\ Capacity \in Nat \ {0} /\ MaxFailures \in Nat
  /\ {"main", "watcher", "none"} \cap Requests = {}
  /\ \A i \in 1..Len(HubLists) :
       /\ HubLists[i] = [n \in DOMAIN HubLists[i] |-> HubLists[i][n]]
       /\ IsFiniteSet(DOMAIN HubLists[i]) /\ DOMAIN HubLists[i] \subseteq Nat \ {0}

VARIABLES version, notices, dirty, changeCh, changeSeq, syncedSeq, syncNeeded,
          syncMu, toolsMu, registry, proc,
          shown,  \* the last answer to a local tools/list
          hub, client, parent, runCtx, closed, failure, monitor, exit,
          failures, missed

hubside == <<version, notices>>
marks == <<changeSeq, syncedSeq, syncNeeded>>
table == <<toolsMu, registry>>
life == <<hub, client, parent, runCtx, closed, failure, monitor, exit>>
vars == <<hubside, dirty, changeCh, marks, syncMu, table, proc, shown, life,
          failures, missed>>

Procs == Requests \cup {"main", "watcher"}
Current == HubLists[version]

(* What a goroutine has: its place, the tools listed so far and the cursor of
   the page to ask for, 0 for the first. *)
Fresh(pc) == [pc |-> pc, got |-> <<>>, cursor |-> 0]

Init ==
  /\ version = 1 /\ notices = 0
  /\ dirty = FALSE /\ changeCh = 0 /\ changeSeq = 0 /\ syncedSeq = 0
  /\ syncNeeded = FALSE /\ syncMu = "none" /\ toolsMu = "none" /\ registry = <<>>
  /\ proc = [p \in Procs |-> Fresh(IF p = "main" THEN "list" ELSE "idle")]
  /\ shown = HubLists[1]
  /\ hub = "up" /\ client = TRUE /\ parent = FALSE /\ runCtx = TRUE
  /\ closed = FALSE /\ failure = FALSE /\ monitor = "off" /\ exit = "none"
  /\ failures = 0 /\ missed = FALSE

To(p, pc) == proc' = [proc EXCEPT ![p].pc = pc]
At(p, pc) == proc[p].pc = pc
Finished(p, pc) == proc' = [proc EXCEPT ![p] = Fresh(pc)]

(* The session ends when the Hub ends it, or with the context it lives on. *)
Live == runCtx /\ ~parent
SessionOpen == hub = "up" /\ Live

-----------------------------------------------------------------------------
(* The Hub publishes a new list and notifies an open session ... *)
HubChanges ==
  /\ SessionOpen
  /\ version < Len(HubLists) /\ version' = version + 1 /\ notices' = notices + 1
  /\ UNCHANGED <<dirty, changeCh, marks, syncMu, table, proc, shown, life,
                 failures, missed>>

(* ... whose handler never blocks. *)
handleToolListChanged ==
  /\ notices > 0 /\ SessionOpen
  /\ notices' = notices - 1 /\ dirty' = TRUE
  /\ changeCh' = IF changeCh < Capacity THEN changeCh + 1 ELSE changeCh
  /\ UNCHANGED <<version, marks, syncMu, table, proc, shown, life, failures, missed>>

-----------------------------------------------------------------------------
(* ListAllTools, for the start and for syncTools: a notification during the
   first listing causes a second one. *)
ClearDirty(p) ==
  /\ At(p, "list") /\ dirty' = FALSE /\ Finished(p, "fetch")
  /\ UNCHANGED <<hubside, changeCh, marks, syncMu, table, shown, life, failures, missed>>

(* The Hub's tools after the cursor c, up to n or, for n = 0, to the last ... *)
HubPage(c, n) == {m \in DOMAIN Current : c < m /\ (m <= n \/ n = 0)}

(* ... and whether n is the cursor it returns with them. *)
IsNextCursor(c, n) ==
  IF n = 0 THEN Cardinality(HubPage(c, 0)) <= PageSize
  ELSE Cardinality(HubPage(c, n)) = PageSize /\ HubPage(c, n) # HubPage(c, 0)

With(l, page) ==
  [m \in DOMAIN l \cup page |-> IF m \in page THEN Current[m] ELSE l[m]]

(* One request of the loop. *)
fetchPages(p) ==
  /\ proc[p].pc \in {"fetch", "refetch"} /\ SessionOpen
  /\ \E n \in DOMAIN Current \cup {0} :
       /\ n = 0 \/ n > proc[p].cursor
       /\ IsNextCursor(proc[p].cursor, n)
       /\ proc' = [proc EXCEPT ![p] =
                     [pc |-> CASE n # 0 -> proc[p].pc
                               [] n = 0 /\ At(p, "fetch") -> "check"
                               [] OTHER -> "remove",
                      got |-> With(proc[p].got, HubPage(proc[p].cursor, n)),
                      cursor |-> n]]
  /\ UNCHANGED <<hubside, dirty, changeCh, marks, syncMu, table, shown, life,
                 failures, missed>>

IsDirty(p) ==
  /\ At(p, "check") /\ dirty' = FALSE
  /\ IF dirty THEN Finished(p, "refetch") ELSE To(p, "remove")
  /\ UNCHANGED <<hubside, changeCh, marks, syncMu, table, shown, life, failures, missed>>

Unlock(p) == syncMu' = IF syncMu = p THEN "none" ELSE syncMu

(* A request of a listing fails: the start is given up, the watcher waits for
   the next notification, a local request gets the error.  The listing of the
   start fails when StartupTimeout is over. *)
ListFails(p) ==
  /\ proc[p].pc \in {"fetch", "refetch"} /\ Unlock(p)
  /\ IF SessionOpen
     THEN (p = "main" \/ failures < MaxFailures) /\ failures' = failures + 1
     ELSE UNCHANGED failures
  /\ Finished(p, CASE p = "main" -> "leave" [] p = "watcher" -> "wait"
                   [] OTHER -> "idle")
  /\ missed' = IF p = "watcher" THEN ~syncNeeded ELSE missed
  /\ UNCHANGED <<hubside, dirty, changeCh, marks, table, shown, life>>

-----------------------------------------------------------------------------
(* updateRegisteredTools under toolsMu: first the tools that are gone, then
   the new and the changed ones. *)
RemoveTools(p) ==
  /\ At(p, "remove") /\ toolsMu = "none" /\ toolsMu' = p
  /\ registry' = [n \in DOMAIN registry \cap DOMAIN proc[p].got |-> registry[n]]
  /\ To(p, "add")
  /\ UNCHANGED <<hubside, dirty, changeCh, marks, syncMu, shown, life, failures, missed>>

AddTool(p) ==
  /\ At(p, "add") /\ toolsMu' = "none"
  /\ registry' = [n \in DOMAIN proc[p].got |-> proc[p].got[n]]
  /\ Finished(p, "store")
  /\ UNCHANGED <<hubside, dirty, changeCh, marks, syncMu, shown, life, failures, missed>>

(* The watermark is read after the listing.  At the start it completes the
   preparation: the local session and the two goroutines begin. *)
StoreSynced(p) ==
  /\ At(p, "store") /\ syncedSeq' = changeSeq
  /\ IF p = "main"
     THEN /\ proc' = [proc EXCEPT ![p].pc = "serve", !["watcher"].pc = "wait"]
          /\ monitor' = "wait"
     ELSE To(p, "clear") /\ UNCHANGED monitor
  /\ UNCHANGED <<hubside, dirty, changeCh, changeSeq, syncNeeded, syncMu, table,
                 shown, hub, client, parent, runCtx, closed, failure, exit,
                 failures, missed>>

SyncEnds_Drains(p) ==
  /\ At(p, "clear") /\ syncNeeded' = FALSE /\ Unlock(p)
  /\ changeCh' = IF p = "watcher" THEN 0 ELSE changeCh
  /\ To(p, IF p = "watcher" THEN "wait" ELSE "read")
  /\ UNCHANGED <<hubside, dirty, changeSeq, syncedSeq, table, shown, life,
                 failures, missed>>

SyncEnds(p) ==
  /\ At(p, "clear") /\ syncNeeded' = FALSE /\ Unlock(p)
  /\ To(p, IF p = "watcher" THEN "wait" ELSE "read")
  /\ UNCHANGED <<hubside, dirty, changeCh, changeSeq, syncedSeq, table, shown,
                 life, failures, missed>>

lockSync_None(p) == syncMu' = syncMu
lockSync(p) == syncMu = "none" /\ syncMu' = p

syncTools(p) ==
  /\ At(p, "sync")
  /\ IF Live THEN lockSync(p) /\ To(p, "list")
     ELSE /\ syncMu = "none" /\ UNCHANGED syncMu
          /\ To(p, IF p = "watcher" THEN "wait" ELSE "idle")
  /\ UNCHANGED <<hubside, dirty, changeCh, marks, table, shown, life, failures, missed>>

-----------------------------------------------------------------------------
(* The watcher takes the tokens of a burst, pauses and synchronises.  A select
   with a token and an ended context takes either. *)
TakeToken ==
  /\ proc["watcher"].pc \in {"wait", "burst"} /\ changeCh > 0
  /\ changeCh' = changeCh - 1 /\ changeSeq' = changeSeq + 1 /\ syncNeeded' = TRUE
  /\ To("watcher", "burst") /\ missed' = FALSE
  /\ UNCHANGED <<hubside, dirty, syncedSeq, syncMu, table, shown, life, failures>>

(* A token that comes during the pause stays in the channel, as it does while
   the watcher waits for syncMu: the pause is part of that wait. *)
Pause ==
  /\ At("watcher", "burst") /\ changeCh = 0
  /\ To("watcher", "sync")
  /\ UNCHANGED <<hubside, dirty, changeCh, marks, syncMu, table, shown, life,
                 failures, missed>>

WatcherReturns ==
  /\ proc["watcher"].pc \in {"wait", "sync"} /\ ~Live
  /\ To("watcher", "returned")
  /\ UNCHANGED <<hubside, dirty, changeCh, marks, syncMu, table, shown, life,
                 failures, missed>>

(* The middleware of a local tools/list. *)
Pending == syncNeeded \/ changeSeq # syncedSeq

Ask(l) ==
  /\ At(l, "idle") /\ At("main", "serve") /\ client
  /\ To(l, IF Pending THEN "sync" ELSE "read")
  /\ UNCHANGED <<hubside, dirty, changeCh, marks, syncMu, table, shown, life,
                 failures, missed>>

ReadRegistry(l) ==
  /\ At(l, "read") /\ toolsMu = "none"
  /\ shown' = registry /\ To(l, "idle")
  /\ UNCHANGED <<hubside, dirty, changeCh, marks, syncMu, table, life, failures, missed>>

-----------------------------------------------------------------------------
(* What ends the bridge.  The notices of a session that ends are lost. *)
Ends ==
  /\ \/ hub = "up" /\ hub' = "gone" /\ notices' = 0 /\ UNCHANGED <<client, parent>>
     \/ client /\ client' = FALSE /\ UNCHANGED <<hub, parent, notices>>
     \/ ~parent /\ parent' = TRUE /\ notices' = 0 /\ UNCHANGED <<hub, client>>
  /\ UNCHANGED <<version, dirty, changeCh, marks, syncMu, table, proc, shown,
                 runCtx, closed, failure, monitor, exit, failures, missed>>

Reports_Always == TRUE
Reports == ~closed /\ Live

monitorHubSession ==
  /\ monitor = "wait" /\ ~SessionOpen /\ monitor' = "done"
  /\ IF Reports THEN failure' = TRUE /\ runCtx' = FALSE
     ELSE UNCHANGED <<failure, runCtx>>
  /\ UNCHANGED <<hubside, dirty, changeCh, marks, syncMu, table, proc, shown,
                 hub, client, parent, closed, exit, failures, missed>>

(* server.Run returns, the bridge is marked closed, then the context is
   cancelled and the session closed, and the reason is chosen last.  The local
   transport ends normally or with an error of its own. *)
RunReturns ==
  /\ At("main", "serve")
  /\ ~client \/ ~Live
  /\ closed' = TRUE /\ To("main", "cancel")
  /\ UNCHANGED <<hubside, dirty, changeCh, marks, syncMu, table, shown, hub,
                 client, parent, runCtx, failure, monitor, exit, failures, missed>>

CancelRun ==
  /\ At("main", "cancel") /\ runCtx' = FALSE /\ To("main", "leave")
  /\ UNCHANGED <<hubside, dirty, changeCh, marks, syncMu, table, shown, hub,
                 client, parent, closed, failure, monitor, exit, failures, missed>>

Leave ==
  /\ At("main", "leave")
  /\ exit' \in CASE failure -> {"hub session terminated"}
                [] ~failure /\ ~closed -> {"start failed"}
                [] ~failure /\ closed /\ parent -> {"cancelled"}
                [] OTHER -> {"client disconnected", "transport error"}
  /\ runCtx' = FALSE /\ To("main", "left")
  /\ UNCHANGED <<hubside, dirty, changeCh, marks, syncMu, table, shown, hub,
                 client, parent, closed, failure, monitor, failures, missed>>

-----------------------------------------------------------------------------
Update(p) == ClearDirty(p) \/ IsDirty(p) \/ RemoveTools(p) \/ AddTool(p) \/ StoreSynced(p)
Sync(p) == syncTools(p) \/ Update(p) \/ SyncEnds(p)
Watch == TakeToken \/ Pause \/ WatcherReturns \/ Sync("watcher")
RunWithOptions == Update("main") \/ RunReturns \/ CancelRun \/ Leave
List(l) == Sync(l) \/ ReadRegistry(l)

Next ==
  /\ exit = "none"
  /\ \/ HubChanges \/ handleToolListChanged \/ Ends \/ monitorHubSession
     \/ RunWithOptions \/ Watch
     \/ \E l \in Requests : Ask(l) \/ List(l)
     \/ \E p \in Procs : fetchPages(p) \/ ListFails(p)

(* Goroutines run, notifications reach a session that stays open, and a request
   on a session or a context that has ended returns.  No answer of the Hub is
   assumed: only the listing of the start has a deadline. *)
Fairness ==
  /\ WF_vars(exit = "none" /\ handleToolListChanged)
  /\ WF_vars(exit = "none" /\ monitorHubSession)
  /\ WF_vars(exit = "none" /\ RunWithOptions) /\ WF_vars(exit = "none" /\ Watch)
  /\ \A l \in Requests : WF_vars(exit = "none" /\ List(l))
  /\ WF_vars(exit = "none" /\ ListFails("main"))
  /\ \A p \in Procs : WF_vars(exit = "none" /\ ~SessionOpen /\ ListFails(p))

Spec == Init /\ [][Next]_vars /\ Fairness

-----------------------------------------------------------------------------
(* The list that takes each tool from the Hub list f names for it. *)
Names == UNION {DOMAIN HubLists[i] : i \in 1..Len(HubLists)}
Mixed(f) == [n \in {m \in Names : m \in DOMAIN HubLists[f[m]]} |-> HubLists[f[n]][n]]

(* What one listing may return that began at the a-th list of the Hub and ended
   at the b-th: later names come from later lists, and a list with less than a
   page of tools is whole. *)
Listed(l, a, b) ==
  /\ Cardinality(DOMAIN l) < PageSize => a = b
  /\ \E f \in [Names -> a..b] :
       /\ \A m, n \in Names : m <= n => f[m] <= f[n]
       /\ l = Mixed(f)

(* syncTools, updateRegisteredTools and the list middleware: a local client
   gets what one listing of the Hub returned, never a half-updated registry,
   and the listing of a list it is shown began no earlier than the listing of
   the one before had ended. *)
ListsMoveForward ==
  [][shown' # shown =>
       \E a, b, c, d \in 1..version :
         a <= b /\ b <= c /\ c <= d /\ Listed(shown, a, b) /\ Listed(shown', c, d)]_vars

(* monitorHubSession and the end of RunWithOptions: the reason the bridge gives
   for its end is a thing that happened; closing its own session is never
   taken for a failure of the Hub, and a failure is never silent. *)
ExitIsExplained ==
  /\ exit = "hub session terminated" => hub = "gone"
  /\ exit = "cancelled" => parent
  /\ exit \in {"client disconnected", "transport error"} => ~client
  /\ exit = "start failed" => hub = "gone" \/ parent \/ failures > 0

(* A listing without deadline waits for the Hub. *)
Stalled ==
  SessionOpen /\ \E p \in Procs \ {"main"} : proc[p].pc \in {"fetch", "refetch"}

(* The watermark.  In the end the registry holds the Hub's list or a local
   tools/list will ask for it, and a bridge whose Hub, client or parent is gone
   exits, whether the Hub answers or not.  Two exceptions, both after another
   sync, whose own listing was older, had cleared the mark: the watcher's
   listing failed, or it still waits for the Hub.  If the Hub answers and no
   listing fails, the registry catches up without anybody asking. *)
BridgeSettles ==
  /\ []<>(\/ exit # "none"
          \/ /\ hub = "up" /\ client /\ ~parent
             /\ registry = Current \/ Pending \/ missed \/ Stalled)
  /\ []<>~Stalled => []<>(exit # "none" \/ registry = Current \/ failures > 0)
=============================================================================
