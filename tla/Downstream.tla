----------------------------- MODULE Downstream -----------------------------
(***************************************************************************)
(* One stdio downstream: CreateSession launches a process group, dials an  *)
(* MCP session over its pipes and lists its tools page by page.  The       *)
(* group is closed by whoever comes first: the launcher's context watcher, *)
(* the session (closed by its peer watcher, its lifetime monitor or its    *)
(* owner) or the owner itself.  Process.Close and Session.Close each run   *)
(* once; a later caller waits for the first.  On Windows the group is a    *)
(* job object and its root a worker, told what to start once it is in it.  *)
(***************************************************************************)
EXTENDS Naturals, Sequences

CONSTANTS MaxKids,    \* descendants alive in the group at once
          Pages,      \* tool names a page may hold
          Cursors,    \* non-empty cursors a server may return
          MaxPages,   \* MaxPaginationPages
          MaxTools,   \* definitions of one discovery
          MsgLimit    \* MaxMessageBytes

ASSUME DownstreamAssumption ==
  /\ {MaxKids, MaxPages, MaxTools, MsgLimit} \subseteq Nat \ {0}
  /\ "" \notin Cursors

VARIABLES
  platform,   \* posix, windows
  boot,       \* the worker's bootstrap line: none, sent, ran, stray
  root,       \* none, running, zombie, reaped (doneChan closed)
  kids,       \* descendants of the root in its group
  sent,       \* the last signal sent to the group; ending a job is a kill
  close,      \* where Process.Close is
  sess,       \* Session: none, open, closing, closed
  pc,         \* the goroutines that may close
  ctx,        \* the context given to CreateSession has ended
  synthetic,  \* legacyStdioConn.synthetic holds the answer to the probe
  used,       \* bytes of the message being read
  broken,     \* the reader refused a message
  walk,       \* cursors asked for by the listing under way
  tools       \* tools it has collected

group == <<platform, boot, root, kids, sent>>
wire == <<synthetic, used, broken>>
listing == <<walk, tools>>
vars == <<group, close, sess, pc, ctx, wire, listing>>

Callers == {"owner", "watcher", "peer", "monitor"}
Dialling == {"connect", "probed", "initialize"}
Preparing == {"assign", "bootstrap"}

Init ==
  /\ platform \in {"posix", "windows"} /\ boot = "none"
  /\ root = "none" /\ kids = 0 /\ sent = "none" /\ close = "open" /\ sess = "none"
  /\ pc = [c \in Callers |-> IF c = "owner" THEN "launch" ELSE "idle"]
  /\ ctx = FALSE /\ synthetic = FALSE /\ used = 0 /\ broken = FALSE
  /\ walk = <<>> /\ tools = <<>>

At(c, l) == pc[c] = l
To(c, l) == pc' = [pc EXCEPT ![c] = l]

CancelCtx == ~ctx /\ ctx' = TRUE /\ UNCHANGED <<group, close, sess, pc, wire, listing>>

-----------------------------------------------------------------------------
(* The operating system.  A group lives while any member, a zombie included,
   does; members fork and end as they like, and a killed one cannot fork. *)
processGroupAlive == root \in {"running", "zombie"} \/ kids > 0

Fork ==
  /\ IF platform = "posix" THEN root = "running" \/ kids > 0 ELSE kids > 0
  /\ kids < MaxKids /\ sent # "kill" /\ kids' = kids + 1
  /\ UNCHANGED <<platform, boot, root, sent, close, sess, pc, ctx, wire, listing>>

MemberExits ==
  /\ \/ root = "running" /\ root' = "zombie" /\ UNCHANGED kids
     \/ kids > 0 /\ kids' = kids - 1 /\ UNCHANGED root
  /\ UNCHANGED <<platform, boot, sent, close, sess, pc, ctx, wire, listing>>

(* The worker starts the downstream process, in the worker's job if it is in
   one by then. *)
RunWorkerWithIO ==
  /\ boot = "sent" /\ root = "running" /\ kids < MaxKids /\ sent # "kill"
  /\ kids' = kids + 1 /\ boot' = IF At("owner", "assign") THEN "stray" ELSE "ran"
  /\ UNCHANGED <<platform, root, sent, close, sess, pc, ctx, wire, listing>>

(* cmd.Wait reaps the root, closes the pipes' near ends and doneChan. *)
waitInternal ==
  /\ root = "zombie" /\ root' = "reaped"
  /\ UNCHANGED <<platform, boot, kids, sent, close, sess, pc, ctx, wire, listing>>

-----------------------------------------------------------------------------
(* Process.Close *)
CallsClose(c) == pc[c] \in {"proc", "inSession"}

(* Stdin is closed; the root may now end by itself. *)
CloseStdin(c) ==
  /\ CallsClose(c) /\ close = "open" /\ close' = "grace"
  /\ UNCHANGED <<group, sess, pc, ctx, wire, listing>>

(* doneChan or the grace period. *)
GraceEnds ==
  /\ platform = "posix" /\ close = "grace" /\ close' = "check"
  /\ UNCHANGED <<group, sess, pc, ctx, wire, listing>>

mustSignal_RootOnly == root # "reaped"
mustSignal == processGroupAlive

SignalGroup ==
  /\ close = "check"
  /\ IF mustSignal THEN sent' = "term" /\ close' = "termWait"
     ELSE close' = "reap" /\ UNCHANGED sent
  /\ UNCHANGED <<platform, boot, root, kids, sess, pc, ctx, wire, listing>>

(* waitForProcessGroupExit after SIGTERM: the group is gone or time is up. *)
TermWaitEnds ==
  /\ close = "termWait"
  /\ IF processGroupAlive THEN sent' = "kill" /\ close' = "killWait"
     ELSE close' = "reap" /\ UNCHANGED sent
  /\ UNCHANGED <<platform, boot, root, kids, sess, pc, ctx, wire, listing>>

(* Its result after SIGKILL is ignored. *)
KillWaitEnds ==
  /\ close = "killWait" /\ close' = "reap"
  /\ UNCHANGED <<group, sess, pc, ctx, wire, listing>>

Reaped ==
  /\ platform = "posix" /\ close = "reap" /\ root = "reaped" /\ close' = "closed"
  /\ UNCHANGED <<group, sess, pc, ctx, wire, listing>>

(* windowsProcess.Close: a worker that outlives the grace period has its job
   terminated; closing the job's handle ends what is left in it. *)
TerminateJobObject ==
  /\ platform = "windows" /\ close = "grace" /\ sent' = "kill" /\ close' = "reap"
  /\ UNCHANGED <<platform, boot, root, kids, sess, pc, ctx, wire, listing>>

CloseJob ==
  /\ platform = "windows" /\ close \in {"grace", "reap"} /\ root = "reaped"
  /\ sent' = "kill" /\ close' = "closed"
  /\ UNCHANGED <<platform, boot, root, kids, sess, pc, ctx, wire, listing>>

CloseSteps == TerminateJobObject \/ CloseJob \/ GraceEnds \/ SignalGroup \/ TermWaitEnds \/ KillWaitEnds \/ Reaped

CloseReturns(c) ==
  /\ CallsClose(c) /\ close = "closed"
  /\ sess' = IF At(c, "inSession") THEN "closed" ELSE sess
  /\ To(c, IF c = "owner" /\ At(c, "inSession") THEN "proc" ELSE "end")
  /\ UNCHANGED <<group, close, ctx, wire, listing>>

(* The launcher's watcher leaves once the root is reaped. *)
WatchContext ==
  /\ At("watcher", "watch")
  /\ \/ ctx /\ To("watcher", "proc")
     \/ root = "reaped" /\ To("watcher", "end")
  /\ UNCHANGED <<group, close, sess, ctx, wire, listing>>

-----------------------------------------------------------------------------
(* Session.Close: the raw session closes both pipes, and each of them the
   process. *)
CloseSession(c) ==
  /\ At(c, "session")
  /\ \/ sess = "open" /\ sess' = "closing" /\ To(c, "inSession")
     \/ /\ sess = "closed" /\ UNCHANGED sess
        /\ To(c, IF c = "owner" THEN "proc" ELSE "end")
  /\ UNCHANGED <<group, close, ctx, wire, listing>>

(* The pipes are closed under the connection, or its reader has failed. *)
Disconnected == root = "reaped" \/ broken \/ sess \in {"closing", "closed"}

PeerEnds ==
  /\ At("peer", "watch") /\ Disconnected /\ To("peer", "session")
  /\ UNCHANGED <<group, close, sess, ctx, wire, listing>>

LifetimeEnds ==
  /\ At("monitor", "watch")
  /\ \/ ctx /\ To("monitor", "session")
     \/ sess # "open" /\ To("monitor", "end")
  /\ UNCHANGED <<group, close, sess, ctx, wire, listing>>

(* wirelimit's reader with JSON lines: a message ends with its line feed. *)
Read(lf) ==
  /\ ~Disconnected
  /\ pc["owner"] \in Dialling \cup {"list", "use"}
  /\ IF used + 1 > MsgLimit THEN broken' = TRUE /\ UNCHANGED used
     ELSE used' = (IF lf THEN 0 ELSE used + 1) /\ UNCHANGED broken
  /\ UNCHANGED <<group, close, sess, pc, ctx, synthetic, listing>>

-----------------------------------------------------------------------------
(* CreateSession: the command is resolved and started in a group of its own. *)
startPlatform ==
  /\ platform = "posix" /\ At("owner", "launch")
  /\ \/ root' = "running" /\ pc' = [pc EXCEPT !["owner"] = "connect", !["watcher"] = "watch"]
     \/ To("owner", "end") /\ UNCHANGED root
  /\ UNCHANGED <<platform, boot, kids, sent, close, sess, ctx, wire, listing>>

(* On Windows the job is created and the worker started outside it. *)
startWorker ==
  /\ platform = "windows" /\ At("owner", "launch")
  /\ \/ root' = "running" /\ To("owner", "assign")
     \/ To("owner", "end") /\ UNCHANGED root
  /\ UNCHANGED <<platform, boot, kids, sent, close, sess, ctx, wire, listing>>

(* The worker enters the job before it is told what to start. *)
AssignProcessToJobObject ==
  /\ At("owner", "assign") /\ To("owner", "bootstrap")
  /\ UNCHANGED <<group, close, sess, ctx, wire, listing>>

WriteBootstrap ==
  /\ At("owner", "bootstrap") /\ boot' = "sent"
  /\ pc' = [pc EXCEPT !["owner"] = "connect", !["watcher"] = "watch"]
  /\ UNCHANGED <<platform, root, kids, sent, close, sess, ctx, wire, listing>>

(* Either of them fails: the worker is killed, waited for, the job closed. *)
LaunchFails ==
  /\ pc["owner"] \in Preparing /\ To("owner", "abort") /\ sent' = "kill"
  /\ UNCHANGED <<platform, boot, root, kids, close, sess, ctx, wire, listing>>

LaunchAborted ==
  /\ At("owner", "abort") /\ root \in {"zombie", "reaped"} /\ root' = "reaped"
  /\ To("owner", "end") /\ close' = "closed"
  /\ UNCHANGED <<platform, boot, kids, sent, sess, ctx, wire, listing>>

(* The SDK's server/discover is answered by legacyStdioConn and never reaches
   the process; the answer makes the SDK send initialize. *)
WriteProbe ==
  /\ At("owner", "connect") /\ synthetic' = TRUE /\ To("owner", "probed")
  /\ UNCHANGED <<group, close, sess, ctx, used, broken, listing>>

ReadSynthetic ==
  /\ At("owner", "probed") /\ synthetic /\ synthetic' = FALSE
  /\ To("owner", "initialize")
  /\ UNCHANGED <<group, close, sess, ctx, used, broken, listing>>

(* The process answers initialize, perhaps with its last breath: the session
   and its goroutines begin. *)
dialTransport ==
  /\ At("owner", "initialize") /\ ~broken /\ sess' = "open"
  /\ pc' = [pc EXCEPT !["owner"] = "list", !["peer"] = "watch", !["monitor"] = "watch"]
  /\ walk' = <<"">>
  /\ UNCHANGED <<group, close, ctx, wire, tools>>

DialFails_KeepsProcess ==
  /\ pc["owner"] \in Dialling /\ To("owner", "end") /\ synthetic' = FALSE
  /\ UNCHANGED <<group, close, sess, ctx, used, broken, listing>>

(* The startup timeout, the context, a broken pipe or a bad answer. *)
DialFails ==
  /\ pc["owner"] \in Dialling /\ To("owner", "proc") /\ synthetic' = FALSE
  /\ UNCHANGED <<group, close, sess, ctx, used, broken, listing>>

-----------------------------------------------------------------------------
(* fetchPages.  What the listing has seen is forgotten when it ends. *)
cursor == walk[Len(walk)]
seenCursors == {walk[i] : i \in 2..Len(walk)}
Distinct(s) == \A i, j \in 1..Len(s) : s[i] = s[j] => i = j

PageRefused(page) == ~Distinct(tools \o page) \/ Len(tools \o page) > MaxTools

CursorRefused_Previous(next) == next = cursor
CursorRefused(next) == next \in seenCursors \/ next = cursor

FetchPage(page, next) ==
  /\ At("owner", "list") /\ Len(walk) <= MaxPages /\ sess = "open" /\ ~Disconnected
  /\ ~PageRefused(page)
  /\ IF next = ""
     THEN To("owner", "use") /\ walk' = <<>> /\ tools' = <<>>
     ELSE /\ ~CursorRefused(next)
          /\ walk' = Append(walk, next) /\ tools' = tools \o page /\ UNCHANGED pc
  /\ UNCHANGED <<group, close, sess, ctx, wire>>

(* Too many pages, a closed session, an error of the server or an answer that
   is refused: the owner gives the session up. *)
FetchFails ==
  /\ At("owner", "list") /\ To("owner", "session") /\ walk' = <<>> /\ tools' = <<>>
  /\ UNCHANGED <<group, close, sess, ctx, wire>>

(* The coordinator retires the generation. *)
Retire ==
  /\ At("owner", "use") /\ To("owner", "session")
  /\ UNCHANGED <<group, close, sess, ctx, wire, listing>>

-----------------------------------------------------------------------------
CreateSession ==
  \/ startPlatform \/ startWorker \/ AssignProcessToJobObject \/ WriteBootstrap
  \/ LaunchFails \/ LaunchAborted
  \/ WriteProbe \/ ReadSynthetic \/ dialTransport \/ DialFails
ListTools ==
  \/ \E page \in Pages, next \in Cursors \cup {""} : FetchPage(page, next)
  \/ FetchFails
Closes(c) == CloseStdin(c) \/ CloseReturns(c) \/ CloseSession(c)

Next ==
  \/ CancelCtx \/ Fork \/ MemberExits \/ RunWorkerWithIO \/ waitInternal \/ CloseSteps
  \/ WatchContext \/ PeerEnds \/ LifetimeEnds \/ CreateSession \/ ListTools \/ Retire
  \/ \E lf \in BOOLEAN : Read(lf)
  \/ \E c \in Callers : Closes(c)

(* Goroutines run, timers fire, the kernel ends what SIGKILL was sent to, and
   every request of a dial or a listing has a timeout.  Nothing makes a
   process heed SIGTERM or the owner retire a healthy session. *)
Fairness ==
  /\ WF_vars(waitInternal) /\ WF_vars(CloseSteps)
  /\ WF_vars(sent = "kill" /\ MemberExits)
  /\ WF_vars(WatchContext) /\ WF_vars(PeerEnds) /\ WF_vars(LifetimeEnds)
  /\ WF_vars(CreateSession) /\ WF_vars(ListTools)
  /\ \A c \in Callers : WF_vars(Closes(c))

Spec == Init /\ [][Next]_vars /\ Fairness

-----------------------------------------------------------------------------
(* Close and the order of the Windows launch: when Close returns the root is
   reaped, and every process left of the group or job has been killed, also
   when the root ended long before its descendants. *)
CloseLeavesNothing ==
  close = "closed" => /\ root = "reaped" /\ boot # "stray"
                      /\ kids = 0 \/ sent = "kill"

(* fetchPages: whatever a server answers, no page is asked for twice and no
   tool is collected twice. *)
NoPageTwice == Distinct(walk) /\ Distinct(tools)

(* CreateSession, Session.Close and Close: a launched process serves an open
   session or, in the end, its whole group is gone and every goroutine that
   closes has returned. *)
ProcessEnds ==
  []<>(\/ root = "none"
       \/ At("owner", "use") /\ sess = "open" /\ root = "running" /\ ~ctx /\ ~broken
       \/ /\ close = "closed" /\ kids = 0
          /\ \A c \in Callers : pc[c] \in {"idle", "end"} \/ At(c, "use"))
=============================================================================
