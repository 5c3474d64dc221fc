-------------------------- MODULE DownstreamProofs --------------------------
(***************************************************************************)
(* Close leaves nothing behind, for any number of descendants, pages and   *)
(* tools: proofs about Downstream.                                         *)
(***************************************************************************)
EXTENDS Downstream, SequenceTheorems, TLAPS

Labels == {"launch", "assign", "bootstrap", "abort", "connect", "probed", "initialize",
           "list", "use", "session", "inSession", "proc", "end", "idle", "watch"}

Types ==
  /\ platform \in {"posix", "windows"} /\ boot \in {"none", "sent", "ran", "stray"}
  /\ root \in {"none", "running", "zombie", "reaped"} /\ kids \in Nat
  /\ sent \in {"none", "term", "kill"}
  /\ close \in {"open", "grace", "check", "termWait", "killWait", "reap", "closed"}
  /\ pc \in [Callers -> Labels]

(* Until the bootstrap line is written there is no descendant on Windows, so
   none is ever started outside the job. *)
Launching ==
  /\ pc["owner"] = "launch" => root = "none" /\ kids = 0
  /\ pc["owner"] \in Preparing \cup {"launch", "abort"} =>
       /\ boot = "none" /\ (platform = "windows" => kids = 0) /\ close = "open"
       /\ \A c \in Callers \ {"owner"} : pc[c] = "idle"
  /\ pc["owner"] \in Preparing \cup {"abort"} => platform = "windows"
  /\ boot # "stray"

(* Past the check of the group, whoever is left has been sent SIGKILL: an
   empty group stays empty. *)
Closing ==
  /\ close = "killWait" => sent = "kill"
  /\ platform = "posix" /\ close = "reap" =>
       sent = "kill" \/ (kids = 0 /\ root \in {"none", "reaped"})
  /\ close = "closed" =>
       root = "reaped" /\ (sent = "kill" \/ kids = 0)

IInv == Types /\ Launching /\ Closing

-----------------------------------------------------------------------------
LEMMA InitIInv == Init => IInv
  BY DEF Init, IInv, Types, Launching, Closing, Callers, Labels, Preparing

(* What the operating system does to the group. *)
LEMMA GroupStep ==
  ASSUME IInv, Fork \/ MemberExits \/ RunWorkerWithIO \/ waitInternal \/ CancelCtx
  PROVE  IInv'
<1>1. CASE Fork
  BY <1>1 DEF Fork, IInv, Types, Launching, Closing, Callers, Preparing
<1>2. CASE MemberExits
  BY <1>2 DEF MemberExits, IInv, Types, Launching, Closing, Callers, Preparing
<1>3. CASE RunWorkerWithIO
  BY <1>3 DEF RunWorkerWithIO, At, IInv, Types, Launching, Closing, Callers, Preparing
<1>4. CASE waitInternal
  BY <1>4, Zenon DEF waitInternal, IInv, Types, Launching, Closing, Callers, Preparing
<1>5. CASE CancelCtx
  BY <1>5 DEF CancelCtx, group, IInv, Types, Launching, Closing, Callers, Preparing
<1> QED BY <1>1, <1>2, <1>3, <1>4, <1>5, Zenon

(* The steps of Close after its first. *)
LEMMA CloseStep ==
  ASSUME IInv, CloseSteps
  PROVE  IInv'
<1>1. CASE GraceEnds
  BY <1>1, Zenon DEF GraceEnds, group, IInv, Types, Launching, Closing, Callers, Preparing
<1>2. CASE SignalGroup
  BY <1>2 DEF SignalGroup, mustSignal, processGroupAlive, IInv, Types, Launching,
              Closing, Callers, Preparing
<1>3. CASE TermWaitEnds
  BY <1>3 DEF TermWaitEnds, processGroupAlive, IInv, Types, Launching, Closing,
              Callers, Preparing
<1>4. CASE KillWaitEnds
  BY <1>4, Zenon DEF KillWaitEnds, group, IInv, Types, Launching, Closing, Callers, Preparing
<1>5. CASE Reaped
  BY <1>5, Zenon DEF Reaped, group, IInv, Types, Launching, Closing, Callers, Preparing
<1>6. CASE TerminateJobObject
  BY <1>6, Zenon DEF TerminateJobObject, IInv, Types, Launching, Closing, Callers, Preparing
<1>7. CASE CloseJob
  BY <1>7, Zenon DEF CloseJob, IInv, Types, Launching, Closing, Callers, Preparing
<1> QED BY <1>1, <1>2, <1>3, <1>4, <1>5, <1>6, <1>7, Zenon DEF CloseSteps

(* The goroutines that close, and the reader. *)
LEMMA CallerStep ==
  ASSUME IInv,
         WatchContext \/ PeerEnds \/ LifetimeEnds \/ (\E lf \in BOOLEAN : Read(lf))
           \/ (\E c \in Callers : Closes(c))
  PROVE  IInv'
<1>1. CASE WatchContext
  BY <1>1 DEF WatchContext, At, To, group, IInv, Types, Launching, Closing, Callers,
              Preparing, Labels
<1>2. CASE PeerEnds
  BY <1>2 DEF PeerEnds, At, To, group, IInv, Types, Launching, Closing, Callers,
              Preparing, Labels
<1>3. CASE LifetimeEnds
  BY <1>3 DEF LifetimeEnds, At, To, group, IInv, Types, Launching, Closing, Callers,
              Preparing, Labels
<1>4. ASSUME NEW lf \in BOOLEAN, Read(lf) PROVE IInv'
  BY <1>4 DEF Read, group, IInv, Types, Launching, Closing, Callers, Preparing
<1>5. ASSUME NEW c \in Callers, CloseStdin(c) PROVE IInv'
  BY <1>5, Zenon DEF CloseStdin, CallsClose, group, IInv, Types, Launching, Closing, Callers,
              Preparing
<1>6. ASSUME NEW c \in Callers, CloseReturns(c) PROVE IInv'
  BY <1>6, Zenon DEF CloseReturns, CallsClose, At, To, group, IInv, Types, Launching, Closing,
              Callers, Preparing, Labels
<1>7. ASSUME NEW c \in Callers, CloseSession(c) PROVE IInv'
  BY <1>7 DEF CloseSession, At, To, group, IInv, Types, Launching, Closing, Callers,
              Preparing, Labels
<1> QED BY <1>1, <1>2, <1>3, <1>4, <1>5, <1>6, <1>7, Zenon DEF Closes

(* The launch, on either platform. *)
LEMMA LaunchStep ==
  ASSUME IInv,
         startPlatform \/ startWorker \/ AssignProcessToJobObject \/ WriteBootstrap
           \/ LaunchFails \/ LaunchAborted
  PROVE  IInv'
<1>1. CASE startPlatform
  BY <1>1 DEF startPlatform, At, To, IInv, Types, Launching, Closing, Callers,
              Preparing, Labels
<1>2. CASE startWorker
  BY <1>2 DEF startWorker, At, To, IInv, Types, Launching, Closing, Callers,
              Preparing, Labels
<1>3. CASE AssignProcessToJobObject
  BY <1>3, Zenon DEF AssignProcessToJobObject, At, To, group, IInv, Types, Launching, Closing,
              Callers, Preparing, Labels
<1>4. CASE WriteBootstrap
  BY <1>4, Zenon DEF WriteBootstrap, At, IInv, Types, Launching, Closing, Callers,
              Preparing, Labels
<1>5. CASE LaunchFails
  BY <1>5, Zenon DEF LaunchFails, To, IInv, Types, Launching, Closing, Callers,
              Preparing, Labels
<1>6. CASE LaunchAborted
  BY <1>6, Zenon DEF LaunchAborted, At, To, IInv, Types, Launching, Closing, Callers,
              Preparing, Labels
<1> QED BY <1>1, <1>2, <1>3, <1>4, <1>5, <1>6, Zenon

(* The dial, the listing and the end of a session. *)
LEMMA OwnerStep ==
  ASSUME IInv,
         WriteProbe \/ ReadSynthetic \/ dialTransport \/ DialFails \/ ListTools \/ Retire
  PROVE  IInv'
<1>1. CASE WriteProbe
  BY <1>1 DEF WriteProbe, At, To, group, IInv, Types, Launching, Closing, Callers,
              Preparing, Labels
<1>2. CASE ReadSynthetic
  BY <1>2 DEF ReadSynthetic, At, To, group, IInv, Types, Launching, Closing, Callers,
              Preparing, Labels
<1>3. CASE dialTransport
  BY <1>3, ZenonT(60) DEF dialTransport, At, group, IInv, Types, Launching, Closing, Callers,
              Preparing, Labels
<1>4. CASE DialFails
  BY <1>4 DEF DialFails, Dialling, To, group, IInv, Types, Launching, Closing, Callers,
              Preparing, Labels
<1>5. ASSUME NEW page \in Pages, NEW next \in Cursors \cup {""}, FetchPage(page, next)
      PROVE IInv'
  <2>1. /\ pc["owner"] = "list" /\ UNCHANGED <<group, close>>
        /\ pc' = pc \/ pc' = [pc EXCEPT !["owner"] = "use"]
    BY <1>5, Zenon DEF FetchPage, At, To
  <2>2. CASE pc' = pc
    BY <2>1, <2>2, ZenonT(60) DEF group, IInv, Types, Launching, Closing
  <2>3. CASE pc' = [pc EXCEPT !["owner"] = "use"]
    BY <2>1, <2>3, ZenonT(60) DEF group, IInv, Types, Launching, Closing, Callers, Preparing, Labels
  <2> QED BY <2>1, <2>2, <2>3, Zenon
<1>6. CASE FetchFails
  BY <1>6 DEF FetchFails, At, To, group, IInv, Types, Launching, Closing, Callers,
              Preparing, Labels
<1>7. CASE Retire
  BY <1>7 DEF Retire, At, To, group, IInv, Types, Launching, Closing, Callers,
              Preparing, Labels
<1> QED BY <1>1, <1>2, <1>3, <1>4, <1>5, <1>6, <1>7, Zenon DEF ListTools

LEMMA StepIInv ==
  ASSUME IInv, [Next]_vars
  PROVE  IInv'
<1>1. CASE UNCHANGED vars
  BY <1>1 DEF vars, group, IInv, Types, Launching, Closing
<1>2. CASE Next
  BY <1>2, GroupStep, CloseStep, CallerStep, LaunchStep, OwnerStep, Zenon
     DEF Next, CreateSession
<1> QED BY <1>1, <1>2, Zenon

(* Process.Close, on both platforms: when it returns the root is reaped and
   whoever is left of its group or job has been killed. *)
THEOREM CloseIsComplete == Spec => []CloseLeavesNothing
<1>1. IInv /\ [Next]_vars => IInv'
  BY StepIInv, Zenon
<1>2. IInv => CloseLeavesNothing
  BY Zenon DEF IInv, Closing, Launching, CloseLeavesNothing
<1> QED BY InitIInv, <1>1, <1>2, PTL DEF Spec

-----------------------------------------------------------------------------
(* A walk has not begun, begins with the first page, or goes on with a cursor
   it has not met. *)
GoodWalk(w) ==
  w \in Seq(Cursors \cup {""}) /\ Distinct(w) /\ (w # <<>> => w[1] = "")

(* The listing has asked for the first page and then for distinct cursors. *)
Walked == /\ GoodWalk(walk) /\ Distinct(tools)
          /\ pc["owner"] = "list" => walk # <<>>

(* The steps that leave the listing alone. *)
Elsewhere == UNCHANGED listing /\ (pc'["owner"] = "list" => pc["owner"] = "list")

LEMMA OtherGroup ==
  ASSUME Types, Fork \/ MemberExits \/ RunWorkerWithIO \/ waitInternal \/ CancelCtx
  PROVE  Elsewhere
  BY Zenon DEF Fork, MemberExits, RunWorkerWithIO, waitInternal, CancelCtx, Elsewhere

LEMMA OtherClose ==
  ASSUME Types, CloseSteps
  PROVE  Elsewhere
  BY Zenon DEF CloseSteps, GraceEnds, SignalGroup, TermWaitEnds, KillWaitEnds, Reaped,
         TerminateJobObject, CloseJob, Elsewhere

LEMMA OtherCaller ==
  ASSUME Types,
         WatchContext \/ PeerEnds \/ LifetimeEnds \/ (\E lf \in BOOLEAN : Read(lf))
           \/ (\E c \in Callers : Closes(c))
  PROVE  Elsewhere
<1>1. CASE WatchContext \/ PeerEnds \/ LifetimeEnds
  BY <1>1, Zenon DEF WatchContext, PeerEnds, LifetimeEnds, To, Types, Callers, Elsewhere
<1>2. ASSUME NEW lf \in BOOLEAN, Read(lf) PROVE Elsewhere
  BY <1>2, Zenon DEF Read, Elsewhere
<1>3. ASSUME NEW c \in Callers, CloseStdin(c) PROVE Elsewhere
  BY <1>3, Zenon DEF CloseStdin, Elsewhere
<1>4. ASSUME NEW c \in Callers, CloseReturns(c) PROVE Elsewhere
  BY <1>4, Zenon DEF CloseReturns, To, Types, Callers, Elsewhere
<1>5. ASSUME NEW c \in Callers, CloseSession(c) PROVE Elsewhere
  BY <1>5, Zenon DEF CloseSession, To, Types, Callers, Elsewhere
<1> QED BY <1>1, <1>2, <1>3, <1>4, <1>5, Zenon DEF Closes

LEMMA OtherOwner ==
  ASSUME Types,
         startPlatform \/ startWorker \/ AssignProcessToJobObject \/ WriteBootstrap
           \/ LaunchFails \/ LaunchAborted \/ WriteProbe \/ ReadSynthetic \/ DialFails
           \/ Retire
  PROVE  Elsewhere
<1>1. CASE startPlatform \/ startWorker \/ AssignProcessToJobObject \/ WriteBootstrap
  BY <1>1, Zenon DEF startPlatform, startWorker, AssignProcessToJobObject, WriteBootstrap, To,
              Types, Callers, Elsewhere
<1>2. CASE LaunchFails \/ LaunchAborted \/ WriteProbe
  BY <1>2, Zenon DEF LaunchFails, LaunchAborted, WriteProbe, To, Types, Callers, Elsewhere
<1>3. CASE ReadSynthetic \/ DialFails \/ Retire
  BY <1>3, Zenon DEF ReadSynthetic, DialFails, Retire, To, Types, Callers, Elsewhere
<1> QED BY <1>1, <1>2, <1>3, Zenon

LEMMA EmptyIsDistinct == Distinct(<<>>)
  BY DEF Distinct

LEMMA EmptyWalk == GoodWalk(<<>>)
  BY EmptyIsDistinct, EmptySeq, Zenon DEF GoodWalk

LEMMA FirstWalk == GoodWalk(<<"">>) /\ <<"">> # <<>>
<1> DEFINE one == <<"">>
<1>1. one \in Seq(Cursors \cup {""}) /\ Len(one) = 1 /\ one[1] = ""
  OBVIOUS
<1>2. one # <<>>
  BY <1>1, EmptySeq, Zenon
<1>3. Distinct(one)
  <2>1. \A i, j \in 1..1 : i = j
    OBVIOUS
  <2> QED BY <1>1, <2>1, Zenon DEF Distinct
<1> QED BY <1>1, <1>2, <1>3, Zenon DEF GoodWalk

LEMMA LongerWalk ==
  ASSUME NEW w, GoodWalk(w), w # <<>>, NEW next \in Cursors,
         \A i \in 2..Len(w) : w[i] # next
  PROVE  GoodWalk(Append(w, next)) /\ Append(w, next) # <<>>
<1> DEFINE S == Cursors \cup {""}
           v == Append(w, next)
<1>1. w \in Seq(S) /\ w[1] = "" /\ Distinct(w) /\ next \in S
  BY Zenon DEF GoodWalk
<1>2. next # ""
  BY DownstreamAssumption, Zenon
<1> HIDE DEF S
<1>3. /\ v \in Seq(S) /\ v # <<>> /\ Len(v) = Len(w) + 1
      /\ \A i \in 1..Len(w) : v[i] = w[i]
      /\ v[Len(w) + 1] = next
  <2>1. \A elt \in S : \A seq \in Seq(S) :
          /\ Append(seq, elt) \in Seq(S) /\ Append(seq, elt) # <<>>
          /\ Len(Append(seq, elt)) = Len(seq) + 1
          /\ \A i \in 1..Len(seq) : Append(seq, elt)[i] = seq[i]
          /\ Append(seq, elt)[Len(seq) + 1] = elt
    BY AppendProperties
  <2> QED BY <1>1, <2>1, Zenon
<1> HIDE DEF v
<1>4. Len(w) \in Nat \ {0}
  BY <1>1, EmptySeq, Zenon
<1>5. \A i \in 1..Len(w) : w[i] # next
  <2>1. \A i \in 1..Len(w) : i = 1 \/ i \in 2..Len(w)
    BY <1>4
  <2> QED BY <1>1, <1>2, <2>1, Zenon
<1>6. v[1] = ""
  <2>1. 1 \in 1..Len(w)
    BY <1>4
  <2> QED BY <1>1, <1>3, <2>1, Zenon
<1>7. Distinct(v)
  <2> SUFFICES ASSUME NEW i \in 1..Len(v), NEW j \in 1..Len(v), v[i] = v[j]
               PROVE  i = j
    BY Zenon DEF Distinct
  <2>1. (i \in 1..Len(w) \/ i = Len(w) + 1) /\ (j \in 1..Len(w) \/ j = Len(w) + 1)
    BY <1>3, <1>4
  <2> QED BY <1>1, <1>3, <1>5, <2>1, Zenon DEF Distinct
<1>8. GoodWalk(v)
  BY <1>3, <1>6, <1>7, Zenon DEF GoodWalk, S
<1> QED BY <1>3, <1>8, Zenon DEF v

LEMMA StepWalked ==
  ASSUME Types, Walked, [Next]_vars
  PROVE  Walked'
<1>1. CASE Elsewhere
  BY <1>1, Zenon DEF Elsewhere, listing, Walked, GoodWalk, Distinct
<1>2. CASE dialTransport
  <2>1. walk' = <<"">> /\ tools' = tools
    BY <1>2, Zenon DEF dialTransport
  <2>2. GoodWalk(walk') /\ walk' # <<>>
    BY <2>1, FirstWalk, Zenon
  <2>3. Distinct(tools')
    BY <2>1, Zenon DEF Walked
  <2> QED BY <2>2, <2>3, Zenon DEF Walked, GoodWalk, Distinct
<1>3. CASE FetchFails
  <2>1. walk' = <<>> /\ tools' = <<>> /\ pc'["owner"] # "list"
    BY <1>3, Zenon DEF FetchFails, To, Types, Callers
  <2>2. GoodWalk(walk') /\ Distinct(tools')
    BY <2>1, EmptyWalk, EmptyIsDistinct, Zenon
  <2> QED BY <2>1, <2>2, Zenon DEF Walked, GoodWalk, Distinct
<1>4. ASSUME NEW page \in Pages, NEW next \in Cursors \cup {""}, FetchPage(page, next)
      PROVE  Walked'
  <2>1. CASE next = ""
    <3>1. walk' = <<>> /\ tools' = <<>> /\ pc'["owner"] # "list"
      BY <1>4, <2>1, Zenon DEF FetchPage, To, Types, Callers
    <3>2. GoodWalk(walk') /\ Distinct(tools')
      BY <3>1, EmptyWalk, EmptyIsDistinct, Zenon
    <3> QED BY <3>1, <3>2, Zenon DEF Walked, GoodWalk, Distinct
  <2>2. CASE next # ""
    <3>1. /\ walk' = Append(walk, next) /\ tools' = tools \o page
          /\ Distinct(tools \o page) /\ pc["owner"] = "list"
          /\ next \notin seenCursors
      BY <1>4, <2>2, Zenon DEF FetchPage, PageRefused, CursorRefused, At
    <3>2. \A i \in 2..Len(walk) : walk[i] # next
      BY <3>1, Zenon DEF seenCursors
    <3>3. GoodWalk(walk) /\ walk # <<>> /\ next \in Cursors
      BY <2>2, <3>1, Zenon DEF Walked
    <3>4. GoodWalk(walk') /\ walk' # <<>>
      BY <3>1, <3>2, <3>3, LongerWalk, Zenon
    <3>5. Distinct(tools')
      BY <3>1, Zenon
    <3> QED BY <3>4, <3>5, Zenon DEF Walked, GoodWalk, Distinct
  <2> QED BY <2>1, <2>2, Zenon
<1>5. CASE UNCHANGED vars
  <2>1. Elsewhere
    BY <1>5, Zenon DEF vars, Elsewhere
  <2> QED BY <2>1, <1>1, Zenon
<1>6. CASE Next
  BY <1>6, <1>1, <1>2, <1>3, <1>4, OtherGroup, OtherClose, OtherCaller, OtherOwner, Zenon
     DEF Next, CreateSession, ListTools
<1> QED BY <1>5, <1>6, Zenon

(* fetchPages: no page is asked for twice and no tool collected twice, however
   long the server goes on. *)
THEOREM PagesOnce == Spec => []NoPageTwice
<1>1. Init => Walked
  BY EmptyIsDistinct, EmptyWalk, Zenon DEF Init, Walked, Callers
<1>2. IInv /\ [Next]_vars => IInv'
  BY StepIInv, Zenon
<1>3. IInv /\ Walked /\ [Next]_vars => Walked'
  BY StepWalked, Zenon DEF IInv
<1>4. Walked => NoPageTwice
  BY Zenon DEF Walked, GoodWalk, NoPageTwice
<1> QED BY InitIInv, <1>1, <1>2, <1>3, <1>4, PTL DEF Spec
=============================================================================
