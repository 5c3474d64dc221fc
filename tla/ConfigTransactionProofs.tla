---------------------- MODULE ConfigTransactionProofs ----------------------
(***************************************************************************)
(* Proofs about ConfigTransaction, for any number of Admin requests and    *)
(* imports, any contents of the file, any edits and power failures.        *)
(***************************************************************************)
EXTENDS ConfigTransaction, TLAPS

(* The fields of a process and of the controller, whatever they hold.      *)
ProcFields == {"pc", "phase", "seen", "new", "snap", "removed", "answer"}
CtlFields == {"applied", "candidate", "count", "current", "restart"}

IsProc(r) == DOMAIN r = ProcFields /\ r = [x \in ProcFields |-> r[x]]
IsCtl(k) == DOMAIN k = CtlFields /\ k = [x \in CtlFields |-> k[x]]

Shape ==
  /\ proc = [p \in Procs |-> proc[p]] /\ \A p \in Procs : IsProc(proc[p])
  /\ IsCtl(ctl)

TxLabels == {"checked", "write", "locked", "replaced", "reload", "apply", "stopping"}

(* txMu: an Admin request that has passed its first check, and a poll that has
   found a new configuration, hold it until they answer, and the Hub is up. *)
TxInv ==
  /\ \A a \in Admins : proc[a].pc \in TxLabels => txMu = a /\ hub = "up"
  /\ proc["poll"].pc \in {"idle", "apply", "stopping"}
  /\ proc["poll"].pc # "idle" => txMu = "poll" /\ hub = "up"
  /\ \A i \in Importers : proc[i].pc \in {"idle", "write", "locked", "replaced", "done"}

(* The lock file: between the comparison and the end of the write its holder is
   the only one there. *)
LockInv == \A p \in Writers : proc[p].pc \in {"locked", "replaced"} => flock = p

(* What a writer knows of the file: what it compared with is still there unless
   the editor came, and what it wrote is there while nobody else wrote; once
   synced it is there for good, and it is what the reload has read.  An import
   that found no file has compared nothing. *)
FoundNone(p) == p \in Importers /\ proc[p].seen = NoConfig

KnowsFile(p) ==
  /\ proc[p].pc = "locked" => file = Expected(p) \/ author = "editor" \/ FoundNone(p)
  /\ author = p /\ proc[p].pc \in {"replaced", "reload", "apply", "stopping"}
       => file = Data(p)
  /\ author = p /\ proc[p].pc \in {"reload", "apply", "stopping"} => disk = {Data(p)}
  /\ author = p /\ proc[p].pc \in {"apply", "stopping"} => proc[p].snap = Data(p)

FileInv == \A p \in Writers : KnowsFile(p)

(* An Admin request has a digest for its write and one for its rollback; an
   import never rolls back. *)
Compares(r) ==
  /\ r.pc \in TxLabels \cup {"seen"} => r.seen # NoConfig
  /\ r.pc \in TxLabels => r.new # NoConfig

Carries(p, r) ==
  /\ p \in Admins => Compares(r)
  /\ p \in Importers => r.phase = "commit"

DigestInv == \A p \in Procs : Carries(p, proc[p])

(* Past the checks of apply the manager runs the configuration about to be
   recorded, and that one leaves the Admin token alone. *)
Runs(p) == running = stripStartupSecrets(proc[p].snap) /\ startup.admin \notin proc[p].snap.tokens

RunInv ==
  /\ hub \in {"loaded", "up"} => startup.admin \notin startup.tokens
  /\ \A p \in Procs : proc[p].pc = "stopping" => Runs(p)

IInv == Shape /\ TxInv /\ LockInv /\ FileInv /\ DigestInv /\ RunInv /\ TokenDomains
-----------------------------------------------------------------------------
(* One process takes a step: what it becomes, and that the others do not move. *)
Moves(p, y) == IsProc(y) /\ proc' = [proc EXCEPT ![p] = y]

LEMMA Names ==
  /\ "poll" \notin Writers /\ "none" \notin Procs /\ "editor" \notin Procs
  /\ Admins \subseteq Writers /\ Importers \subseteq Writers /\ Writers \subseteq Procs
  /\ "poll" \in Procs /\ Admins \cap Importers = {}
  BY ConfigAssumption, Zenon DEF Writers, Procs

LEMMA OneMoves ==
  ASSUME Shape, NEW p \in Procs, NEW y, Moves(p, y)
  PROVE  /\ proc'[p] = y /\ \A q \in Procs \ {p} : proc'[q] = proc[q]
         /\ proc' = [q \in Procs |-> proc'[q]] /\ \A q \in Procs : IsProc(proc'[q])
  <1>1. proc'[p] = y /\ \A q \in Procs \ {p} : proc'[q] = proc[q]
    BY Zenon DEF Shape, Moves
  <1>2. proc' = [q \in Procs |-> proc'[q]]
    BY Zenon DEF Shape, Moves
  <1>3. \A q \in Procs : IsProc(proc'[q])
    BY <1>1, Zenon DEF Shape, Moves
  <1> QED  BY <1>1, <1>2, <1>3, Zenon

LEMMA IdleProc ==
  /\ IsProc(Idle) /\ Idle.pc = "idle" /\ Idle.answer = "none" /\ Idle.phase = "commit"
  /\ \A a : LET y == [Idle EXCEPT !.pc = "done", !.answer = a] IN
        IsProc(y) /\ y.pc = "done" /\ y.answer = a /\ y.phase = "commit"
  BY Zenon DEF Idle, IsProc, ProcFields

(* A process at its beginning or its end. *)
LEMMA RestCarries ==
  \A p, r : r.pc \in {"idle", "done"} /\ r.phase = "commit" => Carries(p, r)
  BY Zenon DEF Carries, Compares, TxLabels

(* What decodes is not the empty digest. *)
LEMMA DecodedIsSome ==
  ASSUME NEW c, DecodeStrict(c) \/ Valid(c)
  PROVE  c # NoConfig
  <1>1. NoConfig.form = "none"  BY DEF NoConfig
  <1> QED  BY <1>1, Zenon DEF DecodeStrict, Valid

LEMMA SetPc ==
  ASSUME NEW r, IsProc(r), NEW l
  PROVE  LET y == [r EXCEPT !.pc = l] IN
         /\ IsProc(y) /\ y.pc = l /\ y.phase = r.phase /\ y.seen = r.seen
         /\ y.new = r.new /\ y.snap = r.snap /\ y.answer = r.answer
  BY Zenon DEF IsProc, ProcFields

(* What the controller keeps when it turns a sample down. *)
LEMMA CtlKept ==
  ASSUME IsCtl(ctl)
  PROVE  /\ IsCtl(Rejected) /\ Rejected.current = ctl.current /\ Rejected.restart = ctl.restart
         /\ \A d : LET k == observeCandidate(d) IN
               IsCtl(k) /\ k.current = ctl.current /\ k.restart = ctl.restart
         /\ \A c : LET k == Recorded(c) IN
               /\ IsCtl(k) /\ k.current = c /\ k.applied = c
               /\ ~k.restart => c.admin = startup.admin
  <1>1. IsCtl(Rejected) /\ Rejected.current = ctl.current /\ Rejected.restart = ctl.restart
    BY Zenon DEF Rejected, IsCtl, CtlFields
  <1>2. ASSUME NEW d
        PROVE  LET k == observeCandidate(d) IN
               IsCtl(k) /\ k.current = ctl.current /\ k.restart = ctl.restart
    BY <1>1, Zenon DEF observeCandidate, IsCtl, CtlFields
  <1>3. ASSUME NEW c
        PROVE  LET k == Recorded(c) IN
               /\ IsCtl(k) /\ k.current = c /\ k.applied = c
               /\ ~k.restart => c.admin = startup.admin
    BY Zenon DEF Recorded, IsCtl, CtlFields
  <1> QED  BY <1>1, <1>2, <1>3, Zenon
-----------------------------------------------------------------------------
LEMMA InitIInv == Init => IInv
  <1> SUFFICES ASSUME Init PROVE IInv  BY Zenon
  <1>1. \A p \in Procs : proc[p] = Idle  BY Zenon DEF Init
  <1>2. Shape
    <2>1. proc = [p \in Procs |-> proc[p]]  BY Zenon DEF Init
    <2>2. IsCtl(ctl)  BY Zenon DEF Init, IsCtl, CtlFields
    <2> QED  BY <1>1, <2>1, <2>2, IdleProc, Zenon DEF Shape
  <1>3. \A p \in Procs : proc[p].pc = "idle"  BY <1>1, IdleProc, Zenon
  <1>4. TxInv  BY <1>3, Names, Zenon DEF TxInv, TxLabels
  <1>5. LockInv  BY <1>3, Names, Zenon DEF LockInv
  <1>6. FileInv  BY <1>3, Names, Zenon DEF FileInv, KnowsFile
  <1>7. RunInv /\ TokenDomains  BY <1>3, Zenon DEF RunInv, TokenDomains, Init
  <1>8. DigestInv
    <2>1. Idle.pc \in {"idle", "done"} /\ Idle.phase = "commit"  BY IdleProc, Zenon
    <2>2. \A p : Carries(p, Idle)  BY <2>1, RestCarries, Zenon
    <2> QED  BY <1>1, <2>2, Zenon DEF DigestInv
  <1> QED  BY <1>2, <1>4, <1>5, <1>6, <1>7, <1>8, Zenon DEF IInv

(* What a step of process p must respect for the others to keep what they know:
   txMu and the lock file are taken from nobody else, the file is replaced only
   under the lock, the manager is changed only under txMu ... *)
Respects(p) ==
  /\ UNCHANGED <<hub, startup>>
  /\ txMu' = txMu \/ txMu = p \/ txMu = "none"
  /\ flock' = flock \/ flock = p \/ flock = "none"
  /\ UNCHANGED <<file, author>> \/ (author' = p /\ flock = p)
  /\ UNCHANGED disk \/ author' = p
  /\ UNCHANGED running \/ txMu = p

(* ... and what it must hold at the point it reaches. *)
Reaches(p, l) ==
  /\ p \in Admins /\ l \in TxLabels => txMu' = p /\ hub = "up"
  /\ p \in Importers => l \in {"idle", "write", "locked", "replaced", "done"}
  /\ p = "poll" => l \in {"idle", "apply", "stopping"}
  /\ p = "poll" /\ l # "idle" => txMu' = "poll" /\ hub = "up"
  /\ p \in Writers /\ l \in {"locked", "replaced"} => flock' = p

LEMMA ActorStep ==
  ASSUME IInv, NEW p \in Procs, NEW y, Moves(p, y), Respects(p), Reaches(p, y.pc),
         Carries(p, y), p \in Writers => KnowsFile(p)', y.pc = "stopping" => Runs(p)',
         IsCtl(ctl'), TokenDomains'
  PROVE  IInv'
  <1>1. /\ proc'[p] = y /\ \A q \in Procs \ {p} : proc'[q] = proc[q]
        /\ proc' = [q \in Procs |-> proc'[q]] /\ \A q \in Procs : IsProc(proc'[q])
    BY OneMoves, Zenon DEF IInv
  <1>2. Shape'  BY <1>1, Zenon DEF Shape
  <1>3. TxInv'
    <2>1. ASSUME NEW a \in Admins, proc'[a].pc \in TxLabels
          PROVE  txMu' = a /\ hub' = "up"
      <3>1. CASE a = p  BY <1>1, <2>1, <3>1, Zenon DEF Respects, Reaches
      <3>2. CASE a # p  BY <1>1, <2>1, <3>2, Names, Zenon DEF Respects, IInv, TxInv
      <3> QED  BY <3>1, <3>2, Zenon
    <2>2. proc'["poll"].pc \in {"idle", "apply", "stopping"}
      BY <1>1, Names, Zenon DEF Reaches, IInv, TxInv
    <2>3. proc'["poll"].pc # "idle" => txMu' = "poll" /\ hub' = "up"
      BY <1>1, Names DEF Respects, Reaches, IInv, TxInv
    <2>4. \A i \in Importers : proc'[i].pc \in {"idle", "write", "locked", "replaced", "done"}
      BY <1>1, Names, Zenon DEF Reaches, IInv, TxInv
    <2> QED  BY <2>1, <2>2, <2>3, <2>4, Zenon DEF TxInv
  <1>4. LockInv'
    BY <1>1, Names DEF Respects, Reaches, IInv, LockInv
  <1>5. FileInv'
    <2> SUFFICES ASSUME NEW q \in Writers, q # p PROVE KnowsFile(q)'  BY Zenon DEF FileInv
    <2>1. proc'[q] = proc[q]  BY <1>1, Names, Zenon
    <2>2. KnowsFile(q)  BY Zenon DEF IInv, FileInv
    <2>3. proc[q].pc = "locked" => flock = q  BY Zenon DEF IInv, LockInv
    <2>4. Expected(q)' = Expected(q) /\ Data(q)' = Data(q)  BY <2>1, Zenon DEF Expected, Data
    <2>5. FoundNone(q) => FoundNone(q)'  BY <2>1, Zenon DEF FoundNone
    <2> QED  BY <2>1, <2>2, <2>3, <2>4, <2>5, Zenon DEF Respects, KnowsFile
  <1>6. RunInv'
    <2> SUFFICES ASSUME NEW q \in Procs, q # p, proc'[q].pc = "stopping" PROVE Runs(q)'
      BY <1>1, Zenon DEF IInv, RunInv, Respects
    <2>1. proc'[q] = proc[q] /\ Runs(q)  BY <1>1, Zenon DEF IInv, RunInv
    <2>2. txMu = q  BY <2>1, Zenon DEF IInv, TxInv, TxLabels, Procs, Writers
    <2>3. UNCHANGED <<running, startup>>  BY <2>2, Names, Zenon DEF Respects
    <2> QED  BY <2>1, <2>3, Zenon DEF Runs, stripStartupSecrets
  <1>7. DigestInv'
    BY <1>1, Zenon DEF IInv, DigestInv, Carries, Compares
  <1> QED  BY <1>2, <1>3, <1>4, <1>5, <1>6, <1>7, Zenon DEF IInv

LEMMA CtlStays ==
  ASSUME IInv, UNCHANGED <<hub, startup>>,
         ctl'.current = ctl.current, ctl'.restart = ctl.restart
  PROVE  TokenDomains'
  BY Zenon DEF IInv, TokenDomains

(* A step that changes neither the file nor what runs, and after which its
   process knows nothing of either: a read, a check, a refusal, a failure. *)
Quiet(p, y) ==
  /\ Carries(p, y)
  /\ UNCHANGED <<file, disk, author, hub, startup, running>>
  /\ IsCtl(ctl') /\ ctl'.current = ctl.current /\ ctl'.restart = ctl.restart
  /\ y.pc \in {"idle", "seen", "checked", "write", "done"}
  /\ p \in Admins /\ y.pc \in {"checked", "write"} => txMu' = p /\ hub = "up"
  /\ p \in Importers => y.pc \in {"idle", "write", "done"}
  /\ p = "poll" => y.pc = "idle"
  /\ txMu' = txMu \/ txMu = p \/ txMu = "none"
  /\ flock' = flock \/ flock = p

LEMMA QuietStep ==
  ASSUME IInv, NEW p \in Procs, NEW y, Moves(p, y), Quiet(p, y)
  PROVE  IInv'
  <1>1. Respects(p) /\ Reaches(p, y.pc)
    BY Zenon DEF Quiet, Respects, Reaches, TxLabels
  <1>2. proc'[p] = y  BY OneMoves, Zenon DEF IInv
  <1>3. KnowsFile(p)'  BY <1>2, Zenon DEF Quiet, KnowsFile
  <1>4. TokenDomains'  BY CtlStays, Zenon DEF Quiet
  <1>5. IsCtl(ctl') /\ y.pc # "stopping"  BY Zenon DEF Quiet
  <1>6. Carries(p, y)  BY Zenon DEF Quiet
  <1> QED  BY <1>1, <1>3, <1>4, <1>5, <1>6, ActorStep, Zenon

LEMMA AnswerMoves ==
  ASSUME NEW p, NEW a, Answer(p, a)
  PROVE  \E y : /\ Moves(p, y) /\ y.pc = "done" /\ Carries(p, y)
                /\ p \in Admins => y.answer = a
  <1> DEFINE z == IF p \in Admins THEN a ELSE "none"
             y == [Idle EXCEPT !.pc = "done", !.answer = z]
  <1>1. proc' = [proc EXCEPT ![p] = y]  BY Zenon DEF Answer
  <1>2. p \in Admins => z = a  BY Zenon
  <1> HIDE DEF z
  <1>3. IsProc(y) /\ y.pc = "done" /\ y.answer = z /\ y.phase = "commit"  BY IdleProc, Zenon
  <1> HIDE DEF y
  <1> QED  BY <1>1, <1>2, <1>3, RestCarries, Zenon DEF Moves

Ended(p, a, y) ==
  /\ Moves(p, y) /\ Carries(p, y)
  /\ p = "poll" => y.pc = "idle"
  /\ p # "poll" => y.pc = "done" /\ (p \in Admins => y.answer = a)

LEMMA FinishMoves ==
  ASSUME NEW p, NEW a, Finish(p, a)
  PROVE  \E y : Ended(p, a, y)
  <1>1. CASE p = "poll"
    <2>1. Moves(p, Idle)  BY <1>1, IdleProc, Zenon DEF Finish, Moves
    <2> QED  BY <1>1, <2>1, IdleProc, RestCarries, Zenon DEF Ended
  <1>2. CASE p # "poll"
    <2>1. Answer(p, a)  BY <1>2, Zenon DEF Finish
    <2>2. PICK y : /\ Moves(p, y) /\ y.pc = "done" /\ Carries(p, y)
                   /\ p \in Admins => y.answer = a
      BY <2>1, AnswerMoves, Zenon
    <2> QED  BY <1>2, <2>2, Zenon DEF Ended
  <1> QED  BY <1>1, <1>2, Zenon

LEMMA ToMoves ==
  ASSUME Shape, NEW p \in Procs, NEW l, To(p, l)
  PROVE  \E y : /\ Moves(p, y) /\ y.pc = l /\ y.phase = proc[p].phase
               /\ y.seen = proc[p].seen /\ y.new = proc[p].new
               /\ y.snap = proc[p].snap /\ y.answer = proc[p].answer
  <1>1. IsProc(proc[p])  BY Zenon DEF Shape
  <1> DEFINE y == [proc[p] EXCEPT !.pc = l]
  <1>2. /\ IsProc(y) /\ y.pc = l /\ y.phase = proc[p].phase
        /\ y.seen = proc[p].seen /\ y.new = proc[p].new
        /\ y.snap = proc[p].snap /\ y.answer = proc[p].answer
    BY <1>1, SetPc
  <1>3. proc' = [proc EXCEPT ![p] = y]  BY Zenon DEF To, Shape
  <1> HIDE DEF y
  <1> QED  BY <1>2, <1>3, Zenon DEF Moves

(* A process that goes on with its transaction keeps its digests. *)
LEMMA GoesOn ==
  ASSUME IInv, NEW p \in Procs, NEW y, proc[p].pc \in TxLabels \/ p \notin Admins,
         y.seen = proc[p].seen, y.new = proc[p].new,
         y.phase = proc[p].phase \/ p \notin Importers
  PROVE  Carries(p, y)
  BY Zenon DEF IInv, DigestInv, Carries, Compares

(* A transaction that ends leaves txMu to others. *)
LEMMA FinishQuiet ==
  ASSUME IInv, NEW p \in Procs, NEW a, Finish(p, a),
         UNCHANGED <<file, disk, author, hub, startup, running>>,
         IsCtl(ctl'), ctl'.current = ctl.current, ctl'.restart = ctl.restart,
         flock' = flock \/ flock = p
  PROVE  IInv'
  <1>1. PICK y : Ended(p, a, y)  BY FinishMoves, Zenon
  <1>2. txMu' = txMu \/ txMu = p  BY Zenon DEF Finish
  <1>3. Quiet(p, y)  BY <1>1, <1>2, Zenon DEF Quiet, Ended
  <1> QED  BY <1>1, <1>3, QuietStep, Zenon DEF Ended

(* A reload that fails starts the rollback or ends the transaction. *)
LEMMA FailsQuiet ==
  ASSUME IInv, NEW p \in Admins \cup {"poll"}, ReloadFails(p),
         proc[p].pc \in {"reload", "apply", "stopping"},
         UNCHANGED <<file, disk, author, flock, hub, startup, running>>,
         ctl' = Rejected
  PROVE  IInv'
  <1>0. p \in Procs  BY Names, Zenon
  <1>1. IsCtl(ctl') /\ ctl'.current = ctl.current /\ ctl'.restart = ctl.restart
    BY CtlKept, Zenon DEF IInv, Shape
  <1>2. CASE p # "poll" /\ proc[p].phase = "commit"
    <2>0. p \in Admins  BY <1>2, Zenon
    <2>1. IsProc(proc[p])  BY <1>0, Zenon DEF IInv, Shape
    <2> DEFINE y == [proc[p] EXCEPT !.pc = "write", !.phase = "rollback"]
    <2>2. IsProc(y) /\ y.pc = "write" /\ y.seen = proc[p].seen /\ y.new = proc[p].new
      BY <2>1, Zenon DEF IsProc, ProcFields
    <2>6. proc' = [proc EXCEPT ![p] = y]  BY <1>0, <1>2, Zenon DEF ReloadFails, IInv, Shape
    <2> HIDE DEF y
    <2>7. Moves(p, y)  BY <2>2, <2>6, Zenon DEF Moves
    <2>3. txMu = p /\ hub = "up"  BY <2>0, Zenon DEF IInv, TxInv, TxLabels
    <2>4. UNCHANGED txMu  BY <1>2, Zenon DEF ReloadFails
    <2>8. Carries(p, y)  BY <1>0, <2>0, <2>2, GoesOn, Names, Zenon DEF TxLabels
    <2>5. Quiet(p, y)  BY <1>1, <1>2, <2>0, <2>2, <2>3, <2>4, <2>8, Names, Zenon DEF Quiet
    <2> QED  BY <1>0, <2>7, <2>5, QuietStep, Zenon
  <1>3. CASE ~(p # "poll" /\ proc[p].phase = "commit")
    <2>1. Finish(p, "restoreFailed")  BY <1>3, Zenon DEF ReloadFails
    <2> QED  BY <1>0, <1>1, <2>1, FinishQuiet, Zenon
  <1> QED  BY <1>2, <1>3, Zenon
-----------------------------------------------------------------------------
(* The Hub's start, the editor and a sample that changes nothing: no process
   moves. *)
LEMMA EnvStep ==
  ASSUME IInv, Load \/ NewController \/ \E c \in Edits : Edit(c)
  PROVE  IInv'
  <1>0. UNCHANGED <<proc, txMu, flock>>  BY Zenon DEF Load, NewController, Edit, filevars
  <1>9. DigestInv'  BY <1>0, Zenon DEF IInv, DigestInv, Carries, Compares
  <1>1. CASE Load
    <2>1. \A p \in Admins \cup {"poll"} : proc[p].pc \notin TxLabels
      BY <1>1, Zenon DEF Load, IInv, TxInv, TxLabels
    <2>2. \A p \in Procs : proc[p].pc # "stopping"
      BY <2>1, Zenon DEF IInv, TxInv, TxLabels, Procs, Writers
    <2>3. Shape' /\ LockInv'  BY <1>0, <1>1, Zenon DEF Load, IInv, Shape, LockInv
    <2>4. TxInv'
      BY <1>0, <1>1, <2>1, Zenon DEF Load, IInv, TxInv, TxLabels
    <2>5. FileInv'
      BY <1>0, <1>1, Zenon DEF Load, filevars, IInv, FileInv, KnowsFile, FoundNone,
             Expected, Data
    <2>6. RunInv' /\ TokenDomains'
      BY <1>0, <1>1, <2>2, Zenon DEF Load, Valid, Resolve, RunInv, TokenDomains
    <2> QED  BY <1>9, <2>3, <2>4, <2>5, <2>6, Zenon DEF IInv
  <1>2. CASE NewController
    <2>1. Shape'
      BY <1>0, <1>2, Zenon DEF NewController, IInv, Shape, IsCtl, CtlFields
    <2>2. LockInv' /\ TxInv'  BY <1>0, <1>2, Zenon DEF NewController, IInv, LockInv, TxInv
    <2>3. FileInv'
      BY <1>0, <1>2, Zenon DEF NewController, filevars, IInv, FileInv, KnowsFile, FoundNone,
             Expected, Data
    <2>4. RunInv'
      BY <1>0, <1>2, Zenon DEF NewController, IInv, RunInv, Runs, stripStartupSecrets
    <2>5. TokenDomains'
      BY <1>2, Zenon DEF NewController, IInv, RunInv, TokenDomains
    <2> QED  BY <1>9, <2>1, <2>2, <2>3, <2>4, <2>5, Zenon DEF IInv
  <1>3. ASSUME NEW c \in Edits, Edit(c) PROVE IInv'
    <2>1. Shape' /\ LockInv' /\ TxInv' /\ TokenDomains'
      BY <1>0, <1>3, Zenon DEF Edit, IInv, Shape, LockInv, TxInv, TokenDomains
    <2>2. FileInv'
      BY <1>0, <1>3, Names, Zenon DEF Edit, FileInv, KnowsFile
    <2>3. RunInv'  BY <1>0, <1>3, Zenon DEF Edit, IInv, RunInv, Runs, stripStartupSecrets
    <2> QED  BY <1>9, <2>1, <2>2, <2>3, Zenon DEF IInv
  <1> QED  BY <1>1, <1>2, <1>3, Zenon

(* A power failure leaves every process at its beginning or its end. *)
LEMMA CrashStep ==
  ASSUME IInv, NEW f \in disk, Crash(f)
  PROVE  IInv'
  <1>1. ASSUME NEW p \in Procs
        PROVE  /\ IsProc(proc'[p]) /\ proc'[p].pc \in {"idle", "done"}
               /\ Carries(p, proc'[p])
    <2> DEFINE y == [Idle EXCEPT !.pc = "done"]
    <2>1. IsProc(y) /\ y.pc = "done" /\ y.phase = "commit"
      BY Zenon DEF Idle, IsProc, ProcFields
    <2>2. proc'[p] = IF proc[p].pc \in {"idle", "done"} /\ p # "poll" THEN proc[p]
                     ELSE IF p = "poll" THEN Idle ELSE y
      BY Zenon DEF Crash
    <2> HIDE DEF y
    <2> QED  BY <2>1, <2>2, IdleProc, RestCarries, Zenon DEF IInv, Shape, DigestInv
  <1>2. proc' = [p \in Procs |-> proc'[p]] /\ proc'["poll"].pc = "idle"
    BY IdleProc, Names, Zenon DEF Crash
  <1>3. Shape'  BY <1>1, <1>2, Zenon DEF Crash, IInv, Shape
  <1>4. TxInv'  BY <1>1, <1>2, Names, Zenon DEF TxInv, TxLabels
  <1>5. LockInv' /\ FileInv'
    BY <1>1, Names, Zenon DEF LockInv, FileInv, KnowsFile
  <1>6. RunInv' /\ TokenDomains'  BY <1>1, Zenon DEF Crash, RunInv, TokenDomains
  <1>7. DigestInv'  BY <1>1, Zenon DEF DigestInv, Carries, Compares
  <1> QED  BY <1>3, <1>4, <1>5, <1>6, <1>7, Zenon DEF IInv
-----------------------------------------------------------------------------
(* The controller. *)
LEMMA PollStep ==
  ASSUME IInv, Poll
  PROVE  IInv'
  <1>0. "poll" \in Procs /\ "poll" \notin Writers  BY Names, Zenon
  <1>1. IsProc(proc["poll"]) /\ proc["poll"].pc = "idle"  BY <1>0, Zenon DEF IInv, Shape, Poll
  <1>2. IsCtl(ctl') /\ ctl'.current = ctl.current /\ ctl'.restart = ctl.restart
    BY CtlKept DEF IInv, Shape, Poll
  <1>3. UNCHANGED <<file, disk, author, flock, hub, startup, running>>
    BY Zenon DEF Poll, filevars
  <1>4. CASE Stable(file) /\ Valid(file)
    <2> DEFINE y == [proc["poll"] EXCEPT !.pc = "apply", !.snap = file]
    <2>1. IsProc(y) /\ y.pc = "apply"  BY <1>1, Zenon DEF IsProc, ProcFields
    <2>2. proc' = [proc EXCEPT !["poll"] = y]  BY <1>0, <1>4, Zenon DEF Poll, IInv, Shape
    <2> HIDE DEF y
    <2>3. Moves("poll", y)  BY <2>1, <2>2, Zenon DEF Moves
    <2>4. txMu = "none" /\ txMu' = "poll" /\ hub = "up"  BY <1>4, Zenon DEF Poll
    <2>5. Respects("poll")  BY <1>3, <2>4, Zenon DEF Respects
    <2>6. Reaches("poll", y.pc)  BY <1>0, <2>1, <2>4, Names, Zenon DEF Reaches
    <2>7. TokenDomains'  BY <1>2, <1>3, CtlStays, Zenon
    <2>8. y.pc # "stopping" /\ Carries("poll", y)
      BY <1>0, <2>1, Names, Zenon DEF Carries
    <2> QED  BY <1>0, <1>2, <2>3, <2>5, <2>6, <2>7, <2>8, ActorStep, Zenon
  <1>5. CASE ~(Stable(file) /\ Valid(file))
    <2>1. UNCHANGED <<txMu, proc>>  BY <1>5, Zenon DEF Poll
    <2>2. Moves("poll", proc["poll"])  BY <1>0, <1>1, <2>1, Zenon DEF Moves, IInv, Shape
    <2>3. Quiet("poll", proc["poll"])
      BY <1>0, <1>1, <1>2, <1>3, <2>1, Names, Zenon DEF Quiet, IInv, DigestInv
    <2> QED  BY <1>0, <2>2, <2>3, QuietStep, Zenon
  <1> QED  BY <1>4, <1>5, Zenon

LEMMA ReloadNowStep ==
  ASSUME IInv, NEW p \in Admins, reloadNow(p)
  PROVE  IInv'
  <1>0. p \in Procs /\ p \in Writers /\ p # "poll" /\ p \notin Importers  BY Names, Zenon
  <1>1. UNCHANGED <<file, disk, author, flock, hub, startup, running>>
    BY Zenon DEF reloadNow, filevars
  <1>2. CASE Valid(file)
    <2>0. IsProc(proc[p]) /\ KnowsFile(p) /\ txMu = p /\ hub = "up" /\ proc[p].pc = "reload"
      BY <1>0, Zenon DEF IInv, Shape, FileInv, TxInv, TxLabels, reloadNow
    <2> DEFINE y == [proc[p] EXCEPT !.pc = "apply", !.snap = file]
    <2>1. /\ IsProc(y) /\ y.pc = "apply" /\ y.snap = file /\ y.phase = proc[p].phase
          /\ y.seen = proc[p].seen /\ y.new = proc[p].new
      BY <2>0, Zenon DEF IsProc, ProcFields
    <2>2. proc' = [proc EXCEPT ![p] = y]  BY <1>0, <1>2, Zenon DEF reloadNow, IInv, Shape
    <2> HIDE DEF y
    <2>3. Moves(p, y)  BY <2>1, <2>2, Zenon DEF Moves
    <2>4. UNCHANGED <<txMu, ctl>>  BY <1>2, Zenon DEF reloadNow
    <2>5. Respects(p)  BY <1>1, <2>4, Zenon DEF Respects
    <2>6. Reaches(p, y.pc)  BY <1>0, <2>0, <2>1, <2>4, Zenon DEF Reaches
    <2>7. proc'[p] = y  BY <1>0, <2>3, OneMoves, Zenon DEF IInv
    <2>8. KnowsFile(p)'
      BY <1>1, <2>0, <2>1, <2>7, Zenon DEF KnowsFile, Data
    <2>9. IsCtl(ctl') /\ TokenDomains'  BY <1>1, <2>4, CtlStays, Zenon DEF IInv, Shape
    <2>10. y.pc # "stopping" /\ Carries(p, y)
      BY <1>0, <2>0, <2>1, GoesOn, Zenon DEF TxLabels
    <2> QED  BY <1>0, <2>3, <2>5, <2>6, <2>8, <2>9, <2>10, ActorStep, Zenon
  <1>3. CASE ~Valid(file)
    <2>1. ctl' = Rejected /\ ReloadFails(p) /\ proc[p].pc = "reload"
      BY <1>3, Zenon DEF reloadNow
    <2> QED  BY <1>1, <2>1, FailsQuiet, Zenon
  <1> QED  BY <1>2, <1>3, Zenon

LEMMA ApplyStep ==
  ASSUME IInv, NEW p \in Admins \cup {"poll"}, apply(p)
  PROVE  IInv'
  <1>0. p \in Procs /\ p \notin Importers  BY Names, Zenon
  <1>1. UNCHANGED <<file, disk, author, flock, hub, startup>> /\ proc[p].pc = "apply"
    BY Zenon DEF apply, filevars
  <1>2. CASE Refuses(proc[p].snap)
    <2>1. ctl' = Rejected /\ ReloadFails(p) /\ UNCHANGED running
      BY <1>2, Zenon DEF apply
    <2> QED  BY <1>1, <2>1, FailsQuiet, Zenon
  <1>3. CASE ~Refuses(proc[p].snap)
    <2>0. IsProc(proc[p]) /\ txMu = p /\ hub = "up"
      BY <1>0, <1>1, Zenon DEF IInv, Shape, TxInv, TxLabels
    <2> DEFINE b == DOMAIN running \ DOMAIN proc[p].snap.servers # {}
               y == [proc[p] EXCEPT !.pc = "stopping", !.removed = b]
    <2>2. proc' = [proc EXCEPT ![p] = y]  BY <1>0, <1>3, Zenon DEF apply, IInv, Shape
    <2> HIDE DEF b
    <2>1. /\ IsProc(y) /\ y.pc = "stopping" /\ y.snap = proc[p].snap
          /\ y.phase = proc[p].phase /\ y.seen = proc[p].seen /\ y.new = proc[p].new
      BY <2>0, Zenon DEF IsProc, ProcFields
    <2> HIDE DEF y
    <2>3. Moves(p, y)  BY <2>1, <2>2, Zenon DEF Moves
    <2>4. UNCHANGED <<txMu, ctl>> /\ running' = stripStartupSecrets(proc[p].snap)
      BY <1>3, Zenon DEF apply
    <2>5. Respects(p)  BY <1>1, <2>0, <2>4, Zenon DEF Respects
    <2>6. Reaches(p, y.pc)  BY <1>0, <2>0, <2>1, <2>4, Zenon DEF Reaches, TxLabels
    <2>7. proc'[p] = y  BY <1>0, <2>3, OneMoves, Zenon DEF IInv
    <2>8. ASSUME p \in Writers PROVE KnowsFile(p)'
      <3>1. KnowsFile(p)  BY <2>8, Zenon DEF IInv, FileInv
      <3>2. Data(p)' = Data(p)  BY <2>1, <2>7, Zenon DEF Data
      <3> QED  BY <1>1, <2>1, <2>7, <3>1, <3>2, Zenon DEF KnowsFile
    <2>9. IsCtl(ctl') /\ TokenDomains'  BY <1>1, <2>4, CtlStays, Zenon DEF IInv, Shape
    <2>10. Runs(p)'
      <3>1. startup.admin \notin proc[p].snap.tokens  BY <1>3, Zenon DEF Refuses
      <3> QED  BY <1>1, <2>1, <2>4, <2>7, <3>1, Zenon DEF Runs, stripStartupSecrets
    <2>11. Carries(p, y)  BY <1>0, <1>1, <2>1, GoesOn, Zenon DEF TxLabels
    <2> QED  BY <1>0, <2>3, <2>5, <2>6, <2>8, <2>9, <2>10, <2>11, ActorStep, Zenon
  <1> QED  BY <1>2, <1>3, Zenon

LEMMA AppliedStep ==
  ASSUME IInv, NEW p \in Admins \cup {"poll"}, applied(p)
  PROVE  IInv'
  <1>0. p \in Procs /\ p \notin Importers  BY Names, Zenon
  <1>1. UNCHANGED <<file, disk, author, flock, hub, startup, running>> /\ proc[p].pc = "stopping"
    BY Zenon DEF applied, filevars
  <1>2. PICK a : Finish(p, a)  BY Zenon DEF applied
  <1>3. PICK y : Ended(p, a, y)  BY <1>2, FinishMoves, Zenon
  <1>4. /\ Moves(p, y) /\ y.pc \in {"idle", "done"} /\ (p = "poll" => y.pc = "idle")
        /\ Carries(p, y)
    BY <1>3, Zenon DEF Ended
  <1>5. txMu' = txMu \/ txMu = p  BY <1>2, Zenon DEF Finish
  <1>6. Respects(p) /\ Reaches(p, y.pc)
    BY <1>0, <1>1, <1>4, <1>5, Zenon DEF Respects, Reaches, TxLabels
  <1>7. proc'[p] = y  BY <1>0, <1>4, OneMoves, Zenon DEF IInv
  <1>8. KnowsFile(p)' /\ y.pc # "stopping"  BY <1>4, <1>7, Zenon DEF KnowsFile
  <1>9. Runs(p) /\ ctl' = Recorded(proc[p].snap)
    BY <1>0, <1>1, Zenon DEF IInv, RunInv, applied
  <1>10. /\ IsCtl(ctl') /\ ctl'.current = proc[p].snap
         /\ ~ctl'.restart => proc[p].snap.admin = startup.admin
    BY <1>9, CtlKept, Zenon DEF IInv, Shape
  <1>11. TokenDomains'  BY <1>1, <1>9, <1>10, Zenon DEF TokenDomains, Runs
  <1> QED  BY <1>0, <1>4, <1>6, <1>8, <1>10, <1>11, ActorStep, Zenon

LEMMA TimesOutStep ==
  ASSUME IInv, NEW p \in Admins, applyTimesOut(p)
  PROVE  IInv'
  <1>1. /\ UNCHANGED <<file, disk, author, flock, hub, startup, running>>
        /\ proc[p].pc = "stopping" /\ ctl' = Rejected /\ ReloadFails(p)
    BY Zenon DEF applyTimesOut, filevars
  <1> QED  BY <1>1, FailsQuiet, Zenon
-----------------------------------------------------------------------------
(* Admin requests and imports, up to the write. *)
LEMMA AnswerQuiet ==
  ASSUME IInv, NEW p \in Writers, NEW a, Answer(p, a),
         UNCHANGED <<file, disk, author, hub, startup, running, ctl, txMu, flock>>
  PROVE  IInv'
  <1>0. p \in Procs /\ p # "poll"  BY Names, Zenon
  <1>1. PICK y : Moves(p, y) /\ y.pc = "done" /\ Carries(p, y)  BY AnswerMoves, Zenon
  <1>2. Quiet(p, y)  BY <1>0, <1>1, Zenon DEF Quiet, IInv, Shape
  <1> QED  BY <1>0, <1>1, <1>2, QuietStep, Zenon

LEMMA GetStep ==
  ASSUME IInv, NEW a \in Admins, getConfig(a)
  PROVE  IInv'
  <1>0. a \in Procs /\ a # "poll" /\ a \notin Importers  BY Names, Zenon
  <1>1. UNCHANGED <<file, disk, author, flock, hub, startup, running, ctl, txMu>>
    BY Zenon DEF getConfig, filevars
  <1>2. IsProc(proc[a])  BY <1>0, Zenon DEF IInv, Shape
  <1> DEFINE y == [proc[a] EXCEPT !.pc = "seen", !.seen = file]
  <1>3. IsProc(y) /\ y.pc = "seen" /\ y.seen = file  BY <1>2, Zenon DEF IsProc, ProcFields
  <1>4. proc' = [proc EXCEPT ![a] = y]  BY <1>0, Zenon DEF getConfig, IInv, Shape
  <1> HIDE DEF y
  <1>5. Moves(a, y)  BY <1>3, <1>4, Zenon DEF Moves
  <1>6. file # NoConfig  BY DecodedIsSome, Zenon DEF getConfig
  <1>7. Carries(a, y)  BY <1>0, <1>3, <1>6, Zenon DEF Carries, Compares, TxLabels
  <1>8. Quiet(a, y)  BY <1>0, <1>1, <1>3, <1>7, Zenon DEF Quiet, IInv, Shape
  <1> QED  BY <1>0, <1>5, <1>8, QuietStep, Zenon

(* A request is answered at once, or takes txMu with the configuration to be
   written. *)
LEMMA HandleCases ==
  ASSUME NEW a, NEW op, handle(a, op)
  PROVE  \/ \E z \in {"unavailable", "conflict", "refused"} : Answer(a, z) /\ UNCHANGED txMu
         \/ /\ txMu' = a /\ Valid(Changed(op, file))
            /\ proc' = [proc EXCEPT ![a] =
                          [@ EXCEPT !.pc = "checked", !.new = Changed(op, file)]]
  <1>1. CASE ~DecodeStrict(file)  BY <1>1, Zenon DEF handle
  <1>2. CASE DecodeStrict(file) /\ file # proc[a].seen  BY <1>2, Zenon DEF handle
  <1>3. CASE DecodeStrict(file) /\ file = proc[a].seen  BY <1>3, Zenon DEF handle
  <1> QED  BY <1>1, <1>2, <1>3, Zenon

LEMMA HandleStep ==
  ASSUME IInv, NEW a \in Admins, NEW op, handle(a, op)
  PROVE  IInv'
  <1>0. a \in Procs /\ a # "poll" /\ a \notin Importers /\ a \in Writers  BY Names, Zenon
  <1>1. /\ UNCHANGED <<file, disk, author, flock, hub, startup, running, ctl>>
        /\ hub = "up" /\ txMu = "none"
    BY Zenon DEF handle, filevars
  <1>2. CASE \E z \in {"unavailable", "conflict", "refused"} : Answer(a, z) /\ UNCHANGED txMu
    BY <1>0, <1>1, <1>2, AnswerQuiet, Zenon
  <1>3. CASE /\ txMu' = a /\ Valid(Changed(op, file))
             /\ proc' = [proc EXCEPT ![a] =
                           [@ EXCEPT !.pc = "checked", !.new = Changed(op, file)]]
    <2>1. IsProc(proc[a])  BY <1>0, Zenon DEF IInv, Shape
    <2> DEFINE c == Changed(op, file)
               y == [proc[a] EXCEPT !.pc = "checked", !.new = c]
    <2>2. proc' = [proc EXCEPT ![a] = y]  BY <1>0, <1>3, Zenon DEF IInv, Shape
    <2>6. c # NoConfig  BY <1>3, DecodedIsSome, Zenon
    <2> HIDE DEF c
    <2>3. IsProc(y) /\ y.pc = "checked" /\ y.seen = proc[a].seen /\ y.new = c
      BY <2>1, Zenon DEF IsProc, ProcFields
    <2> HIDE DEF y
    <2>4. Moves(a, y)  BY <2>2, <2>3, Zenon DEF Moves
    <2>7. Carries(a, proc[a]) /\ proc[a].pc = "seen"
      BY <1>0, Zenon DEF IInv, DigestInv, handle
    <2>8. Carries(a, y)  BY <1>0, <2>3, <2>6, <2>7, Zenon DEF Carries, Compares
    <2>5. Quiet(a, y)  BY <1>0, <1>1, <1>3, <2>3, <2>8, Zenon DEF Quiet, IInv, Shape
    <2> QED  BY <1>0, <2>4, <2>5, QuietStep, Zenon
  <1> QED  BY <1>2, <1>3, HandleCases, Zenon

LEMMA PreflightStep ==
  ASSUME IInv, NEW a \in Admins, preflight(a)
  PROVE  IInv'
  <1>0. a \in Procs /\ a # "poll" /\ a \notin Importers  BY Names, Zenon
  <1>1. UNCHANGED <<file, disk, author, flock, hub, startup, running, ctl>>
    BY Zenon DEF preflight, filevars
  <1>2. Shape /\ IsCtl(ctl) /\ txMu = a /\ hub = "up"
    BY Zenon DEF IInv, Shape, TxInv, TxLabels, preflight
  <1>3. CASE To(a, "write") /\ UNCHANGED txMu
    <2>1. PICK y : /\ Moves(a, y) /\ y.pc = "write" /\ y.phase = proc[a].phase
                   /\ y.seen = proc[a].seen /\ y.new = proc[a].new
      BY <1>0, <1>2, <1>3, ToMoves
    <2>3. Carries(a, y)  BY <1>0, <2>1, GoesOn, Zenon DEF preflight, TxLabels
    <2>2. Quiet(a, y)  BY <1>0, <1>1, <1>2, <1>3, <2>1, <2>3, Zenon DEF Quiet
    <2> QED  BY <1>0, <2>1, <2>2, QuietStep, Zenon
  <1>4. ASSUME NEW z, Finish(a, z) PROVE IInv'
    BY <1>0, <1>1, <1>2, <1>4, FinishQuiet, Zenon
  <1> QED  BY <1>3, <1>4, Zenon DEF preflight

LEMMA ImportStep ==
  ASSUME IInv, NEW i \in Importers, NEW e, ImportServers(i, e)
  PROVE  IInv'
  <1>0. i \in Procs /\ i # "poll" /\ i \notin Admins /\ i \in Writers  BY Names, Zenon
  <1>1. UNCHANGED <<file, disk, author, flock, hub, startup, running, ctl, txMu>>
    BY Zenon DEF ImportServers, filevars
  <1>2. CASE Answer(i, "refused")  BY <1>0, <1>1, <1>2, AnswerQuiet, Zenon
  <1>3. CASE ~Answer(i, "refused")
    <2>1. IsProc(proc[i]) /\ Carries(i, proc[i])  BY <1>0, Zenon DEF IInv, Shape, DigestInv
    <2> DEFINE c == [Target EXCEPT !.servers = With(@, e.id, e.env)]
               y == [proc[i] EXCEPT !.pc = "write", !.seen = file, !.new = c]
    <2>2. proc' = [proc EXCEPT ![i] = y]  BY <1>0, <1>3, Zenon DEF ImportServers, IInv, Shape
    <2> HIDE DEF c
    <2>3. IsProc(y) /\ y.pc = "write" /\ y.phase = proc[i].phase
      BY <2>1, Zenon DEF IsProc, ProcFields
    <2> HIDE DEF y
    <2>4. Moves(i, y)  BY <2>2, <2>3, Zenon DEF Moves
    <2>5. Carries(i, y)  BY <1>0, <2>1, <2>3, Zenon DEF Carries
    <2>6. Quiet(i, y)  BY <1>0, <1>1, <2>3, <2>5, Zenon DEF Quiet, IInv, Shape
    <2> QED  BY <1>0, <2>4, <2>6, QuietStep, Zenon
  <1> QED  BY <1>2, <1>3, Zenon
-----------------------------------------------------------------------------
(* The write itself. *)
LEMMA FailedWriteStep ==
  ASSUME IInv, NEW p \in Writers, NEW a, WriteFails(p, a),
         UNCHANGED <<file, disk, author, hub, startup, running, ctl>>,
         flock' = flock \/ flock = p
  PROVE  IInv'
  <1>1. PICK z : Finish(p, z)  BY Zenon DEF WriteFails
  <1>2. IsCtl(ctl)  BY Zenon DEF IInv, Shape
  <1> QED  BY <1>1, <1>2, Names, FinishQuiet, Zenon

LEMMA AcquireStep ==
  ASSUME IInv, NEW p \in Writers, AcquireLock(p)
  PROVE  IInv'
  <1>0. p \in Procs /\ p # "poll"  BY Names, Zenon
  <1>1. UNCHANGED <<file, disk, author, hub, startup, running, ctl>> /\ proc[p].pc = "write"
    BY Zenon DEF AcquireLock
  <1>2. CASE tryLock /\ Unchanged(p)
    <2>1. flock = "none" /\ flock' = p /\ To(p, "locked") /\ UNCHANGED txMu
      BY <1>2, Zenon DEF AcquireLock, tryLock
    <2>2. Shape  BY Zenon DEF IInv
    <2>3. PICK y : /\ Moves(p, y) /\ y.pc = "locked" /\ y.phase = proc[p].phase
                   /\ y.seen = proc[p].seen /\ y.new = proc[p].new
      BY <1>0, <2>1, <2>2, ToMoves
    <2>4. proc'[p] = y  BY <1>0, <2>2, <2>3, OneMoves, Zenon
    <2>5. Respects(p)  BY <1>1, <2>1, Zenon DEF Respects
    <2>6. Reaches(p, y.pc)
      BY <1>0, <1>1, <2>1, <2>3, Zenon DEF Reaches, IInv, TxInv, TxLabels
    <2>7. KnowsFile(p)'
      <3>1. Carries(p, proc[p])  BY <1>0, Zenon DEF IInv, DigestInv
      <3>2. file = Expected(p) \/ FoundNone(p)
        BY <1>1, <1>2, <3>1, Zenon DEF Unchanged, Expected, FoundNone, Writers, Carries,
               Compares, TxLabels
      <3>3. Expected(p)' = Expected(p) /\ (FoundNone(p) => FoundNone(p)')
        BY <2>3, <2>4, Zenon DEF Expected, FoundNone
      <3> QED  BY <1>1, <2>3, <2>4, <3>2, <3>3, Zenon DEF KnowsFile
    <2>8. IsCtl(ctl') /\ TokenDomains' /\ y.pc # "stopping"
      BY <1>1, <2>2, <2>3, CtlStays, Zenon DEF Shape
    <2>9. Carries(p, y)  BY <1>0, <1>1, <2>3, GoesOn, Zenon DEF TxLabels
    <2> QED  BY <1>0, <2>3, <2>5, <2>6, <2>7, <2>8, <2>9, ActorStep, Zenon
  <1>3. CASE ~(tryLock /\ Unchanged(p))
    <2>1. WriteFails(p, IF tryLock THEN "conflict" ELSE "writeFailed") /\ UNCHANGED flock
      BY <1>3, Zenon DEF AcquireLock
    <2> QED  BY <1>1, <2>1, FailedWriteStep, Zenon
  <1> QED  BY <1>2, <1>3, Zenon

LEMMA ReplaceStep ==
  ASSUME IInv, NEW p \in Writers, replaceFile(p)
  PROVE  IInv'
  <1>0. p \in Procs /\ p # "poll"  BY Names, Zenon
  <1>1. /\ UNCHANGED <<flock, txMu, hub, startup, running, ctl>> /\ proc[p].pc = "locked"
        /\ file' = Data(p) /\ author' = p /\ To(p, "replaced")
    BY Zenon DEF replaceFile
  <1>2. Shape /\ flock = p  BY <1>1, Zenon DEF IInv, LockInv
  <1>3. PICK y : /\ Moves(p, y) /\ y.pc = "replaced" /\ y.phase = proc[p].phase
                 /\ y.seen = proc[p].seen /\ y.new = proc[p].new
    BY <1>0, <1>1, <1>2, ToMoves
  <1>4. proc'[p] = y  BY <1>0, <1>2, <1>3, OneMoves, Zenon
  <1>5. Respects(p)  BY <1>1, <1>2, Zenon DEF Respects
  <1>6. Reaches(p, y.pc)
    BY <1>0, <1>1, <1>2, <1>3, Zenon DEF Reaches, IInv, TxInv, TxLabels
  <1>7. KnowsFile(p)'  BY <1>1, <1>3, <1>4, Zenon DEF KnowsFile, Data
  <1>8. IsCtl(ctl') /\ TokenDomains' /\ y.pc # "stopping"
    BY <1>1, <1>2, <1>3, CtlStays, Zenon DEF Shape
  <1>9. Carries(p, y)  BY <1>0, <1>1, <1>3, GoesOn, Zenon DEF TxLabels
  <1> QED  BY <1>0, <1>3, <1>5, <1>6, <1>7, <1>8, <1>9, ActorStep, Zenon

LEMMA SyncStep ==
  ASSUME IInv, NEW p \in Writers, syncParentDir(p)
  PROVE  IInv'
  <1>0. p \in Procs /\ p # "poll"  BY Names, Zenon
  <1>1. /\ UNCHANGED <<file, author, txMu, hub, startup, running, ctl>>
        /\ proc[p].pc = "replaced" /\ flock' = "none" /\ disk' = Synced(p)
    BY Zenon DEF syncParentDir
  <1>2. Shape /\ flock = p /\ KnowsFile(p)  BY <1>1, Zenon DEF IInv, LockInv, FileInv
  <1>3. Respects(p)  BY <1>1, <1>2, Zenon DEF Respects, Synced
  <1>4. IsCtl(ctl') /\ TokenDomains'  BY <1>1, <1>2, CtlStays, Zenon DEF Shape
  <1>5. CASE p \in Admins
    <2>1. To(p, "reload")  BY <1>5, Zenon DEF syncParentDir
    <2>2. PICK y : /\ Moves(p, y) /\ y.pc = "reload" /\ y.phase = proc[p].phase
                   /\ y.seen = proc[p].seen /\ y.new = proc[p].new
      BY <1>0, <1>2, <2>1, ToMoves
    <2>3. proc'[p] = y  BY <1>0, <1>2, <2>2, OneMoves, Zenon
    <2>4. Reaches(p, y.pc)
      BY <1>0, <1>1, <1>5, <2>2, Names, Zenon DEF Reaches, IInv, TxInv, TxLabels
    <2>5. KnowsFile(p)'
      BY <1>1, <1>2, <2>2, <2>3, Zenon DEF KnowsFile, Data, Synced
    <2>6. y.pc # "stopping" /\ Carries(p, y)
      BY <1>0, <1>1, <2>2, GoesOn, Zenon DEF TxLabels
    <2> QED  BY <1>0, <1>3, <1>4, <2>2, <2>4, <2>5, <2>6, ActorStep, Zenon
  <1>6. CASE p \notin Admins
    <2>1. Answer(p, "ok")  BY <1>6, Zenon DEF syncParentDir
    <2>2. PICK y : Moves(p, y) /\ y.pc = "done" /\ Carries(p, y)
      BY <2>1, AnswerMoves, Zenon
    <2>3. proc'[p] = y  BY <1>0, <1>2, <2>2, OneMoves, Zenon
    <2>4. Reaches(p, y.pc)  BY <1>0, <1>6, <2>2, Zenon DEF Reaches
    <2>5. KnowsFile(p)' /\ y.pc # "stopping"  BY <2>2, <2>3, Zenon DEF KnowsFile
    <2> QED  BY <1>0, <1>3, <1>4, <2>2, <2>4, <2>5, ActorStep, Zenon
  <1> QED  BY <1>5, <1>6, Zenon

LEMMA WriteStep ==
  ASSUME IInv, NEW p \in Writers, Write(p)
  PROVE  IInv'
  <1>1. CASE replaceFails(p) \/ syncFails(p)
    <2>1. /\ UNCHANGED <<file, disk, author, hub, startup, running, ctl>>
          /\ WriteFails(p, "writeFailed") /\ proc[p].pc \in {"locked", "replaced"}
      BY <1>1, Zenon DEF replaceFails, syncFails
    <2>2. flock = p  BY <2>1, Zenon DEF IInv, LockInv
    <2> QED  BY <2>1, <2>2, FailedWriteStep, Zenon
  <1> QED  BY <1>1, AcquireStep, ReplaceStep, SyncStep, Zenon DEF Write
-----------------------------------------------------------------------------
LEMMA StutterIInv ==
  ASSUME IInv, UNCHANGED vars
  PROVE  IInv'
  <1>1. UNCHANGED <<file, disk, author, flock, txMu, hub, startup, running, ctl, proc>>
    BY Zenon DEF vars, filevars
  <1>2. Shape' /\ TxInv' /\ LockInv' /\ TokenDomains'
    BY <1>1, Zenon DEF IInv, Shape, TxInv, LockInv, TokenDomains
  <1>3. \A p : KnowsFile(p) => KnowsFile(p)'
    BY <1>1, Zenon DEF KnowsFile, FoundNone, Expected, Data
  <1>4. \A p : Carries(p, proc[p]) => Carries(p, proc'[p])
    BY <1>1, Zenon
  <1>5. FileInv' /\ DigestInv'
    BY <1>1, <1>3, <1>4, Zenon DEF IInv, FileInv, DigestInv
  <1>6. RunInv'
    BY <1>1, Zenon DEF IInv, RunInv, Runs, stripStartupSecrets
  <1> QED  BY <1>2, <1>5, <1>6, Zenon DEF IInv

LEMMA NextIInv == IInv /\ [Next]_vars => IInv'
  <1> SUFFICES ASSUME IInv, [Next]_vars PROVE IInv'  BY Zenon
  <1>1. ASSUME NEW a \in Admins, Reload(a) PROVE IInv'
    BY <1>1, ReloadNowStep, ApplyStep, AppliedStep, TimesOutStep, Zenon DEF Reload
  <1>2. CASE apply("poll") \/ applied("poll")  BY <1>2, ApplyStep, AppliedStep, Zenon
  <1>3. ASSUME NEW a \in Admins,
               getConfig(a) \/ preflight(a) \/ Write(a) \/ Reload(a)
                 \/ \E op \in Ops : handle(a, op)
        PROVE  IInv'
    BY <1>1, <1>3, Names, GetStep, PreflightStep, WriteStep, HandleStep, Zenon
  <1>4. ASSUME NEW i \in Importers, Write(i) \/ \E e \in Imports : ImportServers(i, e)
        PROVE  IInv'
    BY <1>4, Names, WriteStep, ImportStep, Zenon
  <1> QED  BY <1>2, <1>3, <1>4, EnvStep, CrashStep, PollStep, StutterIInv, Zenon DEF Next

(* The inductive invariant holds in every reachable state. *)
THEOREM Inductive == Spec => []IInv
  BY InitIInv, NextIInv, PTL DEF Spec

(* The Admin token of the start is never an MCP token of the configuration in
   force, and no restart is asked for only while the two Admin tokens agree,
   whatever is written to the file and whenever (controller.go: apply). *)
THEOREM AdminTokenStaysApart == Spec => []TokenDomains
  <1>1. IInv => TokenDomains  BY Zenon DEF IInv
  <1> QED  BY <1>1, Inductive, PTL

(* No writer that takes the lock replaces contents it has not seen, for any
   number of writers; an import that found no file is the one exception, and
   every Admin write and rollback compares (atomic.go: WriteConfigFileAtomic). *)
THEOREM WritesCompareFirst == Spec => NoLostEdit
  <1>1. IInv /\ [Next]_vars =>
          [\A p \in Writers : author' = p /\ proc[p].pc = "locked" /\ proc'[p].pc = "replaced"
             => \/ file = Expected(p) \/ author = "editor"
                \/ p \in Importers /\ proc[p].seen = NoConfig]_vars
    BY Zenon DEF IInv, FileInv, KnowsFile, FoundNone
  <1> QED  BY <1>1, Inductive, PTL DEF Spec, NoLostEdit
-----------------------------------------------------------------------------
(* Nobody but the end of a reload gives one of the two answers. *)
Silent == \A a \in Admins :
            proc[a].answer = "none" => proc'[a].answer \notin {"ok", "rolledBack"}

LEMMA SilentMove ==
  ASSUME Shape, NEW p \in Procs, NEW y, Moves(p, y),
         p \in Admins => y.answer = proc[p].answer \/ y.answer \notin {"ok", "rolledBack"}
  PROVE  Silent
  BY OneMoves, Names, Zenon DEF Silent

LEMMA SilentAnswer ==
  ASSUME Shape, NEW p \in Procs, NEW z, z \notin {"ok", "rolledBack"},
         Answer(p, z) \/ Finish(p, z)
  PROVE  Silent
  <1>1. CASE Answer(p, z)
    <2>1. PICK y : /\ Moves(p, y) /\ y.pc = "done" /\ Carries(p, y)
                   /\ p \in Admins => y.answer = z
      BY <1>1, AnswerMoves, Zenon
    <2> QED  BY <2>1, SilentMove, Zenon
  <1>2. CASE Finish(p, z)
    <2>1. PICK y : Ended(p, z, y)  BY <1>2, FinishMoves, Zenon
    <2>2. Moves(p, y) /\ (p \in Admins => y.answer = z)  BY <2>1, Names, Zenon DEF Ended
    <2> QED  BY <2>2, SilentMove, Zenon
  <1> QED  BY <1>1, <1>2, Zenon

LEMMA SilentTo ==
  ASSUME Shape, NEW p \in Procs, NEW l, To(p, l)
  PROVE  Silent
  <1>1. PICK y : Moves(p, y) /\ y.answer = proc[p].answer  BY ToMoves, Zenon
  <1> QED  BY <1>1, SilentMove, Zenon

LEMMA SilentFails ==
  ASSUME Shape, NEW p \in Procs, ReloadFails(p)
  PROVE  Silent
  <1>1. CASE p # "poll" /\ proc[p].phase = "commit"
    <2>1. IsProc(proc[p])  BY Zenon DEF Shape
    <2> DEFINE y == [proc[p] EXCEPT !.pc = "write", !.phase = "rollback"]
    <2>2. IsProc(y) /\ y.answer = proc[p].answer  BY <2>1, Zenon DEF IsProc, ProcFields
    <2>3. proc' = [proc EXCEPT ![p] = y]  BY <1>1, Zenon DEF ReloadFails, Shape
    <2> HIDE DEF y
    <2>4. Moves(p, y)  BY <2>2, <2>3, Zenon DEF Moves
    <2> QED  BY <2>2, <2>4, SilentMove, Zenon
  <1>2. CASE ~(p # "poll" /\ proc[p].phase = "commit")
    BY <1>2, SilentAnswer DEF ReloadFails
  <1> QED  BY <1>1, <1>2, Zenon

LEMMA SilentWriteFails ==
  ASSUME Shape, NEW p \in Procs, NEW z \in {"conflict", "writeFailed"}, WriteFails(p, z)
  PROVE  Silent
  <1>1. CASE proc[p].phase = "commit"
    <2>1. Finish(p, z)  BY <1>1, Zenon DEF WriteFails
    <2> QED  BY <2>1, SilentAnswer, Zenon
  <1>2. CASE proc[p].phase # "commit"
    <2>1. Finish(p, "rollbackFailed")  BY <1>2, Zenon DEF WriteFails
    <2> QED  BY <2>1, SilentAnswer
  <1> QED  BY <1>1, <1>2, Zenon

LEMMA SilentEnv ==
  ASSUME Shape, \/ Load \/ NewController \/ UNCHANGED vars
                \/ \E c \in Edits : Edit(c)
                \/ \E f \in disk : Crash(f)
  PROVE  Silent
  <1>1. CASE UNCHANGED proc  BY <1>1, Zenon DEF Silent
  <1>2. ASSUME NEW f \in disk, Crash(f) PROVE Silent
    <2> SUFFICES ASSUME NEW a \in Admins, proc[a].answer = "none"
                 PROVE  proc'[a].answer = "none"
      BY Zenon DEF Silent
    <2>0. a \in Procs /\ a # "poll"  BY Names, Zenon
    <2> DEFINE y == [Idle EXCEPT !.pc = "done"]
    <2>1. y.answer = "none"  BY Zenon DEF Idle
    <2>2. proc'[a] = proc[a] \/ proc'[a] = y
      BY <1>2, <2>0, Zenon DEF Crash
    <2> HIDE DEF y
    <2> QED  BY <2>1, <2>2, Zenon
  <1> QED  BY <1>1, <1>2, Zenon DEF Load, NewController, Edit, vars

LEMMA SilentPoll ==
  ASSUME Shape, Poll
  PROVE  Silent
  <1>1. CASE UNCHANGED proc  BY <1>1, Zenon DEF Silent
  <1>2. CASE proc' = [proc EXCEPT !["poll"] = [@ EXCEPT !.pc = "apply", !.snap = file]]
    BY <1>2, Names, Zenon DEF Silent, Shape
  <1> QED  BY <1>1, <1>2, Zenon DEF Poll

LEMMA SilentReload ==
  ASSUME Shape, NEW p \in Procs, reloadNow(p) \/ apply(p) \/ applyTimesOut(p)
  PROVE  Silent
  <1>0. IsProc(proc[p])  BY Zenon DEF Shape
  <1>1. CASE ReloadFails(p)  BY <1>1, SilentFails, Zenon
  <1>2. CASE reloadNow(p) /\ Valid(file)
    <2> DEFINE y == [proc[p] EXCEPT !.pc = "apply", !.snap = file]
    <2>1. IsProc(y) /\ y.answer = proc[p].answer  BY <1>0, Zenon DEF IsProc, ProcFields
    <2>2. proc' = [proc EXCEPT ![p] = y]  BY <1>2, Zenon DEF reloadNow, Shape
    <2> HIDE DEF y
    <2>3. Moves(p, y)  BY <2>1, <2>2, Zenon DEF Moves
    <2> QED  BY <2>1, <2>3, SilentMove, Zenon
  <1>3. CASE apply(p) /\ ~Refuses(proc[p].snap)
    <2> DEFINE b == DOMAIN running \ DOMAIN proc[p].snap.servers # {}
               y == [proc[p] EXCEPT !.pc = "stopping", !.removed = b]
    <2>1. proc' = [proc EXCEPT ![p] = y]  BY <1>3, Zenon DEF apply, Shape
    <2> HIDE DEF b
    <2>2. IsProc(y) /\ y.answer = proc[p].answer  BY <1>0, Zenon DEF IsProc, ProcFields
    <2> HIDE DEF y
    <2>3. Moves(p, y)  BY <2>1, <2>2, Zenon DEF Moves
    <2> QED  BY <2>2, <2>3, SilentMove, Zenon
  <1> QED  BY <1>1, <1>2, <1>3, Zenon DEF reloadNow, apply, applyTimesOut

LEMMA SilentAdmin ==
  ASSUME Shape, NEW a \in Admins, NEW op, getConfig(a) \/ preflight(a) \/ handle(a, op)
  PROVE  Silent
  <1>0. a \in Procs /\ IsProc(proc[a])  BY Names, Zenon DEF Shape
  <1>1. CASE getConfig(a)
    <2> DEFINE y == [proc[a] EXCEPT !.pc = "seen", !.seen = file]
    <2>1. IsProc(y) /\ y.answer = proc[a].answer  BY <1>0, Zenon DEF IsProc, ProcFields
    <2>2. proc' = [proc EXCEPT ![a] = y]  BY <1>0, <1>1, Zenon DEF getConfig, Shape
    <2> HIDE DEF y
    <2>3. Moves(a, y)  BY <2>1, <2>2, Zenon DEF Moves
    <2> QED  BY <1>0, <2>1, <2>3, SilentMove, Zenon
  <1>2. CASE preflight(a)
    <2>1. \/ To(a, "write") \/ Finish(a, "refused") \/ Finish(a, "conflict")
          \/ Finish(a, "unavailable")
      BY <1>2, Zenon DEF preflight
    <2> QED  BY <1>0, <2>1, SilentTo, SilentAnswer
  <1>3. CASE handle(a, op)
    <2>1. CASE \E z \in {"unavailable", "conflict", "refused"} : Answer(a, z) /\ UNCHANGED txMu
      BY <1>0, <2>1, SilentAnswer, Zenon
    <2>2. CASE proc' = [proc EXCEPT ![a] =
                         [@ EXCEPT !.pc = "checked", !.new = Changed(op, file)]]
      <3> DEFINE c == Changed(op, file)
                 y == [proc[a] EXCEPT !.pc = "checked", !.new = c]
      <3>1. proc' = [proc EXCEPT ![a] = y]  BY <1>0, <2>2, Zenon DEF Shape
      <3> HIDE DEF c
      <3>2. IsProc(y) /\ y.answer = proc[a].answer  BY <1>0, Zenon DEF IsProc, ProcFields
      <3> HIDE DEF y
      <3>3. Moves(a, y)  BY <3>1, <3>2, Zenon DEF Moves
      <3> QED  BY <1>0, <3>2, <3>3, SilentMove, Zenon
    <2> QED  BY <1>3, <2>1, <2>2, HandleCases, Zenon
  <1> QED  BY <1>1, <1>2, <1>3, Zenon

LEMMA SilentWrite ==
  ASSUME Shape, NEW p \in Writers, Write(p)
  PROVE  Silent
  <1>0. p \in Procs  BY Names, Zenon
  <1>1. CASE AcquireLock(p)
    <2>1. PICK z \in {"conflict", "writeFailed"} : To(p, "locked") \/ WriteFails(p, z)
      BY <1>1, Zenon DEF AcquireLock
    <2> QED  BY <1>0, <2>1, SilentTo, SilentWriteFails, Zenon
  <1>2. CASE replaceFile(p)  BY <1>0, <1>2, SilentTo, Zenon DEF replaceFile
  <1>3. CASE replaceFails(p) \/ syncFails(p)
    <2>1. WriteFails(p, "writeFailed")  BY <1>3, Zenon DEF replaceFails, syncFails
    <2> QED  BY <1>0, <2>1, SilentWriteFails, Zenon
  <1>4. CASE syncParentDir(p)
    <2>1. CASE p \in Admins  BY <1>0, <1>4, <2>1, SilentTo, Zenon DEF syncParentDir
    <2>2. CASE p \notin Admins
      <3>1. Answer(p, "ok")  BY <1>4, <2>2, Zenon DEF syncParentDir
      <3>2. PICK y : Moves(p, y) /\ y.pc = "done"  BY <3>1, AnswerMoves, Zenon
      <3> QED  BY <1>0, <2>2, <3>2, SilentMove, Zenon
    <2> QED  BY <2>1, <2>2, Zenon
  <1> QED  BY <1>1, <1>2, <1>3, <1>4, Zenon DEF Write

LEMMA SilentImport ==
  ASSUME Shape, NEW i \in Importers, NEW e, ImportServers(i, e)
  PROVE  Silent
  <1>0. i \in Procs /\ i \notin Admins /\ IsProc(proc[i])  BY Names, Zenon DEF Shape
  <1>1. PICK y : proc' = [proc EXCEPT ![i] = y]
    BY Zenon DEF ImportServers, Answer
  <1>2. \A a \in Admins : proc'[a] = proc[a]  BY <1>0, <1>1, Names, Zenon DEF Shape
  <1> QED  BY <1>2, Zenon DEF Silent

(* What AnswerIsTrue says of one step. *)
Honest ==
  \A a \in Admins :
    LET c == IF proc'[a].answer = "ok" THEN proc[a].new ELSE proc[a].seen IN
    proc[a].answer = "none" /\ proc'[a].answer \in {"ok", "rolledBack"}
      => /\ running' = stripStartupSecrets(ctl'.applied)
         /\ author = a => ctl'.applied = c /\ disk = {c}

LEMMA AppliedHonest ==
  ASSUME IInv, NEW p \in Admins \cup {"poll"}, applied(p)
  PROVE  Honest
  <1>0. p \in Procs /\ Shape  BY Names, Zenon DEF IInv
  <1> DEFINE z == IF proc[p].phase = "commit" THEN "ok" ELSE "rolledBack"
  <1>1. Finish(p, z)  BY Zenon DEF applied
  <1>2. PICK y : Ended(p, z, y)  BY <1>1, FinishMoves, Zenon
  <1>3. Moves(p, y) /\ (p \in Admins => y.answer = z)  BY <1>2, Names, Zenon DEF Ended
  <1>4. proc'[p] = y /\ \A q \in Procs \ {p} : proc'[q] = proc[q]
    BY <1>0, <1>3, OneMoves, Zenon
  <1> SUFFICES ASSUME NEW a \in Admins, a = p,
                      proc'[a].answer \in {"ok", "rolledBack"}
               PROVE  LET c == IF proc'[a].answer = "ok" THEN proc[a].new ELSE proc[a].seen IN
                      /\ running' = stripStartupSecrets(ctl'.applied)
                      /\ author = a => ctl'.applied = c /\ disk = {c}
    BY <1>4, Names, Zenon DEF Honest
  <1>5. proc[a].pc = "stopping" /\ UNCHANGED running /\ ctl' = Recorded(proc[a].snap)
    BY Zenon DEF applied
  <1>6. ctl'.applied = proc[a].snap  BY <1>0, <1>5, CtlKept, Zenon DEF Shape
  <1>7. running' = stripStartupSecrets(ctl'.applied)
    BY <1>0, <1>5, <1>6, Zenon DEF IInv, RunInv, Runs
  <1>8. (IF proc'[a].answer = "ok" THEN proc[a].new ELSE proc[a].seen) = Data(a)
    BY <1>3, <1>4, Names, Zenon DEF Data
  <1>9. KnowsFile(a)  BY Names, Zenon DEF IInv, FileInv
  <1>10. author = a => ctl'.applied = Data(a) /\ disk = {Data(a)}
    BY <1>5, <1>6, <1>9, Zenon DEF KnowsFile
  <1> QED  BY <1>7, <1>8, <1>10, Zenon

(* The answers of writeConfigLocked are true when they are given, for any
   number of requests, imports, edits, failures and power failures: what runs
   is what was recorded, and unless somebody wrote the file meanwhile it is
   what was asked for, or what was there before, and it is on disk. *)
THEOREM AnswersAreTrue == Spec => AnswerIsTrue
  <1>1. ASSUME Silent PROVE Honest  BY <1>1, Zenon DEF Silent, Honest
  <1>2. IInv /\ [Next]_vars => Honest
    <2> SUFFICES ASSUME IInv, [Next]_vars PROVE Honest  BY Zenon
    <2>0. Shape  BY Zenon DEF IInv
    <2>1. ASSUME NEW p \in Admins \cup {"poll"}, Reload(p) PROVE Honest
      BY <1>1, <2>0, <2>1, Names, SilentReload, AppliedHonest, Zenon DEF Reload
    <2>2. CASE apply("poll") \/ applied("poll")  BY <2>1, <2>2, Zenon DEF Reload
    <2>3. ASSUME NEW a \in Admins,
                 getConfig(a) \/ preflight(a) \/ Write(a) \/ Reload(a)
                   \/ \E op \in Ops : handle(a, op)
          PROVE  Honest
      BY <1>1, <2>0, <2>1, <2>3, Names, SilentAdmin, SilentWrite, Zenon
    <2>4. ASSUME NEW i \in Importers, Write(i) \/ \E e \in Imports : ImportServers(i, e)
          PROVE  Honest
      BY <1>1, <2>0, <2>4, Names, SilentWrite, SilentImport, Zenon
    <2> QED  BY <1>1, <2>0, <2>2, <2>3, <2>4, SilentEnv, SilentPoll, Zenon DEF Next
  <1>3. IInv /\ [Next]_vars => [Honest]_vars  BY <1>2, Zenon
  <1> QED  BY <1>3, Inductive, PTL DEF Spec, AnswerIsTrue, Honest
-----------------------------------------------------------------------------
(* What the controller has recorded and what the manager runs. *)
Applying == \E p \in Procs : proc[p].pc = "stopping"

StatusInv ==
  /\ hub = "loaded" => running = startup.servers
  /\ hub = "up" /\ ~diverged /\ ~Applying => Serves(ctl.current)

(* What the poll compares the file with. *)
TrackInv ==
  /\ hub = "loaded" => file = startup
  /\ hub = "up" => ctl.applied = ctl.current

(* Neither the record nor what runs changes, nobody leaves Manager.Apply, and
   the file is left alone while the Hub starts, if it may not change then. *)
Keeps ==
  /\ UNCHANGED hub /\ UNCHANGED startup /\ UNCHANGED running /\ UNCHANGED diverged
  /\ ctl'.current = ctl.current /\ ctl'.applied = ctl.applied
  /\ \A q \in Procs : proc[q].pc = "stopping" => proc'[q].pc = "stopping"
  /\ hub = "loaded" /\ ~ChangeWhileStarting => UNCHANGED file

LEMMA StatusFrame ==
  ASSUME StatusInv, Keeps
  PROVE  StatusInv'
  <1>1. Applying => Applying'
    BY Zenon DEF Keeps, Applying
  <1>2. Serves(ctl.current) => Serves(ctl.current)'
    BY Zenon DEF Keeps, Serves, stripStartupSecrets
  <1> QED  BY <1>1, <1>2, Zenon DEF Keeps, StatusInv

LEMMA TrackFrame ==
  ASSUME ~ChangeWhileStarting, TrackInv, Keeps
  PROVE  TrackInv'
  BY Zenon DEF Keeps, TrackInv

LEMMA CtlKeeps ==
  ASSUME IsCtl(ctl)
  PROVE  /\ Rejected.current = ctl.current /\ Rejected.applied = ctl.applied
         /\ \A d : LET k == observeCandidate(d) IN
               k.current = ctl.current /\ k.applied = ctl.applied
  <1>1. Rejected.current = ctl.current /\ Rejected.applied = ctl.applied
    BY Zenon DEF Rejected, IsCtl, CtlFields
  <1>2. ASSUME NEW d
        PROVE  LET k == observeCandidate(d) IN
               k.current = ctl.current /\ k.applied = ctl.applied
    <2>1. CASE d = ctl.applied
      BY <1>1, <2>1, Zenon DEF observeCandidate
    <2>2. CASE d # ctl.applied /\ d # ctl.candidate
      BY <2>2 DEF observeCandidate, IsCtl, CtlFields
    <2>3. CASE d # ctl.applied /\ d = ctl.candidate
      BY <2>3 DEF observeCandidate, IsCtl, CtlFields
    <2> QED  BY <2>1, <2>2, <2>3, Zenon
  <1> QED  BY <1>1, <1>2, Zenon

(* The step of a process leaves the others where they are. *)
Alone(p) == \A q \in Procs \ {p} : proc'[q] = proc[q]

LEMMA AloneUpdate ==
  ASSUME Shape, NEW p, NEW y, proc' = [proc EXCEPT ![p] = y]
  PROVE  Alone(p)
  BY Zenon DEF Shape, Alone

LEMMA AloneEnds ==
  ASSUME Shape, NEW p, NEW a,
         To(p, a) \/ Answer(p, a) \/ Finish(p, a) \/ WriteFails(p, a) \/ ReloadFails(p)
  PROVE  Alone(p)
  <1>1. ASSUME NEW z, Answer(p, z) \/ Finish(p, z) PROVE Alone(p)
    <2>1. \E y : proc' = [proc EXCEPT ![p] = y]
      BY <1>1, Zenon DEF Answer, Finish
    <2> QED  BY <2>1, AloneUpdate, Zenon
  <1>2. CASE To(p, a)
    BY <1>2, AloneUpdate, Zenon DEF To
  <1>3. CASE ReloadFails(p)
    <2>1. (\E y : proc' = [proc EXCEPT ![p] = y]) \/ Finish(p, "restoreFailed")
      BY <1>3, Zenon DEF ReloadFails
    <2> QED  BY <1>1, <2>1, AloneUpdate, Zenon
  <1>4. CASE WriteFails(p, a)
    BY <1>1, <1>4, Zenon DEF WriteFails
  <1> QED  BY <1>1, <1>2, <1>3, <1>4, Zenon

LEMMA AloneKeeps ==
  ASSUME Shape, NEW p, Alone(p), p \in Procs => proc[p].pc # "stopping",
         UNCHANGED <<hub, startup, running, diverged>>, ctl' = ctl \/ ctl' = Rejected,
         hub = "loaded" /\ ~ChangeWhileStarting => UNCHANGED file
  PROVE  Keeps
  <1>1. ctl'.current = ctl.current /\ ctl'.applied = ctl.applied
    BY CtlKeeps, Zenon DEF Shape
  <1>2. \A q \in Procs : proc[q].pc = "stopping" => proc'[q].pc = "stopping"
    BY Zenon DEF Alone
  <1> QED  BY <1>1, <1>2, Zenon DEF Keeps

LEMMA WriteKeeps ==
  ASSUME Shape, NEW p, Write(p)
  PROVE  Keeps
  <1>1. /\ UNCHANGED <<hub, startup, running, diverged>> /\ UNCHANGED ctl
        /\ proc[p].pc \in {"write", "locked", "replaced"}
        /\ hub = "loaded" /\ ~ChangeWhileStarting => UNCHANGED file
    BY Zenon DEF Write, AcquireLock, replaceFile, replaceFails, syncParentDir, syncFails
  <1>2. proc[p].pc # "stopping"
    BY <1>1, Zenon
  <1>3. \E a : To(p, a) \/ Answer(p, a) \/ WriteFails(p, a)
    BY Zenon DEF Write, AcquireLock, replaceFile, replaceFails, syncParentDir, syncFails
  <1>4. Alone(p)
    BY <1>3, AloneEnds, Zenon
  <1> QED  BY <1>1, <1>2, <1>4, AloneKeeps, Zenon

LEMMA RequestKeeps ==
  ASSUME Shape, NEW a, NEW x,
         getConfig(a) \/ preflight(a) \/ handle(a, x) \/ ImportServers(a, x) \/ reloadNow(a)
  PROVE  Keeps
  <1>1. /\ UNCHANGED <<hub, startup, running, diverged>> /\ UNCHANGED file
        /\ proc[a].pc # "stopping" /\ (ctl' = ctl \/ ctl' = Rejected)
    BY Zenon DEF getConfig, preflight, handle, ImportServers, reloadNow, filevars
  <1>2. \/ \E y : proc' = [proc EXCEPT ![a] = y]
        \/ \E z : To(a, z) \/ Answer(a, z) \/ Finish(a, z)
        \/ ReloadFails(a)
    <2>1. CASE getConfig(a) \/ ImportServers(a, x) \/ reloadNow(a)
      BY <2>1, Zenon DEF getConfig, ImportServers, reloadNow
    <2>2. CASE preflight(a)
      BY <2>2, Zenon DEF preflight
    <2>3. CASE handle(a, x)
      BY <2>3, HandleCases, Zenon
    <2> QED  BY <2>1, <2>2, <2>3, Zenon
  <1>3. Alone(a)
    BY <1>2, AloneUpdate, AloneEnds, Zenon
  <1> QED  BY <1>1, <1>3, AloneKeeps, Zenon

LEMMA PollKeeps ==
  ASSUME Shape, Poll
  PROVE  Keeps
  <1>1. /\ UNCHANGED <<hub, startup, running, diverged>> /\ UNCHANGED file
        /\ proc["poll"].pc = "idle" /\ (ctl' = observeCandidate(file) \/ ctl' = Rejected)
        /\ UNCHANGED proc \/ \E y : proc' = [proc EXCEPT !["poll"] = y]
    BY Zenon DEF Poll, filevars
  <1>2. ctl'.current = ctl.current /\ ctl'.applied = ctl.applied
    BY <1>1, CtlKeeps, Zenon DEF Shape
  <1>3. Alone("poll")
    BY <1>1, AloneUpdate, Zenon DEF Alone
  <1>4. \A q \in Procs : proc[q].pc = "stopping" => proc'[q].pc = "stopping"
    BY <1>1, <1>3, Zenon DEF Alone
  <1> QED  BY <1>1, <1>2, <1>4, Zenon DEF Keeps

(* Manager.Apply begins ... *)
LEMMA ApplyStatus ==
  ASSUME IInv, NEW p \in Procs, apply(p), p \notin Importers
  PROVE  /\ StatusInv => StatusInv'
         /\ ~ChangeWhileStarting /\ TrackInv => TrackInv'
  <1>1. /\ UNCHANGED <<hub, startup, diverged>> /\ UNCHANGED file /\ proc[p].pc = "apply"
    BY Zenon DEF apply, filevars
  <1>2. hub = "up" /\ Shape
    BY <1>1, Zenon DEF IInv, TxInv, TxLabels, Procs, Writers
  <1>3. CASE Refuses(proc[p].snap)
    <2>1. ctl' = Rejected /\ ReloadFails(p) /\ UNCHANGED running
      BY <1>3, Zenon DEF apply
    <2>2. Alone(p)
      BY <1>2, <2>1, AloneEnds, Zenon
    <2>3. proc[p].pc # "stopping"
      BY <1>1, Zenon
    <2>4. Keeps
      BY <1>1, <1>2, <2>1, <2>2, <2>3, AloneKeeps, Zenon
    <2> QED  BY <2>4, StatusFrame, TrackFrame, Zenon
  <1>4. CASE ~Refuses(proc[p].snap)
    <2>1. UNCHANGED ctl
      BY <1>4, Zenon DEF apply
    <2>2. PICK b : proc' = [proc EXCEPT ![p] = [proc[p] EXCEPT !.pc = "stopping", !.removed = b]]
      BY <1>2, <1>4, Zenon DEF apply, Shape
    <2>3. IsProc(proc[p])
      BY <1>2, Zenon DEF Shape
    <2>4. [proc[p] EXCEPT !.pc = "stopping", !.removed = b].pc = "stopping"
      BY <2>3, Zenon DEF IsProc, ProcFields
    <2>5. proc'[p].pc = "stopping"
      BY <1>2, <2>2, <2>4, Zenon DEF Shape
    <2>6. Applying'
      BY <2>5, Zenon DEF Applying
    <2> QED  BY <1>1, <1>2, <2>1, <2>6, Zenon DEF StatusInv, TrackInv
  <1> QED  BY <1>3, <1>4, Zenon

(* ... ends, and its outcome is recorded ... *)
LEMMA AppliedStatus ==
  ASSUME IInv, NEW p \in Procs, applied(p), p \notin Importers
  PROVE  StatusInv' /\ (TrackInv => TrackInv')
  <1>1. /\ UNCHANGED <<hub, startup, running>> /\ UNCHANGED file
        /\ proc[p].pc = "stopping" /\ ctl' = Recorded(proc[p].snap)
    BY Zenon DEF applied, filevars
  <1>2. hub = "up" /\ IsCtl(ctl) /\ Runs(p)
    BY <1>1, Zenon DEF IInv, TxInv, TxLabels, Procs, Writers, Shape, RunInv
  <1>3. ctl'.current = proc[p].snap /\ ctl'.applied = proc[p].snap
    BY <1>1, <1>2, CtlKept, Zenon
  <1>4. running' = stripStartupSecrets(ctl'.current)
    BY <1>1, <1>2, <1>3, Zenon DEF Runs
  <1>5. Serves(ctl.current)'
    BY <1>1, <1>4, Zenon DEF Serves, stripStartupSecrets
  <1> QED  BY <1>1, <1>2, <1>3, <1>5, Zenon DEF StatusInv, TrackInv

(* ... or is cut short, which the invariant excepts. *)
LEMMA TimesOutStatus ==
  ASSUME IInv, NEW p \in Admins, applyTimesOut(p)
  PROVE  StatusInv' /\ (TrackInv => TrackInv')
  <1>1. /\ UNCHANGED <<hub, startup>> /\ UNCHANGED file /\ diverged'
        /\ proc[p].pc = "stopping" /\ ctl' = Rejected
    BY Zenon DEF applyTimesOut, filevars
  <1>2. hub = "up" /\ IsCtl(ctl)
    BY <1>1, Zenon DEF IInv, TxInv, TxLabels, Shape
  <1>3. ctl'.current = ctl.current /\ ctl'.applied = ctl.applied
    BY <1>1, <1>2, CtlKeeps, Zenon
  <1> QED  BY <1>1, <1>2, <1>3, Zenon DEF StatusInv, TrackInv

(* The start of the Hub, the editor, a power failure and a stutter. *)
LEMMA EnvStatus ==
  ASSUME IInv, StatusInv,
         \/ Load \/ NewController \/ (\E c \in Edits : Edit(c)) \/ (\E f \in disk : Crash(f))
         \/ UNCHANGED vars
  PROVE  /\ StatusInv'
         /\ ~ChangeWhileStarting /\ TrackInv => TrackInv'
  <1>1. CASE Load
    <2>1. hub' = "loaded" /\ startup' = file /\ running' = file.servers /\ UNCHANGED file
      BY <1>1, Zenon DEF Load, filevars
    <2> QED  BY <2>1, Zenon DEF StatusInv, TrackInv
  <1>2. CASE NewController
    <2>1. /\ hub = "loaded" /\ hub' = "up" /\ UNCHANGED <<startup, running>> /\ UNCHANGED file
          /\ ctl'.current = startup /\ ctl'.applied = file
      BY <1>2 DEF NewController, filevars
    <2>2. running' = ctl'.current.servers
      BY <2>1, Zenon DEF StatusInv
    <2>3. Serves(ctl.current)'
      BY <2>2, Zenon DEF Serves
    <2> QED  BY <2>1, <2>3, Zenon DEF StatusInv, TrackInv
  <1>3. ASSUME NEW f, Crash(f)
        PROVE  StatusInv' /\ TrackInv'
    <2>1. hub' = "down"
      BY <1>3, Zenon DEF Crash
    <2> QED  BY <2>1, Zenon DEF StatusInv, TrackInv
  <1>4. ASSUME (\E c \in Edits : Edit(c)) \/ UNCHANGED vars
        PROVE  Keeps
    BY <1>4, Zenon DEF Edit, vars, Keeps
  <1> QED  BY <1>1, <1>2, <1>3, <1>4, StatusFrame, TrackFrame, Zenon

LEMMA NextStatus ==
  ASSUME IInv, StatusInv, [Next]_vars
  PROVE  StatusInv' /\ (~ChangeWhileStarting /\ TrackInv => TrackInv')
  <1> DEFINE Goal == StatusInv' /\ (~ChangeWhileStarting /\ TrackInv => TrackInv')
  <1>0. Shape
    BY Zenon DEF IInv
  <1>1. ASSUME Keeps PROVE Goal
    BY <1>1, StatusFrame, TrackFrame, Zenon
  <1>2. ASSUME NEW p \in Admins \cup {"poll"}, apply(p) \/ applied(p)
        PROVE  Goal
    <2>1. p \in Procs /\ p \notin Importers
      BY Names
    <2> QED  BY <1>2, <2>1, ApplyStatus, AppliedStatus, Zenon
  <1>3. ASSUME NEW a \in Admins, applyTimesOut(a)
        PROVE  Goal
    BY <1>3, TimesOutStatus, Zenon
  <1>4. ASSUME NEW a, NEW x,
               \/ getConfig(a) \/ preflight(a) \/ handle(a, x) \/ ImportServers(a, x)
               \/ reloadNow(a) \/ Write(a) \/ Poll
        PROVE  Goal
    BY <1>0, <1>1, <1>4, RequestKeeps, WriteKeeps, PollKeeps, Zenon
  <1>5. ASSUME \/ Load \/ NewController \/ (\E c \in Edits : Edit(c))
               \/ (\E f \in disk : Crash(f)) \/ UNCHANGED vars
        PROVE  Goal
    BY <1>5, EnvStatus, Zenon
  <1> HIDE DEF Goal
  <1>6. ASSUME NEW a \in Admins,
               getConfig(a) \/ preflight(a) \/ Write(a) \/ Reload(a)
                 \/ \E op \in Ops : handle(a, op)
        PROVE  Goal
    BY <1>2, <1>3, <1>4, <1>6, Zenon DEF Reload
  <1>7. ASSUME NEW i \in Importers, Write(i) \/ \E e \in Imports : ImportServers(i, e)
        PROVE  Goal
    BY <1>4, <1>7, Zenon
  <1>8. Goal
    BY <1>2, <1>4, <1>5, <1>6, <1>7, Zenon DEF Next
  <1> QED  BY <1>8, Zenon DEF Goal

(* The configuration recorded as current is the one the manager runs, whatever
   was refused, rolled back or cut short before, unless the last Apply that
   changed the manager was cut short; and TokenDomains (controller.go: apply,
   reject; admin.go: writeConfigLocked). *)
THEOREM RecordsAreTrue == Spec => []RecordIsTrue
  <1>1. Init => StatusInv
    BY Zenon DEF Init, StatusInv
  <1>2. IInv /\ StatusInv /\ [Next]_vars => StatusInv'
    BY NextStatus, Zenon
  <1>3. IInv /\ StatusInv => RecordIsTrue
    BY Zenon DEF IInv, StatusInv, Applying, RecordIsTrue
  <1> QED  BY <1>1, <1>2, <1>3, Inductive, PTL DEF Spec

(* If the file is left alone between the load and the controller's digest, the
   digest that the poll compares the file with is always that of the current
   configuration: a file that differs from what is in force is never taken for
   applied (app.go: runServe; controller.go: NewController, observeCandidate). *)
THEOREM PollSeesEveryChange ==
  ASSUME ~ChangeWhileStarting
  PROVE  Spec => [](hub = "up" => ctl.applied = ctl.current)
  <1>1. Init => StatusInv /\ TrackInv
    BY Zenon DEF Init, StatusInv, TrackInv
  <1>2. IInv /\ StatusInv /\ TrackInv /\ [Next]_vars => StatusInv' /\ TrackInv'
    BY NextStatus, Zenon
  <1>3. TrackInv => (hub = "up" => ctl.applied = ctl.current)
    BY Zenon DEF TrackInv
  <1> QED  BY <1>1, <1>2, <1>3, Inductive, PTL DEF Spec
=============================================================================
