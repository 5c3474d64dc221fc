------------------------- MODULE CoordinatorProofs -------------------------
(***************************************************************************)
(* Proofs about Coordinator, for any tools, settings, configurations,      *)
(* generations, callers of Refresh and number of revisions: the inductive  *)
(* invariant, the steps of the coordinator goroutine, the steps of         *)
(* everybody else, and what follows.  One lemma per part of the code, one  *)
(* step per conjunct.                                                      *)
(***************************************************************************)
EXTENDS CoordinatorTypes

ReadyLabels   == {"ready", "refreshList", "refreshLock", "refreshPublish"}
AttemptLabels == {"check", "discover", "lockPublish", "publish", "commit"}
ConnectLabels == {"takeOld", "limiter", "dial", "errCheck", "enterBackoff",
                  "backoff"} \cup AttemptLabels
IdleLabels    == {"unpublish", "disabledWait"}

Draining(label) == pc \in {"drain", "retire"} /\ cont = label

(* Who holds publishMu when run is inside its critical sections.           *)
LockInv == publishMu = "run" <=> pc \in {"publish", "commit", "refreshPublish"}

(* A revision names one configuration: a goroutine that finds the desired  *)
(* revision equal to its own has the desired configuration.                *)
RevisionInv ==
    /\ desired.rev # 0
    /\ \A d \in {tgt, ref} :
           d.rev <= desired.rev /\ (d.rev = desired.rev => d = desired)

(* Only commit makes the coordinator ready, and every path that leaves the *)
(* ready loop for another attempt says so first.                           *)
ReadyInv ==
    /\ state = "ready" => currentGen \in Gens
    /\ pc \in ConnectLabels \cup IdleLabels => state # "ready"
    /\ \A l \in {"limiter", "disabledWait", "failed"} :
           Draining(l) => state # "ready"
    /\ pc = "failed" => state # "ready"

(* Sessions: an open generation is the one run holds, an attempt is open   *)
(* only between its dial and its commit, and only an open one admits.      *)
SessionInv ==
    /\ attempt <=> pc \in AttemptLabels
    /\ \A g \in Gens :
        /\ open[g] => held = g /\ pc \in ReadyLabels \cup {"drain", "retire"}
        /\ ~open[g] => dead[g] /\ ~admission[g]

(* The operation: until its commit an attempt is the registered operation, *)
(* and one whose context is cancelled is out of date; after it nobody has  *)
(* a way to cancel the context the session lives on.  A disabled server's  *)
(* drain is never taken for one of these.                                  *)
Connecting ==
    pc \in ConnectLabels \ {"enterBackoff", "backoff"} \/ Draining("limiter")

Serving == pc \in ReadyLabels \/ Draining("leave") \/ Draining("failed")

OperationInv ==
    /\ pc = "unpublish" => cont = "disabledWait"
    /\ publishMu = "update" => upd.op # desired.rev
    /\ Connecting => /\ operationRevision = tgt.rev
                     /\ opDone => stopped \/ desired.rev # tgt.rev
    /\ Serving => /\ ~opDone /\ ~operationCancel
                  /\ publishMu = "update" => upd.op = 0

(* Stop: it owns the generation it took until that is drained.             *)
StopInv ==
    /\ stopped <=> spc # "idle"
    /\ stopped => state # "ready" /\ currentGen = NoGen
    /\ \A g \in Gens :
           admission[g] => g = currentGen \/ (g = sgen /\ spc = "drain")

(* Between its two steps, UpdateConfig knows the truth about a server that *)
(* is still ready, and does not believe one that is not.                   *)
UpdateInv ==
    publishMu = "update" =>
        /\ mpc = "serving"
        /\ state = "ready" => upd.ready /\ upd.gen = currentGen
        /\ stopped \/ pc = "disabledWait" \/ Draining("disabledWait") =>
               ~upd.ready

(* What the desired configuration and the ready generation agree on, and   *)
(* what UpdateConfig has still to do about it.                             *)
ServesInv ==
    state = "ready" =>
        \/ reconcileCh
        \/ publishMu = "update" /\ upd.change = "connection"
        \/ /\ desired.cfg.enabled
           /\ conn[currentGen] = desired.cfg.conn
           /\ \/ callTimeout[currentGen] = desired.cfg.callTimeout
              \/ /\ publishMu = "update"
                 /\ upd.change \in {"timeout", "toolsAndTimeout"}

(* The same for the catalog.                                               *)
CatalogInv ==
    /\ pc = "commit" /\ mpc = "serving" =>
           published = listed \ tgt.cfg.disabled
    /\ state = "ready" /\ mpc = "serving" =>
        \/ reconcileCh
        \/ publishMu = "update" /\ upd.change = "connection"
        \/ published = cachedTools \ desired.cfg.disabled
        \/ /\ publishMu = "update"
           /\ upd.change \in {"tools", "toolsAndTimeout"}
           /\ published \subseteq cachedTools
    /\ (pc = "disabledWait" \/ Draining("disabledWait")) /\ mpc = "serving" =>
           published = {}

(* What run has listed is the downstream's list, or a token will say so.   *)
ListInv ==
    /\ pc \in {"lockPublish", "publish", "commit"} =>
           listed = downTools \/ note \/ toolChangedCh
    /\ pc \in {"refreshLock", "refreshPublish"} /\ ~dead[held] =>
           listed = downTools \/ note \/ toolChangedCh

IInv ==
    /\ TypeOK /\ LockInv /\ RevisionInv /\ CommitIsCurrent /\ ReadyInv
    /\ SessionInv /\ OperationInv /\ StopInv /\ UpdateInv /\ ServesInv
    /\ CatalogInv /\ ListInv /\ NoMissedChange

(* run: the loop and the way out.                                          *)
LEMMA LoopStep ==
  ASSUME runLoop \/ runPick \/ runExit \/ runExited
  PROVE  IInv => IInv'
  <1>0. SUFFICES ASSUME TypeOK, LockInv, RevisionInv, CommitIsCurrent,
                        ReadyInv, SessionInv, OperationInv, StopInv,
                        UpdateInv, ServesInv, CatalogInv, ListInv,
                        NoMissedChange, LabelsOK, RevisionsOK, ToolsOK,
                        GenerationsOK, PointersOK
                 PROVE  IInv'
    BY Zenon DEF IInv, TypeOK
  <1>1. TypeOK'  BY TypeOK, LoopType, Zenon
  <1> USE DEF runLoop, runPick, runExit, runExited, Goto, Stop, stopBody
  <1>2. LockInv'  BY LockInv, LabelsOK, Zenon DEF LockInv, LabelsOK
  <1>3. RevisionInv'  BY RevisionInv, Zenon DEF RevisionInv, fields, locals
  <1>4. CommitIsCurrent'
    BY CommitIsCurrent, LabelsOK, Zenon
    DEF CommitIsCurrent, LabelsOK, fields, locals
  <1>5. ReadyInv'
    BY ReadyInv, LabelsOK, Zenon
    DEF ReadyInv, LabelsOK, AttemptLabels, ConnectLabels, IdleLabels,
        Draining, fields, locals
  <1>6. SessionInv'
    BY SessionInv, GenerationsOK, LabelsOK, NilAssumption
    DEF SessionInv, GenerationsOK, LabelsOK, ReadyLabels, AttemptLabels, gens,
        locals
  <1>7. OperationInv'
    BY OperationInv, LabelsOK, Zenon
    DEF OperationInv, LabelsOK, ReadyLabels, AttemptLabels, ConnectLabels,
        Draining, Connecting, Serving, fields, operation, locals, stopping
  <1>8. StopInv'
    BY StopInv, GenerationsOK
    DEF StopInv, GenerationsOK, fields, gens, stopping
  <1>9. UpdateInv'
    BY UpdateInv, Zenon DEF UpdateInv, Draining, fields, locals, stopping
  <1>10. ServesInv'
    BY ServesInv DEF ServesInv, fields, channels, gens, stopping
  <1>11. CatalogInv'
    BY CatalogInv, LabelsOK, Zenon
    DEF CatalogInv, LabelsOK, Draining, fields, channels, locals, stopping
  <1>12. ListInv'
    BY ListInv, LabelsOK, Zenon
    DEF ListInv, LabelsOK, channels, gens, locals, down
  <1>13. NoMissedChange'
    BY NoMissedChange, LabelsOK, Zenon
    DEF NoMissedChange, LabelsOK, fields, channels, gens, locals, down
  <1> HIDE DEF runLoop, runPick, runExit, runExited
  <1> QED  BY <1>1, <1>2, <1>3, <1>4, <1>5, <1>6, <1>7, <1>8, <1>9, <1>10,
             <1>11, <1>12, <1>13, Zenon DEF IInv

(* run: the drains.                                                        *)
LEMMA DrainStep ==
  ASSUME runDrain \/ runRetire
  PROVE  IInv => IInv'
  <1>0. SUFFICES ASSUME TypeOK, LockInv, RevisionInv, CommitIsCurrent,
                        ReadyInv, SessionInv, OperationInv, StopInv,
                        UpdateInv, ServesInv, CatalogInv, ListInv,
                        NoMissedChange, LabelsOK, RevisionsOK, ToolsOK,
                        GenerationsOK, PointersOK
                 PROVE  IInv'
    BY Zenon DEF IInv, TypeOK
  <1>1. TypeOK'  BY TypeOK, DrainType, Zenon
  <1> USE DEF runDrain, runRetire, Goto, DrainStart, Retire
  <1>2. LockInv'  BY LockInv, LabelsOK, Zenon DEF LockInv, LabelsOK
  <1>3. RevisionInv'  BY RevisionInv, Zenon DEF RevisionInv, fields, locals
  <1>4. CommitIsCurrent'
    BY CommitIsCurrent, LabelsOK, Zenon
    DEF CommitIsCurrent, LabelsOK, fields, locals
  <1>5. ReadyInv'
    BY ReadyInv, LabelsOK, Zenon
    DEF ReadyInv, LabelsOK, AttemptLabels, ConnectLabels, IdleLabels,
        Draining, fields, locals
  <1>6. SessionInv'
    BY SessionInv, GenerationsOK, LabelsOK, NilAssumption
    DEF SessionInv, GenerationsOK, LabelsOK, ReadyLabels, AttemptLabels, gens,
        locals
  <1>7. OperationInv'
    BY OperationInv, LabelsOK
    DEF OperationInv, LabelsOK, ReadyLabels, AttemptLabels, ConnectLabels,
        Draining, Connecting, Serving, fields, operation, locals, stopping
  <1>8. StopInv'
    BY StopInv, GenerationsOK
    DEF StopInv, GenerationsOK, fields, gens, stopping
  <1>9. UpdateInv'
    BY UpdateInv, Zenon DEF UpdateInv, Draining, fields, locals, stopping
  <1>10. ServesInv'
    BY ServesInv DEF ServesInv, fields, channels, gens, stopping
  <1>11. CatalogInv'
    BY CatalogInv, LabelsOK, Zenon
    DEF CatalogInv, LabelsOK, Draining, fields, channels, locals, stopping
  <1>12. ListInv'
    BY ListInv, LabelsOK, Zenon
    DEF ListInv, LabelsOK, channels, gens, locals, down
  <1>13. NoMissedChange'
    BY NoMissedChange, LabelsOK, Zenon
    DEF NoMissedChange, LabelsOK, fields, channels, gens, locals, down
  <1> HIDE DEF runDrain, runRetire
  <1> QED  BY <1>1, <1>2, <1>3, <1>4, <1>5, <1>6, <1>7, <1>8, <1>9, <1>10,
             <1>11, <1>12, <1>13, Zenon DEF IInv

(* handleDisabled.                                                         *)
LEMMA DisabledStep ==
  ASSUME disabledSteps
  PROVE  IInv => IInv'
  <1>0. SUFFICES ASSUME TypeOK, LockInv, RevisionInv, CommitIsCurrent,
                        ReadyInv, SessionInv, OperationInv, StopInv,
                        UpdateInv, ServesInv, CatalogInv, ListInv,
                        NoMissedChange, LabelsOK, RevisionsOK, ToolsOK,
                        GenerationsOK, PointersOK
                 PROVE  IInv'
    BY Zenon DEF IInv, TypeOK
  <1>1. TypeOK'  BY TypeOK, DisabledType, Zenon
  <1> USE DEF disabledSteps, handleDisabled, disabledUnpublish, disabledWait,
             Goto, Reply
  <1>2. LockInv'  BY LockInv, Zenon DEF LockInv
  <1>3. RevisionInv'  BY RevisionInv, Zenon DEF RevisionInv, fields, locals
  <1>4. CommitIsCurrent'
    BY CommitIsCurrent, Zenon DEF CommitIsCurrent, fields, locals
  <1>5. ReadyInv'
    BY ReadyInv, Zenon
    DEF ReadyInv, AttemptLabels, ConnectLabels, IdleLabels, Draining, fields,
        locals
  <1>6. SessionInv'
    BY SessionInv DEF SessionInv, ReadyLabels, AttemptLabels, gens, locals
  <1>7. OperationInv'
    BY OperationInv, Zenon
    DEF OperationInv, ReadyLabels, AttemptLabels, ConnectLabels, Draining,
        Connecting, Serving, fields, operation, locals, stopping
  <1>8. StopInv'
    BY StopInv, SessionInv
    DEF StopInv, SessionInv, ReadyLabels, AttemptLabels, fields, gens,
        stopping
  <1>9. UpdateInv'
    BY UpdateInv, Zenon DEF UpdateInv, Draining, fields, locals, stopping
  <1>10. ServesInv'
    BY ServesInv, ReadyInv
    DEF ServesInv, ReadyInv, AttemptLabels, ConnectLabels, IdleLabels,
        Draining, fields, channels, gens, stopping
  <1>11. CatalogInv'
    BY CatalogInv, ReadyInv, Zenon
    DEF CatalogInv, ReadyInv, AttemptLabels, ConnectLabels, IdleLabels,
        Draining, fields, channels, locals, stopping
  <1>12. ListInv'  BY ListInv, Zenon DEF ListInv, channels, gens, locals, down
  <1>13. NoMissedChange'
    BY NoMissedChange, Zenon
    DEF NoMissedChange, fields, channels, gens, locals, down
  <1> HIDE DEF disabledSteps
  <1> QED  BY <1>1, <1>2, <1>3, <1>4, <1>5, <1>6, <1>7, <1>8, <1>9, <1>10,
             <1>11, <1>12, <1>13, Zenon DEF IInv

(* handleConnectingAndReady, up to the attempt.                            *)
LEMMA ConnectStep ==
  ASSUME connectStart \/ drainAndCloseOldGen \/ limiterSelect
  PROVE  IInv => IInv'
  <1>0. SUFFICES ASSUME TypeOK, LockInv, RevisionInv, CommitIsCurrent,
                        ReadyInv, SessionInv, OperationInv, StopInv,
                        UpdateInv, ServesInv, CatalogInv, ListInv,
                        NoMissedChange, LabelsOK, RevisionsOK, ToolsOK,
                        GenerationsOK, PointersOK
                 PROVE  IInv'
    BY Zenon DEF IInv, TypeOK
  <1>1. TypeOK'  BY TypeOK, ConnectType, Zenon
  <1> USE DEF connectStart, drainAndCloseOldGen, limiterSelect, Goto
  <1>2. LockInv'  BY LockInv, Zenon DEF LockInv
  <1>3. RevisionInv'
    BY RevisionInv, RevisionsOK
    DEF RevisionInv, RevisionsOK, Desired, fields, locals
  <1>4. CommitIsCurrent'
    BY CommitIsCurrent, Zenon DEF CommitIsCurrent, fields, locals
  <1>5. ReadyInv'
    BY ReadyInv, Zenon
    DEF ReadyInv, AttemptLabels, ConnectLabels, IdleLabels, Draining, fields,
        locals
  <1>6. SessionInv'
    BY SessionInv DEF SessionInv, ReadyLabels, AttemptLabels, gens, locals
  <1>7. OperationInv'
    BY OperationInv
    DEF OperationInv, ReadyLabels, AttemptLabels, ConnectLabels, Draining,
        Connecting, Serving, fields, operation, locals, stopping
  <1>8. StopInv'
    BY StopInv, SessionInv, NilAssumption
    DEF StopInv, SessionInv, ReadyLabels, AttemptLabels, fields, gens,
        stopping
  <1>9. UpdateInv'
    BY UpdateInv, ReadyInv, Zenon
    DEF UpdateInv, ReadyInv, AttemptLabels, ConnectLabels, IdleLabels,
        Draining, fields, locals, stopping
  <1>10. ServesInv'
    BY ServesInv, ReadyInv
    DEF ServesInv, ReadyInv, AttemptLabels, ConnectLabels, IdleLabels,
        Draining, fields, channels, gens, stopping
  <1>11. CatalogInv'
    BY CatalogInv, ReadyInv, Zenon
    DEF CatalogInv, ReadyInv, AttemptLabels, ConnectLabels, IdleLabels,
        Draining, fields, channels, locals, stopping
  <1>12. ListInv'  BY ListInv, Zenon DEF ListInv, channels, gens, locals, down
  <1>13. NoMissedChange'
    BY NoMissedChange, Zenon
    DEF NoMissedChange, fields, channels, gens, locals, down
  <1> HIDE DEF connectStart, drainAndCloseOldGen, limiterSelect
  <1> QED  BY <1>1, <1>2, <1>3, <1>4, <1>5, <1>6, <1>7, <1>8, <1>9, <1>10,
             <1>11, <1>12, <1>13, Zenon DEF IInv

(* handleConnectingAndReady, from the attempt to the discovery.            *)
LEMMA AttemptStep ==
  ASSUME createSession \/ checkTarget \/ discover \/ connectError
  PROVE  IInv => IInv'
  <1>0. SUFFICES ASSUME TypeOK, LockInv, RevisionInv, CommitIsCurrent,
                        ReadyInv, SessionInv, OperationInv, StopInv,
                        UpdateInv, ServesInv, CatalogInv, ListInv,
                        NoMissedChange, LabelsOK, RevisionsOK, ToolsOK,
                        GenerationsOK, PointersOK
                 PROVE  IInv'
    BY Zenon DEF IInv, TypeOK
  <1>1. TypeOK'  BY TypeOK, AttemptType, Zenon
  <1> USE DEF createSession, checkTarget, discover, connectError, Goto,
             targetCurrent
  <1>2. LockInv'  BY LockInv, Zenon DEF LockInv
  <1>3. RevisionInv'
    BY RevisionInv, RevisionsOK, Zenon
    DEF RevisionInv, RevisionsOK, Desired, fields, locals
  <1>4. CommitIsCurrent'
    BY CommitIsCurrent, Zenon DEF CommitIsCurrent, fields, locals
  <1>5. ReadyInv'
    BY ReadyInv, Zenon
    DEF ReadyInv, AttemptLabels, ConnectLabels, IdleLabels, Draining, fields,
        locals
  <1>6. SessionInv'
    BY SessionInv DEF SessionInv, ReadyLabels, AttemptLabels, gens, locals
  <1>7. OperationInv'
    BY OperationInv, SMTT(30)
    DEF OperationInv, ReadyLabels, AttemptLabels, ConnectLabels, Draining,
        Connecting, Serving, fields, operation, locals, stopping
  <1>8. StopInv'
    BY StopInv, SessionInv, NilAssumption
    DEF StopInv, SessionInv, ReadyLabels, AttemptLabels, fields, gens,
        stopping
  <1>9. UpdateInv'
    BY UpdateInv, ReadyInv, Zenon
    DEF UpdateInv, ReadyInv, AttemptLabels, ConnectLabels, IdleLabels,
        Draining, fields, locals, stopping
  <1>10. ServesInv'
    BY ServesInv, ReadyInv, Zenon
    DEF ServesInv, ReadyInv, AttemptLabels, ConnectLabels, IdleLabels,
        Draining, fields, channels, gens, stopping
  <1>11. CatalogInv'
    BY CatalogInv, ReadyInv, Zenon
    DEF CatalogInv, ReadyInv, AttemptLabels, ConnectLabels, IdleLabels,
        Draining, fields, channels, locals, stopping
  <1>12. ListInv'  BY ListInv, Zenon DEF ListInv, channels, gens, locals, down
  <1>13. NoMissedChange'
    BY NoMissedChange, Zenon
    DEF NoMissedChange, fields, channels, gens, locals, down
  <1> HIDE DEF createSession, checkTarget, discover, connectError
  <1> QED  BY <1>1, <1>2, <1>3, <1>4, <1>5, <1>6, <1>7, <1>8, <1>9, <1>10,
             <1>11, <1>12, <1>13, Zenon DEF IInv

(* handleConnectingAndReady, from publishMu on, and its deferred leave.    *)
LEMMA PublishStep ==
  ASSUME lockPublish \/ publishDiscovered \/ leave
  PROVE  IInv => IInv'
  <1>0. SUFFICES ASSUME TypeOK, LockInv, RevisionInv, CommitIsCurrent,
                        ReadyInv, SessionInv, OperationInv, StopInv,
                        UpdateInv, ServesInv, CatalogInv, ListInv,
                        NoMissedChange, LabelsOK, RevisionsOK, ToolsOK,
                        GenerationsOK, PointersOK
                 PROVE  IInv'
    BY Zenon DEF IInv, TypeOK
  <1>1. TypeOK'  BY TypeOK, PublishType, Zenon
  <1> USE DEF lockPublish, publishDiscovered, disownStartup, Free, leave,
             Goto, targetCurrent
  <1>2. LockInv'  BY LockInv, Zenon DEF LockInv
  <1>3. RevisionInv'
    BY RevisionInv, RevisionsOK
    DEF RevisionInv, RevisionsOK, Desired, unset, fields, locals
  <1>4. CommitIsCurrent'
    BY CommitIsCurrent DEF CommitIsCurrent, fields, locals
  <1>5. ReadyInv'
    BY ReadyInv, Zenon
    DEF ReadyInv, AttemptLabels, ConnectLabels, IdleLabels, Draining, fields,
        locals
  <1>6. SessionInv'
    BY SessionInv, GenerationsOK
    DEF SessionInv, GenerationsOK, ReadyLabels, AttemptLabels, gens, locals
  <1>7. OperationInv'
    BY OperationInv, SMTT(30)
    DEF OperationInv, ReadyLabels, AttemptLabels, ConnectLabels, Draining,
        Connecting, Serving, fields, operation, locals, stopping
  <1>8. StopInv'
    BY StopInv, SessionInv, GenerationsOK
    DEF StopInv, SessionInv, GenerationsOK, ReadyLabels, AttemptLabels,
        fields, gens, stopping
  <1>9. UpdateInv'
    BY UpdateInv, Zenon DEF UpdateInv, Draining, fields, locals, stopping
  <1>10. ServesInv'
    BY ServesInv, ReadyInv, LockInv
    DEF ServesInv, ReadyInv, LockInv, AttemptLabels, ConnectLabels, fields,
        channels, gens, stopping
  <1>11. CatalogInv'
    BY CatalogInv, ReadyInv, RevisionInv, Zenon
    DEF CatalogInv, ReadyInv, RevisionInv, Filter, AttemptLabels,
        ConnectLabels, IdleLabels, Draining, fields, channels, locals,
        stopping
  <1>12. ListInv'  BY ListInv, Zenon DEF ListInv, channels, gens, locals, down
  <1>13. NoMissedChange'
    BY NoMissedChange, ListInv, Zenon
    DEF NoMissedChange, ListInv, fields, channels, gens, locals, down
  <1> HIDE DEF lockPublish, publishDiscovered, leave
  <1> QED  BY <1>1, <1>2, <1>3, <1>4, <1>5, <1>6, <1>7, <1>8, <1>9, <1>10,
             <1>11, <1>12, <1>13, Zenon DEF IInv

(* handleConnectingAndReady, the commit.                                   *)
LEMMA CommitStep ==
  ASSUME commit
  PROVE  IInv => IInv'
  <1>0. SUFFICES ASSUME TypeOK, LockInv, RevisionInv, CommitIsCurrent,
                        ReadyInv, SessionInv, OperationInv, StopInv,
                        UpdateInv, ServesInv, CatalogInv, ListInv,
                        NoMissedChange, LabelsOK, RevisionsOK, ToolsOK,
                        GenerationsOK, PointersOK
                 PROVE  IInv'
    BY Zenon DEF IInv, TypeOK
  <1>1. TypeOK'  BY TypeOK, CommitType, Zenon
  <1> USE DEF commit, install, disownStartup, Free, Goto, targetCurrent
  <1>2. LockInv'  BY LockInv, Zenon DEF LockInv
  <1>3. RevisionInv'
    BY RevisionInv, RevisionsOK, Zenon
    DEF RevisionInv, RevisionsOK, Desired, unset, fields, locals
  <1>4. CommitIsCurrent'
    BY CommitIsCurrent, Zenon DEF CommitIsCurrent, fields, locals
  <1>5. ReadyInv'
    BY ReadyInv, Zenon
    DEF ReadyInv, AttemptLabels, ConnectLabels, IdleLabels, Draining, fields,
        locals
  <1>6. SessionInv'
    BY SessionInv, GenerationsOK, ZenonT(60)
    DEF SessionInv, GenerationsOK, ReadyLabels, AttemptLabels, gens, locals
  <1>7. OperationInv'
    BY OperationInv, Zenon
    DEF OperationInv, ReadyLabels, AttemptLabels, ConnectLabels, Draining,
        Connecting, Serving, fields, operation, locals, stopping
  <1>8. StopInv'
    BY StopInv, SessionInv, GenerationsOK, Zenon
    DEF StopInv, SessionInv, GenerationsOK, ReadyLabels, AttemptLabels,
        fields, gens, stopping
  <1>9. UpdateInv'
    BY UpdateInv, Zenon DEF UpdateInv, Draining, fields, locals, stopping
  <1>10. ServesInv'
    <2> USE ServesInv, ReadyInv
        DEF ServesInv, ReadyInv, ConnectLabels, AttemptLabels, fields,
            channels, gens, stopping
    <2>1. CASE targetCurrent
      <3>1. tgt = desired  BY <2>1, RevisionInv, Zenon DEF RevisionInv
      <3>2. PICK g \in Gens : install(g)  BY <2>1, Zenon
      <3>3. /\ currentGen' = g /\ desired' = desired /\ desired.cfg.enabled
            /\ conn'[g] = desired.cfg.conn
            /\ callTimeout'[g] = desired.cfg.callTimeout
        BY <2>1, <3>1, <3>2, GenerationsOK, Zenon DEF GenerationsOK
      <3> QED  BY <3>3, Zenon
    <2>2. CASE ~targetCurrent  BY <2>2, Zenon
    <2> QED  BY <2>1, <2>2, Zenon
  <1>11. CatalogInv'
    BY CatalogInv, ReadyInv, RevisionInv, Zenon
    DEF CatalogInv, ReadyInv, RevisionInv, Filter, AttemptLabels,
        ConnectLabels, IdleLabels, Draining, fields, channels, locals,
        stopping
  <1>12. ListInv'  BY ListInv, Zenon DEF ListInv, channels, gens, locals, down
  <1>13. NoMissedChange'
    BY NoMissedChange, ListInv, Zenon
    DEF NoMissedChange, ListInv, fields, channels, gens, locals, down
  <1> HIDE DEF commit
  <1> QED  BY <1>1, <1>2, <1>3, <1>4, <1>5, <1>6, <1>7, <1>8, <1>9, <1>10,
             <1>11, <1>12, <1>13, Zenon DEF IInv

(* readyLoop, the ways out of it.                                          *)
LEMMA ReadyStep ==
  ASSUME readyReconcile \/ readyTick \/ readyCancelled
  PROVE  IInv => IInv'
  <1>0. SUFFICES ASSUME TypeOK, LockInv, RevisionInv, CommitIsCurrent,
                        ReadyInv, SessionInv, OperationInv, StopInv,
                        UpdateInv, ServesInv, CatalogInv, ListInv,
                        NoMissedChange, LabelsOK, RevisionsOK, ToolsOK,
                        GenerationsOK, PointersOK
                 PROVE  IInv'
    BY Zenon DEF IInv, TypeOK
  <1>1. TypeOK'  BY TypeOK, ReadyType, Zenon
  <1> USE DEF readyReconcile, readyTick, readyCancelled, Goto
  <1>2. LockInv'  BY LockInv, Zenon DEF LockInv
  <1>3. RevisionInv'
    BY RevisionInv, RevisionsOK, Zenon
    DEF RevisionInv, RevisionsOK, Desired, unset, fields, locals
  <1>4. CommitIsCurrent'
    BY CommitIsCurrent, Zenon DEF CommitIsCurrent, fields, locals
  <1>5. ReadyInv'
    BY ReadyInv, Zenon
    DEF ReadyInv, AttemptLabels, ConnectLabels, IdleLabels, Draining, fields,
        locals
  <1>6. SessionInv'
    BY SessionInv DEF SessionInv, ReadyLabels, AttemptLabels, gens, locals
  <1>7. OperationInv'
    BY OperationInv
    DEF OperationInv, ReadyLabels, AttemptLabels, ConnectLabels, Draining,
        Connecting, Serving, fields, operation, locals, stopping
  <1>8. StopInv'  BY StopInv DEF StopInv, fields, gens, stopping
  <1>9. UpdateInv'
    BY UpdateInv, Zenon DEF UpdateInv, Draining, fields, locals, stopping
  <1>10. ServesInv'
    BY ServesInv DEF ServesInv, fields, channels, gens, stopping
  <1>11. CatalogInv'
    BY CatalogInv, Zenon
    DEF CatalogInv, Draining, fields, channels, locals, stopping
  <1>12. ListInv'  BY ListInv, Zenon DEF ListInv, channels, gens, locals, down
  <1>13. NoMissedChange'
    BY NoMissedChange, Zenon
    DEF NoMissedChange, fields, channels, gens, locals, down
  <1> HIDE DEF readyReconcile, readyTick, readyCancelled
  <1> QED  BY <1>1, <1>2, <1>3, <1>4, <1>5, <1>6, <1>7, <1>8, <1>9, <1>10,
             <1>11, <1>12, <1>13, Zenon DEF IInv

(* readyLoop, the refreshes.                                               *)
LEMMA ReadyRefreshStep ==
  ASSUME readyToolsChanged \/ readyRefresh
  PROVE  IInv => IInv'
  <1>0. SUFFICES ASSUME TypeOK, LockInv, RevisionInv, CommitIsCurrent,
                        ReadyInv, SessionInv, OperationInv, StopInv,
                        UpdateInv, ServesInv, CatalogInv, ListInv,
                        NoMissedChange, LabelsOK, RevisionsOK, ToolsOK,
                        GenerationsOK, PointersOK
                 PROVE  IInv'
    BY Zenon DEF IInv, TypeOK
  <1>1. TypeOK'  BY TypeOK, ReadyRefreshType, Zenon
  <1> USE DEF readyToolsChanged, readyRefresh, refreshStart, refreshDone,
             superseded, Goto, Reply
  <1>2. LockInv'  BY LockInv, Zenon DEF LockInv
  <1>3. RevisionInv'
    BY RevisionInv, RevisionsOK
    DEF RevisionInv, RevisionsOK, Desired, unset, fields, locals
  <1>4. CommitIsCurrent'
    BY CommitIsCurrent, Zenon DEF CommitIsCurrent, fields, locals
  <1>5. ReadyInv'
    BY ReadyInv, Zenon
    DEF ReadyInv, AttemptLabels, ConnectLabels, IdleLabels, Draining, fields,
        locals
  <1>6. SessionInv'
    BY SessionInv DEF SessionInv, ReadyLabels, AttemptLabels, gens, locals
  <1>7. OperationInv'
    BY OperationInv
    DEF OperationInv, ReadyLabels, AttemptLabels, ConnectLabels, Draining,
        Connecting, Serving, fields, operation, locals, stopping
  <1>8. StopInv'  BY StopInv DEF StopInv, fields, gens, stopping
  <1>9. UpdateInv'
    BY UpdateInv, Zenon DEF UpdateInv, Draining, fields, locals, stopping
  <1>10. ServesInv'
    BY ServesInv DEF ServesInv, fields, channels, gens, stopping
  <1>11. CatalogInv'
    BY CatalogInv, Zenon
    DEF CatalogInv, Draining, fields, channels, locals, stopping
  <1>12. ListInv'  BY ListInv, Zenon DEF ListInv, channels, gens, locals, down
  <1>13. NoMissedChange'
    BY NoMissedChange, Zenon
    DEF NoMissedChange, fields, channels, gens, locals, down
  <1> HIDE DEF readyToolsChanged, readyRefresh
  <1> QED  BY <1>1, <1>2, <1>3, <1>4, <1>5, <1>6, <1>7, <1>8, <1>9, <1>10,
             <1>11, <1>12, <1>13, Zenon DEF IInv

(* refreshTools.                                                           *)
LEMMA RefreshStep ==
  ASSUME refreshSteps
  PROVE  IInv => IInv'
  <1>0. SUFFICES ASSUME TypeOK, LockInv, RevisionInv, CommitIsCurrent,
                        ReadyInv, SessionInv, OperationInv, StopInv,
                        UpdateInv, ServesInv, CatalogInv, ListInv,
                        NoMissedChange, LabelsOK, RevisionsOK, ToolsOK,
                        GenerationsOK, PointersOK
                 PROVE  IInv'
    BY Zenon DEF IInv, TypeOK
  <1>1. TypeOK'  BY TypeOK, RefreshType, Zenon
  <1> USE DEF refreshSteps, refreshList, refreshLock, refreshPublish,
             refreshDone, refreshStale, superseded, Reply
  <1>2. LockInv'  BY LockInv, Zenon DEF LockInv
  <1>3. RevisionInv'
    BY RevisionInv, RevisionsOK, SMTT(30)
    DEF RevisionInv, RevisionsOK, Desired, unset, fields, locals
  <1>4. CommitIsCurrent'
    BY CommitIsCurrent DEF CommitIsCurrent, fields, locals
  <1>5. ReadyInv'
    BY ReadyInv, Zenon
    DEF ReadyInv, AttemptLabels, ConnectLabels, IdleLabels, Draining, fields,
        locals
  <1>6. SessionInv'
    BY SessionInv, SMTT(30) DEF SessionInv, ReadyLabels, AttemptLabels, gens, locals
  <1>7. OperationInv'
    BY OperationInv, SMTT(30)
    DEF OperationInv, ReadyLabels, AttemptLabels, ConnectLabels, Draining,
        Connecting, Serving, fields, operation, locals, stopping
  <1>8. StopInv'  BY StopInv DEF StopInv, fields, gens, stopping
  <1>9. UpdateInv'
    BY UpdateInv, ZenonT(60) DEF UpdateInv, Draining, fields, locals, stopping
  <1>10. ServesInv'
    BY ServesInv, LockInv
    DEF ServesInv, LockInv, fields, channels, gens, stopping
  <1>11. CatalogInv'
    BY CatalogInv, CommitIsCurrent, RevisionInv, Zenon
    DEF CatalogInv, CommitIsCurrent, RevisionInv, Filter, Draining, fields,
        channels, locals, stopping
  <1>12. ListInv'  BY ListInv, Zenon DEF ListInv, channels, gens, locals, down
  <1>13. NoMissedChange'
    BY NoMissedChange, ListInv, CommitIsCurrent, Zenon
    DEF NoMissedChange, ListInv, CommitIsCurrent, fields, channels, gens,
        locals, down
  <1> HIDE DEF refreshSteps
  <1> QED  BY <1>1, <1>2, <1>3, <1>4, <1>5, <1>6, <1>7, <1>8, <1>9, <1>10,
             <1>11, <1>12, <1>13, Zenon DEF IInv

(* handleConnectFailure.                                                   *)
LEMMA FailureStep ==
  ASSUME failureSteps
  PROVE  IInv => IInv'
  <1>0. SUFFICES ASSUME TypeOK, LockInv, RevisionInv, CommitIsCurrent,
                        ReadyInv, SessionInv, OperationInv, StopInv,
                        UpdateInv, ServesInv, CatalogInv, ListInv,
                        NoMissedChange, LabelsOK, RevisionsOK, ToolsOK,
                        GenerationsOK, PointersOK
                 PROVE  IInv'
    BY Zenon DEF IInv, TypeOK
  <1>1. TypeOK'  BY TypeOK, FailureType, Zenon
  <1> USE DEF failureSteps, connectFailed, enterBackoff, backoffDelay,
             backoffReconcile, backoffRefresh, Goto, Reply
  <1>2. LockInv'  BY LockInv, Zenon DEF LockInv
  <1>3. RevisionInv'  BY RevisionInv, Zenon DEF RevisionInv, fields, locals
  <1>4. CommitIsCurrent'
    BY CommitIsCurrent, Zenon DEF CommitIsCurrent, fields, locals
  <1>5. ReadyInv'
    BY ReadyInv, Zenon
    DEF ReadyInv, AttemptLabels, ConnectLabels, IdleLabels, Draining, fields,
        locals
  <1>6. SessionInv'
    BY SessionInv DEF SessionInv, ReadyLabels, AttemptLabels, gens, locals
  <1>7. OperationInv'
    BY OperationInv, Zenon
    DEF OperationInv, ReadyLabels, AttemptLabels, ConnectLabels, Draining,
        Connecting, Serving, fields, operation, locals, stopping
  <1>8. StopInv'  BY StopInv DEF StopInv, fields, gens, stopping
  <1>9. UpdateInv'
    BY UpdateInv, Zenon DEF UpdateInv, Draining, fields, locals, stopping
  <1>10. ServesInv'
    BY ServesInv, ReadyInv, Zenon
    DEF ServesInv, ReadyInv, AttemptLabels, ConnectLabels, IdleLabels,
        Draining, fields, channels, gens, stopping
  <1>11. CatalogInv'
    BY CatalogInv, ReadyInv, Zenon
    DEF CatalogInv, ReadyInv, AttemptLabels, ConnectLabels, IdleLabels,
        Draining, fields, channels, locals, stopping
  <1>12. ListInv'  BY ListInv, Zenon DEF ListInv, channels, gens, locals, down
  <1>13. NoMissedChange'
    BY NoMissedChange, Zenon
    DEF NoMissedChange, fields, channels, gens, locals, down
  <1> HIDE DEF failureSteps
  <1> QED  BY <1>1, <1>2, <1>3, <1>4, <1>5, <1>6, <1>7, <1>8, <1>9, <1>10,
             <1>11, <1>12, <1>13, Zenon DEF IInv

-----------------------------------------------------------------------------
(* Stop, after its critical section.                                       *)
LEMMA StopStep ==
  ASSUME stopSteps
  PROVE  IInv => IInv'
  <1>0. SUFFICES ASSUME TypeOK, LockInv, RevisionInv, CommitIsCurrent,
                        ReadyInv, SessionInv, OperationInv, StopInv,
                        UpdateInv, ServesInv, CatalogInv, ListInv,
                        NoMissedChange, LabelsOK, RevisionsOK, ToolsOK,
                        GenerationsOK, PointersOK
                 PROVE  IInv'
    BY Zenon DEF IInv, TypeOK
  <1>1. TypeOK'  BY TypeOK, StopType, Zenon
  <1> USE DEF stopSteps, stopDrain, stopRetire, stopCancel, DrainStart, Retire
  <1>2. LockInv'  BY LockInv, Zenon DEF LockInv
  <1>3. RevisionInv'  BY RevisionInv, Zenon DEF RevisionInv, fields, locals
  <1>4. CommitIsCurrent'
    <2>1. UNCHANGED fields /\ UNCHANGED locals /\ UNCHANGED pc  BY Zenon
    <2> HIDE DEF stopSteps
    <2> QED  BY <2>1, CommitIsCurrent, Zenon DEF CommitIsCurrent, fields, locals
  <1>5. ReadyInv'
    BY ReadyInv, Zenon
    DEF ReadyInv, AttemptLabels, ConnectLabels, IdleLabels, Draining, fields,
        locals
  <1>6. SessionInv'
    BY SessionInv, GenerationsOK, SMTT(30)
    DEF SessionInv, GenerationsOK, ReadyLabels, AttemptLabels, gens, locals
  <1>7. OperationInv'
    BY OperationInv
    DEF OperationInv, ReadyLabels, AttemptLabels, ConnectLabels, Draining,
        Connecting, Serving, fields, operation, locals, stopping
  <1>8. StopInv'
    BY StopInv, GenerationsOK, Zenon
    DEF StopInv, GenerationsOK, fields, gens, stopping
  <1>9. UpdateInv'
    BY UpdateInv, Zenon DEF UpdateInv, Draining, fields, locals, stopping
  <1>10. ServesInv'
    BY ServesInv DEF ServesInv, fields, channels, gens, stopping
  <1>11. CatalogInv'
    BY CatalogInv, Zenon
    DEF CatalogInv, Draining, fields, channels, locals, stopping
  <1>12. ListInv'
    BY ListInv, PointersOK, GenerationsOK, ZenonT(60)
    DEF ListInv, PointersOK, GenerationsOK, channels, gens, locals, down
  <1>13. NoMissedChange'
    BY NoMissedChange, PointersOK, GenerationsOK
    DEF NoMissedChange, PointersOK, GenerationsOK, superseded, fields,
        channels, gens, locals, down
  <1> HIDE DEF stopSteps
  <1> QED  BY <1>1, <1>2, <1>3, <1>4, <1>5, <1>6, <1>7, <1>8, <1>9, <1>10,
             <1>11, <1>12, <1>13, Zenon DEF IInv

(* The Manager calls that lead to Stop.                                    *)
LEMMA ManageStep ==
  ASSUME manage
  PROVE  IInv => IInv'
  <1>0. SUFFICES ASSUME TypeOK, LockInv, RevisionInv, CommitIsCurrent,
                        ReadyInv, SessionInv, OperationInv, StopInv,
                        UpdateInv, ServesInv, CatalogInv, ListInv,
                        NoMissedChange, LabelsOK, RevisionsOK, ToolsOK,
                        GenerationsOK, PointersOK
                 PROVE  IInv'
    BY Zenon DEF IInv, TypeOK
  <1>1. TypeOK'  BY TypeOK, ManageType, Zenon
  <1> USE DEF manage, applyDrops, applyRemoveServer, managerStop,
             managerStops, Stop, stopBody
  <1>2. LockInv'  BY LockInv, Zenon DEF LockInv
  <1>3. RevisionInv'  BY RevisionInv, Zenon DEF RevisionInv, fields, locals
  <1>4. CommitIsCurrent'
    BY CommitIsCurrent, LockInv DEF CommitIsCurrent, LockInv, fields, locals
  <1>5. ReadyInv'
    BY ReadyInv, Zenon
    DEF ReadyInv, AttemptLabels, ConnectLabels, IdleLabels, Draining, fields,
        locals
  <1>6. SessionInv'
    BY SessionInv, GenerationsOK
    DEF SessionInv, GenerationsOK, ReadyLabels, AttemptLabels, gens, locals
  <1>7. OperationInv'
    BY OperationInv, ZenonT(60)
    DEF OperationInv, ReadyLabels, AttemptLabels, ConnectLabels, Draining,
        Connecting, Serving, fields, operation, locals, stopping
  <1>8. StopInv'
    BY StopInv, GenerationsOK
    DEF StopInv, GenerationsOK, fields, gens, stopping
  <1>9. UpdateInv'
    BY UpdateInv, Zenon DEF UpdateInv, Draining, fields, locals, stopping
  <1>10. ServesInv'
    BY ServesInv DEF ServesInv, fields, channels, gens, stopping
  <1>11. CatalogInv'
    BY CatalogInv, Zenon
    DEF CatalogInv, Draining, fields, channels, locals, stopping
  <1>12. ListInv'
    BY ListInv, PointersOK, GenerationsOK, ZenonT(60)
    DEF ListInv, PointersOK, GenerationsOK, channels, gens, locals, down
  <1>13. NoMissedChange'
    BY NoMissedChange, PointersOK, GenerationsOK
    DEF NoMissedChange, PointersOK, GenerationsOK, superseded, fields,
        channels, gens, locals, down
  <1> HIDE DEF manage
  <1> QED  BY <1>1, <1>2, <1>3, <1>4, <1>5, <1>6, <1>7, <1>8, <1>9, <1>10,
             <1>11, <1>12, <1>13, Zenon DEF IInv

(* UpdateConfig, under c.mu.                                               *)
LEMMA UpdateStep ==
  ASSUME NEW c \in Configs, UpdateConfig(c)
  PROVE  IInv => IInv'
  <1>0. SUFFICES ASSUME TypeOK, LockInv, RevisionInv, CommitIsCurrent,
                        ReadyInv, SessionInv, OperationInv, StopInv,
                        UpdateInv, ServesInv, CatalogInv, ListInv,
                        NoMissedChange, LabelsOK, RevisionsOK, ToolsOK,
                        GenerationsOK, PointersOK
                 PROVE  IInv'
    BY Zenon DEF IInv, TypeOK
  <1>1. TypeOK'  BY TypeOK, UpdateType, Zenon
  <1> USE DEF UpdateConfig
  <1>2. LockInv'  BY LockInv, ZenonT(60) DEF LockInv
  <1>3. RevisionInv'
    <2> DEFINE n == desired.rev
    <2>1. desired' = [rev |-> n + 1, cfg |-> c] /\ UNCHANGED tgt /\ UNCHANGED ref
      BY Zenon DEF locals
    <2>2. n \in Nat /\ tgt.rev \in Nat /\ ref.rev \in Nat
      BY RevisionsOK, Zenon DEF RevisionsOK, Desired
    <2>3. tgt.rev <= n /\ ref.rev <= n
      BY RevisionInv, Zenon DEF RevisionInv
    <2>4. desired'.rev = n + 1
      BY <2>1
    <2> HIDE DEF n, UpdateConfig
    <2>5. n + 1 # 0 /\ \A d \in {tgt, ref} : d.rev <= n + 1 /\ d.rev # n + 1
      BY <2>2, <2>3
    <2> QED  BY <2>1, <2>4, <2>5, Zenon DEF RevisionInv
  <1>4. CommitIsCurrent'
    BY CommitIsCurrent, LockInv, Zenon
    DEF CommitIsCurrent, LockInv, fields, locals
  <1>5. ReadyInv'
    BY ReadyInv, Zenon
    DEF ReadyInv, AttemptLabels, ConnectLabels, IdleLabels, Draining, fields,
        locals
  <1>6. SessionInv'
    BY SessionInv, Zenon
    DEF SessionInv, ReadyLabels, AttemptLabels, gens, locals
  <1>7. OperationInv'
    BY OperationInv, RevisionInv, RevisionsOK
    DEF OperationInv, RevisionInv, RevisionsOK, Desired, ReadyLabels,
        AttemptLabels, ConnectLabels, Draining, Connecting, Serving, fields,
        operation, locals, stopping
  <1>8. StopInv'  BY StopInv, Zenon DEF StopInv, fields, gens, stopping
  <1>9. UpdateInv'
    BY UpdateInv, ReadyInv, StopInv, Zenon
    DEF UpdateInv, ReadyInv, StopInv, AttemptLabels, ConnectLabels,
        IdleLabels, Draining, fields, locals, stopping
  <1>10. ServesInv'
    BY ServesInv, DiffConfig, Zenon
    DEF ServesInv, Changes, fields, channels, gens, stopping
  <1>11. CatalogInv'
    BY CatalogInv, DiffConfig, Zenon
    DEF CatalogInv, Changes, Draining, fields, channels, locals, stopping
  <1>12. ListInv'  BY ListInv, Zenon DEF ListInv, channels, gens, locals, down
  <1>13. NoMissedChange'
    BY NoMissedChange, Zenon
    DEF NoMissedChange, superseded, fields, channels, gens, locals, down
  <1> HIDE DEF UpdateConfig
  <1> QED  BY <1>1, <1>2, <1>3, <1>4, <1>5, <1>6, <1>7, <1>8, <1>9, <1>10,
             <1>11, <1>12, <1>13, Zenon DEF IInv

(* UpdateConfig, after c.mu.                                               *)
LEMMA UpdateRestStep ==
  ASSUME updateRest
  PROVE  IInv => IInv'
  <1>0. SUFFICES ASSUME TypeOK, LockInv, RevisionInv, CommitIsCurrent,
                        ReadyInv, SessionInv, OperationInv, StopInv,
                        UpdateInv, ServesInv, CatalogInv, ListInv,
                        NoMissedChange, LabelsOK, RevisionsOK, ToolsOK,
                        GenerationsOK, PointersOK
                 PROVE  IInv'
    BY Zenon DEF IInv, TypeOK
  <1>1. TypeOK'  BY TypeOK, UpdateRestType, Zenon
  <1> USE DEF updateRest, needsReconcile
  <1>2. LockInv'  BY LockInv, Zenon DEF LockInv
  <1>3. RevisionInv'  BY RevisionInv, Zenon DEF RevisionInv, fields, locals
  <1>4. CommitIsCurrent'
    BY CommitIsCurrent, Zenon DEF CommitIsCurrent, fields, locals
  <1>5. ReadyInv'
    BY ReadyInv, Zenon
    DEF ReadyInv, AttemptLabels, ConnectLabels, IdleLabels, Draining, fields,
        locals
  <1>6. SessionInv'
    BY SessionInv, Zenon
    DEF SessionInv, ReadyLabels, AttemptLabels, gens, locals
  <1>7. OperationInv'
    BY OperationInv, Zenon
    DEF OperationInv, ReadyLabels, AttemptLabels, ConnectLabels, Draining,
        Connecting, Serving, fields, operation, locals, stopping
  <1>8. StopInv'  BY StopInv, Zenon DEF StopInv, fields, gens, stopping
  <1>9. UpdateInv'
    BY UpdateInv, Zenon DEF UpdateInv, Draining, fields, locals, stopping
  <1>10. ServesInv'
    <2> USE ServesInv, ReadyInv
        DEF ServesInv, ReadyInv, fields, channels, gens, stopping
    <2> SUFFICES ASSUME state = "ready", ~reconcileCh,
                        upd.change # "connection"
                 PROVE  /\ desired.cfg.enabled
                        /\ conn[currentGen] = desired.cfg.conn
                        /\ callTimeout'[currentGen] = desired.cfg.callTimeout
      BY Zenon
    <2>1. desired.cfg.enabled /\ conn[currentGen] = desired.cfg.conn
      BY Zenon
    <2>2. CASE upd.change \in {"timeout", "toolsAndTimeout"}
      <3>1. upd.gen = currentGen /\ currentGen \in Gens /\ currentGen # NoGen
        BY UpdateInv, NilAssumption, Zenon DEF UpdateInv
      <3> QED  BY <2>1, <2>2, <3>1, GenerationsOK, Zenon DEF GenerationsOK
    <2>3. CASE upd.change \notin {"timeout", "toolsAndTimeout"}  BY <2>1, <2>3, Zenon
    <2> QED  BY <2>2, <2>3, Zenon
  <1>11. CatalogInv'
    BY CatalogInv, UpdateInv, LockInv, Zenon
    DEF CatalogInv, UpdateInv, LockInv, Filter, Draining, fields, channels,
        locals, stopping
  <1>12. ListInv'  BY ListInv, Zenon DEF ListInv, channels, gens, locals, down
  <1>13. NoMissedChange'
    BY NoMissedChange, Zenon
    DEF NoMissedChange, superseded, fields, channels, gens, locals, down
  <1> HIDE DEF updateRest
  <1> QED  BY <1>1, <1>2, <1>3, <1>4, <1>5, <1>6, <1>7, <1>8, <1>9, <1>10,
             <1>11, <1>12, <1>13, Zenon DEF IInv

(* The parent context, the sessions and the downstream.                    *)
LEMMA WorldStep ==
  ASSUME world
  PROVE  IInv => IInv'
  <1>0. SUFFICES ASSUME TypeOK, LockInv, RevisionInv, CommitIsCurrent,
                        ReadyInv, SessionInv, OperationInv, StopInv,
                        UpdateInv, ServesInv, CatalogInv, ListInv,
                        NoMissedChange, LabelsOK, RevisionsOK, ToolsOK,
                        GenerationsOK, PointersOK
                 PROVE  IInv'
    BY Zenon DEF IInv, TypeOK
  <1>1. TypeOK'  BY TypeOK, WorldType, Zenon
  <1> USE DEF fields, operation, channels, gens, locals, stopping, requests,
             down, world, parentCancel, sessionDies, downstreamChanges,
             sessionUp, onToolListChanged
  <1>2. UNCHANGED <<fields, operation, reconcileCh, admission, open, conn,
                  callTimeout, pc, locals, publishMu, published, spc, sgen,
                  mpc, removed, upd>>
    BY ZenonT(60)
  <1>3. SessionInv'
    BY SessionInv, GenerationsOK
    DEF SessionInv, GenerationsOK, ReadyLabels, AttemptLabels
  <1>4. ListInv'
    BY ListInv, SessionInv, PointersOK, ZenonT(60)
    DEF ListInv, SessionInv, PointersOK, ReadyLabels, AttemptLabels
  <1>5. NoMissedChange'
    BY NoMissedChange, SessionInv, PointersOK, GenerationsOK
    DEF NoMissedChange, SessionInv, PointersOK, GenerationsOK, superseded,
        ReadyLabels, AttemptLabels
  <1> HIDE DEF world
  <1>6. LockInv'  BY <1>2, LockInv, Zenon DEF LockInv
  <1>7. RevisionInv'  BY <1>2, RevisionInv, Zenon DEF RevisionInv
  <1>8. CommitIsCurrent'  BY <1>2, CommitIsCurrent, Zenon DEF CommitIsCurrent
  <1>9. ReadyInv'  BY <1>2, ReadyInv, Zenon DEF ReadyInv, Draining
  <1>10. OperationInv'
    BY <1>2, OperationInv, Zenon DEF OperationInv, Connecting, Serving, Draining
  <1>11. StopInv'  BY <1>2, StopInv, Zenon DEF StopInv
  <1>12. UpdateInv'  BY <1>2, UpdateInv, Zenon DEF UpdateInv, Draining
  <1>13. ServesInv'  BY <1>2, ServesInv, Zenon DEF ServesInv
  <1>14. CatalogInv'  BY <1>2, CatalogInv, Zenon DEF CatalogInv, Draining
  <1> QED  BY <1>1, <1>3, <1>4, <1>5, <1>6, <1>7, <1>8, <1>9, <1>10, <1>11,
             <1>12, <1>13, <1>14, Zenon DEF IInv

(* Callers of Refresh, and stuttering.                                     *)
LEMMA CallerStep ==
  ASSUME (\E r \in Refreshers : caller(r)) \/ UNCHANGED vars
  PROVE  IInv => IInv'
  <1>0. SUFFICES ASSUME TypeOK, LockInv, RevisionInv, CommitIsCurrent,
                        ReadyInv, SessionInv, OperationInv, StopInv,
                        UpdateInv, ServesInv, CatalogInv, ListInv,
                        NoMissedChange, LabelsOK, RevisionsOK, ToolsOK,
                        GenerationsOK, PointersOK
                 PROVE  IInv'
    BY Zenon DEF IInv, TypeOK
  <1>1. TypeOK'  BY TypeOK, CallerType, Zenon
  <1> USE DEF fields, operation, channels, gens, locals, stopping, requests,
             down, caller, Refresh, refreshSend, refreshReturn,
             refreshGivesUp, vars
  <1>2. UNCHANGED <<fields, operation, reconcileCh, toolChangedCh, gens, pc, locals,
                  publishMu, published, stopping, down>>
    BY Zenon
  <1> HIDE DEF caller, vars
  <1>3. LockInv'  BY <1>2, LockInv, Zenon DEF LockInv
  <1>4. RevisionInv'  BY <1>2, RevisionInv, Zenon DEF RevisionInv
  <1>5. CommitIsCurrent'  BY <1>2, CommitIsCurrent, Zenon DEF CommitIsCurrent
  <1>6. ReadyInv'  BY <1>2, ReadyInv, Zenon DEF ReadyInv, Draining
  <1>7. SessionInv'  BY <1>2, SessionInv, Zenon DEF SessionInv
  <1>8. OperationInv'
    BY <1>2, OperationInv, Zenon DEF OperationInv, Connecting, Serving, Draining
  <1>9. StopInv'  BY <1>2, StopInv, Zenon DEF StopInv
  <1>10. UpdateInv'  BY <1>2, UpdateInv, Zenon DEF UpdateInv, Draining
  <1>11. ServesInv'  BY <1>2, ServesInv, Zenon DEF ServesInv
  <1>12. CatalogInv'  BY <1>2, CatalogInv, Zenon DEF CatalogInv, Draining
  <1>13. ListInv'  BY <1>2, ListInv, Zenon DEF ListInv
  <1>14. NoMissedChange'
    BY <1>2, NoMissedChange, Zenon DEF NoMissedChange, superseded
  <1> QED  BY <1>1, <1>3, <1>4, <1>5, <1>6, <1>7, <1>8, <1>9, <1>10, <1>11,
             <1>12, <1>13, <1>14, Zenon DEF IInv

LEMMA InitIInv == Init => IInv
  <1> SUFFICES ASSUME Init PROVE IInv  BY Zenon
  <1>1. TypeOK  BY InitType, Zenon
  <1>3. RevisionInv
    <2>1. PICK c \in Configs : desired = [rev |-> 1, cfg |-> c]  BY Zenon DEF Init
    <2>2. desired.rev = 1  BY <2>1, Zenon
    <2>3. tgt.rev = 0 /\ ref.rev = 0  BY Zenon DEF Init, unset
    <2>4. \A d \in {tgt, ref} : d.rev = 0  BY <2>3, Zenon
    <2>5. 1 # 0 /\ 0 <= 1  BY SMT
    <2> QED  BY <2>2, <2>4, <2>5, Zenon DEF RevisionInv
  <1> USE DEF Init
  <1>2. LockInv /\ CommitIsCurrent /\ UpdateInv /\ ListInv /\ NoMissedChange
    BY ZenonT(60) DEF LockInv, CommitIsCurrent, UpdateInv, ListInv, NoMissedChange
  <1>4. ReadyInv
    BY Zenon DEF ReadyInv, ConnectLabels, AttemptLabels, IdleLabels, Draining
  <1>5. SessionInv  BY Zenon DEF SessionInv, AttemptLabels
  <1>6. StopInv  BY Zenon DEF StopInv
  <1>7. OperationInv
    BY Zenon DEF OperationInv, Connecting, Serving, ConnectLabels, AttemptLabels,
           ReadyLabels, Draining
  <1>8. ServesInv /\ CatalogInv  BY Zenon DEF ServesInv, CatalogInv, Draining
  <1> QED  BY <1>1, <1>2, <1>3, <1>4, <1>5, <1>6, <1>7, <1>8, Zenon DEF IInv

LEMMA NextIInv == IInv /\ [Next]_vars => IInv'
  <1> SUFFICES ASSUME IInv, [Next]_vars PROVE IInv'  BY Zenon
  <1>1. CASE runLoop \/ runPick \/ runExit \/ runExited  BY <1>1, LoopStep, Zenon
  <1>2. CASE runDrain \/ runRetire  BY <1>2, DrainStep, Zenon
  <1>3. CASE disabledSteps  BY <1>3, DisabledStep, Zenon
  <1>4. CASE connectStart \/ drainAndCloseOldGen \/ limiterSelect
    BY <1>4, ConnectStep, Zenon
  <1>5. CASE createSession \/ checkTarget \/ discover \/ connectError
    BY <1>5, AttemptStep, Zenon
  <1>6. CASE lockPublish \/ publishDiscovered \/ leave  BY <1>6, PublishStep, Zenon
  <1>7. CASE commit  BY <1>7, CommitStep, Zenon
  <1>8. CASE readyReconcile \/ readyTick \/ readyCancelled  BY <1>8, ReadyStep, Zenon
  <1>9. CASE readyToolsChanged \/ readyRefresh  BY <1>9, ReadyRefreshStep, Zenon
  <1>10. CASE refreshSteps  BY <1>10, RefreshStep, Zenon
  <1>11. CASE failureSteps  BY <1>11, FailureStep, Zenon
  <1>12. CASE stopSteps  BY <1>12, StopStep, Zenon
  <1>13. CASE manage  BY <1>13, ManageStep, Zenon
  <1>14. CASE \E c \in Configs : UpdateConfig(c)  BY <1>14, UpdateStep, Zenon
  <1>15. CASE updateRest  BY <1>15, UpdateRestStep, Zenon
  <1>16. CASE world  BY <1>16, WorldStep, Zenon
  <1>17. CASE (\E r \in Refreshers : caller(r)) \/ UNCHANGED vars
    BY <1>17, CallerStep, Zenon
  <1> QED  BY <1>1, <1>2, <1>3, <1>4, <1>5, <1>6, <1>7, <1>8, <1>9, <1>10,
             <1>11, <1>12, <1>13, <1>14, <1>15, <1>16, <1>17, Zenon DEF Next, run,
             loopSteps, connectSteps, publishSteps, readySteps

(* The inductive invariant holds in every reachable state.                 *)
THEOREM Inductive == Spec => []IInv
  <1>1. Init => IInv  BY InitIInv, Zenon
  <1>2. IInv /\ [Next]_vars => IInv'  BY NextIInv, Zenon
  <1> QED  BY <1>1, <1>2, PTL DEF Spec

(* No discovery or refresh is published for a revision that is not the     *)
(* desired one, or after Stop; the rollback in the commit never runs       *)
(* (coordinator.go: handleConnectingAndReady, refreshTools, UpdateConfig). *)
THEOREM CommitsAreCurrent == Spec => []CommitIsCurrent
  <1>1. IInv => CommitIsCurrent  BY Zenon DEF IInv
  <1> QED  BY <1>1, Inductive, PTL

(* The catalog of a ready server is its tool list through the desired      *)
(* filter, whoever published last (coordinator.go: UpdateConfig,           *)
(* handleConnectingAndReady, refreshTools).                                *)
THEOREM CatalogFollowsDesired == Spec => []PublishedMatchesDesired
  <1>1. IInv => PublishedMatchesDesired
    BY Zenon DEF IInv, CatalogInv, PublishedMatchesDesired
  <1> QED  BY <1>1, Inductive, PTL

(* A ready generation has the desired connection settings and timeout, or  *)
(* its replacement is pending (coordinator.go: UpdateConfig, readyLoop).   *)
THEOREM ReadyIsDesired == Spec => []ReadyServesDesired
  <1>1. IInv => ReadyServesDesired
    BY Zenon DEF IInv, ServesInv, ReadyServesDesired
  <1> QED  BY <1>1, Inductive, PTL

(* Break before make, for any number of reconnections, with Stop and run   *)
(* draining at the same time (coordinator.go: drainAndCloseOldGen,         *)
(* readyLoop, Stop).                                                       *)
THEOREM BreakBeforeMake == Spec => []OneInstance
  <1>1. IInv => OneInstance
    BY Zenon DEF IInv, SessionInv, OneInstance, ReadyLabels, AttemptLabels
  <1> QED  BY <1>1, Inductive, PTL

(* The context a session lives on is nobody's to cancel while the session  *)
(* serves or drains the calls it admitted (coordinator.go:                 *)
(* handleConnectingAndReady, UpdateConfig, Stop).                          *)
THEOREM ContextIsDisowned == Spec => []SessionKeepsItsContext
  <1>1. IInv => SessionKeepsItsContext
    BY Zenon DEF IInv, OperationInv, SessionKeepsItsContext, Serving, Draining,
           ReadyLabels
  <1> QED  BY <1>1, Inductive, PTL

(* A disabled server has no tools in the catalog and no session            *)
(* (coordinator.go: handleDisabled).                                       *)
THEOREM DisabledLeavesNothing == Spec => []DisabledIsGone
  <1>1. IInv => DisabledIsGone
    BY Zenon DEF IInv, SessionInv, CatalogInv, DisabledIsGone, ReadyLabels, AttemptLabels
  <1> QED  BY <1>1, Inductive, PTL

(* No lease after Stop has begun, although run goes on writing c.state     *)
(* (coordinator.go: Stop, AcquireLease, readyLoop).                        *)
THEOREM StopIsFinal == Spec => []StopClosesAdmission
  <1>1. IInv => StopClosesAdmission
    BY NilAssumption, Zenon DEF IInv, StopInv, StopClosesAdmission
  <1> QED  BY <1>1, Inductive, PTL

(* When run and Stop have ended, no session is open (coordinator.go: run,  *)
(* Stop, closeAttempt).                                                    *)
THEOREM NoSessionLeak == Spec => []NothingLeaks
  <1>1. IInv => NothingLeaks
    BY Zenon DEF IInv, SessionInv, NothingLeaks, ReadyLabels, AttemptLabels
  <1> QED  BY <1>1, Inductive, PTL

(* A tools/list_changed that comes in the middle of a discovery or refresh *)
(* is never lost (coordinator.go: onToolListChanged, readyLoop).           *)
THEOREM ChangesAreSeen == Spec => []NoMissedChange
  <1>1. IInv => NoMissedChange  BY Zenon DEF IInv
  <1> QED  BY <1>1, Inductive, PTL

(* Nothing enters the catalog after Stop has begun, and after a removal    *)
(* has begun only what run is publishing under publishMu (coordinator.go:  *)
(* Stop, UpdateConfig, refreshTools; manager.go: Apply).                   *)
THEOREM StoppedPublishesNothing == Spec => NoPublishAfterStop
  <1>1. ASSUME IInv, [Next]_vars, published' \notin {published, {}}
        PROVE  ~stopped /\ (publishMu = "run" \/ mpc = "serving")
    <2> USE <1>1 DEF IInv
    <2>1. CASE publishSteps
      BY <2>1, Zenon DEF CommitIsCurrent, LockInv, publishSteps, lockPublish,
             publishDiscovered, disownStartup, Free, leave, Goto,
             targetCurrent, commit, install
    <2>2. CASE refreshSteps
      BY <2>2, Zenon DEF CommitIsCurrent, LockInv, refreshSteps, refreshList, refreshLock,
             refreshPublish, refreshDone, refreshStale, superseded, Reply
    <2>3. CASE updateRest
      BY <2>3, Zenon DEF UpdateInv, updateRest, needsReconcile
    <2>4. CASE loopSteps \/ disabledSteps
      BY <2>4, Zenon DEF loopSteps, runLoop, runPick, runExit, runExited, Goto, Stop,
             stopBody, runDrain, runRetire, DrainStart, Retire, disabledSteps,
             handleDisabled, disabledUnpublish, disabledWait, Reply
    <2>5. CASE connectSteps
      BY <2>5, Zenon DEF connectSteps, connectStart, drainAndCloseOldGen,
             limiterSelect, Goto, createSession, checkTarget, discover,
             connectError, targetCurrent
    <2>6. CASE readySteps \/ failureSteps
      BY <2>6, Zenon DEF readySteps, readyReconcile, readyTick, readyCancelled, Goto,
             readyToolsChanged, readyRefresh, refreshStart, refreshDone,
             superseded, Reply, failureSteps, connectFailed, enterBackoff,
             backoffDelay, backoffReconcile, backoffRefresh
    <2>7. CASE stopSteps \/ manage \/ world
      BY <2>7, Zenon DEF stopSteps, stopDrain, stopRetire, stopCancel, DrainStart,
             Retire, manage, applyDrops, applyRemoveServer, managerStop,
             managerStops, Stop, stopBody, world, parentCancel, sessionDies,
             downstreamChanges, sessionUp, onToolListChanged
    <2>8. CASE \E c \in Configs : UpdateConfig(c)
      BY <2>8, Zenon DEF UpdateConfig
    <2>9. CASE (\E r \in Refreshers : caller(r)) \/ UNCHANGED vars
      BY <2>9, Zenon DEF caller, Refresh, refreshSend, refreshReturn, refreshGivesUp,
             vars
    <2> QED  BY <2>1, <2>2, <2>3, <2>4, <2>5, <2>6, <2>7, <2>8, <2>9, Zenon DEF Next,
               run
  <1>2. IInv /\ [Next]_vars =>
            [published' \notin {published, {}} =>
                 ~stopped /\ (publishMu = "run" \/ mpc = "serving")]_vars
    BY <1>1, Zenon
  <1> QED  BY <1>2, Inductive, PTL DEF Spec, NoPublishAfterStop
=============================================================================
