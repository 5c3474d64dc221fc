-------------------------- MODULE CoordinatorTypes --------------------------
(***************************************************************************)
(* Type correctness of Coordinator, for any tools, settings,               *)
(* configurations, generations, callers of Refresh and number of           *)
(* revisions: one lemma per part of the code, one step per part of TypeOK. *)
(***************************************************************************)
EXTENDS Coordinator, TLAPS

(* What diffConfig says about the settings it does not name.               *)
LEMMA DiffConfig ==
  ASSUME NEW old, NEW new
  PROVE  LET d == diffConfig(old, new)
         IN  /\ d \in Changes
             /\ d # "connection" => old.enabled = new.enabled /\ old.conn = new.conn
             /\ d \in {"tools", "none"} => old.callTimeout = new.callTimeout
             /\ d \in {"timeout", "none"} => old.disabled = new.disabled
  BY Zenon DEF diffConfig, hotChange, Changes

(* run: the loop and the way out.                                          *)
LEMMA LoopType ==
  ASSUME TypeOK, runLoop \/ runPick \/ runExit \/ runExited
  PROVE  TypeOK'
  <1> SUFFICES ASSUME FlagsOK, LabelsOK, RevisionsOK, ToolsOK, GenerationsOK,
                      PointersOK, RequestsOK
               PROVE  TypeOK'
    BY Zenon DEF TypeOK
  <1> USE DEF runLoop, runPick, runExit, runExited, Goto, Stop, stopBody
  <1>1. FlagsOK'
    <2>1. stopped' \in BOOLEAN /\ ctxDone' \in BOOLEAN
      BY Zenon DEF FlagsOK, fields, stopping
    <2>2. operationCancel' \in BOOLEAN /\ opDone' \in BOOLEAN
      BY Zenon DEF FlagsOK, operation
    <2>3. reconcileCh' \in BOOLEAN /\ toolChangedCh' \in BOOLEAN
      BY Zenon DEF FlagsOK, channels
    <2>4. attempt' \in BOOLEAN /\ removed' \in BOOLEAN
      BY Zenon DEF FlagsOK, locals, stopping
    <2>5. note' \in BOOLEAN /\ refreshDropped' \in BOOLEAN
      BY Zenon DEF FlagsOK, down
    <2> QED  BY <2>1, <2>2, <2>3, <2>4, <2>5, Zenon DEF FlagsOK
  <1>2. LabelsOK'
    BY Zenon DEF LabelsOK, States, Labels, fields, locals, stopping
  <1>3. RevisionsOK'
    BY Zenon
    DEF RevisionsOK, fields, operation, channels, gens, locals, stopping,
        requests, down
  <1>4. ToolsOK'  BY Zenon DEF ToolsOK, fields, locals, down
  <1>5. GenerationsOK'  BY Zenon DEF GenerationsOK, gens
  <1>6. PointersOK'
    BY Zenon DEF PointersOK, LabelsOK, fields, locals, stopping
  <1>7. RequestsOK'  BY Zenon DEF RequestsOK, channels, locals, requests
  <1> HIDE DEF runLoop, runPick, runExit, runExited
  <1> QED  BY <1>1, <1>2, <1>3, <1>4, <1>5, <1>6, <1>7, Zenon DEF TypeOK

(* run: the drains.                                                        *)
LEMMA DrainType ==
  ASSUME TypeOK, runDrain \/ runRetire
  PROVE  TypeOK'
  <1> SUFFICES ASSUME FlagsOK, LabelsOK, RevisionsOK, ToolsOK, GenerationsOK,
                      PointersOK, RequestsOK
               PROVE  TypeOK'
    BY Zenon DEF TypeOK
  <1> USE DEF runDrain, runRetire, Goto, DrainStart, Retire
  <1>1. FlagsOK'
    <2>1. stopped' \in BOOLEAN /\ ctxDone' \in BOOLEAN
      BY Zenon DEF FlagsOK, fields, stopping
    <2>2. operationCancel' \in BOOLEAN /\ opDone' \in BOOLEAN
      BY Zenon DEF FlagsOK, operation
    <2>3. reconcileCh' \in BOOLEAN /\ toolChangedCh' \in BOOLEAN
      BY Zenon DEF FlagsOK, channels
    <2>4. attempt' \in BOOLEAN /\ removed' \in BOOLEAN
      BY Zenon DEF FlagsOK, locals, stopping
    <2>5. note' \in BOOLEAN /\ refreshDropped' \in BOOLEAN
      BY Zenon DEF FlagsOK, down
    <2> QED  BY <2>1, <2>2, <2>3, <2>4, <2>5, Zenon DEF FlagsOK
  <1>2. LabelsOK'
    BY Zenon DEF LabelsOK, States, Labels, fields, locals, stopping
  <1>3. RevisionsOK'
    BY Zenon
    DEF RevisionsOK, fields, operation, channels, gens, locals, stopping,
        requests, down
  <1>4. ToolsOK'  BY Zenon DEF ToolsOK, fields, locals, down
  <1>5. GenerationsOK'  BY Zenon DEF GenerationsOK, gens
  <1>6. PointersOK'
    BY Zenon DEF PointersOK, LabelsOK, fields, locals, stopping
  <1>7. RequestsOK'  BY Zenon DEF RequestsOK, channels, locals, requests
  <1> HIDE DEF runDrain, runRetire
  <1> QED  BY <1>1, <1>2, <1>3, <1>4, <1>5, <1>6, <1>7, Zenon DEF TypeOK

(* handleDisabled.                                                         *)
LEMMA DisabledType ==
  ASSUME TypeOK, disabledSteps
  PROVE  TypeOK'
  <1> SUFFICES ASSUME FlagsOK, LabelsOK, RevisionsOK, ToolsOK, GenerationsOK,
                      PointersOK, RequestsOK
               PROVE  TypeOK'
    BY Zenon DEF TypeOK
  <1> USE DEF disabledSteps, handleDisabled, disabledUnpublish, disabledWait,
             Goto, Reply
  <1>1. FlagsOK'
    <2>1. stopped' \in BOOLEAN /\ ctxDone' \in BOOLEAN
      BY Zenon DEF FlagsOK, fields, stopping
    <2>2. operationCancel' \in BOOLEAN /\ opDone' \in BOOLEAN
      BY Zenon DEF FlagsOK, operation
    <2>3. reconcileCh' \in BOOLEAN /\ toolChangedCh' \in BOOLEAN
      BY Zenon DEF FlagsOK, channels
    <2>4. attempt' \in BOOLEAN /\ removed' \in BOOLEAN
      BY Zenon DEF FlagsOK, locals, stopping
    <2>5. note' \in BOOLEAN /\ refreshDropped' \in BOOLEAN
      BY Zenon DEF FlagsOK, down
    <2> QED  BY <2>1, <2>2, <2>3, <2>4, <2>5, Zenon DEF FlagsOK
  <1>2. LabelsOK'
    BY Zenon DEF LabelsOK, States, Labels, fields, locals, stopping
  <1>3. RevisionsOK'
    BY Zenon
    DEF RevisionsOK, fields, operation, channels, gens, locals, stopping,
        requests, down
  <1>4. ToolsOK'  BY Zenon DEF ToolsOK, fields, locals, down
  <1>5. GenerationsOK'  BY Zenon DEF GenerationsOK, gens
  <1>6. PointersOK'  BY Zenon DEF PointersOK, fields, locals, stopping
  <1>7. RequestsOK'  BY Zenon DEF RequestsOK, channels, locals, requests
  <1> HIDE DEF disabledSteps
  <1> QED  BY <1>1, <1>2, <1>3, <1>4, <1>5, <1>6, <1>7, Zenon DEF TypeOK

(* handleConnectingAndReady, up to the attempt.                            *)
LEMMA ConnectType ==
  ASSUME TypeOK, connectStart \/ drainAndCloseOldGen \/ limiterSelect
  PROVE  TypeOK'
  <1> SUFFICES ASSUME FlagsOK, LabelsOK, RevisionsOK, ToolsOK, GenerationsOK,
                      PointersOK, RequestsOK
               PROVE  TypeOK'
    BY Zenon DEF TypeOK
  <1> USE DEF connectStart, drainAndCloseOldGen, limiterSelect, Goto
  <1>1. FlagsOK'
    <2>1. stopped' \in BOOLEAN /\ ctxDone' \in BOOLEAN
      BY Zenon DEF FlagsOK, fields, stopping
    <2>2. operationCancel' \in BOOLEAN /\ opDone' \in BOOLEAN
      BY Zenon DEF FlagsOK, operation
    <2>3. reconcileCh' \in BOOLEAN /\ toolChangedCh' \in BOOLEAN
      BY Zenon DEF FlagsOK, channels
    <2>4. attempt' \in BOOLEAN /\ removed' \in BOOLEAN
      BY Zenon DEF FlagsOK, locals, stopping
    <2>5. note' \in BOOLEAN /\ refreshDropped' \in BOOLEAN
      BY Zenon DEF FlagsOK, down
    <2> QED  BY <2>1, <2>2, <2>3, <2>4, <2>5, Zenon DEF FlagsOK
  <1>2. LabelsOK'
    BY Zenon DEF LabelsOK, States, Labels, fields, locals, stopping
  <1>3. RevisionsOK'
    BY Zenon
    DEF RevisionsOK, Desired, fields, operation, channels, gens, locals,
        stopping, requests, down
  <1>4. ToolsOK'  BY Zenon DEF ToolsOK, fields, locals, down
  <1>5. GenerationsOK'  BY Zenon DEF GenerationsOK, gens
  <1>6. PointersOK'  BY Zenon DEF PointersOK, fields, locals, stopping
  <1>7. RequestsOK'  BY Zenon DEF RequestsOK, channels, locals, requests
  <1> HIDE DEF connectStart, drainAndCloseOldGen, limiterSelect
  <1> QED  BY <1>1, <1>2, <1>3, <1>4, <1>5, <1>6, <1>7, Zenon DEF TypeOK

(* handleConnectingAndReady, from the attempt to the discovery.            *)
LEMMA AttemptType ==
  ASSUME TypeOK, createSession \/ checkTarget \/ discover \/ connectError
  PROVE  TypeOK'
  <1> SUFFICES ASSUME FlagsOK, LabelsOK, RevisionsOK, ToolsOK, GenerationsOK,
                      PointersOK, RequestsOK
               PROVE  TypeOK'
    BY Zenon DEF TypeOK
  <1> USE DEF createSession, checkTarget, discover, connectError, Goto,
             targetCurrent
  <1>1. FlagsOK'
    <2>1. stopped' \in BOOLEAN /\ ctxDone' \in BOOLEAN
      BY Zenon DEF FlagsOK, fields, stopping
    <2>2. operationCancel' \in BOOLEAN /\ opDone' \in BOOLEAN
      BY Zenon DEF FlagsOK, operation
    <2>3. reconcileCh' \in BOOLEAN /\ toolChangedCh' \in BOOLEAN
      BY Zenon DEF FlagsOK, channels
    <2>4. attempt' \in BOOLEAN /\ removed' \in BOOLEAN
      BY Zenon DEF FlagsOK, locals, stopping
    <2>5. note' \in BOOLEAN /\ refreshDropped' \in BOOLEAN
      BY Zenon DEF FlagsOK, down
    <2> QED  BY <2>1, <2>2, <2>3, <2>4, <2>5, Zenon DEF FlagsOK
  <1>2. LabelsOK'
    BY Zenon DEF LabelsOK, States, Labels, fields, locals, stopping
  <1>3. RevisionsOK'
    BY Zenon
    DEF RevisionsOK, Desired, fields, operation, channels, gens, locals,
        stopping, requests, down
  <1>4. ToolsOK'  BY Zenon DEF ToolsOK, fields, locals, down
  <1>5. GenerationsOK'  BY Zenon DEF GenerationsOK, gens
  <1>6. PointersOK'  BY Zenon DEF PointersOK, fields, locals, stopping
  <1>7. RequestsOK'  BY Zenon DEF RequestsOK, channels, locals, requests
  <1> HIDE DEF createSession, checkTarget, discover, connectError
  <1> QED  BY <1>1, <1>2, <1>3, <1>4, <1>5, <1>6, <1>7, Zenon DEF TypeOK

(* handleConnectingAndReady, from publishMu on, and its deferred leave.    *)
LEMMA PublishType ==
  ASSUME TypeOK, lockPublish \/ publishDiscovered \/ leave
  PROVE  TypeOK'
  <1> SUFFICES ASSUME FlagsOK, LabelsOK, RevisionsOK, ToolsOK, GenerationsOK,
                      PointersOK, RequestsOK
               PROVE  TypeOK'
    BY Zenon DEF TypeOK
  <1> USE DEF lockPublish, publishDiscovered, disownStartup, Free, leave,
             Goto, targetCurrent
  <1>1. FlagsOK'
    <2>1. stopped' \in BOOLEAN /\ ctxDone' \in BOOLEAN
      BY Zenon DEF FlagsOK, fields, stopping
    <2>2. operationCancel' \in BOOLEAN /\ opDone' \in BOOLEAN
      BY Zenon DEF FlagsOK, operation
    <2>3. reconcileCh' \in BOOLEAN /\ toolChangedCh' \in BOOLEAN
      BY Zenon DEF FlagsOK, channels
    <2>4. attempt' \in BOOLEAN /\ removed' \in BOOLEAN
      BY Zenon DEF FlagsOK, locals, stopping
    <2>5. note' \in BOOLEAN /\ refreshDropped' \in BOOLEAN
      BY Zenon DEF FlagsOK, down
    <2> QED  BY <2>1, <2>2, <2>3, <2>4, <2>5, Zenon DEF FlagsOK
  <1>2. LabelsOK'
    BY Zenon DEF LabelsOK, States, Labels, fields, locals, stopping
  <1>3. RevisionsOK'
    BY ConfigsAssumption
    DEF RevisionsOK, Desired, unset, fields, operation, channels, gens,
        locals, stopping, requests, down
  <1>4. ToolsOK'  BY Zenon DEF ToolsOK, Filter, fields, locals, down
  <1>5. GenerationsOK'
    BY Zenon DEF GenerationsOK, RevisionsOK, Desired, ConfigType, gens
  <1>6. PointersOK'  BY Zenon DEF PointersOK, fields, locals, stopping
  <1>7. RequestsOK'  BY Zenon DEF RequestsOK, channels, locals, requests
  <1> HIDE DEF lockPublish, publishDiscovered, leave
  <1> QED  BY <1>1, <1>2, <1>3, <1>4, <1>5, <1>6, <1>7, Zenon DEF TypeOK

(* handleConnectingAndReady, the commit.                                   *)
LEMMA CommitType ==
  ASSUME TypeOK, commit
  PROVE  TypeOK'
  <1> SUFFICES ASSUME FlagsOK, LabelsOK, RevisionsOK, ToolsOK, GenerationsOK,
                      PointersOK, RequestsOK
               PROVE  TypeOK'
    BY Zenon DEF TypeOK
  <1> USE DEF commit, install, disownStartup, Free, Goto, targetCurrent
  <1>1. FlagsOK'
    <2>1. stopped' \in BOOLEAN /\ ctxDone' \in BOOLEAN
      BY Zenon DEF FlagsOK, fields, stopping
    <2>2. operationCancel' \in BOOLEAN /\ opDone' \in BOOLEAN
      BY Zenon DEF FlagsOK, operation
    <2>3. reconcileCh' \in BOOLEAN /\ toolChangedCh' \in BOOLEAN
      BY Zenon DEF FlagsOK, channels
    <2>4. attempt' \in BOOLEAN /\ removed' \in BOOLEAN
      BY Zenon DEF FlagsOK, locals, stopping
    <2>5. note' \in BOOLEAN /\ refreshDropped' \in BOOLEAN
      BY Zenon DEF FlagsOK, down
    <2> QED  BY <2>1, <2>2, <2>3, <2>4, <2>5, Zenon DEF FlagsOK
  <1>2. LabelsOK'
    BY Zenon DEF LabelsOK, States, Labels, fields, locals, stopping
  <1>3. RevisionsOK'
    BY ConfigsAssumption, Zenon
    DEF RevisionsOK, Desired, unset, fields, operation, channels, gens,
        locals, stopping, requests, down
  <1>4. ToolsOK'  BY Zenon DEF ToolsOK, Filter, fields, locals, down
  <1>5. GenerationsOK'
    BY ZenonT(60) DEF GenerationsOK, RevisionsOK, Desired, ConfigType, gens
  <1>6. PointersOK'  BY Zenon DEF PointersOK, fields, locals, stopping
  <1>7. RequestsOK'  BY Zenon DEF RequestsOK, channels, locals, requests
  <1> HIDE DEF commit
  <1> QED  BY <1>1, <1>2, <1>3, <1>4, <1>5, <1>6, <1>7, Zenon DEF TypeOK

(* readyLoop, the ways out of it.                                          *)
LEMMA ReadyType ==
  ASSUME TypeOK, readyReconcile \/ readyTick \/ readyCancelled
  PROVE  TypeOK'
  <1> SUFFICES ASSUME FlagsOK, LabelsOK, RevisionsOK, ToolsOK, GenerationsOK,
                      PointersOK, RequestsOK
               PROVE  TypeOK'
    BY Zenon DEF TypeOK
  <1> USE DEF readyReconcile, readyTick, readyCancelled, Goto
  <1>1. FlagsOK'
    <2>1. stopped' \in BOOLEAN /\ ctxDone' \in BOOLEAN
      BY Zenon DEF FlagsOK, fields, stopping
    <2>2. operationCancel' \in BOOLEAN /\ opDone' \in BOOLEAN
      BY Zenon DEF FlagsOK, operation
    <2>3. reconcileCh' \in BOOLEAN /\ toolChangedCh' \in BOOLEAN
      BY Zenon DEF FlagsOK, channels
    <2>4. attempt' \in BOOLEAN /\ removed' \in BOOLEAN
      BY Zenon DEF FlagsOK, locals, stopping
    <2>5. note' \in BOOLEAN /\ refreshDropped' \in BOOLEAN
      BY Zenon DEF FlagsOK, down
    <2> QED  BY <2>1, <2>2, <2>3, <2>4, <2>5, Zenon DEF FlagsOK
  <1>2. LabelsOK'
    BY Zenon DEF LabelsOK, States, Labels, fields, locals, stopping
  <1>3. RevisionsOK'
    BY ConfigsAssumption, Zenon
    DEF RevisionsOK, Desired, unset, fields, operation, channels, gens,
        locals, stopping, requests, down
  <1>4. ToolsOK'  BY Zenon DEF ToolsOK, fields, locals, down
  <1>5. GenerationsOK'  BY Zenon DEF GenerationsOK, gens
  <1>6. PointersOK'  BY Zenon DEF PointersOK, fields, locals, stopping
  <1>7. RequestsOK'  BY Zenon DEF RequestsOK, channels, locals, requests
  <1> HIDE DEF readyReconcile, readyTick, readyCancelled
  <1> QED  BY <1>1, <1>2, <1>3, <1>4, <1>5, <1>6, <1>7, Zenon DEF TypeOK

(* readyLoop, the refreshes.                                               *)
LEMMA ReadyRefreshType ==
  ASSUME TypeOK, readyToolsChanged \/ readyRefresh
  PROVE  TypeOK'
  <1> SUFFICES ASSUME FlagsOK, LabelsOK, RevisionsOK, ToolsOK, GenerationsOK,
                      PointersOK, RequestsOK
               PROVE  TypeOK'
    BY Zenon DEF TypeOK
  <1> USE DEF readyToolsChanged, readyRefresh, refreshStart, refreshDone,
             superseded, Goto, Reply
  <1>1. FlagsOK'
    <2>1. stopped' \in BOOLEAN /\ ctxDone' \in BOOLEAN
      BY Zenon DEF FlagsOK, fields, stopping
    <2>2. operationCancel' \in BOOLEAN /\ opDone' \in BOOLEAN
      BY Zenon DEF FlagsOK, operation
    <2>3. reconcileCh' \in BOOLEAN /\ toolChangedCh' \in BOOLEAN
      BY Zenon DEF FlagsOK, channels
    <2>4. attempt' \in BOOLEAN /\ removed' \in BOOLEAN
      BY Zenon DEF FlagsOK, locals, stopping
    <2>5. note' \in BOOLEAN /\ refreshDropped' \in BOOLEAN
      BY Zenon DEF FlagsOK, down
    <2> QED  BY <2>1, <2>2, <2>3, <2>4, <2>5, Zenon DEF FlagsOK
  <1>2. LabelsOK'
    BY Zenon DEF LabelsOK, States, Labels, fields, locals, stopping
  <1>3. RevisionsOK'
    BY ConfigsAssumption
    DEF RevisionsOK, Desired, unset, fields, operation, channels, gens,
        locals, stopping, requests, down
  <1>4. ToolsOK'  BY Zenon DEF ToolsOK, fields, locals, down
  <1>5. GenerationsOK'  BY Zenon DEF GenerationsOK, gens
  <1>6. PointersOK'  BY Zenon DEF PointersOK, fields, locals, stopping
  <1>7. RequestsOK'  BY Zenon DEF RequestsOK, channels, locals, requests
  <1> HIDE DEF readyToolsChanged, readyRefresh
  <1> QED  BY <1>1, <1>2, <1>3, <1>4, <1>5, <1>6, <1>7, Zenon DEF TypeOK

(* refreshTools.                                                           *)
LEMMA RefreshType ==
  ASSUME TypeOK, refreshSteps
  PROVE  TypeOK'
  <1> SUFFICES ASSUME FlagsOK, LabelsOK, RevisionsOK, ToolsOK, GenerationsOK,
                      PointersOK, RequestsOK
               PROVE  TypeOK'
    BY Zenon DEF TypeOK
  <1> USE DEF refreshSteps, refreshList, refreshLock, refreshPublish,
             refreshDone, refreshStale, superseded, Reply
  <1>1. FlagsOK'
    <2>1. stopped' \in BOOLEAN /\ ctxDone' \in BOOLEAN
      BY Zenon DEF FlagsOK, fields, stopping
    <2>2. operationCancel' \in BOOLEAN /\ opDone' \in BOOLEAN
      BY Zenon DEF FlagsOK, operation
    <2>3. reconcileCh' \in BOOLEAN /\ toolChangedCh' \in BOOLEAN
      BY Zenon DEF FlagsOK, channels
    <2>4. attempt' \in BOOLEAN /\ removed' \in BOOLEAN
      BY Zenon DEF FlagsOK, locals, stopping
    <2>5. note' \in BOOLEAN /\ refreshDropped' \in BOOLEAN
      BY Zenon DEF FlagsOK, down
    <2> QED  BY <2>1, <2>2, <2>3, <2>4, <2>5, Zenon DEF FlagsOK
  <1>2. LabelsOK'  BY Zenon DEF LabelsOK, Labels, fields, locals, stopping
  <1>3. RevisionsOK'
    BY ConfigsAssumption
    DEF RevisionsOK, Desired, unset, fields, operation, channels, gens,
        locals, stopping, requests, down
  <1>4. ToolsOK'  BY Zenon DEF ToolsOK, Filter, fields, locals, down
  <1>5. GenerationsOK'  BY Zenon DEF GenerationsOK, gens
  <1>6. PointersOK'  BY Zenon DEF PointersOK, fields, locals, stopping
  <1>7. RequestsOK'  BY Zenon DEF RequestsOK, channels, locals, requests
  <1> HIDE DEF refreshSteps
  <1> QED  BY <1>1, <1>2, <1>3, <1>4, <1>5, <1>6, <1>7, Zenon DEF TypeOK

(* handleConnectFailure.                                                   *)
LEMMA FailureType ==
  ASSUME TypeOK, failureSteps
  PROVE  TypeOK'
  <1> SUFFICES ASSUME FlagsOK, LabelsOK, RevisionsOK, ToolsOK, GenerationsOK,
                      PointersOK, RequestsOK
               PROVE  TypeOK'
    BY Zenon DEF TypeOK
  <1> USE DEF failureSteps, connectFailed, enterBackoff, backoffDelay,
             backoffReconcile, backoffRefresh, Goto, Reply
  <1>1. FlagsOK'
    <2>1. stopped' \in BOOLEAN /\ ctxDone' \in BOOLEAN
      BY Zenon DEF FlagsOK, fields, stopping
    <2>2. operationCancel' \in BOOLEAN /\ opDone' \in BOOLEAN
      BY Zenon DEF FlagsOK, operation
    <2>3. reconcileCh' \in BOOLEAN /\ toolChangedCh' \in BOOLEAN
      BY Zenon DEF FlagsOK, channels
    <2>4. attempt' \in BOOLEAN /\ removed' \in BOOLEAN
      BY Zenon DEF FlagsOK, locals, stopping
    <2>5. note' \in BOOLEAN /\ refreshDropped' \in BOOLEAN
      BY Zenon DEF FlagsOK, down
    <2> QED  BY <2>1, <2>2, <2>3, <2>4, <2>5, Zenon DEF FlagsOK
  <1>2. LabelsOK'
    BY Zenon DEF LabelsOK, States, Labels, fields, locals, stopping
  <1>3. RevisionsOK'
    BY Zenon
    DEF RevisionsOK, fields, operation, channels, gens, locals, stopping,
        requests, down
  <1>4. ToolsOK'  BY Zenon DEF ToolsOK, fields, locals, down
  <1>5. GenerationsOK'  BY Zenon DEF GenerationsOK, gens
  <1>6. PointersOK'  BY Zenon DEF PointersOK, fields, locals, stopping
  <1>7. RequestsOK'  BY Zenon DEF RequestsOK, channels, locals, requests
  <1> HIDE DEF failureSteps
  <1> QED  BY <1>1, <1>2, <1>3, <1>4, <1>5, <1>6, <1>7, Zenon DEF TypeOK

(* Stop, after its critical section.                                       *)
LEMMA StopType ==
  ASSUME TypeOK, stopSteps
  PROVE  TypeOK'
  <1> SUFFICES ASSUME FlagsOK, LabelsOK, RevisionsOK, ToolsOK, GenerationsOK,
                      PointersOK, RequestsOK
               PROVE  TypeOK'
    BY Zenon DEF TypeOK
  <1> USE DEF stopSteps, stopDrain, stopRetire, stopCancel, DrainStart, Retire
  <1>1. FlagsOK'
    <2>1. stopped' \in BOOLEAN /\ ctxDone' \in BOOLEAN
      BY Zenon DEF FlagsOK, fields, stopping
    <2>2. operationCancel' \in BOOLEAN /\ opDone' \in BOOLEAN
      BY Zenon DEF FlagsOK, operation
    <2>3. reconcileCh' \in BOOLEAN /\ toolChangedCh' \in BOOLEAN
      BY Zenon DEF FlagsOK, channels
    <2>4. attempt' \in BOOLEAN /\ removed' \in BOOLEAN
      BY Zenon DEF FlagsOK, locals, stopping
    <2>5. note' \in BOOLEAN /\ refreshDropped' \in BOOLEAN
      BY Zenon DEF FlagsOK, down
    <2> QED  BY <2>1, <2>2, <2>3, <2>4, <2>5, Zenon DEF FlagsOK
  <1>2. LabelsOK'  BY Zenon DEF LabelsOK, States, fields, locals, stopping
  <1>3. RevisionsOK'
    BY Zenon
    DEF RevisionsOK, fields, operation, channels, gens, locals, stopping,
        requests, down
  <1>4. ToolsOK'  BY Zenon DEF ToolsOK, fields, locals, down
  <1>5. GenerationsOK'  BY Zenon DEF GenerationsOK, gens
  <1>6. PointersOK'  BY Zenon DEF PointersOK, fields, locals, stopping
  <1>7. RequestsOK'  BY Zenon DEF RequestsOK, channels, locals, requests
  <1> HIDE DEF stopSteps
  <1> QED  BY <1>1, <1>2, <1>3, <1>4, <1>5, <1>6, <1>7, Zenon DEF TypeOK

(* The Manager calls that lead to Stop.                                    *)
LEMMA ManageType ==
  ASSUME TypeOK, manage
  PROVE  TypeOK'
  <1> SUFFICES ASSUME FlagsOK, LabelsOK, RevisionsOK, ToolsOK, GenerationsOK,
                      PointersOK, RequestsOK
               PROVE  TypeOK'
    BY Zenon DEF TypeOK
  <1> USE DEF manage, applyDrops, applyRemoveServer, managerStop,
             managerStops, Stop, stopBody
  <1>1. FlagsOK'
    <2>1. stopped' \in BOOLEAN /\ ctxDone' \in BOOLEAN
      BY Zenon DEF FlagsOK, fields, stopping
    <2>2. operationCancel' \in BOOLEAN /\ opDone' \in BOOLEAN
      BY Zenon DEF FlagsOK, operation
    <2>3. reconcileCh' \in BOOLEAN /\ toolChangedCh' \in BOOLEAN
      BY Zenon DEF FlagsOK, channels
    <2>4. attempt' \in BOOLEAN /\ removed' \in BOOLEAN
      BY Zenon DEF FlagsOK, locals, stopping
    <2>5. note' \in BOOLEAN /\ refreshDropped' \in BOOLEAN
      BY Zenon DEF FlagsOK, down
    <2> QED  BY <2>1, <2>2, <2>3, <2>4, <2>5, Zenon DEF FlagsOK
  <1>2. LabelsOK'  BY Zenon DEF LabelsOK, States, fields, locals, stopping
  <1>3. RevisionsOK'
    BY Zenon
    DEF RevisionsOK, fields, operation, channels, gens, locals, stopping,
        requests, down
  <1>4. ToolsOK'  BY Zenon DEF ToolsOK, fields, locals, down
  <1>5. GenerationsOK'  BY Zenon DEF GenerationsOK, gens
  <1>6. PointersOK'  BY Zenon DEF PointersOK, fields, locals, stopping
  <1>7. RequestsOK'  BY Zenon DEF RequestsOK, channels, locals, requests
  <1> HIDE DEF manage
  <1> QED  BY <1>1, <1>2, <1>3, <1>4, <1>5, <1>6, <1>7, Zenon DEF TypeOK

(* UpdateConfig, under c.mu.                                               *)
LEMMA UpdateType ==
  ASSUME TypeOK, NEW c \in Configs, UpdateConfig(c)
  PROVE  TypeOK'
  <1> SUFFICES ASSUME FlagsOK, LabelsOK, RevisionsOK, ToolsOK, GenerationsOK,
                      PointersOK, RequestsOK
               PROVE  TypeOK'
    BY Zenon DEF TypeOK
  <1> USE DEF UpdateConfig
  <1>1. FlagsOK'
    <2>1. stopped' \in BOOLEAN /\ ctxDone' \in BOOLEAN
      BY Zenon DEF FlagsOK, fields, stopping
    <2>2. operationCancel' \in BOOLEAN /\ opDone' \in BOOLEAN
      BY Zenon DEF FlagsOK, operation
    <2>3. reconcileCh' \in BOOLEAN /\ toolChangedCh' \in BOOLEAN
      BY Zenon DEF FlagsOK, channels
    <2>4. attempt' \in BOOLEAN /\ removed' \in BOOLEAN
      BY Zenon DEF FlagsOK, locals, stopping
    <2>5. note' \in BOOLEAN /\ refreshDropped' \in BOOLEAN
      BY Zenon DEF FlagsOK, down
    <2> QED  BY <2>1, <2>2, <2>3, <2>4, <2>5, Zenon DEF FlagsOK
  <1>2. LabelsOK'  BY Zenon DEF LabelsOK, fields, locals, stopping
  <1>3. RevisionsOK'
    BY DiffConfig, ConfigsAssumption
    DEF RevisionsOK, PointersOK, Desired, Update, fields, operation, channels,
        gens, locals, stopping, requests, down
  <1>4. ToolsOK'  BY Zenon DEF ToolsOK, fields, locals, down
  <1>5. GenerationsOK'  BY Zenon DEF GenerationsOK, gens
  <1>6. PointersOK'  BY Zenon DEF PointersOK, fields, locals, stopping
  <1>7. RequestsOK'  BY Zenon DEF RequestsOK, channels, locals, requests
  <1> HIDE DEF UpdateConfig
  <1> QED  BY <1>1, <1>2, <1>3, <1>4, <1>5, <1>6, <1>7, Zenon DEF TypeOK

(* UpdateConfig, after c.mu.                                               *)
LEMMA UpdateRestType ==
  ASSUME TypeOK, updateRest
  PROVE  TypeOK'
  <1> SUFFICES ASSUME FlagsOK, LabelsOK, RevisionsOK, ToolsOK, GenerationsOK,
                      PointersOK, RequestsOK
               PROVE  TypeOK'
    BY Zenon DEF TypeOK
  <1> USE DEF updateRest, needsReconcile
  <1>1. FlagsOK'
    <2>1. stopped' \in BOOLEAN /\ ctxDone' \in BOOLEAN
      BY Zenon DEF FlagsOK, fields, stopping
    <2>2. operationCancel' \in BOOLEAN /\ opDone' \in BOOLEAN
      BY Zenon DEF FlagsOK, operation
    <2>3. reconcileCh' \in BOOLEAN /\ toolChangedCh' \in BOOLEAN
      BY Zenon DEF FlagsOK, channels
    <2>4. attempt' \in BOOLEAN /\ removed' \in BOOLEAN
      BY Zenon DEF FlagsOK, locals, stopping
    <2>5. note' \in BOOLEAN /\ refreshDropped' \in BOOLEAN
      BY Zenon DEF FlagsOK, down
    <2> QED  BY <2>1, <2>2, <2>3, <2>4, <2>5, Zenon DEF FlagsOK
  <1>2. LabelsOK'  BY Zenon DEF LabelsOK, fields, locals, stopping
  <1>3. RevisionsOK'
    BY Zenon
    DEF RevisionsOK, Update, noUpdate, Changes, fields, operation, channels,
        gens, locals, stopping, requests, down
  <1>4. ToolsOK'  BY Zenon DEF ToolsOK, Filter, fields, locals, down
  <1>5. GenerationsOK'
    BY Zenon DEF GenerationsOK, RevisionsOK, Desired, ConfigType, gens
  <1>6. PointersOK'  BY Zenon DEF PointersOK, fields, locals, stopping
  <1>7. RequestsOK'  BY Zenon DEF RequestsOK, channels, locals, requests
  <1> HIDE DEF updateRest
  <1> QED  BY <1>1, <1>2, <1>3, <1>4, <1>5, <1>6, <1>7, Zenon DEF TypeOK

(* The parent context, the sessions and the downstream.                    *)
LEMMA WorldType ==
  ASSUME TypeOK, world
  PROVE  TypeOK'
  <1> SUFFICES ASSUME FlagsOK, LabelsOK, RevisionsOK, ToolsOK, GenerationsOK,
                      PointersOK, RequestsOK
               PROVE  TypeOK'
    BY Zenon DEF TypeOK
  <1> USE DEF world, parentCancel, sessionDies, downstreamChanges, sessionUp,
             onToolListChanged
  <1>1. FlagsOK'
    <2>1. stopped' \in BOOLEAN /\ ctxDone' \in BOOLEAN
      BY Zenon DEF FlagsOK, fields, stopping
    <2>2. operationCancel' \in BOOLEAN /\ opDone' \in BOOLEAN
      BY Zenon DEF FlagsOK, operation
    <2>3. reconcileCh' \in BOOLEAN /\ toolChangedCh' \in BOOLEAN
      BY Zenon DEF FlagsOK, channels
    <2>4. attempt' \in BOOLEAN /\ removed' \in BOOLEAN
      BY Zenon DEF FlagsOK, locals, stopping
    <2>5. note' \in BOOLEAN /\ refreshDropped' \in BOOLEAN
      BY Zenon DEF FlagsOK, down
    <2> QED  BY <2>1, <2>2, <2>3, <2>4, <2>5, Zenon DEF FlagsOK
  <1>2. LabelsOK'  BY Zenon DEF LabelsOK, fields, locals, stopping
  <1>3. RevisionsOK'
    BY Zenon
    DEF RevisionsOK, fields, operation, channels, gens, locals, stopping,
        requests, down
  <1>4. ToolsOK'  BY ListsAssumption, Zenon DEF ToolsOK, fields, locals, down
  <1>5. GenerationsOK'  BY Zenon DEF GenerationsOK, gens
  <1>6. PointersOK'  BY Zenon DEF PointersOK, fields, locals, stopping
  <1>7. RequestsOK'  BY Zenon DEF RequestsOK, channels, locals, requests
  <1> HIDE DEF world
  <1> QED  BY <1>1, <1>2, <1>3, <1>4, <1>5, <1>6, <1>7, Zenon DEF TypeOK

(* Callers of Refresh, and stuttering.                                     *)
LEMMA CallerType ==
  ASSUME TypeOK, (\E r \in Refreshers : caller(r)) \/ UNCHANGED vars
  PROVE  TypeOK'
  <1> SUFFICES ASSUME FlagsOK, LabelsOK, RevisionsOK, ToolsOK, GenerationsOK,
                      PointersOK, RequestsOK
               PROVE  TypeOK'
    BY Zenon DEF TypeOK
  <1> USE DEF caller, Refresh, refreshSend, refreshReturn, refreshGivesUp,
             vars
  <1>1. FlagsOK'
    <2>1. stopped' \in BOOLEAN /\ ctxDone' \in BOOLEAN
      BY Zenon DEF FlagsOK, fields, stopping
    <2>2. operationCancel' \in BOOLEAN /\ opDone' \in BOOLEAN
      BY Zenon DEF FlagsOK, operation
    <2>3. reconcileCh' \in BOOLEAN /\ toolChangedCh' \in BOOLEAN
      BY Zenon DEF FlagsOK, channels
    <2>4. attempt' \in BOOLEAN /\ removed' \in BOOLEAN
      BY Zenon DEF FlagsOK, locals, stopping
    <2>5. note' \in BOOLEAN /\ refreshDropped' \in BOOLEAN
      BY Zenon DEF FlagsOK, down
    <2> QED  BY <2>1, <2>2, <2>3, <2>4, <2>5, Zenon DEF FlagsOK
  <1>2. LabelsOK'  BY Zenon DEF LabelsOK, fields, locals, stopping
  <1>3. RevisionsOK'
    BY Zenon
    DEF RevisionsOK, fields, operation, channels, gens, locals, stopping,
        requests, down
  <1>4. ToolsOK'  BY Zenon DEF ToolsOK, fields, locals, down
  <1>5. GenerationsOK'  BY Zenon DEF GenerationsOK, gens
  <1>6. PointersOK'  BY Zenon DEF PointersOK, fields, locals, stopping
  <1>7. RequestsOK'  BY Zenon DEF RequestsOK, channels, locals, requests
  <1> HIDE DEF caller, vars
  <1> QED  BY <1>1, <1>2, <1>3, <1>4, <1>5, <1>6, <1>7, Zenon DEF TypeOK

LEMMA InitType == Init => TypeOK
  <1> SUFFICES ASSUME Init PROVE TypeOK  BY Zenon
  <1> USE ConfigsAssumption, ListsAssumption DEF Init
  <1>1. FlagsOK  BY Zenon DEF FlagsOK
  <1>2. LabelsOK  BY Zenon DEF LabelsOK, States, Labels
  <1>3. RevisionsOK
    BY DEF RevisionsOK, Desired, unset, Update, noUpdate, Changes
  <1>4. ToolsOK  BY Zenon DEF ToolsOK
  <1>5. GenerationsOK  BY DEF GenerationsOK, ConfigType
  <1>6. PointersOK  BY Zenon DEF PointersOK
  <1>7. RequestsOK  BY Zenon DEF RequestsOK
  <1> QED  BY <1>1, <1>2, <1>3, <1>4, <1>5, <1>6, <1>7, Zenon DEF TypeOK

LEMMA NextType == TypeOK /\ [Next]_vars => TypeOK'
  <1> SUFFICES ASSUME TypeOK, [Next]_vars PROVE TypeOK'  BY Zenon
  <1>1. CASE runLoop \/ runPick \/ runExit \/ runExited  BY <1>1, LoopType, Zenon
  <1>2. CASE runDrain \/ runRetire  BY <1>2, DrainType, Zenon
  <1>3. CASE disabledSteps  BY <1>3, DisabledType, Zenon
  <1>4. CASE connectStart \/ drainAndCloseOldGen \/ limiterSelect
    BY <1>4, ConnectType, Zenon
  <1>5. CASE createSession \/ checkTarget \/ discover \/ connectError
    BY <1>5, AttemptType, Zenon
  <1>6. CASE lockPublish \/ publishDiscovered \/ leave  BY <1>6, PublishType, Zenon
  <1>7. CASE commit  BY <1>7, CommitType, Zenon
  <1>8. CASE readyReconcile \/ readyTick \/ readyCancelled  BY <1>8, ReadyType, Zenon
  <1>9. CASE readyToolsChanged \/ readyRefresh  BY <1>9, ReadyRefreshType, Zenon
  <1>10. CASE refreshSteps  BY <1>10, RefreshType, Zenon
  <1>11. CASE failureSteps  BY <1>11, FailureType, Zenon
  <1>12. CASE stopSteps  BY <1>12, StopType, Zenon
  <1>13. CASE manage  BY <1>13, ManageType, Zenon
  <1>14. CASE \E c \in Configs : UpdateConfig(c)  BY <1>14, UpdateType, Zenon
  <1>15. CASE updateRest  BY <1>15, UpdateRestType, Zenon
  <1>16. CASE world  BY <1>16, WorldType, Zenon
  <1>17. CASE (\E r \in Refreshers : caller(r)) \/ UNCHANGED vars
    BY <1>17, CallerType, Zenon
  <1> QED  BY <1>1, <1>2, <1>3, <1>4, <1>5, <1>6, <1>7, <1>8, <1>9, <1>10,
             <1>11, <1>12, <1>13, <1>14, <1>15, <1>16, <1>17, Zenon DEF Next, run,
             loopSteps, connectSteps, publishSteps, readySteps

(* Every field, local and channel of a coordinator has its type in every   *)
(* reachable state; in particular the ready loop and the refresh never run *)
(* on a nil generation (coordinator.go: readyLoop, refreshTools).          *)
THEOREM TypeCorrect == Spec => []TypeOK
  <1>1. Init => TypeOK  BY InitType, Zenon
  <1>2. TypeOK /\ [Next]_vars => TypeOK'  BY NextType, Zenon
  <1> QED  BY <1>1, <1>2, PTL DEF Spec
=============================================================================
