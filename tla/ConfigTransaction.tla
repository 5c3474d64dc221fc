------------------------- MODULE ConfigTransaction -------------------------
(***************************************************************************)
(* The configuration file and everybody who reads or writes it: the Hub's  *)
(* start, the runtime controller's poll, Admin writes with their rollback, *)
(* the import command and an editor that takes no lock.  A digest is       *)
(* modelled by the contents it is computed from (SHA-256 taken to be       *)
(* injective); NoConfig stands for the empty digest and for a file that    *)
(* does not exist.                                                         *)
(***************************************************************************)
EXTENDS Naturals, FiniteSets

CONSTANTS Admins,            \* Admin requests, each used once
          Importers,         \* runs of the import command, each used once
          Ops,               \* what an Admin request may ask for
          Imports,           \* [id, env] entries the import source may hold
          Edits,             \* contents the editor may save
          Firsts,            \* what there may be before the first start
          MaxEdits, MaxCrashes,
          ChangeWhileStarting \* may the file change between load and digest?

ASSUME ConfigAssumption ==
  /\ MaxEdits \in Nat /\ MaxCrashes \in Nat /\ ChangeWhileStarting \in BOOLEAN
  /\ {"poll", "editor", "none"} \cap (Admins \cup Importers) = {}
  /\ Admins \cap Importers = {}

VARIABLES file, disk, author, flock, txMu, hub, startup, running, ctl, proc,
          diverged, edits, crashes

vars == <<file, disk, author, flock, txMu, hub, startup, running, ctl, proc,
          diverged, edits, crashes>>
filevars == <<file, disk, author, flock>>
envvars == <<edits, crashes>>

Writers == Admins \cup Importers
Procs == Writers \cup {"poll"}

(* Contents: whether they decode and validate, the servers (id -> environment
   value), the MCP tokens and the Admin token, which stands for the settings
   bound at startup. *)
DecodeStrict(c) == c.form \notin {"none", "text"}
Validate(c) == c.form = "config"
Resolve(c) == Validate(c) /\ c.admin \notin c.tokens
Valid(c) == DecodeStrict(c) /\ Resolve(c)
NoConfig == [form |-> "none", servers |-> <<>>, tokens |-> {}, admin |-> "none"]

(* What apply hands to the manager: values equal to a secret of the startup
   configuration are removed from every server's environment. *)
stripStartupSecrets(c) ==
  [id \in DOMAIN c.servers |->
     IF c.servers[id] \in startup.tokens \cup {startup.admin} THEN "none"
     ELSE c.servers[id]]

Idle == [pc |-> "idle", phase |-> "commit", seen |-> NoConfig, new |-> NoConfig,
         snap |-> NoConfig, removed |-> FALSE, answer |-> "none"]

Init ==
  /\ file \in Firsts /\ disk = {file} /\ author = "editor"
  /\ flock = "none" /\ txMu = "none" /\ hub = "down"
  /\ startup = NoConfig /\ running = <<>>
  /\ ctl = [applied |-> NoConfig, candidate |-> NoConfig, count |-> 0,
            current |-> NoConfig, restart |-> FALSE]
  /\ proc = [p \in Procs |-> Idle]
  /\ diverged = FALSE /\ edits = 0 /\ crashes = 0

To(p, pc) == proc' = [proc EXCEPT ![p].pc = pc]

(* The answer of an Admin request is kept; what the import command prints when
   it ends is not told apart. *)
Answer(p, a) ==
  proc' = [proc EXCEPT ![p] = [Idle EXCEPT !.pc = "done",
                                 !.answer = IF p \in Admins THEN a ELSE "none"]]

(* The end of a transaction: txMu is released with the answer. *)
Finish(p, a) ==
  /\ txMu' = IF txMu = p THEN "none" ELSE txMu
  /\ IF p = "poll" THEN proc' = [proc EXCEPT ![p] = Idle] ELSE Answer(p, a)

-----------------------------------------------------------------------------
(* The Hub starts: runServe loads the file and applies it, NewController then
   digests the file again and takes that digest for the applied one. *)
Load ==
  /\ hub = "down" /\ Valid(file)
  /\ hub' = "loaded" /\ startup' = file /\ running' = file.servers
  /\ UNCHANGED <<filevars, txMu, ctl, proc, diverged, envvars>>

NewController ==
  /\ hub = "loaded" /\ hub' = "up"
  /\ ctl' = [applied |-> file, candidate |-> NoConfig, count |-> 0,
             current |-> startup, restart |-> FALSE]
  /\ UNCHANGED <<filevars, txMu, startup, running, proc, diverged, envvars>>

(* The editor saves or deletes the file, with neither lock nor sync. *)
Edit(c) ==
  /\ edits < MaxEdits /\ edits' = edits + 1
  /\ hub # "loaded" \/ ChangeWhileStarting
  /\ c # file /\ file' = c /\ author' = "editor" /\ disk' = disk \cup {c}
  /\ UNCHANGED <<flock, txMu, hub, startup, running, ctl, proc, diverged, crashes>>

(* A power failure: what is not synced may be lost, the kernel lock is freed. *)
Crash(f) ==
  /\ crashes < MaxCrashes /\ crashes' = crashes + 1
  /\ file' = f /\ disk' = {f} /\ flock' = "none" /\ txMu' = "none"
  /\ hub' = "down" /\ diverged' = FALSE
  /\ proc' = [p \in Procs |->
                IF proc[p].pc \in {"idle", "done"} /\ p # "poll" THEN proc[p]
                ELSE IF p = "poll" THEN Idle ELSE [Idle EXCEPT !.pc = "done"]]
  /\ UNCHANGED <<author, startup, running, ctl, edits>>

-----------------------------------------------------------------------------
(* The controller. *)
Rejected_Final == [ctl EXCEPT !.applied = file, !.candidate = NoConfig, !.count = 0]
Rejected == [ctl EXCEPT !.candidate = NoConfig, !.count = 0]

(* Two equal samples of a new digest are needed before it is applied. *)
observeCandidate(d) ==
  IF d = ctl.applied THEN Rejected
  ELSE IF d # ctl.candidate THEN [ctl EXCEPT !.candidate = d, !.count = 1]
  ELSE [ctl EXCEPT !.count = @ + 1]

Stable(d) == d # ctl.applied /\ observeCandidate(d).count >= 2

Poll ==
  /\ hub = "up" /\ txMu = "none" /\ proc["poll"].pc = "idle"
  /\ IF Stable(file) /\ Valid(file)
     THEN /\ txMu' = "poll" /\ ctl' = observeCandidate(file)
          /\ proc' = [proc EXCEPT !["poll"] = [@ EXCEPT !.pc = "apply", !.snap = file]]
     ELSE /\ ctl' = IF file = NoConfig \/ Stable(file) THEN Rejected
                    ELSE observeCandidate(file)
          /\ UNCHANGED <<txMu, proc>>
  /\ UNCHANGED <<filevars, hub, startup, running, diverged, envvars>>

(* A reload that fails: a poll gives up until the next tick, an Admin write
   starts its rollback, a rollback reports that the runtime is not restored. *)
ReloadFails(p) ==
  IF p # "poll" /\ proc[p].phase = "commit"
  THEN /\ proc' = [proc EXCEPT ![p] = [@ EXCEPT !.pc = "write", !.phase = "rollback"]]
       /\ UNCHANGED txMu
  ELSE Finish(p, "restoreFailed")

reloadNow(p) ==
  /\ proc[p].pc = "reload"
  /\ IF Valid(file)
     THEN /\ proc' = [proc EXCEPT ![p] = [@ EXCEPT !.pc = "apply", !.snap = file]]
          /\ UNCHANGED <<txMu, ctl>>
     ELSE ctl' = Rejected /\ ReloadFails(p)
  /\ UNCHANGED <<filevars, hub, startup, running, diverged, envvars>>

(* The checks of apply that come before Manager.Apply. *)
Refuses_NoAdminCheck(c) == file # c
Refuses(c) == file # c \/ startup.admin \in c.tokens

(* apply up to the point where Manager.Apply has changed the coordinators. *)
apply(p) ==
  /\ proc[p].pc = "apply"
  /\ LET c == proc[p].snap IN
     IF Refuses(c)
     THEN /\ ctl' = Rejected /\ ReloadFails(p) /\ UNCHANGED running
     ELSE /\ running' = stripStartupSecrets(c)
          /\ proc' = [proc EXCEPT ![p] = [@ EXCEPT !.pc = "stopping",
                        !.removed = DOMAIN running \ DOMAIN c.servers # {}]]
          /\ UNCHANGED <<txMu, ctl>>
  /\ UNCHANGED <<filevars, hub, startup, diverged, envvars>>

Recorded(c) == [applied |-> c, candidate |-> NoConfig, count |-> 0,
                current |-> c, restart |-> c.admin # startup.admin]

(* Manager.Apply returns: the removed coordinators have stopped ... *)
applied(p) ==
  /\ proc[p].pc = "stopping"
  /\ ctl' = Recorded(proc[p].snap) /\ diverged' = FALSE
  /\ Finish(p, IF proc[p].phase = "commit" THEN "ok" ELSE "rolledBack")
  /\ UNCHANGED <<filevars, hub, startup, running, envvars>>

(* ... or the context of an Admin reload ends first: the client went away, or
   a removed coordinator takes longer than the 15 seconds.  The restoring
   reload has a context of its own, so only the latter can end it. *)
applyTimesOut(p) ==
  /\ p # "poll" /\ proc[p].pc = "stopping"
  /\ proc[p].phase = "commit" \/ proc[p].removed
  /\ ctl' = Rejected /\ diverged' = TRUE /\ ReloadFails(p)
  /\ UNCHANGED <<filevars, hub, startup, running, envvars>>
-----------------------------------------------------------------------------
(* Admin requests, served if the Hub has started with an Admin token. *)
getConfig(a) ==
  /\ hub = "up" /\ startup.admin # "none" /\ proc[a].pc = "idle" /\ DecodeStrict(file)
  /\ proc' = [proc EXCEPT ![a] = [@ EXCEPT !.pc = "seen", !.seen = file]]
  /\ UNCHANGED <<filevars, txMu, hub, startup, running, ctl, diverged, envvars>>

Without(f, id) == [i \in DOMAIN f \ {id} |-> f[i]]
With(f, id, v) == [i \in DOMAIN f \cup {id} |-> IF i = id THEN v ELSE f[i]]

(* The handlers' own refusals, and the configuration they ask to be written.
   The redaction sentinel stands for the value the file holds. *)
Denied(op, c) ==
  CASE op.kind = "put"    -> op.env = "sentinel" /\ op.id \notin DOMAIN c.servers
    [] op.kind = "delete" -> op.id \notin DOMAIN c.servers
    [] op.kind = "post"   -> op.token \in c.tokens
    [] op.kind = "drop"   -> op.token \notin c.tokens \/ c.tokens = {op.token}

mergeSecrets(c, op) == IF op.env = "sentinel" THEN c.servers[op.id] ELSE op.env

Changed(op, c) ==
  CASE op.kind = "put"    -> [c EXCEPT !.servers = With(@, op.id, mergeSecrets(c, op))]
    [] op.kind = "delete" -> [c EXCEPT !.servers = Without(@, op.id)]
    [] op.kind = "post"   -> [c EXCEPT !.tokens = @ \cup {op.token}]
    [] op.kind = "drop"   -> [c EXCEPT !.tokens = @ \ {op.token}]

(* putServer, deleteServer, postToken and deleteToken, with the validation of
   writeConfigLocked. *)
handle(a, op) ==
  /\ hub = "up" /\ txMu = "none" /\ proc[a].pc = "seen"
  /\ CASE ~DecodeStrict(file) -> Answer(a, "unavailable") /\ UNCHANGED txMu
       [] DecodeStrict(file) /\ file # proc[a].seen -> Answer(a, "conflict") /\ UNCHANGED txMu
       [] OTHER ->
            IF Denied(op, file) \/ ~Valid(Changed(op, file))
            THEN Answer(a, "refused") /\ UNCHANGED txMu
            ELSE /\ txMu' = a
                 /\ proc' = [proc EXCEPT ![a] =
                      [@ EXCEPT !.pc = "checked", !.new = Changed(op, file)]]
  /\ UNCHANGED <<filevars, hub, startup, running, ctl, diverged, envvars>>

(* The second read of the file, then Preflight, which dials every server whose
   connection would change and may find one that does not answer. *)
Probed(c) == {id \in DOMAIN c.servers :
                id \in DOMAIN running => running[id] # c.servers[id]}

preflight(a) ==
  /\ proc[a].pc = "checked"
  /\ \/ /\ file = proc[a].seen
        /\ To(a, "write") /\ UNCHANGED txMu
     \/ /\ file = proc[a].seen /\ Probed(proc[a].new) # {}
        /\ Finish(a, "refused")
     \/ /\ file # proc[a].seen
        /\ Finish(a, IF file = NoConfig THEN "unavailable" ELSE "conflict")
  /\ UNCHANGED <<filevars, hub, startup, running, ctl, diverged, envvars>>

(* ImportServers reads, merges and goes on to the write.  It does not resolve
   what it reads, and it begins a configuration where there is none. *)
Target == IF file = NoConfig THEN [NoConfig EXCEPT !.form = "config"] ELSE file

ImportServers(i, e) ==
  /\ proc[i].pc = "idle"
  /\ IF DecodeStrict(Target) /\ Validate(Target) /\ e.id \notin DOMAIN Target.servers
     THEN proc' = [proc EXCEPT ![i] = [@ EXCEPT !.pc = "write", !.seen = file,
                     !.new = [Target EXCEPT !.servers = With(@, e.id, e.env)]]]
     ELSE Answer(i, "refused")
  /\ UNCHANGED <<filevars, txMu, hub, startup, running, ctl, diverged, envvars>>

-----------------------------------------------------------------------------
(* WriteConfigFileAtomic, for a write and for its rollback. *)
Expected(p) == IF proc[p].phase = "commit" THEN proc[p].seen ELSE proc[p].new
Data(p) == IF proc[p].phase = "commit" THEN proc[p].new ELSE proc[p].seen

WriteFails(p, a) == Finish(p, IF proc[p].phase = "commit" THEN a ELSE "rollbackFailed")

tryLock_Shared == TRUE
tryLock == flock = "none"

(* The digest is compared under the lock, unless there was none to expect. *)
Unchanged(p) == Expected(p) = NoConfig \/ file = Expected(p)

AcquireLock(p) ==
  /\ proc[p].pc = "write"
  /\ IF tryLock /\ Unchanged(p)
     THEN flock' = p /\ To(p, "locked") /\ UNCHANGED txMu
     ELSE /\ WriteFails(p, IF tryLock THEN "conflict" ELSE "writeFailed")
          /\ UNCHANGED flock
  /\ UNCHANGED <<file, disk, author, hub, startup, running, ctl, diverged, envvars>>

replaceFile(p) ==
  /\ proc[p].pc = "locked"
  /\ hub # "loaded" \/ ChangeWhileStarting
  /\ file' = Data(p) /\ author' = p /\ disk' = disk \cup {file'}
  /\ To(p, "replaced")
  /\ UNCHANGED <<flock, txMu, hub, startup, running, ctl, diverged, envvars>>

(* The temporary file cannot be written, synced or renamed. *)
replaceFails(p) ==
  /\ proc[p].pc = "locked"
  /\ flock' = "none" /\ WriteFails(p, "writeFailed")
  /\ UNCHANGED <<file, disk, author, hub, startup, running, ctl, diverged, envvars>>

Synced_Never(p) == disk
Synced(p) == IF author = p THEN {file} ELSE disk

syncParentDir(p) ==
  /\ proc[p].pc = "replaced"
  /\ flock' = "none" /\ disk' = Synced(p)
  /\ IF p \in Admins THEN To(p, "reload") ELSE Answer(p, "ok")
  /\ UNCHANGED <<file, author, txMu, hub, startup, running, ctl, diverged, envvars>>

(* A failed sync is reported as a failed write: the file stays replaced. *)
syncFails(p) ==
  /\ proc[p].pc = "replaced"
  /\ flock' = "none" /\ WriteFails(p, "writeFailed")
  /\ UNCHANGED <<file, disk, author, hub, startup, running, ctl, diverged, envvars>>

-----------------------------------------------------------------------------
Write(p) == AcquireLock(p) \/ replaceFile(p) \/ replaceFails(p)
              \/ syncParentDir(p) \/ syncFails(p)
Reload(p) == reloadNow(p) \/ apply(p) \/ applied(p) \/ applyTimesOut(p)

Next ==
  \/ Load \/ NewController \/ Poll
  \/ apply("poll") \/ applied("poll")
  \/ \E c \in Edits : Edit(c)
  \/ \E f \in disk : Crash(f)
  \/ \E a \in Admins : getConfig(a) \/ preflight(a) \/ Write(a) \/ Reload(a)
                         \/ \E op \in Ops : handle(a, op)
  \/ \E i \in Importers : Write(i) \/ \E e \in Imports : ImportServers(i, e)

(* The ticker keeps firing, and a transaction that has begun runs to its end:
   every wait in it is bounded by a timeout of the code. *)
Fairness ==
  /\ WF_vars(Load) /\ WF_vars(NewController) /\ WF_vars(Poll)
  /\ WF_vars(apply("poll") \/ applied("poll"))
  /\ \A a \in Admins : WF_vars(preflight(a) \/ Write(a) \/ Reload(a))
  /\ \A i \in Importers : WF_vars(Write(i))

Spec == Init /\ [][Next]_vars /\ Fairness

-----------------------------------------------------------------------------
(* AcquireLock and the digest comparison: a writer that takes the lock never
   replaces contents it has not seen, unless they come from the editor, who
   may save between the comparison and the rename, or the writer is an import
   that found no file: it has no digest to compare (the comparison is optional)
   and replaces whatever has been written since. *)
NoLostEdit ==
  [][\A p \in Writers : author' = p /\ proc[p].pc = "locked" /\ proc'[p].pc = "replaced"
        => \/ file = Expected(p) \/ author = "editor"
           \/ p \in Importers /\ proc[p].seen = NoConfig]_vars

(* writeConfigLocked: "ok" means that the change is on disk for good, applied
   and running; "rolled back" means the same of the earlier configuration.
   Somebody who wrote the file meanwhile is served instead. *)
AnswerIsTrue ==
  [][\A a \in Admins :
       LET c == IF proc'[a].answer = "ok" THEN proc[a].new ELSE proc[a].seen IN
       proc[a].answer = "none" /\ proc'[a].answer \in {"ok", "rolledBack"}
         => /\ running' = stripStartupSecrets(ctl'.applied)
            /\ author = a => ctl'.applied = c /\ disk = {c}]_vars

(* What the Hub would run from contents c. *)
Serves(c) == running = c.servers \/ running = stripStartupSecrets(c)

(* apply: the Admin token stays the one of the start until a restart, so it is
   never accepted as an MCP token, whatever the file says by then, and a status
   that asks for no restart is given only while the two agree. *)
TokenDomains ==
  hub = "up" => /\ startup.admin \notin ctl.current.tokens
                /\ ~ctl.restart => ctl.current.admin = startup.admin

(* The controller's record is true: TokenDomains, and outside of Manager.Apply
   the manager runs the servers of the configuration recorded as current, after
   any reloads, refusals and rollbacks.  The exception is an Apply that was cut
   short after it had changed the manager, until the next one that ends. *)
RecordIsTrue ==
  /\ TokenDomains
  /\ hub = "up" /\ ~diverged /\ (\A p \in Procs : proc[p].pc # "stopping")
       => Serves(ctl.current)

(* Polling: a file that can be applied is in the end what the Hub runs.  The
   exception is an Apply that was cut short after it had changed the manager
   and whose rollback failed too. *)
FileIsServed ==
  []<>(Valid(file) => hub = "up" /\
         (startup.admin \in file.tokens \/ diverged \/ Serves(file)))
=============================================================================
