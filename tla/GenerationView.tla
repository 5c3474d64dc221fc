--------------------------- MODULE GenerationView ---------------------------
(***************************************************************************)
(* What a coordinator takes a generation for (internal/manager/types.go as *)
(* coordinator.go uses it): "gen.drain(timeout); gen.Close()" is two steps *)
(* of the goroutine that calls it.  The first shuts admission at once, the *)
(* second returns with the session closed and GenerationDone fired; a      *)
(* second goroutine that retires the same generation gets the same two     *)
(* steps.  GenerationDone also fires, at any time, when the coordinator's  *)
(* own context ends; that shuts nothing and closes nothing, the two steps  *)
(* still do.  DrainStart and Retire of Coordinator.tla, and its runDrain,  *)
(* runRetire, stopDrain and stopRetire, are written against this view;     *)
(* Generation.tla shows that the code implements it.                       *)
(***************************************************************************)
CONSTANT Drainers    \* the goroutines that drain and close

VARIABLES admission, \* new leases are admitted
          open,      \* Close has yet to close the session
          dead,      \* GenerationDone is closed
          severed,   \* the coordinator's context has ended
          stage      \* stage[d]: "idle", "draining" or "retired"

viewVars == <<admission, open, dead, severed, stage>>

ViewInit ==
    /\ admission = TRUE
    /\ open = TRUE
    /\ dead = FALSE
    /\ severed = FALSE
    /\ stage = [d \in Drainers |-> "idle"]

Drain(d) ==
    /\ stage[d] = "idle"
    /\ stage' = [stage EXCEPT ![d] = "draining"]
    /\ admission' = FALSE
    /\ UNCHANGED <<open, dead, severed>>

(* Close lets GenerationDone fire ahead of the session's end, never before *)
(* somebody is retiring the generation ...                                 *)
Dies ==
    /\ open /\ ~dead
    /\ \E d \in Drainers : stage[d] = "draining"
    /\ dead' = TRUE
    /\ UNCHANGED <<admission, open, severed, stage>>

(* ... and the coordinator's context takes it along whenever it ends.      *)
Severs ==
    /\ ~severed
    /\ severed' = TRUE
    /\ dead' = TRUE
    /\ UNCHANGED <<admission, open, stage>>

Retire(d) ==
    /\ stage[d] = "draining"
    /\ stage' = [stage EXCEPT ![d] = "retired"]
    /\ admission' = FALSE
    /\ open' = FALSE
    /\ dead' = TRUE
    /\ UNCHANGED severed

ViewNext == Dies \/ Severs \/ \E d \in Drainers : Drain(d) \/ Retire(d)

ViewSpec == ViewInit /\ [][ViewNext]_viewVars
=============================================================================
