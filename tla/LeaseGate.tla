----------------------------- MODULE LeaseGate -----------------------------
(***************************************************************************)
(* What one generation of a downstream server promises to the calls that   *)
(* use it (internal/manager/types.go): a gate that admits at most Limit    *)
(* calls at a time and is shut once and for all.  The generation itself    *)
(* takes its context away only behind the shut gate, and then only when no *)
(* admitted call is left or a drain deadline passed.  The context is also  *)
(* lost when the coordinator's own context ends; that may happen at any    *)
(* time, and a gate still open then goes on admitting.  Generation.tla     *)
(* shows that the code's lock, counter, wake-up channel and sync.Once      *)
(* implement it.                                                           *)
(***************************************************************************)
EXTENDS Naturals, FiniteSets

CONSTANTS Callers,  \* the calls that may ask for a lease
          Limit     \* how many may hold one at the same time

VARIABLES open,     \* the gate admits calls
          holders,  \* the calls that hold a lease
          expired,  \* a drain deadline has passed
          lost,     \* the generation's context has ended
          severed   \* the coordinator's context has ended

gateVars == <<open, holders, expired, lost, severed>>

GateInit ==
    /\ open = TRUE
    /\ holders = {}
    /\ expired = FALSE
    /\ lost = FALSE
    /\ severed = FALSE

Take(c) ==
    /\ open
    /\ c \notin holders
    /\ Cardinality(holders) < Limit
    /\ holders' = holders \cup {c}
    /\ UNCHANGED <<open, expired, lost, severed>>

Give(c) ==
    /\ c \in holders
    /\ holders' = holders \ {c}
    /\ UNCHANGED <<open, expired, lost, severed>>

Shut ==
    /\ open
    /\ open' = FALSE
    /\ UNCHANGED <<holders, expired, lost, severed>>

Expire ==
    /\ ~open
    /\ expired' = TRUE
    /\ UNCHANGED <<open, holders, lost, severed>>

TakeAway ==
    /\ ~open
    /\ holders = {} \/ expired
    /\ lost' = TRUE
    /\ UNCHANGED <<open, holders, expired, severed>>

Sever ==
    /\ ~severed
    /\ severed' = TRUE
    /\ lost' = TRUE
    /\ UNCHANGED <<open, holders, expired>>

GateNext ==
    \/ \E c \in Callers : Take(c) \/ Give(c)
    \/ Shut
    \/ Expire
    \/ TakeAway
    \/ Sever

GateSpec == GateInit /\ [][GateNext]_gateVars
=============================================================================
