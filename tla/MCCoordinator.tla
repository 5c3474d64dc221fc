---------------------------- MODULE MCCoordinator ----------------------------
(* Coordinator on a small instance: configurations that differ from each   *)
(* other in every way diffConfig distinguishes.                            *)
EXTENDS Coordinator, TLC

Config(on, c, off, t) ==
    [enabled |-> on, conn |-> c, disabled |-> off, callTimeout |-> t]

plain      == Config(TRUE, "c1", {}, 1)
filtered   == Config(TRUE, "c1", {"a"}, 1)
slower     == Config(TRUE, "c1", {}, 2)
moved      == Config(TRUE, "c2", {}, 1)
off        == Config(FALSE, "c1", {}, 1)

SwitchConfigs == {plain, off}
ColdConfigs == {plain, moved, off}
SafetyConfigs == ColdConfigs \cup {filtered, slower}

Slots == Permutations(Gens)
=============================================================================
