------------------------------ MODULE MCBridge ------------------------------
(* A small instance of Bridge for TLC: two tools on two pages change together,
   then the first is removed. *)
EXTENDS Bridge, TLC

MCHubLists == <<1 :> "old" @@ 2 :> "old", 1 :> "new" @@ 2 :> "new", 2 :> "new">>
=============================================================================
