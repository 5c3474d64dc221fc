---------------------------- MODULE MCPublisher ----------------------------
(***************************************************************************)
(* Two servers, a and a__b, whose names meet: a's tool b__c and a__b's     *)
(* tool c have one public name.  A name with other characters, x!, gets an *)
(* alias; h1 is the name whose direct form is that alias.                  *)
(***************************************************************************)
EXTENDS Publisher

CONSTANTS small, large, bad

A  == <<"a">>
AB == <<"a", "b">>
C  == <<"c">>
BC == <<"b", "c">>
X  == <<"x!">>
H  == <<"h1">>

MCServers     == {A, AB}
MCOriginals   == {C, BC, X, H, EmptyName}
MCDirectValid == MCServers \X {C, BC, H}
MCHash        == [p \in MCServers \X {X, EmptyName} |->
                      IF p = <<A, X>> THEN "h1" ELSE "h2"]
MCDefs        == {small, large, bad}
MCValidDefs   == {small, large}
MCSize        == [d \in MCDefs |-> IF d = large THEN 2 ELSE 1]

T(o, d) == [name |-> o, def |-> d]

(* Names that meet between the servers, an alias and a direct name that     *)
(* meet within one list, and definitions that change.                      *)
MCLists == {<<T(C, small)>>, <<T(BC, small), T(C, large)>>, << >>,
            <<T(C, bad), T(EmptyName, small)>>, <<T(X, large), T(H, small)>>,
            <<T(C, large), T(H, small), T(BC, small)>>}
MCDisabled == {{}, {C, H}}

(* An alias and a direct name that meet from one list to the next.         *)
SwapLists == {<<T(X, small)>>, <<T(H, small)>>}
SwapDisabled == {{}}
=============================================================================
