------------------------------ MODULE MCServe ------------------------------
(* A small instance of Serve for TLC. *)
EXTENDS Serve

Good == [tls |-> FALSE, peer |-> "proxy", proto |-> "https", origin |-> FALSE,
         token |-> "t", host |-> "hub", stateless |-> FALSE]

(* A good request and one for each reason to turn a request away. *)
MCQueries == {Good, [Good EXCEPT !.peer = "other"], [Good EXCEPT !.origin = TRUE],
              [Good EXCEPT !.token = "x"], [Good EXCEPT !.host = "elsewhere"],
              [Good EXCEPT !.stateless = TRUE]}
MCTokenSets == {{"t"}, {}}
=============================================================================
