------------------------------ MODULE Catalog ------------------------------
(***************************************************************************)
(* What the publisher promises to the coordinators that share it           *)
(* (internal/catalog, internal/inbound/publisher.go): one request at a     *)
(* time is answered, an answer replaces the entry of the server that asked *)
(* and of no other, and what it stores was offered by that server, under   *)
(* the name it was offered for, which no other server has.  Publisher.tla  *)
(* shows that the filter, the two passes over the names, the checks of the *)
(* candidates and the difference implement it.                             *)
(***************************************************************************)
CONSTANTS Servers, \* server ids
          Offer    \* a tool and its public name, fit to be published

VARIABLES entry,   \* server id -> public name -> tool
          asks     \* the publication in progress: no or one server and its offers

catalogVars == <<entry, asks>>

NoTools == [n \in {} |-> n]

CatalogInit ==
    /\ entry = [s \in Servers |-> NoTools]
    /\ asks = {}

Ask ==
    /\ asks = {}
    /\ \E a \in asks' :
           asks' = {a} /\ a \in [server : Servers, offers : SUBSET Offer]
    /\ UNCHANGED entry

Selections(offers) ==
    UNION {[N -> {o.tool : o \in offers}] : N \in SUBSET {o.public : o \in offers}}

Acceptable(a, m) ==
    /\ \A n \in DOMAIN m : [public |-> n, tool |-> m[n]] \in a.offers
    /\ \A t \in Servers \ {a.server} : DOMAIN m \cap DOMAIN entry[t] = {}

SameDefinitions(m, e) ==
    DOMAIN m = DOMAIN e /\ \A n \in DOMAIN m : m[n].def = e[n].def

(* An entry whose names and definitions would not change may stay, with    *)
(* the original names it had.                                              *)
Answer(a) ==
    /\ a \in asks
    /\ asks' = {}
    /\ \E m \in Selections(a.offers) :
           /\ Acceptable(a, m)
           /\ \/ entry' = [entry EXCEPT ![a.server] = m]
              \/ SameDefinitions(m, entry[a.server]) /\ UNCHANGED entry

Remove(s) ==
    /\ asks = {}
    /\ entry' = [entry EXCEPT ![s] = NoTools]
    /\ UNCHANGED asks

CatalogNext ==
    \/ Ask
    \/ \E a \in asks : Answer(a)
    \/ \E s \in Servers : Remove(s)

CatalogSpec == CatalogInit /\ [][CatalogNext]_catalogVars
=============================================================================
