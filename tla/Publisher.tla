------------------------------ MODULE Publisher ------------------------------
(***************************************************************************)
(* The tool catalog of all servers (internal/catalog) and the Publisher    *)
(* that keeps the MCP SDK's registry of tools in step with it              *)
(* (internal/inbound/publisher.go).                                        *)
(*                                                                         *)
(* PublishServer and RemoveServer hold publishMu for writing from beginning *)
(* to end, so there is one publication at a time and its locals are        *)
(* variables.  Its loops are steps: calls of tools look into the registry  *)
(* without publishMu and can come between any two of them.  tools/list     *)
(* holds publishMu for reading: it sees the registry when pc is "idle".    *)
(*                                                                         *)
(* Abstractions.  A name is the sequence of the parts "__" separates, so   *)
(* that servers a and a__b can form one public name.  A definition is a    *)
(* value with a size and a validity; the sizes of the catalog are small.   *)
(* The reason of a refused tool is the check that refused it.  An invalid  *)
(* server id changes nothing and is left out.                              *)
(***************************************************************************)
EXTENDS Integers, Sequences, FiniteSets, Functions

CONSTANTS Servers,             \* server ids, as sequences of parts
          Originals,           \* the downstreams' names, as sequences of parts
          DirectValid,         \* <<s, o>> whose direct name is valid
          Hash,                \* the part that stands for the hash of <<s, o>>
          Defs, ValidDefs,     \* tool definitions; those ValidateTool accepts
          Size,                \* the encoded size of a definition
          Lists,               \* what a downstream may list
          DisabledSets,        \* what a configuration may disable
          MaxToolsPerServer, MaxTotalTools, MaxCatalogBytes,
          MaxRevision          \* bound on the exploration

EmptyName == << >>

Tool == [name : Originals, def : Defs]

(* A downstream that lists a name twice is refused (session.go:            *)
(* ListAllTools).                                                          *)
ASSUME ListsAssumption ==
    /\ Lists \subseteq Seq(Tool)
    /\ \A list \in Lists : \A j, k \in DOMAIN list :
           list[j].name = list[k].name => j = k

ASSUME RevisionAssumption == MaxRevision \in Nat

ASSUME CapacityAssumption ==
    /\ IsFiniteSet(Servers)
    /\ Size \in [Defs -> Nat]
    /\ MaxToolsPerServer \in Nat /\ MaxTotalTools \in Nat /\ MaxCatalogBytes \in Nat

VARIABLES
    servers,       \* server id -> public name -> the registered tool
    unpublished,   \* server id -> the tools not published, and why
    known,         \* server ids with an entry in the catalog's maps
    revision,
    routes,        \* the snapshot: public name -> server, original name, tool
    registry,      \* the SDK server: public name -> definition
    pc, srv, raw, disabled, tools, idx, claimed, err, acc, unpub, toAdd,
    toRemove,
    last,          \* history: server id -> what was last published for it
    before         \* history: the names registered before this publication

catalog == <<servers, unpublished, known, revision, routes>>
locals  == <<srv, raw, disabled, tools, idx, claimed, err, acc, unpub, toAdd,
             toRemove>>
history == <<last, before>>
vars    == <<catalog, registry, pc, locals, history>>

(* <serverID>__<originalName> if that is a valid name, else the alias that  *)
(* carries the hash.                                                        *)
IsDirect(s, o) == <<s, o>> \in DirectValid

PublicName(s, o) == s \o IF IsDirect(s, o) THEN o ELSE <<Hash[<<s, o>>]>>

NoMap == [n \in {} |-> n]

Put(f, n, v) == [m \in DOMAIN f \cup {n} |-> IF m = n THEN v ELSE f[m]]

Without(f, S) == [m \in DOMAIN f \ S |-> f[m]]

Names(s) == DOMAIN servers[s]

Others(s) == UNION {Names(t) : t \in Servers \ {s}}

ToolCount(ss) == SumFunctionOnSet([t \in Servers |-> Cardinality(Names(t))], ss)

Bytes(m) == SumFunction([n \in DOMAIN m |-> Size[m[n].def]])

ByteCount(ss) == SumFunctionOnSet([t \in Servers |-> Bytes(servers[t])], ss)

(* rebuildSnapshot: the routes of all servers.                             *)
Rebuild(sv) ==
    [n \in UNION {DOMAIN sv[s] : s \in Servers} |->
        LET s == CHOOSE s \in Servers : n \in DOMAIN sv[s]
        IN  [server |-> s, name |-> sv[s][n].name, def |-> sv[s][n].def]]

Init ==
    /\ servers = [s \in Servers |-> NoMap]
    /\ unpublished = [s \in Servers |-> << >>]
    /\ known = {}
    /\ revision = 0
    /\ routes = NoMap
    /\ registry = NoMap
    /\ pc = "idle"
    /\ srv \in Servers
    /\ raw = << >> /\ disabled = {} /\ tools = << >> /\ idx = 1 /\ claimed = {}
    /\ err = << >> /\ acc = NoMap /\ unpub = << >> /\ toAdd = {} /\ toRemove = {}
    /\ last = [s \in Servers |-> << >>]
    /\ before = {}

-----------------------------------------------------------------------------
(* PublishServer: publishMu, then UpdateServerTools.                       *)
PublishServer(s, list, dis) ==
    /\ pc = "idle"
    /\ revision < MaxRevision
    /\ pc' = "filter"
    /\ srv' = s
    /\ raw' = list
    /\ disabled' = dis
    /\ last' = [last EXCEPT ![s] = list]
    /\ before' = DOMAIN registry
    /\ UNCHANGED <<catalog, registry, tools, idx, claimed, err, acc, unpub,
                   toAdd, toRemove>>

Claimed_SameServerOnly(s) == {}

Claimed(s) == Others(s)

(* The disabled tools are set aside; then the names of all other servers   *)
(* are claimed.                                                            *)
filterDisabled ==
    /\ pc = "filter"
    /\ \/ /\ idx <= Len(raw)
          /\ idx' = idx + 1
          /\ IF raw[idx].name \in disabled
             THEN /\ unpub' = Append(unpub, [name |-> raw[idx].name,
                                             reason |-> "disabled"])
                  /\ UNCHANGED tools
             ELSE tools' = Append(tools, raw[idx]) /\ UNCHANGED unpub
          /\ UNCHANGED <<pc, claimed, err>>
       \/ /\ idx > Len(raw)
          /\ idx' = 1
          /\ pc' = "direct"
          /\ claimed' = Claimed(srv)
          /\ err' = [j \in DOMAIN tools |->
                         IF tools[j].name = EmptyName THEN "empty" ELSE "none"]
          /\ UNCHANGED <<tools, unpub>>
    /\ UNCHANGED <<catalog, registry, srv, raw, disabled, acc, toAdd, toRemove,
                   history>>

(* ResolveNamesWithPriority: one pass over the tools for the direct names, *)
(* then one for the aliases.                                               *)

candidate == PublicName(srv, tools[idx].name)

Loop(label, next) ==
    /\ pc = label
    /\ \/ idx <= Len(tools) /\ idx' = idx + 1 /\ pc' = label
       \/ idx > Len(tools) /\ idx' = 1 /\ pc' = next

collides_OtherServers == candidate \in Others(srv)

collides == candidate \in claimed

allocate(direct) ==
    IF /\ idx <= Len(tools)
       /\ err[idx] = "none"
       /\ IsDirect(srv, tools[idx].name) = direct
    THEN /\ err' = [err EXCEPT ![idx] = IF collides THEN "collision" ELSE @]
         /\ claimed' = claimed \cup {candidate}
    ELSE UNCHANGED <<err, claimed>>

allocateDirect ==
    /\ Loop("direct", "alias")
    /\ allocate(TRUE)
    /\ UNCHANGED <<catalog, registry, srv, raw, disabled, tools, acc, unpub,
                   toAdd, toRemove, history>>

allocateAlias ==
    /\ Loop("alias", "accept")
    /\ allocate(FALSE)
    /\ UNCHANGED <<catalog, registry, srv, raw, disabled, tools, acc, unpub,
                   toAdd, toRemove, history>>

(* UpdateServerTools, the checks of every candidate in their order.        *)

refusal_TotalOffByOne ==
    LET t == tools[idx] IN
    CASE err[idx] # "none" -> err[idx]
      [] t.def \notin ValidDefs -> "invalid"
      [] Cardinality(DOMAIN acc) >= MaxToolsPerServer -> "server limit"
      [] ToolCount(Servers \ {srv}) + Cardinality(DOMAIN acc) > MaxTotalTools ->
             "total limit"
      [] ByteCount(Servers \ {srv}) + Bytes(acc) + Size[t.def]
             > MaxCatalogBytes -> "size limit"
      [] OTHER -> "none"

refusal ==
    LET t == tools[idx] IN
    CASE err[idx] # "none" -> err[idx]
      [] t.def \notin ValidDefs -> "invalid"
      [] Cardinality(DOMAIN acc) >= MaxToolsPerServer -> "server limit"
      [] ToolCount(Servers \ {srv}) + Cardinality(DOMAIN acc) >= MaxTotalTools ->
             "total limit"
      [] ByteCount(Servers \ {srv}) + Bytes(acc) + Size[t.def]
             > MaxCatalogBytes -> "size limit"
      [] OTHER -> "none"

acceptTool ==
    /\ Loop("accept", "diff")
    /\ LET t == tools[idx] IN
       IF idx > Len(tools) THEN UNCHANGED <<acc, unpub>>
       ELSE IF refusal = "none"
       THEN acc' = Put(acc, candidate, t) /\ UNCHANGED unpub
       ELSE /\ unpub' = Append(unpub, [name |-> t.name, reason |-> refusal])
            /\ UNCHANGED acc
    /\ UNCHANGED <<catalog, registry, srv, raw, disabled, tools, claimed, err,
                   toAdd, toRemove, history>>

(* UpdateServerTools, the difference with what the server had published.   *)

added == {n \in DOMAIN acc :
              n \notin Names(srv) \/ servers[srv][n].def # acc[n].def}

dropped == Names(srv) \ DOMAIN acc

hasChanges_NamesOnly == DOMAIN acc # Names(srv)

hasChanges_PublishedOnly == added # {} \/ dropped # {}

hasChanges ==
    \/ added # {} \/ dropped # {}
    \/ unpub # unpublished[srv]
    \/ DOMAIN acc = {} /\ Names(srv) # {}

diffTools ==
    /\ pc = "diff"
    /\ toAdd' = added
    /\ toRemove' = dropped
    /\ IF hasChanges
       THEN /\ servers' = [servers EXCEPT ![srv] = acc]
            /\ unpublished' = [unpublished EXCEPT ![srv] = unpub]
            /\ known' = known \cup {srv}
            /\ revision' = revision + 1
            /\ routes' = Rebuild(servers')
       ELSE UNCHANGED catalog
    /\ pc' = "unregister"
    /\ UNCHANGED <<registry, srv, raw, disabled, tools, idx, claimed, err, acc,
                   unpub, history>>

(* The SDK registry: RemoveTools in one call, then AddTool tool by tool.   *)

unregister_All == registry' = Without(registry, toRemove \cup toAdd)

unregister == registry' = Without(registry, toRemove)

removeTools ==
    /\ pc = "unregister"
    /\ unregister
    /\ toRemove' = {}
    /\ pc' = "register"
    /\ UNCHANGED <<catalog, srv, raw, disabled, tools, idx, claimed, err, acc,
                   unpub, toAdd, history>>

addTool(n) ==
    /\ pc = "register"
    /\ n \in toAdd
    /\ registry' = Put(registry, n, acc[n].def)
    /\ toAdd' = toAdd \ {n}
    /\ UNCHANGED <<catalog, pc, srv, raw, disabled, tools, idx, claimed, err,
                   acc, unpub, toRemove, history>>

unlock_Early ==
    /\ pc = "register"
    /\ pc' = "idle"
    /\ raw' = << >> /\ disabled' = {} /\ tools' = << >> /\ idx' = 1
    /\ claimed' = {} /\ err' = << >> /\ acc' = NoMap /\ unpub' = << >>
    /\ before' = {}
    /\ UNCHANGED <<catalog, registry, srv, toAdd, toRemove, last>>

unlock ==
    /\ pc = "register"
    /\ toAdd = {}
    /\ pc' = "idle"
    /\ raw' = << >> /\ disabled' = {} /\ tools' = << >> /\ idx' = 1
    /\ claimed' = {} /\ err' = << >> /\ acc' = NoMap /\ unpub' = << >>
    /\ before' = {}
    /\ UNCHANGED <<catalog, registry, srv, toAdd, toRemove, last>>

(* RemoveServer: nothing to do for a server the catalog does not know.     *)

RemoveServer_KeepsRoutes(s) ==
    /\ pc = "idle"
    /\ revision < MaxRevision
    /\ Names(s) # {} \/ s \in known
    /\ pc' = "unregister"
    /\ srv' = s
    /\ toRemove' = Names(s)
    /\ servers' = [servers EXCEPT ![s] = NoMap]
    /\ unpublished' = [unpublished EXCEPT ![s] = << >>]
    /\ known' = known \ {s}
    /\ revision' = revision + 1
    /\ last' = [last EXCEPT ![s] = << >>]
    /\ before' = DOMAIN registry
    /\ UNCHANGED <<routes, registry, raw, disabled, tools, idx, claimed, err, acc,
                   unpub, toAdd>>

RemoveServer(s) ==
    /\ pc = "idle"
    /\ revision < MaxRevision
    /\ Names(s) # {} \/ s \in known
    /\ pc' = "unregister"
    /\ srv' = s
    /\ toRemove' = Names(s)
    /\ servers' = [servers EXCEPT ![s] = NoMap]
    /\ unpublished' = [unpublished EXCEPT ![s] = << >>]
    /\ known' = known \ {s}
    /\ revision' = revision + 1
    /\ routes' = Rebuild(servers')
    /\ last' = [last EXCEPT ![s] = << >>]
    /\ before' = DOMAIN registry
    /\ UNCHANGED <<registry, raw, disabled, tools, idx, claimed, err, acc, unpub,
                   toAdd>>

publication ==
    \/ filterDisabled \/ allocateDirect \/ allocateAlias \/ acceptTool
    \/ diffTools \/ removeTools \/ unlock \/ \E n \in toAdd : addTool(n)

Next ==
    \/ publication
    \/ \E s \in Servers, list \in Lists, dis \in DisabledSets :
           PublishServer(s, list, dis)
    \/ \E s \in Servers : RemoveServer(s)

Spec == Init /\ [][Next]_vars

-----------------------------------------------------------------------------
AllNames == {PublicName(s, o) : s \in Servers, o \in Originals}

IsMap(f, V) == DOMAIN f \subseteq AllNames /\ f \in [DOMAIN f -> V]

Reasons == {"disabled", "empty", "collision", "invalid", "server limit",
            "total limit", "size limit"}

Labels == {"idle", "filter", "direct", "alias", "accept", "diff",
           "unregister", "register"}

(* The catalog maps names to tools, its lists hold tools with a reason, a  *)
(* loop stays within its list, and a publication leaves no work behind.    *)
TypeOK ==
    /\ DOMAIN servers = Servers /\ \A s \in Servers : IsMap(servers[s], Tool)
    /\ unpublished \in [Servers -> Seq([name : Originals, reason : Reasons])]
    /\ known \subseteq Servers
    /\ revision \in 0..MaxRevision
    /\ IsMap(routes, [server : Servers, name : Originals, def : Defs])
    /\ IsMap(registry, Defs)
    /\ pc \in Labels
    /\ srv \in Servers
    /\ raw \in Seq(Tool)
    /\ tools \in Seq(Tool)
    /\ idx \in 1..Len(IF pc = "filter" THEN raw ELSE tools) + 1
    /\ claimed \subseteq AllNames
    /\ pc # "filter" =>
           err \in [DOMAIN tools -> {"none", "empty", "collision"}]
    /\ IsMap(acc, Tool)
    /\ unpub \in Seq([name : Originals, reason : Reasons])
    /\ toAdd \subseteq DOMAIN acc
    /\ toRemove \subseteq AllNames
    /\ last \in [Servers -> Seq(Tool)]
    /\ pc \notin {"unregister", "register"} => toAdd = {} /\ toRemove = {}

(* A public name belongs to one server: a publication never takes a name   *)
(* another server has published (catalog.go: UpdateServerTools collects    *)
(* claimedNames; rebuildSnapshot writes all servers into one map).         *)
UniqueNames ==
    \A s, t \in Servers : s # t => Names(s) \cap Names(t) = {}

(* When publishMu is free, which is when tools/list runs, the registry     *)
(* holds the tools of the snapshot and no others, in their current         *)
(* definitions, although only differences are applied to it (publisher.go: *)
(* PublishServer, RemoveServer, installListMiddleware).                    *)
RegistryFollows ==
    pc = "idle" => registry = [n \in DOMAIN routes |-> routes[n].def]

(* A tool published before and after a publication can be called all the   *)
(* way through it: a changed definition replaces the old one, nothing is   *)
(* removed first (publisher.go: PublishServer).                            *)
StaysRegistered ==
    pc # "idle" => before \cap DOMAIN routes \subseteq DOMAIN registry

(* What the two passes of ResolveNamesWithPriority are to decide, without  *)
(* the passes: a name goes to the first direct candidate for it, or to the *)
(* first alias if there is none, unless another server has it.             *)
Beats(j, k) ==
    LET d(m) == IsDirect(srv, tools[m].name)
    IN  IF d(j) = d(k) THEN j < k ELSE d(j)

Decision(j) ==
    LET n(m) == PublicName(srv, tools[m].name) IN
    IF tools[j].name = EmptyName THEN "empty"
    ELSE IF \/ n(j) \in Others(srv)
            \/ \E k \in DOMAIN tools : /\ tools[k].name # EmptyName
                                       /\ n(k) = n(j) /\ Beats(k, j)
         THEN "collision" ELSE "none"

(* The two passes decide just that (naming.go: ResolveNamesWithPriority).  *)
DirectNamesFirst ==
    pc \in {"accept", "diff"} => \A j \in DOMAIN tools : err[j] = Decision(j)

(* The three limits hold for the catalog as a whole after any sequence of  *)
(* publications, although each looks at one server (catalog.go:            *)
(* UpdateServerTools).                                                     *)
CapacityKept ==
    /\ \A s \in Servers : Cardinality(Names(s)) <= MaxToolsPerServer
    /\ ToolCount(Servers) <= MaxTotalTools
    /\ ByteCount(Servers) <= MaxCatalogBytes

(* A route leads to the server and the original name of a tool its server  *)
(* lists, in the definition it lists (route.go: RouteEntry; catalog.go:    *)
(* the difference that decides whether a publication is stored).           *)
RouteIsCurrent ==
    pc = "idle" => \A n \in DOMAIN routes :
        LET r == routes[n] IN
        /\ PublicName(r.server, r.name) = n
        /\ \E j \in DOMAIN last[r.server] :
               last[r.server][j] = [name |-> r.name, def |-> r.def]

(* Every tool of a server's list is published or among the tools that are  *)
(* not, with a reason, and never both (catalog.go: UpdateServerTools).     *)
EveryToolAccounted ==
    pc = "idle" => \A s \in Servers : \A j \in DOMAIN last[s] :
        LET o == last[s][j].name
            published == \E n \in Names(s) : servers[s][n].name = o
            refused == \E k \in DOMAIN unpublished[s] :
                           unpublished[s][k].name = o
        IN  published # refused

(* What the publication in progress may publish: the tools of its list     *)
(* that have a name and a valid definition and are not disabled, each      *)
(* under its public name.                                                  *)
Offers ==
    {[public |-> PublicName(srv, raw[j].name), tool |-> raw[j]] :
        j \in {k \in DOMAIN raw : /\ raw[k].name \notin disabled \cup {EmptyName}
                                  /\ raw[k].def \in ValidDefs}}

asksOf ==
    IF pc \in {"filter", "direct", "alias", "accept", "diff"}
    THEN {[server |-> srv, offers |-> Offers]} ELSE {}

Store == INSTANCE Catalog
             WITH Offer <- [public : AllNames, tool : Tool], entry <- servers,
                  asks <- asksOf

(* A publication replaces the entry of its own server and of no other, by  *)
(* tools of its list that are valid and not disabled, each under its own   *)
(* public name and under no name another server has; between the lock and  *)
(* the difference the catalog does not move (catalog.go:                   *)
(* UpdateServerTools, RemoveServer; naming.go: ResolveNamesWithPriority).  *)
ImplementsCatalog == Store!CatalogSpec
=============================================================================
