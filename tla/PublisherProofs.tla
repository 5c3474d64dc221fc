-------------------------- MODULE PublisherProofs --------------------------
(***************************************************************************)
(* Proofs about Publisher, for any servers, names, definitions, lists and  *)
(* limits.                                                                 *)
(***************************************************************************)
EXTENDS Publisher, FiniteSetTheorems, WellFoundedInduction, TLAPS

Naming == {"direct", "alias", "accept", "diff"}

Name(j) == PublicName(srv, tools[j].name)

(* The tools the two passes have looked at so far.                         *)
Seen(j) ==
    \/ pc \in {"accept", "diff"}
    \/ pc = "direct" /\ IsDirect(srv, tools[j].name) /\ j < idx
    \/ pc = "alias" /\ (IsDirect(srv, tools[j].name) \/ j < idx)

Given == {k \in DOMAIN tools : Seen(k) /\ tools[k].name # EmptyName}

(* The loop invariant of the two passes: what is claimed is what others    *)
(* have and what was given away, and what is decided is decided right.     *)
NamingInv ==
    pc \in Naming =>
        /\ claimed = Others(srv) \cup {Name(j) : j \in Given}
        /\ \A j \in DOMAIN tools :
               err[j] = IF Seen(j) \/ tools[j].name = EmptyName
                        THEN Decision(j) ELSE "none"

(* What is accepted is nobody else's.                                      *)
AcceptInv ==
    pc \in {"accept", "diff"} => DOMAIN acc \cap Others(srv) = {}

(* What the registry has still to be told.                                 *)
RegistryInv ==
    /\ routes = Rebuild(servers)
    /\ pc \notin {"unregister", "register"} =>
           registry = [n \in DOMAIN routes |-> routes[n].def]
    /\ pc \in {"unregister", "register"} =>
           /\ toRemove \cap DOMAIN routes = {}
           /\ toAdd \subseteq DOMAIN routes
           /\ DOMAIN routes \ toAdd \subseteq DOMAIN registry
           /\ DOMAIN registry \subseteq DOMAIN routes \cup toRemove
           /\ \A n \in DOMAIN routes \ toAdd : registry[n] = routes[n].def
           /\ \A n \in toAdd : acc[n].def = routes[n].def
           /\ pc = "register" => toRemove = {}

(* Before the registry is touched it holds what it held.                   *)
BeforeInv ==
    /\ pc \in Naming \cup {"filter"} => before = DOMAIN registry
    /\ StaysRegistered

(* Tables are functions, loops run over sequences, and a publication begins *)
(* with nothing accepted and leaves no work behind.                        *)
Shape ==
    /\ servers = [s \in Servers |-> servers[s]]
    /\ registry = [n \in DOMAIN registry |-> registry[n]]
    /\ pc \in Labels /\ srv \in Servers
    /\ raw \in Seq(Tool) /\ tools \in Seq(Tool) /\ idx \in Nat \ {0}
    /\ pc \in Naming => err = [j \in DOMAIN tools |-> err[j]]
    /\ pc \in {"idle", "filter", "direct", "alias"} => acc = NoMap
    /\ pc \notin {"unregister", "register"} => toAdd = {} /\ toRemove = {}

IInv ==
    Shape /\ UniqueNames /\ NamingInv /\ AcceptInv /\ RegistryInv /\ BeforeInv

-----------------------------------------------------------------------------
Unique(sv) ==
    \A s, t \in Servers : s # t => DOMAIN sv[s] \cap DOMAIN sv[t] = {}

(* rebuildSnapshot, for servers that share no name.                        *)
LEMMA RebuildRoutes ==
  ASSUME NEW sv, Unique(sv), NEW s \in Servers, NEW n \in DOMAIN sv[s]
  PROVE  /\ n \in DOMAIN Rebuild(sv)
         /\ Rebuild(sv)[n] =
                [server |-> s, name |-> sv[s][n].name, def |-> sv[s][n].def]
  <1> DEFINE t == CHOOSE t \in Servers : n \in DOMAIN sv[t]
  <1>1. t \in Servers /\ n \in DOMAIN sv[t]  BY Zenon
  <1>2. t = s  BY <1>1, Zenon DEF Unique
  <1> HIDE DEF t
  <1>3. n \in UNION {DOMAIN sv[u] : u \in Servers}  BY Zenon
  <1>4. Rebuild(sv)[n] =
            [server |-> t, name |-> sv[t][n].name, def |-> sv[t][n].def]
    BY <1>3, Zenon DEF Rebuild, t
  <1> QED  BY <1>2, <1>3, <1>4, Zenon DEF Rebuild

LEMMA RebuildDef ==
  ASSUME NEW sv, Unique(sv), NEW s \in Servers, NEW n \in DOMAIN sv[s]
  PROVE  n \in DOMAIN Rebuild(sv) /\ Rebuild(sv)[n].def = sv[s][n].def
  <1>1. /\ n \in DOMAIN Rebuild(sv)
        /\ Rebuild(sv)[n] =
               [server |-> s, name |-> sv[s][n].name, def |-> sv[s][n].def]
    BY RebuildRoutes, Zenon
  <1> QED BY <1>1

LEMMA RebuildDomain ==
  ASSUME NEW sv, NEW n \in DOMAIN Rebuild(sv)
  PROVE  \E s \in Servers : n \in DOMAIN sv[s]
  BY Zenon DEF Rebuild

-----------------------------------------------------------------------------
LEMMA InitIInv == Init => IInv
  <1> SUFFICES ASSUME Init PROVE IInv
    BY Zenon
  <1>1. pc = "idle" /\ servers = [s \in Servers |-> NoMap] /\ DOMAIN NoMap = {}
    BY Zenon DEF Init, NoMap
  <1>2. Shape
    <2>1. << >> \in Seq(Tool)
      OBVIOUS
    <2>2. registry = [n \in DOMAIN registry |-> registry[n]]
      BY Zenon DEF Init, NoMap
    <2>3. servers = [s \in Servers |-> servers[s]]
      BY <1>1, Zenon
    <2> QED BY <2>1, <2>2, <2>3 DEF Init, Shape, Labels, Naming
  <1>3. UniqueNames
    BY <1>1, Zenon DEF UniqueNames, Names
  <1>4. RegistryInv
    <2>1. DOMAIN Rebuild(servers) = {}
      BY <1>1, Zenon DEF Rebuild
    <2>2. Rebuild(servers) = NoMap
      BY <2>1, Zenon DEF Rebuild, NoMap
    <2>3. routes = NoMap /\ registry = NoMap
      BY Zenon DEF Init
    <2>4. registry = [n \in DOMAIN routes |-> routes[n].def]
      BY <2>3, Zenon DEF NoMap
    <2> QED BY <1>1, <2>2, <2>3, <2>4, Zenon DEF RegistryInv
  <1> QED BY <1>1, <1>2, <1>3, <1>4, Zenon
        DEF IInv, NamingInv, AcceptInv, BeforeInv, StaysRegistered, Naming

-----------------------------------------------------------------------------
(* A publication that has not come to the difference leaves the catalog and *)
(* the registry alone.                                                     *)
LEMMA QuietCatalog ==
  ASSUME UniqueNames, RegistryInv, UNCHANGED <<servers, routes, registry>>,
         pc \notin {"unregister", "register"}, pc' \notin {"unregister", "register"}
  PROVE  UniqueNames' /\ RegistryInv'
  <1>1. UniqueNames'
    BY Zenon DEF UniqueNames, Names
  <1>2. routes' = Rebuild(servers)'
    <2>1. Rebuild(servers)' = Rebuild(servers)
      BY Zenon DEF Rebuild
    <2> QED BY <2>1, Zenon DEF RegistryInv
  <1>3. registry' = [n \in DOMAIN routes' |-> routes'[n].def]
    BY Zenon DEF RegistryInv
  <1>4. RegistryInv'
    BY <1>2, <1>3, Zenon DEF RegistryInv
  <1> QED BY <1>1, <1>4, Zenon

LEMMA QuietBefore ==
  ASSUME BeforeInv, UNCHANGED <<routes, registry, before>>,
         pc \in Naming \cup {"filter"}, pc' \in Naming \cup {"filter"}
  PROVE  BeforeInv'
  BY Zenon DEF BeforeInv, StaysRegistered, Naming

LEMMA PublishStep ==
  ASSUME IInv, NEW s \in Servers, NEW list \in Lists, NEW dis \in DisabledSets,
         PublishServer(s, list, dis)
  PROVE  IInv'
  <1>1. /\ pc = "idle" /\ pc' = "filter" /\ srv' = s /\ raw' = list
        /\ before' = DOMAIN registry
        /\ UNCHANGED <<servers, routes, registry, tools, idx, acc, toAdd, toRemove>>
    BY Zenon DEF PublishServer, catalog
  <1>2. UniqueNames' /\ RegistryInv'
    BY <1>1, QuietCatalog, Zenon DEF IInv
  <1>3. Shape'
    BY <1>1, ListsAssumption, Zenon DEF IInv, Shape, Labels, Naming
  <1>4. BeforeInv'
    BY <1>1, Zenon DEF BeforeInv, StaysRegistered, Naming
  <1> QED BY <1>1, <1>2, <1>3, <1>4, Zenon DEF IInv, NamingInv, AcceptInv, Naming

LEMMA FilterStep ==
  ASSUME IInv, filterDisabled
  PROVE  IInv'
  <1>1. /\ pc = "filter" /\ pc' \in {"filter", "direct"}
        /\ UNCHANGED <<servers, routes, registry, srv, raw, acc, toAdd, toRemove, before>>
    BY Zenon DEF filterDisabled, catalog, history
  <1>2. UniqueNames' /\ RegistryInv'
    BY <1>1, QuietCatalog, Zenon DEF IInv
  <1>3. BeforeInv'
    BY <1>1, QuietBefore, Zenon DEF IInv, Naming
  <1>4. CASE pc' = "filter"
    <2>1. idx' = idx + 1 /\ idx <= Len(raw)
      BY <1>4, Zenon DEF filterDisabled
    <2>2. raw[idx] \in Tool
      BY <2>1 DEF IInv, Shape
    <2>3. tools' \in Seq(Tool)
      <3>1. tools' = tools \/ tools' = Append(tools, raw[idx])
        BY <1>4, Zenon DEF filterDisabled
      <3> QED BY <2>2, <3>1, SMTT(30) DEF IInv, Shape
    <2>4. Shape'
      BY <1>1, <1>4, <2>1, <2>3 DEF IInv, Shape, Labels, Naming
    <2> QED BY <1>2, <1>3, <1>4, <2>4, Zenon DEF IInv, NamingInv, AcceptInv, Naming
  <1>5. CASE pc' = "direct"
    <2>1. /\ idx' = 1 /\ tools' = tools /\ claimed' = Others(srv)
          /\ err' = [j \in DOMAIN tools |->
                       IF tools[j].name = EmptyName THEN "empty" ELSE "none"]
      BY <1>1, <1>5, Zenon DEF filterDisabled, Claimed
    <2>2. Shape'
      BY <1>1, <1>5, <2>1 DEF IInv, Shape, Labels, Naming
    <2>3. DOMAIN tools \subseteq Nat \ {0}
      BY DEF IInv, Shape
    <2>4. \A j \in DOMAIN tools : ~Seen(j)'
      BY <1>5, <2>1, <2>3 DEF Seen
    <2>5. Others(srv)' = Others(srv)
      BY <1>1, Zenon DEF Others, Names
    <2>6. claimed' = Others(srv)' \cup {Name(j)' : j \in Given'}
      BY <2>1, <2>4, <2>5, Zenon DEF Given
    <2>7. \A j \in DOMAIN tools' :
            err'[j] = IF Seen(j)' \/ tools'[j].name = EmptyName THEN Decision(j)' ELSE "none"
      <3> SUFFICES ASSUME NEW j \in DOMAIN tools
                   PROVE  err'[j] = IF Seen(j)' \/ tools'[j].name = EmptyName
                                    THEN Decision(j)' ELSE "none"
        BY <2>1, Zenon
      <3>1. CASE tools[j].name = EmptyName
        BY <2>1, <3>1, Zenon DEF Decision
      <3>2. CASE tools[j].name # EmptyName
        BY <2>1, <2>4, <3>2, Zenon
      <3> QED BY <3>1, <3>2, Zenon
    <2>8. NamingInv'
      BY <2>6, <2>7, Zenon DEF NamingInv
    <2> QED BY <1>2, <1>3, <1>5, <2>2, <2>8, Zenon DEF IInv, AcceptInv
  <1> QED BY <1>1, <1>4, <1>5, Zenon

-----------------------------------------------------------------------------
(* The turn of a tool in its own pass: those seen are those that beat it.  *)
LEMMA TurnDecides ==
  ASSUME Shape, NamingInv, idx \in DOMAIN tools, tools[idx].name # EmptyName,
         \/ pc = "direct" /\ IsDirect(srv, tools[idx].name)
         \/ pc = "alias" /\ ~IsDirect(srv, tools[idx].name)
  PROVE  Decision(idx) = IF candidate \in claimed THEN "collision" ELSE "none"
  <1>1. \A k \in DOMAIN tools : Seen(k) <=> Beats(k, idx)
    <2>1. \A k \in DOMAIN tools : IsDirect(srv, tools[k].name) \in BOOLEAN
      BY DEF IsDirect
    <2> QED BY <2>1, Zenon DEF Seen, Beats
  <1>2. claimed = Others(srv) \cup {Name(j) : j \in Given}
    BY Zenon DEF NamingInv, Naming
  <1>3. candidate = Name(idx)
    BY Zenon DEF candidate, Name
  <1>4. candidate \in claimed <=>
          \/ Name(idx) \in Others(srv)
          \/ \E k \in DOMAIN tools : /\ tools[k].name # EmptyName
                                     /\ Name(k) = Name(idx) /\ Beats(k, idx)
    BY <1>1, <1>2, <1>3, Zenon DEF Given
  <1>5. Decision(idx) =
          IF \/ Name(idx) \in Others(srv)
             \/ \E k \in DOMAIN tools : /\ tools[k].name # EmptyName
                                        /\ Name(k) = Name(idx) /\ Beats(k, idx)
          THEN "collision" ELSE "none"
    BY Zenon DEF Decision, Name
  <1> QED BY <1>4, <1>5, Zenon

(* A pass reads tools and servers and changes neither.                     *)
LEMMA PassReads ==
  ASSUME UNCHANGED <<servers, srv, tools>>
  PROVE  /\ Others(srv)' = Others(srv)
         /\ \A j : Name(j)' = Name(j)
         /\ \A j : Decision(j)' = Decision(j)
  <1>1. Others(srv)' = Others(srv)
    BY Zenon DEF Others, Names
  <1>2. \A j : Name(j)' = Name(j)
    BY Zenon DEF Name, PublicName, IsDirect
  <1>3. ASSUME NEW j PROVE Decision(j)' = Decision(j)
    <2>1. \A k : Beats(k, j)' <=> Beats(k, j)
      BY Zenon DEF Beats, IsDirect
    <2> QED BY <1>1, <2>1, Zenon DEF Decision, PublicName, IsDirect
  <1> QED BY <1>1, <1>2, <1>3, Zenon

(* One turn of either pass.                                                *)
LEMMA TurnStep ==
  ASSUME Shape, NamingInv, NEW b \in BOOLEAN, pc = IF b THEN "direct" ELSE "alias",
         pc' = pc, idx <= Len(tools), idx' = idx + 1, allocate(b),
         UNCHANGED <<servers, srv, tools>>
  PROVE  NamingInv' /\ err' = [j \in DOMAIN tools' |-> err'[j]]
  <1>0. idx \in DOMAIN tools
    BY DEF Shape
  <1> PICK i \in DOMAIN tools : i = idx
    BY <1>0, Zenon
  <1> DEFINE d(j) == IsDirect(srv, tools[j].name)
             turn == err[i] = "none" /\ d(i) = b
  <1>1. idx \in DOMAIN tools /\ DOMAIN tools = 1..Len(tools) /\ Len(tools) \in Nat
    BY DEF Shape
  <1>2. /\ claimed = Others(srv) \cup {Name(j) : j \in Given}
        /\ \A j \in DOMAIN tools :
             err[j] = IF Seen(j) \/ tools[j].name = EmptyName THEN Decision(j) ELSE "none"
        /\ err = [j \in DOMAIN tools |-> err[j]]
    BY Zenon DEF NamingInv, Naming, Shape
  <1>3. \A j : d(j) \in BOOLEAN /\ d(j)' = d(j)
    BY DEF IsDirect
  <1>4. /\ Others(srv)' = Others(srv)
        /\ \A j : Name(j)' = Name(j)
        /\ \A j : Decision(j)' = Decision(j)
    BY PassReads, Zenon
  <1>5. \A j \in DOMAIN tools : j # i => (Seen(j)' <=> Seen(j))
    BY <1>1, <1>3 DEF Seen
  <1>6. /\ b => (Seen(i)' <=> d(i)) /\ ~Seen(i)
        /\ ~b => Seen(i)' /\ (Seen(i) <=> d(i))
    BY <1>1, <1>3 DEF Seen
  <1>7. CASE turn
    <2>1. tools[i].name # EmptyName /\ ~Seen(i)
      <3>1. ~Seen(i)
        BY <1>3, <1>6, <1>7, Zenon
      <3>2. ASSUME tools[i].name = EmptyName PROVE FALSE
        <4>1. Decision(i) = "empty" /\ err[i] = Decision(i)
          BY <1>1, <1>2, <3>2, Zenon DEF Decision
        <4> QED BY <1>7, <4>1, Zenon
      <3> QED BY <3>1, <3>2, Zenon
    <2>2. /\ err' = [err EXCEPT ![i] = IF collides THEN "collision" ELSE @]
          /\ claimed' = claimed \cup {candidate}
      BY <1>1, <1>7, Zenon DEF allocate
    <2>3. candidate = Name(i)
      BY Zenon DEF candidate, Name
    <2>4. Seen(i)'
      BY <1>3, <1>6, <1>7, Zenon
    <2>5. Given' = Given \cup {i}
      BY <1>1, <1>5, <2>1, <2>4, Zenon DEF Given
    <2>6. claimed' = Others(srv)' \cup {Name(j)' : j \in Given'}
      BY <1>2, <1>4, <2>2, <2>3, <2>5, Zenon
    <2>7. Decision(i) = IF candidate \in claimed THEN "collision" ELSE "none"
      <3>1. \/ pc = "direct" /\ d(i)
            \/ pc = "alias" /\ ~d(i)
        BY <1>3, <1>7, Zenon
      <3> QED BY <1>1, <2>1, <3>1, TurnDecides, Zenon
    <2>8. err'[i] = Decision(i)
      BY <1>1, <1>2, <1>7, <2>2, <2>7, Zenon DEF collides
    <2>9. \A j \in DOMAIN tools' :
            err'[j] = IF Seen(j)' \/ tools'[j].name = EmptyName THEN Decision(j)' ELSE "none"
      BY <1>2, <1>4, <1>5, <2>2, <2>4, <2>8, Zenon
    <2>10. err' = [j \in DOMAIN tools' |-> err'[j]]
      BY <1>2, <2>2, Zenon
    <2> QED BY <2>6, <2>9, <2>10, Zenon DEF NamingInv
  <1>8. CASE ~turn
    <2>1. UNCHANGED <<err, claimed>>
      BY <1>1, <1>8, Zenon DEF allocate
    <2>2. (Seen(i)' <=> Seen(i)) \/ tools[i].name = EmptyName
      <3>1. CASE d(i) # b
        BY <1>3, <1>6, <3>1, Zenon
      <3>2. CASE d(i) = b /\ err[i] # "none"
        BY <1>1, <1>2, <1>3, <1>6, <3>2, Zenon
      <3> QED BY <1>8, <3>1, <3>2, Zenon
    <2>3. Given' = Given
      BY <1>1, <1>5, <2>2, Zenon DEF Given
    <2>4. claimed' = Others(srv)' \cup {Name(j)' : j \in Given'}
      BY <1>2, <1>4, <2>1, <2>3, Zenon
    <2>5. \A j \in DOMAIN tools' :
            err'[j] = IF Seen(j)' \/ tools'[j].name = EmptyName THEN Decision(j)' ELSE "none"
      BY <1>2, <1>4, <1>5, <2>1, <2>2, Zenon
    <2>6. err' = [j \in DOMAIN tools' |-> err'[j]]
      BY <1>2, <2>1, Zenon
    <2> QED BY <2>4, <2>5, <2>6, Zenon DEF NamingInv
  <1> QED BY <1>7, <1>8, Zenon

(* The end of a pass.                                                      *)
LEMMA PassEnds ==
  ASSUME Shape, NamingInv, idx > Len(tools), idx' = 1,
         \/ pc = "direct" /\ pc' = "alias"
         \/ pc = "alias" /\ pc' = "accept",
         UNCHANGED <<servers, srv, tools, err, claimed>>
  PROVE  NamingInv' /\ err' = [j \in DOMAIN tools' |-> err'[j]]
  <1>1. DOMAIN tools = 1..Len(tools) /\ Len(tools) \in Nat /\ idx \in Nat
    BY DEF Shape
  <1>2. /\ claimed = Others(srv) \cup {Name(j) : j \in Given}
        /\ \A j \in DOMAIN tools :
             err[j] = IF Seen(j) \/ tools[j].name = EmptyName THEN Decision(j) ELSE "none"
        /\ err = [j \in DOMAIN tools |-> err[j]]
    BY Zenon DEF NamingInv, Naming, Shape
  <1>3. /\ Others(srv)' = Others(srv)
        /\ \A j : Name(j)' = Name(j)
        /\ \A j : Decision(j)' = Decision(j)
    BY PassReads, Zenon
  <1>4. \A j \in DOMAIN tools : Seen(j)' <=> Seen(j)
    BY <1>1 DEF Seen, IsDirect
  <1>5. Given' = Given
    BY <1>4, Zenon DEF Given
  <1>6. claimed' = Others(srv)' \cup {Name(j)' : j \in Given'}
    BY <1>2, <1>3, <1>5, Zenon
  <1>7. \A j \in DOMAIN tools' :
          err'[j] = IF Seen(j)' \/ tools'[j].name = EmptyName THEN Decision(j)' ELSE "none"
    BY <1>2, <1>3, <1>4, Zenon
  <1> QED BY <1>2, <1>6, <1>7, Zenon DEF NamingInv

LEMMA AllocateStep ==
  ASSUME IInv, allocateDirect \/ allocateAlias
  PROVE  IInv'
  <1>1. /\ pc \in {"direct", "alias"} /\ pc' \in {"direct", "alias", "accept"}
        /\ UNCHANGED <<servers, routes, registry, srv, raw, tools, acc, toAdd, toRemove,
                       before>>
    BY Zenon DEF allocateDirect, allocateAlias, Loop, catalog, history
  <1>2. UniqueNames' /\ RegistryInv'
    BY <1>1, QuietCatalog, Zenon DEF IInv
  <1>3. BeforeInv'
    BY <1>1, QuietBefore, Zenon DEF IInv, Naming
  <1>4. Shape /\ NamingInv /\ acc = NoMap
    BY <1>1, Zenon DEF IInv, Shape
  <1>5. idx' \in Nat \ {0} /\ NamingInv' /\ err' = [j \in DOMAIN tools' |-> err'[j]]
    <2>1. idx \in Nat \ {0} /\ Len(tools) \in Nat
      BY <1>4 DEF Shape
    <2>2. CASE idx <= Len(tools)
      <3>2. CASE allocateDirect
        <4>1. pc = "direct" /\ allocate(TRUE) /\ Loop("direct", "alias")
          BY <3>2, Zenon DEF allocateDirect, Loop
        <4>2. idx' = idx + 1 /\ pc' = "direct"
          BY <2>1, <2>2, <4>1 DEF Loop
        <4>3. NamingInv' /\ err' = [j \in DOMAIN tools' |-> err'[j]]
          <5>1. TRUE \in BOOLEAN /\ pc = (IF TRUE THEN "direct" ELSE "alias") /\ pc' = pc
            BY <4>1, <4>2, Zenon
          <5>2. UNCHANGED <<servers, srv, tools>>
            BY <1>1, Zenon
          <5> QED BY <1>4, <2>2, <4>1, <4>2, <5>1, <5>2, TurnStep, Zenon
        <4> QED BY <2>1, <4>2, <4>3
      <3>3. CASE allocateAlias
        <4>1. pc = "alias" /\ allocate(FALSE) /\ Loop("alias", "accept")
          BY <3>3, Zenon DEF allocateAlias, Loop
        <4>2. idx' = idx + 1 /\ pc' = "alias"
          BY <2>1, <2>2, <4>1 DEF Loop
        <4>3. NamingInv' /\ err' = [j \in DOMAIN tools' |-> err'[j]]
          <5>1. FALSE \in BOOLEAN /\ pc = (IF FALSE THEN "direct" ELSE "alias") /\ pc' = pc
            BY <4>1, <4>2, Zenon
          <5>2. UNCHANGED <<servers, srv, tools>>
            BY <1>1, Zenon
          <5> QED BY <1>4, <2>2, <4>1, <4>2, <5>1, <5>2, TurnStep, Zenon
        <4> QED BY <2>1, <4>2, <4>3
      <3> QED BY <3>2, <3>3, Zenon
    <2>3. CASE idx > Len(tools)
      <3>1. /\ idx' = 1 /\ UNCHANGED <<err, claimed>>
            /\ \/ pc = "direct" /\ pc' = "alias"
               \/ pc = "alias" /\ pc' = "accept"
        BY <2>1, <2>3 DEF allocateDirect, allocateAlias, Loop, allocate
      <3> QED BY <1>1, <1>4, <2>3, <3>1, PassEnds
    <2> QED BY <2>1, <2>2, <2>3
  <1>6. Shape'
    BY <1>1, <1>4, <1>5, Zenon DEF Shape, Labels
  <1>7. AcceptInv'
    BY <1>1, <1>4, Zenon DEF AcceptInv, NoMap
  <1> QED BY <1>2, <1>3, <1>5, <1>6, <1>7, Zenon DEF IInv

(* A tool is accepted when no check refuses it, the name's among them.     *)
LEMMA AcceptStep ==
  ASSUME IInv, acceptTool
  PROVE  IInv'
  <1>1. /\ pc = "accept" /\ pc' \in {"accept", "diff"}
        /\ UNCHANGED <<servers, routes, registry, srv, raw, tools, claimed, err, toAdd,
                       toRemove, before>>
    BY Zenon DEF acceptTool, Loop, catalog, history
  <1>2. UniqueNames' /\ RegistryInv'
    BY <1>1, QuietCatalog, Zenon DEF IInv
  <1>3. BeforeInv'
    BY <1>1, QuietBefore, Zenon DEF IInv, Naming
  <1>4. Shape /\ NamingInv /\ AcceptInv
    BY Zenon DEF IInv
  <1>5. Shape'
    <2>1. idx' \in Nat \ {0}
      BY <1>4 DEF acceptTool, Loop, Shape
    <2> QED BY <1>1, <1>4, <2>1, Zenon DEF Shape, Labels, Naming
  <1>6. /\ Others(srv)' = Others(srv)
        /\ \A j : Name(j)' = Name(j)
        /\ \A j : Decision(j)' = Decision(j)
    BY <1>1, PassReads, Zenon
  <1>7. /\ claimed = Others(srv) \cup {Name(j) : j \in Given}
        /\ \A j \in DOMAIN tools : err[j] = Decision(j)
    BY <1>1, <1>4, Zenon DEF NamingInv, Naming, Seen
  <1>8. \A j : Seen(j)' /\ Seen(j)
    BY <1>1, Zenon DEF Seen
  <1>9. NamingInv'
    <2>1. Given' = Given
      BY <1>1, <1>8, Zenon DEF Given
    <2>2. claimed' = Others(srv)' \cup {Name(j)' : j \in Given'}
      BY <1>1, <1>6, <1>7, <2>1, Zenon
    <2>3. \A j \in DOMAIN tools' :
            err'[j] = IF Seen(j)' \/ tools'[j].name = EmptyName THEN Decision(j)' ELSE "none"
      BY <1>1, <1>6, <1>7, <1>8, Zenon
    <2> QED BY <2>2, <2>3, Zenon DEF NamingInv
  <1>10. AcceptInv'
    <2>1. CASE acc' = acc
      BY <1>1, <1>4, <1>6, <2>1, Zenon DEF AcceptInv
    <2>2. CASE acc' # acc
      <3>1. refusal = "none" /\ DOMAIN acc' = DOMAIN acc \cup {candidate} /\ ~(idx > Len(tools))
        BY <2>2, Zenon DEF acceptTool, Put
      <3>2. err[idx] = "none"
        BY <3>1, Zenon DEF refusal
      <3>3. idx \in DOMAIN tools
        BY <1>4, <3>1 DEF Shape
      <3>4. Decision(idx) = "none"
        BY <1>7, <3>2, <3>3, Zenon
      <3>5. candidate \notin Others(srv)
        BY <3>4, Zenon DEF Decision, candidate
      <3>6. DOMAIN acc \cap Others(srv) = {}
        BY <1>1, <1>4, Zenon DEF AcceptInv
      <3> QED BY <1>6, <3>1, <3>5, <3>6, Zenon DEF AcceptInv
    <2> QED BY <2>1, <2>2, Zenon
  <1> QED BY <1>2, <1>3, <1>5, <1>9, <1>10, Zenon DEF IInv

-----------------------------------------------------------------------------
(* After the passes there is nothing left to say about names.              *)
LEMMA NoNaming ==
  ASSUME pc' \in {"unregister", "register", "idle"}
  PROVE  NamingInv' /\ AcceptInv'
  BY Zenon DEF NamingInv, AcceptInv, Naming

(* What the registry has to be told when the tools of s become new.        *)
Told(sv, sw, new, s) ==
    /\ sw = [t \in Servers |-> sw[t]]
    /\ Unique(sw)
    /\ \A n \in DOMAIN sv[s] \ DOMAIN new : n \notin DOMAIN Rebuild(sw)
    /\ \A n \in DOMAIN new : /\ n \in DOMAIN Rebuild(sw)
                             /\ Rebuild(sw)[n].def = new[n].def
    /\ \A n \in DOMAIN Rebuild(sw) \ DOMAIN new :
           /\ n \in DOMAIN Rebuild(sv)
           /\ Rebuild(sw)[n].def = Rebuild(sv)[n].def
    /\ \A n \in DOMAIN Rebuild(sv) : n \in DOMAIN Rebuild(sw) \/ n \in DOMAIN sv[s]

LEMMA Replaced ==
  ASSUME NEW sv, NEW new, NEW s \in Servers, sv = [t \in Servers |-> sv[t]], Unique(sv),
         \A t \in Servers \ {s} : DOMAIN new \cap DOMAIN sv[t] = {},
         NEW sw, sw = [sv EXCEPT ![s] = new]
  PROVE  Told(sv, sw, new, s)
  <1>1. /\ sw = [t \in Servers |-> sw[t]] /\ sw[s] = new
        /\ \A t \in Servers \ {s} : sw[t] = sv[t]
    BY Zenon
  <1>2. Unique(sw)
    BY <1>1, Zenon DEF Unique
  <1>3. ASSUME NEW n \in DOMAIN new
        PROVE  n \in DOMAIN Rebuild(sw) /\ Rebuild(sw)[n].def = new[n].def
    <2>1. n \in DOMAIN sw[s]
      BY <1>1, Zenon
    <2>2. /\ n \in DOMAIN Rebuild(sw)
          /\ Rebuild(sw)[n].def = sw[s][n].def
      BY <1>2, <2>1, RebuildDef, SMT
    <2> QED BY <1>1, <2>2, Zenon
  <1>4. ASSUME NEW n \in DOMAIN sv[s] \ DOMAIN new
        PROVE  n \notin DOMAIN Rebuild(sw)
    <2> SUFFICES ASSUME n \in DOMAIN Rebuild(sw) PROVE FALSE
      BY Zenon
    <2>1. PICK t \in Servers : n \in DOMAIN sw[t]
      BY RebuildDomain, Zenon
    <2>2. t # s
      BY <1>1, <2>1, Zenon
    <2>3. n \in DOMAIN sv[t]
      BY <1>1, <2>1, <2>2, Zenon
    <2> QED BY <2>2, <2>3, Zenon DEF Unique
  <1>5. ASSUME NEW n \in DOMAIN Rebuild(sw) \ DOMAIN new
        PROVE  n \in DOMAIN Rebuild(sv) /\ Rebuild(sw)[n].def = Rebuild(sv)[n].def
    <2>1. PICK t \in Servers : n \in DOMAIN sw[t]
      BY RebuildDomain, Zenon
    <2>2. t # s /\ sw[t] = sv[t]
      BY <1>1, <2>1, Zenon
    <2>5. n \in DOMAIN sv[t] /\ Unique(sv)
      BY <2>1, <2>2, Zenon
    <2>3. /\ n \in DOMAIN Rebuild(sv)
          /\ Rebuild(sv)[n].def = sv[t][n].def
      BY <2>5, RebuildDef, SMT
    <2>4. Rebuild(sw)[n].def = sw[t][n].def
      BY <1>2, <2>1, RebuildDef, SMT
    <2> QED BY <2>2, <2>3, <2>4, Zenon
  <1>6. ASSUME NEW n \in DOMAIN Rebuild(sv)
        PROVE  n \in DOMAIN Rebuild(sw) \/ n \in DOMAIN sv[s]
    <2>1. PICK t \in Servers : n \in DOMAIN sv[t]
      BY RebuildDomain, Zenon
    <2>2. CASE t # s
      <3>1. n \in DOMAIN sw[t]
        BY <1>1, <2>1, <2>2, Zenon
      <3> QED BY <1>2, <3>1, RebuildDef, Zenon
    <2> QED BY <2>1, <2>2, Zenon
  <1> QED BY <1>1, <1>2, <1>3, <1>4, <1>5, <1>6, Zenon DEF Told

LEMMA DiffStep ==
  ASSUME IInv, diffTools
  PROVE  IInv'
  <1>1. /\ pc = "diff" /\ pc' = "unregister" /\ toAdd' = added /\ toRemove' = dropped
        /\ UNCHANGED <<registry, srv, raw, tools, idx, err, acc, before>>
    BY Zenon DEF diffTools, history
  <1>2. Shape /\ UniqueNames /\ AcceptInv /\ RegistryInv /\ BeforeInv
    BY Zenon DEF IInv
  <1>3. /\ routes = Rebuild(servers)
        /\ registry = [n \in DOMAIN routes |-> routes[n].def]
    BY <1>1, <1>2, Zenon DEF RegistryInv
  <1>4. NamingInv' /\ AcceptInv'
    BY <1>1, NoNaming, Zenon
  <1>5. BeforeInv'
    <2>1. before' = DOMAIN registry'
      BY <1>1, <1>2, Zenon DEF BeforeInv, Naming
    <2> QED BY <1>1, <2>1, Zenon DEF BeforeInv, StaysRegistered, Naming
  <1>6. /\ servers' = [s \in Servers |-> servers'[s]] /\ UniqueNames' /\ RegistryInv'
    <2>1. CASE hasChanges
      <3>1. servers' = [servers EXCEPT ![srv] = acc] /\ routes' = Rebuild(servers')
        BY <2>1, Zenon DEF diffTools
      <3>2. Unique(servers) /\ servers = [s \in Servers |-> servers[s]] /\ srv \in Servers
        BY <1>2, Zenon DEF UniqueNames, Unique, Names, Shape
      <3>3. \A t \in Servers \ {srv} : DOMAIN acc \cap DOMAIN servers[t] = {}
        BY <1>1, <1>2, Zenon DEF AcceptInv, Others, Names
      <3>4. /\ servers' = [t \in Servers |-> servers'[t]] /\ Unique(servers')
            /\ \A n \in DOMAIN servers[srv] \ DOMAIN acc : n \notin DOMAIN Rebuild(servers')
            /\ \A n \in DOMAIN acc : /\ n \in DOMAIN Rebuild(servers')
                                     /\ Rebuild(servers')[n].def = acc[n].def
            /\ \A n \in DOMAIN Rebuild(servers') \ DOMAIN acc :
                   /\ n \in DOMAIN Rebuild(servers)
                   /\ Rebuild(servers')[n].def = Rebuild(servers)[n].def
            /\ \A n \in DOMAIN Rebuild(servers) :
                   n \in DOMAIN Rebuild(servers') \/ n \in DOMAIN servers[srv]
        <4>1. Told(servers, servers', acc, srv)
          BY <3>1, <3>2, <3>3, Replaced, Zenon
        <4> QED BY <4>1, Zenon DEF Told
      <3>5. UniqueNames'
        BY <3>4, Zenon DEF UniqueNames, Unique, Names
      <3>6. \A n \in DOMAIN servers[srv] : /\ n \in DOMAIN routes
                                           /\ routes[n].def = servers[srv][n].def
        BY <1>3, <3>2, RebuildDef, Zenon
      <3>7. /\ toRemove' \cap DOMAIN routes' = {}
            /\ toAdd' \subseteq DOMAIN routes'
            /\ \A n \in toAdd' : acc'[n].def = routes'[n].def
        BY <1>1, <3>1, <3>4, Zenon DEF added, dropped, Names
      <3>8. ASSUME NEW n \in DOMAIN routes' \ toAdd'
            PROVE  n \in DOMAIN routes /\ routes'[n].def = routes[n].def
        <4>1. CASE n \in DOMAIN acc
          <5>1. n \in Names(srv) /\ servers[srv][n].def = acc[n].def
            BY <1>1, <3>8, <4>1, Zenon DEF added
          <5> QED BY <3>1, <3>4, <3>6, <4>1, <5>1, Zenon DEF Names
        <4>2. CASE n \notin DOMAIN acc
          BY <1>3, <3>1, <3>4, <4>2, Zenon
        <4> QED BY <4>1, <4>2, Zenon
      <3>9. /\ DOMAIN routes' \ toAdd' \subseteq DOMAIN registry'
            /\ \A n \in DOMAIN routes' \ toAdd' : registry'[n] = routes'[n].def
        BY <1>1, <1>3, <3>8, Zenon
      <3>10. DOMAIN registry' \subseteq DOMAIN routes' \cup toRemove'
        <4>1. \A n \in DOMAIN routes : n \in DOMAIN routes' \/ n \in dropped
          BY <1>3, <3>1, <3>4, Zenon DEF dropped, Names
        <4> QED BY <1>1, <1>3, <4>1, Zenon
      <3>11. routes' = Rebuild(servers)'
        BY <3>1, Zenon
      <3>12. RegistryInv'
        BY <1>1, <3>7, <3>9, <3>10, <3>11, Zenon DEF RegistryInv
      <3> QED BY <3>4, <3>5, <3>12, Zenon
    <2>2. CASE ~hasChanges
      <3>1. UNCHANGED <<servers, routes>> /\ added = {} /\ dropped = {}
        BY <2>2, Zenon DEF diffTools, hasChanges, catalog
      <3>2. UniqueNames'
        BY <1>2, <3>1, Zenon DEF UniqueNames, Names
      <3>3. routes' = Rebuild(servers)'
        <4>1. Rebuild(servers)' = Rebuild(servers)
          BY <3>1, Zenon DEF Rebuild
        <4> QED BY <1>3, <3>1, <4>1, Zenon
      <3>4. RegistryInv'
        BY <1>1, <1>3, <3>1, <3>3, Zenon DEF RegistryInv
      <3> QED BY <1>2, <3>1, <3>2, <3>4, Zenon DEF Shape
    <2> QED BY <2>1, <2>2, Zenon
  <1>7. Shape'
    BY <1>1, <1>2, <1>6, Zenon DEF Shape, Labels, Naming
  <1> QED BY <1>4, <1>5, <1>6, <1>7, Zenon DEF IInv

-----------------------------------------------------------------------------
(* The registry is told: nothing that stays is taken out on the way.       *)
LEMMA RegistryStep ==
  ASSUME IInv, removeTools \/ \E n \in toAdd : addTool(n)
  PROVE  IInv'
  <1>1. /\ pc \in {"unregister", "register"} /\ pc' = "register"
        /\ UNCHANGED <<servers, routes, srv, raw, tools, idx, err, acc, before>>
    BY Zenon DEF removeTools, addTool, catalog, history
  <1>2. Shape /\ UniqueNames /\ RegistryInv /\ BeforeInv
    BY Zenon DEF IInv
  <1>3. NamingInv' /\ AcceptInv'
    BY <1>1, NoNaming, Zenon
  <1>4. UniqueNames' /\ Rebuild(servers)' = Rebuild(servers)
    <2>1. UniqueNames'
      BY <1>1, <1>2, Zenon DEF UniqueNames, Names
    <2> QED BY <1>1, <2>1, Zenon DEF Rebuild
  <1>5. routes' = Rebuild(servers)'
    BY <1>1, <1>2, <1>4, Zenon DEF RegistryInv
  <1>6. /\ before \cap DOMAIN routes \subseteq DOMAIN registry
        /\ toRemove \cap DOMAIN routes = {}
        /\ toAdd \subseteq DOMAIN routes
        /\ DOMAIN routes \ toAdd \subseteq DOMAIN registry
        /\ DOMAIN registry \subseteq DOMAIN routes \cup toRemove
        /\ \A n \in DOMAIN routes \ toAdd : registry[n] = routes[n].def
        /\ \A n \in toAdd : acc[n].def = routes[n].def
        /\ pc = "register" => toRemove = {}
    BY <1>1, <1>2, Zenon DEF RegistryInv, BeforeInv, StaysRegistered
  <1>7. /\ registry' = [n \in DOMAIN registry' |-> registry'[n]]
        /\ before' \cap DOMAIN routes' \subseteq DOMAIN registry'
        /\ toRemove' = {}
        /\ toAdd' \subseteq DOMAIN routes'
        /\ DOMAIN routes' \ toAdd' \subseteq DOMAIN registry'
        /\ DOMAIN registry' \subseteq DOMAIN routes'
        /\ \A n \in DOMAIN routes' \ toAdd' : registry'[n] = routes'[n].def
        /\ \A n \in toAdd' : acc'[n].def = routes'[n].def
    <2>1. CASE removeTools
      <3>1. /\ toRemove' = {} /\ toAdd' = toAdd
            /\ registry' = [m \in DOMAIN registry \ toRemove |-> registry[m]]
        BY <2>1, Zenon DEF removeTools, unregister, Without
      <3> QED BY <1>1, <1>6, <3>1, Zenon
    <2>2. CASE \E n \in toAdd : addTool(n)
      <3>1. PICK n \in toAdd : addTool(n)
        BY <2>2, Zenon
      <3>2. /\ toRemove' = toRemove /\ toAdd' = toAdd \ {n} /\ pc = "register"
            /\ registry' = [m \in DOMAIN registry \cup {n} |->
                               IF m = n THEN acc[n].def ELSE registry[m]]
        BY <3>1, Zenon DEF addTool, Put
      <3> QED BY <1>1, <1>6, <3>2, Zenon
    <2> QED BY <2>1, <2>2, Zenon
  <1>8. RegistryInv'
    BY <1>1, <1>5, <1>7, Zenon DEF RegistryInv
  <1>9. BeforeInv'
    BY <1>1, <1>7, Zenon DEF BeforeInv, StaysRegistered, Naming
  <1>10. Shape'
    BY <1>1, <1>2, <1>7, Zenon DEF Shape, Labels, Naming
  <1> QED BY <1>3, <1>4, <1>8, <1>9, <1>10, Zenon DEF IInv

LEMMA UnlockStep ==
  ASSUME IInv, unlock
  PROVE  IInv'
  <1>1. /\ pc = "register" /\ pc' = "idle" /\ toAdd = {}
        /\ raw' = << >> /\ tools' = << >> /\ idx' = 1 /\ acc' = NoMap
        /\ UNCHANGED <<servers, routes, registry, srv, toAdd, toRemove>>
    BY Zenon DEF unlock, catalog
  <1>2. Shape /\ UniqueNames /\ RegistryInv
    BY Zenon DEF IInv
  <1>3. NamingInv' /\ AcceptInv'
    BY <1>1, NoNaming, Zenon
  <1>4. UniqueNames' /\ Rebuild(servers)' = Rebuild(servers)
    <2>1. UniqueNames'
      BY <1>1, <1>2, Zenon DEF UniqueNames, Names
    <2> QED BY <1>1, <2>1, Zenon DEF Rebuild
  <1>5. /\ toRemove = {} /\ DOMAIN registry = DOMAIN routes
        /\ \A n \in DOMAIN routes : registry[n] = routes[n].def
    BY <1>1, <1>2, Zenon DEF RegistryInv
  <1>6. registry = [n \in DOMAIN routes |-> routes[n].def]
    BY <1>2, <1>5, Zenon DEF Shape
  <1>7. RegistryInv'
    <2>1. routes' = Rebuild(servers)'
      BY <1>1, <1>2, <1>4, Zenon DEF RegistryInv
    <2> QED BY <1>1, <1>6, <2>1, Zenon DEF RegistryInv
  <1>8. BeforeInv'
    BY <1>1, Zenon DEF BeforeInv, StaysRegistered, Naming
  <1>9. Shape'
    <2>1. << >> \in Seq(Tool)
      OBVIOUS
    <2> QED BY <1>1, <1>2, <1>5, <2>1 DEF Shape, Labels, Naming
  <1> QED BY <1>3, <1>4, <1>7, <1>8, <1>9, Zenon DEF IInv

LEMMA RemoveStep ==
  ASSUME IInv, NEW s \in Servers, RemoveServer(s)
  PROVE  IInv'
  <1>1. /\ pc = "idle" /\ pc' = "unregister" /\ srv' = s /\ toRemove' = Names(s)
        /\ servers' = [servers EXCEPT ![s] = NoMap] /\ routes' = Rebuild(servers')
        /\ before' = DOMAIN registry
        /\ UNCHANGED <<registry, raw, tools, idx, err, acc, toAdd>>
    BY Zenon DEF RemoveServer
  <1>2. Shape /\ UniqueNames /\ RegistryInv
    BY Zenon DEF IInv
  <1>3. NamingInv' /\ AcceptInv'
    BY <1>1, NoNaming, Zenon
  <1>4. BeforeInv'
    BY <1>1, Zenon DEF BeforeInv, StaysRegistered, Naming
  <1>5. /\ routes = Rebuild(servers) /\ toAdd = {}
        /\ registry = [n \in DOMAIN routes |-> routes[n].def]
    BY <1>1, <1>2, Zenon DEF RegistryInv, Shape
  <1>6. Told(servers, servers', NoMap, s)
    <2>1. Unique(servers) /\ servers = [t \in Servers |-> servers[t]]
      BY <1>2, Zenon DEF UniqueNames, Unique, Names, Shape
    <2>2. \A t \in Servers \ {s} : DOMAIN NoMap \cap DOMAIN servers[t] = {}
      BY Zenon DEF NoMap
    <2> QED BY <1>1, <2>1, <2>2, Replaced, Zenon
  <1>7. DOMAIN NoMap = {}
    BY Zenon DEF NoMap
  <1>8. UniqueNames' /\ servers' = [t \in Servers |-> servers'[t]]
    BY <1>6, Zenon DEF Told, UniqueNames, Unique, Names
  <1>9. /\ toRemove' \cap DOMAIN routes' = {}
        /\ DOMAIN registry' \subseteq DOMAIN routes' \cup toRemove'
        /\ \A n \in DOMAIN routes' : n \in DOMAIN registry' /\ registry'[n] = routes'[n].def
    BY <1>1, <1>5, <1>6, <1>7, Zenon DEF Told, Names
  <1>10. RegistryInv'
    <2>1. routes' = Rebuild(servers)'
      BY <1>1, Zenon
    <2> QED BY <1>1, <1>5, <1>9, <2>1, Zenon DEF RegistryInv
  <1>11. Shape'
    BY <1>1, <1>2, <1>8, Zenon DEF Shape, Labels, Naming
  <1> QED BY <1>3, <1>4, <1>8, <1>10, <1>11, Zenon DEF IInv

LEMMA StutterStep ==
  ASSUME IInv, UNCHANGED vars
  PROVE  IInv'
  <1>1. UNCHANGED <<servers, routes, registry, pc, srv, raw, tools, idx, claimed, err, acc,
                    toAdd, toRemove, before>>
    BY Zenon DEF vars, catalog, locals, history
  <1>2. Shape' /\ UniqueNames' /\ BeforeInv'
    BY <1>1, Zenon DEF IInv, Shape, UniqueNames, Names, BeforeInv, StaysRegistered
  <1>3. Others(srv)' = Others(srv) /\ Rebuild(servers)' = Rebuild(servers)
    BY <1>1, Zenon DEF Others, Names, Rebuild
  <1>4. AcceptInv'
    BY <1>1, <1>3, Zenon DEF IInv, AcceptInv
  <1>5. RegistryInv'
    BY <1>1, <1>3, Zenon DEF IInv, RegistryInv
  <1>6. NamingInv'
    <2>1. /\ \A j : Name(j)' = Name(j)
          /\ \A j : Decision(j)' = Decision(j)
      BY <1>1, PassReads, Zenon
    <2>2. \A j : Seen(j)' = Seen(j)
      BY <1>1, Zenon DEF Seen
    <2>3. Given' = Given
      BY <1>1, Zenon DEF Given, Seen
    <2>4. SUFFICES ASSUME pc \in Naming
                   PROVE  /\ claimed' = Others(srv)' \cup {Name(j)' : j \in Given'}
                          /\ \A j \in DOMAIN tools' :
                                err'[j] = IF Seen(j)' \/ tools'[j].name = EmptyName
                                          THEN Decision(j)' ELSE "none"
      BY <1>1, Zenon DEF NamingInv
    <2>5. /\ claimed = Others(srv) \cup {Name(j) : j \in Given}
          /\ \A j \in DOMAIN tools :
                 err[j] = IF Seen(j) \/ tools[j].name = EmptyName
                          THEN Decision(j) ELSE "none"
      BY <2>4, Zenon DEF IInv, NamingInv
    <2>6. claimed' = Others(srv)' \cup {Name(j)' : j \in Given'}
      BY <1>1, <1>3, <2>1, <2>3, <2>5, Zenon
    <2>7. ASSUME NEW j \in DOMAIN tools
          PROVE  err[j] = IF Seen(j)' \/ tools[j].name = EmptyName
                          THEN Decision(j)' ELSE "none"
      <3>1. Seen(j)' = Seen(j) /\ Decision(j)' = Decision(j)
        BY <2>1, <2>2, Zenon
      <3>2. err[j] = IF Seen(j) \/ tools[j].name = EmptyName
                     THEN Decision(j) ELSE "none"
        BY <2>5, Zenon
      <3> QED BY <3>1, <3>2, Zenon
    <2> QED BY <1>1, <2>6, <2>7, Zenon
  <1> QED BY <1>2, <1>4, <1>5, <1>6, Zenon DEF IInv

LEMMA StepIInv == IInv /\ [Next]_vars => IInv'
  <1> SUFFICES ASSUME IInv, [Next]_vars PROVE IInv'
    BY Zenon
  <1>1. CASE \E s \in Servers, list \in Lists, dis \in DisabledSets :
                 PublishServer(s, list, dis)
    BY <1>1, PublishStep, Zenon
  <1>2. CASE \E s \in Servers : RemoveServer(s)
    BY <1>2, RemoveStep, Zenon
  <1>3. CASE publication
    <2>1. CASE filterDisabled
      BY <2>1, FilterStep, Zenon
    <2>2. CASE allocateDirect \/ allocateAlias
      BY <2>2, AllocateStep, Zenon
    <2>3. CASE acceptTool
      BY <2>3, AcceptStep, Zenon
    <2>4. CASE diffTools
      BY <2>4, DiffStep, Zenon
    <2>5. CASE removeTools \/ \E n \in toAdd : addTool(n)
      BY <2>5, RegistryStep, Zenon
    <2>6. CASE unlock
      BY <2>6, UnlockStep, Zenon
    <2> QED BY <1>3, <2>1, <2>2, <2>3, <2>4, <2>5, <2>6, Zenon DEF publication
  <1>4. CASE UNCHANGED vars
    BY <1>4, StutterStep, Zenon
  <1> QED BY <1>1, <1>2, <1>3, <1>4, Zenon DEF Next

LEMMA Inductive == Spec => []IInv
  BY InitIInv, StepIInv, PTL DEF Spec

-----------------------------------------------------------------------------
(* A public name belongs to one server, after any publications and         *)
(* removals (catalog.go: UpdateServerTools).                               *)
THEOREM NamesAreUnique == Spec => []UniqueNames
  <1>1. IInv => UniqueNames
    BY Zenon DEF IInv
  <1> QED BY <1>1, Inductive, PTL

(* Whenever publishMu is free the registry is the snapshot, although only  *)
(* differences are applied to it (publisher.go: PublishServer).            *)
THEOREM RegistryFollowsSnapshot == Spec => []RegistryFollows
  <1>1. IInv => RegistryFollows
    BY Zenon DEF IInv, RegistryInv, RegistryFollows
  <1> QED BY <1>1, Inductive, PTL

(* A tool published before and after a publication is never missing from   *)
(* the registry in between (publisher.go: PublishServer).                  *)
THEOREM ToolsStayRegistered == Spec => []StaysRegistered
  <1>1. IInv => StaysRegistered
    BY Zenon DEF IInv, BeforeInv
  <1> QED BY <1>1, Inductive, PTL

(* The two passes over a list of any length give a name to its first direct *)
(* candidate, and to the first alias if there is none (naming.go:          *)
(* ResolveNamesWithPriority).                                              *)
THEOREM DirectNamesComeFirst == Spec => []DirectNamesFirst
  <1>1. IInv => DirectNamesFirst
    <2> SUFFICES ASSUME IInv, pc \in {"accept", "diff"}, NEW j \in DOMAIN tools
                 PROVE  err[j] = Decision(j)
      BY Zenon DEF DirectNamesFirst
    <2>1. Seen(j) /\ pc \in Naming
      BY Zenon DEF Seen, Naming
    <2> QED BY <2>1, Zenon DEF IInv, NamingInv
  <1> QED BY <1>1, Inductive, PTL

-----------------------------------------------------------------------------
(* What becomes of every tool of a list.                                   *)
Listed == {t \in Tool : \E list \in Lists : \E j \in DOMAIN list : list[j] = t}

(* Two tools of one server with one public name differ in more than their  *)
(* original name.  The catalog compares definitions and not original names, *)
(* so that without this a route may keep a name the server does not list   *)
(* any more.                                                               *)
Distinguishable ==
    \A s \in Servers : \A t, u \in Listed :
        PublicName(s, t.name) = PublicName(s, u.name) /\ t.def = u.def => t = u

Found(t, list) == \E j \in DOMAIN list : list[j] = t

Mentioned(o, un) == \E k \in DOMAIN un : un[k].name = o

Has(o, m) == \E n \in DOMAIN m : m[n].name = o

Busy == {"filter"} \cup Naming

Entry == [name : Originals, reason : Reasons]

(* What is published was listed and has the name it is published under.    *)
CatalogInv ==
    \A s \in Servers : \A n \in Names(s) :
        servers[s][n] \in Listed /\ PublicName(s, servers[s][n].name) = n

(* Outside of a publication of its own a server publishes the names and    *)
(* definitions it listed last, and if these tell its tools apart, then it  *)
(* publishes those tools and mentions the rest.                            *)
Near(s) ==
    \A n \in Names(s) : \E j \in DOMAIN last[s] :
        PublicName(s, last[s][j].name) = n /\ last[s][j].def = servers[s][n].def

Exact(s) ==
    /\ \A n \in Names(s) : Found(servers[s][n], last[s])
    /\ \A j \in DOMAIN last[s] :
           Has(last[s][j].name, servers[s]) <=> ~Mentioned(last[s][j].name, unpublished[s])

Settled(s) == Near(s) /\ (Distinguishable => Exact(s))

SettledInv == \A s \in Servers : (pc \in Busy => s # srv) => Settled(s)

LocalInv ==
    /\ last = [s \in Servers |-> last[s]] /\ unpublished = [s \in Servers |-> unpublished[s]]
    /\ unpub \in Seq(Entry)
    /\ pc = "idle" => tools = << >> /\ unpub = << >> /\ idx = 1
    /\ pc \in Busy => raw = last[srv] /\ raw \in Lists
    /\ \A j, k \in DOMAIN tools : tools[j].name = tools[k].name => j = k

(* The tools set aside as disabled so far, and the others.                 *)
Taken(j) == pc \in Naming \/ j < idx

FilterInv ==
    pc \in Busy =>
        /\ \A k \in DOMAIN tools : \E j \in DOMAIN raw :
               Taken(j) /\ tools[k] = raw[j] /\ raw[j].name \notin disabled
        /\ \A j \in DOMAIN raw : Taken(j) =>
               \/ raw[j].name \in disabled /\ Mentioned(raw[j].name, unpub)
               \/ raw[j].name \notin disabled /\ Found(raw[j], tools)

(* The tools accepted so far, and those refused.                           *)
Done(m) == pc = "diff" \/ (pc = "accept" /\ m < idx)

AcceptedInv ==
    pc \in Busy =>
        /\ \A n \in DOMAIN acc : \E m \in DOMAIN tools :
               Done(m) /\ acc[n] = tools[m] /\ err[m] = "none" /\ Name(m) = n
        /\ \A k \in DOMAIN unpub :
               \/ unpub[k].name \in disabled
               \/ \E m \in DOMAIN tools : Done(m) /\ tools[m].name = unpub[k].name
        /\ \A m \in DOMAIN tools :
               Done(m) => (Has(tools[m].name, acc) <=> ~Mentioned(tools[m].name, unpub))

ListInv == CatalogInv /\ SettledInv /\ LocalInv /\ FilterInv /\ AcceptedInv

LEMMA Appended ==
  ASSUME NEW S, NEW u \in Seq(S), NEW e \in S
  PROVE  LET v == Append(u, e) IN
         /\ v \in Seq(S) /\ DOMAIN v = DOMAIN u \cup {Len(u) + 1}
         /\ Len(u) + 1 \notin DOMAIN u
         /\ v[Len(u) + 1] = e /\ \A k \in DOMAIN u : v[k] = u[k]
  OBVIOUS

LEMMA InitListInv == Init => ListInv
  <1> SUFFICES ASSUME Init PROVE ListInv  BY Zenon
  <1>1. /\ pc = "idle" /\ DOMAIN NoMap = {} /\ \A s \in Servers : servers[s] = NoMap
        /\ \A s \in Servers : last[s] = << >> /\ unpublished[s] = << >>
        /\ tools = << >> /\ unpub = << >> /\ idx = 1
    BY Zenon DEF Init, NoMap
  <1>2. \A s \in Servers : Names(s) = {} /\ DOMAIN last[s] = {}  BY <1>1 DEF Names
  <1>3. CatalogInv /\ SettledInv  BY <1>2, Zenon DEF CatalogInv, SettledInv, Settled, Near, Exact
  <1>4. LocalInv
    <2>1. << >> \in Seq(Entry) /\ DOMAIN << >> = {}  OBVIOUS
    <2>2. last = [s \in Servers |-> last[s]] /\ unpublished = [s \in Servers |-> unpublished[s]]
      BY Zenon DEF Init
    <2> QED  BY <1>1, <2>1, <2>2, Zenon DEF LocalInv, Busy, Naming
  <1> QED  BY <1>1, <1>3, <1>4, Zenon DEF ListInv, FilterInv, AcceptedInv, Busy, Naming

(* A server nobody touches stays settled.                                  *)
LEMMA StaysSettled ==
  ASSUME NEW s \in Servers, Settled(s), servers'[s] = servers[s], last'[s] = last[s],
         unpublished'[s] = unpublished[s]
  PROVE  Settled(s)'
  <1>1. Near(s)'  BY ZenonT(60) DEF Settled, Near, Names, PublicName, IsDirect
  <1>2. Distinguishable => Exact(s)'
    BY DEF Settled, Exact, Names, Found, Has, Mentioned
  <1> QED  BY <1>1, <1>2, Zenon DEF Settled

LEMMA ListPublish ==
  ASSUME IInv, ListInv, NEW s \in Servers, NEW list \in Lists, NEW dis \in DisabledSets,
         PublishServer(s, list, dis)
  PROVE  ListInv'
  <1>1. /\ pc = "idle" /\ pc' = "filter" /\ srv' = s /\ raw' = list
        /\ last' = [last EXCEPT ![s] = list]
        /\ UNCHANGED <<servers, unpublished, tools, idx, acc, unpub>>
    BY Zenon DEF PublishServer, catalog
  <1>2. /\ CatalogInv /\ SettledInv /\ LocalInv
        /\ tools = << >> /\ unpub = << >> /\ idx = 1 /\ DOMAIN acc = {}
    BY <1>1, Zenon DEF ListInv, LocalInv, IInv, Shape, NoMap
  <1>3. CatalogInv'  BY <1>1, <1>2, Zenon DEF CatalogInv, Names
  <1>4. LocalInv'
    BY <1>1, <1>2, Zenon DEF LocalInv, Busy
  <1>5. SettledInv'
    <2> SUFFICES ASSUME NEW t \in Servers, t # s PROVE Settled(t)'
      BY <1>1, Zenon DEF SettledInv, Busy
    <2>1. Settled(t)  BY <1>1, <1>2, Zenon DEF SettledInv, Busy, Naming
    <2>2. last'[t] = last[t]  BY <1>1, <1>2, Zenon DEF LocalInv
    <2> QED  BY <1>1, <2>1, <2>2, StaysSettled, Zenon
  <1>6. FilterInv'
    <2>1. DOMAIN tools' = {} /\ \A j \in DOMAIN raw' : ~(j < idx')
      BY <1>1, <1>2, ListsAssumption
    <2> QED  BY <1>1, <2>1, Zenon DEF FilterInv, Taken, Naming
  <1>7. AcceptedInv'
    <2>1. DOMAIN tools' = {} /\ DOMAIN unpub' = {} /\ DOMAIN acc' = {}  BY <1>1, <1>2
    <2> QED  BY <2>1, Zenon DEF AcceptedInv
  <1> QED  BY <1>3, <1>4, <1>5, <1>6, <1>7, Zenon DEF ListInv

(* A publication that has not come to the difference settles nothing.      *)
LEMMA Unsettled ==
  ASSUME CatalogInv, SettledInv, UNCHANGED <<servers, last, unpublished>>,
         \/ pc \in Busy /\ pc' \in Busy /\ srv' = srv
         \/ pc \notin Busy /\ pc' \notin Busy
  PROVE  CatalogInv' /\ SettledInv'
  <1>1. CatalogInv'  BY Zenon DEF CatalogInv, Names
  <1>2. SettledInv'
    <2> SUFFICES ASSUME NEW s \in Servers, pc' \in Busy => s # srv' PROVE Settled(s)'
      BY Zenon DEF SettledInv
    <2>1. Settled(s)  BY Zenon DEF SettledInv
    <2> QED  BY <2>1, StaysSettled, Zenon
  <1> QED  BY <1>1, <1>2, Zenon

LEMMA ListFilterDisabled ==
  ASSUME IInv, ListInv, pc = "filter", idx \in DOMAIN raw, idx' = idx + 1, pc' = "filter",
         raw[idx].name \in disabled,
         unpub' = Append(unpub, [name |-> raw[idx].name, reason |-> "disabled"]),
         UNCHANGED <<servers, last, unpublished, srv, raw, disabled, tools, acc>>
  PROVE  ListInv'
  <1> DEFINE e == [name |-> raw[idx].name, reason |-> "disabled"]
  <1>1. LocalInv /\ FilterInv /\ Shape /\ pc \in Busy /\ pc' \in Busy
    BY Zenon DEF ListInv, IInv, Busy
  <1>2. e \in Entry /\ e.name = raw[idx].name
    <2>1. raw[idx] \in Tool  BY <1>1 DEF Shape
    <2> QED  BY <2>1, Zenon DEF Entry, Tool, Reasons
  <1> HIDE DEF e
  <1>3. unpub' = Append(unpub, e)  BY Zenon DEF e
  <1>4. /\ unpub' \in Seq(Entry) /\ DOMAIN unpub' = DOMAIN unpub \cup {Len(unpub) + 1}
        /\ unpub'[Len(unpub) + 1] = e /\ \A k \in DOMAIN unpub : unpub'[k] = unpub[k]
    BY <1>1, <1>2, <1>3, Appended DEF LocalInv
  <1>5. CatalogInv' /\ SettledInv'  BY <1>1, Unsettled, Zenon DEF ListInv
  <1>6. LocalInv'  BY <1>1, <1>4, Zenon DEF LocalInv
  <1>7. \A j \in DOMAIN raw : Taken(j)' <=> (Taken(j) \/ j = idx)
    BY <1>1 DEF Taken, Shape, Naming
  <1>8. \A o : Mentioned(o, unpub') <=> (Mentioned(o, unpub) \/ o = raw[idx].name)
    BY <1>2, <1>4, Zenon DEF Mentioned
  <1>9. FilterInv'
    <2>1. \A k \in DOMAIN tools : \E j \in DOMAIN raw :
              Taken(j)' /\ tools[k] = raw[j] /\ raw[j].name \notin disabled
      BY <1>1, <1>7, Zenon DEF FilterInv
    <2>2. \A j \in DOMAIN raw : Taken(j)' =>
               \/ raw[j].name \in disabled /\ Mentioned(raw[j].name, unpub')
               \/ raw[j].name \notin disabled /\ Found(raw[j], tools)
      BY <1>1, <1>7, <1>8, Zenon DEF FilterInv
    <2> QED  BY <2>1, <2>2, Zenon DEF FilterInv, Mentioned, Found
  <1>10. AcceptedInv'
    <2>1. DOMAIN acc = {}  BY <1>1, Zenon DEF Shape, NoMap
    <2>2. \A m : ~Done(m) /\ ~Done(m)'  BY Zenon DEF Done
    <2>3. \A k \in DOMAIN unpub : unpub[k].name \in disabled
      BY <1>1, <2>2, Zenon DEF ListInv, AcceptedInv
    <2>4. \A k \in DOMAIN unpub' : unpub'[k].name \in disabled
      BY <1>2, <1>4, <2>3, Zenon
    <2> QED  BY <2>1, <2>2, <2>4, Zenon DEF AcceptedInv
  <1> QED  BY <1>5, <1>6, <1>9, <1>10, Zenon DEF ListInv

LEMMA ListFilterKept ==
  ASSUME IInv, ListInv, pc = "filter", idx \in DOMAIN raw, idx' = idx + 1, pc' = "filter",
         raw[idx].name \notin disabled, tools' = Append(tools, raw[idx]),
         UNCHANGED <<servers, last, unpublished, srv, raw, disabled, unpub, acc>>
  PROVE  ListInv'
  <1>1. LocalInv /\ FilterInv /\ Shape /\ pc \in Busy /\ pc' \in Busy
    BY Zenon DEF ListInv, IInv, Busy
  <1>2. /\ DOMAIN tools' = DOMAIN tools \cup {Len(tools) + 1}
        /\ tools'[Len(tools) + 1] = raw[idx] /\ \A k \in DOMAIN tools : tools'[k] = tools[k]
    <2>1. raw[idx] \in Tool /\ tools \in Seq(Tool)  BY <1>1 DEF Shape
    <2> QED  BY <2>1, Appended
  <1>3. CatalogInv' /\ SettledInv'  BY <1>1, Unsettled, Zenon DEF ListInv
  <1>4. \A j \in DOMAIN raw : Taken(j)' <=> (Taken(j) \/ j = idx)
    BY <1>1 DEF Taken, Shape, Naming
  <1>5. ~Taken(idx)  BY <1>1 DEF Taken, Naming, Shape
  <1>6. \A k \in DOMAIN tools : tools[k].name # raw[idx].name
    <2> SUFFICES ASSUME NEW k \in DOMAIN tools, tools[k].name = raw[idx].name PROVE FALSE
      BY Zenon
    <2>1. PICK j \in DOMAIN raw : Taken(j) /\ tools[k] = raw[j]  BY <1>1, Zenon DEF FilterInv
    <2>2. raw \in Lists  BY <1>1, Zenon DEF LocalInv
    <2>3. j = idx  BY <2>1, <2>2, ListsAssumption, Zenon
    <2> QED  BY <1>5, <2>1, <2>3, Zenon
  <1>7. LocalInv'
    <2>1. \A j, k \in DOMAIN tools' : tools'[j].name = tools'[k].name => j = k
      <3> SUFFICES ASSUME NEW j \in DOMAIN tools', NEW k \in DOMAIN tools',
                          tools'[j].name = tools'[k].name
                   PROVE  j = k
        BY Zenon
      <3>1. CASE j \in DOMAIN tools /\ k \in DOMAIN tools
        BY <1>1, <1>2, <3>1, Zenon DEF LocalInv
      <3>2. CASE j \notin DOMAIN tools /\ k \notin DOMAIN tools  BY <1>2, <3>2, Zenon
      <3>3. CASE j \in DOMAIN tools /\ k \notin DOMAIN tools
        BY <1>2, <1>6, <3>3, Zenon
      <3>4. CASE j \notin DOMAIN tools /\ k \in DOMAIN tools
        BY <1>2, <1>6, <3>4, Zenon
      <3> QED  BY <3>1, <3>2, <3>3, <3>4, Zenon
    <2>2. pc' # "idle" /\ pc \in Busy  BY <1>1, Zenon
    <2> QED  BY <1>1, <2>1, <2>2, Zenon DEF LocalInv
  <1>8. FilterInv'
    <2>1. \A k \in DOMAIN tools' : \E j \in DOMAIN raw :
              Taken(j)' /\ tools'[k] = raw[j] /\ raw[j].name \notin disabled
      <3> SUFFICES ASSUME NEW k \in DOMAIN tools'
                   PROVE  \E j \in DOMAIN raw : Taken(j)' /\ tools'[k] = raw[j]
                                                /\ raw[j].name \notin disabled
        BY Zenon
      <3>1. CASE k \in DOMAIN tools
        <4>1. PICK j \in DOMAIN raw :
                  Taken(j) /\ tools[k] = raw[j] /\ raw[j].name \notin disabled
          BY <1>1, <3>1, Zenon DEF FilterInv
        <4> QED  BY <1>2, <1>4, <3>1, <4>1, Zenon
      <3>2. CASE k \notin DOMAIN tools  BY <1>2, <1>4, <3>2, Zenon
      <3> QED  BY <3>1, <3>2, Zenon
    <2>2. \A t : Found(t, tools') <=> (Found(t, tools) \/ t = raw[idx])
      BY <1>2, Zenon DEF Found
    <2>3. \A j \in DOMAIN raw : Taken(j)' =>
               \/ raw[j].name \in disabled /\ Mentioned(raw[j].name, unpub)
               \/ raw[j].name \notin disabled /\ Found(raw[j], tools')
      BY <1>1, <1>4, <2>2, Zenon DEF FilterInv
    <2> QED  BY <2>1, <2>3, ZenonT(60) DEF FilterInv, Mentioned, Found
  <1>9. AcceptedInv'
    <2>1. DOMAIN acc = {}  BY <1>1, Zenon DEF Shape, NoMap
    <2>2. \A m : ~Done(m) /\ ~Done(m)'  BY Zenon DEF Done
    <2>3. \A k \in DOMAIN unpub : unpub[k].name \in disabled
      BY <1>1, <2>2, Zenon DEF ListInv, AcceptedInv
    <2> QED  BY <2>1, <2>2, <2>3, Zenon DEF AcceptedInv
  <1> QED  BY <1>3, <1>7, <1>8, <1>9, Zenon DEF ListInv

(* While the names are decided nothing is accepted or refused.             *)
LEMMA ListWaits ==
  ASSUME IInv, ListInv, pc \in {"filter", "direct", "alias"},
         pc' \in {"direct", "alias", "accept"}, pc' = "accept" /\ pc # "accept" => idx' = 1,
         \A j \in DOMAIN raw : Taken(j),
         UNCHANGED <<servers, last, unpublished, srv, raw, disabled, tools, unpub, acc>>
  PROVE  ListInv'
  <1>1. LocalInv /\ FilterInv /\ Shape /\ pc \in Busy /\ pc' \in Busy
    BY Zenon DEF ListInv, IInv, Busy, Naming
  <1>2. CatalogInv' /\ SettledInv'  BY <1>1, Unsettled, Zenon DEF ListInv
  <1>3. LocalInv'  BY <1>1, Zenon DEF LocalInv
  <1>4. \A j : Taken(j)'  BY Zenon DEF Taken, Naming
  <1>5. FilterInv'  BY <1>1, <1>4, ZenonT(60) DEF FilterInv, Mentioned, Found
  <1>6. AcceptedInv'
    <2>1. DOMAIN acc = {}  BY <1>1, Zenon DEF Shape, NoMap
    <2>2. \A m \in DOMAIN tools : ~Done(m) /\ ~Done(m)'
      BY <1>1 DEF Done, Shape
    <2>3. \A k \in DOMAIN unpub : unpub[k].name \in disabled
      BY <1>1, <2>2, Zenon DEF ListInv, AcceptedInv
    <2> QED  BY <2>1, <2>2, <2>3, Zenon DEF AcceptedInv
  <1> QED  BY <1>2, <1>3, <1>5, <1>6, Zenon DEF ListInv

LEMMA ListFilter ==
  ASSUME IInv, ListInv, filterDisabled
  PROVE  ListInv'
  <1>1. /\ pc = "filter"
        /\ UNCHANGED <<servers, last, unpublished, srv, raw, disabled, acc>>
    BY Zenon DEF filterDisabled, catalog, history
  <1>2. raw \in Seq(Tool) /\ idx \in Nat \ {0}  BY Zenon DEF IInv, Shape
  <1>3. CASE idx <= Len(raw)
    <2>1. idx \in DOMAIN raw /\ idx' = idx + 1 /\ pc' = "filter"
      BY <1>2, <1>3 DEF filterDisabled
    <2>2. CASE raw[idx].name \in disabled
      <3>1. /\ unpub' = Append(unpub, [name |-> raw[idx].name, reason |-> "disabled"])
            /\ tools' = tools
        BY <1>2, <1>3, <2>2 DEF filterDisabled
      <3> QED  BY <1>1, <2>1, <2>2, <3>1, ListFilterDisabled, Zenon
    <2>3. CASE raw[idx].name \notin disabled
      <3>1. tools' = Append(tools, raw[idx]) /\ unpub' = unpub
        BY <1>2, <1>3, <2>3 DEF filterDisabled
      <3> QED  BY <1>1, <2>1, <2>3, <3>1, ListFilterKept, Zenon
    <2> QED  BY <2>2, <2>3, Zenon
  <1>4. CASE idx > Len(raw)
    <2>1. pc' = "direct" /\ tools' = tools /\ unpub' = unpub
      BY <1>2, <1>4 DEF filterDisabled
    <2>2. \A j \in DOMAIN raw : Taken(j)  BY <1>2, <1>4 DEF Taken
    <2> QED  BY <1>1, <2>1, <2>2, ListWaits, Zenon
  <1> QED  BY <1>2, <1>3, <1>4

LEMMA ListAllocate ==
  ASSUME IInv, ListInv, allocateDirect \/ allocateAlias
  PROVE  ListInv'
  <1>1. /\ pc \in {"direct", "alias"} /\ pc' \in {"direct", "alias", "accept"}
        /\ pc' = "accept" => idx' = 1
        /\ UNCHANGED <<servers, last, unpublished, srv, raw, disabled, tools, unpub, acc>>
    BY Zenon DEF allocateDirect, allocateAlias, Loop, catalog, history
  <1>2. \A j : Taken(j)  BY <1>1, Zenon DEF Taken, Naming
  <1> QED  BY <1>1, <1>2, ListWaits, Zenon

-----------------------------------------------------------------------------
(* No two tools that are to be published have one public name.             *)
LEMMA OneWinner ==
  ASSUME IInv, pc \in {"accept", "diff"}, NEW j \in DOMAIN tools, NEW k \in DOMAIN tools,
         j < k, err[j] = "none", err[k] = "none"
  PROVE  Name(j) # Name(k)
  <1>1. Decision(j) = "none" /\ Decision(k) = "none"
    BY Zenon DEF IInv, NamingInv, Naming, Seen
  <1>2. tools[j].name # EmptyName /\ tools[k].name # EmptyName
    BY <1>1, Zenon DEF Decision
  <1>3. Beats(j, k) \/ Beats(k, j)  BY DEF Beats, IsDirect
  <1> QED  BY <1>1, <1>2, <1>3, Zenon DEF Decision, Name

(* The turn of a tool: neither accepted nor mentioned before.              *)
LEMMA FirstTurn ==
  ASSUME IInv, ListInv, pc = "accept", idx \in DOMAIN tools
  PROVE  /\ ~Has(tools[idx].name, acc) /\ ~Mentioned(tools[idx].name, unpub)
         /\ \A m \in DOMAIN tools : Done(m) => tools[m].name # tools[idx].name
         /\ err[idx] = "none" => candidate \notin DOMAIN acc
  <1>1. pc \in Busy /\ ~Done(idx)  BY DEF Busy, Naming, Done, IInv, Shape
  <1>2. \A m \in DOMAIN tools : Done(m) => tools[m].name # tools[idx].name
    BY <1>1, Zenon DEF ListInv, LocalInv
  <1>3. ~Has(tools[idx].name, acc)
    <2> SUFFICES ASSUME NEW n \in DOMAIN acc, acc[n].name = tools[idx].name PROVE FALSE
      BY Zenon DEF Has
    <2>1. PICK m \in DOMAIN tools : Done(m) /\ acc[n] = tools[m]
      BY <1>1, Zenon DEF ListInv, AcceptedInv
    <2> QED  BY <1>2, <2>1, Zenon
  <1>4. tools[idx].name \notin disabled
    BY <1>1, Zenon DEF ListInv, FilterInv
  <1>5. ~Mentioned(tools[idx].name, unpub)
    <2> SUFFICES ASSUME NEW k \in DOMAIN unpub, unpub[k].name = tools[idx].name PROVE FALSE
      BY Zenon DEF Mentioned
    <2>1. PICK m \in DOMAIN tools : Done(m) /\ tools[m].name = unpub[k].name
      BY <1>1, <1>4, Zenon DEF ListInv, AcceptedInv
    <2> QED  BY <1>2, <2>1, Zenon
  <1>6. ASSUME err[idx] = "none", candidate \in DOMAIN acc PROVE FALSE
    <2>1. PICK m \in DOMAIN tools : Done(m) /\ err[m] = "none" /\ Name(m) = candidate
      BY <1>1, <1>6, Zenon DEF ListInv, AcceptedInv
    <2>2. m < idx  BY <2>1, Zenon DEF Done
    <2>3. Name(idx) = candidate  BY Zenon DEF Name, candidate
    <2> QED  BY <1>6, <2>1, <2>2, <2>3, OneWinner, Zenon
  <1> QED  BY <1>2, <1>3, <1>5, <1>6, Zenon

LEMMA ListAccepts ==
  ASSUME IInv, ListInv, pc = "accept", idx \in DOMAIN tools, idx' = idx + 1, pc' = "accept",
         refusal = "none", acc' = Put(acc, candidate, tools[idx]),
         UNCHANGED <<servers, last, unpublished, srv, raw, disabled, tools, err, unpub>>
  PROVE  ListInv'
  <1>1. pc \in Busy /\ pc' \in Busy /\ LocalInv /\ FilterInv /\ AcceptedInv /\ Shape
    BY Zenon DEF Busy, Naming, ListInv, IInv
  <1>2. CatalogInv' /\ SettledInv'  BY <1>1, Unsettled, Zenon DEF ListInv
  <1>3. LocalInv'  BY <1>1, Zenon DEF LocalInv
  <1>4. FilterInv'
    <2>1. \A j : Taken(j) /\ Taken(j)'  BY Zenon DEF Taken, Naming
    <2> QED  BY <1>1, <2>1, ZenonT(60) DEF FilterInv, Mentioned, Found
  <1>5. err[idx] = "none"  BY Zenon DEF refusal
  <1>6. /\ ~Has(tools[idx].name, acc) /\ ~Mentioned(tools[idx].name, unpub)
        /\ \A m \in DOMAIN tools : Done(m) => tools[m].name # tools[idx].name
        /\ candidate \notin DOMAIN acc
    BY <1>5, FirstTurn, Zenon
  <1>7. \A m \in DOMAIN tools : Done(m)' <=> (Done(m) \/ m = idx)
    BY <1>1 DEF Done, Shape
  <1>8. /\ DOMAIN acc' = DOMAIN acc \cup {candidate} /\ acc'[candidate] = tools[idx]
        /\ \A n \in DOMAIN acc : acc'[n] = acc[n]
    BY <1>6, Zenon DEF Put
  <1>9. \A m : Name(m)' = Name(m)  BY Zenon DEF Name, PublicName, IsDirect
  <1>10. \A n \in DOMAIN acc' : \E m \in DOMAIN tools' :
             Done(m)' /\ acc'[n] = tools'[m] /\ err'[m] = "none" /\ Name(m)' = n
    <2> SUFFICES ASSUME NEW n \in DOMAIN acc'
                 PROVE  \E m \in DOMAIN tools : Done(m)' /\ acc'[n] = tools[m]
                                                /\ err[m] = "none" /\ Name(m) = n
      BY <1>9, Zenon
    <2>1. CASE n = candidate
      <3>1. Name(idx) = candidate  BY Zenon DEF Name, candidate
      <3> QED  BY <1>5, <1>7, <1>8, <2>1, <3>1, Zenon
    <2>2. CASE n # candidate
      <3>1. n \in DOMAIN acc  BY <1>8, <2>2, Zenon
      <3>2. PICK m \in DOMAIN tools : Done(m) /\ acc[n] = tools[m] /\ err[m] = "none" /\ Name(m) = n
        BY <1>1, <3>1, Zenon DEF AcceptedInv
      <3> QED  BY <1>7, <1>8, <3>1, <3>2, Zenon
    <2> QED  BY <2>1, <2>2, Zenon
  <1>11. \A k \in DOMAIN unpub' :
             \/ unpub'[k].name \in disabled'
             \/ \E m \in DOMAIN tools' : Done(m)' /\ tools'[m].name = unpub'[k].name
    BY <1>1, <1>7, Zenon DEF AcceptedInv
  <1>12. \A o : Has(o, acc') <=> (Has(o, acc) \/ o = tools[idx].name)
    BY <1>8, Zenon DEF Has
  <1>13. \A m \in DOMAIN tools' :
            Done(m)' => (Has(tools[m].name, acc') <=> ~Mentioned(tools[m].name, unpub))
    BY <1>1, <1>6, <1>7, <1>12, Zenon DEF AcceptedInv
  <1>14. AcceptedInv'  BY <1>10, <1>11, <1>13 DEF AcceptedInv, Has, Mentioned
  <1> QED  BY <1>2, <1>3, <1>4, <1>14, Zenon DEF ListInv

LEMMA RefusalReason ==
  ASSUME IInv, pc = "accept", idx \in DOMAIN tools, refusal # "none"
  PROVE  refusal \in Reasons
  <1>1. err[idx] \in {"none", "empty", "collision"}
    BY Zenon DEF IInv, NamingInv, Naming, Seen, Decision
  <1> QED  BY <1>1, Zenon DEF refusal, Reasons

LEMMA ListRefuses ==
  ASSUME IInv, ListInv, pc = "accept", idx \in DOMAIN tools, idx' = idx + 1, pc' = "accept",
         refusal # "none",
         unpub' = Append(unpub, [name |-> tools[idx].name, reason |-> refusal]),
         UNCHANGED <<servers, last, unpublished, srv, raw, disabled, tools, err, acc>>
  PROVE  ListInv'
  <1> DEFINE e == [name |-> tools[idx].name, reason |-> refusal]
  <1>1. pc \in Busy /\ pc' \in Busy /\ LocalInv /\ FilterInv /\ AcceptedInv /\ Shape
    BY Zenon DEF Busy, Naming, ListInv, IInv
  <1>2. CatalogInv' /\ SettledInv'  BY <1>1, Unsettled, Zenon DEF ListInv
  <1>3. e \in Entry /\ e.name = tools[idx].name
    <2>0. tools[idx] \in Tool  BY <1>1 DEF Shape
    <2>1. tools[idx].name \in Originals  BY <2>0, Zenon DEF Tool
    <2>2. refusal \in Reasons  BY RefusalReason, Zenon
    <2> QED  BY <2>1, <2>2, Zenon DEF Entry
  <1>4. unpub' = Append(unpub, e)  BY Zenon
  <1> HIDE DEF e
  <1>5. /\ unpub' \in Seq(Entry) /\ DOMAIN unpub' = DOMAIN unpub \cup {Len(unpub) + 1}
        /\ unpub'[Len(unpub) + 1] = e /\ \A k \in DOMAIN unpub : unpub'[k] = unpub[k]
    BY <1>1, <1>3, <1>4, Appended DEF LocalInv
  <1>6. LocalInv'  BY <1>1, <1>5, Zenon DEF LocalInv
  <1>7. \A o : Mentioned(o, unpub') <=> (Mentioned(o, unpub) \/ o = tools[idx].name)
    BY <1>3, <1>5, Zenon DEF Mentioned
  <1>8. FilterInv'
    <2>1. \A j : Taken(j) /\ Taken(j)'  BY Zenon DEF Taken, Naming
    <2>2. \A j \in DOMAIN raw :
              \/ raw[j].name \in disabled /\ Mentioned(raw[j].name, unpub')
              \/ raw[j].name \notin disabled /\ Found(raw[j], tools)
      BY <1>1, <1>7, <2>1, Zenon DEF FilterInv
    <2> QED  BY <1>1, <2>1, <2>2, ZenonT(60) DEF FilterInv, Mentioned, Found
  <1>9. /\ ~Has(tools[idx].name, acc) /\ ~Mentioned(tools[idx].name, unpub)
        /\ \A m \in DOMAIN tools : Done(m) => tools[m].name # tools[idx].name
    BY FirstTurn, Zenon
  <1>10. \A m \in DOMAIN tools : Done(m)' <=> (Done(m) \/ m = idx)
    BY <1>1 DEF Done, Shape
  <1>11. \A m : Name(m)' = Name(m)  BY Zenon DEF Name, PublicName, IsDirect
  <1>12. \A n \in DOMAIN acc' : \E m \in DOMAIN tools' :
             Done(m)' /\ acc'[n] = tools'[m] /\ err'[m] = "none" /\ Name(m)' = n
    BY <1>1, <1>10, <1>11, Zenon DEF AcceptedInv
  <1>13. \A k \in DOMAIN unpub' :
             \/ unpub'[k].name \in disabled'
             \/ \E m \in DOMAIN tools' : Done(m)' /\ tools'[m].name = unpub'[k].name
    <2> SUFFICES ASSUME NEW k \in DOMAIN unpub', unpub'[k].name \notin disabled
                 PROVE  \E m \in DOMAIN tools : Done(m)' /\ tools[m].name = unpub'[k].name
      BY Zenon
    <2>1. CASE k \in DOMAIN unpub
      <3>1. PICK m \in DOMAIN tools : Done(m) /\ tools[m].name = unpub[k].name
        BY <1>1, <1>5, <2>1, Zenon DEF AcceptedInv
      <3> QED  BY <1>5, <1>10, <2>1, <3>1, Zenon
    <2>2. CASE k \notin DOMAIN unpub  BY <1>3, <1>5, <1>10, <2>2, Zenon
    <2> QED  BY <2>1, <2>2, Zenon
  <1>14. \A m \in DOMAIN tools' :
            Done(m)' => (Has(tools[m].name, acc) <=> ~Mentioned(tools[m].name, unpub'))
    BY <1>1, <1>7, <1>9, <1>10, Zenon DEF AcceptedInv
  <1>15. AcceptedInv'  BY <1>12, <1>13, <1>14, SMTT(30) DEF AcceptedInv, Has, Mentioned
  <1> QED  BY <1>2, <1>6, <1>8, <1>15, Zenon DEF ListInv

LEMMA ListAccept ==
  ASSUME IInv, ListInv, acceptTool
  PROVE  ListInv'
  <1>1. /\ pc = "accept"
        /\ UNCHANGED <<servers, last, unpublished, srv, raw, disabled, tools, err>>
    BY Zenon DEF acceptTool, Loop, catalog, history
  <1>2. tools \in Seq(Tool) /\ idx \in Nat \ {0}  BY Zenon DEF IInv, Shape
  <1>3. CASE idx <= Len(tools)
    <2>1. idx \in DOMAIN tools /\ idx' = idx + 1 /\ pc' = "accept"
      BY <1>2, <1>3 DEF acceptTool, Loop
    <2>2. CASE refusal = "none"
      <3>1. acc' = Put(acc, candidate, tools[idx]) /\ unpub' = unpub
        BY <1>2, <1>3, <2>2 DEF acceptTool
      <3> QED  BY <1>1, <2>1, <2>2, <3>1, ListAccepts, Zenon
    <2>3. CASE refusal # "none"
      <3>1. /\ unpub' = Append(unpub, [name |-> tools[idx].name, reason |-> refusal])
            /\ acc' = acc
        BY <1>2, <1>3, <2>3 DEF acceptTool
      <3> QED  BY <1>1, <2>1, <2>3, <3>1, ListRefuses, Zenon
    <2> QED  BY <2>2, <2>3, Zenon
  <1>4. CASE idx > Len(tools)
    <2>1. pc' = "diff" /\ acc' = acc /\ unpub' = unpub
      BY <1>1, <1>2, <1>4 DEF acceptTool, Loop
    <2>2. \A m \in DOMAIN tools : Done(m) /\ Done(m)'
      BY <1>1, <1>2, <1>4, <2>1 DEF Done
    <2>3. pc \in Busy /\ pc' \in Busy /\ LocalInv /\ FilterInv /\ AcceptedInv
      BY <1>1, <2>1, Zenon DEF Busy, Naming, ListInv
    <2>4. CatalogInv' /\ SettledInv'  BY <1>1, <2>3, Unsettled, Zenon DEF ListInv
    <2>5. LocalInv'  BY <1>1, <2>1, <2>3, Zenon DEF LocalInv
    <2>6. \A j : Taken(j) /\ Taken(j)'  BY <1>1, <2>1, Zenon DEF Taken, Naming
    <2>7. FilterInv'  BY <1>1, <2>1, <2>3, <2>6, Zenon DEF FilterInv, Mentioned, Found
    <2>8. \A m : Name(m)' = Name(m)  BY <1>1, Zenon DEF Name, PublicName, IsDirect
    <2>9. AcceptedInv'
      BY <1>1, <2>1, <2>2, <2>3, <2>8, ZenonT(60) DEF AcceptedInv, Has, Mentioned
    <2> QED  BY <2>4, <2>5, <2>7, <2>9, Zenon DEF ListInv
  <1> QED  BY <1>2, <1>3, <1>4

-----------------------------------------------------------------------------
(* What has been accepted when all tools have had their turn.              *)
LEMMA Outcome ==
  ASSUME IInv, ListInv, pc = "diff"
  PROVE  /\ \A n \in DOMAIN acc : /\ acc[n] \in Listed /\ Found(acc[n], last[srv])
                                  /\ PublicName(srv, acc[n].name) = n
         /\ \A j \in DOMAIN last[srv] :
                Has(last[srv][j].name, acc) <=> ~Mentioned(last[srv][j].name, unpub)
  <1>1. pc \in Busy /\ LocalInv /\ FilterInv /\ AcceptedInv /\ Shape
    BY Zenon DEF Busy, Naming, ListInv, IInv
  <1>2. raw = last[srv] /\ raw \in Lists  BY <1>1, Zenon DEF LocalInv
  <1>3. \A j : Taken(j) /\ Done(j)  BY Zenon DEF Taken, Naming, Done
  <1>4. ASSUME NEW n \in DOMAIN acc
        PROVE  /\ acc[n] \in Listed /\ Found(acc[n], raw) /\ PublicName(srv, acc[n].name) = n
               /\ acc[n].name \notin disabled
    <2>1. PICK m \in DOMAIN tools : acc[n] = tools[m] /\ Name(m) = n
      BY <1>1, Zenon DEF AcceptedInv
    <2>2. PICK j \in DOMAIN raw : tools[m] = raw[j] /\ raw[j].name \notin disabled
      BY <1>1, Zenon DEF FilterInv
    <2>3. raw[j] \in Tool  BY <1>1 DEF Shape
    <2>4. acc[n] \in Listed  BY <1>2, <2>1, <2>2, <2>3, Zenon DEF Listed
    <2> QED  BY <2>1, <2>2, <2>4, Zenon DEF Found, Name
  <1>5. ASSUME NEW j \in DOMAIN raw
        PROVE  Has(raw[j].name, acc) <=> ~Mentioned(raw[j].name, unpub)
    <2>1. CASE raw[j].name \in disabled
      <3>1. Mentioned(raw[j].name, unpub)  BY <1>1, <1>3, <2>1, Zenon DEF FilterInv
      <3>2. ~Has(raw[j].name, acc)  BY <1>4, <2>1, Zenon DEF Has
      <3> QED  BY <3>1, <3>2, Zenon
    <2>2. CASE raw[j].name \notin disabled
      <3>1. PICK m \in DOMAIN tools : tools[m] = raw[j]
        BY <1>1, <1>3, <2>2, Zenon DEF FilterInv, Found
      <3> QED  BY <1>1, <1>3, <3>1, Zenon DEF AcceptedInv
    <2> QED  BY <2>1, <2>2, Zenon
  <1> QED  BY <1>2, <1>4, <1>5, Zenon

LEMMA ListDiff ==
  ASSUME IInv, ListInv, diffTools
  PROVE  ListInv'
  <1>1. /\ pc = "diff" /\ pc' = "unregister"
        /\ UNCHANGED <<srv, tools, last, idx, unpub>>
    BY Zenon DEF diffTools, history
  <1>2. pc \in Busy /\ pc' \notin Busy  BY <1>1, Zenon DEF Busy, Naming
  <1>3. CatalogInv /\ SettledInv /\ LocalInv /\ Shape /\ srv \in Servers
    BY Zenon DEF ListInv, IInv, Shape
  <1>4. /\ \A n \in DOMAIN acc : /\ acc[n] \in Listed /\ Found(acc[n], last[srv])
                                  /\ PublicName(srv, acc[n].name) = n
        /\ \A j \in DOMAIN last[srv] :
               Has(last[srv][j].name, acc) <=> ~Mentioned(last[srv][j].name, unpub)
    BY <1>1, Outcome, Zenon
  <1>5. FilterInv' /\ AcceptedInv'  BY <1>2, Zenon DEF FilterInv, AcceptedInv
  <1>6. CASE hasChanges
    <2>1. /\ servers' = [servers EXCEPT ![srv] = acc]
          /\ unpublished' = [unpublished EXCEPT ![srv] = unpub]
      BY <1>6, Zenon DEF diffTools
    <2>2. /\ servers'[srv] = acc /\ unpublished'[srv] = unpub
          /\ \A s \in Servers \ {srv} :
                 servers'[s] = servers[s] /\ unpublished'[s] = unpublished[s]
          /\ unpublished' = [s \in Servers |-> unpublished'[s]]
      <3>1. DOMAIN servers = Servers /\ DOMAIN unpublished = Servers
        BY <1>3, Zenon DEF Shape, LocalInv
      <3> QED  BY <1>3, <2>1, <3>1, Zenon
    <2>3. LocalInv'
      BY <1>1, <1>2, <1>3, <2>2, Zenon DEF LocalInv
    <2>4. CatalogInv'
      <3> SUFFICES ASSUME NEW s \in Servers, NEW n \in DOMAIN servers'[s]
                   PROVE  servers'[s][n] \in Listed /\ PublicName(s, servers'[s][n].name) = n
        BY Zenon DEF CatalogInv, Names
      <3>1. CASE s = srv  BY <1>4, <2>2, <3>1, Zenon
      <3>2. CASE s # srv  BY <1>3, <2>2, <3>2 DEF CatalogInv, Names
      <3> QED  BY <3>1, <3>2, Zenon
    <2>5. SettledInv'
      <3> SUFFICES ASSUME NEW s \in Servers PROVE Settled(s)'  BY Zenon DEF SettledInv
      <3>1. CASE s = srv
        <4>1. \A n \in DOMAIN servers'[s] :
                 Found(servers'[s][n], last'[s]) /\ PublicName(s, servers'[s][n].name) = n
          BY <1>1, <1>4, <2>2, <3>1, Zenon
        <4>2. \A j \in DOMAIN last'[s] :
                  Has(last'[s][j].name, servers'[s])
                    <=> ~Mentioned(last'[s][j].name, unpublished'[s])
          BY <1>1, <1>4, <2>2, <3>1, Zenon
        <4>3. Near(s)'  BY <4>1, Zenon DEF Near, Names, Found
        <4>4. Exact(s)'  BY <4>1, <4>2, Zenon DEF Exact, Names, Has, Mentioned, Found
        <4> QED  BY <4>3, <4>4, Zenon DEF Settled
      <3>2. CASE s # srv
        <4>1. Settled(s)  BY <1>3, <3>2, Zenon DEF SettledInv
        <4> QED  BY <1>1, <2>2, <3>2, <4>1, StaysSettled, Zenon
      <3> QED  BY <3>1, <3>2, Zenon
    <2> QED  BY <1>5, <2>3, <2>4, <2>5, Zenon DEF ListInv
  <1>7. CASE ~hasChanges
    <2>1. UNCHANGED <<servers, unpublished>>  BY <1>7, Zenon DEF diffTools, catalog
    <2>2. /\ DOMAIN acc = Names(srv) /\ unpub = unpublished[srv]
          /\ \A n \in DOMAIN acc : servers[srv][n].def = acc[n].def
      BY <1>7, Zenon DEF hasChanges, added, dropped
    <2>4. LocalInv'  BY <1>1, <1>2, <1>3, <2>1, Zenon DEF LocalInv
    <2>5. CatalogInv'  BY <1>3, <2>1, Zenon DEF CatalogInv, Names
    <2>6. Settled(srv)
      <3>1. Near(srv)
        <4> SUFFICES ASSUME NEW n \in Names(srv)
                     PROVE  \E j \in DOMAIN last[srv] :
                                /\ PublicName(srv, last[srv][j].name) = n
                                /\ last[srv][j].def = servers[srv][n].def
          BY Zenon DEF Near
        <4>1. PICK j \in DOMAIN last[srv] : last[srv][j] = acc[n]
          BY <1>4, <2>2, Zenon DEF Found
        <4> QED  BY <1>4, <2>2, <4>1, Zenon
      <3>2. ASSUME Distinguishable PROVE Exact(srv)
        <4>1. \A n \in DOMAIN acc : servers[srv][n] = acc[n]
          BY <1>3, <1>4, <2>2, <3>2 DEF CatalogInv, Distinguishable
        <4>2. \A n \in Names(srv) : Found(servers[srv][n], last[srv])
          BY <1>4, <2>2, <4>1, Zenon
        <4>3. \A o : Has(o, servers[srv]) <=> Has(o, acc)
          BY <2>2, <4>1, Zenon DEF Has, Names
        <4> QED  BY <1>4, <2>2, <4>2, <4>3, ZenonT(60) DEF Exact
      <3> QED  BY <3>1, <3>2, Zenon DEF Settled
    <2>7. SettledInv'
      <3> SUFFICES ASSUME NEW s \in Servers PROVE Settled(s)'  BY Zenon DEF SettledInv
      <3>1. Settled(s)  BY <1>3, <2>6, Zenon DEF SettledInv
      <3> QED  BY <1>1, <2>1, <3>1, StaysSettled, Zenon
    <2> QED  BY <1>5, <2>4, <2>5, <2>7, Zenon DEF ListInv
  <1> QED  BY <1>6, <1>7, Zenon

LEMMA ListRegistry ==
  ASSUME IInv, ListInv, removeTools \/ unlock \/ \E n \in toAdd : addTool(n)
  PROVE  ListInv'
  <1>1. /\ pc \in {"unregister", "register"} /\ pc' \in {"register", "idle"}
        /\ UNCHANGED <<servers, unpublished, last>>
        /\ \/ pc' = "idle" /\ tools' = << >> /\ unpub' = << >> /\ idx' = 1
           \/ pc' = "register" /\ UNCHANGED <<tools, unpub>>
    BY Zenon DEF removeTools, unlock, addTool, catalog, history
  <1>2. pc \notin Busy /\ pc' \notin Busy  BY <1>1, Zenon DEF Busy, Naming
  <1>3. CatalogInv' /\ SettledInv'  BY <1>1, <1>2, Unsettled, Zenon DEF ListInv
  <1>4. LocalInv'
    <2>1. << >> \in Seq(Entry) /\ DOMAIN << >> = {}  OBVIOUS
    <2> QED  BY <1>1, <1>2, <2>1, Zenon DEF ListInv, LocalInv
  <1> QED  BY <1>2, <1>3, <1>4, Zenon DEF ListInv, FilterInv, AcceptedInv

LEMMA ListRemove ==
  ASSUME IInv, ListInv, NEW s \in Servers, RemoveServer(s)
  PROVE  ListInv'
  <1>1. /\ pc = "idle" /\ pc' = "unregister"
        /\ servers' = [servers EXCEPT ![s] = NoMap]
        /\ unpublished' = [unpublished EXCEPT ![s] = << >>]
        /\ last' = [last EXCEPT ![s] = << >>]
        /\ UNCHANGED <<tools, unpub>>
    BY Zenon DEF RemoveServer
  <1>2. pc \notin Busy /\ pc' \notin Busy  BY <1>1, Zenon DEF Busy, Naming
  <1>3. CatalogInv /\ SettledInv /\ LocalInv /\ Shape  BY Zenon DEF ListInv, IInv
  <1>4. /\ servers'[s] = NoMap /\ last'[s] = << >>
        /\ \A t \in Servers \ {s} : /\ servers'[t] = servers[t] /\ last'[t] = last[t]
                                     /\ unpublished'[t] = unpublished[t]
        /\ unpublished' = [t \in Servers |-> unpublished'[t]]
        /\ last' = [t \in Servers |-> last'[t]]
    <2>1. DOMAIN servers = Servers /\ DOMAIN unpublished = Servers /\ DOMAIN last = Servers
      BY <1>3, Zenon DEF Shape, LocalInv
    <2> QED  BY <1>1, <2>1, Zenon
  <1>5. DOMAIN servers'[s] = {} /\ DOMAIN last'[s] = {}  BY <1>4 DEF NoMap
  <1>6. LocalInv'  BY <1>1, <1>2, <1>3, <1>4, Zenon DEF LocalInv
  <1>7. CatalogInv'  BY <1>3, <1>4, <1>5, ZenonT(60) DEF CatalogInv, Names
  <1>8. SettledInv'
    <2> SUFFICES ASSUME NEW t \in Servers PROVE Settled(t)'  BY Zenon DEF SettledInv
    <2>1. CASE t = s  BY <1>5, <2>1, Zenon DEF Settled, Near, Exact, Names
    <2>2. CASE t # s
      <3>1. Settled(t)  BY <1>2, <1>3, Zenon DEF SettledInv
      <3> QED  BY <1>4, <2>2, <3>1, StaysSettled, Zenon
    <2> QED  BY <2>1, <2>2, Zenon
  <1> QED  BY <1>2, <1>6, <1>7, <1>8, Zenon DEF ListInv, FilterInv, AcceptedInv

LEMMA ListStutter ==
  ASSUME ListInv, UNCHANGED vars
  PROVE  ListInv'
  <1>1. /\ UNCHANGED <<pc, srv, raw, disabled, tools, idx, err, acc, unpub>>
        /\ UNCHANGED <<servers, unpublished, last>>
    BY Zenon DEF vars, catalog, locals, history
  <1>2. CatalogInv' /\ SettledInv'  BY <1>1, Unsettled, Zenon DEF ListInv
  <1>3. LocalInv'  BY <1>1, Zenon DEF ListInv, LocalInv
  <1>4. FilterInv'
    BY <1>1, Zenon DEF ListInv, FilterInv, Taken, Mentioned, Found
  <1>5. AcceptedInv'
    <2>1. \A m : Name(m)' = Name(m) /\ (Done(m)' <=> Done(m))
      BY <1>1, Zenon DEF Name, PublicName, IsDirect, Done
    <2> QED  BY <1>1, <2>1, ZenonT(60) DEF ListInv, AcceptedInv, Has, Mentioned
  <1> QED  BY <1>2, <1>3, <1>4, <1>5, Zenon DEF ListInv

LEMMA StepListInv == IInv /\ ListInv /\ [Next]_vars => ListInv'
  <1> SUFFICES ASSUME IInv, ListInv, [Next]_vars PROVE ListInv'
    BY Zenon
  <1>1. CASE UNCHANGED vars  BY <1>1, ListStutter, Zenon
  <1>2. CASE \E s \in Servers, list \in Lists, dis \in DisabledSets : PublishServer(s, list, dis)
    BY <1>2, ListPublish, Zenon
  <1>3. CASE filterDisabled  BY <1>3, ListFilter, Zenon
  <1>4. CASE allocateDirect \/ allocateAlias  BY <1>4, ListAllocate, ZenonT(60)
  <1>5. CASE acceptTool  BY <1>5, ListAccept, Zenon
  <1>6. CASE diffTools  BY <1>6, ListDiff, Zenon
  <1>7. CASE removeTools \/ unlock \/ \E n \in toAdd : addTool(n)  BY <1>7, ListRegistry, Zenon
  <1>8. CASE \E s \in Servers : RemoveServer(s)  BY <1>8, ListRemove, Zenon
  <1> QED  BY <1>1, <1>2, <1>3, <1>4, <1>5, <1>6, <1>7, <1>8, ZenonT(60) DEF Next, publication

LEMMA ListInductive == Spec => []ListInv
  BY InitListInv, StepListInv, Inductive, PTL DEF Spec

(* What a route is made of.                                                *)
LEMMA RouteOf ==
  ASSUME IInv, ListInv, pc = "idle", NEW n \in DOMAIN routes
  PROVE  \E s \in Servers :
           /\ n \in Names(s) /\ routes[n].server = s
           /\ routes[n].name = servers[s][n].name /\ routes[n].def = servers[s][n].def
           /\ PublicName(s, servers[s][n].name) = n /\ servers[s][n] \in Tool /\ Settled(s)
  <1>1. routes = Rebuild(servers) /\ Unique(servers)
    BY Zenon DEF IInv, RegistryInv, UniqueNames, Unique, Names
  <1>2. PICK s \in Servers : n \in DOMAIN servers[s]  BY <1>1, RebuildDomain, Zenon
  <1>3. routes[n] = [server |-> s, name |-> servers[s][n].name, def |-> servers[s][n].def]
    BY <1>1, <1>2, RebuildRoutes, ZenonT(60)
  <1>4. /\ routes[n].server = s /\ routes[n].name = servers[s][n].name
        /\ routes[n].def = servers[s][n].def
    BY <1>3
  <1>5. PublicName(s, servers[s][n].name) = n /\ servers[s][n] \in Tool
    BY <1>2, Zenon DEF ListInv, CatalogInv, Names, Listed
  <1>6. Settled(s)  BY DEF ListInv, SettledInv, Busy, Naming
  <1> QED  BY <1>2, <1>4, <1>5, <1>6, Zenon DEF Names

(* A route has the name and the definition of a tool its server lists.     *)
RouteIsListed ==
    pc = "idle" => \A n \in DOMAIN routes :
        LET r == routes[n] IN
        /\ PublicName(r.server, r.name) = n
        /\ \E j \in DOMAIN last[r.server] :
               /\ PublicName(r.server, last[r.server][j].name) = n
               /\ last[r.server][j].def = r.def

(* Whatever the lists are, a route leads to a server that lists a tool with *)
(* the name and the definition that are published: nothing but its original *)
(* name can be out of date (catalog.go: UpdateServerTools, rebuildSnapshot). *)
THEOREM RoutesAreListed == Spec => []RouteIsListed
  <1>1. IInv /\ ListInv => RouteIsListed
    <2> SUFFICES ASSUME IInv, ListInv, pc = "idle", NEW n \in DOMAIN routes
                 PROVE  /\ PublicName(routes[n].server, routes[n].name) = n
                        /\ \E j \in DOMAIN last[routes[n].server] :
                               /\ PublicName(routes[n].server,
                                             last[routes[n].server][j].name) = n
                               /\ last[routes[n].server][j].def = routes[n].def
      BY Zenon DEF RouteIsListed
    <2>1. PICK s \in Servers :
            /\ n \in Names(s) /\ routes[n].server = s
            /\ routes[n].name = servers[s][n].name /\ routes[n].def = servers[s][n].def
            /\ PublicName(s, servers[s][n].name) = n /\ Settled(s)
      BY RouteOf, Zenon
    <2>2. \E j \in DOMAIN last[s] :
             PublicName(s, last[s][j].name) = n /\ last[s][j].def = servers[s][n].def
      BY <2>1, Zenon DEF Settled, Near
    <2>3. \E j \in DOMAIN last[s] :
             PublicName(s, last[s][j].name) = n /\ last[s][j].def = routes[n].def
      BY <2>1, <2>2, Zenon
    <2>4. PublicName(s, routes[n].name) = n /\ routes[n].server = s
      BY <2>1, Zenon
    <2> QED  BY <2>3, <2>4, Zenon
  <1> QED  BY <1>1, Inductive, ListInductive, PTL

(* A route leads to the server and the original name of a tool its server  *)
(* lists, in the definition it lists, if a server has no two tools with one *)
(* public name and one definition (route.go: RouteEntry; catalog.go: the   *)
(* difference that decides whether a publication is stored).               *)
THEOREM RoutesAreCurrent == ASSUME Distinguishable PROVE Spec => []RouteIsCurrent
  <1>1. IInv /\ ListInv => RouteIsCurrent
    <2> SUFFICES ASSUME IInv, ListInv, pc = "idle", NEW n \in DOMAIN routes
                 PROVE  /\ PublicName(routes[n].server, routes[n].name) = n
                        /\ \E j \in DOMAIN last[routes[n].server] :
                               last[routes[n].server][j] =
                                   [name |-> routes[n].name, def |-> routes[n].def]
      BY Zenon DEF RouteIsCurrent
    <2>1. PICK s \in Servers :
            /\ n \in Names(s) /\ routes[n].server = s
            /\ routes[n].name = servers[s][n].name /\ routes[n].def = servers[s][n].def
            /\ PublicName(s, servers[s][n].name) = n /\ servers[s][n] \in Tool /\ Settled(s)
      BY RouteOf, Zenon
    <2>2. servers[s][n] = [name |-> servers[s][n].name, def |-> servers[s][n].def]
      BY <2>1, Zenon DEF Tool
    <2>3. PICK j \in DOMAIN last[s] : last[s][j] = servers[s][n]
      BY <2>1, Zenon DEF Settled, Exact, Found
    <2> QED  BY <2>1, <2>2, <2>3, Zenon
  <1> QED  BY <1>1, Inductive, ListInductive, PTL

(* Every tool of a server's list is published or among the tools that are  *)
(* not, with a reason, and never both, under the same condition            *)
(* (catalog.go: UpdateServerTools).                                        *)
THEOREM ToolsAreAccounted == ASSUME Distinguishable PROVE Spec => []EveryToolAccounted
  <1>1. ListInv => EveryToolAccounted
    <2> SUFFICES ASSUME ListInv, pc = "idle", NEW s \in Servers, NEW j \in DOMAIN last[s]
                 PROVE  Has(last[s][j].name, servers[s])
                          # Mentioned(last[s][j].name, unpublished[s])
      BY Zenon DEF EveryToolAccounted, Has, Mentioned, Names
    <2>1. Has(last[s][j].name, servers[s]) <=> ~Mentioned(last[s][j].name, unpublished[s])
      BY Zenon DEF ListInv, SettledInv, Settled, Exact, Busy, Naming
    <2> QED  BY <2>1, Zenon
  <1> QED  BY <1>1, ListInductive, PTL

-----------------------------------------------------------------------------
(* Sums.  SumFunctionOnSet folds over subsets; that it may start with any   *)
(* element is shown on the smallest subset where it might not.             *)
LEMMA LeastNatural ==
  ASSUME NEW T, T \subseteq Nat, T # {}
  PROVE  \E x \in T : \A y \in T : x <= y
  <1>1. PICK x \in T : \A y \in T : ~(<<y, x>> \in OpToRel(<, Nat))
    BY NatLessThanWellFounded, WFMin, Zenon
  <1>2. \A y \in T : ~(y < x)  BY <1>1, Zenon DEF OpToRel
  <1> QED  BY <1>2

Term(f, g, s) ==
    IF s = {} THEN 0
    ELSE f[CHOOSE x \in s : TRUE] + g[s \ {CHOOSE x \in s : TRUE}]

IsFold(g, f, S) == g = [s \in SUBSET S |-> Term(f, g, s)]

LEMMA SumIsFold ==
  ASSUME NEW f, NEW S
  PROVE  SumFunctionOnSet(f, S) = (CHOOSE g : IsFold(g, f, S))[S]
  BY Zenon DEF SumFunctionOnSet, FoldFunctionOnSet, MapThenFoldSet, IsFold, Term


LEMMA NaturalsClosed ==
  ASSUME NEW G, G \subseteq Nat, 0 \in G, \A n \in G : n + 1 \in G
  PROVE  G = Nat
  <1> SUFFICES ASSUME Nat \ G # {} PROVE FALSE  BY Zenon
  <1>1. PICK m \in Nat \ G : \A y \in Nat \ G : m <= y  BY LeastNatural, Zenon
  <1>2. m # 0 /\ m - 1 \in Nat  OBVIOUS
  <1>3. m - 1 \in G  BY <1>1, <1>2
  <1>4. (m - 1) + 1 \in G  BY <1>3, Zenon
  <1> QED  BY <1>4

LEMMA Chosen ==
  ASSUME NEW s, s # {}
  PROVE  (CHOOSE x \in s : TRUE) \in s
  BY Zenon

LEMMA FoldExists ==
  ASSUME NEW f, NEW S, IsFiniteSet(S)
  PROVE  \E g : IsFold(g, f, S)
  <1> DEFINE Upto(n) == {t \in SUBSET S : Cardinality(t) <= n}
             G == {n \in Nat : \E g : g = [s \in Upto(n) |-> Term(f, g, s)]}
  <1>1. 0 \in G
    <2> DEFINE g == [s \in Upto(0) |-> 0]
    <2>1. \A s \in Upto(0) : s = {}
      <3> SUFFICES ASSUME NEW s \in Upto(0) PROVE s = {}  BY Zenon
      <3>1. IsFiniteSet(s) /\ Cardinality(s) \in Nat  BY FS_Subset, FS_CardinalityType, Zenon
      <3> QED  BY <3>1, FS_EmptySet
    <2>2. g = [s \in Upto(0) |-> Term(f, g, s)]
      BY <2>1, Zenon DEF Term
    <2> QED  BY <2>2, Zenon
  <1>2. ASSUME NEW n \in G PROVE n + 1 \in G
    <2>1. PICK g : g = [s \in Upto(n) |-> Term(f, g, s)]  BY Zenon
    <2> DEFINE h == [s \in Upto(n + 1) |-> Term(f, g, s)]
    <2>2. \A s \in Upto(n) : s \in Upto(n + 1) /\ h[s] = g[s]
      <3> SUFFICES ASSUME NEW s \in Upto(n) PROVE s \in Upto(n + 1) /\ h[s] = g[s]
        BY Zenon
      <3>1. Cardinality(s) \in Nat  BY FS_Subset, FS_CardinalityType, Zenon
      <3>2. s \in Upto(n + 1)  BY <3>1
      <3>3. g[s] = Term(f, g, s)  BY <2>1, Zenon
      <3> QED  BY <3>2, <3>3, Zenon
    <2>3. ASSUME NEW s \in Upto(n + 1) PROVE Term(f, g, s) = Term(f, h, s)
      <3>1. CASE s = {}  BY <3>1, Zenon DEF Term
      <3>2. CASE s # {}
        <4> DEFINE c == CHOOSE x \in s : TRUE
        <4>1. c \in s  BY <3>2, Chosen, Zenon
        <4>2. Term(f, g, s) = f[c] + g[s \ {c}] /\ Term(f, h, s) = f[c] + h[s \ {c}]
          BY <3>2, Zenon DEF Term
        <4> HIDE DEF c
        <4>3. IsFiniteSet(s) /\ Cardinality(s) \in Nat  BY FS_Subset, FS_CardinalityType, Zenon
        <4>4. Cardinality(s \ {c}) = Cardinality(s) - 1  BY <4>1, <4>3, FS_RemoveElement, Zenon
        <4>5. s \ {c} \in Upto(n)  BY <4>3, <4>4
        <4> HIDE DEF h, Upto
        <4> QED  BY <2>2, <4>2, <4>5, Zenon
      <3> QED  BY <3>1, <3>2, Zenon
    <2>4. h = [s \in Upto(n + 1) |-> Term(f, h, s)]
      <3> HIDE DEF Upto
      <3> QED  BY <2>3, Zenon
    <2> HIDE DEF h, Upto
    <2>5. n + 1 \in Nat  OBVIOUS
    <2> QED  BY <2>4, <2>5, Zenon
  <1>3. G = Nat
    <2> HIDE DEF G
    <2>1. G \subseteq Nat BY Zenon DEF G
    <2> QED  BY <1>1, <1>2, <2>1, NaturalsClosed, Zenon
  <1>4. Cardinality(S) \in Nat  BY FS_CardinalityType, Zenon
  <1>5. PICK g : g = [s \in Upto(Cardinality(S)) |-> Term(f, g, s)]  BY <1>3, <1>4, Zenon
  <1>6. Upto(Cardinality(S)) = SUBSET S  BY FS_Subset, Zenon
  <1> QED  BY <1>5, <1>6, Zenon DEF IsFold

(* One fold is another's, wherever both are defined.                       *)
LEMMA FoldsAgree ==
  ASSUME NEW f, NEW S, NEW T, IsFiniteSet(S), IsFiniteSet(T), NEW g, NEW h, NEW e,
         IsFold(g, f, S), IsFold(h, e, T), NEW s, s \subseteq S, s \subseteq T,
         \A x \in s : f[x] = e[x]
  PROVE  g[s] = h[s]
  <1> DEFINE B == {n \in Nat : \E t \in SUBSET s : Cardinality(t) = n /\ g[t] # h[t]}
  <1> SUFFICES ASSUME g[s] # h[s] PROVE FALSE  BY Zenon
  <1>1. \A t \in SUBSET s : IsFiniteSet(t) /\ Cardinality(t) \in Nat
    BY FS_Subset, FS_CardinalityType, Zenon
  <1>2. B # {} /\ B \subseteq Nat
    <2>1. Cardinality(s) \in B  BY <1>1, Zenon
    <2> QED  BY <2>1, Zenon
  <1>3. PICK m \in B : \A y \in B : m <= y
    <2> HIDE DEF B
    <2> QED BY <1>2, LeastNatural, Zenon
  <1>4. PICK t \in SUBSET s : Cardinality(t) = m /\ g[t] # h[t]  BY Zenon
  <1>5. g[t] = Term(f, g, t) /\ h[t] = Term(e, h, t)  BY Zenon DEF IsFold
  <1>6. t # {}  BY <1>4, <1>5, Zenon DEF Term
  <1> DEFINE c == CHOOSE x \in t : TRUE
  <1>7. c \in t  BY <1>6, Chosen, Zenon
  <1>8. g[t] = f[c] + g[t \ {c}] /\ h[t] = e[c] + h[t \ {c}]
    BY <1>5, <1>6, Zenon DEF Term
  <1> HIDE DEF c
  <1>9. Cardinality(t \ {c}) = m - 1  BY <1>1, <1>4, <1>7, FS_RemoveElement, Zenon
  <1>10. Cardinality(t \ {c}) \in Nat /\ t \ {c} \in SUBSET s  BY <1>1, Zenon
  <1>11. Cardinality(t \ {c}) \notin B
    <2> HIDE DEF B
    <2>1. m \in Nat /\ B \subseteq Nat  BY <1>2, Zenon
    <2> QED  BY <1>3, <1>9, <2>1
  <1>12. g[t \ {c}] = h[t \ {c}]  BY <1>10, <1>11, Zenon
  <1> QED  BY <1>4, <1>7, <1>8, <1>12, Zenon

LEMMA SumFold ==
  ASSUME NEW f, NEW S, IsFiniteSet(S)
  PROVE  \E g : IsFold(g, f, S) /\ SumFunctionOnSet(f, S) = g[S]
  BY SumIsFold, FoldExists, Zenon

(* A sum depends on what is summed and on nothing else.                    *)
LEMMA SumsAgree ==
  ASSUME NEW f, NEW e, NEW S, IsFiniteSet(S), \A x \in S : f[x] = e[x]
  PROVE  SumFunctionOnSet(f, S) = SumFunctionOnSet(e, S)
  <1>1. PICK g : IsFold(g, f, S) /\ SumFunctionOnSet(f, S) = g[S]  BY SumFold, Zenon
  <1>2. PICK h : IsFold(h, e, S) /\ SumFunctionOnSet(e, S) = h[S]  BY SumFold, Zenon
  <1>3. g[S] = h[S]  BY <1>1, <1>2, FoldsAgree
  <1> QED  BY <1>1, <1>2, <1>3, Zenon

LEMMA SumOfNone ==
  ASSUME NEW f
  PROVE  SumFunctionOnSet(f, {}) = 0
  <1>1. PICK g : IsFold(g, f, {}) /\ SumFunctionOnSet(f, {}) = g[{}]
    BY SumFold, FS_EmptySet, Zenon
  <1> QED  BY <1>1, Zenon DEF IsFold, Term

LEMMA SumChosen ==
  ASSUME NEW f, NEW S, IsFiniteSet(S), S # {}
  PROVE  LET c == CHOOSE x \in S : TRUE
         IN  SumFunctionOnSet(f, S) = f[c] + SumFunctionOnSet(f, S \ {c})
  <1> DEFINE c == CHOOSE x \in S : TRUE
  <1>1. PICK g : IsFold(g, f, S) /\ SumFunctionOnSet(f, S) = g[S]  BY SumFold, Zenon
  <1>2. g[S] = f[c] + g[S \ {c}]  BY <1>1, Zenon DEF IsFold, Term
  <1> HIDE DEF c
  <1>3. IsFiniteSet(S \ {c})  BY FS_RemoveElement, Zenon
  <1>4. PICK h : IsFold(h, f, S \ {c}) /\ SumFunctionOnSet(f, S \ {c}) = h[S \ {c}]
    BY <1>3, SumFold, Zenon
  <1>5. g[S \ {c}] = h[S \ {c}]  BY <1>1, <1>3, <1>4, FoldsAgree, SMTT(30)
  <1>6. SumFunctionOnSet(f, S) = f[c] + SumFunctionOnSet(f, S \ {c})
    BY <1>1, <1>2, <1>4, <1>5, Zenon
  <1> QED  BY <1>6, Zenon DEF c

(* The sum of naturals is one, and any of them can be taken out of it.     *)
LEMMA SumTakes ==
  ASSUME NEW f, NEW S, IsFiniteSet(S), \A x \in S : f[x] \in Nat
  PROVE  /\ SumFunctionOnSet(f, S) \in Nat
         /\ \A x \in S : SumFunctionOnSet(f, S) = f[x] + SumFunctionOnSet(f, S \ {x})
  <1> DEFINE Good(t) ==
               /\ SumFunctionOnSet(f, t) \in Nat
               /\ \A x \in t : SumFunctionOnSet(f, t) = f[x] + SumFunctionOnSet(f, t \ {x})
             B == {n \in Nat : \E t \in SUBSET S : Cardinality(t) = n /\ ~Good(t)}
  <1> SUFFICES ASSUME ~Good(S) PROVE FALSE  BY Zenon
  <1> HIDE DEF Good
  <1>1. \A t \in SUBSET S : IsFiniteSet(t) /\ Cardinality(t) \in Nat
    BY FS_Subset, FS_CardinalityType, Zenon
  <1>2. Cardinality(S) \in B /\ B \subseteq Nat  BY <1>1, Zenon
  <1>3. PICK m \in B : \A y \in B : m <= y
    <2> HIDE DEF B
    <2> QED  BY <1>2, LeastNatural, Zenon
  <1>4. PICK t \in SUBSET S : Cardinality(t) = m /\ ~Good(t)  BY Zenon
  <1>5. ASSUME NEW x \in t PROVE Good(t \ {x})
    <2>1. Cardinality(t \ {x}) = m - 1  BY <1>1, <1>4, FS_RemoveElement, Zenon
    <2>2. t \ {x} \in SUBSET S /\ Cardinality(t \ {x}) \in Nat  BY <1>1, Zenon
    <2>3. Cardinality(t \ {x}) \notin B  BY <1>3, <2>1, <2>2, SMTT(30)
    <2> QED  BY <2>2, <2>3, Zenon
  <1>6. t # {}  BY <1>4, SumOfNone DEF Good
  <1> DEFINE c == CHOOSE x \in t : TRUE
  <1>7. c \in t /\ SumFunctionOnSet(f, t) = f[c] + SumFunctionOnSet(f, t \ {c})
    BY <1>1, <1>6, Chosen, SumChosen, Zenon
  <1> HIDE DEF c
  <1>8. f[c] \in Nat /\ SumFunctionOnSet(f, t \ {c}) \in Nat
    BY <1>5, <1>7, Zenon DEF Good
  <1>9. ASSUME NEW x \in t PROVE SumFunctionOnSet(f, t) = f[x] + SumFunctionOnSet(f, t \ {x})
    <2>1. CASE x = c  BY <1>7, <2>1, Zenon
    <2>2. CASE x # c
      <3>1. SumFunctionOnSet(f, t \ {c}) = f[x] + SumFunctionOnSet(f, (t \ {c}) \ {x})
        BY <1>5, <1>7, <2>2, Zenon DEF Good
      <3>2. SumFunctionOnSet(f, t \ {x}) = f[c] + SumFunctionOnSet(f, (t \ {x}) \ {c})
        BY <1>5, <1>7, <2>2, Zenon DEF Good
      <3>3. (t \ {c}) \ {x} = (t \ {x}) \ {c}  BY Zenon
      <3>4. Good((t \ {c}) \ {x})
        <4> DEFINE u == (t \ {c}) \ {x}
        <4>1. Cardinality(t \ {c}) = m - 1 /\ IsFiniteSet(t \ {c})
          BY <1>1, <1>4, <1>7, FS_RemoveElement, ZenonT(60)
        <4>2. Cardinality(u) = m - 2
          <5>1. x \in t \ {c}  BY <2>2, Zenon
          <5>2. Cardinality(u) = Cardinality(t \ {c}) - 1  BY <4>1, <5>1, FS_RemoveElement, Zenon
          <5> QED  BY <1>2, <4>1, <5>2, SMTT(30)
        <4>3. u \in SUBSET S /\ Cardinality(u) \in Nat  BY <1>1, Zenon
        <4>4. Cardinality(u) \notin B  BY <1>3, <4>2, <4>3, SMTT(30)
        <4> QED  BY <4>3, <4>4, Zenon
      <3>5. f[x] \in Nat /\ SumFunctionOnSet(f, (t \ {c}) \ {x}) \in Nat
        BY <3>4, Zenon DEF Good
      <3> QED  BY <1>7, <1>8, <3>1, <3>2, <3>3, <3>5, SMTT(30)
    <2> QED  BY <2>1, <2>2, Zenon
  <1> QED  BY <1>4, <1>7, <1>8, <1>9, SMTT(30) DEF Good

LEMMA SumOfZeros ==
  ASSUME NEW f, NEW S, IsFiniteSet(S), \A x \in S : f[x] = 0
  PROVE  SumFunctionOnSet(f, S) = 0
  <1> DEFINE g == [s \in SUBSET S |-> 0]
  <1>1. IsFold(g, f, S)
    <2> SUFFICES ASSUME NEW s \in SUBSET S PROVE Term(f, g, s) = 0
      BY Zenon DEF IsFold
    <2>1. CASE s = {}  BY <2>1, Zenon DEF Term
    <2>2. CASE s # {}
      <3> DEFINE c == CHOOSE x \in s : TRUE
      <3>1. c \in s  BY <2>2, Chosen, Zenon
      <3>2. Term(f, g, s) = f[c] + g[s \ {c}]  BY <2>2, Zenon DEF Term
      <3> HIDE DEF c
      <3>3. f[c] = 0 /\ g[s \ {c}] = 0  BY <3>1, Zenon
      <3> QED  BY <3>2, <3>3
    <2> QED  BY <2>1, <2>2, Zenon
  <1>2. g[S] = 0  BY Zenon
  <1> HIDE DEF g
  <1>3. PICK h : IsFold(h, f, S) /\ SumFunctionOnSet(f, S) = h[S]  BY SumFold, Zenon
  <1>4. h[S] = g[S]  BY <1>1, <1>3, FoldsAgree
  <1> QED  BY <1>2, <1>3, <1>4, Zenon

-----------------------------------------------------------------------------
(* The limits of the catalog.                                              *)
FiniteMap(m) == IsFiniteSet(DOMAIN m) /\ \A n \in DOMAIN m : m[n].def \in Defs

LEMMA BytesNat ==
  ASSUME NEW m, FiniteMap(m)
  PROVE  Bytes(m) \in Nat
  <1> DEFINE f == [n \in DOMAIN m |-> Size[m[n].def]]
  <1>1. DOMAIN f = DOMAIN m /\ \A n \in DOMAIN m : f[n] \in Nat
    BY CapacityAssumption, Zenon DEF FiniteMap
  <1>2. Bytes(m) = SumFunctionOnSet(f, DOMAIN m)
    BY <1>1, Zenon DEF Bytes, SumFunction
  <1> HIDE DEF f
  <1> QED  BY <1>1, <1>2, SumTakes, ZenonT(60) DEF FiniteMap

LEMMA BytesNone == Bytes(NoMap) = 0
  <1> DEFINE f == [n \in DOMAIN NoMap |-> Size[NoMap[n].def]]
  <1>1. DOMAIN f = {}  BY Zenon DEF NoMap
  <1>2. Bytes(NoMap) = SumFunctionOnSet(f, {})
    BY <1>1, Zenon DEF Bytes, SumFunction
  <1> HIDE DEF f
  <1> QED  BY <1>2, SumOfNone, Zenon

LEMMA BytesPut ==
  ASSUME NEW m, FiniteMap(m), NEW c, NEW t, t.def \in Defs
  PROVE  /\ FiniteMap(Put(m, c, t))
         /\ Bytes(Put(m, c, t)) <= Bytes(m) + Size[t.def]
         /\ Cardinality(DOMAIN Put(m, c, t)) <= Cardinality(DOMAIN m) + 1
  <1> DEFINE p == Put(m, c, t)
             S == DOMAIN m \cup {c}
             f == [n \in DOMAIN m |-> Size[m[n].def]]
             g == [n \in DOMAIN p |-> Size[p[n].def]]
  <1>1. /\ DOMAIN p = S /\ p[c] = t /\ \A n \in DOMAIN m \ {c} : p[n] = m[n]
    BY Zenon DEF Put
  <1>2. /\ IsFiniteSet(S) /\ Cardinality(S) <= Cardinality(DOMAIN m) + 1
    <2>1. Cardinality(DOMAIN m) \in Nat  BY FS_CardinalityType, Zenon DEF FiniteMap
    <2>2. IsFiniteSet(DOMAIN m)  BY Zenon DEF FiniteMap
    <2>3. /\ IsFiniteSet(DOMAIN m \cup {c})
          /\ Cardinality(DOMAIN m \cup {c}) =
                 IF c \in DOMAIN m THEN Cardinality(DOMAIN m) ELSE Cardinality(DOMAIN m) + 1
      BY <2>2, FS_AddElement, Zenon
    <2> QED  BY <2>1, <2>3
  <1> HIDE DEF p
  <1>3. FiniteMap(p)  BY <1>1, <1>2, Zenon DEF FiniteMap
  <1>4. /\ DOMAIN f = DOMAIN m /\ DOMAIN g = S /\ g[c] = Size[t.def]
        /\ \A n \in DOMAIN m : f[n] \in Nat
        /\ \A n \in S : g[n] \in Nat
        /\ \A n \in S \ {c} : n \in DOMAIN m /\ f[n] = g[n]
    BY <1>1, <1>3, CapacityAssumption, Zenon DEF FiniteMap
  <1>5. Bytes(m) = SumFunctionOnSet(f, DOMAIN m) /\ Bytes(p) = SumFunctionOnSet(g, S)
    BY <1>4, Zenon DEF Bytes, SumFunction
  <1> HIDE DEF f, g
  <1>6. SumFunctionOnSet(g, S) = g[c] + SumFunctionOnSet(g, S \ {c})
    <2>1. c \in S  BY Zenon
    <2> HIDE DEF S
    <2> QED  BY <1>2, <1>4, <2>1, SumTakes
  <1>7. IsFiniteSet(S \ {c})  BY <1>2, FS_RemoveElement, Zenon
  <1>8. SumFunctionOnSet(g, S \ {c}) = SumFunctionOnSet(f, S \ {c})
    BY <1>4, <1>7, SumsAgree
  <1>9. /\ SumFunctionOnSet(f, S \ {c}) \in Nat /\ SumFunctionOnSet(f, DOMAIN m) \in Nat
        /\ SumFunctionOnSet(f, S \ {c}) <= SumFunctionOnSet(f, DOMAIN m)
    <2>1. IsFiniteSet(DOMAIN m)  BY Zenon DEF FiniteMap
    <2>2. SumFunctionOnSet(f, S \ {c}) \in Nat  BY <1>4, <1>7, SumTakes, Zenon
    <2>3. SumFunctionOnSet(f, DOMAIN m) \in Nat  BY <1>4, <2>1, SumTakes, Zenon
    <2>4. CASE c \in DOMAIN m
      <3>1. S \ {c} = DOMAIN m \ {c}  BY Zenon
      <3>2. SumFunctionOnSet(f, DOMAIN m) = f[c] + SumFunctionOnSet(f, DOMAIN m \ {c})
        BY <1>4, <2>1, <2>4, SumTakes, SMTT(30)
      <3>3. f[c] \in Nat  BY <1>4, <2>4, Zenon
      <3> QED  BY <2>2, <2>3, <3>1, <3>2, <3>3, SMTT(30)
    <2>5. CASE c \notin DOMAIN m
      <3>1. S \ {c} = DOMAIN m  BY <2>5, Zenon
      <3> QED  BY <2>2, <2>3, <3>1
    <2> QED  BY <2>4, <2>5, Zenon
  <1>10. Size[t.def] \in Nat  BY CapacityAssumption, Zenon
  <1>11. Bytes(p) <= Bytes(m) + Size[t.def]
    BY <1>4, <1>5, <1>6, <1>8, <1>9, <1>10, SMTT(30)
  <1> QED  BY <1>1, <1>2, <1>3, <1>11, Zenon DEF p

(* The counts of all servers are the counts of one and of the others.      *)
Counts(sv) == [t \in Servers |-> Cardinality(DOMAIN sv[t])]

Weights(sv) == [t \in Servers |-> Bytes(sv[t])]

LEMMA CountsAreSums ==
  /\ \A ss : ToolCount(ss) = SumFunctionOnSet(Counts(servers), ss)
  /\ \A ss : ByteCount(ss) = SumFunctionOnSet(Weights(servers), ss)
  BY Zenon DEF ToolCount, ByteCount, Counts, Weights, Names

LEMMA OneAndOthers ==
  ASSUME NEW sv, NEW s \in Servers, \A t \in Servers : FiniteMap(sv[t])
  PROVE  LET rest == Servers \ {s} IN
         /\ Cardinality(DOMAIN sv[s]) \in Nat /\ Bytes(sv[s]) \in Nat
         /\ SumFunctionOnSet(Counts(sv), rest) \in Nat
         /\ SumFunctionOnSet(Weights(sv), rest) \in Nat
         /\ SumFunctionOnSet(Counts(sv), Servers) =
                Cardinality(DOMAIN sv[s]) + SumFunctionOnSet(Counts(sv), rest)
         /\ SumFunctionOnSet(Weights(sv), Servers) =
                Bytes(sv[s]) + SumFunctionOnSet(Weights(sv), rest)
  <1>1. IsFiniteSet(Servers) /\ IsFiniteSet(Servers \ {s})
    BY CapacityAssumption, FS_RemoveElement, Zenon
  <1>2. \A t \in Servers : Counts(sv)[t] = Cardinality(DOMAIN sv[t]) /\ Counts(sv)[t] \in Nat
    BY FS_CardinalityType, Zenon DEF Counts, FiniteMap
  <1>3. \A t \in Servers : Weights(sv)[t] = Bytes(sv[t]) /\ Weights(sv)[t] \in Nat
    BY BytesNat, Zenon DEF Weights
  <1>4. /\ SumFunctionOnSet(Counts(sv), Servers \ {s}) \in Nat
        /\ SumFunctionOnSet(Weights(sv), Servers \ {s}) \in Nat
    BY <1>1, <1>2, <1>3, SumTakes, ZenonT(60)
  <1>5. /\ SumFunctionOnSet(Counts(sv), Servers)
              = Counts(sv)[s] + SumFunctionOnSet(Counts(sv), Servers \ {s})
        /\ SumFunctionOnSet(Weights(sv), Servers)
              = Weights(sv)[s] + SumFunctionOnSet(Weights(sv), Servers \ {s})
    BY <1>1, <1>2, <1>3, SumTakes, SMTT(30)
  <1> QED  BY <1>2, <1>3, <1>4, <1>5, Zenon

Fits(sv) ==
    /\ \A s \in Servers : Cardinality(DOMAIN sv[s]) <= MaxToolsPerServer
    /\ SumFunctionOnSet(Counts(sv), Servers) <= MaxTotalTools
    /\ SumFunctionOnSet(Weights(sv), Servers) <= MaxCatalogBytes

(* The tools m of server s fit in beside those of the others.              *)
FitsIn(sv, s, m) ==
    /\ Cardinality(DOMAIN m) <= MaxToolsPerServer
    /\ SumFunctionOnSet(Counts(sv), Servers \ {s}) + Cardinality(DOMAIN m) <= MaxTotalTools
    /\ SumFunctionOnSet(Weights(sv), Servers \ {s}) + Bytes(m) <= MaxCatalogBytes

FiniteMaps(sv) == \A t \in Servers : FiniteMap(sv[t])

LEMMA FitsReplaced ==
  ASSUME NEW sv, DOMAIN sv = Servers, FiniteMaps(sv), Fits(sv), NEW s \in Servers,
         NEW m, FiniteMap(m), FitsIn(sv, s, m), NEW nw, nw = [sv EXCEPT ![s] = m]
  PROVE  FiniteMaps(nw) /\ Fits(nw)
  <1>1. nw[s] = m /\ \A t \in Servers \ {s} : nw[t] = sv[t]  BY Zenon
  <1>2. FiniteMaps(nw)  BY <1>1, Zenon DEF FiniteMaps
  <1>3. IsFiniteSet(Servers \ {s})  BY CapacityAssumption, FS_RemoveElement, Zenon
  <1>4. /\ \A t \in Servers \ {s} : Counts(nw)[t] = Counts(sv)[t]
        /\ \A t \in Servers \ {s} : Weights(nw)[t] = Weights(sv)[t]
    BY <1>1, Zenon DEF Counts, Weights
  <1>5. /\ SumFunctionOnSet(Counts(nw), Servers \ {s}) = SumFunctionOnSet(Counts(sv), Servers \ {s})
        /\ SumFunctionOnSet(Weights(nw), Servers \ {s}) = SumFunctionOnSet(Weights(sv), Servers \ {s})
    <2> DEFINE c == Counts(nw)
               d == Counts(sv)
               v == Weights(nw)
               w == Weights(sv)
    <2> HIDE DEF c, d, v, w
    <2>1. \A t \in Servers \ {s} : c[t] = d[t] /\ v[t] = w[t]
      BY <1>4, Zenon DEF c, d, v, w
    <2>2. SumFunctionOnSet(c, Servers \ {s}) = SumFunctionOnSet(d, Servers \ {s})
      BY <1>3, <2>1, SumsAgree
    <2>3. SumFunctionOnSet(v, Servers \ {s}) = SumFunctionOnSet(w, Servers \ {s})
      BY <1>3, <2>1, SumsAgree
    <2> QED  BY <2>2, <2>3, Zenon DEF c, d, v, w
  <1>6. /\ Cardinality(DOMAIN m) \in Nat /\ Bytes(m) \in Nat
        /\ SumFunctionOnSet(Counts(nw), Servers \ {s}) \in Nat
        /\ SumFunctionOnSet(Weights(nw), Servers \ {s}) \in Nat
        /\ SumFunctionOnSet(Counts(nw), Servers) =
                Cardinality(DOMAIN m) + SumFunctionOnSet(Counts(nw), Servers \ {s})
        /\ SumFunctionOnSet(Weights(nw), Servers) =
                Bytes(m) + SumFunctionOnSet(Weights(nw), Servers \ {s})
    BY <1>1, <1>2, OneAndOthers, Zenon DEF FiniteMaps
  <1>7. \A t \in Servers : Cardinality(DOMAIN nw[t]) <= MaxToolsPerServer
    BY <1>1, Zenon DEF Fits, FitsIn
  <1>8. /\ SumFunctionOnSet(Counts(nw), Servers) <= MaxTotalTools
        /\ SumFunctionOnSet(Weights(nw), Servers) <= MaxCatalogBytes
    BY <1>5, <1>6 DEF FitsIn
  <1> QED  BY <1>2, <1>7, <1>8, Zenon DEF Fits

LEMMA NothingFits ==
  ASSUME NEW sv, FiniteMaps(sv), Fits(sv), NEW s \in Servers
  PROVE  FiniteMap(NoMap) /\ FitsIn(sv, s, NoMap)
  <1>1. DOMAIN NoMap = {} /\ FiniteMap(NoMap) /\ Cardinality(DOMAIN NoMap) = 0
    BY FS_EmptySet, Zenon DEF NoMap, FiniteMap
  <1>2. Bytes(NoMap) = 0  BY BytesNone, Zenon
  <1>3. /\ Cardinality(DOMAIN sv[s]) \in Nat /\ Bytes(sv[s]) \in Nat
        /\ SumFunctionOnSet(Counts(sv), Servers \ {s}) \in Nat
        /\ SumFunctionOnSet(Weights(sv), Servers \ {s}) \in Nat
        /\ SumFunctionOnSet(Counts(sv), Servers) =
                Cardinality(DOMAIN sv[s]) + SumFunctionOnSet(Counts(sv), Servers \ {s})
        /\ SumFunctionOnSet(Weights(sv), Servers) =
                Bytes(sv[s]) + SumFunctionOnSet(Weights(sv), Servers \ {s})
    BY OneAndOthers, Zenon DEF FiniteMaps
  <1> QED  BY <1>1, <1>2, <1>3, CapacityAssumption DEF Fits, FitsIn

(* What is accepted fits in, and so does what one more tool makes of it.   *)
LEMMA FitsPut ==
  ASSUME IInv, FiniteMaps(servers), FiniteMap(acc), FitsIn(servers, srv, acc),
         pc = "accept", idx \in DOMAIN tools, refusal = "none"
  PROVE  /\ FiniteMap(Put(acc, candidate, tools[idx]))
         /\ FitsIn(servers, srv, Put(acc, candidate, tools[idx]))
  <1> DEFINE t == tools[idx]
             p == Put(acc, candidate, t)
  <1>1. srv \in Servers /\ t \in Tool  BY DEF IInv, Shape
  <1>2. t.def \in Defs /\ Size[t.def] \in Nat
    <2>1. t.def \in Defs  BY <1>1, Zenon DEF Tool
    <2> QED  BY <2>1, CapacityAssumption, Zenon
  <1>3. /\ ~(Cardinality(DOMAIN acc) >= MaxToolsPerServer)
        /\ ~(ToolCount(Servers \ {srv}) + Cardinality(DOMAIN acc) >= MaxTotalTools)
        /\ ~(ByteCount(Servers \ {srv}) + Bytes(acc) + Size[t.def] > MaxCatalogBytes)
    BY Zenon DEF refusal
  <1> HIDE DEF t
  <1>4. /\ FiniteMap(p) /\ Bytes(p) <= Bytes(acc) + Size[t.def]
        /\ Cardinality(DOMAIN p) <= Cardinality(DOMAIN acc) + 1
    BY <1>2, BytesPut, Zenon
  <1> HIDE DEF p
  <1>5. /\ Bytes(acc) \in Nat /\ Bytes(p) \in Nat
        /\ Cardinality(DOMAIN acc) \in Nat /\ Cardinality(DOMAIN p) \in Nat
    BY <1>4, BytesNat, FS_CardinalityType, Zenon DEF FiniteMap
  <1>6. /\ SumFunctionOnSet(Counts(servers), Servers \ {srv}) \in Nat
        /\ SumFunctionOnSet(Weights(servers), Servers \ {srv}) \in Nat
    BY <1>1, OneAndOthers, Zenon DEF FiniteMaps
  <1>7. FitsIn(servers, srv, p)
    BY <1>2, <1>3, <1>4, <1>5, <1>6, CountsAreSums, CapacityAssumption, SMTT(30) DEF FitsIn
  <1> QED  BY <1>4, <1>7, Zenon DEF p, t

(* The tools a publication accepts fit beside those of the other servers.  *)
SizeInv ==
    /\ FiniteMaps(servers) /\ Fits(servers) /\ FiniteMap(acc)
    /\ pc \in {"accept", "diff"} => FitsIn(servers, srv, acc)

LEMMA SizesKeep ==
  ASSUME SizeInv, UNCHANGED servers, FiniteMap(acc'),
         pc' \in {"accept", "diff"} => FitsIn(servers, srv', acc')
  PROVE  SizeInv'
  BY Zenon DEF SizeInv, FiniteMaps, Fits, FitsIn, FiniteMap, Counts, Weights, Bytes

LEMMA StepSizeInv == IInv /\ SizeInv /\ [Next]_vars => SizeInv'
  <1> SUFFICES ASSUME IInv, SizeInv, [Next]_vars PROVE SizeInv'
    BY Zenon
  <1>1. /\ FiniteMaps(servers) /\ Fits(servers) /\ FiniteMap(acc) /\ srv \in Servers
        /\ servers = [s \in Servers |-> servers[s]]
        /\ pc \in {"accept", "diff"} => FitsIn(servers, srv, acc)
    BY Zenon DEF SizeInv, IInv, Shape
  <1>2. \A s \in Servers : FiniteMap(NoMap) /\ FitsIn(servers, s, NoMap)
    BY <1>1, NothingFits, Zenon
  <1>3. ASSUME \/ UNCHANGED vars \/ removeTools \/ \E n \in toAdd : addTool(n)
               \/ filterDisabled \/ allocateDirect
               \/ \E s \in Servers, list \in Lists, dis \in DisabledSets :
                      PublishServer(s, list, dis)
        PROVE  SizeInv'
    <2>1. UNCHANGED <<servers, acc>>
      BY <1>3, Zenon DEF vars, catalog, locals, removeTools, addTool, filterDisabled, allocateDirect,
                  PublishServer
    <2>2. pc' \in {"accept", "diff"} => pc' = pc /\ srv' = srv
      BY <1>3, Zenon DEF vars, catalog, locals, removeTools, addTool, filterDisabled, allocateDirect,
                  PublishServer, Loop
    <2> QED  BY <1>1, <2>1, <2>2, SizesKeep, Zenon
  <1>4. ASSUME unlock PROVE SizeInv'
    <2>1. UNCHANGED servers /\ acc' = NoMap /\ pc' = "idle"
      BY <1>4, Zenon DEF unlock, catalog
    <2> QED  BY <1>1, <1>2, <2>1, SizesKeep, Zenon
  <1>5. ASSUME allocateAlias PROVE SizeInv'
    <2>1. UNCHANGED <<servers, acc, srv>> /\ pc = "alias"
      BY <1>5, Zenon DEF allocateAlias, Loop, catalog
    <2>2. acc = NoMap  BY <2>1, Zenon DEF IInv, Shape
    <2> QED  BY <1>1, <1>2, <2>1, <2>2, SizesKeep, Zenon
  <1>6. ASSUME acceptTool PROVE SizeInv'
    <2>1. UNCHANGED <<servers, srv>> /\ pc = "accept"
      BY <1>6, Zenon DEF acceptTool, Loop, catalog
    <2>2. CASE acc' = acc  BY <1>1, <2>1, <2>2, SizesKeep, Zenon
    <2>3. CASE acc' # acc
      <3>1. /\ ~(idx > Len(tools)) /\ refusal = "none"
            /\ acc' = Put(acc, candidate, tools[idx])
        BY <1>6, <2>3, Zenon DEF acceptTool
      <3>2. idx \in DOMAIN tools  BY <3>1 DEF IInv, Shape
      <3>3. FiniteMap(acc') /\ FitsIn(servers, srv, acc')
        BY <1>1, <2>1, <3>1, <3>2, FitsPut, ZenonT(60)
      <3> QED  BY <2>1, <3>3, SizesKeep, Zenon
    <2> QED  BY <2>2, <2>3, Zenon
  <1>7. ASSUME diffTools PROVE SizeInv'
    <2>1. pc = "diff" /\ pc' = "unregister" /\ acc' = acc
      BY <1>7, Zenon DEF diffTools
    <2>2. CASE UNCHANGED servers  BY <1>1, <2>1, <2>2, SizesKeep, Zenon
    <2>3. CASE servers' = [servers EXCEPT ![srv] = acc]
      <3>1. FiniteMaps(servers') /\ Fits(servers')
        BY <1>1, <2>1, <2>3, FitsReplaced, Zenon
      <3> QED  BY <1>1, <2>1, <3>1, Zenon
               DEF SizeInv, FiniteMaps, Fits, FiniteMap, Counts, Weights, Bytes
    <2> QED  BY <1>7, <2>2, <2>3, Zenon DEF diffTools, catalog
  <1>8. ASSUME NEW s \in Servers, RemoveServer(s) PROVE SizeInv'
    <2>1. /\ servers' = [servers EXCEPT ![s] = NoMap] /\ acc' = acc /\ pc' = "unregister"
      BY <1>8, Zenon DEF RemoveServer
    <2>2. FiniteMaps(servers') /\ Fits(servers')
      BY <1>1, <1>2, <2>1, FitsReplaced, Zenon
    <2> QED  BY <1>1, <2>1, <2>2, Zenon
             DEF SizeInv, FiniteMaps, Fits, FiniteMap, Counts, Weights, Bytes
  <1> QED  BY <1>3, <1>4, <1>5, <1>6, <1>7, <1>8, ZenonT(60) DEF Next, publication

LEMMA InitSizeInv == Init => SizeInv
  <1> SUFFICES ASSUME Init PROVE SizeInv  BY Zenon
  <1>1. /\ pc = "idle" /\ acc = NoMap /\ \A s \in Servers : servers[s] = NoMap
    BY Zenon DEF Init
  <1>2. DOMAIN NoMap = {} /\ FiniteMap(NoMap) /\ Cardinality(DOMAIN NoMap) = 0
    BY FS_EmptySet, Zenon DEF NoMap, FiniteMap
  <1>3. FiniteMaps(servers)  BY <1>1, <1>2, Zenon DEF FiniteMaps
  <1>4. \A s \in Servers : Counts(servers)[s] = 0 /\ Weights(servers)[s] = 0
    BY <1>1, <1>2, BytesNone, Zenon DEF Counts, Weights
  <1>5. ASSUME NEW f, \A s \in Servers : f[s] = 0 PROVE SumFunctionOnSet(f, Servers) = 0
    BY <1>5, SumOfZeros, CapacityAssumption, Zenon
  <1>6. /\ SumFunctionOnSet(Counts(servers), Servers) = 0
        /\ SumFunctionOnSet(Weights(servers), Servers) = 0
    BY <1>4, <1>5, ZenonT(60)
  <1>7. Fits(servers)  BY <1>1, <1>2, <1>6, CapacityAssumption, SMTT(30) DEF Fits
  <1> QED  BY <1>1, <1>2, <1>3, <1>7, Zenon DEF SizeInv

(* The three limits hold for the catalog as a whole after any sequence of  *)
(* publications, although each looks at one server (catalog.go:            *)
(* UpdateServerTools).                                                     *)
THEOREM CapacityIsKept == Spec => []CapacityKept
  <1>1. IInv /\ SizeInv /\ [Next]_vars => SizeInv'  BY StepSizeInv, Zenon
  <1>2. SizeInv => CapacityKept
    BY CountsAreSums, Zenon DEF SizeInv, Fits, CapacityKept, Names
  <1> QED  BY <1>1, <1>2, InitSizeInv, Inductive, PTL DEF Spec
-----------------------------------------------------------------------------
(* Refinement of the catalog's promise: PublishServer is Ask, the          *)
(* difference is Answer, RemoveServer is Remove, the rest is a stutter.    *)

(* What is accepted has a valid definition.                                *)
ValidInv ==
    /\ acc = [n \in DOMAIN acc |-> acc[n]]
    /\ \A n \in DOMAIN acc : acc[n].def \in ValidDefs

LEMMA InitValid == Init => ValidInv
  BY Zenon DEF Init, NoMap, ValidInv

LEMMA StepValid == IInv /\ ValidInv /\ [Next]_vars => ValidInv'
  <1> SUFFICES ASSUME IInv, ValidInv, [Next]_vars PROVE ValidInv'
    BY Zenon
  <1>1. CASE acc' = acc  BY <1>1, Zenon DEF ValidInv
  <1>2. CASE unlock
    BY <1>2, Zenon DEF unlock, NoMap, ValidInv
  <1>3. CASE acceptTool /\ acc' # acc
    <2>1. refusal = "none" /\ acc' = Put(acc, candidate, tools[idx])
      BY <1>3, Zenon DEF acceptTool
    <2>2. tools[idx].def \in ValidDefs  BY <2>1, Zenon DEF refusal
    <2> QED  BY <2>1, <2>2, Zenon DEF ValidInv, Put
  <1>4. \/ acc' = acc \/ unlock \/ acceptTool
    BY Zenon DEF Next, publication, vars, locals, filterDisabled, allocateDirect,
           allocateAlias, diffTools, removeTools, addTool, PublishServer, RemoveServer
  <1> QED  BY <1>1, <1>2, <1>3, <1>4, Zenon

LEMMA ValidInductive == Spec => []ValidInv
  BY InitValid, StepValid, Inductive, PTL DEF Spec

LEMMA AsksStay ==
  ASSUME UNCHANGED <<srv, raw, disabled>>, pc \in Busy, pc' \in Busy
  PROVE  asksOf' = asksOf
  <1>1. Offers' = Offers  BY Zenon DEF Offers, PublicName, IsDirect
  <1> QED  BY <1>1, Zenon DEF asksOf, Busy, Naming

LEMMA NobodyAsks ==
  /\ pc \notin Busy => asksOf = {}
  /\ pc' \notin Busy => asksOf' = {}
  BY Zenon DEF asksOf, Busy, Naming

LEMMA OffersFitPrimed ==
  ASSUME srv' \in Servers, raw' \in Seq(Tool)
  PROVE  Offers' \subseteq [public : AllNames, tool : Tool]
  <1> SUFFICES ASSUME NEW j \in DOMAIN raw'
               PROVE  [public |-> PublicName(srv', raw'[j].name), tool |-> raw'[j]]
                          \in [public : AllNames, tool : Tool]
    BY Zenon DEF Offers, PublicName, IsDirect
  <1>1. raw'[j] \in Tool  OBVIOUS
  <1>2. raw'[j].name \in Originals  BY <1>1, Zenon DEF Tool
  <1>3. \A s \in Servers, o \in Originals : PublicName(s, o) \in AllNames
    BY DEF AllNames
  <1>4. PublicName(srv', raw'[j].name) \in AllNames  BY <1>2, <1>3, Zenon
  <1> QED  BY <1>1, <1>4, Zenon

(* What has been accepted is offered, under the name it is accepted for.   *)
LEMMA AcceptedIsOffered ==
  ASSUME IInv, ListInv, ValidInv, pc = "diff", NEW n \in DOMAIN acc
  PROVE  [public |-> n, tool |-> acc[n]] \in Offers
  <1>1. pc \in Busy /\ pc \in Naming  BY Zenon DEF Busy, Naming
  <1>2. PICK m \in DOMAIN tools : acc[n] = tools[m] /\ err[m] = "none" /\ Name(m) = n
    BY <1>1, Zenon DEF ListInv, AcceptedInv
  <1>3. PICK j \in DOMAIN raw : tools[m] = raw[j] /\ raw[j].name \notin disabled
    BY <1>1, Zenon DEF ListInv, FilterInv
  <1>4. tools[m].name # EmptyName
    <2>1. err[m] = Decision(m)
      BY <1>1, Zenon DEF IInv, NamingInv, Seen
    <2> QED  BY <1>2, <2>1, Zenon DEF Decision
  <1>5. raw[j].def \in ValidDefs  BY <1>2, <1>3, Zenon DEF ValidInv
  <1>6. n = PublicName(srv, raw[j].name) /\ acc[n] = raw[j]
    BY <1>2, <1>3, Zenon DEF Name
  <1> QED  BY <1>3, <1>4, <1>5, <1>6, Zenon DEF Offers

LEMMA CatalogAnswers ==
  ASSUME IInv, ListInv, ValidInv, diffTools
  PROVE  Store!CatalogNext
  <1> DEFINE a == [server |-> srv, offers |-> Offers]
  <1>1. pc = "diff" /\ pc' = "unregister"  BY Zenon DEF diffTools
  <1>2. asksOf = {a} /\ asksOf' = {}
    BY <1>1, Zenon DEF asksOf
  <1>3. a.server = srv /\ a.offers = Offers  BY Zenon
  <1> HIDE DEF a
  <1>4. \A n \in DOMAIN acc : [public |-> n, tool |-> acc[n]] \in Offers
    BY <1>1, AcceptedIsOffered, Zenon
  <1>5. acc \in Store!Selections(a.offers)
    <2>1. \A n \in DOMAIN acc : /\ n \in {o.public : o \in Offers}
                                /\ acc[n] \in {o.tool : o \in Offers}
      <3> SUFFICES ASSUME NEW n \in DOMAIN acc
                   PROVE  /\ n \in {o.public : o \in Offers}
                          /\ acc[n] \in {o.tool : o \in Offers}
        BY Zenon
      <3> DEFINE o == [public |-> n, tool |-> acc[n]]
      <3>1. o \in Offers /\ o.public = n /\ o.tool = acc[n]  BY <1>4, Zenon
      <3> QED  BY <3>1, Zenon
    <2>2. acc \in [DOMAIN acc -> {o.tool : o \in Offers}]
      BY <2>1, Zenon DEF ValidInv
    <2>3. DOMAIN acc \in SUBSET {o.public : o \in Offers}  BY <2>1, Zenon
    <2> QED  BY <1>3, <2>2, <2>3, Zenon DEF Store!Selections
  <1>6. Store!Acceptable(a, acc)
    <2>1. \A t \in Servers \ {srv} : DOMAIN acc \cap DOMAIN servers[t] = {}
      BY <1>1, Zenon DEF IInv, AcceptInv, Others, Names
    <2> QED  BY <1>3, <1>4, <2>1, Zenon DEF Store!Acceptable
  <1>7. \/ servers' = [servers EXCEPT ![a.server] = acc]
        \/ Store!SameDefinitions(acc, servers[a.server]) /\ UNCHANGED servers
    <2>1. CASE hasChanges  BY <1>3, <2>1, Zenon DEF diffTools
    <2>2. CASE ~hasChanges
      <3>1. UNCHANGED servers  BY <2>2, Zenon DEF diffTools, catalog
      <3>2. added = {} /\ dropped = {}  BY <2>2, Zenon DEF hasChanges
      <3>3. DOMAIN acc = DOMAIN servers[srv]  BY <3>2, Zenon DEF added, dropped, Names
      <3>4. \A n \in DOMAIN acc : acc[n].def = servers[srv][n].def
        BY <3>2, Zenon DEF added
      <3> QED  BY <1>3, <3>1, <3>3, <3>4, Zenon DEF Store!SameDefinitions
    <2> QED  BY <2>1, <2>2, Zenon
  <1>8. Store!Answer(a)  BY <1>2, <1>5, <1>6, <1>7, Zenon DEF Store!Answer
  <1> QED  BY <1>2, <1>8, Zenon DEF Store!CatalogNext

LEMMA StepCatalog ==
  IInv /\ ListInv /\ ValidInv /\ [Next]_vars => [Store!CatalogNext]_(Store!catalogVars)
  <1> SUFFICES ASSUME IInv, ListInv, ValidInv, [Next]_vars
               PROVE  [Store!CatalogNext]_(Store!catalogVars)
    BY Zenon
  <1>1. CASE diffTools  BY <1>1, CatalogAnswers, Zenon
  <1>2. ASSUME NEW s \in Servers, NEW list \in Lists, NEW dis \in DisabledSets,
               PublishServer(s, list, dis)
        PROVE  Store!CatalogNext
    <2> DEFINE a == [server |-> srv', offers |-> Offers']
    <2>1. /\ pc = "idle" /\ pc' = "filter" /\ srv' = s /\ raw' = list
          /\ UNCHANGED servers
      BY <1>2, Zenon DEF PublishServer, catalog
    <2>2. asksOf = {} /\ asksOf' = {a}  BY <2>1, Zenon DEF asksOf
    <2>3. Offers' \subseteq [public : AllNames, tool : Tool]
      BY <2>1, ListsAssumption, OffersFitPrimed, Zenon
    <2>4. a \in [server : Servers, offers : SUBSET [public : AllNames, tool : Tool]]
      BY <2>1, <2>3, Zenon
    <2> HIDE DEF a
    <2>5. Store!Ask  BY <2>1, <2>2, <2>4, Zenon DEF Store!Ask
    <2> QED  BY <2>5, Zenon DEF Store!CatalogNext
  <1>3. ASSUME NEW s \in Servers, RemoveServer(s)
        PROVE  Store!CatalogNext
    <2>1. /\ pc = "idle" /\ pc' = "unregister"
          /\ servers' = [servers EXCEPT ![s] = NoMap]
      BY <1>3, Zenon DEF RemoveServer
    <2>2. asksOf = {} /\ asksOf' = {}  BY <2>1, Zenon DEF asksOf
    <2>3. Store!NoTools = NoMap  BY Zenon DEF Store!NoTools, NoMap
    <2>4. Store!Remove(s)  BY <2>1, <2>2, <2>3, Zenon DEF Store!Remove
    <2> QED  BY <2>4, Zenon DEF Store!CatalogNext
  <1>4. ASSUME filterDisabled \/ allocateDirect \/ allocateAlias \/ acceptTool
        PROVE  UNCHANGED Store!catalogVars
    <2>1. UNCHANGED <<servers, srv, raw, disabled>> /\ pc \in Busy /\ pc' \in Busy
      BY <1>4, Zenon DEF filterDisabled, allocateDirect, allocateAlias, acceptTool, Loop,
             catalog, Busy, Naming
    <2> QED  BY <2>1, AsksStay, Zenon DEF Store!catalogVars
  <1>5. ASSUME removeTools \/ unlock \/ \E n \in toAdd : addTool(n)
        PROVE  UNCHANGED Store!catalogVars
    <2>1. UNCHANGED servers /\ pc \notin Busy /\ pc' \notin Busy
      BY <1>5, Zenon DEF removeTools, unlock, addTool, catalog, Busy, Naming
    <2> QED  BY <2>1, NobodyAsks, Zenon DEF Store!catalogVars
  <1>6. ASSUME UNCHANGED vars PROVE UNCHANGED Store!catalogVars
    <2>1. UNCHANGED <<servers, srv, raw, disabled, pc>>
      BY <1>6, Zenon DEF vars, catalog, locals
    <2>2. CASE pc \in Busy  BY <2>1, <2>2, AsksStay, Zenon DEF Store!catalogVars
    <2>3. CASE pc \notin Busy  BY <2>1, <2>3, NobodyAsks, Zenon DEF Store!catalogVars
    <2> QED  BY <2>2, <2>3, Zenon
  <1> QED  BY <1>1, <1>2, <1>3, <1>4, <1>5, <1>6, ZenonT(60) DEF Next, publication

(* The publisher implements the catalog, for any servers, lists, disabled  *)
(* sets and limits: an answer changes one entry, stores nothing that was   *)
(* not offered or is disabled or invalid, and takes no name of another     *)
(* server (catalog.go: UpdateServerTools, RemoveServer; publisher.go:      *)
(* PublishServer).                                                         *)
THEOREM PublisherRefines == Spec => ImplementsCatalog
  <1>1. Init => Store!CatalogInit
    BY Zenon DEF Init, Store!CatalogInit, Store!NoTools, NoMap, asksOf
  <1> QED  BY <1>1, StepCatalog, Inductive, ListInductive, ValidInductive, PTL
           DEF Spec, ImplementsCatalog, Store!CatalogSpec
=============================================================================
