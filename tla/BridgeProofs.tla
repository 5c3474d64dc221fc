---------------------------- MODULE BridgeProofs ----------------------------
(***************************************************************************)
(* Proofs about Bridge, for any number of lists, of local requests and of  *)
(* listings that fail.                                                     *)
(***************************************************************************)
EXTENDS Bridge, FiniteSetTheorems, TLAPS

Labels == {"idle", "sync", "list", "fetch", "check", "refetch", "remove", "add",
           "store", "clear", "read", "wait", "burst", "returned", "serve", "cancel",
           "leave", "left"}

IsProc(r) ==
  r = [pc |-> r.pc, got |-> r.got, cursor |-> r.cursor] /\ r.pc \in Labels

Types ==
  /\ version \in 1..Len(HubLists)
  /\ proc = [p \in Procs |-> proc[p]] /\ \A p \in Procs : IsProc(proc[p])
  /\ hub \in {"up", "gone"} /\ client \in BOOLEAN /\ parent \in BOOLEAN
  /\ runCtx \in BOOLEAN /\ closed \in BOOLEAN /\ failure \in BOOLEAN
  /\ failures \in Nat

(* Where a list is made and copied into the registry. *)
Updating == {"list", "fetch", "check", "refetch", "remove", "add", "store", "clear"}

(* Why the context has ended, and why the bridge is about to. *)
Ending ==
  /\ failure => hub = "gone"
  /\ proc["main"].pc \in Updating \cup {"serve"} => ~closed
  /\ ~runCtx => failure \/ closed \/ exit # "none"
  /\ closed => ~client \/ parent \/ failure
  /\ proc["main"].pc = "cancel" => closed
  /\ proc["main"].pc = "leave" /\ ~closed => hub = "gone" \/ parent \/ failures > 0
  /\ ExitIsExplained

(* syncMu excludes the watcher and the requests from each other; the start
   comes before both; toolsMu is held from RemoveTools to AddTool. *)
Exclusion ==
  /\ \A p \in Procs \ {"main"} : proc[p].pc \in Updating => syncMu = p
  /\ proc["main"].pc \in Updating =>
       \A p \in Procs \ {"main"} : proc[p].pc = "idle"
  /\ proc["watcher"].pc = "idle" =>
       proc["main"].pc # "serve" /\ \A l \in Requests : proc[l].pc = "idle"
  /\ \A p \in Procs : proc[p].pc = "add" <=> toolsMu = p
  /\ toolsMu \in Procs \cup {"none"}

(* A listing that had ended by the Hub's e-th list returned x. *)
Seen(x, e) == \E a, b \in 1..e : a <= b /\ Listed(x, a, b)

(* y was listed after x, and both by the n-th list. *)
Ordered(x, y, n) == \E c, d \in 1..n : c <= d /\ Seen(x, c) /\ Listed(y, c, d)

(* What a listing has that began at the c-th list and has come to its cursor at
   the d-th. *)
Partly(r, c, d) ==
  /\ r.cursor \in Nat /\ IsFiniteSet(DOMAIN r.got)
  /\ r.cursor # 0 => PageSize <= Cardinality(DOMAIN r.got)
  /\ \E f \in [Names -> c..d] :
       /\ \A m, n \in Names : m <= n => f[m] <= f[n]
       /\ DOMAIN r.got = {m \in Names : m <= r.cursor /\ m \in DOMAIN HubLists[f[m]]}
       /\ \A m \in DOMAIN r.got : r.got[m] = HubLists[f[m]][m]

(* The listing of r began after x had been listed. *)
Under(r, x, n) == \E c, d \in 1..n : c <= d /\ Seen(x, c) /\ Partly(r, c, d)

(* The registry has been filled, and nobody is at it. *)
Filled ==
  /\ proc["main"].pc = "store" \/ proc["watcher"].pc # "idle"
  /\ toolsMu = "none"

(* A list is made after what was shown and what the registry holds. *)
Follows(r) ==
  /\ r.pc \in {"fetch", "refetch"} =>
       Under(r, shown, version) /\ (Filled => Under(r, registry, version))
  /\ r.pc \in {"check", "remove"} =>
       Ordered(shown, r.got, version) /\ (Filled => Ordered(registry, r.got, version))
  /\ r.pc = "add" => Ordered(shown, r.got, version)

(* What was shown is no newer than the registry, and the registry no newer than
   the list about to replace it. *)
Order ==
  /\ Seen(shown, version)
  /\ Filled => /\ Seen(registry, version)
               /\ registry = shown \/ Ordered(shown, registry, version)
  /\ \A p \in Procs : Follows(proc[p])

IInv == Types /\ Ending /\ Exclusion /\ Order
-----------------------------------------------------------------------------
LEMMA Lists == Len(HubLists) \in Nat /\ Len(HubLists) > 0
<1>1. Len(HubLists) \in Nat \ {0}
  BY BridgeAssumption, Zenon
<1> QED BY <1>1

LEMMA VersionIsNat == Types => version \in Nat /\ version \in 1..version
  BY Lists DEF Types

(* Facts about the order of lists. *)
LEMMA SeenLater ==
  ASSUME NEW x, NEW n \in Nat, NEW m \in Nat, n <= m, Seen(x, n)
  PROVE  Seen(x, m)
<1>1. PICK a \in 1..n, b \in 1..n : a <= b /\ Listed(x, a, b)
  BY Zenon DEF Seen
<1>2. a \in 1..m /\ b \in 1..m
  OBVIOUS
<1> QED BY <1>1, <1>2, Zenon DEF Seen

LEMMA OrderedLater ==
  ASSUME NEW x, NEW y, NEW n \in Nat, NEW m \in Nat, n <= m, Ordered(x, y, n)
  PROVE  Ordered(x, y, m)
<1>1. PICK c \in 1..n, d \in 1..n : c <= d /\ Seen(x, c) /\ Listed(y, c, d)
  BY Zenon DEF Ordered
<1>2. c \in 1..m /\ d \in 1..m
  OBVIOUS
<1> QED BY <1>1, <1>2, Zenon DEF Ordered

LEMMA UnderLater ==
  ASSUME NEW r, NEW x, NEW n \in Nat, NEW m \in Nat, n <= m, Under(r, x, n)
  PROVE  Under(r, x, m)
<1>1. PICK c \in 1..n, d \in 1..n : c <= d /\ Seen(x, c) /\ Partly(r, c, d)
  BY Zenon DEF Under
<1>2. c \in 1..m /\ d \in 1..m
  OBVIOUS
<1> QED BY <1>1, <1>2, Zenon DEF Under

LEMMA OrderedSeen ==
  ASSUME NEW x, NEW y, NEW n, Ordered(x, y, n)
  PROVE  Seen(y, n)
  BY Zenon DEF Ordered, Seen

(* The windows of two ordered lists. *)
LEMMA OrderedIsForward ==
  ASSUME NEW x, NEW y, NEW n \in Nat, Ordered(x, y, n)
  PROVE  \E a, b, c, d \in 1..n :
           a <= b /\ b <= c /\ c <= d /\ Listed(x, a, b) /\ Listed(y, c, d)
<1>1. PICK c \in 1..n, d \in 1..n : c <= d /\ Seen(x, c) /\ Listed(y, c, d)
  BY Zenon DEF Ordered
<1>2. PICK a \in 1..c, b \in 1..c : a <= b /\ Listed(x, a, b)
  BY <1>1, Zenon DEF Seen
<1>3. a \in 1..n /\ b \in 1..n /\ b <= c
  OBVIOUS
<1> QED BY <1>1, <1>2, <1>3, Zenon

LEMMA ListedIsFunction ==
  ASSUME NEW x, NEW y, NEW n, Ordered(x, y, n)
  PROVE  y = [m \in DOMAIN y |-> y[m]]
<1>1. PICK c, d : Listed(y, c, d)
  BY Zenon DEF Ordered
<1>2. PICK f : y = Mixed(f)
  BY <1>1, Zenon DEF Listed
<1> QED BY <1>2, Zenon DEF Mixed

-----------------------------------------------------------------------------
(* Facts about listings. *)
LEMMA NamesArePositive ==
  /\ \A n \in Names : n \in Nat /\ n > 0
  /\ \A i \in 1..Len(HubLists) : IsFiniteSet(DOMAIN HubLists[i]) /\ DOMAIN HubLists[i] \subseteq Names
<1>1. \A i \in 1..Len(HubLists) : IsFiniteSet(DOMAIN HubLists[i])
                                    /\ DOMAIN HubLists[i] \subseteq Nat \ {0}
  BY BridgeAssumption, Zenon
<1>2. ASSUME NEW n \in Names PROVE n \in Nat /\ n > 0
  <2>1. PICK i \in 1..Len(HubLists) : n \in DOMAIN HubLists[i]
    BY Zenon DEF Names
  <2>2. n \in Nat \ {0}
    BY <1>1, <2>1, Zenon
  <2> QED BY <2>2
<1>3. \A i \in 1..Len(HubLists) : DOMAIN HubLists[i] \subseteq Names
  BY Zenon DEF Names
<1> QED BY <1>1, <1>2, <1>3, Zenon

(* A whole list of the Hub is one that a listing may return. *)
LEMMA WholeIsListed ==
  ASSUME NEW i \in 1..Len(HubLists)
  PROVE  Listed(HubLists[i], i, i)
<1> DEFINE f == [n \in Names |-> i]
<1>1. i \in Nat /\ i \in i..i /\ i <= i
  BY Lists
<1>2. f \in [Names -> i..i] /\ \A m, n \in Names : f[m] <= f[n]
  BY <1>1, Zenon
<1>3. HubLists[i] = [n \in DOMAIN HubLists[i] |-> HubLists[i][n]]
  BY BridgeAssumption, Zenon
<1>4. DOMAIN HubLists[i] = {m \in Names : m \in DOMAIN HubLists[f[m]]}
  BY NamesArePositive, Zenon
<1>5. \A n \in DOMAIN HubLists[i] : HubLists[f[n]][n] = HubLists[i][n]
  BY <1>4, Zenon
<1> HIDE DEF f
<1>6. HubLists[i] = Mixed(f)
  BY <1>3, <1>4, <1>5 DEF Mixed
<1> QED BY <1>2, <1>6, Zenon DEF Listed

(* A listing that begins. *)
LEMMA FreshFollows ==
  ASSUME NEW l, NEW x, NEW n \in Nat, n \in 1..n, Seen(x, n)
  PROVE  Under(Fresh(l), x, n)
<1> DEFINE f == [m \in Names |-> n]
<1>1. Fresh(l).cursor = 0 /\ Fresh(l).got = <<>>
  BY Zenon DEF Fresh
<1>2. DOMAIN Fresh(l).got = {}
  BY <1>1
<1>3. n \in n..n /\ n <= n /\ 0 \in Nat
  OBVIOUS
<1>4. f \in [Names -> n..n] /\ \A m, k \in Names : f[m] <= f[k]
  BY <1>3, Zenon
<1> HIDE DEF f
<1>5. {m \in Names : m <= 0 /\ m \in DOMAIN HubLists[f[m]]} = {}
  BY NamesArePositive
<1>6. Partly(Fresh(l), n, n)
  BY <1>1, <1>2, <1>3, <1>4, <1>5, FS_EmptySet, Zenon DEF Partly
<1> QED BY <1>3, <1>6, Zenon DEF Under

(* A page: the listing goes on, or it has a list made of whole pages. *)
LEMMA PageFollows ==
  ASSUME Types, NEW r, NEW c \in 1..version, NEW d \in 1..version, c <= d, Partly(r, c, d),
         NEW n \in DOMAIN Current \cup {0}, n = 0 \/ n > r.cursor, IsNextCursor(r.cursor, n),
         NEW s, s.got = With(r.got, HubPage(r.cursor, n)), s.cursor = n
  PROVE  /\ n # 0 => Partly(s, c, version)
         /\ n = 0 => \E e \in c..version : Listed(s.got, e, version)
<1> DEFINE page == HubPage(r.cursor, n)
<1>1. PICK f \in [Names -> c..d] :
        /\ \A m, k \in Names : m <= k => f[m] <= f[k]
        /\ DOMAIN r.got = {m \in Names : m <= r.cursor /\ m \in DOMAIN HubLists[f[m]]}
        /\ \A m \in DOMAIN r.got : r.got[m] = HubLists[f[m]][m]
  BY Zenon DEF Partly
<1>2. /\ r.cursor \in Nat /\ IsFiniteSet(DOMAIN r.got)
      /\ r.cursor # 0 => PageSize <= Cardinality(DOMAIN r.got)
  BY Zenon DEF Partly
<1> DEFINE g == [m \in Names |-> IF m <= r.cursor THEN f[m] ELSE version]
<1>3. version \in Nat /\ version \in 1..Len(HubLists) /\ Current = HubLists[version]
  BY VersionIsNat, Zenon DEF Types, Current
<1>4. \A m \in Names : m \in Nat /\ m > 0 /\ f[m] \in c..d
  BY <1>1, NamesArePositive, Zenon
<1>5. g \in [Names -> c..version]
  <2>1. \A m \in Names : f[m] \in c..version /\ version \in c..version
    BY <1>3, <1>4
  <2> QED BY <2>1, Zenon
<1>6. \A m, k \in Names : m <= k => g[m] <= g[k]
  <2> SUFFICES ASSUME NEW m \in Names, NEW k \in Names, m <= k PROVE g[m] <= g[k]
    BY Zenon
  <2>1. g[m] = (IF m <= r.cursor THEN f[m] ELSE version)
        /\ g[k] = (IF k <= r.cursor THEN f[k] ELSE version)
    BY Zenon
  <2> HIDE DEF g
  <2> QED BY <1>1, <1>2, <1>3, <1>4, <2>1
<1>7. DOMAIN Current \subseteq Names /\ IsFiniteSet(DOMAIN Current)
  BY <1>3, NamesArePositive, Zenon
<1>8. page \subseteq DOMAIN Current /\ n \in Nat
  <2>1. 0 \in Nat
    OBVIOUS
  <2> QED BY <1>4, <1>7, <2>1, Zenon DEF HubPage
<1>9. \A m \in Names : /\ m <= r.cursor => g[m] = f[m] /\ m \notin page
                       /\ ~(m <= r.cursor) =>
                            /\ g[m] = version
                            /\ m \in page <=> m \in DOMAIN Current /\ (m <= n \/ n = 0)
  <2> SUFFICES ASSUME NEW m \in Names
               PROVE  /\ m <= r.cursor => g[m] = f[m] /\ m \notin page
                      /\ ~(m <= r.cursor) =>
                           /\ g[m] = version
                           /\ m \in page <=> m \in DOMAIN Current /\ (m <= n \/ n = 0)
    BY Zenon
  <2>1. g[m] = (IF m <= r.cursor THEN f[m] ELSE version)
    BY Zenon
  <2>2. m \in page <=> m \in DOMAIN Current /\ r.cursor < m /\ (m <= n \/ n = 0)
    BY Zenon DEF HubPage
  <2> HIDE DEF g, page
  <2> QED BY <1>2, <1>4, <2>1, <2>2
<1> HIDE DEF g, page
<1>10. s.got = [m \in DOMAIN r.got \cup page |-> IF m \in page THEN HubLists[version][m] ELSE r.got[m]]
  BY <1>3, Zenon DEF With, page
<1>11. DOMAIN s.got = DOMAIN r.got \cup page
  BY <1>10, Zenon
<1>12. IsFiniteSet(page) /\ IsFiniteSet(DOMAIN s.got)
  <2>1. IsFiniteSet(page)
    BY <1>7, <1>8, FS_Subset
  <2>2. IsFiniteSet(DOMAIN r.got \cup page)
    BY <1>2, <2>1, FS_Union, Zenon
  <2> QED BY <1>11, <2>1, <2>2, Zenon
<1>13. \A m \in DOMAIN s.got : s.got[m] = HubLists[g[m]][m]
  <2> SUFFICES ASSUME NEW m \in DOMAIN s.got PROVE s.got[m] = HubLists[g[m]][m]
    BY Zenon
  <2>1. m \in Names
    BY <1>1, <1>7, <1>8, <1>11, Zenon
  <2>2. CASE m \in page
    <3>1. g[m] = version
      BY <1>9, <2>1, <2>2, Zenon
    <3> QED BY <1>10, <1>11, <2>2, <3>1, Zenon
  <2>3. CASE m \notin page
    <3>1. m \in DOMAIN r.got /\ m <= r.cursor
      BY <1>1, <1>11, <2>3, Zenon
    <3>2. g[m] = f[m] /\ r.got[m] = HubLists[f[m]][m]
      BY <1>1, <1>9, <2>1, <3>1, Zenon
    <3> QED BY <1>10, <1>11, <2>3, <3>2, Zenon
  <2> QED BY <2>2, <2>3, Zenon
<1>14. CASE n # 0
  <2>1. n > r.cursor /\ \A m \in Names : m <= r.cursor => m <= n
    BY <1>2, <1>4, <1>8, <1>14
  <2>2. \A m \in Names : m \in DOMAIN s.got <=> m <= n /\ m \in DOMAIN HubLists[g[m]]
    BY <1>1, <1>3, <1>9, <1>11, <1>14, <2>1, Zenon
  <2>3. DOMAIN s.got \subseteq Names
    BY <1>1, <1>7, <1>8, <1>11, Zenon
  <2>4. DOMAIN s.got = {m \in Names : m <= n /\ m \in DOMAIN HubLists[g[m]]}
    BY <2>2, <2>3, Zenon
  <2>5. Cardinality(page) = PageSize
    BY <1>14, Zenon DEF IsNextCursor, page
  <2>6. page \in SUBSET DOMAIN s.got
    BY <1>11, Zenon
  <2>7. PageSize <= Cardinality(DOMAIN s.got)
    BY <1>12, <2>5, <2>6, FS_Subset
  <2> QED BY <1>5, <1>6, <1>8, <1>12, <1>13, <1>14, <2>4, <2>7, Zenon DEF Partly
<1>15. CASE n = 0
  <2>1. \A m \in Names : m \in DOMAIN s.got <=> m \in DOMAIN HubLists[g[m]]
    BY <1>1, <1>3, <1>9, <1>11, <1>15, Zenon
  <2>2. DOMAIN s.got \subseteq Names
    BY <1>1, <1>7, <1>8, <1>11, Zenon
  <2>3. DOMAIN s.got = {m \in Names : m \in DOMAIN HubLists[g[m]]}
    BY <2>1, <2>2, Zenon
  <2>4. s.got = [m \in DOMAIN s.got |-> s.got[m]]
    BY <1>10, <1>11, Zenon
  <2>5. s.got = Mixed(g)
    BY <1>13, <2>3, <2>4 DEF Mixed
  <2>6. CASE r.cursor = 0
    <3>1. \A m \in Names : g[m] = version /\ version \in version..version
      BY <1>2, <1>3, <1>4, <1>9, <2>6
    <3>2. g = [m \in Names |-> g[m]]
      BY <1>5, Zenon
    <3>3. g \in [Names -> version..version]
      BY <3>1, <3>2, Zenon
    <3>4. version \in c..version
      BY <1>3
    <3> QED BY <1>6, <1>15, <2>5, <3>3, <3>4, Zenon DEF Listed
  <2>7. CASE r.cursor # 0
    <3>1. Cardinality(DOMAIN r.got) <= Cardinality(DOMAIN s.got)
      BY <1>11, <1>12, FS_Subset
    <3>2. Cardinality(DOMAIN r.got) \in Nat /\ Cardinality(DOMAIN s.got) \in Nat /\ PageSize \in Nat
      BY <1>2, <1>12, FS_CardinalityType, BridgeAssumption
    <3>3. ~(Cardinality(DOMAIN s.got) < PageSize)
      BY <1>2, <2>7, <3>1, <3>2
    <3>4. c \in c..version
      BY <1>3
    <3> QED BY <1>5, <1>6, <1>15, <2>5, <3>3, <3>4, Zenon DEF Listed
  <2> QED BY <2>6, <2>7, Zenon
<1> QED BY <1>14, <1>15, Zenon

LEMMA PageUnder ==
  ASSUME Types, NEW r, NEW x, Under(r, x, version),
         NEW n \in DOMAIN Current \cup {0}, n = 0 \/ n > r.cursor, IsNextCursor(r.cursor, n),
         NEW s, s.got = With(r.got, HubPage(r.cursor, n)), s.cursor = n
  PROVE  /\ n # 0 => Under(s, x, version)
         /\ n = 0 => Ordered(x, s.got, version)
<1>1. PICK c \in 1..version, d \in 1..version : c <= d /\ Seen(x, c) /\ Partly(r, c, d)
  BY Zenon DEF Under
<1>2. /\ n # 0 => Partly(s, c, version)
      /\ n = 0 => \E e \in c..version : Listed(s.got, e, version)
  BY <1>1, PageFollows, Zenon
<1>3. version \in Nat /\ version \in 1..version /\ c <= version
  BY VersionIsNat
<1>4. ASSUME NEW e \in c..version, Listed(s.got, e, version)
      PROVE  Ordered(x, s.got, version)
  <2>1. e \in 1..version /\ e \in Nat /\ c \in Nat /\ c <= e /\ e <= version
    BY <1>3
  <2>2. Seen(x, e)
    BY <1>1, <2>1, SeenLater, Zenon
  <2> QED BY <1>3, <1>4, <2>1, <2>2, Zenon DEF Ordered
<1>5. n # 0 => Under(s, x, version)
  BY <1>1, <1>2, <1>3, Zenon DEF Under
<1> QED BY <1>2, <1>4, <1>5, Zenon

-----------------------------------------------------------------------------
LEMMA InitIInv == Init => IInv
<1> SUFFICES ASSUME Init PROVE IInv
  BY Zenon
<1>1. Types
  <2>1. version \in 1..Len(HubLists)
    BY Lists DEF Init
  <2>2. \A p \in Procs : IsProc(Fresh(IF p = "main" THEN "list" ELSE "idle"))
    BY Zenon DEF Labels, Fresh, IsProc
  <2>3. proc = [p \in Procs |-> proc[p]] /\ \A p \in Procs : IsProc(proc[p])
    BY <2>2, Zenon DEF Init
  <2> QED BY <2>1, <2>3, Zenon DEF Init, Types
<1>2. proc["main"].pc = "list" /\ \A p \in Procs \ {"main"} : proc[p].pc = "idle"
  BY Zenon DEF Init, Procs, Fresh
<1>3. "watcher" \in Procs \ {"main"} /\ Requests \subseteq Procs \ {"main"} /\ "none" \notin Procs
  BY BridgeAssumption, Zenon DEF Procs
<1>4. Ending
  BY <1>2, Zenon DEF Init, Ending, ExitIsExplained
<1>5. Exclusion
  BY <1>2, <1>3, Zenon DEF Init, Exclusion, Updating
<1>6. Seen(shown, version)
  <2>1. version = 1 /\ shown = HubLists[1] /\ 1 \in 1..1 /\ 1 <= 1 /\ 1 \in 1..Len(HubLists)
    BY Lists DEF Init
  <2>2. Listed(HubLists[1], 1, 1)
    BY <2>1, WholeIsListed, Zenon
  <2> QED BY <2>1, <2>2, Zenon DEF Seen
<1>7. \A p \in Procs : Follows(proc[p])
  BY <1>2, Zenon DEF Follows
<1>8. ~Filled
  BY <1>2, <1>3, Zenon DEF Filled
<1> QED BY <1>1, <1>4, <1>5, <1>6, <1>7, <1>8, Zenon DEF IInv, Order
-----------------------------------------------------------------------------
LEMMA Distinct ==
  /\ "main" \in Procs /\ "watcher" \in Procs /\ Requests \subseteq Procs
  /\ "main" \notin Requests /\ "watcher" \notin Requests /\ "none" \notin Procs
  BY BridgeAssumption, Zenon DEF Procs

(* One process moves and the others stay. *)
Moves(p, l) ==
  /\ proc' = [q \in Procs |-> proc'[q]] /\ \A q \in Procs : IsProc(proc'[q])
  /\ proc'[p].pc = l
  /\ \A q \in Procs \ {p} : proc'[q] = proc[q]

LEMMA SetMoves ==
  ASSUME Types, NEW p \in Procs, NEW r, IsProc(r), proc' = [proc EXCEPT ![p] = r]
  PROVE  Moves(p, r.pc) /\ proc'[p] = r
  BY Zenon DEF Types, Moves

LEMMA ToMoves ==
  ASSUME Types, NEW p \in Procs, NEW l \in Labels, To(p, l)
  PROVE  Moves(p, l) /\ proc'[p].got = proc[p].got
<1> DEFINE r == [proc[p] EXCEPT !.pc = l]
<1>1. proc[p] = [pc |-> proc[p].pc, got |-> proc[p].got, cursor |-> proc[p].cursor]
  BY Zenon DEF Types, IsProc
<1>2. r.pc = l /\ r.got = proc[p].got /\ r = [pc |-> r.pc, got |-> r.got, cursor |-> r.cursor]
  BY <1>1
<1>3. proc' = [proc EXCEPT ![p] = r]
  BY Zenon DEF To
<1> HIDE DEF r
<1> QED BY <1>2, <1>3, SetMoves, Zenon DEF IsProc

LEMMA FinishedMoves ==
  ASSUME Types, NEW p \in Procs, NEW l \in Labels, Finished(p, l)
  PROVE  Moves(p, l) /\ proc'[p] = Fresh(l)
<1>1. IsProc(Fresh(l)) /\ Fresh(l).pc = l
  BY Zenon DEF Fresh, IsProc
<1> QED BY <1>1, SetMoves, Zenon DEF Finished

(* What such a move must respect.  A process enters an update only when it gets
   syncMu, and leaves it when it gives it back. *)
LEMMA MoveExclusion ==
  ASSUME Types, Exclusion, NEW p \in Procs, NEW l \in Labels, Moves(p, l),
         proc[p].pc = "idle" => p \in Requests /\ proc["main"].pc = "serve",
         p = "watcher" => l # "idle",
         p = "main" => l # "serve",
         p = "main" /\ l \in Updating => proc[p].pc \in Updating,
         p # "main" /\ l \in Updating => syncMu' = p,
         \A q \in Procs \ {p} : syncMu = q => syncMu' = q,
         l = "add" => toolsMu' = p,
         l # "add" => toolsMu' = IF proc[p].pc = "add" THEN "none" ELSE toolsMu,
         proc[p].pc # "add" => toolsMu = "none" \/ l # "add"
  PROVE  Exclusion'
<1>1. \A q \in Procs \ {p} : proc'[q].pc = proc[q].pc
  BY Zenon DEF Moves
<1>2. proc'[p].pc = l
  BY Zenon DEF Moves
<1>3. \A q \in Procs \ {"main"} : proc'[q].pc \in Updating => syncMu' = q
  BY <1>1, <1>2, Zenon DEF Exclusion
<1>4. proc'["main"].pc \in Updating =>
        \A q \in Procs \ {"main"} : proc'[q].pc = "idle"
  BY <1>1, <1>2, Distinct, Zenon DEF Exclusion
<1>5. proc'["watcher"].pc = "idle" =>
        proc'["main"].pc # "serve" /\ \A r \in Requests : proc'[r].pc = "idle"
  BY <1>1, <1>2, Distinct, Zenon DEF Exclusion
<1>6. \A q \in Procs : proc'[q].pc = "add" <=> toolsMu' = q
  BY <1>1, <1>2, Distinct DEF Exclusion
<1>7. toolsMu' \in Procs \cup {"none"}
  BY Zenon DEF Exclusion
<1> QED BY <1>3, <1>4, <1>5, <1>6, <1>7, Zenon DEF Exclusion
(* A move that keeps the registry respects the order of lists if the list it
   makes follows. *)
LEMMA MoveOrder ==
  ASSUME Types, Order, NEW p \in Procs, NEW l \in Labels \ {"add", "store"}, Moves(p, l),
         UNCHANGED <<version, shown, registry, toolsMu>>,
         p = "watcher" => l # "idle" /\ proc[p].pc # "idle",
         Follows(proc'[p])
  PROVE  Order'
<1>1. \A q \in Procs \ {p} : proc'[q] = proc[q]
  BY Zenon DEF Moves
<1>2. proc'[p].pc = l
  BY Zenon DEF Moves
<1>3. Filled' => Filled
  BY <1>1, <1>2, Distinct, Zenon DEF Filled
<1>4. \A q \in Procs : Follows(proc'[q])
  BY <1>1, Zenon DEF Order
<1>5. \A q \in Procs : Follows(proc[q])'
  BY <1>3, <1>4, Zenon DEF Follows
<1> QED BY <1>3, <1>5, Zenon DEF Order

(* A move other than the end of the start leaves the reasons alone. *)
LEMMA MoveEnding ==
  ASSUME Types, Ending, NEW p \in Procs, NEW l \in Labels, Moves(p, l),
         p = "main" => proc[p].pc \in Updating /\ l \in Updating,
         UNCHANGED <<hub, client, parent, runCtx, closed, failure, exit>>,
         failures' \in Nat, failures' >= failures
  PROVE  Ending'
<1>1. p # "main" => proc'["main"] = proc["main"]
  BY Distinct, Zenon DEF Moves
<1>2. p = "main" => proc'["main"].pc \in Updating /\ proc["main"].pc \in Updating
  BY Zenon DEF Moves
<1>3. failures > 0 => failures' > 0
  BY DEF Types
<1>4. ExitIsExplained'
  BY <1>3, Zenon DEF Ending, ExitIsExplained
<1>5. proc'["main"].pc \in {"leave", "cancel"} => proc'["main"].pc = proc["main"].pc
  BY <1>1, <1>2, Zenon DEF Updating
<1> QED BY <1>1, <1>2, <1>3, <1>4, <1>5, Zenon DEF Ending

LEMMA MoveTypes ==
  ASSUME Types, NEW p \in Procs, NEW l \in Labels, Moves(p, l),
         UNCHANGED <<version, life>>, failures' \in Nat
  PROVE  Types'
  BY Zenon DEF Types, Moves, life

-----------------------------------------------------------------------------
(* The moves that do not touch the registry. *)
LEMMA MoveIInv ==
  ASSUME IInv, NEW p \in Procs, NEW l \in Labels \ {"add", "store"}, Moves(p, l),
         proc[p].pc # "add",
         proc[p].pc = "idle" => p \in Requests /\ proc["main"].pc = "serve",
         p = "watcher" => l # "idle",
         p = "main" => proc[p].pc \in Updating /\ l \in Updating,
         p # "main" /\ l \in Updating => syncMu' = p,
         \A q \in Procs \ {p} : syncMu = q => syncMu' = q,
         Follows(proc'[p]),
         UNCHANGED <<version, shown, registry, toolsMu, life>>,
         failures' \in Nat, failures' >= failures
  PROVE  IInv'
<1>1. Types /\ Ending /\ Exclusion /\ Order
  BY Zenon DEF IInv
<1>2. p # "main" \/ l # "serve"
  BY Zenon DEF Updating
<1>3. Types'
  BY <1>1, MoveTypes, Zenon
<1>4. Ending'
  BY <1>1, MoveEnding, Zenon DEF life
<1>5. Exclusion'
  BY <1>1, <1>2, MoveExclusion, Zenon
<1>6. p = "watcher" => proc[p].pc # "idle"
  BY Distinct, Zenon
<1>7. Order'
  BY <1>1, <1>6, MoveOrder, Zenon
<1> QED BY <1>3, <1>4, <1>5, <1>7, Zenon DEF IInv

-----------------------------------------------------------------------------
(* A process that makes no list. *)
LEMMA NothingFollows ==
  ASSUME NEW r, r.pc \notin {"fetch", "refetch", "check", "remove", "add"}
  PROVE  Follows(r)
  BY Zenon DEF Follows

(* An update as far as the registry. *)
LEMMA ListStep ==
  ASSUME IInv, NEW p \in Procs, ClearDirty(p) \/ IsDirty(p)
  PROVE  IInv'
<1>1. /\ proc[p].pc \in {"list", "check"}
      /\ UNCHANGED <<version, syncMu, toolsMu, registry, shown, life, failures>>
      /\ \/ Finished(p, "fetch") \/ Finished(p, "refetch")
         \/ To(p, "remove") /\ proc[p].pc = "check"
  BY Zenon DEF ClearDirty, IsDirty, At, hubside, table
<1>2. Types /\ Exclusion /\ Order
  BY Zenon DEF IInv
<1>3. failures' \in Nat /\ failures' >= failures
  BY <1>1, <1>2 DEF Types
<1>4. proc[p].pc \in Updating /\ (p # "main" => syncMu' = p)
  BY <1>1, <1>2, Zenon DEF Exclusion, Updating
<1>5. ASSUME NEW l \in {"fetch", "refetch"}, Finished(p, l)
      PROVE  IInv'
  <2>1. l \in Labels \ {"add", "store"} /\ l \in Updating /\ l # "idle"
    BY <1>5, Zenon DEF Labels, Updating
  <2>2. Moves(p, l) /\ proc'[p] = Fresh(l)
    BY <1>2, <1>5, <2>1, FinishedMoves, Zenon
  <2>3. version \in Nat /\ version \in 1..version
    BY <1>2, VersionIsNat, Zenon
  <2>4. Under(Fresh(l), shown, version) /\ (Filled => Under(Fresh(l), registry, version))
    BY <1>2, <2>3, FreshFollows, Zenon DEF Order
  <2>5. Fresh(l).pc = l
    BY Zenon DEF Fresh
  <2>6. Follows(proc'[p])
    BY <1>5, <2>2, <2>4, <2>5, Zenon DEF Follows
  <2> QED BY <1>1, <1>3, <1>4, <2>1, <2>2, <2>6, MoveIInv, Zenon
<1>6. CASE To(p, "remove") /\ proc[p].pc = "check"
  <2>1. "remove" \in Labels \ {"add", "store"} /\ "remove" \in Updating
    BY Zenon DEF Labels, Updating
  <2>2. Moves(p, "remove") /\ proc'[p].got = proc[p].got
    BY <1>2, <1>6, <2>1, ToMoves, Zenon
  <2>3. proc'[p].pc = "remove"
    BY <2>2, Zenon DEF Moves
  <2>4. Follows(proc'[p])
    BY <1>2, <1>6, <2>2, <2>3, Zenon DEF Follows, Order
  <2> QED BY <1>1, <1>3, <1>4, <2>1, <2>2, <2>4, MoveIInv, Zenon
<1> QED BY <1>1, <1>5, <1>6, Zenon

LEMMA FetchStep ==
  ASSUME IInv, NEW p \in Procs, fetchPages(p)
  PROVE  IInv'
<1>1. /\ proc[p].pc \in {"fetch", "refetch"}
      /\ UNCHANGED <<version, syncMu, toolsMu, registry, shown, life, failures>>
  BY Zenon DEF fetchPages, hubside, table
<1>2. Types /\ Exclusion /\ Order
  BY Zenon DEF IInv
<1> DEFINE l(n) == CASE n # 0 -> proc[p].pc
                     [] n = 0 /\ At(p, "fetch") -> "check"
                     [] OTHER -> "remove"
           s(n) == [pc |-> l(n), got |-> With(proc[p].got, HubPage(proc[p].cursor, n)),
                    cursor |-> n]
<1>3. PICK n \in DOMAIN Current \cup {0} :
        /\ n = 0 \/ n > proc[p].cursor
        /\ IsNextCursor(proc[p].cursor, n)
        /\ proc' = [proc EXCEPT ![p] = s(n)]
  BY Zenon DEF fetchPages
<1>4. /\ n # 0 => l(n) = proc[p].pc
      /\ n = 0 => l(n) \in {"check", "remove"}
  BY Zenon
<1>5. /\ s(n).pc = l(n) /\ s(n).got = With(proc[p].got, HubPage(proc[p].cursor, n))
      /\ s(n).cursor = n
      /\ s(n) = [pc |-> s(n).pc, got |-> s(n).got, cursor |-> s(n).cursor]
  BY Zenon
<1> HIDE DEF l, s
<1>6. /\ l(n) \in Labels \ {"add", "store"} /\ l(n) \in Updating /\ proc[p].pc \in Updating
      /\ l(n) # "idle" /\ l(n) # "add"
  BY <1>1, <1>4, Zenon DEF Labels, Updating
<1>7. Moves(p, l(n)) /\ proc'[p] = s(n)
  <2>1. IsProc(s(n))
    BY <1>5, <1>6, Zenon DEF IsProc
  <2>2. Moves(p, s(n).pc) /\ proc'[p] = s(n)
    BY <1>2, <1>3, <2>1, SetMoves, Zenon
  <2> QED BY <1>5, <2>2, Zenon
<1>8. failures' \in Nat /\ failures' >= failures
  BY <1>1, <1>2 DEF Types
<1>9. p # "main" => syncMu' = p
  BY <1>1, <1>2, <1>6, Zenon DEF Exclusion
<1>10. ASSUME NEW x, Under(proc[p], x, version)
       PROVE  /\ n # 0 => Under(s(n), x, version)
              /\ n = 0 => Ordered(x, s(n).got, version)
  BY <1>2, <1>3, <1>5, <1>10, PageUnder, Zenon
<1>11. Under(proc[p], shown, version) /\ (Filled => Under(proc[p], registry, version))
  BY <1>1, <1>2, Zenon DEF Order, Follows
<1>12. Follows(s(n))
  BY <1>1, <1>4, <1>5, <1>10, <1>11, Zenon DEF Follows
<1> QED BY <1>1, <1>6, <1>7, <1>8, <1>9, <1>12, MoveIInv, Zenon

LEMMA ListFailsStep ==
  ASSUME IInv, exit = "none", NEW p \in Procs, ListFails(p)
  PROVE  IInv'
<1> DEFINE l == CASE p = "main" -> "leave" [] p = "watcher" -> "wait" [] OTHER -> "idle"
<1>1. /\ proc[p].pc \in {"fetch", "refetch"} /\ Finished(p, l) /\ Unlock(p)
      /\ UNCHANGED <<version, toolsMu, registry, shown, life>>
  BY Zenon DEF ListFails, At, hubside, table
<1>2. /\ p = "main" => l = "leave"
      /\ p = "watcher" => l = "wait"
      /\ p \notin {"main", "watcher"} => l = "idle"
  BY Zenon
<1> HIDE DEF l
<1>3. l \in Labels \ {"add", "store"} /\ l \notin Updating /\ proc[p].pc \in Updating
  BY <1>1, <1>2, Zenon DEF Labels, Updating
<1>4. Types /\ Ending /\ Exclusion /\ Order
  BY Zenon DEF IInv
<1>5. Moves(p, l)
  BY <1>1, <1>3, <1>4, FinishedMoves, Zenon
<1>10. Follows(proc'[p])
  BY <1>2, <1>5, NothingFollows, Zenon DEF Moves
<1>6. /\ failures' \in Nat /\ failures' >= failures
      /\ SessionOpen => failures' > 0
  BY <1>4 DEF ListFails, Types
<1>7. \A q \in Procs \ {p} : syncMu = q => syncMu' = q
  BY <1>1, Zenon DEF Unlock
<1>8. CASE p # "main"
  BY <1>1, <1>2, <1>3, <1>5, <1>6, <1>7, <1>8, <1>10, MoveIInv, Zenon
<1>9. CASE p = "main"
  <2>1. Types'
    BY <1>1, <1>3, <1>4, <1>5, <1>6, MoveTypes, Zenon
  <2>2. Exclusion'
    BY <1>1, <1>2, <1>3, <1>4, <1>5, <1>7, <1>9, MoveExclusion, Zenon
  <2>3. Order'
    BY <1>1, <1>2, <1>3, <1>4, <1>5, <1>9, <1>10, MoveOrder, Zenon
  <2>4. ~closed /\ exit = "none"
    BY <1>3, <1>4, <1>9, Zenon DEF Ending
  <2>5. hub = "gone" \/ parent \/ failures' > 0
    BY <1>4, <1>6, <2>4, Zenon DEF Ending, Types, SessionOpen, Live
  <2>6. proc'["main"].pc = "leave"
    BY <1>2, <1>5, <1>9, Zenon DEF Moves
  <2>7. Ending'
    BY <1>1, <1>4, <2>4, <2>5, <2>6, Zenon DEF Ending, ExitIsExplained, life, Updating
  <2> QED BY <2>1, <2>2, <2>3, <2>7, Zenon DEF IInv
<1> QED BY <1>8, <1>9, Zenon

(* updateRegisteredTools: from here the registry is neither list ... *)
LEMMA RemoveStep ==
  ASSUME IInv, NEW p \in Procs, RemoveTools(p)
  PROVE  IInv'
<1>1. /\ proc[p].pc = "remove" /\ To(p, "add") /\ toolsMu = "none" /\ toolsMu' = p
      /\ UNCHANGED <<version, syncMu, shown, life, failures>>
  BY Zenon DEF RemoveTools, At, hubside
<1>2. "add" \in Labels /\ "add" \in Updating /\ proc[p].pc \in Updating
  BY <1>1, Zenon DEF Labels, Updating
<1>3. Types /\ Ending /\ Exclusion /\ Order
  BY Zenon DEF IInv
<1>4. Moves(p, "add") /\ proc'[p].got = proc[p].got
  BY <1>1, <1>2, <1>3, ToMoves, Zenon
<1>5. failures' \in Nat /\ failures' >= failures
  BY <1>1, <1>3 DEF Types
<1>6. Types'
  BY <1>1, <1>2, <1>3, <1>4, <1>5, MoveTypes, Zenon
<1>7. Ending'
  BY <1>1, <1>2, <1>3, <1>4, <1>5, MoveEnding, Zenon DEF life
<1>8. Exclusion'
  <2>1. p # "main" => syncMu' = p
    BY <1>1, <1>2, <1>3, Zenon DEF Exclusion
  <2> QED BY <1>1, <1>2, <1>3, <1>4, <2>1, MoveExclusion, Zenon
<1>9. ~Filled'
  BY <1>1, Distinct, Zenon DEF Filled
<1>10. Ordered(shown, proc[p].got, version) /\ proc'[p].pc = "add"
  BY <1>1, <1>3, <1>4, Zenon DEF Order, Follows, Moves
<1>11. \A q \in Procs : Follows(proc[q])'
  <2>1. Follows(proc[p])'
    BY <1>1, <1>4, <1>10, Zenon DEF Follows
  <2>2. ASSUME NEW q \in Procs \ {p} PROVE Follows(proc[q])'
    <3>1. proc'[q] = proc[q] /\ Follows(proc[q])
      BY <1>3, <1>4, Zenon DEF Moves, Order
    <3> QED BY <1>1, <1>9, <3>1, Zenon DEF Follows
  <2> QED BY <2>1, <2>2, Zenon
<1>12. Seen(shown, version) /\ UNCHANGED <<shown, version>>
  BY <1>1, <1>3, Zenon DEF Order
<1>13. Order'
  BY <1>9, <1>11, <1>12, Zenon DEF Order
<1> QED BY <1>6, <1>7, <1>8, <1>13, Zenon DEF IInv

(* ... and here it is the new one; nobody else was updating it. *)
LEMMA AddStep ==
  ASSUME IInv, NEW p \in Procs, AddTool(p)
  PROVE  IInv'
<1>1. /\ proc[p].pc = "add" /\ Finished(p, "store") /\ toolsMu' = "none"
      /\ registry' = [n \in DOMAIN proc[p].got |-> proc[p].got[n]]
      /\ UNCHANGED <<version, syncMu, shown, life, failures>>
  BY Zenon DEF AddTool, At, hubside
<1>2. "store" \in Labels /\ "store" \in Updating /\ proc[p].pc \in Updating
  BY <1>1, Zenon DEF Labels, Updating
<1>3. Types /\ Ending /\ Exclusion /\ Order
  BY Zenon DEF IInv
<1>4. Moves(p, "store")
  BY <1>1, <1>2, <1>3, FinishedMoves, Zenon
<1>5. failures' \in Nat /\ failures' >= failures
  BY <1>1, <1>3 DEF Types
<1>6. Types'
  BY <1>1, <1>2, <1>3, <1>4, <1>5, MoveTypes, Zenon
<1>7. Ending'
  BY <1>1, <1>2, <1>3, <1>4, <1>5, MoveEnding, Zenon DEF life
<1>8. p # "main" => syncMu = p
  BY <1>2, <1>3, Zenon DEF Exclusion
<1>9. Exclusion'
  BY <1>1, <1>2, <1>3, <1>4, <1>8, MoveExclusion, Zenon
<1>10. Ordered(shown, registry', version)
  <2>1. Ordered(shown, proc[p].got, version)
    BY <1>1, <1>3, Zenon DEF Order, Follows
  <2>2. registry' = proc[p].got
    BY <1>1, <2>1, ListedIsFunction, Zenon
  <2> QED BY <2>1, <2>2, Zenon
<1>11. \A q \in Procs \ {p} : proc[q].pc \notin Updating
  <2>1. CASE p = "main"
    BY <1>2, <1>3, <2>1, Zenon DEF Exclusion, Updating
  <2>2. CASE p # "main"
    <3>1. proc["main"].pc \notin Updating
      BY <1>2, <1>3, <2>2, Zenon DEF Exclusion, Updating
    <3>2. \A q \in Procs \ {"main"} : proc[q].pc \in Updating => q = p
      BY <1>3, <1>8, <2>2, Zenon DEF Exclusion
    <3> QED BY <3>1, <3>2, Zenon
  <2> QED BY <2>1, <2>2, Zenon
<1>12. \A q \in Procs : proc'[q].pc \notin {"fetch", "refetch", "check", "remove", "add"}
  BY <1>4, <1>11, Zenon DEF Moves, Updating
<1>13. Seen(shown', version') /\ Seen(registry', version') /\ Ordered(shown', registry', version')
  BY <1>1, <1>3, <1>10, OrderedSeen, Zenon DEF Order
<1>14. Order'
  BY <1>12, <1>13, Zenon DEF Order, Follows
<1> QED BY <1>6, <1>7, <1>9, <1>14, Zenon DEF IInv

(* The end of the start lets the watcher and the requests begin. *)
LEMMA StoreStep ==
  ASSUME IInv, NEW p \in Procs, StoreSynced(p)
  PROVE  IInv'
<1>1. Types /\ Ending /\ Exclusion /\ Order
  BY Zenon DEF IInv
<1>2. /\ proc[p].pc = "store"
      /\ UNCHANGED <<version, syncMu, toolsMu, registry, shown, hub, client, parent,
                     runCtx, closed, failure, exit, failures>>
  BY Zenon DEF StoreSynced, At, hubside, table
<1>3. failures' \in Nat /\ failures' >= failures
  BY <1>1, <1>2 DEF Types
<1>4. CASE p # "main"
  <2>1. To(p, "clear") /\ UNCHANGED life
    BY <1>4, Zenon DEF StoreSynced, life
  <2>2. "clear" \in Labels \ {"add", "store"} /\ proc[p].pc \in Updating
    BY <1>2, Zenon DEF Labels, Updating
  <2>3. Moves(p, "clear")
    BY <1>1, <2>1, <2>2, ToMoves, Zenon
  <2>4. syncMu' = p
    BY <1>1, <1>2, <1>4, <2>2, Zenon DEF Exclusion
  <2>5. Follows(proc'[p])
    BY <2>3, NothingFollows, Zenon DEF Moves
  <2> QED BY <1>2, <1>3, <1>4, <2>1, <2>2, <2>3, <2>4, <2>5, MoveIInv, Zenon
<1>5. CASE p = "main"
  <2>1. /\ proc' = [q \in Procs |-> proc'[q]] /\ \A q \in Procs : IsProc(proc'[q])
        /\ proc'["main"].pc = "serve" /\ proc'["watcher"].pc = "wait"
        /\ \A q \in Requests : proc'[q] = proc[q]
    <3> DEFINE r == [proc["main"] EXCEPT !.pc = "serve"]
               w == [proc["watcher"] EXCEPT !.pc = "wait"]
    <3>1. proc' = [[proc EXCEPT !["main"] = r] EXCEPT !["watcher"] = w]
      BY <1>1, <1>5, Distinct, Zenon DEF StoreSynced, Types
    <3>2. "serve" \in Labels /\ "wait" \in Labels /\ IsProc(proc["main"]) /\ IsProc(proc["watcher"])
      BY <1>1, Distinct, Zenon DEF Labels, Types
    <3>3. IsProc(r) /\ IsProc(w) /\ r.pc = "serve" /\ w.pc = "wait"
      BY <3>2 DEF IsProc
    <3> HIDE DEF r, w
    <3> QED BY <1>1, <3>1, <3>3, Distinct, Zenon DEF Types
  <2>2. \A q \in Procs \ {"main"} : proc[q].pc = "idle"
    BY <1>1, <1>2, <1>5, Zenon DEF Exclusion, Updating
  <2>3. \A q \in Procs : proc'[q].pc \in {"idle", "serve", "wait"}
    BY <2>1, <2>2, Distinct DEF Procs
  <2>4. Types'
    BY <1>1, <1>2, <2>1, Zenon DEF Types
  <2>5. Ending'
    BY <1>1, <1>2, <1>5, <2>1, Zenon DEF Ending, ExitIsExplained, Updating
  <2>6. \A q \in Procs : toolsMu # q
    BY <1>1, <1>2, <1>5, <2>2, Zenon DEF Exclusion
  <2>7. Exclusion'
    BY <1>1, <1>2, <2>1, <2>3, <2>6, Zenon DEF Exclusion, Updating
  <2>8. Filled
    BY <1>1, <1>2, <1>5, <2>6, Zenon DEF Filled, Exclusion
  <2>9. /\ Seen(shown', version') /\ Seen(registry', version')
        /\ registry' = shown' \/ Ordered(shown', registry', version')
    BY <1>1, <1>2, <2>8, Zenon DEF Order
  <2>10. \A q \in Procs : proc'[q].pc \notin {"fetch", "refetch", "check", "remove", "add"}
    BY <2>3, Zenon
  <2>11. Order'
    BY <2>9, <2>10, Zenon DEF Order, Follows
  <2> QED BY <2>4, <2>5, <2>7, <2>11, Zenon DEF IInv
<1> QED BY <1>4, <1>5, Zenon

-----------------------------------------------------------------------------
(* syncTools takes and gives back syncMu. *)
LEMMA SyncStep ==
  ASSUME IInv, NEW p \in Procs \ {"main"}, syncTools(p) \/ SyncEnds(p)
  PROVE  IInv'
<1>1. Types /\ Ending /\ Exclusion /\ Order
  BY Zenon DEF IInv
<1>2. UNCHANGED <<version, toolsMu, registry, shown, life, failures>>
  BY Zenon DEF syncTools, SyncEnds, hubside, table
<1>3. failures' \in Nat /\ failures' >= failures
  BY <1>1, <1>2 DEF Types
<1>4. CASE syncTools(p) /\ Live
  <2>1. proc[p].pc = "sync" /\ To(p, "list") /\ syncMu = "none" /\ syncMu' = p
    BY <1>4, Zenon DEF syncTools, At, lockSync
  <2>2. "list" \in Labels \ {"add", "store"}
    BY Zenon DEF Labels
  <2>3. Moves(p, "list")
    BY <1>1, <2>1, <2>2, ToMoves, Zenon
  <2>4. Follows(proc'[p])
    BY <2>3, NothingFollows, Zenon DEF Moves
  <2> QED BY <1>2, <1>3, <2>1, <2>2, <2>3, <2>4, Distinct, MoveIInv, Zenon
<1>5. CASE syncTools(p) /\ ~Live
  <2> DEFINE l == IF p = "watcher" THEN "wait" ELSE "idle"
  <2>1. proc[p].pc = "sync" /\ To(p, l) /\ UNCHANGED syncMu
    BY <1>5, Zenon DEF syncTools, At
  <2>2. l \in Labels \ {"add", "store"} /\ l \notin Updating
    BY Zenon DEF Labels, Updating
  <2>3. (p = "watcher" => l # "idle") /\ l \notin {"fetch", "refetch", "check", "remove", "add"}
    BY Zenon
  <2> HIDE DEF l
  <2>4. Moves(p, l)
    BY <1>1, <2>1, <2>2, ToMoves, Zenon
  <2>5. Follows(proc'[p])
    BY <2>3, <2>4, NothingFollows, Zenon DEF Moves
  <2> QED BY <1>2, <1>3, <2>1, <2>2, <2>3, <2>4, <2>5, MoveIInv, Zenon
<1>6. CASE SyncEnds(p)
  <2> DEFINE l == IF p = "watcher" THEN "wait" ELSE "read"
  <2>1. proc[p].pc = "clear" /\ To(p, l) /\ Unlock(p)
    BY <1>6, Zenon DEF SyncEnds, At
  <2>2. l \in Labels \ {"add", "store"} /\ l \notin Updating
    BY Zenon DEF Labels, Updating
  <2>3. l # "idle" /\ l \notin {"fetch", "refetch", "check", "remove", "add"}
    BY Zenon
  <2> HIDE DEF l
  <2>4. Moves(p, l)
    BY <1>1, <2>1, <2>2, ToMoves, Zenon
  <2>5. \A q \in Procs \ {p} : syncMu = q => syncMu' = q
    BY <2>1, Zenon DEF Unlock
  <2>6. Follows(proc'[p])
    BY <2>3, <2>4, NothingFollows, Zenon DEF Moves
  <2> QED BY <1>2, <1>3, <2>1, <2>2, <2>3, <2>4, <2>5, <2>6, MoveIInv, Zenon
<1> QED BY <1>4, <1>5, <1>6, Zenon

LEMMA WatchStep ==
  ASSUME IInv, TakeToken \/ Pause \/ WatcherReturns
  PROVE  IInv'
<1> DEFINE l == IF TakeToken THEN "burst" ELSE IF Pause THEN "sync" ELSE "returned"
<1>1. /\ proc["watcher"].pc \in {"wait", "burst", "sync"} /\ To("watcher", l)
      /\ UNCHANGED <<version, syncMu, toolsMu, registry, shown, life, failures>>
  BY Zenon DEF TakeToken, Pause, WatcherReturns, At, hubside, table
<1>2. /\ l \in Labels \ {"add", "store"} /\ l \notin Updating /\ l # "idle"
      /\ l \notin {"fetch", "refetch", "check", "remove", "add"}
  BY Zenon DEF Labels, Updating
<1> HIDE DEF l
<1>3. Moves("watcher", l)
  BY <1>1, <1>2, Distinct, ToMoves, Zenon DEF IInv
<1>4. failures' \in Nat /\ failures' >= failures
  BY <1>1 DEF IInv, Types
<1>5. Follows(proc'["watcher"])
  BY <1>2, <1>3, NothingFollows, Zenon DEF Moves
<1> QED BY <1>1, <1>2, <1>3, <1>4, <1>5, Distinct, MoveIInv, Zenon

LEMMA AskStep ==
  ASSUME IInv, NEW p \in Requests, Ask(p)
  PROVE  IInv'
<1> DEFINE l == IF Pending THEN "sync" ELSE "read"
<1>1. /\ proc[p].pc = "idle" /\ proc["main"].pc = "serve" /\ To(p, l)
      /\ UNCHANGED <<version, syncMu, toolsMu, registry, shown, life, failures>>
  BY Zenon DEF Ask, At, hubside, table
<1>2. /\ l \in Labels \ {"add", "store"} /\ l \notin Updating /\ l # "idle"
      /\ l \notin {"fetch", "refetch", "check", "remove", "add"}
  BY Zenon DEF Labels, Updating
<1> HIDE DEF l
<1>3. p \in Procs /\ p # "main"
  BY Distinct, Zenon
<1>4. Moves(p, l)
  BY <1>1, <1>2, <1>3, ToMoves, Zenon DEF IInv
<1>5. failures' \in Nat /\ failures' >= failures
  BY <1>1 DEF IInv, Types
<1>6. Follows(proc'[p])
  BY <1>2, <1>4, NothingFollows, Zenon DEF Moves
<1> QED BY <1>1, <1>2, <1>3, <1>4, <1>5, <1>6, MoveIInv, Zenon

(* A request reads the registry, which is filled and no older than what was
   shown. *)
LEMMA ReadRegistryIsForward ==
  ASSUME IInv, NEW p \in Requests, ReadRegistry(p)
  PROVE  /\ Filled /\ Seen(registry, version)
         /\ registry = shown \/ Ordered(shown, registry, version)
<1>1. proc[p].pc = "read" /\ toolsMu = "none"
  BY Zenon DEF ReadRegistry, At
<1>2. Filled
  BY <1>1, Zenon DEF IInv, Exclusion, Filled
<1> QED BY <1>2, Zenon DEF IInv, Order

LEMMA ReadStep ==
  ASSUME IInv, NEW p \in Requests, ReadRegistry(p)
  PROVE  IInv'
<1>1. Types /\ Ending /\ Exclusion /\ Order
  BY Zenon DEF IInv
<1>2. /\ proc[p].pc = "read" /\ toolsMu = "none" /\ To(p, "idle") /\ shown' = registry
      /\ UNCHANGED <<version, syncMu, toolsMu, registry, life, failures>>
  BY Zenon DEF ReadRegistry, At, hubside, table
<1>3. "idle" \in Labels /\ "idle" \notin Updating /\ p \in Procs /\ p \notin {"main", "watcher"}
  BY Distinct, Zenon DEF Labels, Updating
<1>4. Moves(p, "idle")
  BY <1>1, <1>2, <1>3, ToMoves, Zenon
<1>5. failures' \in Nat /\ failures' >= failures
  BY <1>1, <1>2 DEF Types
<1>6. Types'
  BY <1>1, <1>2, <1>3, <1>4, <1>5, MoveTypes, Zenon
<1>7. Ending'
  BY <1>1, <1>2, <1>3, <1>4, <1>5, MoveEnding, Zenon DEF life
<1>8. Exclusion'
  BY <1>1, <1>2, <1>3, <1>4, MoveExclusion, Zenon
<1>9. Filled /\ Seen(registry, version)
  BY ReadRegistryIsForward, Zenon
<1>10. ASSUME NEW q \in Procs PROVE Follows(proc[q])'
  <2>1. CASE q = p
    BY <1>4, <2>1, NothingFollows, Zenon DEF Moves, Follows
  <2>2. CASE q # p
    <3>1. proc'[q] = proc[q] /\ Follows(proc[q]) /\ proc[q].pc # "add"
      BY <1>1, <1>2, <1>4, <2>2, Distinct, Zenon DEF Moves, Order, Exclusion
    <3> QED BY <1>2, <1>9, <3>1, Zenon DEF Follows
  <2> QED BY <2>1, <2>2, Zenon
<1>11. Seen(shown', version') /\ Seen(registry', version') /\ registry' = shown'
  BY <1>2, <1>9, Zenon
<1>12. Order'
  BY <1>10, <1>11, Zenon DEF Order
<1> QED BY <1>6, <1>7, <1>8, <1>12, Zenon DEF IInv

-----------------------------------------------------------------------------
(* The end of RunWithOptions. *)
LEMMA MainStep ==
  ASSUME IInv, exit = "none", RunReturns \/ CancelRun \/ Leave
  PROVE  IInv'
<1> DEFINE l == IF RunReturns THEN "cancel" ELSE IF CancelRun THEN "leave" ELSE "left"
<1>1. /\ proc["main"].pc \in {"serve", "cancel", "leave"} /\ To("main", l)
      /\ UNCHANGED <<version, syncMu, toolsMu, registry, shown, failures>>
  BY Zenon DEF RunReturns, CancelRun, Leave, At, hubside, table
<1>2. l \in Labels \ {"add", "store"} /\ l \notin Updating /\ l \in {"cancel", "leave", "left"}
  BY Zenon DEF Labels, Updating
<1> HIDE DEF l
<1>3. Types /\ Ending /\ Exclusion /\ Order
  BY Zenon DEF IInv
<1>4. Moves("main", l)
  BY <1>1, <1>2, <1>3, Distinct, ToMoves, Zenon
<1>5. Exclusion'
  BY <1>1, <1>2, <1>3, <1>4, Distinct, MoveExclusion, Zenon
<1>6. Order'
  <2>1. Follows(proc'["main"])
    BY <1>2, <1>4, NothingFollows, Zenon DEF Moves
  <2> QED BY <1>1, <1>2, <1>3, <1>4, <2>1, Distinct, MoveOrder, Zenon
<1>7. /\ proc' = [q \in Procs |-> proc'[q]] /\ \A q \in Procs : IsProc(proc'[q])
      /\ proc'["main"].pc = l
  BY <1>4, Zenon DEF Moves
<1>8. CASE RunReturns
  <2>1. /\ proc["main"].pc = "serve" /\ closed' = TRUE /\ (~client \/ ~Live)
        /\ UNCHANGED <<hub, client, parent, runCtx, failure, exit>> /\ l = "cancel"
    BY <1>8, Zenon DEF RunReturns, At, l
  <2>2. Types'
    BY <1>1, <1>3, <1>7, <2>1, Zenon DEF Types
  <2>3. Ending'
    BY <1>1, <1>3, <1>7, <2>1, Zenon DEF Ending, ExitIsExplained, Live, Types, Updating
  <2> QED BY <1>5, <1>6, <2>2, <2>3, Zenon DEF IInv
<1>9. CASE CancelRun /\ ~RunReturns
  <2>1. /\ proc["main"].pc = "cancel" /\ runCtx' = FALSE /\ l = "leave"
        /\ UNCHANGED <<hub, client, parent, closed, failure, exit>>
    BY <1>9, Zenon DEF CancelRun, At, l
  <2>2. Types'
    BY <1>1, <1>3, <1>7, <2>1, Zenon DEF Types
  <2>3. Ending'
    BY <1>1, <1>3, <1>7, <2>1, Zenon DEF Ending, ExitIsExplained, Types, Updating
  <2> QED BY <1>5, <1>6, <2>2, <2>3, Zenon DEF IInv
<1>10. CASE Leave /\ ~RunReturns /\ ~CancelRun
  <2>1. /\ proc["main"].pc = "leave" /\ runCtx' = FALSE /\ l = "left"
        /\ UNCHANGED <<hub, client, parent, closed, failure>>
    BY <1>10, Zenon DEF Leave, At, l
  <2>2. /\ failure => exit' = "hub session terminated"
        /\ ~failure /\ ~closed => exit' = "start failed"
        /\ ~failure /\ closed /\ parent => exit' = "cancelled"
        /\ ~failure /\ closed /\ ~parent => exit' \in {"client disconnected", "transport error"}
    BY <1>10, Zenon DEF Leave
  <2>3. Types'
    BY <1>1, <1>3, <1>7, <2>1, Zenon DEF Types
  <2>4. Ending'
    BY <1>1, <1>3, <1>7, <2>1, <2>2, Zenon DEF Ending, ExitIsExplained, Types, Updating
  <2> QED BY <1>5, <1>6, <2>3, <2>4, Zenon DEF IInv
<1> QED BY <1>8, <1>9, <1>10, Zenon

(* The Hub, the outside and the monitor. *)
LEMMA OutsideStep ==
  ASSUME IInv, exit = "none",
         HubChanges \/ handleToolListChanged \/ Ends \/ monitorHubSession
  PROVE  IInv'
<1>1. Types /\ Ending /\ Exclusion /\ Order
  BY Zenon DEF IInv
<1>2. UNCHANGED <<proc, syncMu, toolsMu, registry, shown, exit, failures, closed>>
  BY Zenon DEF HubChanges, handleToolListChanged, Ends, monitorHubSession, life, table
<1>3. /\ version' \in 1..Len(HubLists) /\ version \in Nat /\ version' \in Nat
      /\ version <= version'
  <2>1. version \in 1..Len(HubLists) /\ Len(HubLists) \in Nat
    BY <1>1, Lists, Zenon DEF Types
  <2>2. version' = version \/ (version < Len(HubLists) /\ version' = version + 1)
    BY Zenon DEF HubChanges, handleToolListChanged, Ends, monitorHubSession, hubside
  <2> QED BY <2>1, <2>2
<1>4. Types' /\ Ending'
  <2>1. CASE HubChanges \/ handleToolListChanged
    BY <1>1, <1>2, <1>3, <2>1
       DEF HubChanges, handleToolListChanged, life, Types, Ending, ExitIsExplained
  <2>2. CASE Ends
    <3>1. /\ (hub' = hub \/ hub' = "gone") /\ (client' = client \/ client' = FALSE)
          /\ (parent' = parent \/ parent' = TRUE) /\ UNCHANGED <<runCtx, failure>>
      BY <2>2, Zenon DEF Ends
    <3>2. Types'
      BY <1>1, <1>2, <1>3, <3>1, Zenon DEF Types
    <3>3. /\ hub = "gone" => hub' = "gone"
          /\ ~client => ~client'
          /\ parent => parent'
      BY <1>1, <3>1 DEF Types
    <3>4. Ending'
      BY <1>1, <1>2, <3>1, <3>3, Zenon DEF Ending, ExitIsExplained
    <3> QED BY <3>2, <3>4, Zenon
  <2>3. CASE monitorHubSession
    <3>1. /\ UNCHANGED <<hub, client, parent>> /\ ~SessionOpen
          /\ \/ Live /\ failure' = TRUE /\ runCtx' = FALSE
             \/ UNCHANGED <<failure, runCtx>>
      BY <2>3, Zenon DEF monitorHubSession, Reports
    <3>2. Types'
      BY <1>1, <1>2, <1>3, <3>1, Zenon DEF Types
    <3>3. \/ hub = "gone" /\ failure' = TRUE
          \/ UNCHANGED <<failure, runCtx>>
      BY <1>1, <3>1, Zenon DEF Types, SessionOpen
    <3>4. /\ failure => failure'
          /\ failure' => hub = "gone"
          /\ ~runCtx' => failure' \/ ~runCtx
      BY <1>1, <3>3 DEF Types, Ending
    <3>5. Ending'
      BY <1>1, <1>2, <3>1, <3>4, Zenon DEF Ending, ExitIsExplained
    <3> QED BY <3>2, <3>5, Zenon
  <2> QED BY <2>1, <2>2, <2>3, Zenon
<1>5. Exclusion'
  BY <1>1, <1>2, Zenon DEF Exclusion
<1>6. /\ \A x : Seen(x, version) => Seen(x, version')
      /\ \A x, y : Ordered(x, y, version) => Ordered(x, y, version')
      /\ \A r, x : Under(r, x, version) => Under(r, x, version')
  BY <1>3, SeenLater, OrderedLater, UnderLater, Zenon
<1>7. Filled' => Filled
  BY <1>2, Zenon DEF Filled
<1>8. ASSUME NEW q \in Procs PROVE Follows(proc[q])'
  <2>1. Follows(proc[q])
    BY <1>1, Zenon DEF Order
  <2> QED BY <1>2, <1>6, <1>7, <2>1, Zenon DEF Follows
<1>9. Order'
  BY <1>1, <1>2, <1>6, <1>7, <1>8, Zenon DEF Order
<1> QED BY <1>4, <1>5, <1>9, Zenon DEF IInv

LEMMA UpdateStep ==
  ASSUME IInv, exit = "none", NEW p \in Procs, Update(p)
  PROVE  IInv'
  BY ListStep, RemoveStep, AddStep, StoreStep, Zenon DEF Update

LEMMA StepIInv ==
  ASSUME IInv, [Next]_vars
  PROVE  IInv'
<1>1. CASE UNCHANGED vars
  <2>1. UNCHANGED <<version, proc, syncMu, toolsMu, registry, shown, hub, client,
                    parent, runCtx, closed, failure, exit, failures>>
    BY <1>1, Zenon DEF vars, hubside, table, life
  <2>2. Types'
    BY <2>1, Zenon DEF IInv, Types
  <2>3. Ending'
    BY <2>1, Zenon DEF IInv, Ending, ExitIsExplained
  <2>4. Exclusion'
    BY <2>1, Zenon DEF IInv, Exclusion
  <2>5. \A p \in Procs : Follows(proc[p])'
    BY <2>1, Zenon DEF IInv, Order, Follows, Filled
  <2>6. Order'
    BY <2>1, <2>5, Zenon DEF IInv, Order, Filled
  <2> QED BY <2>2, <2>3, <2>4, <2>6, Zenon DEF IInv
<1>2. ASSUME exit = "none", RunWithOptions PROVE IInv'
  BY <1>2, UpdateStep, MainStep, Distinct, Zenon DEF RunWithOptions
<1>3. ASSUME exit = "none", Watch PROVE IInv'
  <2>1. "watcher" \in Procs \ {"main"}
    BY Distinct, Zenon
  <2> QED BY <1>3, <2>1, WatchStep, SyncStep, UpdateStep, Zenon DEF Watch, Sync
<1>4. ASSUME exit = "none", NEW p \in Requests, Ask(p) \/ List(p) PROVE IInv'
  <2>1. p \in Procs \ {"main"}
    BY Distinct, Zenon
  <2> QED BY <1>4, <2>1, AskStep, SyncStep, UpdateStep, ReadStep, Zenon DEF List, Sync
<1>5. CASE Next
  BY <1>5, <1>2, <1>3, <1>4, OutsideStep, FetchStep, ListFailsStep, Zenon DEF Next
<1> QED BY <1>1, <1>5, Zenon

(* monitorHubSession and the end of RunWithOptions: the reason given for the end
   is a thing that happened, in whatever order Hub, client and parent end. *)
THEOREM ExitsAreExplained == Spec => []ExitIsExplained
<1>1. IInv /\ [Next]_vars => IInv'
  BY StepIInv, Zenon
<1>2. IInv => ExitIsExplained
  BY Zenon DEF IInv, Ending
<1> QED BY InitIInv, <1>1, <1>2, PTL DEF Spec

(* Only a read of the registry changes what was shown. *)
LEMMA ShownByRead ==
  ASSUME [Next]_vars, shown' # shown
  PROVE  \E l \in Requests : ReadRegistry(l)
<1>1. CASE UNCHANGED vars
  BY <1>1, Zenon DEF vars
<1>2. ~(HubChanges \/ handleToolListChanged \/ Ends \/ monitorHubSession)
  BY Zenon DEF HubChanges, handleToolListChanged, Ends, monitorHubSession
<1>3. ~(RunReturns \/ CancelRun \/ Leave \/ TakeToken \/ Pause \/ WatcherReturns)
  BY Zenon DEF RunReturns, CancelRun, Leave, TakeToken, Pause, WatcherReturns
<1>4. \A p : ~Update(p) /\ ~fetchPages(p) /\ ~ListFails(p)
  BY Zenon DEF Update, ClearDirty, fetchPages, IsDirty, ListFails, RemoveTools, AddTool,
        StoreSynced
<1>5. \A p : ~syncTools(p) /\ ~SyncEnds(p) /\ ~Ask(p)
  BY Zenon DEF syncTools, SyncEnds, Ask
<1> QED BY <1>1, <1>2, <1>3, <1>4, <1>5, Zenon DEF Next, RunWithOptions, Watch, Sync, List

(* syncTools, updateRegisteredTools and the list middleware: for any lists, any
   page size and any number of requests, a local client gets what one listing
   returned, listed after the one it was shown before. *)
THEOREM ListsNeverGoBack == Spec => ListsMoveForward
<1>1. ASSUME IInv, [Next]_vars, shown' # shown
      PROVE  \E a, b, c, d \in 1..version :
               a <= b /\ b <= c /\ c <= d /\ Listed(shown, a, b) /\ Listed(shown', c, d)
  <2>1. PICK l \in Requests : ReadRegistry(l)
    BY <1>1, ShownByRead, Zenon
  <2>2. Ordered(shown, registry, version) /\ shown' = registry
    BY <1>1, <2>1, ReadRegistryIsForward, Zenon DEF ReadRegistry
  <2>3. version \in Nat
    BY <1>1, VersionIsNat, Zenon DEF IInv
  <2>4. PICK a \in 1..version, b \in 1..version, c \in 1..version, d \in 1..version :
          a <= b /\ b <= c /\ c <= d /\ Listed(shown, a, b) /\ Listed(registry, c, d)
    BY <2>2, <2>3, OrderedIsForward, Zenon
  <2>5. Listed(shown', c, d)
    BY <2>2, <2>4, Zenon
  <2> QED BY <2>4, <2>5, Zenon
<1>2. IInv /\ [Next]_vars => IInv'
  BY StepIInv, Zenon
<1> QED BY InitIInv, <1>1, <1>2, PTL DEF Spec, ListsMoveForward
=============================================================================
