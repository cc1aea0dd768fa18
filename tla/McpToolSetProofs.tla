--------------------------- MODULE McpToolSetProofs ---------------------------
(***************************************************************************)
(* What a discovery promises, proved for every catalog and every policy.   *)
(*                                                                         *)
(* The cursors visited so far are the first one and those in seen; all of  *)
(* them but the current one were fetched, and each led to another of them. *)
(* When a page has no next one, the visited cursors are therefore exactly  *)
(* the ones the server's pages link (Linked), and what was listed is what  *)
(* the server offers.                                                      *)
(***************************************************************************)
EXTENDS McpToolSet, FiniteSetTheorems, SequenceTheorems, TLAPS

Tool == [name : Names, server : Names, remote : Names]

Visited(d) == {""} \cup d.seen

Fetched(d) == Visited(d) \ {d.cursor}

ToolsOf(server, cursors) == UNION {ToSet(server.pages[c].tools) : c \in cursors}

Types ==
    /\ catalog \in Catalogs
    /\ disc \in [pc : {"listing", "adopting", "failed", "done"}, at : 1 .. Len(catalog) + 1,
                 cursor : Cursors, seen : SUBSET (Cursors \ {""}), listed : Seq(Names),
                 err : {"", "list", "loop", "canceled", "duplicate"}]
    /\ disc.pc \in {"listing", "adopting"} => disc.at <= Len(catalog)
    /\ disc.pc = "done" => disc.at = Len(catalog) + 1
    /\ tools \in Seq(Tool)

\* Between two pages.
Underway(server, d) ==
    /\ d.cursor \in Visited(d)
    /\ Fetched(d) \subseteq DOMAIN server.pages
    /\ \A c \in Fetched(d) : server.pages[c].next \in Visited(d)
    /\ Visited(d) \cap DOMAIN server.pages \subseteq Linked(server.pages)
    /\ ToSet(d.listed) = ToolsOf(server, Fetched(d))

ListingInv == disc.pc = "listing" => Underway(Server, disc)

\* After the last page.
AdoptingInv == disc.pc = "adopting" => ToSet(disc.listed) = Offered(Server)

\* The adopted tools are those of the servers before the current one.
NamedAsOffered ==
    \A k \in DOMAIN tools :
        /\ tools[k].name = QualifiedName(tools[k].server, tools[k].remote)
        /\ \E i \in 1 .. disc.at - 1 : /\ tools[k].server = catalog[i].name
                                       /\ tools[k].remote \in Offered(catalog[i])

AllAdopted ==
    \A i \in 1 .. disc.at - 1 : \A t \in Offered(catalog[i]) :
        \E k \in DOMAIN tools : tools[k].server = catalog[i].name /\ tools[k].remote = t

NamesDiffer == \A k, l \in DOMAIN tools : tools[k].name = tools[l].name => k = l

RoutedInv ==
    routed # <<>> => /\ disc.pc = "done"
                     /\ routed[1].set = FilterToolSet(tools, routed[1].routing)

IndInv == /\ Types
          /\ ListingInv
          /\ AdoptingInv
          /\ NamedAsOffered
          /\ AllAdopted
          /\ NamesDiffer
          /\ RoutedInv

-----------------------------------------------------------------------------
(* Catalogs, pages and names. *)

\* A catalog is a sequence of servers whose names and pages are as declared.
LEMMA CatalogShape ==
    ASSUME NEW servers \in Catalogs
    PROVE  /\ Len(servers) \in Nat
           /\ DOMAIN servers = 1 .. Len(servers)
           /\ \A i \in 1 .. Len(servers) : IsServer(servers[i])
<1>1. servers \in Seq(ToSet(servers)) /\ \A i \in DOMAIN servers : IsServer(servers[i])
  BY CatalogAssumption
<1>2. Len(servers) \in Nat /\ DOMAIN servers = 1 .. Len(servers)
  BY <1>1, LenProperties
<1>3. QED BY <1>1, <1>2

\* The linked pages are closed, and the least such set.
LEMMA LinkedPages ==
    ASSUME NEW pages
    PROVE  /\ Linked(pages) \subseteq DOMAIN pages
           /\ "" \in DOMAIN pages => "" \in Linked(pages)
           /\ \A c \in Linked(pages) : pages[c].next \in DOMAIN pages => pages[c].next \in Linked(pages)
           /\ \A cursors : Closed(cursors, pages) => Linked(pages) \subseteq cursors
BY Zenon DEF Linked, Closed

LEMMA EmptyShape == ToSet(<<>>) = {} /\ DOMAIN <<>> = {} /\ \A S : <<>> \in Seq(S)
BY EmptySeq DEF ToSet

LEMMA ToSetOfConcat ==
    ASSUME NEW S, NEW s \in Seq(S), NEW t \in Seq(S)
    PROVE  ToSet(s \o t) = ToSet(s) \cup ToSet(t)
<1>1. PICK m \in Nat, n \in Nat : m = Len(s) /\ n = Len(t) /\ DOMAIN s = 1 .. m /\ DOMAIN t = 1 .. n
  BY LenProperties
<1>2. PICK st : st = s \o t
  OBVIOUS
<1>3. DOMAIN st = 1 .. m + n
  <2>1. s \o t \in Seq(S) /\ Len(s \o t) = Len(s) + Len(t)
    BY ConcatProperties
  <2>2. QED BY <1>1, <1>2, <2>1, LenProperties
<1>4. \A i \in 1 .. m + n : st[i] = IF i <= m THEN s[i] ELSE t[i - m]
  <2>1. \A i \in 1 .. Len(s) + Len(t) : (s \o t)[i] = IF i <= Len(s) THEN s[i] ELSE t[i - Len(s)]
    BY ConcatProperties
  <2>2. QED BY <1>1, <1>2, <2>1, Zenon
<1>5. \A i \in 1 .. m : i \in 1 .. m + n /\ st[i] = s[i]
  BY <1>4
<1>6. \A i \in 1 .. n : m + i \in 1 .. m + n /\ st[m + i] = t[i]
  BY <1>4
<1>7. \A i \in 1 .. m + n : i \in 1 .. m \/ (i - m \in 1 .. n /\ st[i] = t[i - m])
  BY <1>4
<1>8. {st[i] : i \in 1 .. m + n} = {s[i] : i \in 1 .. m} \cup {t[i] : i \in 1 .. n}
  <2>1. \A x : x \in {st[i] : i \in 1 .. m + n} => x \in {s[i] : i \in 1 .. m} \cup {t[i] : i \in 1 .. n}
    BY <1>5, <1>7, Zenon
  <2>2. \A x : x \in {s[i] : i \in 1 .. m} => x \in {st[i] : i \in 1 .. m + n}
    BY <1>5, Zenon
  <2>3. \A x : x \in {t[i] : i \in 1 .. n} => x \in {st[i] : i \in 1 .. m + n}
    BY <1>6, Zenon
  <2>4. QED BY <2>1, <2>2, <2>3
<1>9. QED BY <1>1, <1>2, <1>3, <1>8, Zenon DEF ToSet

\* Sanitize keeps the length of a name (mcp/naming.go:8).
LEMMA SanitizeShape ==
    ASSUME NEW name \in Names
    PROVE  Sanitize(name) \in Names /\ Len(Sanitize(name)) = Len(name)
<1>1. Len(name) \in Nat /\ DOMAIN name = 1 .. Len(name) /\ \A i \in 1 .. Len(name) : name[i] \in Characters
  BY LenProperties DEF Names
<1>2. Sanitize(name) = [i \in 1 .. Len(name) |-> IF name[i] \in {".", "/", " "} THEN "_" ELSE name[i]]
  BY <1>1 DEF Sanitize
<1>3. Sanitize(name) \in [1 .. Len(name) -> Characters]
  BY <1>1, <1>2, CatalogAssumption
<1>4. QED BY <1>1, <1>3 DEF Names

\* A name without separators is its own sanitised form.
LEMMA PlainSurvives ==
    ASSUME NEW name \in Names, Plain(name)
    PROVE  Sanitize(name) = name
<1>1. name \in [1 .. Len(name) -> Characters] /\ DOMAIN name = 1 .. Len(name)
  BY LenProperties DEF Names
<1>2. \A i \in DOMAIN name : name[i] \notin {".", "/", " "}
  BY DEF Plain
<1>3. Sanitize(name) = [i \in DOMAIN name |-> name[i]]
  BY <1>2 DEF Sanitize
<1>4. name = [i \in DOMAIN name |-> name[i]]
  BY <1>1
<1>5. QED BY <1>3, <1>4

\* What is joined by a separator u.
LEMMA JoinShape ==
    ASSUME NEW S, NEW s \in Seq(S), NEW u \in Seq(S), 1 <= Len(u), NEW t \in Seq(S)
    PROVE  /\ (s \o u) \o t \in Seq(S)
           /\ Len((s \o u) \o t) = Len(s) + Len(u) + Len(t)
           /\ \A i \in 1 .. Len(s) : ((s \o u) \o t)[i] = s[i]
           /\ ((s \o u) \o t)[Len(s) + 1] = u[1]
<1>1. PICK v, name : v = s \o u /\ name = v \o t
  OBVIOUS
<1>2. Len(s) \in Nat /\ Len(u) \in Nat \ {0} /\ Len(t) \in Nat
  BY LenProperties
<1>3. v \in Seq(S) /\ Len(v) = Len(s) + Len(u)
  BY <1>1, ConcatProperties
<1>4. \A i \in 1 .. Len(s) + Len(u) : v[i] = IF i <= Len(s) THEN s[i] ELSE u[i - Len(s)]
  <2>1. \A i \in 1 .. Len(s) + Len(u) : (s \o u)[i] = IF i <= Len(s) THEN s[i] ELSE u[i - Len(s)]
    BY ConcatProperties
  <2>2. QED BY <1>1, <2>1, Zenon
<1>5. name \in Seq(S) /\ Len(name) = Len(v) + Len(t)
  BY <1>1, <1>3, ConcatProperties
<1>6. \A i \in 1 .. Len(v) + Len(t) : name[i] = IF i <= Len(v) THEN v[i] ELSE t[i - Len(v)]
  <2>1. \A i \in 1 .. Len(v) + Len(t) : (v \o t)[i] = IF i <= Len(v) THEN v[i] ELSE t[i - Len(v)]
    BY <1>3, ConcatProperties
  <2>2. QED BY <1>1, <2>1, Zenon
<1>7. \A i \in 1 .. Len(s) + Len(u) : name[i] = v[i]
  BY <1>2, <1>3, <1>6
<1>8. \A i \in 1 .. Len(s) : name[i] = s[i]
  BY <1>2, <1>4, <1>7
<1>9. name[Len(s) + 1] = u[1]
  BY <1>2, <1>4, <1>7
<1>10. QED BY <1>1, <1>3, <1>5, <1>8, <1>9

LEMMA SingletonShape ==
    ASSUME NEW S, NEW x \in S
    PROVE  <<x>> \in Seq(S) /\ Len(<<x>>) = 1 /\ <<x>>[1] = x
OBVIOUS

LEMMA QualifiedNameShape ==
    ASSUME NEW server \in Names, NEW tool \in Names
    PROVE  /\ QualifiedName(server, tool) \in Names
           /\ Len(QualifiedName(server, tool)) = Len(server) + 1 + Len(tool)
           /\ \A i \in 1 .. Len(server) : QualifiedName(server, tool)[i] = Sanitize(server)[i]
           /\ QualifiedName(server, tool)[Len(server) + 1] = "_"
<1>1. PICK s, t : s = Sanitize(server) /\ t = Sanitize(tool)
  OBVIOUS
<1>2. s \in Seq(Characters) /\ t \in Seq(Characters) /\ Len(s) = Len(server) /\ Len(t) = Len(tool)
  BY <1>1, SanitizeShape, Zenon DEF Names
<1>3. PICK u : u = <<"_">> /\ u \in Seq(Characters) /\ Len(u) = 1 /\ u[1] = "_"
  BY CatalogAssumption, SingletonShape, Zenon
<1>4. QualifiedName(server, tool) = (s \o u) \o t
  BY <1>1, <1>3, Zenon DEF QualifiedName
<1>5. /\ (s \o u) \o t \in Seq(Characters)
      /\ Len((s \o u) \o t) = Len(s) + Len(u) + Len(t)
      /\ \A i \in 1 .. Len(s) : ((s \o u) \o t)[i] = s[i]
      /\ ((s \o u) \o t)[Len(s) + 1] = u[1]
  <2>1. s \in Seq(Characters) /\ t \in Seq(Characters)
    BY <1>2
  <2>2. u \in Seq(Characters) /\ Len(u) = 1
    BY <1>3, Zenon
  <2>3. 1 <= Len(u)
    BY <2>2
  <2>4. u \in Seq(Characters)
    BY <2>2, Zenon
  <2>5. QED BY <2>1, <2>3, <2>4, JoinShape
<1>6. QED BY <1>1, <1>2, <1>3, <1>4, <1>5, Zenon DEF Names

IsFirst(name, sep, i) == name[i] = sep /\ \A j \in DOMAIN name : name[j] = sep => i <= j

\* What stands before the first separator.
LEMMA FirstCut ==
    ASSUME NEW S, NEW sep, NEW name \in Seq(S), NEW server \in Seq(S),
           Len(server) + 1 <= Len(name),
           \A i \in 1 .. Len(server) : name[i] = server[i] /\ server[i] # sep,
           name[Len(server) + 1] = sep
    PROVE  /\ \E i \in DOMAIN name : IsFirst(name, sep, i)
           /\ \A i \in DOMAIN name : IsFirst(name, sep, i) => SubSeq(name, 1, i - 1) = server
<1>1. PICK cut \in Nat \ {0} : cut = Len(server) + 1
  BY LenProperties
<1>2. PICK len \in Nat : len = Len(name) /\ DOMAIN name = 1 .. len
  BY LenProperties
<1>3. cut \in DOMAIN name /\ name[cut] = sep
  BY <1>1, <1>2
<1>4. \A j \in DOMAIN name : name[j] = sep => cut <= j
  BY <1>1, <1>2
<1>5. \A i \in DOMAIN name : IsFirst(name, sep, i) => i = cut
  BY <1>2, <1>3, <1>4 DEF IsFirst
<1>6. \A i \in 1 .. cut - 1 : name[i] = server[i] /\ name[i] \in S
  BY <1>1
<1>7. /\ SubSeq(name, 1, cut - 1) \in Seq(S)
      /\ Len(SubSeq(name, 1, cut - 1)) = IF 1 <= cut - 1 THEN (cut - 1) - 1 + 1 ELSE 0
      /\ \A i \in 1 .. (cut - 1) - 1 + 1 : SubSeq(name, 1, cut - 1)[i] = name[1 + i - 1]
  BY <1>6, SubSeqProperties
<1>8. PICK p : p = SubSeq(name, 1, cut - 1)
  OBVIOUS
<1>9. p \in Seq(S) /\ Len(p) = Len(server)
  BY <1>1, <1>7, <1>8
<1>10. \A i \in 1 .. cut - 1 : p[i] = name[i]
  BY <1>1, <1>7, <1>8
<1>11. \A i \in 1 .. Len(p) : p[i] = server[i]
  BY <1>1, <1>6, <1>9, <1>10
<1>12. p = server
  BY <1>9, <1>11, SeqEqual
<1>13. IsFirst(name, sep, cut)
  BY <1>3, <1>4 DEF IsFirst
<1>14. QED BY <1>3, <1>5, <1>8, <1>12, <1>13

\* The route that is read back from a name is the server it was made from, when that
\* holds no separator (mcp/naming.go:42).
LEMMA RouteOfName ==
    ASSUME NEW server \in Names, NEW tool \in Names, Plain(server)
    PROVE  ServerFromQualifiedName(QualifiedName(server, tool)) = server
<1>1. PICK name, sep : name = QualifiedName(server, tool) /\ sep = "_"
  OBVIOUS
<1>2. /\ name \in Seq(Characters) /\ Len(name) = Len(server) + 1 + Len(tool)
      /\ \A i \in 1 .. Len(server) : name[i] = server[i]
      /\ name[Len(server) + 1] = sep
  <2>1. Sanitize(server) = server
    BY PlainSurvives, Zenon
  <2>2. /\ name \in Names /\ Len(name) = Len(server) + 1 + Len(tool)
        /\ \A i \in 1 .. Len(server) : name[i] = Sanitize(server)[i]
        /\ name[Len(server) + 1] = sep
    BY <1>1, QualifiedNameShape, Zenon
  <2>3. QED BY <2>1, <2>2, Zenon DEF Names
<1>3. \A i \in 1 .. Len(server) : server[i] # sep
  <2>1. DOMAIN server = 1 .. Len(server)
    BY LenProperties DEF Names
  <2>2. QED BY <1>1, <2>1, Zenon DEF Plain
<1>4. Len(server) + 1 <= Len(name)
  BY <1>2, LenProperties DEF Names
<1>5. /\ \E i \in DOMAIN name : IsFirst(name, sep, i)
      /\ \A i \in DOMAIN name : IsFirst(name, sep, i) => SubSeq(name, 1, i - 1) = server
  <2>1. server \in Seq(Characters)
    BY DEF Names
  <2>2. \A i \in 1 .. Len(server) : name[i] = server[i] /\ server[i] # sep
    BY <1>2, <1>3
  <2>3. name \in Seq(Characters) /\ name[Len(server) + 1] = sep
    BY <1>2, Zenon
  <2>4. QED BY <1>4, <2>1, <2>2, <2>3, FirstCut
<1>6. ServerFromQualifiedName(name) = server
  BY <1>1, <1>5, Zenon DEF ServerFromQualifiedName, IsFirst
<1>7. QED BY <1>1, <1>6

-----------------------------------------------------------------------------
(* The steps. *)

LEMMA ListingStarts ==
    ASSUME NEW server, NEW d, d.cursor = "", d.seen = {}, d.listed = <<>>
    PROVE  Underway(server, d)
<1>1. Visited(d) = {""} /\ Fetched(d) = {}
  BY DEF Visited, Fetched
<1>2. ToSet(d.listed) = {}
  BY EmptyShape
<1>3. ToolsOf(server, Fetched(d)) = {}
  BY <1>1 DEF ToolsOf
<1>4. Visited(d) \cap DOMAIN server.pages \subseteq Linked(server.pages)
  BY <1>1, LinkedPages
<1>5. QED BY <1>1, <1>2, <1>3, <1>4 DEF Underway

LEMMA Initially == DiscoveryInit => IndInv
<1> SUFFICES ASSUME DiscoveryInit PROVE IndInv
  OBVIOUS
<1>0. catalog \in Catalogs /\ tools = <<>> /\ routed = <<>>
  BY DEF DiscoveryInit
<1>1. Len(catalog) \in Nat
  BY <1>0, CatalogShape
<1>2. PICK pc : /\ disc = [pc |-> pc, at |-> 1, cursor |-> "", seen |-> {}, listed |-> <<>>, err |-> ""]
                /\ \/ pc = "listing" /\ 1 <= Len(catalog)
                   \/ pc = "done" /\ Len(catalog) = 0
  <2>1. CASE 1 <= Len(catalog)
    BY <2>1 DEF DiscoveryInit, Listing
  <2>2. CASE Len(catalog) = 0
    BY <2>2 DEF DiscoveryInit, Listing
  <2>3. 1 <= Len(catalog) \/ Len(catalog) = 0
    BY <1>1
  <2>4. QED BY <2>1, <2>2, <2>3, Zenon
<1>3. /\ disc.pc = pc /\ disc.at = 1 /\ disc.cursor = "" /\ disc.seen = {}
      /\ disc.listed = <<>> /\ disc.err = ""
  BY <1>2
<1>4. Types
  <2>1. "" \in Cursors /\ <<>> \in Seq(Names) /\ tools \in Seq(Tool)
    BY <1>0, CatalogAssumption, EmptyShape, Zenon
  <2>2. 1 \in 1 .. Len(catalog) + 1 /\ pc \in {"listing", "adopting", "failed", "done"}
    <3>1. 1 \in 1 .. Len(catalog) + 1
      BY <1>1
    <3>2. pc \in {"listing", "adopting", "failed", "done"}
      BY <1>2, Zenon
    <3>3. QED BY <3>1, <3>2
  <2>3. disc \in [pc : {"listing", "adopting", "failed", "done"}, at : 1 .. Len(catalog) + 1,
                  cursor : Cursors, seen : SUBSET (Cursors \ {""}), listed : Seq(Names),
                  err : {"", "list", "loop", "canceled", "duplicate"}]
    BY <1>2, <2>1, <2>2
  <2>4. disc.pc \in {"listing", "adopting"} => disc.at <= Len(catalog)
    BY <1>2, <1>3
  <2>5. disc.pc = "done" => disc.at = Len(catalog) + 1
    <3>1. disc.pc = "done" => Len(catalog) = 0
      BY <1>2, <1>3
    <3>2. disc.at = 1
      BY <1>3, Zenon
    <3>3. QED BY <3>1, <3>2
  <2>6. QED BY <1>0, <2>1, <2>3, <2>4, <2>5, Zenon DEF Types
<1>5. ListingInv
  BY <1>3, ListingStarts DEF ListingInv
<1>6. AdoptingInv
  BY <1>2, <1>3 DEF AdoptingInv
<1>7. NamedAsOffered /\ AllAdopted /\ NamesDiffer
  <2>1. DOMAIN tools = {}
    BY <1>0, EmptyShape, Zenon
  <2>2. 1 .. disc.at - 1 = {}
    <3>1. disc.at = 1
      BY <1>3, Zenon
    <3>2. QED BY <3>1
  <2>3. QED BY <2>1, <2>2 DEF NamedAsOffered, AllAdopted, NamesDiffer
<1>8. RoutedInv
  BY <1>0 DEF RoutedInv
<1>9. QED BY <1>4, <1>5, <1>6, <1>7, <1>8 DEF IndInv

\* The fields of disc, and the current server.
LEMMA DiscShape ==
    ASSUME Types
    PROVE  /\ disc.pc \in {"listing", "adopting", "failed", "done"} /\ disc.at \in 1 .. Len(catalog) + 1
           /\ disc.cursor \in Cursors /\ disc.seen \subseteq Cursors \ {""} /\ disc.listed \in Seq(Names)
           /\ disc = [pc |-> disc.pc, at |-> disc.at, cursor |-> disc.cursor, seen |-> disc.seen,
                      listed |-> disc.listed, err |-> disc.err]
           /\ disc.pc \in {"listing", "adopting"} => disc.at \in DOMAIN catalog /\ IsServer(Server)
<1>1. Len(catalog) \in Nat /\ DOMAIN catalog = 1 .. Len(catalog)
      /\ \A i \in 1 .. Len(catalog) : IsServer(catalog[i])
  BY CatalogShape DEF Types
<1>2. /\ disc.pc \in {"listing", "adopting", "failed", "done"} /\ disc.at \in 1 .. Len(catalog) + 1
      /\ disc.cursor \in Cursors /\ disc.seen \subseteq Cursors \ {""} /\ disc.listed \in Seq(Names)
      /\ disc = [pc |-> disc.pc, at |-> disc.at, cursor |-> disc.cursor, seen |-> disc.seen,
                 listed |-> disc.listed, err |-> disc.err]
  BY DEF Types
<1>3. disc.pc \in {"listing", "adopting"} => disc.at \in 1 .. Len(catalog)
  <2>1. disc.pc \in {"listing", "adopting"} => disc.at <= Len(catalog)
    BY Zenon DEF Types
  <2>2. disc.at \in 1 .. Len(catalog) + 1 /\ Len(catalog) \in Nat
    BY <1>1, <1>2, Zenon
  <2>3. QED BY <2>1, <2>2
<1>4. QED BY <1>1, <1>2, <1>3 DEF Server

\* A discovery that is refused keeps what it has, and promises nothing.
LEMMA RefusalIsSafe ==
    ASSUME IndInv, disc.pc \in {"listing", "adopting"},
           NEW err \in {"list", "loop", "canceled", "duplicate"}, Refuse(err),
           UNCHANGED <<catalog, tools, routed>>
    PROVE  IndInv'
<1>1. disc' = [disc EXCEPT !.pc = "failed", !.err = err]
  BY DEF Refuse
<1>2. disc'.pc = "failed" /\ disc'.at = disc.at
  BY <1>1, DiscShape DEF IndInv
<1>3. Types'
  BY <1>1 DEF IndInv, Types
<1>4. ListingInv' /\ AdoptingInv'
  BY <1>2 DEF ListingInv, AdoptingInv
<1>5. NamedAsOffered' /\ AllAdopted' /\ NamesDiffer'
  BY <1>2 DEF IndInv, NamedAsOffered, AllAdopted, NamesDiffer
<1>6. RoutedInv'
  BY DEF IndInv, RoutedInv
<1>7. QED BY <1>3, <1>4, <1>5, <1>6 DEF IndInv

\* Pages fetched so far, and one more.
LEMMA OnePageMore ==
    ASSUME NEW server, NEW d, IsServer(server), d.listed \in Seq(Names), Underway(server, d),
           d.cursor \in DOMAIN server.pages
    PROVE  /\ Visited(d) \subseteq DOMAIN server.pages
           /\ Visited(d) \subseteq Linked(server.pages)
           /\ d.listed \o server.pages[d.cursor].tools \in Seq(Names)
           /\ ToSet(d.listed \o server.pages[d.cursor].tools) = ToolsOf(server, Visited(d))
<1>1. Visited(d) = Fetched(d) \cup {d.cursor}
  BY DEF Underway, Fetched
<1>2. Visited(d) \subseteq DOMAIN server.pages
  BY <1>1 DEF Underway
<1>3. PICK s, t : s = d.listed /\ t = server.pages[d.cursor].tools
  OBVIOUS
<1>4. s \in Seq(Names) /\ t \in Seq(Names)
  BY <1>3 DEF IsServer
<1>5. s \o t \in Seq(Names) /\ ToSet(s \o t) = ToSet(s) \cup ToSet(t)
  BY <1>4, ToSetOfConcat, ConcatProperties
<1>6. ToolsOf(server, Visited(d)) = ToolsOf(server, Fetched(d)) \cup ToSet(t)
  BY <1>1, <1>3 DEF ToolsOf
<1>7. QED BY <1>2, <1>3, <1>5, <1>6 DEF Underway

LEMMA FetchPageStep ==
    ASSUME IndInv, FetchPage
    PROVE  IndInv'
<1>1. disc.pc = "listing" /\ UNCHANGED <<catalog, tools, routed>>
  BY DEF FetchPage
<1>2. PICK server, page : server = Server /\ page = Server.pages[disc.cursor]
  OBVIOUS
<1>3. /\ disc.at \in DOMAIN catalog /\ IsServer(server) /\ Underway(server, disc)
      /\ disc.listed \in Seq(Names) /\ disc.seen \subseteq Cursors \ {""} /\ Types
  BY <1>1, <1>2, DiscShape DEF IndInv, ListingInv
<1>4. CASE disc.cursor \notin DOMAIN server.pages
  BY <1>1, <1>2, <1>4, RefusalIsSafe DEF FetchPage
<1>5. CASE disc.cursor \in DOMAIN server.pages
  <2>1. PICK listed : listed = disc.listed \o page.tools
    OBVIOUS
  <2>2. /\ Visited(disc) \subseteq DOMAIN server.pages /\ Visited(disc) \subseteq Linked(server.pages)
        /\ listed \in Seq(Names) /\ ToSet(listed) = ToolsOf(server, Visited(disc))
    BY <1>2, <1>3, <1>5, <2>1, OnePageMore
  <2>3. page.next \in Cursors
    BY <1>2, <1>3, <1>5 DEF IsServer
  <2>4. CASE page.next = ""
    <3>1. disc' = [disc EXCEPT !.pc = "adopting", !.listed = listed]
      BY <1>2, <1>3, <1>5, <2>1, <2>4 DEF FetchPage
    <3>2. /\ disc'.pc = "adopting" /\ disc'.at = disc.at /\ disc'.listed = listed
      BY <1>3, <3>1, DiscShape
    <3>3. Types'
      BY <1>1, <1>3, <2>2, <3>1 DEF Types
    <3>4. Closed(Visited(disc), server.pages)
      <4>1. \A c \in Visited(disc) : server.pages[c].next \in Visited(disc)
        BY <1>2, <1>3, <2>4 DEF Underway, Fetched, Visited
      <4>2. QED BY <2>2, <4>1 DEF Closed, Visited
    <3>5. Visited(disc) = Linked(server.pages)
      BY <2>2, <3>4, LinkedPages
    <3>6. ToSet(listed) = Offered(server)
      BY <2>2, <3>5, Zenon DEF Offered, ToolsOf
    <3>7. AdoptingInv'
      BY <1>1, <1>2, <3>2, <3>6 DEF AdoptingInv, Server
    <3>8. ListingInv'
      BY <3>2 DEF ListingInv
    <3>9. NamedAsOffered' /\ AllAdopted' /\ NamesDiffer'
      BY <1>1, <3>2 DEF IndInv, NamedAsOffered, AllAdopted, NamesDiffer
    <3>10. RoutedInv'
      BY <1>1 DEF IndInv, RoutedInv
    <3>11. QED BY <3>3, <3>7, <3>8, <3>9, <3>10 DEF IndInv
  <2>5. CASE page.next # "" /\ page.next \in disc.seen
    BY <1>1, <1>2, <1>5, <2>5, RefusalIsSafe DEF FetchPage
  <2>6. CASE page.next # "" /\ page.next \notin disc.seen
    <3>1. disc' = [disc EXCEPT !.seen = disc.seen \cup {page.next}, !.listed = listed,
                               !.cursor = page.next]
      BY <1>2, <1>5, <2>1, <2>6 DEF FetchPage
    <3>2. /\ disc'.pc = "listing" /\ disc'.at = disc.at /\ disc'.listed = listed
          /\ disc'.cursor = page.next /\ disc'.seen = disc.seen \cup {page.next}
      BY <1>1, <1>3, <3>1, DiscShape
    <3>3. Types'
      <4>1. disc.seen \cup {page.next} \in SUBSET (Cursors \ {""})
        BY <1>3, <2>3, <2>6
      <4>2. QED BY <1>1, <1>3, <2>2, <2>3, <3>1, <4>1 DEF Types
    <3>4. Visited(disc') = Visited(disc) \cup {page.next} /\ Fetched(disc') = Visited(disc)
      BY <2>6, <3>2 DEF Visited, Fetched
    <3>5. Underway(server, disc')
      <4>1. \A c \in Visited(disc) : server.pages[c].next \in Visited(disc')
        BY <1>2, <1>3, <3>4 DEF Underway, Fetched
      <4>2. page.next \in DOMAIN server.pages => page.next \in Linked(server.pages)
        <5>1. disc.cursor \in Linked(server.pages)
          BY <1>3, <2>2 DEF Underway
        <5>2. QED BY <1>2, <5>1, LinkedPages
      <4>3. QED BY <2>2, <3>2, <3>4, <4>1, <4>2 DEF Underway
    <3>6. ListingInv'
      BY <1>1, <1>2, <3>2, <3>5 DEF ListingInv, Server
    <3>7. AdoptingInv'
      BY <3>2 DEF AdoptingInv
    <3>8. NamedAsOffered' /\ AllAdopted' /\ NamesDiffer'
      BY <1>1, <3>2 DEF IndInv, NamedAsOffered, AllAdopted, NamesDiffer
    <3>9. RoutedInv'
      BY <1>1 DEF IndInv, RoutedInv
    <3>10. QED BY <3>3, <3>6, <3>7, <3>8, <3>9 DEF IndInv
  <2>7. QED BY <2>4, <2>5, <2>6
<1>6. QED BY <1>4, <1>5

LEMMA CancelDiscoveryStep ==
    ASSUME IndInv, CancelDiscovery
    PROVE  IndInv'
BY RefusalIsSafe DEF CancelDiscovery

\* What AdoptTools adds: the tools listed, under their names.
LEMMA AdoptedShape ==
    ASSUME NEW server, server.name \in Names, NEW listed \in Seq(Names)
    PROVE  LET named == [i \in DOMAIN listed |->
                           [name   |-> QualifiedName(server.name, listed[i]),
                            server |-> server.name, remote |-> listed[i]]]
           IN  /\ named \in Seq(Tool)
               /\ DOMAIN named = DOMAIN listed
<1> DEFINE named == [i \in DOMAIN listed |->
                       [name   |-> QualifiedName(server.name, listed[i]),
                        server |-> server.name, remote |-> listed[i]]]
<1>1. PICK n \in Nat : n = Len(listed) /\ DOMAIN listed = 1 .. n /\ \A i \in 1 .. n : listed[i] \in Names
  BY LenProperties
<1>2. \A i \in 1 .. n : named[i] \in Tool
  BY <1>1, QualifiedNameShape DEF Tool
<1>3. named \in [1 .. n -> Tool]
  BY <1>1, <1>2
<1>4. named \in Seq(Tool)
  BY <1>3
<1>5. QED BY <1>4

LEMMA AdoptToolsStep ==
    ASSUME IndInv, AdoptTools
    PROVE  IndInv'
<1>1. disc.pc = "adopting" /\ UNCHANGED <<catalog, routed>>
  BY DEF AdoptTools
<1>2. PICK server, at : server = Server /\ at = disc.at
  OBVIOUS
<1>3. /\ Types /\ at \in 1 .. Len(catalog) /\ Len(catalog) \in Nat /\ DOMAIN catalog = 1 .. Len(catalog)
      /\ IsServer(server) /\ server = catalog[at] /\ disc.listed \in Seq(Names)
      /\ ToSet(disc.listed) = Offered(server) /\ tools \in Seq(Tool)
  <2>1. Types /\ ToSet(disc.listed) = Offered(server)
    BY <1>1, <1>2 DEF IndInv, AdoptingInv
  <2>2. Len(catalog) \in Nat /\ DOMAIN catalog = 1 .. Len(catalog)
    BY <2>1, CatalogShape DEF Types
  <2>3. at \in 1 .. Len(catalog) /\ IsServer(server) /\ disc.listed \in Seq(Names)
    BY <1>1, <1>2, <2>1, <2>2, DiscShape
  <2>4. QED BY <1>2, <2>1, <2>2, <2>3 DEF Types, Server
<1>4. PICK named : named = [i \in DOMAIN disc.listed |->
                              [name   |-> QualifiedName(Server.name, disc.listed[i]),
                               server |-> Server.name, remote |-> disc.listed[i]]]
  OBVIOUS
<1>5. named \in Seq(Tool) /\ DOMAIN named = DOMAIN disc.listed
  BY <1>2, <1>3, <1>4, AdoptedShape DEF IsServer
<1>6. \A i \in DOMAIN named : /\ named[i].name = QualifiedName(server.name, disc.listed[i])
                              /\ named[i].server = server.name /\ named[i].remote = disc.listed[i]
  BY <1>2, <1>4
<1>7. PICK all : all = tools \o named
  OBVIOUS
<1>8. CASE \E i, j \in DOMAIN all : i # j /\ all[i].name = all[j].name
  <2>1. Refuse("duplicate") /\ UNCHANGED tools
    BY <1>4, <1>7, <1>8, Zenon DEF AdoptTools
  <2>2. QED BY <1>1, <2>1, RefusalIsSafe
<1>9. CASE ~ \E i, j \in DOMAIN all : i # j /\ all[i].name = all[j].name
  <2>1. disc' = Listing(at + 1) /\ tools' = all
    BY <1>2, <1>4, <1>7, <1>9, Zenon DEF AdoptTools
  <2>2. PICK m \in Nat, n \in Nat : /\ DOMAIN tools = 1 .. m /\ DOMAIN named = 1 .. n
                                    /\ all \in Seq(Tool) /\ DOMAIN all = 1 .. m + n
                                    /\ \A i \in 1 .. m : all[i] = tools[i]
                                    /\ \A i \in 1 .. n : all[m + i] = named[i]
    <3>1. PICK m \in Nat, n \in Nat : /\ DOMAIN tools = 1 .. m /\ DOMAIN named = 1 .. n
                                      /\ m = Len(tools) /\ n = Len(named)
      BY <1>3, <1>5, LenProperties
    <3>2. all \in Seq(Tool) /\ Len(all) = m + n
      BY <1>3, <1>5, <1>7, <3>1, ConcatProperties
    <3>3. \A i \in 1 .. Len(tools) + Len(named) :
            (tools \o named)[i] = IF i <= Len(tools) THEN tools[i] ELSE named[i - Len(tools)]
      BY <1>3, <1>5, ConcatProperties
    <3>4. \A i \in 1 .. m + n : all[i] = IF i <= m THEN tools[i] ELSE named[i - m]
      BY <1>7, <3>1, <3>3, Zenon
    <3>5. \A i \in 1 .. m : all[i] = tools[i]
      BY <3>4
    <3>6. \A i \in 1 .. n : all[m + i] = named[i]
      BY <3>4
    <3>7. DOMAIN all = 1 .. m + n
      BY <3>2, LenProperties
    <3>8. QED BY <3>1, <3>2, <3>5, <3>6, <3>7
  <2>3. PICK pc : /\ disc' = [pc |-> pc, at |-> at + 1, cursor |-> "", seen |-> {}, listed |-> <<>>,
                              err |-> ""]
                  /\ \/ pc = "listing" /\ at + 1 <= Len(catalog)
                     \/ pc = "done" /\ at = Len(catalog)
    <3>1. CASE at + 1 <= Len(catalog)
      BY <1>1, <2>1, <3>1 DEF Listing
    <3>2. CASE at = Len(catalog)
      <4>1. ~ (at + 1 <= Len(catalog))
        BY <1>3, <3>2
      <4>2. QED BY <1>1, <2>1, <3>2, <4>1 DEF Listing
    <3>3. at + 1 <= Len(catalog) \/ at = Len(catalog)
      <4>1. at \in 1 .. Len(catalog) /\ Len(catalog) \in Nat
        BY <1>3, Zenon
      <4>2. QED BY <4>1
    <3>4. QED BY <3>1, <3>2, <3>3, Zenon
  <2>4. /\ disc'.pc = pc /\ disc'.at = at + 1 /\ disc'.cursor = "" /\ disc'.seen = {}
        /\ disc'.listed = <<>>
    BY <2>3
  <2>5. Types'
    <3>1. "" \in Cursors /\ <<>> \in Seq(Names)
      BY CatalogAssumption, EmptyShape, Zenon
    <3>2. at + 1 \in 1 .. Len(catalog) + 1
      BY <1>3
    <3>3. pc \in {"listing", "adopting", "failed", "done"}
      BY <2>3, Zenon
    <3>4. disc' \in [pc : {"listing", "adopting", "failed", "done"}, at : 1 .. Len(catalog) + 1,
                     cursor : Cursors, seen : SUBSET (Cursors \ {""}), listed : Seq(Names),
                     err : {"", "list", "loop", "canceled", "duplicate"}]
      BY <2>3, <3>1, <3>2, <3>3
    <3>5. disc'.pc \in {"listing", "adopting"} => disc'.at <= Len(catalog)
      BY <2>3, <2>4
    <3>6. disc'.pc = "done" => disc'.at = Len(catalog) + 1
      BY <2>3, <2>4
    <3>7. QED BY <1>1, <1>3, <2>1, <2>2, <3>4, <3>5, <3>6 DEF Types
  <2>6. ListingInv'
    BY <2>4, ListingStarts DEF ListingInv
  <2>7. AdoptingInv'
    BY <2>3, <2>4 DEF AdoptingInv
  <2>8. NamedAsOffered'
    <3>1. ASSUME NEW k \in 1 .. m
          PROVE  /\ all[k].name = QualifiedName(all[k].server, all[k].remote)
                 /\ \E i \in 1 .. at : /\ all[k].server = catalog[i].name
                                       /\ all[k].remote \in Offered(catalog[i])
      <4>1. k \in DOMAIN tools /\ all[k] = tools[k]
        BY <2>2
      <4>2. /\ tools[k].name = QualifiedName(tools[k].server, tools[k].remote)
            /\ \E i \in 1 .. at - 1 : /\ tools[k].server = catalog[i].name
                                       /\ tools[k].remote \in Offered(catalog[i])
        BY <1>2, <4>1, Zenon DEF IndInv, NamedAsOffered
      <4>3. 1 .. at - 1 \subseteq 1 .. at
        BY <1>3
      <4>4. QED BY <4>1, <4>2, <4>3, Zenon
    <3>2. ASSUME NEW i \in 1 .. n
          PROVE  /\ all[m + i].name = QualifiedName(all[m + i].server, all[m + i].remote)
                 /\ all[m + i].server = catalog[at].name
                 /\ all[m + i].remote \in Offered(catalog[at])
      <4>1. i \in DOMAIN named /\ all[m + i] = named[i] /\ i \in DOMAIN disc.listed
        BY <1>5, <2>2, Zenon
      <4>2. /\ named[i].name = QualifiedName(server.name, disc.listed[i])
            /\ named[i].server = server.name /\ named[i].remote = disc.listed[i]
        BY <1>6, <4>1
      <4>3. disc.listed[i] \in Offered(catalog[at])
        BY <1>3, <4>1, Zenon DEF ToSet
      <4>4. server = catalog[at]
        BY <1>3, Zenon
      <4>5. QED BY <4>1, <4>2, <4>3, <4>4, Zenon
    <3>3. ASSUME NEW k \in 1 .. m + n
          PROVE  /\ all[k].name = QualifiedName(all[k].server, all[k].remote)
                 /\ \E i \in 1 .. at : /\ all[k].server = catalog[i].name
                                       /\ all[k].remote \in Offered(catalog[i])
      <4>1. CASE k \in 1 .. m
        BY <3>1, <4>1
      <4>2. CASE k \notin 1 .. m
        <5>1. k - m \in 1 .. n /\ k = m + (k - m)
          BY <4>2
        <5>2. at \in 1 .. at
          BY <1>3
        <5>3. QED BY <3>2, <5>1, <5>2
      <4>3. QED BY <4>1, <4>2
    <3>4. disc'.at - 1 = at
      <4>1. at \in 1 .. Len(catalog) /\ Len(catalog) \in Nat /\ disc'.at = at + 1
        BY <1>3, <2>4, Zenon
      <4>2. QED BY <4>1
    <3>5. QED BY <1>1, <2>1, <2>2, <3>3, <3>4 DEF NamedAsOffered
  <2>9. AllAdopted'
    <3>1. DOMAIN all = 1 .. m + n
      BY <2>2, Zenon
    <3>2. ASSUME NEW i \in 1 .. at, NEW t \in Offered(catalog[i])
          PROVE  \E k \in DOMAIN all : all[k].server = catalog[i].name /\ all[k].remote = t
      <4>1. CASE i = at
        <5>1. PICK k \in 1 .. n : disc.listed[k] = t
          BY <1>3, <1>5, <2>2, <4>1 DEF ToSet
        <5>2. m + k \in DOMAIN all
          BY <3>1
        <5>3. QED BY <1>3, <1>6, <2>2, <4>1, <5>1, <5>2
      <4>2. CASE i # at
        <5>1. i \in 1 .. at - 1
          BY <1>3, <4>2
        <5>2. PICK k \in 1 .. m : tools[k].server = catalog[i].name /\ tools[k].remote = t
          BY <1>2, <2>2, <5>1 DEF IndInv, AllAdopted
        <5>3. k \in DOMAIN all
          BY <3>1
        <5>4. QED BY <2>2, <5>2, <5>3
      <4>3. QED BY <4>1, <4>2
    <3>3. disc'.at - 1 = at
      <4>1. at \in 1 .. Len(catalog) /\ Len(catalog) \in Nat /\ disc'.at = at + 1
        BY <1>3, <2>4, Zenon
      <4>2. QED BY <4>1
    <3>4. catalog' = catalog /\ tools' = all /\ 1 .. disc'.at - 1 = 1 .. at
      BY <1>1, <2>1, <3>3
    <3>5. QED BY <3>2, <3>4 DEF AllAdopted
  <2>10. NamesDiffer'
    BY <1>9, <2>1 DEF NamesDiffer
  <2>11. RoutedInv'
    BY <1>1 DEF IndInv, RoutedInv
  <2>12. QED BY <2>5, <2>6, <2>7, <2>8, <2>9, <2>10, <2>11 DEF IndInv
<1>10. QED BY <1>8, <1>9

LEMMA RouteToolsStep ==
    ASSUME IndInv, RouteTools
    PROVE  IndInv'
<1>1. disc.pc = "done" /\ UNCHANGED <<catalog, disc, tools>>
  BY DEF RouteTools
<1>2. Types' /\ ListingInv' /\ AdoptingInv' /\ NamedAsOffered' /\ AllAdopted' /\ NamesDiffer'
  <2>1. Types' /\ ListingInv' /\ AdoptingInv'
    BY <1>1 DEF IndInv, Types, ListingInv, AdoptingInv, Server
  <2>2. NamedAsOffered' /\ AllAdopted' /\ NamesDiffer'
    BY <1>1 DEF IndInv, NamedAsOffered, AllAdopted, NamesDiffer
  <2>3. QED BY <2>1, <2>2
<1>3. RoutedInv'
  BY <1>1 DEF RouteTools, RoutedInv
<1>4. QED BY <1>2, <1>3 DEF IndInv

-----------------------------------------------------------------------------
\* A discovery keeps its account of what it visited, listed and adopted.
THEOREM Invariance == DiscoverySpec => []IndInv
<1>1. ASSUME IndInv, [DiscoveryNext]_discoveryVars PROVE IndInv'
  <2>1. CASE UNCHANGED discoveryVars
    <3>1. UNCHANGED <<catalog, disc, tools, routed>>
      BY <2>1 DEF discoveryVars
    <3>2. Types' /\ ListingInv' /\ AdoptingInv'
      BY <1>1, <3>1 DEF IndInv, Types, ListingInv, AdoptingInv, Server
    <3>3. NamedAsOffered' /\ AllAdopted' /\ NamesDiffer' /\ RoutedInv'
      BY <1>1, <3>1 DEF IndInv, NamedAsOffered, AllAdopted, NamesDiffer, RoutedInv
    <3>4. QED BY <3>2, <3>3 DEF IndInv
  <2>2. QED BY <1>1, <2>1, FetchPageStep, CancelDiscoveryStep, AdoptToolsStep, RouteToolsStep
            DEF DiscoveryNext
<1>2. QED BY <1>1, Initially, PTL DEF DiscoverySpec

LEMMA RoutesAgree ==
    ASSUME IndInv, disc.pc = "done", \A i \in DOMAIN catalog : Plain(catalog[i].name), NEW routing
    PROVE  FilterToolSet(tools, routing) = FilterToolDefs(tools, routing)
<1>1. ASSUME NEW k \in DOMAIN tools
      PROVE  ServerFromQualifiedName(tools[k].name) = tools[k].server
  <2>1. tools[k] \in Tool /\ tools[k].name = QualifiedName(tools[k].server, tools[k].remote)
    <3>1. tools \in Seq(Tool) /\ tools[k].name = QualifiedName(tools[k].server, tools[k].remote)
      BY Zenon DEF IndInv, Types, NamedAsOffered
    <3>2. QED BY <3>1, LenProperties
  <2>2. PICK i \in 1 .. Len(catalog) : tools[k].server = catalog[i].name
    <3>1. disc.at = Len(catalog) + 1 /\ Len(catalog) \in Nat
      BY CatalogShape DEF IndInv, Types
    <3>2. disc.at - 1 = Len(catalog)
      BY <3>1
    <3>3. QED BY <3>2 DEF IndInv, NamedAsOffered
  <2>3. Plain(tools[k].server)
    BY <2>2, CatalogShape DEF IndInv, Types
  <2>4. QED BY <2>1, <2>3, RouteOfName DEF Tool
<1>2. [k \in DOMAIN tools |-> ServerFromQualifiedName(tools[k].name)]
        = [k \in DOMAIN tools |-> tools[k].server]
  BY <1>1
<1>3. QED BY <1>2, Zenon DEF FilterToolSet, FilterToolDefs

\* Discovery is faithful: whatever the servers offer, however they page it and whatever
\* their tools are called, a set that is returned has every tool once, under a name of
\* its own that leads to its server (mcp/toolset.go:79, mcp/client.go:146).
THEOREM DiscoveryIsFaithful == DiscoverySpec => []ToolSetFaithful
<1>1. ASSUME IndInv PROVE ToolSetFaithful
  <2> SUFFICES ASSUME disc.pc = "done" PROVE ToolSetFaithful
    BY DEF ToolSetFaithful
  <2>1. Len(catalog) \in Nat /\ DOMAIN catalog = 1 .. Len(catalog) /\ disc.at = Len(catalog) + 1
    BY <1>1, CatalogShape DEF IndInv, Types
  <2>2. disc.at - 1 = Len(catalog)
    BY <2>1
  <2>3. ASSUME NEW i \in DOMAIN catalog, NEW t \in Offered(catalog[i])
        PROVE  Cardinality({k \in DOMAIN tools : tools[k].server = catalog[i].name
                                                 /\ tools[k].remote = t}) = 1
    <3>1. PICK k \in DOMAIN tools : tools[k].server = catalog[i].name /\ tools[k].remote = t
      BY <1>1, <2>1, <2>2 DEF IndInv, AllAdopted
    <3>2. ASSUME NEW l \in DOMAIN tools, tools[l].server = catalog[i].name, tools[l].remote = t
          PROVE  l = k
      <4>1. tools[l].name = tools[k].name
        BY <1>1, <3>1, <3>2 DEF IndInv, NamedAsOffered
      <4>2. QED BY <1>1, <4>1 DEF IndInv, NamesDiffer
    <3>3. {l \in DOMAIN tools : tools[l].server = catalog[i].name /\ tools[l].remote = t} = {k}
      BY <3>1, <3>2
    <3>4. QED BY <3>3, FS_Singleton
  <2>4. \A k \in DOMAIN tools : \E i \in DOMAIN catalog :
          tools[k].server = catalog[i].name /\ tools[k].remote \in Offered(catalog[i])
    BY <1>1, <2>1, <2>2 DEF IndInv, NamedAsOffered
  <2>5. \A k, l \in DOMAIN tools : tools[k].name = tools[l].name => k = l
    BY <1>1 DEF IndInv, NamesDiffer
  <2>6. ASSUME routed # <<>>, \A i \in DOMAIN catalog : Plain(catalog[i].name)
        PROVE  routed[1].set = FilterToolDefs(tools, routed[1].routing)
    BY <1>1, <2>6, RoutesAgree DEF IndInv, RoutedInv
  <2>7. QED BY <2>3, <2>4, <2>5, <2>6 DEF ToolSetFaithful
<1>2. QED BY <1>1, Invariance, PTL
=============================================================================
