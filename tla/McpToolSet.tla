----------------------------- MODULE McpToolSet ------------------------------
(***************************************************************************)
(* mcp: discovery of the tools of several servers (ToolSetFromClients and  *)
(* ListAllTools), their qualified names (mcp/naming.go) and the routing    *)
(* filters (mcp/routing.go).                                               *)
(*                                                                         *)
(* A name is a sequence of characters, because names collide through the   *)
(* characters that Sanitize replaces.  A catalog gives each server, by     *)
(* cursor, the pages of its tools/list; "" is the first and the last       *)
(* cursor.  A page that a catalog leaves out is one the server fails to    *)
(* return.                                                                 *)
(***************************************************************************)
EXTENDS Integers, FiniteSets, SequencesExt

CONSTANTS
  Characters,  \* of which names are made
  LowerCase,   \* what strings.ToLower makes of the characters it changes
  Cursors,     \* of tools/list
  Catalogs,    \* sequences of servers [name, pages], in the order of their names
  Routings     \* routing policies: [preferred, blocked, fallback]

Names == Seq(Characters)

IsServer(server) ==
    /\ server.name \in Names
    /\ \A c \in DOMAIN server.pages : /\ server.pages[c].tools \in Seq(Names)
                                      /\ server.pages[c].next \in Cursors

ASSUME CatalogAssumption ==
    /\ "_" \in Characters /\ "" \in Cursors
    /\ \A servers \in Catalogs : /\ servers \in Seq(ToSet(servers))
                                /\ \A i \in DOMAIN servers : IsServer(servers[i])

VARIABLES
  catalog,   \* the servers of this discovery
  disc,      \* [pc, at, cursor, seen, listed, err]: ToolSetFromClientsContext
  tools,     \* the tools adopted so far: [name, server, remote], in order
  routed     \* the filtered set and its policy, or <<>>

discoveryVars == <<catalog, disc, tools, routed>>

-----------------------------------------------------------------------------
(* Names. *)

\* Sanitize: a character other than a letter, a digit, "_" and "-" becomes "_".
Sanitize(name) == [i \in DOMAIN name |-> IF name[i] \in {".", "/", " "} THEN "_" ELSE name[i]]

QualifiedName(server, tool) == Sanitize(server) \o <<"_">> \o Sanitize(tool)

\* ServerFromQualifiedName: what stands before the first "_", if anything does.
ServerFromQualifiedName(name) ==
    LET cuts == {i \in DOMAIN name : name[i] = "_"}
    IN  IF cuts = {} THEN <<>>
        ELSE SubSeq(name, 1, (CHOOSE i \in cuts : \A j \in cuts : i <= j) - 1)

ToLower(name) ==
    [i \in DOMAIN name |-> IF name[i] \in DOMAIN LowerCase THEN LowerCase[name[i]] ELSE name[i]]

\* makeSet
LowerSet(names) == {ToLower(name) : name \in names}

\* The tools, by index, that a policy keeps when server[k] is where tool k comes from:
\* blocked servers go first, then preference, with everything left as the fallback.
\* Case makes no difference, and the order of the tools stays.
FilterBy(server, routing) ==
    LET unblocked == {k \in DOMAIN server : ToLower(server[k]) \notin LowerSet(routing.blocked)}
        result    == {k \in unblocked : ToLower(server[k]) \in LowerSet(routing.preferred)}
    IN  IF routing.preferred = {} \/ (result = {} /\ routing.fallback) THEN unblocked ELSE result

FilterToolSet(set, routing) ==
    FilterBy([k \in DOMAIN set |-> ServerFromQualifiedName(set[k].name)], routing)

FilterToolDefs(set, routing) == FilterBy([k \in DOMAIN set |-> set[k].server], routing)

-----------------------------------------------------------------------------
(* Discovery. *)

\* The turn of the loop for one server, or its end.
Listing(at) == [pc |-> IF at <= Len(catalog) THEN "listing" ELSE "done", at |-> at,
                cursor |-> "", seen |-> {}, listed |-> <<>>, err |-> ""]

DiscoveryInit ==
    /\ catalog \in Catalogs
    /\ disc = Listing(1)
    /\ tools = <<>> /\ routed = <<>>

Server == catalog[disc.at]

Refuse(err) == disc' = [disc EXCEPT !.pc = "failed", !.err = err]

\* Mutant: a page replaces the ones before it.
FetchPageForgetting ==
    /\ disc.pc = "listing"
    /\ IF disc.cursor \notin DOMAIN Server.pages
       THEN Refuse("list")
       ELSE LET page == Server.pages[disc.cursor]
            IN  CASE page.next = "" -> disc' = [disc EXCEPT !.pc = "adopting", !.listed = page.tools]
                  [] page.next \in disc.seen -> Refuse("loop")
                  [] OTHER -> disc' = [disc EXCEPT !.seen = @ \cup {page.next},
                                                   !.listed = page.tools, !.cursor = page.next]
    /\ UNCHANGED <<catalog, tools, routed>>

\* One turn of ListAllTools; a cursor that comes back is refused.
FetchPage ==
    /\ disc.pc = "listing"
    /\ IF disc.cursor \notin DOMAIN Server.pages
       THEN Refuse("list")
       ELSE LET page   == Server.pages[disc.cursor]
                listed == disc.listed \o page.tools
            IN  CASE page.next = "" -> disc' = [disc EXCEPT !.pc = "adopting", !.listed = listed]
                  [] page.next \in disc.seen -> Refuse("loop")
                  [] OTHER -> disc' = [disc EXCEPT !.seen = @ \cup {page.next}, !.listed = listed,
                                                   !.cursor = page.next]
    /\ UNCHANGED <<catalog, tools, routed>>

\* The caller's context ends between two pages.
CancelDiscovery ==
    /\ disc.pc = "listing"
    /\ Refuse("canceled")
    /\ UNCHANGED <<catalog, tools, routed>>

\* The tools of one server get their names; one that is taken fails the discovery.
\* NewDynamicResult fails for a missing handler only, and NewSet for a name that is
\* empty or taken: neither can happen here.
AdoptTools ==
    LET named == [i \in DOMAIN disc.listed |->
                    [name   |-> QualifiedName(Server.name, disc.listed[i]),
                     server |-> Server.name, remote |-> disc.listed[i]]]
        all   == tools \o named
        clash == \E i, j \in DOMAIN all : i # j /\ all[i].name = all[j].name
    IN  /\ disc.pc = "adopting"
        /\ IF clash THEN Refuse("duplicate") /\ UNCHANGED tools
                    ELSE disc' = Listing(disc.at + 1) /\ tools' = all
        /\ UNCHANGED <<catalog, routed>>

\* A run narrows the set by a policy.
RouteTools ==
    /\ disc.pc = "done" /\ routed = <<>>
    /\ \E routing \in Routings :
         routed' = <<[routing |-> routing, set |-> FilterToolSet(tools, routing)]>>
    /\ UNCHANGED <<catalog, disc, tools>>

DiscoveryNext == FetchPage \/ CancelDiscovery \/ AdoptTools \/ RouteTools

DiscoverySpec == DiscoveryInit /\ [][DiscoveryNext]_discoveryVars

-----------------------------------------------------------------------------
(* Properties. *)

\* Cursors that hold the first page and, with a page, the next one.
Closed(cursors, pages) ==
    /\ cursors \subseteq DOMAIN pages /\ "" \in cursors
    /\ \A c \in cursors : pages[c].next \in DOMAIN pages => pages[c].next \in cursors

\* The pages that a server's own cursors lead to.
Linked(pages) ==
    {c \in DOMAIN pages : \A cursors \in SUBSET DOMAIN pages : Closed(cursors, pages) => c \in cursors}

\* The tools of all pages of a server.
Offered(server) == UNION {ToSet(server.pages[c].tools) : c \in Linked(server.pages)}

\* A name without separators survives qualification.
Plain(name) == \A i \in DOMAIN name : name[i] \notin {"_", ".", "/", " "}

\* A discovery that succeeds gives every tool of every server exactly one entry and
\* nothing else, no two tools the same canonical name, and a policy then selects by
\* that name what it would select by the server itself, as long as the servers' names
\* hold no separator (mcp/toolset.go:67, mcp/routing.go:69).
ToolSetFaithful ==
    disc.pc = "done" =>
        /\ \A i \in DOMAIN catalog : \A t \in Offered(catalog[i]) :
             Cardinality({k \in DOMAIN tools : tools[k].server = catalog[i].name
                                               /\ tools[k].remote = t}) = 1
        /\ \A k \in DOMAIN tools : \E i \in DOMAIN catalog :
             tools[k].server = catalog[i].name /\ tools[k].remote \in Offered(catalog[i])
        /\ \A k, l \in DOMAIN tools : tools[k].name = tools[l].name => k = l
        /\ routed # <<>> /\ (\A i \in DOMAIN catalog : Plain(catalog[i].name)) =>
             routed[1].set = FilterToolDefs(tools, routed[1].routing)
=============================================================================
