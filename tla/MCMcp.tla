-------------------------------- MODULE MCMcp --------------------------------
(***************************************************************************)
(* McpClient and McpToolSet on small instances.  Discovery asks the client *)
(* for pages one at a time, so a behaviour explores either the client, or  *)
(* a discovery whose pages it returns or fails; the other stands still.    *)
(***************************************************************************)
EXTENDS McpClient, McpToolSet

\* The quiet environment and the one that does everything.
MCEnvs == {{}, {"cancel", "duplicate", "json"}}

\* Servers that answer a POST with its answer, and nothing else unusual.
JsonEnvs == {{"json"}}

Page(listed, next) == [tools |-> listed, next |-> next]

OnePage(listed) == ("" :> Page(listed, ""))

MCServer(name, pages) == [name |-> name, pages |-> pages]

\* No server at all; two servers, the first with three pages; a cursor that comes back; a
\* name that collides over two servers; a page that cannot be listed, and one that no
\* cursor leads to.
MCCatalogs ==
    {<<>>,
     <<MCServer(<<"A">>, "" :> Page(<<<<"x">>>>, "p") @@ "p" :> Page(<<<<"y", "_", "z">>>>, "q")
                         @@ "q" :> Page(<<>>, "")),
       MCServer(<<"b">>, OnePage(<<<<"x">>, <<"y">>>>))>>,
     <<MCServer(<<"a">>, "" :> Page(<<<<"x">>>>, "p") @@ "p" :> Page(<<<<"y">>>>, "p"))>>,
     <<MCServer(<<"a">>, OnePage(<<<<"b", "_", "x">>>>)),
       MCServer(<<"a", ".", "b">>, OnePage(<<<<"x">>>>))>>,
     <<MCServer(<<"a">>, "" :> Page(<<<<"x">>>>, "gone"))>>,
     <<MCServer(<<"a">>, OnePage(<<<<"x">>>>) @@ "p" :> Page(<<<<"y">>>>, ""))>>}

MCLowerCase == "A" :> "a" @@ "B" :> "b"

MCRoutings == [preferred : {{}, {<<"B">>}, {<<"c">>}}, blocked : {{}, {<<"a">>}}, fallback : BOOLEAN]

VARIABLE mode
mcVars == <<vars, discoveryVars, mode>>

FirstCatalog == catalog = CHOOSE c \in Catalogs : TRUE

\* A session: the subprocess has answered the handshake, two calls follow, and
\* their callers may leave.
SessionInit ==
    /\ kind = "stdio" /\ env \in {{}, {"cancel"}}
    /\ closed = FALSE /\ mu = "free" /\ pending = {}
    /\ chan = [r \in Requests |-> "empty"]
    /\ req = [r \in Requests |-> IF r = Handshake THEN Idle("returned", "answer")
                                  ELSE Idle("new", "none")]
    /\ asked = {Handshake}
    /\ answers = [r \in Requests |-> IF r = Handshake THEN 1 ELSE 0]
    /\ actor = [a \in Actors |-> [pc |-> "idle", todo |-> {}]]
    /\ reader = [d \in Readers |-> [pc |-> IF d = "main" THEN "reading" ELSE "none", to |-> Handshake]]
    /\ conn = [proc |-> "running", stdin |-> TRUE, cancelled |-> FALSE, attempts |-> 0, connects |-> 0]

\* From the start there is one call only.
MCInit ==
    /\ mode \in {"client", "session", "discovery"}
    /\ DiscoveryInit
    /\ mode # "discovery" => FirstCatalog
    /\ CASE mode = "client"    -> /\ kind \in {"stdio", "http"} /\ env \in Envs
                                 /\ InitFor(Requests \ {"other"})
         [] mode = "session"   -> SessionInit
         [] mode = "discovery" -> Init /\ kind = "stdio" /\ env = {}

MCNext ==
    \/ mode # "discovery" /\ Next /\ UNCHANGED <<discoveryVars, mode>>
    \/ mode = "discovery" /\ DiscoveryNext /\ UNCHANGED <<vars, mode>>

MCSpec == MCInit /\ [][MCNext]_mcVars /\ (mode # "discovery" => Fairness)
=============================================================================
