---------------------------- MODULE MCQueryCache ----------------------------
(***************************************************************************)
(* Small instances of QueryCache.                                          *)
(***************************************************************************)
EXTENDS QueryCache, TLC

\* "Foo" and "foo" have one key.
MCTexts == {"Foo", "foo"}
MCFolded == [t \in MCTexts |-> "foo"]
Ask(p, t, s, a, tool) ==
    [project |-> p, text |-> t, scope |-> s, auto |-> a, tool |-> tool, embedding |-> FALSE]
CONSTANTS p1, p2, docs, manual

\* An alias names "Docs", and only in this spelling.
MCScopes == {"Docs", "docs"}
MCFoldedScope == [s \in MCScopes |-> "docs"]
MCPrefixOf == [s \in MCScopes |-> IF s = "Docs" THEN manual ELSE docs]

\* Two spellings of a question, one in a scope and again in another spelling of
\* the scope, one to another project, one to the tool that does not use the
\* cache, one with an embedding.
MCRequests ==
    {Ask(p1, "Foo", NoScope, TRUE, "rag_context"), Ask(p1, "foo", "docs", TRUE, "rag_context"),
     Ask(p1, "foo", "Docs", TRUE, "rag_context"),
     Ask(p2, "foo", NoScope, TRUE, "rag_context"), Ask(p1, "foo", NoScope, TRUE, "rag_search"),
     [Ask(p1, "foo", NoScope, FALSE, "rag_context") EXCEPT !.embedding = TRUE]}

\* Time passes, and the index changes, while one question is asked again and
\* again.
OneQuestion == {Ask(p1, "Foo", NoScope, TRUE, "rag_context")}
Asked == {Req(t) : t \in Threads} \cup {cache[k].payload.req : k \in Stored}
Interesting == now + version > 0 => Asked \subseteq OneQuestion /\ registered = {p1}

Symmetry == Permutations(Threads)
=============================================================================
