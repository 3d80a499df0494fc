------------------------ MODULE MCWorkflowDocument ------------------------
EXTENDS WorkflowDocument, TLC

MCWords == {"", "node", "uuid", "agent", "plan"}

Typed(slug)   == [slug |-> slug, plain |-> FALSE]
Written(slug) == [slug |-> slug, plain |-> TRUE]

\* "Agent 2", which the editor gives, "plan", given by hand, and none.
MCNames == {Typed(Slug("agent", <<2>>)), Written(Slug("plan", <<>>)), Blank}

\* "Agent 2", and "Agent", given by hand.
MCClashing == {Typed(Slug("agent", <<2>>)), Typed(Slug("agent", <<>>))}

\* No name, and "Node", which is what an unnamed block is written as.
MCUnnamed == {Blank, Typed(Slug("node", <<>>))}
=============================================================================
