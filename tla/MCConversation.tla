--------------------------- MODULE MCConversation ---------------------------
EXTENDS Conversation, TLC

CONSTANTS fixer, reviewer, lint, tests, coder, nobody

\* The fixer goes on with the coder's conversation, the reviewer with the
\* fixer's, nothing handles a failure of lint, and the tests end the loop.
MCMembers  == {fixer, lint, reviewer, tests}
MCBody     == <<fixer, lint, reviewer, tests>>
MCCommands == {lint, tests}
MCFrom     == fixer :> coder @@ reviewer :> fixer @@ lint :> nobody @@ tests :> nobody
MCPrices   == {1, 2}
=============================================================================
