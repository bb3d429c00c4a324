-------------------------- MODULE MCThreadConversation -------------------------
EXTENDS ThreadConversation

\* No call, a command, two commands, a command next to a subagent, a subagent.
MCPlans == {<<>>, <<"execute">>, <<"execute", "execute">>, <<"task">>}
=============================================================================
