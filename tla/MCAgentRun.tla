------------------------------ MODULE MCAgentRun ------------------------------
EXTENDS AgentRun
MCCalls == {<<"edit", "a">>, <<"bash", "git commit">>}
MCTokens == {1, 2}
===============================================================================
