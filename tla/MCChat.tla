------------------------------- MODULE MCChat -------------------------------
EXTENDS Chat
MCChunks == {<<"<">>, <<"t", " ">>, <<"a", " ", "<">>, <<"/", "n">>}
MCSnapshots == {<<1>>, <<1, 2, 1>>, <<2, 1>>}
MCViews == {"sessions", "turn", "stream"}
=============================================================================
