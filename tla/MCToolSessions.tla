--------------------------- MODULE MCToolSessions ---------------------------
(* An instance of ToolSessions for TLC. *)
EXTENDS ToolSessions

MCTexts == {<<>>, <<"intro", "details">>, <<"intro", "section">>,
            <<"intro", "marker">>}
MCOptions == {{"labels", "push"}, {"markers", "labels"}}

\* The commands are alike, and are given in the order of their numbers.
InOrder == \A t, u \in Tasks : t < u /\ pc'[u] # "idle" => pc'[t] # "idle"

MCSpec == Init /\ [][Next /\ InOrder]_vars
=============================================================================
