----------------------------- MODULE MCIssueIndex -----------------------------
(* An instance of IssueIndex for TLC. *)
EXTENDS IssueIndex

MCKinds == {[what |-> "issue", comments |-> 1], [what |-> "long", comments |-> 0],
            [what |-> "pull", comments |-> 0]}

\* The commands are given in the order of their numbers, at most two at a time.
InOrder ==
  /\ \A c, d \in Commands : c < d /\ pc'[d] # "idle" => pc'[c] # "idle"
  /\ Cardinality({c \in Commands : pc'[c] \notin Ended \cup {"idle"}}) <= 2

\* The first command is of the first repository, which loses nothing as the
\* repositories are alike.
FirstRepo == CHOOSE r \in Repos : TRUE
MCSpec == Init /\ asked[1].repo = FirstRepo /\ [][Next /\ InOrder]_vars
===============================================================================
