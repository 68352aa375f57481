------------------------------ MODULE MCPro31 ------------------------------
(* The run of Pro31; a number cannot be negative in a configuration. *)
EXTENDS Pro31

MCRanges == {EMPTY, 2}

ResetPeers == {u \in Users : user[u].state = "reset"}
                  \union {s \in Servers : server[s].state = "reset"}

\* Bounds.  With no Range in requests for "b" nobody asks for it, and three users
\* come, of whom the first may send what is not served.  After a reset or a
\* failed accept the third asks nothing, and after the second reset the run does
\* not go on.
MaxResets == 1
OnePage ==
    /\ rangeOf["b"] = EMPTY
    /\ user[4].state = "away" /\ user[5].state = "away"
    /\ \A u \in Users : user[u].ask \in {NoTitle, "a"} \union (IF u = 1 THEN Others ELSE {})
    /\ (ResetPeers # {} \/ \E c \in Slots : slot[c].fd = -1) => user[3].ask = NoTitle
    /\ Cardinality(ResetPeers) <= MaxResets

\* Otherwise the first user asks for "a" and stays until the index has gone round
\* the cache: the second and third user ask for "b", leave and get no answer, the
\* fourth takes the entry of the first, and the fifth finds a page or not.
\* Nobody is reset.
Reuse ==
    /\ rangeOf["b"] # EMPTY /\ rangeOf["a"] = EMPTY
    /\ ResetPeers = {} /\ \A c \in Slots : slot[c].fd # -1
    /\ \A u \in Users : user[u].ask \in {NoTitle} \union (IF u = 1 THEN {"a"} ELSE {"b"})
    /\ \A u \in {2, 3, 5} : server[Conns + u].said = 0 /\ server[Conns + u].state # "shut"
    /\ server[Conns + 4].state = "unused" =>
           user[1].state # "shut" /\ server[Conns + 1].state # "shut"
                                 /\ server[Conns + 1].said < 2
    /\ user[2].state # "away" => server[Conns + 1].state # "unused"
    /\ user[3].state # "away" => 2 \notin fds /\ accepted >= 2
    /\ user[4].state # "away" => 3 \notin fds /\ accepted >= 3
    /\ user[5].state # "away" => server[Conns + 4].state # "unused" /\ 1 \notin fds
    /\ user[5].state # "shut"

Bounded == OnePage \/ Reuse
=============================================================================
