----------------------------- MODULE MCGroupSolve -----------------------------
(* Teams of two and three, three rounds, and up to four texts to a protocol.  *)
EXTENDS GroupSolve

MCTeams == {<<"lead", "coder">>, <<"lead", "coder", "coder">>}

\* "ab" has words of "a" and of "b", which have none in common; "ac" begins with the
\* 200 characters of "a" and goes on in many other words.
MCText(p) == CASE p = "consensus" -> {"a", "ab", "ac", "b"}
               [] p = "delegation" -> {"plan", "signal"}
               [] p = "blackboard" -> {"update", "empty", "prose"}
               [] p = "debate" -> {"prose", "signal"}
               [] OTHER -> {"prose"}
MCSimilar == {<<"a", "ab">>, <<"ab", "a">>, <<"b", "ab">>, <<"ab", "b">>}
               \cup {<<t, t>> : t \in {"a", "ab", "ac", "b", "plan", "signal", "update", "empty", "prose"}}
MCKey(t) == IF t = "ac" THEN "a" ELSE t
MCPlan(t) == IF t = "plan" THEN <<"coder", "nobody", "coder">> ELSE <<>>
MCPrice(t) == 1

=============================================================================
