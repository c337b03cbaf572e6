------------------------ MODULE MCSessionProjections ------------------------
EXTENDS SessionProjections

\* Request 2 has been archived under a transient session, 3 under its thread's;
\* 1, the first of the thread to start, is still to come, and so is 4, which has
\* a Session-Id header and no thread id.
MCRequests == 1..4
MCLegacy == {2, 3}
MCArchived == [r \in MCLegacy |-> IF r = 2 THEN "execution" ELSE "thread"]
MCThreadId == [r \in MCRequests |-> IF r = 4 THEN None ELSE "thread"]
MCSessionHeader == [r \in MCRequests |-> IF r = 4 THEN "thread" ELSE None]
MCFallback == [r \in MCRequests |-> "execution"]
MCStable == [s \in {"thread", "execution"} |-> s]
MCCred == [r \in MCRequests |-> IF r = 3 THEN "k2" ELSE "k1"]
MCGiven == [r \in MCRequests |-> IF r = 4 THEN "p" ELSE None]
MCCommand == [r \in MCRequests |-> CASE r = 3 -> None [] r = 4 -> "c2" [] OTHER -> "c1"]
MCTurnOf == [r \in MCRequests |-> CASE r = 1 -> None [] r = 4 -> "t2" [] OTHER -> "t1"]
MCMappings == {<<"k1", "p">>, <<"k2", "q">>}
=============================================================================
