-------------------------------- MODULE MCCnf --------------------------------
(* Small instances of CnfHistory: throttles that share profiles of two chunks. *)
EXTENDS CnfHistory, TLC

CONSTANTS a, b, p1, p2, p3, p4, e1, e2

MCThrottles == {a, b}
Profile(n) == [c \in 1..Chunks |-> <<n, c>>]
MCProfiles == {Profile(n) : n \in {p1, p2, p3, p4}}
\* p1 and p2 have layout 1, p3 layout 2 and p4 layout 3.
MCLayout == [x \in MCProfiles |-> CASE x \in {Profile(p1), Profile(p2)} -> 1
                                    [] x = Profile(p3) -> 2 [] x = Profile(p4) -> 3]

\* Profiles of one layout are alike and so are the entries.
Alikes == {f @@ g : f \in Permutations({p1, p2}), g \in Permutations({e1, e2})}

Nothing == [t \in Throttles |-> 0]
One == [t \in Throttles |-> 1]
Full == [t \in Throttles |-> QueueDepth]
Two == [t \in Throttles |-> 2]

\* Both save, one is older and also loads, the newer one edits what it saves.
Newer == {[t \in Throttles |-> IF t = a THEN 2 ELSE 3]}
Sharing == [t \in Throttles |-> IF t = a THEN {"pull", "peek"} ELSE {"peek", "edit"}]

\* A throttle on its own does everything.
Alone == {[t \in Throttles |-> 1]}
All == [t \in Throttles |-> {"query", "pull", "peek", "edit"}]
=============================================================================
