---------------------------- MODULE MCAccessKeys ----------------------------
(* Instances of AccessKeys for TLC. *)
EXTENDS AccessKeys, TLC

CONSTANTS k1, p1, m1, s1, c1, c2, i1, i2

OwnedS1 == {s1}
ServesOne == [s \in {s1} |-> m1]

\* A "second" is one tick and a "minute" two.
SecondMinute == {1, 2}

LimitSecond == {1 :> 1}
\* One policy limits both windows, the other only the second.
LimitTwo == {1 :> 1 @@ 2 :> 2, 1 :> 2 @@ 2 :> 0}

SymClients == Permutations({c1, c2})
=============================================================================
