-------------------------- MODULE MCCommandIntake --------------------------
(* Instances of CommandIntake for TLC. *)
EXTENDS CommandIntake

CONSTANTS c1, c2, k1, k2, m1, m2, e1, e2, n1

Nothing == [model |-> Absent, engine |-> Absent]
Bare(kind, key, gen) ==
    [kind |-> kind, key |-> key, svc |-> 1, gen |-> gen, name |-> Absent, mask |-> {},
     provider |-> Absent, set |-> Nothing]
Create(key, name, provider) ==
    [kind |-> "create", key |-> key, svc |-> 0, gen |-> 0, name |-> name, mask |-> Fields,
     provider |-> provider, set |-> [model |-> m1, engine |-> e1]]
Update(key, gen, mask, model, engine) ==
    [Bare("update", key, gen) EXCEPT !.mask = mask, !.set = [model |-> model, engine |-> engine]]

\* The same create twice, once with the provider written out, and the same
\* name under another key.
Creates == {Create(k1, n1, Absent), Create(k1, n1, "kserve"), Create(k2, n1, Absent)}

\* The same update twice, once with a field its mask leaves out; another one
\* for the same generation; and a later one that uses the first one's key.
Updates ==
    {Update(k1, 1, {"model"}, m2, Absent), Update(k1, 1, {"model"}, m2, e2),
     Update(k2, 1, {"engine"}, Absent, e2), Update(k1, 2, {"model"}, m1, Absent)}

\* A delete without, and with, the generation it may be accepted at.
Others ==
    {Bare("stop", k1, 1), Bare("start", k1, 2), Bare("restart", k2, 2),
     Bare("delete", k1, 0), Bare("delete", k1, 1)}

AllRequests == Creates \union Updates \union Others

CreateAndUpdate == {Create(k1, n1, Absent), Update(k1, 1, {"model"}, m2, Absent)}
=============================================================================
