--------------------------- MODULE MCUserService ----------------------------
(* A small instance of UserService.                                        *)
EXTENDS UserService, TLC
CONSTANTS c1, c2, e1, w1, w2, q1, q2, p1, p2

RegisterBody(w) == [does |-> "register", email |-> e1, password |-> w]
LoginBody(w) == [does |-> "login", email |-> e1, password |-> w]

\* A registration; and another of the same e-mail with a different password,
\* a login with either password, or a profile call about the first's user or
\* nobody.
MCSends ==
  (c1 :> {RegisterBody(w1)})
    @@ (c2 :> {RegisterBody(w2), LoginBody(w1), LoginBody(w2),
                [does |-> "profile", id |-> c1], [does |-> "profile", id |-> None]})
\* One request for each of them.
MCAsks == (q1 :> c1) @@ (q2 :> c2)
=============================================================================
