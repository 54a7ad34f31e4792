---------------------------- MODULE MCStatePool ----------------------------
(***************************************************************************)
(* Instances of StatePool for TLC: the states s1 and, on top of it, s2 of  *)
(* one image, a builder p1 and a user p2 with a pool of their own each,    *)
(* and one or two more pools.                                              *)
(***************************************************************************)
EXTENDS StatePool

CONSTANTS p1, p2, s1, s2, c1, c2, pool, mirror

OnTop == [s \in State |-> IF s = s2 THEN s1 ELSE NoState]

OwnPools == [p \in Process |-> IF p = p1 THEN c1 ELSE c2]

OneGateway == [d \in Place |-> "gateway"]
MirrorApart == [d \in Place |-> IF d = mirror THEN "h2" ELSE "h1"]
Paths == [d \in Place |-> CASE d = pool -> "/shared" [] d = mirror -> "/mirror" [] OTHER -> "/own"]

Local(d) == [place |-> d, remote |-> FALSE]
Remote(d) == [place |-> d, remote |-> TRUE]

Do(kind, s, location, scopes, mode) ==
  [kind |-> kind, state |-> s, location |-> location, scopes |-> scopes, mode |-> mode,
   after |-> <<>>]

Pop(s, location, scopes, mode, after) ==
  [Do("get", s, location, scopes, mode) EXCEPT !.after = after]

OnePool == <<Local(pool)>>
TwoPools == <<Remote(mirror), Local(pool)>>
Both == {"own", "shared"}
All == {"own", "shared", "swarm"}

\* p1 builds s1 and s2 once, p2 uses and removes them.
SharePlan == [p \in Process |->
  IF p = p1
  THEN {Do("set", s, OnePool, Both, <<"r", "f">>) : s \in State}
         \union {Do("get", s1, OnePool, Both, <<"r", "a">>)}
         \union {Do("set", s2, OnePool, {"shared"}, <<"r", "f">>)}
  ELSE {Do("get", s, OnePool, Both, <<"r", "a">>) : s \in State}
         \union {Do("unset", s2, OnePool, {"shared"}, <<"f", "i">>)}
         \union {Pop(s2, OnePool, Both, <<"r", "a">>, <<"f", "a">>)}]

\* p1 builds s1 and s2, perhaps again and after it was killed, on two mirrors.
MirrorPlan == [p \in Process |->
  IF p = p1
  THEN {Do("set", s, TwoPools, All, <<"f", "f">>) : s \in State}
         \union {Do("get", s1, TwoPools, All, <<"r", "a">>)}
  ELSE {Do("get", s2, TwoPools, All, <<"r", "i">>)}]

\* The instances meet the conditions of the theorems about their properties.
ASSUME ConditionsMet ==
  /\ Plan = SharePlan => Isolated /\ BuiltOnce
  /\ Plan = MirrorPlan => SoleWriters

=============================================================================
