---------------------------- MODULE MCManagedFlow ----------------------------
(* Goals with every field stated or not, at and past the edges of their    *)
(* caps; pools that are silent, stale, thin and deep.  One USDC is ten     *)
(* base units.                                                             *)
EXTENDS ManagedFlow

Unit == {"usdc", "token", "pool", "npm", "mint"}
MCCanonical == [s \in Unit |-> s]
MCNormPool  == [p \in {"pool", "other"} |-> p]

W(w) == [word |-> w, n |-> 0]
N(w, n) == [word |-> w, n |-> n]

Amounts   == {<<>>} \cup {<<N("dollars", n)>> : n \in {0, 9, 5000}}
Reserves  == {<<>>} \cup
             {<<N("percent", n), W("reserve")>> : n \in {0, 6000, 9500}}
Positions == {<<>>} \cup
             {<<N("percent", n), W("limit")>> : n \in {500, 4000, 10100}}
Avoids    == {<<>>, <<W("avoid"), W("new")>>}
Asks      == {<<>>, <<W("ask"), W("me")>>}

(* "reserve 30%, limit 5%" reads the limit as 30%; "2 $500" as two USDC.   *)
Misread ==
  {<<W(m), N("usdcs", 5000), W("reserve"), N("percent", r), W("limit"),
     N("percent", 500)>> : m \in {"custom", "weth"}, r \in {3000, 6000}}
  \cup {<<N("number", 9), N("dollars", 5000), W("exclude"), W("new"),
           W("before"), W("swap")>>}

MCGoals ==
  {<<W(m)>> \o u \o r \o p \o v \o k :
     m \in {"calm", "aggressive"}, u \in Amounts, r \in Reserves,
     p \in Positions, v \in Avoids, k \in Asks}
  \cup Misread

MCObservedFees == {-1, 0, 7, 8, 9, 200}
MCPoolAges == {-1, 49, 50}

Event(p, t, l, v) == [key |-> t, pool |-> p, chain |-> "arc", block |-> t,
                      time |-> t, liquidity |-> l, volume |-> v, fees |-> 3]
MCLogs == {<<>>,
           <<Event("other", 98, 2000, 20000)>>,
           <<Event("pool", 90, 3000, 20000)>>,
           <<Event("pool", 60, 1500, 9000), Event("pool", 95, -600, 1500)>>,
           <<Event("pool", 60, 1500, 9000), Event("pool", 96, 500, 1000)>>}
=============================================================================
