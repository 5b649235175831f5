------------------------- MODULE GatewayRecallProofs -------------------------
(***************************************************************************)
(* Where the money of every recall is, that COMPLETE is paid, and that a   *)
(* recall alone never reverts, for any number of recalls and any amounts.  *)
(***************************************************************************)
EXTENDS GatewayRecall, FiniteSetTheorems, FunctionTheorems, WellFoundedInduction, TLAPS

-----------------------------------------------------------------------------
(* Sums.  Total is the fold of a set in some order; it is shown to count   *)
(* units, of which each recall has its amount, so the order is none.       *)
LEMMA Amounts ==
  /\ IsFiniteSet(Recalls) /\ Vault0 \in Nat /\ Source0 \in Nat
  /\ \A r \in Recalls : Amount[r] \in Nat /\ Amount[r] > 0
BY GatewayAssumption

Of(r) == {r} \X (1..Amount[r])
Units(set) == UNION {Of(r) : r \in set}
One(set) == CHOOSE r \in set : TRUE

LEMMA UnitsOfOne ==
  ASSUME NEW r \in Recalls
  PROVE  IsFiniteSet(Of(r)) /\ Cardinality(Of(r)) = Amount[r]
<1>1. IsFiniteSet({r}) /\ Cardinality({r}) = 1
  BY FS_Singleton
<1>2. Amount[r] \in Nat /\ Amount[r] > 0
  BY Amounts
<1>3. IsFiniteSet(1..Amount[r]) /\ Cardinality(1..Amount[r]) = Amount[r]
  <2>1. /\ IsFiniteSet(1..Amount[r])
        /\ Cardinality(1..Amount[r]) = IF 1 > Amount[r] THEN 0 ELSE Amount[r] - 1 + 1
    BY <1>2, FS_Interval
  <2> QED BY <1>2, <2>1
<1>4. /\ IsFiniteSet({r} \X (1..Amount[r]))
      /\ Cardinality({r} \X (1..Amount[r])) = 1 * Amount[r]
  BY <1>1, <1>3, FS_Product
<1> QED BY <1>2, <1>4 DEF Of

LEMMA UnitsFinite ==
  ASSUME NEW set \in SUBSET Recalls
  PROVE  IsFiniteSet(Units(set)) /\ Cardinality(Units(set)) \in Nat
<1>1. IsFiniteSet(set)
  BY Amounts, FS_Subset
<1>2. IsFiniteSet({Of(r) : r \in set})
  <2> DEFINE T == {Of(r) : r \in set}
             f == [r \in set |-> Of(r)]
  <2>1. f \in Surjection(set, T)
    BY DEF Surjection
  <2> HIDE DEF T, f
  <2>2. IsFiniteSet(T)
    BY <1>1, <2>1, FS_Surjection
  <2> QED BY <2>2 DEF T
<1>3. \A T \in {Of(r) : r \in set} : IsFiniteSet(T)
  BY UnitsOfOne
<1> QED BY <1>2, <1>3, FS_UNION, FS_CardinalityType DEF Units

LEMMA UnitsAdd ==
  ASSUME NEW set \in SUBSET Recalls, NEW r \in Recalls, r \notin set
  PROVE  Cardinality(Units(set \cup {r})) = Amount[r] + Cardinality(Units(set))
<1>1. Units(set \cup {r}) = Units(set) \cup Of(r)
  BY DEF Units
<1>2. Units(set) \cap Of(r) = {}
  BY DEF Units, Of
<1>3. Cardinality(Units(set) \cap Of(r)) = 0
  BY <1>2, FS_EmptySet
<1>4. /\ Cardinality(Units(set \cup {r})) =
           Cardinality(Units(set)) + Cardinality(Of(r)) - Cardinality(Units(set) \cap Of(r))
  BY <1>1, UnitsFinite, UnitsOfOne, FS_Union
<1> QED BY <1>3, <1>4, UnitsFinite, UnitsOfOne, Amounts

(* What the fold iterates, and that its equation has the one solution.     *)
Summed(f, set) ==
  f = [s \in SUBSET set |-> IF s = {} THEN 0 ELSE Amount[One(s)] + f[s \ {One(s)}]]

LEMMA TotalIsSummed ==
  ASSUME NEW set
  PROVE  Total(set) = (CHOOSE f : Summed(f, set))[set]
BY DEF Total, FoldSet, MapThenFoldSet, Summed, One

LEMMA UnitsAreSummed ==
  ASSUME NEW set \in SUBSET Recalls
  PROVE  Summed([s \in SUBSET set |-> Cardinality(Units(s))], set)
<1> DEFINE f == [s \in SUBSET set |-> Cardinality(Units(s))]
<1>1. ASSUME NEW s \in SUBSET set
      PROVE  f[s] = IF s = {} THEN 0 ELSE Amount[One(s)] + f[s \ {One(s)}]
  <2>1. CASE s = {}
    <3>1. Units({}) = {}
      BY DEF Units
    <3> QED BY <2>1, <3>1, FS_EmptySet
  <2>2. CASE s # {}
    <3>1. One(s) \in s
      BY <2>2 DEF One
    <3> DEFINE rest == s \ {One(s)}
    <3>2. /\ rest \in SUBSET set /\ One(s) \in Recalls /\ One(s) \notin rest
          /\ rest \in SUBSET Recalls /\ rest \cup {One(s)} = s
      BY <3>1
    <3> HIDE DEF rest
    <3>3. Cardinality(Units(s)) = Amount[One(s)] + Cardinality(Units(rest))
      BY <3>2, UnitsAdd
    <3>4. f[rest] = Cardinality(Units(rest)) /\ f[s] = Cardinality(Units(s))
      BY <3>2
    <3> HIDE DEF f
    <3> QED BY <2>2, <3>3, <3>4 DEF rest
  <2> QED BY <2>1, <2>2
<1>2. DOMAIN f = SUBSET set
  OBVIOUS
<1>3. f = [s \in SUBSET set |-> f[s]]
  OBVIOUS
<1> HIDE DEF f
<1>4. [s \in SUBSET set |-> f[s]] =
        [s \in SUBSET set |-> IF s = {} THEN 0 ELSE Amount[One(s)] + f[s \ {One(s)}]]
  BY <1>1
<1>5. Summed(f, set)
  BY <1>3, <1>4 DEF Summed
<1> QED BY <1>5 DEF f

LEMMA SummedAgree ==
  ASSUME NEW set, IsFiniteSet(set), NEW f, NEW g, Summed(f, set), Summed(g, set)
  PROVE  f[set] = g[set]
<1> DEFINE Bad == {s \in FiniteSubsetsOf(set) : f[s] # g[s]}
<1>1. \A s \in SUBSET set :
        /\ f[s] = IF s = {} THEN 0 ELSE Amount[One(s)] + f[s \ {One(s)}]
        /\ g[s] = IF s = {} THEN 0 ELSE Amount[One(s)] + g[s \ {One(s)}]
  BY DEF Summed
<1>2. ASSUME Bad # {} PROVE FALSE
  <2>1. IsWellFoundedOn(StrictSubsetOrdering(set), FiniteSubsetsOf(set))
    BY FS_StrictSubsetOrderingWellFounded
  <2>2. PICK s \in Bad : \A t \in Bad : <<t, s>> \notin StrictSubsetOrdering(set)
    <3>1. Bad \subseteq FiniteSubsetsOf(set)
      OBVIOUS
    <3> HIDE DEF Bad
    <3> QED BY <1>2, <2>1, <3>1, WFMin
  <2>3. s \in SUBSET set /\ IsFiniteSet(s) /\ f[s] # g[s]
    BY <2>2 DEF FiniteSubsetsOf
  <2>4. s # {}
    BY <1>1, <2>3
  <2> DEFINE rest == s \ {One(s)}
  <2>5. One(s) \in s
    BY <2>4 DEF One
  <2>6. rest \in SUBSET set /\ IsFiniteSet(rest) /\ rest \subseteq s /\ rest # s
    BY <2>3, <2>5, FS_Subset
  <2>7. <<rest, s>> \in StrictSubsetOrdering(set)
    BY <2>3, <2>6 DEF StrictSubsetOrdering
  <2>8. f[rest] = g[rest]
    BY <2>2, <2>6, <2>7 DEF FiniteSubsetsOf
  <2> QED BY <1>1, <2>3, <2>4, <2>8
<1>3. set \in FiniteSubsetsOf(set)
  BY DEF FiniteSubsetsOf
<1> QED BY <1>2, <1>3

LEMMA TotalIsUnits ==
  ASSUME NEW set \in SUBSET Recalls
  PROVE  Total(set) = Cardinality(Units(set))
<1> DEFINE g == [s \in SUBSET set |-> Cardinality(Units(s))]
           f == CHOOSE h : Summed(h, set)
<1>1. Summed(g, set)
  BY UnitsAreSummed
<1>2. g[set] = Cardinality(Units(set))
  OBVIOUS
<1> HIDE DEF g
<1>3. Summed(f, set)
  BY <1>1
<1>4. IsFiniteSet(set)
  BY Amounts, FS_Subset
<1>5. Total(set) = f[set]
  BY TotalIsSummed
<1> HIDE DEF f
<1> QED BY <1>1, <1>2, <1>3, <1>4, <1>5, SummedAgree

LEMMA TotalEmpty == Total({}) = 0
<1>1. Units({}) = {} /\ {} \in SUBSET Recalls
  BY DEF Units
<1> QED BY <1>1, TotalIsUnits, FS_EmptySet

LEMMA TotalNat ==
  ASSUME NEW set \in SUBSET Recalls
  PROVE  Total(set) \in Nat
BY TotalIsUnits, UnitsFinite

LEMMA TotalAdd ==
  ASSUME NEW set \in SUBSET Recalls, NEW r \in Recalls, r \notin set
  PROVE  Total(set \cup {r}) = Total(set) + Amount[r]
<1>1. set \cup {r} \in SUBSET Recalls
  OBVIOUS
<1>2. Total(set) \in Nat /\ Amount[r] \in Nat
  BY TotalNat, Amounts
<1>3. /\ Total(set \cup {r}) = Cardinality(Units(set \cup {r}))
      /\ Total(set) = Cardinality(Units(set))
  BY <1>1, TotalIsUnits
<1>4. Cardinality(Units(set \cup {r})) = Amount[r] + Cardinality(Units(set))
  BY UnitsAdd
<1> QED BY <1>2, <1>3, <1>4

LEMMA TotalRemove ==
  ASSUME NEW set \in SUBSET Recalls, NEW r \in set
  PROVE  Total(set \ {r}) = Total(set) - Amount[r] /\ Amount[r] <= Total(set)
<1> DEFINE rest == set \ {r}
<1>1. rest \in SUBSET Recalls /\ r \in Recalls /\ r \notin rest /\ rest \cup {r} = set
  OBVIOUS
<1> HIDE DEF rest
<1>2. Total(set) = Total(rest) + Amount[r]
  BY <1>1, TotalAdd
<1>3. Total(rest) \in Nat /\ Amount[r] \in Nat
  BY <1>1, TotalNat, Amounts
<1>4. Total(rest) = Total(set) - Amount[r] /\ Amount[r] <= Total(set)
  BY <1>2, <1>3
<1> QED BY <1>4 DEF rest

-----------------------------------------------------------------------------
(* The invariant.                                                          *)
Chains == {"source", "destination"}
Places == TxSteps \cup {"idle", "sign", "attest", "complete", "failed"}

Typed ==
  /\ fate \in [Txs -> Adapter!Fates] /\ told \in [Txs -> Adapter!Tellings]
  /\ vault \in Nat /\ source \in Nat /\ allowance \in Nat /\ gateway \in Nat
  /\ destination \in Nat /\ charged \in Nat
  /\ attestation \in [Recalls -> {"none", "held", "used"}]
  /\ queue \in [Chains -> Seq(Txs)]
  /\ pc \in [Recalls -> Places] /\ disturbed \in [Recalls -> BOOLEAN]

(* What is queued is pending, on its own chain, once.                      *)
Queued ==
  \A chain \in Chains : \A i \in DOMAIN queue[chain] :
    /\ fate[queue[chain][i]] = "pending" /\ ChainOf(queue[chain][i][2]) = chain
    /\ \A j \in DOMAIN queue[chain] : queue[chain][i] = queue[chain][j] => i = j

(* The places that come after a step: the step has been told complete.     *)
Later(step) ==
  CASE step = "withdraw" -> {"approve", "deposit", "sign", "attest", "mint", "complete"}
    [] step = "approve"  -> {"deposit", "sign", "attest", "mint", "complete"}
    [] step = "deposit"  -> {"sign", "attest", "mint", "complete"}
    [] step = "mint"     -> {"complete"}

(* What a recall has behind it, wherever it is or was given up.            *)
Passed(r, step) ==
  /\ told[<<r, step>>] = "complete" => fate[<<r, step>>] = "landed"
  /\ told[<<r, step>>] = "terminated" => fate[<<r, step>>] = "failed"
  /\ pc[r] \in Later(step) => told[<<r, step>>] = "complete"
  /\ fate[<<r, step>>] # "none" => pc[r] \in Later(step) \cup {step, "failed"}

Ordered(r) ==
  /\ fate[<<r, "deposit">>] # "none" =>
       fate[<<r, "withdraw">>] = "landed" /\ fate[<<r, "approve">>] = "landed"
  /\ attestation[r] # "none" =>
       /\ fate[<<r, "deposit">>] = "landed"
       /\ pc[r] \in {"mint", "complete", "failed"}
  /\ pc[r] \in {"mint", "complete"} \/ fate[<<r, "mint">>] # "none" =>
       attestation[r] # "none"
  /\ attestation[r] = "used" <=> fate[<<r, "mint">>] = "landed"
  /\ pc[r] = "failed" /\ fate[<<r, "mint">>] # "none" =>
       told[<<r, "mint">>] \in {"thrown", "terminated"}

Trail(r) == (\A step \in TxSteps : Passed(r, step)) /\ Ordered(r)

Withdrawn == {r \in Recalls : Landed(r, "withdraw")}
Waiting == {r \in Recalls : Landed(r, "withdraw") /\ ~Landed(r, "deposit")}
Deposited == {r \in Recalls : Landed(r, "deposit") /\ attestation[r] = "none"}
Minted == {r \in Recalls : attestation[r] = "used"}

Accounts ==
  /\ vault = Vault0 - Total(Withdrawn) /\ source = Source0 + Total(Waiting)
  /\ gateway + charged = Total(Deposited) /\ destination = Total(Minted)

(* A recall that was never disturbed has the wallet for itself while it is *)
(* active, and its deposit, if it gave that up, is the next to run.        *)
Alone(r) ==
  ~disturbed[r] =>
    /\ Active(r) =>
         /\ \A q \in Recalls \ {r} : ~Active(q)
         /\ \A chain \in Chains : \A i \in DOMAIN queue[chain] :
              queue[chain][i][1] = r
         /\ fate[<<r, "approve">>] = "landed" /\ fate[<<r, "deposit">>] = "none" =>
              allowance = Amount[r]
    /\ fate[<<r, "deposit">>] = "pending" =>
         /\ queue["source"] # <<>> /\ Head(queue["source"]) = <<r, "deposit">>
         /\ allowance = Amount[r]

GatewayInv ==
  /\ Typed /\ Queued /\ Accounts
  /\ \A r \in Recalls : Trail(r) /\ Alone(r)

LEMMA Steps ==
  /\ TxSteps = {"withdraw", "approve", "deposit", "mint"}
  /\ \A r \in Recalls, step \in TxSteps : <<r, step>> \in Txs
  /\ \A tx \in Txs : tx = <<tx[1], tx[2]>> /\ tx[1] \in Recalls /\ tx[2] \in TxSteps
BY DEF Txs, TxSteps

-----------------------------------------------------------------------------
(* Money does not move while nothing lands and nothing is attested.        *)
Still ==
  /\ UNCHANGED <<vault, source, gateway, charged, destination>>
  /\ \A q \in Recalls : /\ attestation'[q] = attestation[q]
                        /\ \A step \in TxSteps : Landed(q, step)' = Landed(q, step)

LEMMA StillAccounts ==
  ASSUME Accounts, Still
  PROVE  Accounts'
<1>1. /\ Withdrawn' = Withdrawn /\ Waiting' = Waiting
      /\ Deposited' = Deposited /\ Minted' = Minted
  BY Steps DEF Still, Withdrawn, Waiting, Deposited, Minted
<1>2. /\ Total(Withdrawn)' = Total(Withdrawn') /\ Total(Waiting)' = Total(Waiting')
      /\ Total(Deposited)' = Total(Deposited') /\ Total(Minted)' = Total(Minted')
  OBVIOUS
<1> QED BY <1>1, <1>2 DEF Accounts, Still

(* The recalls a step leaves alone.                                        *)
Left(q) ==
  /\ pc'[q] = pc[q] /\ attestation'[q] = attestation[q]
  /\ \A step \in TxSteps : /\ fate'[<<q, step>>] = fate[<<q, step>>]
                           /\ told'[<<q, step>>] = told[<<q, step>>]

LEMMA LeftTrail ==
  ASSUME NEW q \in Recalls, Trail(q), Left(q)
  PROVE  Trail(q)'
BY Steps DEF Trail, Passed, Ordered, Left

LEMMA InitGateway ==
  ASSUME Init
  PROVE  GatewayInv
<1>1. /\ fate = [tx \in Txs |-> "none"] /\ told = [tx \in Txs |-> "nothing"]
      /\ vault = Vault0 /\ source = Source0
      /\ allowance = 0 /\ gateway = 0 /\ charged = 0 /\ destination = 0
      /\ attestation = [r \in Recalls |-> "none"]
      /\ queue = [chain \in Chains |-> <<>>]
      /\ pc = [r \in Recalls |-> "idle"] /\ disturbed = [r \in Recalls |-> FALSE]
  BY DEF Init, Adapter!Init, Chains
<1>2. Typed
  BY <1>1, Amounts DEF Typed, Places, Adapter!Fates, Adapter!Tellings
<1>3. Queued
  BY <1>1 DEF Queued
<1>4. ASSUME NEW r \in Recalls PROVE Trail(r) /\ Alone(r)
  <2>1. \A step \in TxSteps : fate[<<r, step>>] = "none" /\ told[<<r, step>>] = "nothing"
    BY <1>1, Steps
  <2>2. \A step \in TxSteps : "idle" \notin Later(step)
    BY Steps DEF Later
  <2>3. Trail(r)
    BY <1>1, <2>1, <2>2, Steps DEF Trail, Passed, Ordered
  <2> QED BY <1>1, <2>1, <2>3, Steps DEF Alone, Active
<1>5. Accounts
  <2>1. Withdrawn = {} /\ Waiting = {} /\ Deposited = {} /\ Minted = {}
    BY <1>1, Steps DEF Withdrawn, Waiting, Deposited, Minted, Landed
  <2> QED BY <1>1, <2>1, TotalEmpty, Amounts DEF Accounts
<1> QED BY <1>2, <1>3, <1>4, <1>5 DEF GatewayInv

-----------------------------------------------------------------------------
(* Steps that send nothing and move nothing.                               *)
LEMMA AloneKept ==
  ASSUME NEW q \in Recalls, Alone(q), UNCHANGED <<queue, fate, allowance, disturbed>>,
         \A r \in Recalls : Active(r)' => Active(r)
  PROVE  Alone(q)'
BY DEF Alone

LEMMA CallKeeps ==
  ASSUME GatewayInv, NEW r \in Recalls, Call(r)
  PROVE  GatewayInv'
<1>1. /\ Typed /\ Queued /\ Accounts /\ pc \in [Recalls -> Places]
      /\ disturbed \in [Recalls -> BOOLEAN] /\ queue \in [Chains -> Seq(Txs)]
  BY DEF GatewayInv, Typed
<1>2. /\ pc[r] = "idle" /\ pc' = [pc EXCEPT ![r] = "withdraw"]
      /\ UNCHANGED <<fate, told, vault, source, allowance, gateway, charged, attestation,
                     destination, queue>>
      /\ disturbed' = [q \in Recalls |->
           \/ disturbed[q]
           \/ q = r /\ \/ \E other \in Recalls : Active(other)
                       \/ \E chain \in DOMAIN queue : queue[chain] # <<>>
           \/ q # r /\ Active(q)]
  BY DEF Call, Go, wallet, money
<1>3. Typed'
  <2>1. disturbed' \in [Recalls -> BOOLEAN]
    BY <1>1, <1>2, Zenon
  <2>2. pc' \in [Recalls -> Places]
    BY <1>1, <1>2, Steps DEF Places
  <2> QED BY <1>1, <1>2, <2>1, <2>2 DEF Typed
<1>4. Queued' /\ Accounts'
  BY <1>1, <1>2, StillAccounts DEF Queued, Still, Landed
<1>5. ASSUME NEW q \in Recalls PROVE Trail(q)'
  <2>1. CASE q = r
    <3>1. \A step \in TxSteps : "withdraw" \notin Later(step) /\ fate[<<r, step>>] = "none"
      <4>1. \A step \in TxSteps : Passed(r, step)
        BY DEF GatewayInv, Trail
      <4> QED BY <4>1, <1>2, Steps DEF Passed, Later
    <3>2. \A step \in TxSteps : Passed(r, step)'
      BY <1>1, <1>2, <3>1 DEF GatewayInv, Trail, Passed
    <3>3. Ordered(r)'
      BY <1>1, <1>2, <3>1, Steps DEF GatewayInv, Trail, Ordered
    <3> QED BY <2>1, <3>2, <3>3 DEF Trail
  <2>2. CASE q # r
    BY <1>1, <1>2, <2>2, LeftTrail DEF GatewayInv, Left
  <2> QED BY <2>1, <2>2
<1>6. ASSUME NEW q \in Recalls PROVE Alone(q)'
  <2>1. SUFFICES ASSUME ~disturbed'[q] PROVE Alone(q)'
    BY DEF Alone
  <2>2. /\ ~disturbed[q]
        /\ q # r => ~Active(q)
        /\ q = r => (\A p \in Recalls : ~Active(p)) /\ \A chain \in Chains : queue[chain] = <<>>
    BY <1>1, <1>2, <2>1
  <2>3. fate[<<q, "deposit">>] = "pending" =>
          /\ queue["source"] # <<>> /\ Head(queue["source"]) = <<q, "deposit">>
          /\ allowance = Amount[q]
    BY <2>2 DEF GatewayInv, Alone
  <2>4. CASE q # r
    <3>1. ~Active(q)'
      BY <1>1, <1>2, <2>2, <2>4 DEF Active
    <3> QED BY <1>2, <2>3, <3>1 DEF Alone
  <2>5. CASE q = r
    <3>1. fate[<<r, "approve">>] = "none"
      <4>1. Passed(r, "approve")
        BY Steps DEF GatewayInv, Trail
      <4> QED BY <4>1, <1>2 DEF Passed, Later
    <3>2. \A p \in Recalls \ {r} : ~Active(p)'
      BY <1>1, <1>2, <2>2, <2>5 DEF Active
    <3> QED BY <1>2, <2>2, <2>3, <2>5, <3>1, <3>2 DEF Alone
  <2> QED BY <2>4, <2>5
<1> QED BY <1>3, <1>4, <1>5, <1>6 DEF GatewayInv

(* Rejected, or given up with nothing sent.                                *)
LEMMA PlaceKeeps ==
  ASSUME GatewayInv, NEW r \in Recalls, NEW place \in {"attest", "failed"},
         pc[r] = "sign" \/ (place = "failed" /\ pc[r] \in {"idle", "attest"}),
         pc' = [pc EXCEPT ![r] = place], UNCHANGED <<wallet, money, queue, disturbed>>
  PROVE  GatewayInv'
<1>1. /\ Typed /\ Queued /\ Accounts /\ pc \in [Recalls -> Places]
  BY DEF GatewayInv, Typed
<1>2. UNCHANGED <<fate, told, vault, source, allowance, gateway, charged, attestation,
                  destination, queue, disturbed>>
  BY DEF wallet, money
<1>3. Typed'
  <2>1. pc' \in [Recalls -> Places]
    BY <1>1 DEF Places
  <2> QED BY <1>1, <1>2, <2>1 DEF Typed
<1>4. Queued' /\ Accounts'
  BY <1>1, <1>2, StillAccounts DEF Queued, Still, Landed
<1>5. ASSUME NEW q \in Recalls PROVE Trail(q)'
  <2>1. CASE q = r
    <3>1. pc'[r] = place /\ Trail(r)
      BY <1>1 DEF GatewayInv
    <3>2. fate[<<r, "mint">>] = "none"
      <4>1. Passed(r, "mint")
        BY <3>1, Steps DEF Trail
      <4> QED BY <4>1 DEF Passed, Later
    <3>3. \A step \in TxSteps : Passed(r, step)'
      <4>1. \A step \in TxSteps : Passed(r, step)
        BY <3>1 DEF Trail
      <4>2. \A step \in TxSteps : place \in Later(step) => pc[r] \in Later(step)
        BY Steps DEF Later
      <4>3. \A step \in TxSteps :
              pc[r] \in Later(step) => place \in Later(step) \cup {"failed"}
        BY Steps DEF Later
      <4>4. pc[r] \notin TxSteps
        BY Steps
      <4> QED BY <1>2, <3>1, <4>1, <4>2, <4>3, <4>4 DEF Passed
    <3>4. Ordered(r)'
      BY <1>2, <3>1, <3>2 DEF Trail, Ordered
    <3> QED BY <2>1, <3>3, <3>4 DEF Trail
  <2>2. CASE q # r
    BY <1>1, <1>2, <2>2, LeftTrail DEF GatewayInv, Left
  <2> QED BY <2>1, <2>2
<1>6. ASSUME NEW q \in Recalls PROVE Alone(q)'
  <2>1. \A p \in Recalls : Active(p)' => Active(p)
    BY <1>1 DEF Active
  <2> QED BY <1>2, <2>1, AloneKept DEF GatewayInv
<1> QED BY <1>3, <1>4, <1>5, <1>6 DEF GatewayInv

(* The Gateway burns a deposit and attests it.                             *)
LEMMA AttestKeeps ==
  ASSUME GatewayInv, NEW r \in Recalls, Attest(r)
  PROVE  GatewayInv'
<1>1. /\ Typed /\ Queued /\ Accounts /\ pc \in [Recalls -> Places]
      /\ attestation \in [Recalls -> {"none", "held", "used"}]
      /\ gateway \in Nat /\ Trail(r)
  BY DEF GatewayInv, Typed
<1>2. CASE Go(r, "failed") /\ UNCHANGED money
  BY <1>2, PlaceKeeps DEF Attest, Go
<1>3. ASSUME NEW place \in {"mint", "failed"}, Go(r, place),
             NEW fee \in Fees, gateway >= Amount[r] + fee,
             gateway' = gateway - Amount[r] - fee, charged' = charged + fee,
             attestation' = [attestation EXCEPT ![r] = "held"],
             UNCHANGED <<vault, source, allowance, destination>>
      PROVE  GatewayInv'
  <2>1. /\ pc[r] = "attest" /\ pc' = [pc EXCEPT ![r] = place]
        /\ UNCHANGED <<fate, told, queue, disturbed>>
    BY <1>3 DEF Attest, Go, wallet
  <2>2. /\ pc'[r] = place /\ attestation'[r] = "held"
        /\ \A q \in Recalls \ {r} : pc'[q] = pc[q] /\ attestation'[q] = attestation[q]
    BY <1>1, <1>3, <2>1
  <2>3. attestation[r] = "none" /\ fate[<<r, "deposit">>] = "landed"
        /\ fate[<<r, "mint">>] = "none"
    <3>1. Passed(r, "deposit") /\ Passed(r, "mint") /\ Ordered(r)
      BY <1>1, Steps DEF Trail
    <3> QED BY <1>1, <2>1, <3>1 DEF Passed, Later, Ordered
  <2>4. Typed'
    <3>1. gateway' \in Nat /\ charged' \in Nat
      <4>1. fee \in Nat
        BY GatewayAssumption
      <4> QED BY <1>1, <1>3, <4>1, Amounts DEF Typed
    <3>2. pc' \in [Recalls -> Places]
      BY <1>1, <2>1, Steps DEF Places
    <3>3. attestation' \in [Recalls -> {"none", "held", "used"}]
      BY <1>1, <1>3
    <3> QED BY <1>1, <1>3, <2>1, <3>1, <3>2, <3>3 DEF Typed
  <2>5. Queued'
    BY <1>1, <2>1 DEF Queued
  <2>6. Accounts'
    <3>1. Withdrawn' = Withdrawn /\ Waiting' = Waiting
      BY <2>1 DEF Withdrawn, Waiting, Landed
    <3>2. Minted' = Minted
      BY <2>2, <2>3 DEF Minted
    <3>3. Deposited' = Deposited \ {r} /\ r \in Deposited
      BY <2>1, <2>2, <2>3 DEF Deposited, Landed
    <3>4. Total(Deposited \ {r}) = Total(Deposited) - Amount[r]
      <4>1. Deposited \in SUBSET Recalls
        BY DEF Deposited
      <4> QED BY <3>3, <4>1, TotalRemove
    <3>5. Total(Deposited') = gateway' + charged'
      <4>1. fee \in Nat /\ charged \in Nat /\ Amount[r] \in Nat
        BY <1>1, GatewayAssumption, Amounts DEF Typed
      <4>2. gateway + charged = Total(Deposited)
        BY <1>1 DEF Accounts
      <4>3. Total(Deposited') = Total(Deposited) - Amount[r]
        BY <3>3, <3>4
      <4> QED BY <1>1, <1>3, <4>1, <4>2, <4>3
    <3> QED BY <1>1, <1>3, <3>1, <3>2, <3>5 DEF Accounts
  <2>7. ASSUME NEW q \in Recalls PROVE Trail(q)'
    <3>1. CASE q = r
      <4>1. \A step \in TxSteps : Passed(r, step)'
        <5>1. \A step \in TxSteps : Passed(r, step)
          BY <1>1 DEF Trail
        <5>2. \A step \in TxSteps : "attest" \in Later(step) <=> "mint" \in Later(step)
          BY Steps DEF Later
        <5>3. \A step \in TxSteps : "failed" \notin Later(step)
          BY Steps DEF Later
        <5> QED BY <2>1, <2>2, <5>1, <5>2, <5>3, Steps DEF Passed
      <4>2. Ordered(r)'
        BY <1>1, <2>1, <2>2, <2>3 DEF Trail, Ordered
      <4> QED BY <3>1, <4>1, <4>2 DEF Trail
    <3>2. CASE q # r
      BY <2>1, <2>2, <3>2, LeftTrail DEF GatewayInv, Left
    <3> QED BY <3>1, <3>2
  <2>8. ASSUME NEW q \in Recalls PROVE Alone(q)'
    <3>1. \A p \in Recalls : Active(p)' => Active(p)
      BY <2>1, <2>2 DEF Active
    <3> QED BY <1>3, <2>1, <3>1, AloneKept DEF GatewayInv
  <2> QED BY <2>4, <2>5, <2>6, <2>7, <2>8 DEF GatewayInv
<1> QED BY <1>2, <1>3 DEF Attest, After

-----------------------------------------------------------------------------
(* A transaction that is sent.                                             *)
LEMMA Appended ==
  ASSUME NEW s \in Seq(Txs), NEW tx \in Txs
  PROVE  /\ Append(s, tx) \in Seq(Txs) /\ Append(s, tx) # <<>>
         /\ DOMAIN s = 1..Len(s) /\ Len(s) \in Nat
         /\ DOMAIN Append(s, tx) = 1..(Len(s) + 1)
         /\ \A i \in 1..Len(s) : Append(s, tx)[i] = s[i]
         /\ Append(s, tx)[Len(s) + 1] = tx
         /\ Head(Append(s, tx)) = IF s = <<>> THEN tx ELSE Head(s)
<1>1. /\ Append(s, tx) \in Seq(Txs) /\ Append(s, tx) # <<>>
      /\ DOMAIN s = 1..Len(s) /\ Len(s) \in Nat
      /\ DOMAIN Append(s, tx) = 1..(Len(s) + 1)
      /\ \A i \in 1..Len(s) : Append(s, tx)[i] = s[i]
      /\ Append(s, tx)[Len(s) + 1] = tx
  OBVIOUS
<1>2. Head(Append(s, tx)) = Append(s, tx)[1]
  BY <1>1
<1>3. CASE s = <<>>
  BY <1>3
<1>4. CASE s # <<>>
  <2>1. Len(s) >= 1 /\ Head(s) = s[1]
    BY <1>4
  <2> QED BY <1>1, <1>2, <1>4, <2>1
<1> QED BY <1>1, <1>3, <1>4

LEMMA NothingIn ==
  ASSUME NEW s \in Seq(Txs), \A i \in DOMAIN s : FALSE
  PROVE  s = <<>>
<1>1. DOMAIN s = 1..Len(s) /\ Len(s) \in Nat
  OBVIOUS
<1>2. ~(Len(s) >= 1)
  <2>1. Len(s) >= 1 => 1 \in DOMAIN s
    BY <1>1
  <2> QED BY <2>1
<1>3. Len(s) = 0
  BY <1>1, <1>2
<1> QED BY <1>3

LEMMA SubmitMoves ==
  ASSUME Typed, NEW r \in Recalls, Submit(r)
  PROVE  \E step \in TxSteps, thrown \in BOOLEAN :
           /\ pc[r] = step
           /\ fate[<<r, step>>] = "none" /\ told[<<r, step>>] = "nothing"
           /\ fate' = [fate EXCEPT ![<<r, step>>] = "pending"]
           /\ IF thrown
              THEN /\ told' = [told EXCEPT ![<<r, step>>] = "thrown"]
                   /\ pc' = [pc EXCEPT ![r] = "failed"]
              ELSE told' = told /\ pc' = pc
           /\ queue' = [queue EXCEPT ![ChainOf(step)] = Append(@, <<r, step>>)]
           /\ UNCHANGED <<money, disturbed>>
<1> DEFINE step == pc[r]
<1>1. /\ step \in TxSteps
      /\ fate[<<r, step>>] = "none" /\ told[<<r, step>>] = "nothing"
      /\ fate' = [fate EXCEPT ![<<r, step>>] = "pending"]
      /\ told' \in {told} \cup {[told EXCEPT ![<<r, step>>] = t] : t \in {"submitted", "thrown"}}
      /\ told'[<<r, step>>] # "submitted"
      /\ queue' = [queue EXCEPT ![ChainOf(step)] = Append(@, <<r, step>>)]
      /\ pc' = [pc EXCEPT ![r] = IF told' = told THEN step ELSE "failed"]
      /\ UNCHANGED <<money, disturbed>>
  BY DEF Submit, Adapter!Broadcast, Go
<1>2. <<r, step>> \in Txs /\ told \in [Txs -> Adapter!Tellings] /\ pc \in [Recalls -> Places]
  BY <1>1, Steps DEF Typed
<1>3. CASE told' = told
  <2>1. pc' = pc
    BY <1>1, <1>2, <1>3
  <2> QED BY <1>1, <1>3, <2>1
<1>4. CASE told' = [told EXCEPT ![<<r, step>>] = "thrown"]
  <2>1. told' # told
    BY <1>1, <1>2, <1>4
  <2>2. pc' = [pc EXCEPT ![r] = "failed"]
    BY <1>1, <2>1
  <2> QED BY <1>1, <1>4, <2>2
<1>5. CASE told' = [told EXCEPT ![<<r, step>>] = "submitted"]
  BY <1>1, <1>2, <1>5
<1> QED BY <1>1, <1>3, <1>4, <1>5

LEMMA SubmitKeeps ==
  ASSUME GatewayInv, NEW r \in Recalls, Submit(r)
  PROVE  GatewayInv'
<1>1. /\ Typed /\ Queued /\ Accounts /\ pc \in [Recalls -> Places]
      /\ fate \in [Txs -> Adapter!Fates] /\ told \in [Txs -> Adapter!Tellings]
      /\ queue \in [Chains -> Seq(Txs)] /\ Trail(r) /\ Alone(r)
  BY DEF GatewayInv, Typed
<1>2. PICK step \in TxSteps, thrown \in BOOLEAN :
           /\ pc[r] = step
           /\ fate[<<r, step>>] = "none" /\ told[<<r, step>>] = "nothing"
           /\ fate' = [fate EXCEPT ![<<r, step>>] = "pending"]
           /\ IF thrown
              THEN /\ told' = [told EXCEPT ![<<r, step>>] = "thrown"]
                   /\ pc' = [pc EXCEPT ![r] = "failed"]
              ELSE told' = told /\ pc' = pc
           /\ queue' = [queue EXCEPT ![ChainOf(step)] = Append(@, <<r, step>>)]
           /\ UNCHANGED <<money, disturbed>>
  BY <1>1, SubmitMoves
<1> DEFINE tx == <<r, step>>
           home == ChainOf(step)
<1>3. /\ tx \in Txs /\ home \in Chains /\ tx[1] = r /\ tx[2] = step
  BY Steps DEF ChainOf, Chains
<1>4. /\ fate'[tx] = "pending" /\ \A t \in Txs \ {tx} : fate'[t] = fate[t]
      /\ \A t \in Txs \ {tx} : told'[t] = told[t]
      /\ IF thrown THEN told'[tx] = "thrown" /\ pc'[r] = "failed"
                   ELSE told'[tx] = "nothing" /\ pc'[r] = step
      /\ \A q \in Recalls \ {r} : pc'[q] = pc[q]
      /\ UNCHANGED <<vault, source, allowance, gateway, charged, attestation, destination,
                     disturbed>>
  BY <1>1, <1>2, <1>3 DEF money
<1>5. /\ queue'[home] = Append(queue[home], tx)
      /\ \A chain \in Chains \ {home} : queue'[chain] = queue[chain]
      /\ queue' \in [Chains -> Seq(Txs)]
  <2>1. Append(queue[home], tx) \in Seq(Txs)
    BY <1>1, <1>3, Appended
  <2> QED BY <1>1, <1>2, <1>3, <2>1
<1>6. Typed'
  <2>1. fate' \in [Txs -> Adapter!Fates] /\ told' \in [Txs -> Adapter!Tellings]
    BY <1>1, <1>2, <1>3 DEF Adapter!Fates, Adapter!Tellings
  <2>2. pc' \in [Recalls -> Places]
    BY <1>1, <1>2 DEF Places
  <2> QED BY <1>1, <1>4, <1>5, <2>1, <2>2 DEF Typed
<1>7. Queued'
  <2>1. ASSUME NEW chain \in Chains, NEW i \in DOMAIN queue[chain]
        PROVE  /\ queue[chain][i] \in Txs \ {tx} /\ fate'[queue[chain][i]] = "pending"
               /\ ChainOf(queue[chain][i][2]) = chain
    <3>1. queue[chain][i] \in Txs
      BY <1>1
    <3>2. fate[queue[chain][i]] = "pending" /\ ChainOf(queue[chain][i][2]) = chain
      BY <1>1 DEF Queued
    <3> QED BY <3>1, <3>2, <1>2, <1>4
  <2>2. ASSUME NEW chain \in Chains, NEW i \in DOMAIN queue'[chain]
        PROVE  /\ fate'[queue'[chain][i]] = "pending" /\ ChainOf(queue'[chain][i][2]) = chain
               /\ \A j \in DOMAIN queue'[chain] : queue'[chain][i] = queue'[chain][j] => i = j
    <3>1. CASE chain # home
      BY <3>1, <1>1, <1>5, <2>1 DEF Queued
    <3>2. CASE chain = home
      <4> DEFINE s == queue[home]
      <4>1. /\ queue'[chain] = Append(s, tx) /\ s \in Seq(Txs)
            /\ \A k \in DOMAIN s : s[k] # tx /\ fate'[s[k]] = "pending" /\ ChainOf(s[k][2]) = home
            /\ \A k, l \in DOMAIN s : s[k] = s[l] => k = l
        BY <3>2, <1>1, <1>3, <1>5, <2>1 DEF Queued
      <4> HIDE DEF s
      <4>2. /\ DOMAIN s = 1..Len(s) /\ Len(s) \in Nat
            /\ DOMAIN Append(s, tx) = 1..(Len(s) + 1)
            /\ \A k \in 1..Len(s) : Append(s, tx)[k] = s[k]
            /\ Append(s, tx)[Len(s) + 1] = tx
        BY <4>1, <1>3, Appended
      <4>3. fate'[tx] = "pending" /\ ChainOf(tx[2]) = home
        BY <1>3, <1>4
      <4> HIDE DEF tx, home
      <4> QED BY <3>2, <4>1, <4>2, <4>3
    <3> QED BY <3>1, <3>2
  <2> QED BY <2>2 DEF Queued
<1>8. Accounts'
  <2>1. ASSUME NEW q \in Recalls, NEW any \in TxSteps
        PROVE  Landed(q, any)' = Landed(q, any)
    <3>1. <<q, any>> \in Txs
      BY Steps
    <3>2. CASE <<q, any>> = tx
      BY <3>2, <1>2, <1>4 DEF Landed
    <3>3. CASE <<q, any>> # tx
      BY <3>1, <3>3, <1>4 DEF Landed
    <3> QED BY <3>2, <3>3
  <2>2. Still
    BY <1>4, <2>1 DEF Still
  <2> QED BY <1>1, <2>2, StillAccounts
<1>9. ASSUME NEW q \in Recalls PROVE Trail(q)'
  <2>1. CASE q # r
    <3>1. \A any \in TxSteps : <<q, any>> \in Txs \ {tx}
      BY <2>1, Steps
    <3> QED BY <2>1, <3>1, <1>4, LeftTrail DEF GatewayInv, Left
  <2>2. CASE q = r
    <3>1. \A any \in TxSteps \ {step} : <<r, any>> \in Txs \ {tx}
      BY Steps
    <3>2. ASSUME NEW any \in TxSteps PROVE Passed(r, any)'
      <4>1. Passed(r, any)
        BY <1>1 DEF Trail
      <4>2. "failed" \notin Later(any) /\ any \notin Later(any)
        BY Steps DEF Later
      <4>3. CASE any = step
        BY <1>2, <1>4, <4>1, <4>2, <4>3 DEF Passed
      <4>4. CASE any # step
        BY <1>2, <1>4, <3>1, <4>1, <4>2, <4>4 DEF Passed
      <4> QED BY <4>3, <4>4
    <3>3. Ordered(r)'
      <4>1. /\ \A any \in TxSteps : Passed(r, any)
            /\ Ordered(r)
        BY <1>1 DEF Trail
      <4>2. step = "mint" => attestation[r] # "none"
        BY <1>2, <4>1 DEF Ordered
      <4>3. step = "deposit" => /\ fate[<<r, "withdraw">>] = "landed"
                                /\ fate[<<r, "approve">>] = "landed"
        BY <1>2, <4>1, Steps DEF Passed, Later
      <4>4. attestation[r] # "none" => step = "mint" /\ fate[<<r, "deposit">>] = "landed"
        BY <1>2, <4>1, Steps DEF Ordered
      <4>5. step # "mint" => fate[<<r, "mint">>] = "none"
        BY <1>2, <4>1, Steps DEF Passed, Later
      <4>6. ASSUME NEW any \in TxSteps
            PROVE  /\ any # step => fate'[<<r, any>>] = fate[<<r, any>>]
                   /\ any = step => fate'[<<r, any>>] = "pending"
        BY <1>4, <3>1
      <4>7. told'[<<r, "mint">>] # "thrown" => pc'[r] # "failed" \/ step # "mint"
        BY <1>4
      <4> HIDE DEF tx, home
      <4> QED BY <1>2, <1>4, <4>1, <4>2, <4>3, <4>4, <4>5, <4>6, <4>7, Steps DEF Ordered
    <3> QED BY <2>2, <3>2, <3>3 DEF Trail
  <2> QED BY <2>1, <2>2
<1>10. ASSUME queue["source"] # <<>>
      PROVE  queue'["source"] # <<>> /\ Head(queue'["source"]) = Head(queue["source"])
  <2>1. queue["source"] \in Seq(Txs)
    BY <1>1 DEF Chains
  <2>2. CASE home = "source"
    <3>1. queue'["source"] = Append(queue["source"], tx)
      BY <2>2, <1>5
    <3> QED BY <1>3, <1>10, <2>1, <3>1, Appended
  <2>3. CASE home # "source"
    BY <2>3, <1>10, <1>5 DEF Chains
  <2> QED BY <2>2, <2>3
<1>11. ASSUME NEW q \in Recalls PROVE Alone(q)'
  <2>1. SUFFICES ASSUME ~disturbed[q] PROVE Alone(q)'
    BY <1>4 DEF Alone
  <2>2. /\ Alone(q) /\ Active(r)
        /\ \A p \in Recalls : Active(p)' => Active(p)
    BY <1>1, <1>2, <1>4, Steps DEF GatewayInv, Active
  <2>3. CASE q # r
    <3>1. ~Active(q)
      BY <2>1, <2>2, <2>3 DEF Alone
    <3>2. fate'[<<q, "deposit">>] = fate[<<q, "deposit">>]
      BY <2>3, <1>4, Steps
    <3> QED BY <2>1, <2>2, <3>1, <3>2, <1>4, <1>10 DEF Alone
  <2>4. CASE q = r
    <3>1. \A chain \in Chains : \A i \in DOMAIN queue'[chain] : queue'[chain][i][1] = r
      <4>1. \A chain \in Chains : \A i \in DOMAIN queue[chain] : queue[chain][i][1] = r
        BY <2>1, <2>2, <2>4 DEF Alone
      <4>2. \A i \in DOMAIN Append(queue[home], tx) : Append(queue[home], tx)[i][1] = r
        <5> DEFINE s == queue[home]
        <5>1. s \in Seq(Txs) /\ \A i \in DOMAIN s : s[i][1] = r
          BY <1>1, <1>3, <4>1
        <5> HIDE DEF s
        <5>2. /\ DOMAIN s = 1..Len(s) /\ Len(s) \in Nat
              /\ DOMAIN Append(s, tx) = 1..(Len(s) + 1)
              /\ \A k \in 1..Len(s) : Append(s, tx)[k] = s[k]
              /\ Append(s, tx)[Len(s) + 1] = tx
          BY <5>1, <1>3, Appended
        <5>3. \A i \in DOMAIN Append(s, tx) : Append(s, tx)[i][1] = r
          <6> HIDE DEF tx
          <6> QED BY <5>1, <5>2, <1>3
        <5> QED BY <5>3 DEF s
      <4> QED BY <1>3, <1>5, <4>1, <4>2
    <3>2. \A p \in Recalls \ {r} : ~Active(p)'
      BY <2>1, <2>2, <2>4 DEF Alone
    <3>3. fate'[<<r, "approve">>] = "landed" /\ fate'[<<r, "deposit">>] = "none" =>
            allowance' = Amount[r]
      <4>1. /\ fate'[<<r, "approve">>] = "landed" => fate[<<r, "approve">>] = "landed"
            /\ fate'[<<r, "deposit">>] = "none" => fate[<<r, "deposit">>] = "none"
        BY <1>2, <1>4, Steps
      <4> QED BY <2>1, <2>2, <2>4, <4>1, <1>4 DEF Alone
    <3>4. fate'[<<r, "deposit">>] = "pending" =>
            /\ queue'["source"] # <<>> /\ Head(queue'["source"]) = <<r, "deposit">>
            /\ allowance' = Amount[r]
      <4>1. CASE step # "deposit"
        <5>1. fate'[<<r, "deposit">>] = fate[<<r, "deposit">>]
          BY <4>1, <1>4, Steps
        <5> QED BY <2>1, <2>2, <2>4, <5>1, <1>4, <1>10 DEF Alone
      <4>2. CASE step = "deposit"
        <5>1. /\ fate[<<r, "withdraw">>] = "landed" /\ fate[<<r, "approve">>] = "landed"
              /\ fate[<<r, "deposit">>] = "none"
          BY <4>2, <1>1, <1>2, Steps DEF Trail, Passed, Later
        <5>2. queue["source"] = <<>>
          <6>1. ASSUME NEW i \in DOMAIN queue["source"] PROVE FALSE
            <7>1. /\ queue["source"][i] \in Txs /\ queue["source"][i][1] = r
                  /\ fate[queue["source"][i]] = "pending"
                  /\ ChainOf(queue["source"][i][2]) = "source"
              BY <1>1, <2>1, <2>2, <2>4 DEF Queued, Alone, Chains
            <7>2. /\ queue["source"][i][2] \in {"withdraw", "approve", "deposit"}
                  /\ queue["source"][i] = <<r, queue["source"][i][2]>>
              BY <7>1, Steps DEF ChainOf
            <7> QED BY <5>1, <7>1, <7>2
          <6>2. queue["source"] \in Seq(Txs)
            BY <1>1 DEF Chains
          <6> QED BY <6>1, <6>2, NothingIn
        <5>3. home = "source" /\ tx = <<r, "deposit">>
          BY <4>2 DEF ChainOf
        <5>4. queue'["source"] # <<>> /\ Head(queue'["source"]) = <<r, "deposit">>
          BY <1>3, <1>5, <5>2, <5>3
        <5>5. allowance' = Amount[r]
          BY <2>1, <2>2, <2>4, <5>1, <1>4 DEF Alone
        <5> QED BY <5>4, <5>5
      <4> QED BY <4>1, <4>2
    <3> QED BY <2>4, <3>1, <3>2, <3>3, <3>4 DEF Alone
  <2> QED BY <2>3, <2>4
<1> QED BY <1>6, <1>7, <1>8, <1>9, <1>11 DEF GatewayInv

-----------------------------------------------------------------------------
(* A call that answers.                                                    *)
LEMMA AnsweredKeeps ==
  ASSUME GatewayInv, NEW r \in Recalls, Answered(r)
  PROVE  GatewayInv'
<1>1. /\ Typed /\ Queued /\ Accounts /\ pc \in [Recalls -> Places]
      /\ told \in [Txs -> Adapter!Tellings] /\ Trail(r)
  BY DEF GatewayInv, Typed
<1> DEFINE step == pc[r]
           tx == <<r, step>>
<1>2. PICK t \in {"complete", "terminated", "thrown"} :
        /\ t = "complete" => fate[tx] = "landed"
        /\ t = "terminated" => fate[tx] = "failed"
        /\ told' = [told EXCEPT ![tx] = t]
  BY DEF Answered, Adapter!Answer
<1>3. /\ step \in TxSteps /\ tx \in Txs /\ told[tx] = "nothing"
      /\ UNCHANGED <<fate, vault, source, allowance, gateway, charged, attestation,
                     destination, queue, disturbed>>
      /\ Go(r, IF told'[tx] = "complete" THEN After[step] ELSE "failed")
  BY Steps DEF Answered, Adapter!Answer, money
<1>4. /\ told'[tx] = t /\ \A any \in Txs \ {tx} : told'[any] = told[any]
      /\ told' \in [Txs -> Adapter!Tellings]
  <2> HIDE DEF tx
  <2> QED BY <1>1, <1>2, <1>3 DEF Adapter!Tellings
<1> DEFINE place == IF t = "complete" THEN After[step] ELSE "failed"
<1>5. pc' = [pc EXCEPT ![r] = place]
  BY <1>3, <1>4 DEF Go
<1>6. After[step] \in Places \ {"idle", "failed"}
  BY <1>3, Steps DEF After, Places
<1>7. /\ place \in Places /\ place # "idle" /\ pc'[r] = place
      /\ \A q \in Recalls \ {r} : pc'[q] = pc[q]
      /\ pc' \in [Recalls -> Places]
  <2>1. place \in Places /\ place # "idle"
    BY <1>6 DEF Places
  <2> HIDE DEF place
  <2> QED BY <1>1, <1>5, <2>1
<1>8. Typed'
  <2>1. UNCHANGED <<fate, vault, source, allowance, gateway, charged, attestation,
                    destination, queue, disturbed>>
    BY <1>3
  <2> HIDE DEF step, tx, place
  <2>2. told' \in [Txs -> Adapter!Tellings]
    BY <1>4
  <2>3. pc' \in [Recalls -> Places]
    BY <1>7
  <2> QED BY <1>1, <2>1, <2>2, <2>3 DEF Typed
<1>9. Queued' /\ Accounts'
  BY <1>1, <1>3, StillAccounts DEF Queued, Still, Landed
<1>10. ASSUME NEW q \in Recalls PROVE Trail(q)'
  <2>1. CASE q # r
    <3>1. \A any \in TxSteps : <<q, any>> \in Txs \ {tx}
      BY <2>1, Steps
    <3> QED BY <2>1, <3>1, <1>3, <1>4, <1>7, LeftTrail DEF GatewayInv, Left
  <2>2. CASE q = r
    <3>1. \A any \in TxSteps \ {step} : told'[<<r, any>>] = told[<<r, any>>]
      <4>1. \A any \in TxSteps \ {step} : <<r, any>> \in Txs \ {tx}
        BY Steps
      <4> QED BY <4>1, <1>4
    <3>2. \A any \in TxSteps : Passed(r, any)
      BY <1>1 DEF Trail
    <3>3. t = "complete" => /\ place = After[step] /\ place \in Later(step)
                            /\ fate[<<r, step>>] = "landed"
      BY <1>2, <1>3, Steps DEF After, Later
    <3>4. ASSUME NEW any \in TxSteps PROVE Passed(r, any)'
      <4>1. CASE any = step
        <5>1. /\ "failed" \notin Later(step)
              /\ told'[<<r, step>>] = t
              /\ t # "complete" => place = "failed"
          BY <1>3, <1>4, Steps DEF Later
        <5>2. /\ t = "complete" => fate[<<r, step>>] = "landed"
              /\ t = "terminated" => fate[<<r, step>>] = "failed"
          BY <1>2
        <5> HIDE DEF place, tx, step
        <5> QED BY <1>2, <1>3, <1>7, <3>3, <4>1, <5>1, <5>2 DEF Passed
      <4>2. CASE any # step
        <5>1. /\ place \in Later(any) => step \in Later(any)
              /\ step \in Later(any) => place \in Later(any) \cup {"failed"}
          BY <1>3, <4>2, Steps DEF After, Later
        <5>2. fate[<<r, any>>] # "none" => step \in Later(any)
          <6>1. Passed(r, any)
            BY <3>2
          <6> QED BY <4>2, <6>1, <1>3, Steps DEF Passed
        <5>3. told'[<<r, any>>] = told[<<r, any>>]
          BY <3>1, <4>2
        <5>4. Passed(r, any)
          BY <3>2
        <5> HIDE DEF place, tx
        <5> QED BY <1>3, <1>7, <5>1, <5>2, <5>3, <5>4 DEF Passed
      <4> QED BY <4>1, <4>2
    <3>5. Ordered(r)'
      <4>1. Ordered(r)
        BY <1>1 DEF Trail
      <4>2. attestation[r] # "none" => place \in {"complete", "failed"}
        BY <4>1, <1>3, Steps DEF Ordered, After
      <4>3. place \in {"mint", "complete"} => step = "mint"
        BY <1>3, Steps DEF After
      <4>4. step = "mint" => attestation[r] # "none"
        BY <4>1 DEF Ordered
      <4>5. place = "failed" /\ fate[<<r, "mint">>] # "none" =>
              told'[<<r, "mint">>] \in {"thrown", "terminated"}
        <5>1. fate[<<r, "mint">>] # "none" => step = "mint"
          <6>1. Passed(r, "mint")
            BY <3>2, Steps
          <6> QED BY <6>1, <1>3, Steps DEF Passed, Later
        <5>2. place = "failed" => t # "complete"
          BY <1>6
        <5> QED BY <1>2, <1>4, <5>1, <5>2
      <4> HIDE DEF place, tx
      <4> QED BY <1>3, <1>7, <4>1, <4>2, <4>3, <4>4, <4>5 DEF Ordered
    <3> QED BY <2>2, <3>4, <3>5 DEF Trail
  <2> QED BY <2>1, <2>2
<1>11. ASSUME NEW q \in Recalls PROVE Alone(q)'
  <2>1. \A p \in Recalls : Active(p)' => Active(p)
    BY <1>3, <1>7, Steps DEF Active
  <2> QED BY <1>3, <2>1, AloneKept DEF GatewayInv
<1> QED BY <1>8, <1>9, <1>10, <1>11 DEF GatewayInv

-----------------------------------------------------------------------------
(* A transaction that runs, reverts or is dropped.                         *)
LEMMA Taken ==
  ASSUME NEW s \in Seq(Txs), s # <<>>
  PROVE  /\ Head(s) \in Txs /\ Head(s) = s[1] /\ 1 \in DOMAIN s
         /\ Tail(s) \in Seq(Txs)
         /\ \A i \in DOMAIN Tail(s) :
              i \in Int /\ i >= 1 /\ i + 1 \in DOMAIN s /\ Tail(s)[i] = s[i + 1]
<1>1. /\ Len(s) \in Nat /\ Len(s) >= 1 /\ DOMAIN s = 1..Len(s)
      /\ Head(s) = s[1] /\ Tail(s) \in Seq(Txs) /\ Len(Tail(s)) = Len(s) - 1
      /\ DOMAIN Tail(s) = 1..Len(Tail(s))
  OBVIOUS
<1>2. \A i \in 1..(Len(s) - 1) : Tail(s)[i] = s[i + 1]
  OBVIOUS
<1>3. s[1] \in Txs
  BY <1>1
<1> QED BY <1>1, <1>2, <1>3

LEMMA SettleMoves ==
  ASSUME Typed, Queued, NEW chain \in Chains, Settle(chain)
  PROVE  \E r \in Recalls, step \in TxSteps, f \in {"landed", "failed"} :
           /\ queue[chain] # <<>> /\ Head(queue[chain]) = <<r, step>>
           /\ ChainOf(step) = chain /\ fate[<<r, step>>] = "pending"
           /\ fate' = [fate EXCEPT ![<<r, step>>] = f]
           /\ IF f = "landed" THEN Possible(r, step) /\ Run(r, step)
                              ELSE UNCHANGED money
           /\ queue' = [queue EXCEPT ![chain] = Tail(@)]
           /\ UNCHANGED <<told, pc, disturbed>>
<1> DEFINE tx == Head(queue[chain])
<1>1. queue[chain] # <<>> /\ queue[chain] \in Seq(Txs) /\ fate \in [Txs -> Adapter!Fates]
  BY DEF Settle, Typed
<1>2. tx \in Txs /\ tx = queue[chain][1] /\ 1 \in DOMAIN queue[chain]
  BY <1>1, Taken
<1>3. tx = <<tx[1], tx[2]>> /\ tx[1] \in Recalls /\ tx[2] \in TxSteps
  BY <1>2, Steps
<1>4. fate[tx] = "pending" /\ ChainOf(tx[2]) = chain
  BY <1>2 DEF Queued
<1>5. PICK f \in {"landed", "failed"} : fate' = [fate EXCEPT ![tx] = f]
  BY DEF Settle, Adapter!Settle
<1>6. fate'[tx] = f
  BY <1>1, <1>2, <1>5
<1>7. /\ IF fate'[tx] = "landed" THEN Possible(tx[1], tx[2]) /\ Run(tx[1], tx[2])
                                 ELSE UNCHANGED money
      /\ queue' = [queue EXCEPT ![chain] = Tail(@)]
      /\ UNCHANGED <<told, pc, disturbed>>
  BY DEF Settle, Adapter!Settle
<1> HIDE DEF tx
<1>8. IF f = "landed" THEN Possible(tx[1], tx[2]) /\ Run(tx[1], tx[2])
                      ELSE UNCHANGED money
  BY <1>6, <1>7
<1>9. Head(queue[chain]) = <<tx[1], tx[2]>>
  BY <1>3 DEF tx
<1> QED BY <1>1, <1>3, <1>4, <1>5, <1>7, <1>8, <1>9

(* What landing does to the money and to the attestations.                 *)
LEMMA RunTyped ==
  ASSUME Typed, NEW r \in Recalls, NEW step \in TxSteps,
         (Possible(r, step) /\ Run(r, step)) \/ UNCHANGED money
  PROVE  /\ vault' \in Nat /\ source' \in Nat /\ allowance' \in Nat
         /\ gateway' \in Nat /\ charged' \in Nat /\ destination' \in Nat
         /\ attestation' \in [Recalls -> {"none", "held", "used"}]
         /\ \A q \in Recalls \ {r} : attestation'[q] = attestation[q]
         /\ step # "mint" => attestation'[r] = attestation[r]
<1>1. /\ vault \in Nat /\ source \in Nat /\ allowance \in Nat
      /\ gateway \in Nat /\ charged \in Nat /\ destination \in Nat /\ Amount[r] \in Nat
      /\ attestation \in [Recalls -> {"none", "held", "used"}]
  BY Amounts DEF Typed
<1>2. CASE UNCHANGED money
  BY <1>1, <1>2 DEF money
<1>3. CASE step = "withdraw" /\ Possible(r, step) /\ Run(r, step)
  BY <1>1, <1>3 DEF Possible, Run
<1>4. CASE step = "approve" /\ Possible(r, step) /\ Run(r, step)
  BY <1>1, <1>4 DEF Possible, Run
<1>5. CASE step = "deposit" /\ Possible(r, step) /\ Run(r, step)
  BY <1>1, <1>5 DEF Possible, Run
<1>6. CASE step = "mint" /\ Possible(r, step) /\ Run(r, step)
  BY <1>1, <1>6 DEF Possible, Run
<1> QED BY <1>2, <1>3, <1>4, <1>5, <1>6, Steps

(* Each landing adds a recall to one account or moves it to the next.      *)
LEMMA RunAccounts ==
  ASSUME Typed, Accounts, NEW r \in Recalls, Trail(r), NEW step \in TxSteps,
         fate[<<r, step>>] = "pending",
         fate' = [fate EXCEPT ![<<r, step>>] = "landed"],
         Possible(r, step), Run(r, step)
  PROVE  Accounts'
<1> DEFINE tx == <<r, step>>
<1>1. /\ tx \in Txs /\ fate \in [Txs -> Adapter!Fates] /\ Amount[r] \in Nat
      /\ attestation \in [Recalls -> {"none", "held", "used"}]
      /\ vault \in Nat /\ source \in Nat /\ gateway \in Nat /\ charged \in Nat /\ destination \in Nat
  BY Steps, Amounts DEF Typed
<1>2. \A q \in Recalls, any \in TxSteps :
        Landed(q, any)' <=> Landed(q, any) \/ (q = r /\ any = step)
  <2>1. fate'[tx] = "landed" /\ \A any \in Txs \ {tx} : fate'[any] = fate[any]
    BY <1>1
  <2>2. \A q \in Recalls, any \in TxSteps : <<q, any>> = tx <=> q = r /\ any = step
    OBVIOUS
  <2> HIDE DEF tx
  <2> QED BY <2>1, <2>2, Steps DEF Landed
<1>3. ~Landed(r, step)
  BY DEF Landed
<1>4. /\ Withdrawn \in SUBSET Recalls /\ Waiting \in SUBSET Recalls
      /\ Deposited \in SUBSET Recalls /\ Minted \in SUBSET Recalls
  BY DEF Withdrawn, Waiting, Deposited, Minted
<1>5. Ordered(r)
  BY DEF Trail
<1>6. /\ Total(Withdrawn) \in Nat /\ Total(Waiting) \in Nat
      /\ Total(Deposited) \in Nat /\ Total(Minted) \in Nat
      /\ Vault0 \in Nat /\ Source0 \in Nat
  BY <1>4, TotalNat, Amounts
<1>7. /\ vault = Vault0 - Total(Withdrawn) /\ source = Source0 + Total(Waiting)
      /\ gateway + charged = Total(Deposited) /\ destination = Total(Minted)
  BY DEF Accounts
<1>8. CASE step = "withdraw"
  <2>1. ~Landed(r, "deposit")
    BY <1>5, <1>8 DEF Ordered, Landed
  <2>2. /\ vault' = vault - Amount[r] /\ source' = source + Amount[r]
        /\ UNCHANGED <<allowance, gateway, charged, attestation, destination>>
    BY <1>8 DEF Run
  <2>3. /\ Withdrawn' = Withdrawn \cup {r} /\ r \notin Withdrawn
        /\ Waiting' = Waiting \cup {r} /\ r \notin Waiting
        /\ Deposited' = Deposited /\ Minted' = Minted
    BY <1>2, <1>3, <1>8, <2>1, <2>2, Steps DEF Withdrawn, Waiting, Deposited, Minted
  <2>4. /\ Total(Withdrawn') = Total(Withdrawn) + Amount[r]
        /\ Total(Waiting') = Total(Waiting) + Amount[r]
    BY <1>4, <2>3, TotalAdd
  <2>5. vault' = Vault0 - Total(Withdrawn') /\ source' = Source0 + Total(Waiting')
    BY <1>1, <1>6, <1>7, <2>2, <2>4
  <2> QED BY <1>7, <2>2, <2>3, <2>5 DEF Accounts
<1>9. CASE step = "approve"
  <2>1. UNCHANGED <<vault, source, gateway, charged, attestation, destination>>
    BY <1>9 DEF Run
  <2>2. /\ Withdrawn' = Withdrawn /\ Waiting' = Waiting
        /\ Deposited' = Deposited /\ Minted' = Minted
    BY <1>2, <1>9, <2>1, Steps DEF Withdrawn, Waiting, Deposited, Minted
  <2> QED BY <1>7, <2>1, <2>2 DEF Accounts
<1>10. CASE step = "deposit"
  <2>1. Landed(r, "withdraw") /\ attestation[r] = "none"
    BY <1>1, <1>5, <1>10 DEF Ordered, Landed
  <2>2. /\ source' = source - Amount[r] /\ gateway' = gateway + Amount[r]
        /\ UNCHANGED <<vault, charged, attestation, destination>>
    BY <1>10 DEF Run
  <2>3. /\ Waiting' = Waiting \ {r} /\ r \in Waiting
        /\ Deposited' = Deposited \cup {r} /\ r \notin Deposited
        /\ Withdrawn' = Withdrawn /\ Minted' = Minted
    BY <1>2, <1>3, <1>10, <2>1, <2>2, Steps DEF Withdrawn, Waiting, Deposited, Minted
  <2>4. /\ Total(Waiting') = Total(Waiting) - Amount[r]
        /\ Total(Deposited') = Total(Deposited) + Amount[r]
    BY <1>4, <2>3, TotalAdd, TotalRemove
  <2>5. source' = Source0 + Total(Waiting') /\ gateway' + charged' = Total(Deposited')
    BY <1>1, <1>6, <1>7, <2>2, <2>4
  <2> QED BY <1>7, <2>2, <2>3, <2>5 DEF Accounts
<1>11. CASE step = "mint"
  <2>1. attestation[r] = "held"
    BY <1>11 DEF Possible
  <2>2. /\ attestation' = [attestation EXCEPT ![r] = "used"]
        /\ destination' = destination + Amount[r]
        /\ UNCHANGED <<vault, source, allowance, gateway, charged>>
    BY <1>11 DEF Run
  <2>3. /\ attestation'[r] = "used"
        /\ \A q \in Recalls \ {r} : attestation'[q] = attestation[q]
    BY <1>1, <2>2
  <2>4. /\ Minted' = Minted \cup {r} /\ r \notin Minted
    BY <2>1, <2>3 DEF Minted
  <2>5. Withdrawn' = Withdrawn /\ Waiting' = Waiting
    BY <1>2, <1>11, Steps DEF Withdrawn, Waiting
  <2>6. Deposited' = Deposited
    BY <1>2, <1>11, <2>1, <2>3, Steps DEF Deposited
  <2>7. Total(Minted') = Total(Minted) + Amount[r]
    BY <1>4, <2>4, TotalAdd
  <2>8. destination' = Total(Minted')
    BY <1>7, <2>2, <2>7
  <2> QED BY <1>7, <2>2, <2>5, <2>6, <2>8 DEF Accounts
<1> QED BY <1>8, <1>9, <1>10, <1>11, Steps

LEMMA SettleKeeps ==
  ASSUME GatewayInv, NEW chain \in Chains, Settle(chain)
  PROVE  GatewayInv'
<1>1. /\ Typed /\ Queued /\ Accounts
      /\ fate \in [Txs -> Adapter!Fates] /\ queue \in [Chains -> Seq(Txs)]
      /\ \A q \in Recalls : Trail(q) /\ Alone(q)
  BY DEF GatewayInv, Typed
<1>2. PICK r \in Recalls, step \in TxSteps, f \in {"landed", "failed"} :
        /\ queue[chain] # <<>> /\ Head(queue[chain]) = <<r, step>>
        /\ ChainOf(step) = chain /\ fate[<<r, step>>] = "pending"
        /\ fate' = [fate EXCEPT ![<<r, step>>] = f]
        /\ IF f = "landed" THEN Possible(r, step) /\ Run(r, step)
                           ELSE UNCHANGED money
        /\ queue' = [queue EXCEPT ![chain] = Tail(@)]
        /\ UNCHANGED <<told, pc, disturbed>>
  BY <1>1, SettleMoves
<1> DEFINE tx == <<r, step>>
<1>3. /\ tx \in Txs /\ fate'[tx] = f /\ \A any \in Txs \ {tx} : fate'[any] = fate[any]
      /\ fate' \in [Txs -> Adapter!Fates] /\ fate[tx] = "pending"
  BY <1>1, <1>2, Steps DEF Adapter!Fates
<1>4. /\ Head(queue[chain]) \in Txs /\ tx = queue[chain][1] /\ 1 \in DOMAIN queue[chain]
      /\ Tail(queue[chain]) \in Seq(Txs)
      /\ \A i \in DOMAIN Tail(queue[chain]) :
           /\ i \in Int /\ i >= 1 /\ i + 1 \in DOMAIN queue[chain]
           /\ Tail(queue[chain])[i] = queue[chain][i + 1]
  BY <1>1, <1>2, Taken
<1>5. /\ queue'[chain] = Tail(queue[chain])
      /\ \A other \in Chains \ {chain} : queue'[other] = queue[other]
      /\ queue' \in [Chains -> Seq(Txs)]
  BY <1>1, <1>2, <1>4
<1>6. /\ vault' \in Nat /\ source' \in Nat /\ allowance' \in Nat
      /\ gateway' \in Nat /\ charged' \in Nat /\ destination' \in Nat
      /\ attestation' \in [Recalls -> {"none", "held", "used"}]
      /\ \A q \in Recalls \ {r} : attestation'[q] = attestation[q]
      /\ step # "mint" => attestation'[r] = attestation[r]
  BY <1>1, <1>2, RunTyped
<1>7. Typed'
  BY <1>1, <1>2, <1>3, <1>5, <1>6 DEF Typed
<1>8. Queued'
  <2> DEFINE s == queue[chain]
  <2>1. /\ \A i \in DOMAIN s : s[i] \in Txs /\ fate[s[i]] = "pending" /\ ChainOf(s[i][2]) = chain
        /\ \A i, j \in DOMAIN s : s[i] = s[j] => i = j
    BY <1>1 DEF Queued
  <2>2. ASSUME NEW i \in DOMAIN Tail(s)
        PROVE  /\ fate'[Tail(s)[i]] = "pending" /\ ChainOf(Tail(s)[i][2]) = chain
               /\ \A j \in DOMAIN Tail(s) : Tail(s)[i] = Tail(s)[j] => i = j
    <3>1. i \in Int /\ i >= 1 /\ i + 1 \in DOMAIN s /\ Tail(s)[i] = s[i + 1]
      BY <1>4
    <3>2. s[i + 1] # s[1]
      <4>1. i + 1 # 1
        BY <3>1
      <4> QED BY <1>4, <2>1, <3>1, <4>1
    <3>3. s[i + 1] \in Txs \ {tx}
      BY <1>4, <2>1, <3>1, <3>2
    <3>4. ASSUME NEW j \in DOMAIN Tail(s), Tail(s)[i] = Tail(s)[j] PROVE i = j
      <4>1. j \in Int /\ j + 1 \in DOMAIN s /\ Tail(s)[j] = s[j + 1]
        BY <1>4
      <4>2. i + 1 = j + 1
        BY <2>1, <3>1, <3>4, <4>1
      <4> QED BY <3>1, <4>1, <4>2
    <3>5. fate'[s[i + 1]] = "pending" /\ ChainOf(s[i + 1][2]) = chain
      BY <1>3, <2>1, <3>1, <3>3
    <3> QED BY <3>1, <3>4, <3>5
  <2>3. ASSUME NEW other \in Chains, other # chain, NEW i \in DOMAIN queue[other]
        PROVE  fate'[queue[other][i]] = "pending"
    <3>1. /\ queue[other][i] \in Txs /\ fate[queue[other][i]] = "pending"
          /\ ChainOf(queue[other][i][2]) = other
      BY <1>1 DEF Queued
    <3>2. queue[other][i] # tx
      BY <1>2, <2>3, <3>1
    <3> QED BY <1>3, <3>1, <3>2
  <2>4. ASSUME NEW other \in Chains, NEW i \in DOMAIN queue'[other]
        PROVE  /\ fate'[queue'[other][i]] = "pending" /\ ChainOf(queue'[other][i][2]) = other
               /\ \A j \in DOMAIN queue'[other] : queue'[other][i] = queue'[other][j] => i = j
    <3>1. CASE other = chain
      BY <3>1, <1>5, <2>2
    <3>2. CASE other # chain
      BY <3>2, <1>1, <1>5, <2>3 DEF Queued
    <3> QED BY <3>1, <3>2
  <2> QED BY <2>4 DEF Queued
<1>9. Accounts'
  <2>1. CASE f = "landed"
    BY <2>1, <1>1, <1>2, RunAccounts
  <2>2. CASE f # "landed"
    <3>1. UNCHANGED money
      BY <2>2, <1>2
    <3>2. \A q \in Recalls, any \in TxSteps : Landed(q, any)' = Landed(q, any)
      BY <2>2, <1>2, <1>3, Steps DEF Landed
    <3> QED BY <1>1, <3>1, <3>2, StillAccounts DEF Still, money
  <2> QED BY <2>1, <2>2
<1>10. ASSUME NEW q \in Recalls PROVE Trail(q)'
  <2>1. CASE q # r
    <3>1. \A any \in TxSteps : <<q, any>> \in Txs \ {tx}
      BY <2>1, Steps
    <3> QED BY <2>1, <3>1, <1>1, <1>2, <1>3, <1>6, LeftTrail DEF Left
  <2>2. CASE q = r
    <3>1. \A any \in TxSteps \ {step} : fate'[<<r, any>>] = fate[<<r, any>>]
      <4>1. \A any \in TxSteps \ {step} : <<r, any>> \in Txs \ {tx}
        BY Steps
      <4> QED BY <4>1, <1>3
    <3>2. Ordered(r) /\ \A any \in TxSteps : Passed(r, any)
      BY <1>1 DEF Trail
    <3>3. ASSUME NEW any \in TxSteps PROVE Passed(r, any)'
      <4>1. CASE any = step
        BY <4>1, <1>2, <3>2 DEF Passed
      <4>2. CASE any # step
        BY <4>2, <1>2, <3>1, <3>2 DEF Passed
      <4> QED BY <4>1, <4>2
    <3>4. Ordered(r)'
      <4>1. CASE step = "mint"
        <5>1. /\ fate'[<<r, "deposit">>] = fate[<<r, "deposit">>]
              /\ fate'[<<r, "withdraw">>] = fate[<<r, "withdraw">>]
              /\ fate'[<<r, "approve">>] = fate[<<r, "approve">>]
              /\ fate'[<<r, "mint">>] = f /\ fate[<<r, "mint">>] = "pending"
          BY <4>1, <1>3, <3>1, Steps
        <5>2. attestation[r] # "none" /\ attestation[r] # "used"
          BY <3>2, <5>1 DEF Ordered
        <5>3. IF f = "landed" THEN attestation'[r] = "used"
                              ELSE attestation'[r] = attestation[r]
          BY <1>1, <1>2, <4>1 DEF Run, money, Typed
        <5> QED BY <1>2, <3>2, <5>1, <5>2, <5>3 DEF Ordered
      <4>2. CASE step # "mint"
        <5>1. attestation'[r] = attestation[r]
              /\ fate'[<<r, "mint">>] = fate[<<r, "mint">>]
          BY <4>2, <1>6, <3>1, Steps
        <5>2. \A any \in TxSteps :
                /\ fate[<<r, any>>] = "landed" => fate'[<<r, any>>] = "landed"
                /\ fate'[<<r, any>>] # "none" => fate[<<r, any>>] # "none"
          BY <1>2, <1>3, <3>1
        <5> QED BY <1>2, <3>2, <5>1, <5>2, Steps DEF Ordered
      <4> QED BY <4>1, <4>2
    <3> QED BY <2>2, <3>3, <3>4 DEF Trail
  <2> QED BY <2>1, <2>2
<1>11. ASSUME NEW q \in Recalls PROVE Alone(q)'
  <2>1. SUFFICES ASSUME ~disturbed[q] PROVE Alone(q)'
    BY <1>2 DEF Alone
  <2>2. Alone(q) /\ \A p \in Recalls : Active(p)' <=> Active(p)
    BY <1>1, <1>2 DEF Active
  <2>3. ASSUME Active(q)
        PROVE  /\ \A p \in Recalls \ {q} : ~Active(p)'
               /\ \A other \in Chains : \A i \in DOMAIN queue'[other] :
                    queue'[other][i][1] = q
               /\ fate'[<<q, "approve">>] = "landed" /\ fate'[<<q, "deposit">>] = "none" =>
                    allowance' = Amount[q]
    <3>1. /\ \A p \in Recalls \ {q} : ~Active(p)
          /\ \A other \in Chains : \A i \in DOMAIN queue[other] : queue[other][i][1] = q
          /\ fate[<<q, "approve">>] = "landed" /\ fate[<<q, "deposit">>] = "none" =>
               allowance = Amount[q]
      BY <2>1, <2>2, <2>3 DEF Alone
    <3>2. q = r
      BY <3>1, <1>4
    <3>3. \A other \in Chains : \A i \in DOMAIN queue'[other] : queue'[other][i][1] = q
      <4>1. \A i \in DOMAIN Tail(queue[chain]) : Tail(queue[chain])[i][1] = q
        BY <3>1, <1>4
      <4>2. \A i \in DOMAIN queue'[chain] : queue'[chain][i][1] = q
        BY <4>1, <1>5
      <4>3. ASSUME NEW other \in Chains, other # chain
            PROVE  \A i \in DOMAIN queue'[other] : queue'[other][i][1] = q
        <5>1. queue'[other] = queue[other]
          BY <4>3, <1>5
        <5> QED BY <3>1, <5>1
      <4> QED BY <4>2, <4>3
    <3>4. ASSUME fate'[<<q, "approve">>] = "landed", fate'[<<q, "deposit">>] = "none"
          PROVE  allowance' = Amount[q]
      <4>1. CASE step = "approve"
        <5>1. f = "landed"
          BY <3>2, <3>4, <4>1, <1>3
        <5> QED BY <3>2, <4>1, <5>1, <1>2 DEF Run
      <4>2. CASE step \in {"withdraw", "mint"}
        <5>1. /\ fate'[<<q, "approve">>] = fate[<<q, "approve">>]
              /\ fate'[<<q, "deposit">>] = fate[<<q, "deposit">>]
          BY <4>2, <1>3, Steps
        <5>2. allowance' = allowance
          BY <4>2, <1>2 DEF Run, money
        <5> QED BY <3>1, <3>4, <5>1, <5>2
      <4>3. CASE step = "deposit"
        BY <3>2, <3>4, <4>3, <1>3
      <4> QED BY <4>1, <4>2, <4>3, Steps
    <3> QED BY <2>2, <3>1, <3>3, <3>4
  <2>4. ASSUME fate'[<<q, "deposit">>] = "pending"
        PROVE  /\ queue'["source"] # <<>> /\ Head(queue'["source"]) = <<q, "deposit">>
               /\ allowance' = Amount[q]
    <3>1. <<q, "deposit">> \in Txs
      BY Steps
    <3>2. <<q, "deposit">> # tx /\ fate[<<q, "deposit">>] = "pending"
      BY <2>4, <3>1, <1>3
    <3>3. /\ queue["source"] # <<>> /\ Head(queue["source"]) = <<q, "deposit">>
          /\ allowance = Amount[q]
      BY <2>1, <2>2, <3>2 DEF Alone
    <3>4. chain # "source" /\ "source" \in Chains
      BY <3>2, <3>3, <1>2 DEF Chains
    <3>5. queue'["source"] = queue["source"]
      BY <3>4, <1>5
    <3>6. step = "mint"
      BY <3>4, <1>2 DEF ChainOf
    <3>7. allowance' = allowance
      BY <3>6, <1>2 DEF Run, money
    <3> QED BY <3>3, <3>5, <3>7
  <2> QED BY <2>2, <2>3, <2>4 DEF Alone
<1> QED BY <1>7, <1>8, <1>9, <1>10, <1>11 DEF GatewayInv

LEMMA StepGateway ==
  ASSUME GatewayInv, [Next]_vars
  PROVE  GatewayInv'
<1>1. ASSUME NEW r \in Recalls,
             Call(r) \/ Rejected(r) \/ Submit(r) \/ Answered(r) \/ Sign(r) \/ Attest(r)
      PROVE  GatewayInv'
  <2>1. CASE Rejected(r)
    BY <2>1, PlaceKeeps DEF Rejected, Go
  <2>2. CASE Sign(r)
    BY <2>2, PlaceKeeps DEF Sign, Go, After
  <2> QED BY <1>1, <2>1, <2>2, CallKeeps, SubmitKeeps, AnsweredKeeps, AttestKeeps
<1>2. ASSUME NEW chain \in DOMAIN queue, Settle(chain) PROVE GatewayInv'
  <2>1. DOMAIN queue = Chains
    BY DEF GatewayInv, Typed
  <2> QED BY <1>2, <2>1, SettleKeeps
<1>3. CASE UNCHANGED vars
  <2>1. UNCHANGED <<fate, told, vault, source, allowance, gateway, charged, attestation,
                    destination, queue, pc, disturbed>>
    BY <1>3 DEF vars, wallet, money
  <2>2. Typed' /\ Queued'
    BY <2>1 DEF GatewayInv, Typed, Queued
  <2>3. Accounts'
    BY <2>1, StillAccounts DEF GatewayInv, Still, Landed
  <2>4. \A q \in Recalls : Trail(q)' /\ Alone(q)'
    BY <2>1, LeftTrail DEF GatewayInv, Left, Alone, Active
  <2> QED BY <2>2, <2>3, <2>4 DEF GatewayInv
<1> QED BY <1>1, <1>2, <1>3 DEF Next

LEMMA GatewayInvHolds == Spec => []GatewayInv
<1>1. Init => GatewayInv
  BY InitGateway
<1>2. GatewayInv /\ [Next]_vars => GatewayInv'
  BY StepGateway
<1> QED BY <1>1, <1>2, PTL DEF Spec

-----------------------------------------------------------------------------
(* Every variable of gatewayRecall and of the two chains has its type; no  *)
(* balance goes below zero, in whatever order the transactions of the      *)
(* recalls land (FloatClient.ts, lines 265-437).                           *)
THEOREM TypeCorrect == Spec => []Typed
<1>1. GatewayInv => Typed
  BY DEF GatewayInv
<1> QED BY <1>1, GatewayInvHolds, PTL

(* For any number of recalls that fail anywhere, time out and land late    *)
(* (FloatClient.ts, lines 284-437): vault, wallet and Gateway hold exactly *)
(* the amounts of the recalls that stopped there, and what the wallet held *)
(* before is not sent across.                                              *)
THEOREM MoneyIsWhereItStopped == Spec => []MoneyStaysWhereItStopped
<1>1. ASSUME GatewayInv PROVE MoneyStaysWhereItStopped
  <2>1. Total(Waiting) \in Nat /\ Source0 \in Nat
    BY TotalNat, Amounts DEF Waiting
  <2>2. source = Source0 + Total(Waiting)
    BY <1>1 DEF GatewayInv, Accounts
  <2>3. source >= Source0
    BY <2>1, <2>2
  <2> QED BY <1>1, <2>3 DEF GatewayInv, Accounts, MoneyStaysWhereItStopped,
                            Withdrawn, Waiting, Deposited
<1> QED BY <1>1, GatewayInvHolds, PTL

(* COMPLETE (FloatClient.ts, lines 421-437) is returned for what has been  *)
(* minted, and every amount is minted once; what else was minted is of a   *)
(* recall that threw in its last step.                                     *)
THEOREM CompleteIsMinted == Spec => []CompleteIsPaid
<1>1. ASSUME GatewayInv PROVE CompleteIsPaid
  <2>1. destination = Total({r \in Recalls : attestation[r] = "used"})
    BY <1>1 DEF GatewayInv, Accounts, Minted
  <2>2. ASSUME NEW r \in Recalls
        PROVE  /\ pc[r] = "complete" => attestation[r] = "used"
               /\ attestation[r] = "used" =>
                    pc[r] \in {"mint", "complete"} \/ told[<<r, "mint">>] = "thrown"
    <3>1. Passed(r, "mint") /\ Ordered(r)
      BY <1>1, Steps DEF GatewayInv, Trail
    <3> QED BY <3>1 DEF Passed, Ordered, Later
  <2> QED BY <2>1, <2>2 DEF CompleteIsPaid
<1> QED BY <1>1, GatewayInvHolds, PTL

(* A recall that had the source wallet for itself (FloatClient.ts, lines   *)
(* 294-303) finds its own approval and its own money when its deposit      *)
(* runs, even if it gave up waiting for it; and its attestation when it    *)
(* mints.                                                                  *)
THEOREM AloneSucceeds == Spec => []AloneNeverReverts
<1>1. ASSUME GatewayInv PROVE AloneNeverReverts
  <2>1. ASSUME NEW chain \in DOMAIN queue, queue[chain] # <<>>
        PROVE  LET tx == Head(queue[chain]) IN
                 disturbed[tx[1]] \/ tx[2] = "withdraw" \/ Possible(tx[1], tx[2])
    <3> DEFINE tx == Head(queue[chain])
               r == tx[1]
    <3>1. queue \in [Chains -> Seq(Txs)] /\ chain \in Chains /\ Typed /\ Queued
      BY <1>1 DEF GatewayInv, Typed
    <3>2. tx \in Txs /\ tx = queue[chain][1] /\ 1 \in DOMAIN queue[chain]
      BY <2>1, <3>1, Taken
    <3>3. fate[tx] = "pending"
      BY <3>1, <3>2 DEF Queued
    <3>4. r \in Recalls /\ tx[2] \in TxSteps /\ tx = <<r, tx[2]>>
      BY <3>2, Steps
    <3> HIDE DEF tx, r
    <3>5. Ordered(r) /\ Alone(r) /\ attestation[r] \in {"none", "held", "used"}
      BY <1>1, <3>4 DEF GatewayInv, Trail, Typed
    <3>6. CASE tx[2] = "deposit" /\ ~disturbed[r]
      <4>1. fate[<<r, "deposit">>] = "pending"
        BY <3>3, <3>4, <3>6
      <4>2. allowance = Amount[r] /\ Amount[r] \in Nat
        BY <3>4, <3>5, <3>6, <4>1, Amounts DEF Alone
      <4>3. r \in Waiting
        BY <3>4, <3>5, <4>1 DEF Ordered, Waiting, Landed
      <4>4. source >= Amount[r]
        <5>1. Waiting \in SUBSET Recalls
          BY DEF Waiting
        <5>2. Amount[r] <= Total(Waiting) /\ Total(Waiting) \in Nat
          BY <4>3, <5>1, TotalRemove, TotalNat
        <5>3. source = Source0 + Total(Waiting)
          BY <1>1 DEF GatewayInv, Accounts
        <5> QED BY <4>2, <5>2, <5>3, Amounts
      <4> QED BY <3>6, <4>2, <4>4 DEF Possible, tx, r
    <3>7. CASE tx[2] = "mint"
      <4>1. fate[<<r, "mint">>] = "pending"
        BY <3>3, <3>4, <3>7
      <4>2. attestation[r] = "held"
        BY <3>5, <4>1 DEF Ordered
      <4> QED BY <3>7, <4>2 DEF Possible, tx, r
    <3>8. CASE tx[2] = "approve"
      BY <3>8 DEF Possible, tx, r
    <3> QED BY <3>4, <3>6, <3>7, <3>8, Steps DEF tx, r
  <2> QED BY <2>1 DEF AloneNeverReverts
<1> QED BY <1>1, GatewayInvHolds, PTL
=============================================================================
