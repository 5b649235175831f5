---------------------------- MODULE FlowProofs ------------------------------
(***************************************************************************)
(* The services: the policy, the market data and the flow that rests on    *)
(* both.                                                                   *)
(*   policy   what authorityIncreased and validatePolicy guarantee for     *)
(*            every set of policies and of proposed actions, and after any *)
(*            chain of changes                                             *)
(*   flow     for every goal text, log of the indexer, fee and haircut:    *)
(*            the nets agree, a position fits beside the reserve, the gate *)
(*            permits what was planned and the ledger takes what was sent. *)
(*            The invariant says of each stage what the stages before have *)
(*            made true of the call                                        *)
(*   indexer  for every feed, every way to write its pools and every way   *)
(*            to deliver it, spoilt versions included: the cursors are     *)
(*            right, and a snapshot does not tell how its events came      *)
(***************************************************************************)
EXTENDS PolicyAmendments, ManagedFlow, IndexerFeed,
        FiniteSetTheorems, FunctionTheorems, WellFoundedInduction,
        NaturalsInduction, TLAPS

-----------------------------------------------------------------------------
(* Arithmetic of applyBps.                                                 *)

(* A product of naturals grows with either factor.                         *)
LEMMA ProductMonotone ==
  ASSUME NEW a \in Nat, NEW b \in Nat, NEW c \in Nat, NEW d \in Nat,
         a <= c, b <= d
  PROVE  a * b <= c * d
<1>1. a * b <= c * b
  <2>1. PICK k \in Nat : c = a + k
    <3>1. c - a \in Nat /\ c = a + (c - a)
      OBVIOUS
    <3> QED BY <3>1
  <2>2. c * b = a * b + k * b
    BY <2>1
  <2>3. k * b \in Nat /\ a * b \in Nat
    OBVIOUS
  <2> QED BY <2>2, <2>3
<1>2. c * b <= c * d
  <2>1. PICK k \in Nat : d = b + k
    <3>1. d - b \in Nat /\ d = b + (d - b)
      OBVIOUS
    <3> QED BY <3>1
  <2>2. c * d = c * b + c * k
    BY <2>1
  <2>3. c * k \in Nat /\ c * b \in Nat
    OBVIOUS
  <2> QED BY <2>2, <2>3
<1>3. a * b \in Nat /\ c * b \in Nat /\ c * d \in Nat
  OBVIOUS
<1> QED BY <1>1, <1>2, <1>3

(* A floored quotient grows with its dividend.                             *)
LEMMA QuotientMonotone ==
  ASSUME NEW x \in Nat, NEW y \in Nat, x <= y
  PROVE  x \div 10000 \in Nat /\ x \div 10000 <= y \div 10000
OBVIOUS

(* A larger amount or more basis points never give a smaller cap.          *)
LEMMA ApplyBpsMonotone ==
  ASSUME NEW a \in Nat, NEW b \in Nat, NEW c \in Nat, NEW d \in Nat,
         a <= c, b <= d
  PROVE  applyBps(a, b) \in Nat /\ applyBps(a, b) <= applyBps(c, d)
<1>1. a * b \in Nat /\ c * d \in Nat /\ a * b <= c * d
  BY ProductMonotone
<1> DEFINE x == a * b
           y == c * d
<1>2. x \div 10000 \in Nat /\ x \div 10000 <= y \div 10000
  <2> HIDE DEF x, y
  <2>1. x \in Nat /\ y \in Nat /\ x <= y
    BY <1>1 DEF x, y
  <2> QED BY <2>1, QuotientMonotone
<1> QED BY <1>2 DEF applyBps

LEMMA ApplyBpsNat ==
  ASSUME NEW a \in Nat, NEW b \in Nat
  PROVE  applyBps(a, b) \in Nat
<1>1. a <= a /\ b <= b
  OBVIOUS
<1> QED BY <1>1, ApplyBpsMonotone

(* A share of at most 10000 basis points is no more than the whole.        *)
LEMMA ApplyBpsBounded ==
  ASSUME NEW a \in Nat, NEW b \in Nat, b <= 10000
  PROVE  applyBps(a, b) \in 0..a
<1>1. applyBps(a, b) \in Nat /\ applyBps(a, b) <= applyBps(a, 10000)
  BY ApplyBpsMonotone
<1>2. applyBps(a, 10000) = a
  BY DEF applyBps
<1> QED BY <1>1, <1>2

-----------------------------------------------------------------------------
(* The comparison that the chain of changes preserves.                     *)

(* No component of p is wider than that of q.                              *)
Narrower(p, q) ==
  /\ \A c \in Caps : p.cap[c] <= q.cap[c]
  /\ p.reserve >= q.reserve
  /\ \A l \in Lists : p.list[l] \subseteq q.list[l]
  /\ p.allow \subseteq q.allow

(* A policy is no wider than itself.                                       *)
LEMMA NarrowerReflexive ==
  ASSUME NEW p \in PolicyRecord
  PROVE  Narrower(p, p)
BY DEF Narrower, PolicyRecord

(* A chain of narrowing changes narrows.                                   *)
LEMMA NarrowerTransitive ==
  ASSUME NEW p \in PolicyRecord, NEW q \in PolicyRecord,
         NEW r \in PolicyRecord, Narrower(p, q), Narrower(q, r)
  PROVE  Narrower(p, r)
<1>1. \A c \in Caps : p.cap[c] <= r.cap[c]
  <2> TAKE c \in Caps
  <2>1. p.cap[c] \in Nat /\ q.cap[c] \in Nat /\ r.cap[c] \in Nat
    BY DEF PolicyRecord
  <2>2. p.cap[c] <= q.cap[c] /\ q.cap[c] <= r.cap[c]
    BY DEF Narrower
  <2> QED BY <2>1, <2>2
<1>2. p.reserve >= r.reserve
  BY DEF Narrower, PolicyRecord
<1>3. \A l \in Lists : p.list[l] \subseteq r.list[l]
  BY DEF Narrower
<1>4. p.allow \subseteq r.allow
  BY DEF Narrower
<1> QED BY <1>1, <1>2, <1>3, <1>4 DEF Narrower

(* A change that is not reported narrows the policy in every component.    *)
LEMMA UnreportedIsNarrower ==
  ASSUME NEW p \in PolicyRecord, NEW q \in PolicyRecord,
         ~authorityIncreased(p, q)
  PROVE  Narrower(q, p)
<1>1. \A c \in Caps : q.cap[c] <= p.cap[c]
  <2> TAKE c \in Caps
  <2>1. p.cap[c] \in Nat /\ q.cap[c] \in Nat
    BY DEF PolicyRecord
  <2>2. ~(q.cap[c] > p.cap[c])
    BY DEF authorityIncreased
  <2> QED BY <2>1, <2>2
<1>2. q.reserve >= p.reserve
  BY DEF authorityIncreased, PolicyRecord
<1>3. \A l \in Lists : q.list[l] \subseteq p.list[l]
  BY DEF authorityIncreased, addedEntries
<1>4. q.allow \subseteq p.allow
  BY DEF authorityIncreased, PolicyRecord
<1> QED BY <1>1, <1>2, <1>3, <1>4 DEF Narrower

(* What passes the gates of a narrower policy passes those of a wider one. *)
LEMMA NarrowerPermitsLess ==
  ASSUME NEW p \in PolicyRecord, NEW q \in PolicyRecord, Narrower(p, q),
         NEW a \in ProposedAction, PassesGates(p, a)
  PROVE  PassesGates(q, a)
<1>1. \A c \in MeasuredCaps : a.measure[c] <= q.cap[c]
  <2> TAKE c \in MeasuredCaps
  <2>1. c \in Caps
    BY DEF Caps
  <2>2. p.cap[c] \in Nat /\ q.cap[c] \in Nat /\ a.measure[c] \in Int
    BY <2>1 DEF PolicyRecord, ProposedAction
  <2>3. a.measure[c] <= p.cap[c] /\ p.cap[c] <= q.cap[c]
    BY <2>1 DEF PassesGates, Narrower
  <2> QED BY <2>2, <2>3
<1>2. \A c \in Ages : a.measure[c] >= 0
  BY DEF PassesGates
<1>3. a.type \in q.allow
  BY DEF PassesGates, Narrower
<1>4. \A l \in Lists : norm(a.touches[l]) \subseteq norm(q.list[l])
  <2> TAKE l \in Lists
  <2>1. p.list[l] \subseteq q.list[l]
    BY DEF Narrower
  <2>2. norm(p.list[l]) \subseteq norm(q.list[l])
    BY <2>1 DEF norm
  <2>3. norm(a.touches[l]) \subseteq norm(p.list[l])
    BY DEF PassesGates
  <2> QED BY <2>2, <2>3
<1>5. a.notional >= 0
  BY DEF PassesGates
<1>6. ASSUME a.type \in {"ENTER", "SWAP"}
      PROVE  a.notional <= maxPositionAtomic(q)
  <2> DEFINE pb == p.cap["capitalBudget"]
             pm == p.cap["maxPositionBps"]
             qb == q.cap["capitalBudget"]
             qm == q.cap["maxPositionBps"]
  <2>1. /\ pb \in Nat /\ pm \in Nat /\ qb \in Nat /\ qm \in Nat
        /\ pb <= qb /\ pm <= qm
    BY DEF PolicyRecord, Narrower, Caps
  <2>2. /\ applyBps(pb, pm) \in Nat
        /\ applyBps(qb, qm) \in Nat
        /\ applyBps(pb, pm) <= applyBps(qb, qm)
    <3> HIDE DEF pb, pm, qb, qm
    <3>1. qb <= qb /\ qm <= qm
      BY <2>1
    <3> QED BY <2>1, <3>1, ApplyBpsMonotone
  <2>3. a.notional <= applyBps(pb, pm)
    BY <1>6 DEF PassesGates, WithinPosition, maxPositionAtomic
  <2>4. a.notional \in Int
    BY DEF ProposedAction
  <2>5. a.notional <= applyBps(qb, qm)
    <3> HIDE DEF pb, pm, qb, qm
    <3> QED BY <2>2, <2>3, <2>4
  <2> QED BY <2>5 DEF maxPositionAtomic
<1> QED BY <1>1, <1>2, <1>3, <1>4, <1>5, <1>6 DEF PassesGates, WithinPosition

-----------------------------------------------------------------------------
(* The inductive invariant of PolicyAmendments.                            *)

PolicyInv ==
  /\ policy \in Policies /\ approved \in Policies
  /\ validatePolicy(policy)
  /\ Narrower(policy, approved)

(* The first policy is legal and the approved one.                         *)
LEMMA InitPolicyInv == InitPolicy => PolicyInv
BY AmendmentAssumption, NarrowerReflexive DEF InitPolicy, PolicyInv

(* Both kinds of change keep the invariant.                                *)
LEMMA NextPolicyInv == PolicyInv /\ [NextPolicy]_policyVars => PolicyInv'
<1> SUFFICES ASSUME PolicyInv, [NextPolicy]_policyVars
             PROVE  PolicyInv'
  OBVIOUS
<1> USE AmendmentAssumption
<1>1. ASSUME NEW p \in Policies, Amend(p)
      PROVE  PolicyInv'
  <2>1. Narrower(p, policy)
    BY <1>1, UnreportedIsNarrower DEF Amend, PolicyInv
  <2>2. Narrower(p, approved)
    BY <2>1, NarrowerTransitive DEF PolicyInv
  <2> QED BY <1>1, <2>2 DEF Amend, PolicyInv
<1>2. ASSUME NEW p \in Policies, Approve(p)
      PROVE  PolicyInv'
  BY <1>2, NarrowerReflexive DEF Approve, PolicyInv
<1>3. CASE UNCHANGED policyVars
  BY <1>3 DEF policyVars, PolicyInv
<1> QED BY <1>1, <1>2, <1>3 DEF NextPolicy

(* The policy in force is legal and no wider than the approved one.        *)
THEOREM PolicyInductive == PolicySpec => []PolicyInv
BY InitPolicyInv, NextPolicyInv, PTL DEF PolicySpec

(* The policy in force is legal and its compiled position cap is a part of *)
(* the budget, for every set of policies (compilePermissions, applyBps).   *)
THEOREM PolicyTypeCorrect == PolicySpec => []PolicyTyped
<1>1. PolicyInv => PolicyTyped
  <2> SUFFICES ASSUME PolicyInv
               PROVE  maxPositionAtomic(policy)
                        \in 0..policy.cap["capitalBudget"]
    BY DEF PolicyInv, PolicyTyped
  <2>1. /\ policy.cap["capitalBudget"] \in Nat
        /\ policy.cap["maxPositionBps"] \in Nat
    BY AmendmentAssumption DEF PolicyInv, PolicyRecord, Caps
  <2>2. policy.cap["maxPositionBps"] <= 10000
    <3>1. validatePolicy(policy)
      BY DEF PolicyInv
    <3>2. \A c \in BPS_FIELDS : isValidBps(policy.cap[c])
      BY <3>1, Zenon DEF validatePolicy
    <3>3. "maxPositionBps" \in BPS_FIELDS
      BY DEF BPS_FIELDS
    <3>4. isValidBps(policy.cap["maxPositionBps"])
      BY <3>2, <3>3
    <3>5. \A m \in Nat : isValidBps(m) => m <= 10000
      BY DEF isValidBps
    <3> QED BY <2>1, <3>4, <3>5
  <2> QED BY <2>1, <2>2, ApplyBpsBounded DEF maxPositionAtomic
<1> QED BY <1>1, PolicyInductive, PTL

(* After any chain of changes that authorityIncreased does not report, an  *)
(* action that checkAction permits passes the gates of the policy that the *)
(* owner last approved: only the pause can differ.                         *)
THEOREM NothingGainedSilently == PolicySpec => []WithinApproval
<1>1. PolicyInv => WithinApproval
  BY AmendmentAssumption, NarrowerPermitsLess
     DEF PolicyInv, WithinApproval, checkAction
<1> QED BY <1>1, PolicyInductive, PTL

(* With a legal policy, an entry or a swap that checkAction permits leaves *)
(* the reserve in the budget.                                              *)
THEOREM ReserveIsSafe == PolicySpec => []ReserveSurvives
<1>1. PolicyInv => ReserveSurvives
  <2> SUFFICES ASSUME PolicyInv, NEW a \in ProposedActions,
                      checkAction(policy, a), a.type \in {"ENTER", "SWAP"}
               PROVE  policy.cap["capitalBudget"] - a.notional
                        >= policy.reserve
    BY DEF ReserveSurvives
  <2>1. /\ policy.cap["capitalBudget"] \in Nat
        /\ policy.cap["maxPositionBps"] \in Nat
        /\ policy.reserve \in Nat
        /\ a.notional \in Int
    BY AmendmentAssumption DEF PolicyInv, PolicyRecord, ProposedAction, Caps
  <2>2. a.notional <= maxPositionAtomic(policy)
    BY DEF checkAction, PassesGates, WithinPosition
  <2>3. maxPositionAtomic(policy) \in Nat
    BY <2>1, ApplyBpsNat DEF maxPositionAtomic
  <2>4. maxPositionAtomic(policy) + policy.reserve
          <= policy.cap["capitalBudget"]
    BY DEF PolicyInv, validatePolicy, FitsBudget
  <2> QED BY <2>1, <2>2, <2>3, <2>4
<1> QED BY <1>1, PolicyInductive, PTL

-----------------------------------------------------------------------------
(* The managed flow.  First what parseGoal reads from any text: a budget   *)
(* and percentages that are naturals where they are stated.                *)
Item  == [word : STRING, n : Nat]
IsDraft(d) ==
  /\ d.mode \in GOAL_MODES /\ d.avoid \in BOOLEAN /\ d.ask \in BOOLEAN
  /\ \A field \in Nullable : d[field] \in Nat \cup {Unstated}

(* A set of places that is not empty has a first one.                      *)
LEMMA FirstPlace ==
  ASSUME NEW T \in SUBSET Nat, T # {}
  PROVE  \E i \in T : \A j \in T : i <= j
<1>1. \E i \in T : \A j \in T : ~(<<j, i>> \in OpToRel(<, Nat))
  BY NatLessThanWellFounded, WFMin
<1>2. \A i \in T : \A j \in T :
        (~(<<j, i>> \in OpToRel(<, Nat))) => ~(j < i)
  BY Zenon DEF OpToRel
<1>3. \E i \in T : \A j \in T : ~(j < i)
  BY <1>1, <1>2, Zenon
<1> QED BY <1>3

(* A text that has one of some words has a first one of them.              *)
LEMMA FirstWord ==
  ASSUME NEW text \in Seq(Item), NEW words, Has(text, words)
  PROVE  \E i \in DOMAIN text : /\ text[i].word \in words
                                /\ \A j \in 1..(i - 1) : text[j].word \notin words
<1> DEFINE T == {i \in DOMAIN text : text[i].word \in words}
<1>1. DOMAIN text = 1..Len(text) /\ Len(text) \in Nat
  OBVIOUS
<1>2. T \in SUBSET Nat /\ T # {}
  BY <1>1 DEF Has
<1>3. PICK i \in T : \A j \in T : i <= j
  <2> HIDE DEF T
  <2> QED BY <1>2, FirstPlace
<1> QED BY <1>1, <1>3

LEMMA ItemsTyped ==
  ASSUME NEW text \in Seq(Item)
  PROVE  \A i \in DOMAIN text : text[i].n \in Nat
<1>1. \A i \in DOMAIN text : text[i] \in Item
  OBVIOUS
<1>2. \A item \in Item : item.n \in Nat
  BY DEF Item
<1> QED BY <1>1, <1>2

(* An amount is a natural.                                                 *)
LEMMA AmountTyped ==
  ASSUME NEW text \in Seq(Item)
  PROVE  parseUsdcAmount(text) \in Nat \cup {Unstated}
<1> DEFINE Marked(i) == text[i].word \in {"dollars", "usdcs"}
           Number(i) == text[i].word \in {"dollars", "usdcs", "percent", "number"}
           m == CHOOSE i \in DOMAIN text : Marked(i) /\ \A j \in 1..(i - 1) : ~Marked(j)
           a == CHOOSE i \in DOMAIN text : Number(i) /\ \A j \in 1..(i - 1) : ~Number(j)
<1>1. CASE ~Has(text, {"dollars", "usdcs"})
  BY <1>1 DEF parseUsdcAmount, FirstOf
<1>2. CASE Has(text, {"dollars", "usdcs"})
  <2>1. Has(text, {"dollars", "usdcs", "percent", "number"})
    BY <1>2 DEF Has
  <2>2. m \in DOMAIN text
    BY <1>2, FirstWord
  <2>3. a \in DOMAIN text
    BY <2>1, FirstWord
  <2>4. parseUsdcAmount(text) \in {text[m].n, text[a].n}
    BY <1>2 DEF parseUsdcAmount, FirstOf
  <2> QED BY <2>2, <2>3, <2>4, ItemsTyped
<1> QED BY <1>1, <1>2

(* So is a percentage, whatever the keywords.                              *)
LEMMA PercentTyped ==
  ASSUME NEW text \in Seq(Item), NEW keywords, DOMAIN keywords \subseteq Nat
  PROVE  parsePercentBps(text, keywords) \in Nat \cup {Unstated}
<1> DEFINE at(k) == CHOOSE i \in DOMAIN text :
                      text[i].word = keywords[k]
                      /\ \A j \in 1..(i - 1) : ~(text[j].word = keywords[k])
           near(k) == IF Has(text, {keywords[k]})
                      THEN SubSeq(text, IF at(k) = 1 THEN 1 ELSE at(k) - 1,
                                  IF at(k) = Len(text) THEN at(k) ELSE at(k) + 1)
                      ELSE <<>>
           hits == {k \in DOMAIN keywords : Has(near(k), {"percent"})}
           hit  == CHOOSE k \in hits : \A h \in hits : k <= h
           first(s) == CHOOSE i \in DOMAIN s : s[i].word = "percent"
                         /\ \A j \in 1..(i - 1) : ~(s[j].word = "percent")
<1>1. ASSUME NEW k \in DOMAIN keywords
      PROVE  near(k) \in Seq(Item)
  <2>1. CASE Has(text, {keywords[k]})
    <3>1. at(k) \in DOMAIN text
      BY <2>1, FirstWord
    <3>2. DOMAIN text = 1..Len(text) /\ Len(text) \in Nat
      OBVIOUS
    <3> DEFINE lo == IF at(k) = 1 THEN 1 ELSE at(k) - 1
               hi == IF at(k) = Len(text) THEN at(k) ELSE at(k) + 1
    <3>3. lo \in 1..Len(text) /\ hi \in 1..Len(text)
      <4> HIDE DEF at
      <4> QED BY <3>1, <3>2
    <3>4. SubSeq(text, lo, hi) \in Seq(Item)
      <4> HIDE DEF lo, hi
      <4> QED BY <3>2, <3>3
    <3> QED BY <2>1, <3>4
  <2>2. CASE ~Has(text, {keywords[k]})
    BY <2>2
  <2> QED BY <2>1, <2>2
<1>2. parsePercentBps(text, keywords) =
        IF hits = {} THEN Unstated ELSE near(hit)[first(near(hit))].n
  BY DEF parsePercentBps, FirstOf
<1>3. ASSUME hits # {}
      PROVE  near(hit)[first(near(hit))].n \in Nat
  <2>1. hits \in SUBSET Nat
    <3> HIDE DEF near
    <3> QED OBVIOUS
  <2>2. hit \in hits
    <3>1. \E k \in hits : \A h \in hits : k <= h
      <4> HIDE DEF hits
      <4> QED BY <1>3, <2>1, FirstPlace
    <3> HIDE DEF hits
    <3> QED BY <3>1
  <2> DEFINE s == near(hit)
  <2>3. s \in Seq(Item) /\ Has(s, {"percent"})
    <3> HIDE DEF hit, near
    <3> QED BY <1>1, <2>2
  <2>4. s[first(s)].n \in Nat
    <3> HIDE DEF s
    <3>1. first(s) \in DOMAIN s
      BY <2>3, FirstWord
    <3> QED BY <2>3, <3>1, ItemsTyped
  <2> QED BY <2>4
<1> HIDE DEF hits, hit, near, first
<1> QED BY <1>2, <1>3

(* What the flow starts from.                                              *)
LEMMA DraftTyped ==
  ASSUME NEW text \in Seq(Item)
  PROVE  IsDraft(parseGoal(text))
<1> DEFINE r == <<"reserve", "in_usdc", "keep", "hold_back", "cash">>
           p == <<"per_position", "position_to", "any_one_position",
                  "each_position", "limit">>
           d == parseGoal(text)
<1>1. DOMAIN r \subseteq Nat
  OBVIOUS
<1>2. DOMAIN p \subseteq Nat
  OBVIOUS
<1>3. /\ parseUsdcAmount(text) \in Nat \cup {Unstated}
      /\ parsePercentBps(text, r) \in Nat \cup {Unstated}
      /\ parsePercentBps(text, p) \in Nat \cup {Unstated}
  <2> HIDE DEF r, p
  <2> QED BY <1>1, <1>2, AmountTyped, PercentTyped
<1>4. d.mode \in GOAL_MODES
  BY DEF parseGoal, GOAL_MODES
<1>5. d.avoid \in BOOLEAN /\ d.ask \in BOOLEAN
  BY DEF parseGoal
<1>6. /\ d.budget = parseUsdcAmount(text)
      /\ d.reserveBps = parsePercentBps(text, r)
      /\ d.maxPositionBps = parsePercentBps(text, p)
  BY DEF parseGoal
<1>7. IsDraft(d)
  <2> HIDE DEF d
  <2> QED BY <1>3, <1>4, <1>5, <1>6 DEF IsDraft, Nullable
<1> QED BY <1>7

-----------------------------------------------------------------------------
(* The policy of a call and the size that follows from it.                 *)

Lawful(p, draft) ==
  /\ draft.budget \in Nat
  /\ p.cap["capitalBudget"] = draft.budget
  /\ p.cap["maxPositionBps"] \in Nat /\ p.reserve \in Nat
  /\ validatePolicy(p)

(* What the flow puts into every policy.                                   *)
Built(p, draft) ==
  /\ p.cap["maxSlippageBps"] = 50 /\ p.cap["maxPriceImpactBps"] = 100
  /\ p.cap["maxGasPerAction"] = Usdc /\ p.cap["maxQuoteAge"] = 30
  /\ p.cap["maxDataAge"] = MaxDataAge
  /\ "ENTER" \in p.allow <=> draft.ask \/ ~draft.avoid
  /\ ~p.paused

LEMMA PolicyIsBuilt == Built(policyOf, call.draft)
<1>1. /\ policyOf.cap["maxSlippageBps"] = 50 /\ policyOf.cap["maxPriceImpactBps"] = 100
      /\ policyOf.cap["maxGasPerAction"] = Usdc /\ policyOf.cap["maxQuoteAge"] = 30
      /\ policyOf.cap["maxDataAge"] = MaxDataAge
  BY DEF policyOf, Caps, MeasuredCaps
<1>2. policyOf.paused = FALSE
  BY DEF policyOf
<1>3. policyOf.allow = {"RANGE_CHANGE", "COLLECT", "EXIT"} \cup
        (IF call.draft.ask \/ ~call.draft.avoid THEN {"ENTER"} ELSE {})
  BY DEF policyOf, allowNewPoolEntry
<1>4. "ENTER" \in policyOf.allow <=> call.draft.ask \/ ~call.draft.avoid
  BY <1>3
<1> QED BY <1>1, <1>2, <1>4 DEF Built

LEMMA StatedTyped ==
  ASSUME IsDraft(call.draft), NEW field \in {"maxPositionBps", "reserveBps"}
  PROVE  stated(field) \in Nat
<1>1. call.draft[field] \in Nat \cup {Unstated}
  BY DEF IsDraft, Nullable
<1>2. DRAFT_DEFAULTS[call.draft.mode][field] \in Nat
  BY DEF IsDraft, DRAFT_DEFAULTS, GOAL_MODES
<1> QED BY <1>1, <1>2 DEF stated

LEMMA PolicyOfDraft ==
  ASSUME IsDraft(call.draft), call.draft.budget # Unstated, validatePolicy(policyOf)
  PROVE  Lawful(policyOf, call.draft)
<1>1. call.draft.budget \in Nat
  BY DEF IsDraft, Nullable
<1>2. policyOf.cap["capitalBudget"] = call.draft.budget
  BY DEF policyOf, Caps, MeasuredCaps
<1>3. policyOf.cap["maxPositionBps"] = stated("maxPositionBps")
  BY DEF policyOf, Caps, MeasuredCaps
<1>4. policyOf.reserve = applyBps(call.draft.budget, stated("reserveBps"))
  BY DEF policyOf
<1>5. stated("maxPositionBps") \in Nat /\ stated("reserveBps") \in Nat
  BY StatedTyped
<1>6. policyOf.reserve \in Nat
  BY <1>1, <1>4, <1>5, ApplyBpsNat
<1> QED BY <1>1, <1>2, <1>3, <1>5, <1>6 DEF Lawful

(* A legal policy's cap fits beside its reserve, so the size is the cap.   *)
LEMMA SizeIsCap ==
  ASSUME Lawful(call.policy, call.draft)
  PROVE  /\ amount = maxPositionAtomic(call.policy) /\ amount \in Nat
         /\ call.draft.budget - amount >= call.policy.reserve
<1> DEFINE cap == maxPositionAtomic(call.policy)
<1>1. cap \in Nat
  BY ApplyBpsNat DEF Lawful, maxPositionAtomic
<1>2. cap + call.policy.reserve <= call.draft.budget
  BY DEF Lawful, validatePolicy, FitsBudget
<1>3. call.draft.budget \in Nat /\ call.policy.reserve \in Nat
  BY DEF Lawful
<1>4. amount = IF cap > call.draft.budget - call.policy.reserve
               THEN call.draft.budget - call.policy.reserve ELSE cap
  BY DEF amount
<1> HIDE DEF cap
<1>5. amount = cap
  BY <1>1, <1>2, <1>3, <1>4
<1> QED BY <1>1, <1>2, <1>3, <1>5 DEF cap

-----------------------------------------------------------------------------
(* The age of a snapshot is a number, whatever the log.                    *)

(* Among some places of a log one has the latest time.                     *)
LEMMA LatestExists ==
  ASSUME NEW times, NEW n \in Nat, NEW T \in SUBSET (1..n), T # {},
         \A i \in T : times[i] \in Int
  PROVE  \E i \in T : \A j \in T : times[j] <= times[i]
<1> DEFINE Upto(k) == {j \in T : j <= k}
           Good == {k \in Nat : Upto(k) # {} =>
                      \E i \in Upto(k) : \A j \in Upto(k) : times[j] <= times[i]}
           Wrong  == Nat \ Good
<1>0. \A j \in T : j \in Nat /\ 1 <= j /\ j <= n
  OBVIOUS
<1>1. Wrong = {}
  <2> SUFFICES ASSUME Wrong # {} PROVE FALSE
    OBVIOUS
  <2>1. PICK k \in Wrong : \A m \in Wrong : k <= m
    <3>1. Wrong \in SUBSET Nat
      OBVIOUS
    <3> HIDE DEF Wrong
    <3> QED BY <3>1, FirstPlace
  <2>2. k \in Nat /\ k \notin Good
    BY <2>1
  <2>3. k # 0
    <3>1. \A j \in T : ~(j <= 0)
      BY <1>0
    <3>2. Upto(0) = {}
      BY <3>1
    <3> QED BY <2>2, <3>2
  <2>4. k - 1 \in Good
    BY <2>1, <2>2, <2>3
  <2>5. Upto(k) = IF k \in T THEN Upto(k - 1) \cup {k} ELSE Upto(k - 1)
    <3>1. \A j \in T : j <= k <=> j <= k - 1 \/ j = k
      BY <1>0, <2>2, <2>3
    <3> QED BY <2>2, <3>1
  <2>6. CASE k \notin T
    BY <2>2, <2>4, <2>5, <2>6
  <2>7. CASE k \in T
    <3>1. CASE Upto(k - 1) = {}
      BY <2>2, <2>5, <2>7, <3>1
    <3>2. CASE Upto(k - 1) # {}
      <4>1. PICK i \in Upto(k - 1) : \A j \in Upto(k - 1) : times[j] <= times[i]
        BY <2>4, <3>2
      <4>2. times[i] \in Int /\ times[k] \in Int
        BY <2>7
      <4>3. \A j \in Upto(k - 1) : times[j] \in Int
        OBVIOUS
      <4>4. CASE times[k] <= times[i]
        BY <2>2, <2>5, <2>7, <4>1, <4>2, <4>4
      <4>5. CASE times[i] < times[k]
        <5>1. \A j \in Upto(k) : times[j] <= times[k]
          BY <2>5, <2>7, <4>1, <4>2, <4>3, <4>5
        <5>2. k \in Upto(k)
          BY <2>5, <2>7
        <5> QED BY <2>2, <5>1, <5>2
      <4> QED BY <4>2, <4>4, <4>5
    <3> QED BY <3>1, <3>2
  <2> QED BY <2>6, <2>7
<1>2. Upto(n) = T
  BY <1>0
<1>3. n \in Good
  <2> HIDE DEF Good
  <2> QED BY <1>1
<1> QED BY <1>2, <1>3

LEMMA LogTyped ==
  ASSUME NEW log \in Logs
  PROVE  /\ DOMAIN log = 1..Len(log) /\ Len(log) \in Nat
         /\ \A i \in DOMAIN log : log[i].time \in Int
<1> DEFINE E == [key : Nat, pool : STRING, chain : STRING, block : Nat, time : Nat,
                 liquidity : Int, volume : Nat, fees : Nat]
<1>1. log \in Seq(E)
  BY FlowAssumption
<1>2. \A e \in E : e.time \in Int
  OBVIOUS
<1> HIDE DEF E
<1>3. \A i \in DOMAIN log : log[i] \in E
  BY <1>1
<1> QED BY <1>1, <1>2, <1>3

(* The newest event of a pool is one of its events, and none is later.     *)
LEMMA NewestIsLatest ==
  ASSUME NEW log, NEW n \in Nat, DOMAIN log = 1..n,
         \A i \in DOMAIN log : log[i].time \in Int,
         NEW pool, InPool(log, pool) # {}
  PROVE  /\ Newest(log, pool) \in InPool(log, pool)
         /\ \A j \in InPool(log, pool) : log[j].time <= log[Newest(log, pool)].time
<1> DEFINE is == InPool(log, pool)
           latest == {i \in is : \A j \in is : log[j].time <= log[i].time}
<1>1. is \subseteq DOMAIN log /\ is # {}
  BY DEF InPool
<1>2. Newest(log, pool) = Min(latest)
  BY DEF Newest
<1>3. latest # {}
  <2> DEFINE times == [i \in DOMAIN log |-> log[i].time]
  <2>1. is \in SUBSET (1..n) /\ \A i \in is : times[i] \in Int /\ times[i] = log[i].time
    BY <1>1
  <2> HIDE DEF times
  <2>2. \E i \in is : \A j \in is : times[j] <= times[i]
    <3> HIDE DEF is
    <3> QED BY <1>1, <2>1, LatestExists
  <2> QED BY <2>1, <2>2
<1>4. latest \in SUBSET Nat
  BY <1>1
<1>5. Min(latest) \in latest
  <2> HIDE DEF latest
  <2>1. \E i \in latest : \A j \in latest : i <= j
    BY <1>3, <1>4, FirstPlace
  <2> QED BY <2>1 DEF Min
<1> QED BY <1>2, <1>5

LEMMA AgeTyped ==
  ASSUME NEW log \in Logs
  PROVE  /\ snapshotOf(log).dataAge \in Int
         /\ snapshotOf(log).stale <=> snapshotOf(log).dataAge > MaxDataAge
<1> DEFINE is == InPool(log, "pool")
           newest == Newest(log, "pool")
           age == IF newest = 0 THEN MaxDataAge + 1
                  ELSE IF log[newest].time > Now THEN 0 ELSE Now - log[newest].time
<1>1. snapshotOf(log).dataAge = age /\ snapshotOf(log).stale = (age > MaxDataAge)
  BY DEF snapshotOf, Snapshot
<1>2. Now \in Int /\ MaxDataAge \in Int
  BY FlowAssumption
<1>3. is \subseteq DOMAIN log
  BY DEF InPool
<1>4. is = {} => newest = 0
  BY DEF Newest
<1>5. ASSUME is # {} PROVE newest \in DOMAIN log
  BY <1>3, <1>5, LogTyped, NewestIsLatest
<1>6. age \in Int
  <2>1. CASE is = {}
    BY <1>2, <1>4, <2>1
  <2>2. CASE is # {}
    <3>1. log[newest].time \in Int
      BY <1>5, <2>2, LogTyped
    <3> HIDE DEF newest
    <3> QED BY <1>2, <3>1
  <2> QED BY <2>1, <2>2
<1> HIDE DEF age
<1> QED BY <1>1, <1>6

-----------------------------------------------------------------------------
(* The sums of the ledger.  Each kind that the flow records it records     *)
(* once, so a sum has at most one term.                                    *)

OneOf(s) == CHOOSE f \in s : TRUE
Tallied(g, set) ==
  g = [s \in SUBSET set |-> IF s = {} THEN 0 ELSE OneOf(s).amount + g[s \ {OneOf(s)}]]
OfKind(fs, kinds) == {f \in fs : f.kind \in kinds}

LEMMA SumIsTallied ==
  ASSUME NEW fs, NEW kinds
  PROVE  sumKind(fs, kinds) =
           (CHOOSE g : Tallied(g, OfKind(fs, kinds)))[OfKind(fs, kinds)]
BY DEF sumKind, MapThenSumSet, MapThenFoldSet, Tallied, OneOf, OfKind

LEMMA SumOfNone ==
  ASSUME NEW fs, NEW kinds, OfKind(fs, kinds) = {}
  PROVE  sumKind(fs, kinds) = 0
<1> DEFINE g == [s \in SUBSET {} |-> 0]
           c == CHOOSE h : Tallied(h, {})
<1>1. Tallied(g, {})
  BY DEF Tallied
<1>2. Tallied(c, {})
  BY <1>1
<1>3. c[{}] = 0
  <2> HIDE DEF c
  <2> QED BY <1>2 DEF Tallied
<1> QED BY <1>3, SumIsTallied

LEMMA SumOfOne ==
  ASSUME NEW fs, NEW kinds, NEW x, OfKind(fs, kinds) = {x}, x.amount \in Int
  PROVE  sumKind(fs, kinds) = x.amount
<1> DEFINE g == [s \in SUBSET {x} |-> IF s = {} THEN 0 ELSE x.amount]
           c == CHOOSE h : Tallied(h, {x})
<1>1. \A s \in SUBSET {x} : s # {} => OneOf(s) = x /\ s \ {x} = {}
  BY DEF OneOf
<1>2. Tallied(g, {x})
  <2>1. \A s \in SUBSET {x} :
          g[s] = IF s = {} THEN 0 ELSE OneOf(s).amount + g[s \ {OneOf(s)}]
    BY <1>1
  <2>2. g = [s \in SUBSET {x} |-> g[s]]
    OBVIOUS
  <2> HIDE DEF g
  <2>3. [s \in SUBSET {x} |-> g[s]] =
          [s \in SUBSET {x} |->
             IF s = {} THEN 0 ELSE OneOf(s).amount + g[s \ {OneOf(s)}]]
    BY <2>1
  <2> QED BY <2>2, <2>3 DEF Tallied
<1>3. Tallied(c, {x})
  BY <1>2
<1>4. c[{x}] = x.amount
  <2> HIDE DEF c
  <2>1. \A s \in SUBSET {x} :
          c[s] = IF s = {} THEN 0 ELSE OneOf(s).amount + c[s \ {OneOf(s)}]
    BY <1>3 DEF Tallied
  <2>2. c[{}] = 0
    BY <2>1
  <2>3. OneOf({x}) = x /\ {x} \ {x} = {} /\ {x} \in SUBSET {x} /\ {x} # {}
    BY <1>1
  <2>4. c[{x}] = OneOf({x}).amount + c[{x} \ {OneOf({x})}]
    BY <2>1, <2>3
  <2>5. c[{x}] = x.amount + 0
    BY <2>2, <2>3, <2>4
  <2> QED BY <2>5
<1> QED BY <1>4, SumIsTallied

-----------------------------------------------------------------------------
(* The net result of an entry.                                             *)

(* What a planned call has worked out.                                     *)
Weighed(c) ==
  /\ c.sim.net \in Int /\ c.sim.fees \in Int
  /\ c.quote.gas \in Int /\ c.quote.swapCost \in Int
  /\ c.sim.net = c.sim.fees - c.quote.gas - c.quote.swapCost
  /\ c.plannedNet = c.sim.net
  /\ c.sim.decision = IF c.sim.net <= 0 THEN "HOLD" ELSE "PROCEED"
  /\ c.proposed <=> c.sim.decision = "PROCEED"

(* What it has been quoted.                                                *)
Quoted(c) ==
  /\ c.quote.action = "ENTER" /\ c.quote.amount = maxPositionAtomic(c.policy)
  /\ c.quote.slippage = 30 /\ c.quote.priceImpact = 50
  /\ c.quote.gas = Usdc \div 2 /\ c.quote.swapCost = Usdc \div 5
  /\ c.quote.quoteAge = 5 /\ c.quote.dataAge = c.snap.dataAge
  /\ c.snap.dataAge >= 0

(* What an executed one has reported.                                      *)
Reported(c) ==
  /\ c.sim.net \in Int
  /\ c.report.net = c.sim.net /\ c.report.net > 0
  /\ c.report.net = c.report.components["fee_collected"]
                      - c.report.components["gas"] - c.report.components["swap_cost"]
  /\ c.report.holdPnl = 0

(* The plan and the simulation compute one net, and the caps that the plan *)
(* also asks are the flow's own.                                           *)
LEMMA PlanWeighs ==
  ASSUME Lawful(call.policy, call.draft), call.snap.dataAge \in Int,
         call.snap.dataAge <= MaxDataAge,
         NEW f \in ObservedFees, NEW h \in Haircuts, Plan(f, h)
  PROVE  Weighed(call')
<1> DEFINE q   == Venue!quote(request)
           sim == Venue!simulate(q, f, h)
           c   == candidate(f, h)
           net == (f * (10000 - h)) \div 10000 - Usdc \div 2 - Usdc \div 5
<1>1. /\ call'.quote = q /\ call'.sim = sim
      /\ call'.proposed = (plan({c}, plannerCaps) # {})
      /\ call'.plannedNet = plannedNet(c)
  BY DEF Plan
<1>2. f \in Int /\ h \in Int /\ Usdc \in Nat
  BY FlowAssumption
<1>3. net \in Int /\ (f * (10000 - h)) \div 10000 \in Int
      /\ Usdc \div 2 \in Nat /\ Usdc \div 2 <= Usdc /\ Usdc \div 5 \in Nat
  <2>1. f * (10000 - h) \in Int
    BY <1>2
  <2>2. (f * (10000 - h)) \div 10000 \in Int
    <3> DEFINE x == f * (10000 - h)
    <3> HIDE DEF x
    <3>1. x \in Int => x \div 10000 \in Int
      OBVIOUS
    <3> QED BY <2>1, <3>1 DEF x
  <2> QED BY <1>2, <2>2
<1>4. /\ q.gas = Usdc \div 2 /\ q.swapCost = Usdc \div 5 /\ q.action = "ENTER"
  BY DEF Venue!quote, request
<1>5. /\ sim.fees = (f * (10000 - h)) \div 10000 /\ sim.net = net
      /\ sim.decision = IF net <= 0 THEN "HOLD" ELSE "PROCEED"
  BY <1>4 DEF Venue!simulate, Venue!pessimisticFeeEstimate, Venue!netAfterCosts,
              Venue!BPS_DENOMINATOR
<1>6. plannedNet(c) = net
  BY DEF plannedNet, pessimisticFees, candidate
<1>7. Proposed(c, plannerCaps) <=> net > 0
  <2>1. amount = maxPositionAtomic(call.policy) /\ amount \in Nat /\ amount > 0
    BY SizeIsCap DEF Plan
  <2>2. call.snap.dataAge >= 0
    BY DEF Plan, Venue!Quotable, request
  <2>3. WithinCaps(c, plannerCaps)
    <3>1. MaxDataAge \in Int
      BY FlowAssumption
    <3> QED BY <1>2, <1>3, <2>1, <2>2, <3>1 DEF WithinCaps, candidate, plannerCaps
  <2>4. c.eligible /\ actionAllowed(plannerCaps, c.action, c.pool \in plannerCaps.newPools)
    BY DEF candidate, plannerCaps, actionAllowed
  <2> QED BY <1>6, <2>3, <2>4 DEF Proposed
<1>8. (plan({c}, plannerCaps) # {}) <=> Proposed(c, plannerCaps)
  BY DEF plan, plannerCaps
<1> HIDE DEF q, sim, c
<1> DEFINE w == call'
<1>9. w.proposed <=> net > 0
  <2>1. w.proposed = (plan({c}, plannerCaps) # {})
    BY <1>1
  <2> HIDE DEF w, net
  <2> QED BY <1>7, <1>8, <2>1, Zenon
<1>10. /\ w.sim.net = net /\ w.plannedNet = net /\ w.sim.fees \in Int
       /\ w.sim.fees = (f * (10000 - h)) \div 10000
       /\ w.quote.gas = Usdc \div 2 /\ w.quote.swapCost = Usdc \div 5
       /\ w.sim.decision = IF net <= 0 THEN "HOLD" ELSE "PROCEED"
  BY <1>1, <1>3, <1>4, <1>5, <1>6
<1>11. w.sim.net = w.sim.fees - w.quote.gas - w.quote.swapCost
  BY <1>10
<1>12. w.proposed <=> w.sim.decision = "PROCEED"
  <2> HIDE DEF w, net
  <2>1. (net <= 0) <=> ~(net > 0)
    BY <1>3
  <2>2. "HOLD" # "PROCEED"
    OBVIOUS
  <2>3. w.sim.decision = "PROCEED" <=> net > 0
    BY <1>10, <2>1, <2>2
  <2> QED BY <1>9, <2>3
<1>13. Weighed(w)
  <2> HIDE DEF w, net
  <2> QED BY <1>3, <1>10, <1>11, <1>12 DEF Weighed
<1> QED BY <1>13

LEMMA PlanQuotes ==
  ASSUME Lawful(call.policy, call.draft),
         NEW f \in ObservedFees, NEW h \in Haircuts, Plan(f, h)
  PROVE  Quoted(call')
<1>1. /\ call'.quote = Venue!quote(request) /\ call'.policy = call.policy
      /\ call'.snap = call.snap /\ request.dataAge >= 0
  BY DEF Plan, Venue!Quotable
<1>2. amount = maxPositionAtomic(call.policy)
  BY SizeIsCap
<1> QED BY <1>1, <1>2 DEF Quoted, Venue!quote, request

(* The gate of the policy the flow has built, asked about the entry the    *)
(* flow has planned.                                                       *)
LEMMA GateOfPlanned ==
  ASSUME Built(call.policy, call.draft), Lawful(call.policy, call.draft),
         Quoted(call), call.snap.dataAge \in Int, call.snap.dataAge <= MaxDataAge
  PROVE  checkAction(call.policy, actionShape) <=> (call.draft.ask \/ ~call.draft.avoid)
<1> DEFINE p == call.policy
           a == actionShape
<1>1. Usdc \in Nat /\ MaxDataAge \in Int
  BY FlowAssumption
<1>2. /\ a.type = "ENTER" /\ a.notional = maxPositionAtomic(p)
      /\ a.touches = p.list
      /\ a.measure["maxSlippageBps"] = 30 /\ a.measure["maxPriceImpactBps"] = 50
      /\ a.measure["maxGasPerAction"] = Usdc \div 2 /\ a.measure["maxQuoteAge"] = 5
      /\ a.measure["maxDataAge"] = call.snap.dataAge
  BY DEF actionShape, Venue!toPolicyActionShape, MeasuredCaps, Quoted
<1>3. maxPositionAtomic(p) \in Nat
  BY ApplyBpsNat DEF Lawful, maxPositionAtomic
<1>4. Usdc \div 2 <= Usdc
  BY <1>1
<1> HIDE DEF a
<1>5. \A c \in MeasuredCaps : a.measure[c] <= p.cap[c]
  BY <1>1, <1>2, <1>4 DEF Built, MeasuredCaps
<1>6. \A c \in Ages : a.measure[c] >= 0
  BY <1>2 DEF Quoted, Ages
<1>7. \A l \in Lists : norm(a.touches[l]) \subseteq norm(p.list[l])
  BY <1>2
<1>8. a.notional >= 0 /\ WithinPosition(p, a)
  BY <1>2, <1>3 DEF WithinPosition
<1>9. PassesGates(p, a) <=> a.type \in p.allow
  BY <1>5, <1>6, <1>7, <1>8 DEF PassesGates
<1>10. a.type \in p.allow <=> (call.draft.ask \/ ~call.draft.avoid)
  BY <1>2 DEF Built
<1>11. ~p.paused
  BY DEF Built
<1>12. checkAction(p, a) <=> PassesGates(p, a)
  BY <1>11 DEF checkAction
<1> QED BY <1>9, <1>10, <1>12 DEF a

(* What an entry that is worth its costs puts into the ledger.             *)
LEMMA FlowsOfPlanned ==
  ASSUME call.draft.budget \in Nat, Weighed(call), Quoted(call),
         call.sim.decision = "PROCEED"
  PROVE  validateFlows(flows, Now, Now + 2)
<1>1. Now \in Int /\ Usdc \in Nat
  BY FlowAssumption
<1> DEFINE gas == Usdc \div 2
           swp == Usdc \div 5
<1>2. gas \in Nat /\ swp \in Nat
  BY <1>1
<1>3. call.sim.fees \in Int /\ call.sim.net \in Int /\ ~(call.sim.net <= 0)
      /\ call.sim.net = call.sim.fees - gas - swp
      /\ call.quote.gas = gas /\ call.quote.swapCost = swp
  BY DEF Weighed, Quoted
<1> HIDE DEF gas, swp
<1>4. call.sim.fees >= 0
  BY <1>2, <1>3
<1>5. \A f \in flows : /\ f.amount >= 0 /\ f.kind \in FLOW_KINDS
                       /\ InWindow(f.time, Now, Now + 2)
  BY <1>1, <1>2, <1>3, <1>4 DEF flows, Flow, FLOW_KINDS, InWindow
<1>6. \A f, g \in flows : f.id = g.id => f = g
  BY DEF flows, Flow
<1> QED BY <1>5, <1>6 DEF validateFlows

(* The report of an executed call: the ledger's sums give the same net.    *)
LEMMA ReportIsNet ==
  ASSUME call.draft.budget \in Nat, Weighed(call), call.sim.decision = "PROCEED",
         Executed
  PROVE  Reported(call')
<1> DEFINE dep == Flow("dep1", Now, "deposit", call.draft.budget)
           fee == Flow("fee1", Now + 1, "fee_collected", call.sim.fees)
           gas == Flow("gas1", Now + 1, "gas", call.quote.gas)
           swp == Flow("sw1", Now + 1, "swap_cost", call.quote.swapCost)
           r   == reportOf
<1>1. /\ call.sim.net \in Int /\ call.sim.fees \in Int
      /\ call.quote.gas \in Int /\ call.quote.swapCost \in Int
      /\ call.sim.net = call.sim.fees - call.quote.gas - call.quote.swapCost
      /\ call.sim.decision = IF call.sim.net <= 0 THEN "HOLD" ELSE "PROCEED"
  BY DEF Weighed
<1>2. /\ OfKind(flows, {"deposit"}) = {dep} /\ OfKind(flows, {"fee_collected"}) = {fee}
      /\ OfKind(flows, {"gas"}) = {gas} /\ OfKind(flows, {"swap_cost"}) = {swp}
      /\ OfKind(flows, {"withdrawal"}) = {}
  BY DEF OfKind, flows, Flow
<1>3. /\ dep.amount = call.draft.budget /\ fee.amount = call.sim.fees
      /\ gas.amount = call.quote.gas /\ swp.amount = call.quote.swapCost
  BY DEF Flow
<1>4. /\ sumKind(flows, {"deposit"}) = call.draft.budget
      /\ sumKind(flows, {"withdrawal"}) = 0
      /\ sumKind(flows, {"fee_collected"}) = call.sim.fees
      /\ sumKind(flows, {"gas"}) = call.quote.gas
      /\ sumKind(flows, {"swap_cost"}) = call.quote.swapCost
  <2> HIDE DEF dep, fee, gas, swp
  <2>1. call.draft.budget \in Int
    OBVIOUS
  <2> QED BY <1>1, <1>2, <1>3, <2>1, SumOfOne, SumOfNone
<1>5. /\ r.net = (call.draft.budget + call.sim.net) + 0 - call.draft.budget - 0
      /\ r.holdPnl = call.draft.budget + 0 - call.draft.budget - 0
  BY <1>4 DEF reportOf, buildReport, computeNetPnl
<1>6. /\ r.components["fee_collected"] = call.sim.fees
      /\ r.components["gas"] = call.quote.gas
      /\ r.components["swap_cost"] = call.quote.swapCost
  BY <1>4 DEF reportOf, buildReport, componentBreakdown, FLOW_KINDS
<1>7. r.net = call.sim.net /\ r.holdPnl = 0
  <2> HIDE DEF r
  <2> QED BY <1>1, <1>5
<1>8. call.sim.net > 0
  <2>1. ~(call.sim.net <= 0)
    BY <1>1
  <2> QED BY <1>1, <2>1
<1>9. call'.sim = call.sim /\ call'.report = r
  BY DEF Executed
<1> HIDE DEF r
<1> QED BY <1>1, <1>6, <1>7, <1>8, <1>9 DEF Reported

-----------------------------------------------------------------------------
(* The inductive invariant of the flow: each stage has what the stages     *)
(* before it established.                                                  *)

Planned == {"decide", "gate", "submitted"}
Screened == Planned \cup {"screen", "size"}
Legal   == Screened \cup {"snapshot"}
Stages  == Legal \cup {"done", "goal"}

Stands(st, out, c) ==
  /\ st \in Stages
  /\ st # "done" => out = "none" /\ IsDraft(c.draft)
  /\ st \in Legal => Lawful(c.policy, c.draft) /\ Built(c.policy, c.draft)
  /\ st \in Screened => c.snap.dataAge \in Int /\ c.snap.dataAge <= MaxDataAge
  /\ st \in Planned => Weighed(c) /\ Quoted(c)
  /\ st \in {"gate", "submitted"} => c.sim.decision = "PROCEED"
  /\ out = "EXECUTED" => st = "done" /\ Reported(c)

FlowInv == Stands(stage, outcome, call)

LEMMA InitFlow == Init => FlowInv
BY DEF Init, FlowInv, Stands, Stages, Legal, Screened, Planned

(* An end that executes nothing leaves no demand on the call.              *)
LEMMA Ended ==
  ASSUME stage' = "done", outcome' # "EXECUTED"
  PROVE  FlowInv'
BY DEF FlowInv, Stands, Stages, Legal, Screened, Planned

LEMMA BeginStands ==
  ASSUME NEW g \in Goals, NEW c \in Chains, Begin(g, c)
  PROVE  FlowInv'
<1>1. IsDraft(parseGoal(g))
  BY FlowAssumption, DraftTyped DEF Item
<1>2. stage' = "goal" /\ outcome' = "none" /\ call'.draft = parseGoal(g)
  BY DEF Begin
<1> QED BY <1>1, <1>2 DEF FlowInv, Stands, Stages, Legal, Screened, Planned

LEMMA AcceptStands ==
  ASSUME FlowInv, PolicyAccepted
  PROVE  FlowInv'
<1>1. stage' = "snapshot" /\ outcome' = outcome /\ outcome = "none"
  BY DEF PolicyAccepted, Go, FlowInv, Stands
<1>2. call'.draft = call.draft /\ call'.policy = policyOf
  BY DEF PolicyAccepted
<1>3. IsDraft(call.draft)
  BY DEF PolicyAccepted, FlowInv, Stands
<1>4. Lawful(policyOf, call.draft)
  BY <1>3, PolicyOfDraft DEF PolicyAccepted
<1>5. Built(policyOf, call.draft)
  BY PolicyIsBuilt
<1> QED BY <1>1, <1>2, <1>3, <1>4, <1>5 DEF FlowInv, Stands, Stages, Legal, Screened, Planned

LEMMA ObserveStands ==
  ASSUME FlowInv, NEW log \in Logs, Observe(log)
  PROVE  FlowInv'
<1>1. stage' = "screen" /\ outcome' = outcome /\ outcome = "none" /\ stage = "snapshot"
  BY DEF Observe, Go, FlowInv, Stands
<1>2. call'.draft = call.draft /\ call'.policy = call.policy /\ call'.snap = snapshotOf(log)
  BY DEF Observe
<1>3. /\ IsDraft(call.draft) /\ Lawful(call.policy, call.draft)
      /\ Built(call.policy, call.draft)
  BY <1>1 DEF FlowInv, Stands, Legal
<1>4. snapshotOf(log).dataAge \in Int /\ snapshotOf(log).dataAge <= MaxDataAge
  <2>1. ~(snapshotOf(log).dataAge > MaxDataAge)
    BY AgeTyped DEF Observe
  <2>2. MaxDataAge \in Int
    BY FlowAssumption
  <2> QED BY <2>1, <2>2, AgeTyped
<1> QED BY <1>1, <1>2, <1>3, <1>4 DEF FlowInv, Stands, Stages, Legal, Screened, Planned

LEMMA PlanStands ==
  ASSUME FlowInv, NEW f \in ObservedFees, NEW h \in Haircuts, Plan(f, h)
  PROVE  FlowInv'
<1>1. stage' = "decide" /\ outcome' = outcome /\ outcome = "none" /\ stage = "size"
  BY DEF Plan, Go, FlowInv, Stands
<1>2. call'.draft = call.draft /\ call'.policy = call.policy /\ call'.snap = call.snap
  BY DEF Plan
<1>3. /\ IsDraft(call.draft) /\ Lawful(call.policy, call.draft)
      /\ call.snap.dataAge \in Int /\ call.snap.dataAge <= MaxDataAge
      /\ Built(call.policy, call.draft)
  BY <1>1 DEF FlowInv, Stands, Legal, Screened
<1>4. Weighed(call') /\ Quoted(call')
  BY <1>3, PlanWeighs, PlanQuotes
<1> QED BY <1>1, <1>2, <1>3, <1>4 DEF FlowInv, Stands, Stages, Legal, Screened, Planned

LEMMA ExecutedStands ==
  ASSUME FlowInv, Executed
  PROVE  FlowInv'
<1>1. stage = "submitted" /\ stage' = "done" /\ outcome' = "EXECUTED"
  BY DEF Executed
<1>2. /\ Lawful(call.policy, call.draft) /\ Weighed(call)
      /\ call.sim.decision = "PROCEED"
  BY <1>1 DEF FlowInv, Stands, Legal, Screened, Planned
<1>3. Reported(call')
  BY <1>2, ReportIsNet DEF Lawful
<1> QED BY <1>1, <1>3 DEF FlowInv, Stands, Stages, Legal, Screened, Planned

LEMMA StepFlow == FlowInv /\ [Next]_vars => FlowInv'
<1> SUFFICES ASSUME FlowInv, [Next]_vars PROVE FlowInv'
  OBVIOUS
<1>1. ASSUME NEW g \in Goals, NEW c \in Chains, Begin(g, c)
      PROVE  FlowInv'
  BY <1>1, BeginStands
<1>2. CASE NeedsAmount \/ PolicyRefused \/ IngestThrows \/ Unaffordable \/ Hold \/ Blocked
  BY <1>2, Ended DEF NeedsAmount, PolicyRefused, IngestThrows, Unaffordable, Hold, Blocked, End
<1>3. CASE PolicyAccepted
  BY <1>3, AcceptStands
<1>4. ASSUME NEW log \in Logs, StaleHold(log) PROVE FlowInv'
  BY <1>4, Ended DEF StaleHold, End
<1>5. ASSUME NEW log \in Logs, Observe(log) PROVE FlowInv'
  BY <1>5, ObserveStands
<1>6. ASSUME NEW age \in PoolAges, Ineligible(age) PROVE FlowInv'
  BY <1>6, Ended DEF Ineligible, End
<1>7. ASSUME NEW age \in PoolAges, Eligible(age) PROVE FlowInv'
  BY <1>7 DEF Eligible, Go, FlowInv, Stands, Stages, Legal, Screened, Planned
<1>8. ASSUME NEW f \in ObservedFees, NEW h \in Haircuts, Throws(f, h) PROVE FlowInv'
  BY <1>8, Ended DEF Throws, End
<1>9. ASSUME NEW f \in ObservedFees, NEW h \in Haircuts, Plan(f, h) PROVE FlowInv'
  BY <1>9, PlanStands
<1>10. CASE Decide
  BY <1>10 DEF Decide, Go, FlowInv, Stands, Stages, Legal, Screened, Planned
<1>11. CASE Submit
  BY <1>11 DEF Submit, Go, FlowInv, Stands, Stages, Legal, Screened, Planned
<1>12. CASE SubmitFails \/ SubmitTimesOut \/ AnsweredWithoutHash
  BY <1>12, Ended DEF SubmitFails, SubmitTimesOut, AnsweredWithoutHash, Answer
<1>13. CASE Executed
  BY <1>13, ExecutedStands
<1>14. CASE UNCHANGED vars
  BY <1>14 DEF vars, FlowInv
<1> QED BY <1>1, <1>2, <1>3, <1>4, <1>5, <1>6, <1>7, <1>8, <1>9, <1>10, <1>11, <1>12,
           <1>13, <1>14 DEF Next

LEMMA FlowInvHolds == Spec => []FlowInv
BY InitFlow, StepFlow, PTL DEF Spec

(* For every text of a goal, every log and every fee: the plan proposes    *)
(* exactly what the simulation finds worth its costs, and the report of an *)
(* executed call is that net, each cost counted once.                      *)
THEOREM OneNet == Spec => []OneNetEverywhere
<1>1. FlowInv => OneNetEverywhere
  <2> SUFFICES ASSUME FlowInv PROVE OneNetEverywhere
    OBVIOUS
  <2>1. ASSUME stage \in Planned PROVE Weighed(call)
    BY <2>1 DEF FlowInv, Stands
  <2>2. ASSUME outcome = "EXECUTED" PROVE Reported(call)
    BY <2>2 DEF FlowInv, Stands
  <2>3. stage \in {"decide", "gate", "submitted"} =>
          /\ call.plannedNet = call.sim.net
          /\ call.proposed <=> call.sim.decision = "PROCEED"
    BY <2>1 DEF Planned, Weighed
  <2> QED BY <2>2, <2>3 DEF OneNetEverywhere, Reported
<1> QED BY <1>1, FlowInvHolds, PTL

(* For every goal and every budget: under an accepted policy the size of   *)
(* an entry is the position cap itself, beside which the reserve fits.     *)
THEOREM SizeIsTheCap == Spec => []CapFitsBesideReserve
<1>1. FlowInv => CapFitsBesideReserve
  BY SizeIsCap DEF FlowInv, Stands, Legal, Screened, Planned, CapFitsBesideReserve
<1> QED BY <1>1, FlowInvHolds, PTL

(* For every goal, log, fee and haircut: the gate permits exactly what the *)
(* plan has proposed to a goal that is open to new entries.                *)
THEOREM GateAgrees == Spec => []GateAgreesWithPlan
<1>1. FlowInv => GateAgreesWithPlan
  <2> SUFFICES ASSUME FlowInv, stage = "gate"
               PROVE  checkAction(call.policy, actionShape)
                        <=> (call.draft.ask \/ ~call.draft.avoid)
    BY DEF GateAgreesWithPlan
  <2>1. /\ Lawful(call.policy, call.draft) /\ Built(call.policy, call.draft)
        /\ Quoted(call) /\ call.snap.dataAge \in Int
        /\ call.snap.dataAge <= MaxDataAge
    BY DEF FlowInv, Stands, Legal, Screened, Planned
  <2> QED BY <2>1, GateOfPlanned
<1> QED BY <1>1, FlowInvHolds, PTL

(* For every goal, log, fee and haircut: no entry that is sent has flows   *)
(* that the ledger would refuse once it has been broadcast.                *)
THEOREM LedgerTakes == Spec => []LedgerTakesTheEntry
<1>1. FlowInv => LedgerTakesTheEntry
  <2> SUFFICES ASSUME FlowInv, stage = "submitted"
               PROVE  validateFlows(flows, Now, Now + 2)
    BY DEF LedgerTakesTheEntry
  <2>1. /\ call.draft.budget \in Nat /\ Weighed(call) /\ Quoted(call)
        /\ call.sim.decision = "PROCEED"
    BY DEF FlowInv, Stands, Legal, Screened, Planned, Lawful
  <2> QED BY <2>1, FlowsOfPlanned
<1> QED BY <1>1, FlowInvHolds, PTL

-----------------------------------------------------------------------------
(* The invariant: with the types, a pool without events has the cursor it  *)
(* began with.  Without that the first event might not move it.            *)
UntouchedIsNoCursor ==
  \A p \in Keys : EventsOf(p) = {} => cursors[p].lastBlock = -1

CursorInv == TypeOK /\ UntouchedIsNoCursor /\ CursorsMatchEvents

-----------------------------------------------------------------------------
LEMMA KeysArePools ==
  ASSUME NEW e \in Feed PROVE e \in Event /\ NormPool[e.pool] \in Keys
<1>1. e \in Event
  BY IndexerAssumption
<1>2. e.pool \in Pools
  BY <1>1 DEF Event
<1> QED BY <1>1, <1>2 DEF Keys

Cursors == [lastBlock : Int, lastTimestamp : Nat, eventCount : Nat]

(* A cursor counts an event and goes up to its block, if that is higher.   *)
LEMMA AdvancedCursor ==
  ASSUME NEW cur \in Cursors, NEW e, e.block \in Nat, e.time \in Nat
  PROVE  /\ Advanced(cur, e) \in Cursors
         /\ Advanced(cur, e).eventCount = cur.eventCount + 1
         /\ Advanced(cur, e).lastBlock =
              IF e.block > cur.lastBlock THEN e.block ELSE cur.lastBlock
<1>1. CASE e.block > cur.lastBlock
  BY <1>1 DEF Advanced, Cursors
<1>2. CASE ~(e.block > cur.lastBlock)
  BY <1>2 DEF Advanced, Cursors
<1> QED BY <1>1, <1>2

(* What a sequence holds is finite.                                        *)
LEMMA IngestedIsFinite ==
  ASSUME TypeOK PROVE IsFiniteSet(Ingested)
<1>1. DOMAIN events = 1..Len(events) /\ Len(events) \in Nat
  BY DEF TypeOK
<1>2. IsFiniteSet(1..Len(events))
  BY <1>1, FS_Interval
<1>3. events \in Surjection(1..Len(events), Ingested)
  <2>1. events \in [1..Len(events) -> Ingested]
    BY <1>1 DEF Ingested, TypeOK
  <2> QED BY <1>1, <2>1 DEF Ingested, Surjection
<1> QED BY <1>2, <1>3, FS_Surjection

(* Appending an event adds it to what is ingested.                         *)
LEMMA IngestedGrows ==
  ASSUME NEW e \in Feed, TypeOK, events' = Append(events, e)
  PROVE  Ingested' = Ingested \cup {e} /\ events' \in Seq(Feed)
<1>1. events \in Seq(Feed)
  BY DEF TypeOK
<1>2. /\ DOMAIN events' = 1..(Len(events) + 1)
      /\ DOMAIN events = 1..Len(events) /\ Len(events) \in Nat
      /\ \A i \in 1..Len(events) : events'[i] = events[i]
      /\ events'[Len(events) + 1] = e
      /\ events' \in Seq(Feed)
  BY <1>1
<1> QED BY <1>2 DEF Ingested

-----------------------------------------------------------------------------
LEMMA InitCursor == InitIndexer => CursorInv
<1> SUFFICES ASSUME InitIndexer PROVE CursorInv
  OBVIOUS
<1>1. TypeOK
  BY DEF InitIndexer, TypeOK, NoCursor
<1>2. Ingested = {}
  BY DEF InitIndexer, Ingested
<1>3. \A p \in Keys : EventsOf(p) = {} /\ cursors[p] = NoCursor
  BY <1>2 DEF EventsOf, InitIndexer
<1> QED BY <1>1, <1>3, FS_EmptySet DEF CursorInv, CursorsMatchEvents, UntouchedIsNoCursor, NoCursor

(* Steps that ingest nothing.                                              *)
LEMMA NothingIngested ==
  ASSUME CursorInv, UNCHANGED <<events, cursors, poolChain>>,
         chainId' \in ChainIds \cup {NoChain}, todo' \subseteq Feed \cup Spoilt
  PROVE  CursorInv'
<1>1. Ingested' = Ingested
  BY DEF Ingested
<1>2. \A p \in Keys : EventsOf(p)' = EventsOf(p)
  BY <1>1 DEF EventsOf
<1>3. TypeOK'
  BY DEF CursorInv, TypeOK
<1> QED BY <1>2, <1>3 DEF CursorInv, CursorsMatchEvents, UntouchedIsNoCursor

LEMMA IngestKeeps ==
  ASSUME CursorInv, NEW e \in todo, Ingest(e)
  PROVE  CursorInv'
<1> DEFINE p == NormPool[e.pool]
           cur == cursors[p]
           new == Advanced(cur, e)
<1>1. e \in Feed /\ e \in Event /\ p \in Keys
  BY IndexerAssumption, KeysArePools DEF CursorInv, TypeOK, Ingest
<1>2. e \notin Ingested
  BY DEF Ingest, Seen
<1>3. Ingested' = Ingested \cup {e} /\ events' \in Seq(Feed)
  BY <1>1, IngestedGrows DEF CursorInv, Ingest
<1>4. EventsOf(p)' = EventsOf(p) \cup {e} /\ e \notin EventsOf(p)
  BY <1>2, <1>3 DEF EventsOf
<1>5. \A q \in Keys \ {p} : EventsOf(q)' = EventsOf(q)
  BY <1>3 DEF EventsOf
<1>6. cursors' = [cursors EXCEPT ![p] = new]
  BY DEF Ingest
<1>7. cursors \in [Keys -> [lastBlock : Int, lastTimestamp : Nat, eventCount : Nat]]
  BY DEF CursorInv, TypeOK
<1>8. e.block \in Nat /\ e.time \in Nat
  BY <1>1 DEF Event, Ingest, Bad
<1>9. /\ new \in [lastBlock : Int, lastTimestamp : Nat, eventCount : Nat]
      /\ new.eventCount = cur.eventCount + 1
      /\ new.lastBlock = IF e.block > cur.lastBlock THEN e.block
                         ELSE cur.lastBlock
  <2>1. cur \in Cursors
    BY <1>1, <1>7 DEF Cursors
  <2> HIDE DEF cur
  <2> QED BY <2>1, <1>8, AdvancedCursor DEF Cursors
<1>10. /\ cursors'[p] = new
       /\ \A q \in Keys \ {p} : cursors'[q] = cursors[q]
  BY <1>1, <1>6, <1>7
<1>11. TypeOK'
  <2>1. cursors' \in [Keys -> [lastBlock : Int, lastTimestamp : Nat, eventCount : Nat]]
    BY <1>6, <1>7, <1>9
  <2>2. poolChain' \in [Keys -> ChainIds \cup {NoChain}]
    BY DEF Ingest, CursorInv, TypeOK
  <2> QED BY <1>3, <2>1, <2>2 DEF Ingest, CursorInv, TypeOK
<1>12. Cardinality(EventsOf(p)') = Cardinality(EventsOf(p)) + 1
  <2>1. IsFiniteSet(EventsOf(p))
    <3>1. EventsOf(p) \subseteq Ingested
      BY DEF EventsOf
    <3> QED BY <3>1, IngestedIsFinite, FS_Subset DEF CursorInv
  <2> QED BY <2>1, <1>4, FS_AddElement
<1>13. \A f \in EventsOf(p) : f.block \in Int
  <2>1. Ingested \subseteq Feed
    BY DEF Ingested, CursorInv, TypeOK
  <2> QED BY <2>1, IndexerAssumption DEF EventsOf, Event
<1>14. /\ \A f \in EventsOf(p)' : f.block <= new.lastBlock
       /\ \E f \in EventsOf(p)' : f.block = new.lastBlock
  <2>1. cur.lastBlock \in Int
    BY <1>1, <1>7
  <2>2. CASE EventsOf(p) = {}
    <3>1. cur.lastBlock = -1
      BY <2>2, <1>1 DEF CursorInv, UntouchedIsNoCursor
    <3> QED BY <3>1, <2>2, <1>4, <1>8, <1>9
  <2>3. CASE EventsOf(p) # {}
    <3>1. /\ \A f \in EventsOf(p) : f.block <= cur.lastBlock
          /\ \E f \in EventsOf(p) : f.block = cur.lastBlock
      BY <2>3, <1>1 DEF CursorInv, CursorsMatchEvents
    <3> QED BY <3>1, <2>1, <1>4, <1>8, <1>9, <1>13
  <2> QED BY <2>2, <2>3
<1>15. CursorsMatchEvents' /\ UntouchedIsNoCursor'
  <2> SUFFICES ASSUME NEW q \in Keys
               PROVE  /\ cursors'[q].eventCount = Cardinality(EventsOf(q)')
                      /\ \A f \in EventsOf(q)' : f.block <= cursors'[q].lastBlock
                      /\ EventsOf(q)' # {} => \E f \in EventsOf(q)' :
                                                f.block = cursors'[q].lastBlock
                      /\ EventsOf(q)' = {} => cursors'[q].lastBlock = -1
    BY DEF CursorsMatchEvents, UntouchedIsNoCursor
  <2>1. CASE q = p
    <3>1. cur.eventCount = Cardinality(EventsOf(p))
      BY <1>1 DEF CursorInv, CursorsMatchEvents
    <3> QED BY <2>1, <3>1, <1>4, <1>9, <1>10, <1>12, <1>14
  <2>2. CASE q # p
    BY <2>2, <1>5, <1>10 DEF CursorInv, CursorsMatchEvents, UntouchedIsNoCursor
  <2> QED BY <2>1, <2>2
<1> QED BY <1>11, <1>15 DEF CursorInv

LEMMA StepKeepsCursors == CursorInv /\ [NextIndexer]_indexerVars => CursorInv'
<1> SUFFICES ASSUME CursorInv, [NextIndexer]_indexerVars PROVE CursorInv'
  OBVIOUS
<1>1. ASSUME NEW batch \in SUBSET (Feed \cup Spoilt), NEW chain \in ChainIds,
             Deliver(batch, chain)
      PROVE  CursorInv'
  BY <1>1, NothingIngested DEF Deliver
<1>2. ASSUME NEW e \in todo, Throw(e)
      PROVE  CursorInv'
  BY <1>2, NothingIngested DEF Throw, CursorInv, TypeOK
<1>3. ASSUME NEW e \in todo, Duplicate(e)
      PROVE  CursorInv'
  BY <1>3, NothingIngested DEF Duplicate, CursorInv, TypeOK
<1>4. ASSUME NEW e \in todo, Ingest(e)
      PROVE  CursorInv'
  BY <1>4, IngestKeeps
<1>5. CASE UNCHANGED indexerVars
  BY <1>5, NothingIngested DEF indexerVars, CursorInv, TypeOK
<1> QED BY <1>1, <1>2, <1>3, <1>4, <1>5 DEF NextIndexer, Step

-----------------------------------------------------------------------------
LEMMA CursorInvariant == IndexerSpec => []CursorInv
<1> QED BY InitCursor, StepKeepsCursors, PTL DEF IndexerSpec

(* Whatever is delivered, no bad event is among the ingested and every     *)
(* variable keeps its type (lines 77-81).                                  *)
THEOREM IndexerTypeCorrect == IndexerSpec => []TypeOK
<1>1. CursorInv => TypeOK
  BY DEF CursorInv
<1> QED BY <1>1, CursorInvariant, PTL

(* The cursor of a pool counts each of its events once and stands at their *)
(* highest block (lines 83-105), for every feed and every delivery.        *)
THEOREM CursorsAreRight == IndexerSpec => []CursorsMatchEvents
<1>1. CursorInv => CursorsMatchEvents
  BY DEF CursorInv
<1> QED BY <1>1, CursorInvariant, PTL

-----------------------------------------------------------------------------
(* Sums over events.  SumOf folds some places of a log in some order; it   *)
(* is shown to count units, of which each event has as many as its field   *)
(* says, those of the negative fields apart: the log leaves no trace.      *)

Of(v, e)      == {e} \X (1..v[e])
Units(v, set) == UNION {Of(v, e) : e \in set}
Minus(v)      == [e \in DOMAIN v |-> -v[e]]
Tally(v, set) == Cardinality(Units(v, set)) - Cardinality(Units(Minus(v), set))

LEMMA UnitsOfOne ==
  ASSUME NEW D, NEW v \in [D -> Int], NEW e \in D
  PROVE  /\ IsFiniteSet(Of(v, e))
         /\ Cardinality(Of(v, e)) = IF v[e] > 0 THEN v[e] ELSE 0
<1>1. IsFiniteSet({e}) /\ Cardinality({e}) = 1
  BY FS_Singleton
<1>2. v[e] \in Int
  OBVIOUS
<1>3. /\ IsFiniteSet(1..v[e])
      /\ Cardinality(1..v[e]) = IF v[e] > 0 THEN v[e] ELSE 0
  <2>1. /\ IsFiniteSet(1..v[e])
        /\ Cardinality(1..v[e]) = IF 1 > v[e] THEN 0 ELSE v[e] - 1 + 1
    BY <1>2, FS_Interval
  <2> QED BY <1>2, <2>1
<1>4. /\ IsFiniteSet({e} \X (1..v[e]))
      /\ Cardinality({e} \X (1..v[e])) = 1 * Cardinality(1..v[e])
  BY <1>1, <1>3, FS_Product
<1>5. 1 * Cardinality(1..v[e]) = IF v[e] > 0 THEN v[e] ELSE 0
  BY <1>2, <1>3
<1> QED BY <1>4, <1>5 DEF Of

LEMMA UnitsFinite ==
  ASSUME NEW D, NEW v \in [D -> Int], NEW set \in SUBSET D, IsFiniteSet(set)
  PROVE  IsFiniteSet(Units(v, set)) /\ Cardinality(Units(v, set)) \in Nat
<1> DEFINE T == {Of(v, e) : e \in set}
           f == [e \in set |-> Of(v, e)]
<1>1. IsFiniteSet(T)
  <2>1. f \in Surjection(set, T)
    BY DEF Surjection
  <2> HIDE DEF T, f
  <2> QED BY <2>1, FS_Surjection
<1>2. \A t \in T : IsFiniteSet(t)
  <2>1. \A e \in set : IsFiniteSet(Of(v, e))
    BY UnitsOfOne
  <2> QED BY <2>1
<1>3. Units(v, set) = UNION T
  BY DEF Units
<1> HIDE DEF T
<1> QED BY <1>1, <1>2, <1>3, FS_UNION, FS_CardinalityType

LEMMA UnitsAdd ==
  ASSUME NEW D, NEW v \in [D -> Int], NEW set \in SUBSET D, IsFiniteSet(set),
         NEW e \in D, e \notin set
  PROVE  Cardinality(Units(v, set \cup {e})) =
           Cardinality(Units(v, set)) + (IF v[e] > 0 THEN v[e] ELSE 0)
<1>1. Units(v, set \cup {e}) = Units(v, set) \cup Of(v, e)
  BY DEF Units
<1>2. Units(v, set) \cap Of(v, e) = {}
  BY DEF Units, Of
<1>3. Cardinality(Units(v, set) \cap Of(v, e)) = 0
  BY <1>2, FS_EmptySet
<1>4. /\ IsFiniteSet(Units(v, set)) /\ Cardinality(Units(v, set)) \in Nat
      /\ IsFiniteSet(Of(v, e))
      /\ Cardinality(Of(v, e)) = IF v[e] > 0 THEN v[e] ELSE 0
  BY UnitsFinite, UnitsOfOne
<1>5. Cardinality(Units(v, set \cup {e})) =
        Cardinality(Units(v, set)) + Cardinality(Of(v, e))
          - Cardinality(Units(v, set) \cap Of(v, e))
  BY <1>1, <1>4, FS_Union
<1>6. v[e] \in Int
  OBVIOUS
<1> QED BY <1>3, <1>4, <1>5, <1>6

(* An event that is not among the others adds its field to the tally.      *)
LEMMA TallyAdd ==
  ASSUME NEW D, NEW v \in [D -> Int], NEW set \in SUBSET D, IsFiniteSet(set),
         NEW e \in D, e \notin set
  PROVE  Tally(v, set \cup {e}) = v[e] + Tally(v, set)
<1> DEFINE u == Minus(v)
<1>1. u \in [D -> Int] /\ u[e] = -v[e] /\ v[e] \in Int
  BY DEF Minus
<1> HIDE DEF u
<1>2. Cardinality(Units(v, set \cup {e})) =
        Cardinality(Units(v, set)) + (IF v[e] > 0 THEN v[e] ELSE 0)
  BY UnitsAdd
<1>3. Cardinality(Units(u, set \cup {e})) =
        Cardinality(Units(u, set)) + (IF u[e] > 0 THEN u[e] ELSE 0)
  BY <1>1, UnitsAdd
<1>4. Cardinality(Units(v, set)) \in Nat /\ Cardinality(Units(u, set)) \in Nat
  BY <1>1, UnitsFinite
<1>5. \A all : Tally(v, all) = Cardinality(Units(v, all)) - Cardinality(Units(u, all))
  BY DEF Tally, u
<1> QED BY <1>1, <1>2, <1>3, <1>4, <1>5

LEMMA TallyOfNone ==
  ASSUME NEW v PROVE Tally(v, {}) = 0
<1>1. \A u : Units(u, {}) = {}
  BY DEF Units
<1> QED BY <1>1, FS_EmptySet DEF Tally


(* What a fold over some places iterates; ev has the event of a place.     *)
Image(ev, set) == {ev[x] : x \in set}
Folds(f, v, ev, set) ==
  \A s \in SUBSET set :
    f[s] = IF s = {} THEN 0 ELSE v[ev[OneOf(s)]] + f[s \ {OneOf(s)}]

LEMMA TallyStep ==
  ASSUME NEW D, NEW v \in [D -> Int], NEW set, NEW ev \in [set -> D],
         \A x, y \in set : ev[x] = ev[y] => x = y,
         NEW s \in SUBSET set, IsFiniteSet(s), s # {}
  PROVE  /\ OneOf(s) \in s
         /\ Tally(v, Image(ev, s)) = v[ev[OneOf(s)]] + Tally(v, Image(ev, s \ {OneOf(s)}))
<1> DEFINE x == OneOf(s)
           rest == s \ {x}
<1>1. x \in s
  BY DEF OneOf
<1> HIDE DEF x
<1>2. IsFiniteSet(rest) /\ rest \in SUBSET set /\ rest \cup {x} = s /\ x \notin rest
  BY <1>1, FS_Subset
<1> HIDE DEF rest
<1>3. /\ Image(ev, s) = Image(ev, rest) \cup {ev[x]}
      /\ ev[x] \in D /\ ev[x] \notin Image(ev, rest) /\ Image(ev, rest) \in SUBSET D
  BY <1>1, <1>2 DEF Image
<1>4. IsFiniteSet(Image(ev, rest))
  <2> DEFINE I == Image(ev, rest)
             f == [y \in rest |-> ev[y]]
  <2>1. f \in Surjection(rest, I)
    BY DEF Surjection, Image
  <2> HIDE DEF f, I
  <2>2. IsFiniteSet(I)
    BY <1>2, <2>1, FS_Surjection
  <2> QED BY <2>2 DEF I
<1>5. Tally(v, Image(ev, rest) \cup {ev[x]}) = v[ev[x]] + Tally(v, Image(ev, rest))
  BY <1>3, <1>4, TallyAdd
<1> QED BY <1>1, <1>3, <1>5 DEF rest, x

(* The tally solves the equation of the fold, and nothing else does.       *)
LEMMA TallyFolds ==
  ASSUME NEW D, NEW v \in [D -> Int], NEW set, IsFiniteSet(set), NEW ev \in [set -> D],
         \A x, y \in set : ev[x] = ev[y] => x = y,
         NEW f, \A s \in SUBSET set : f[s] = Tally(v, Image(ev, s))
  PROVE  Folds(f, v, ev, set)
<1> SUFFICES ASSUME NEW s \in SUBSET set
             PROVE  f[s] = IF s = {} THEN 0 ELSE v[ev[OneOf(s)]] + f[s \ {OneOf(s)}]
  BY DEF Folds
<1>1. CASE s = {}
  <2>1. Image(ev, {}) = {}
    BY DEF Image
  <2> QED BY <1>1, <2>1, TallyOfNone
<1>2. CASE s # {}
  <2>1. IsFiniteSet(s)
    BY FS_Subset
  <2>2. Tally(v, Image(ev, s)) = v[ev[OneOf(s)]] + Tally(v, Image(ev, s \ {OneOf(s)}))
    BY <1>2, <2>1, TallyStep
  <2> DEFINE rest == s \ {OneOf(s)}
  <2>3. rest \in SUBSET set
    OBVIOUS
  <2>4. f[s] = Tally(v, Image(ev, s)) /\ f[rest] = Tally(v, Image(ev, rest))
    BY <2>3
  <2> QED BY <1>2, <2>2, <2>4
<1> QED BY <1>1, <1>2

LEMMA FoldIsTally ==
  ASSUME NEW D, NEW v \in [D -> Int], NEW set, IsFiniteSet(set), NEW ev \in [set -> D],
         \A x, y \in set : ev[x] = ev[y] => x = y,
         NEW f, Folds(f, v, ev, set)
  PROVE  f[set] = Tally(v, Image(ev, set))
<1> DEFINE g == [s \in SUBSET set |-> Tally(v, Image(ev, s))]
           Differ == {s \in FiniteSubsetsOf(set) : f[s] # g[s]}
<1>2. \A s \in SUBSET set : g[s] = Tally(v, Image(ev, s))
  OBVIOUS
<1> HIDE DEF g
<1>1. Folds(g, v, ev, set)
  BY <1>2, TallyFolds
<1>3. \A s \in SUBSET set :
        /\ f[s] = IF s = {} THEN 0 ELSE v[ev[OneOf(s)]] + f[s \ {OneOf(s)}]
        /\ g[s] = IF s = {} THEN 0 ELSE v[ev[OneOf(s)]] + g[s \ {OneOf(s)}]
  BY <1>1 DEF Folds
<1>4. ASSUME Differ # {} PROVE FALSE
  <2>1. IsWellFoundedOn(StrictSubsetOrdering(set), FiniteSubsetsOf(set))
    BY FS_StrictSubsetOrderingWellFounded
  <2>2. PICK s \in Differ : \A t \in Differ : <<t, s>> \notin StrictSubsetOrdering(set)
    <3>1. Differ \subseteq FiniteSubsetsOf(set)
      OBVIOUS
    <3> HIDE DEF Differ
    <3> QED BY <1>4, <2>1, <3>1, WFMin
  <2>3. s \in SUBSET set /\ IsFiniteSet(s) /\ f[s] # g[s]
    BY <2>2 DEF FiniteSubsetsOf
  <2>4. s # {}
    BY <1>3, <2>3
  <2> DEFINE rest == s \ {OneOf(s)}
  <2>5. OneOf(s) \in s
    BY <2>4 DEF OneOf
  <2>6. rest \in SUBSET set /\ IsFiniteSet(rest) /\ rest \subseteq s /\ rest # s
    BY <2>3, <2>5, FS_Subset
  <2>7. <<rest, s>> \in StrictSubsetOrdering(set)
    BY <2>3, <2>6 DEF StrictSubsetOrdering
  <2>8. f[rest] = g[rest]
    BY <2>2, <2>6, <2>7 DEF FiniteSubsetsOf
  <2> QED BY <1>3, <2>3, <2>4, <2>8
<1>5. set \in FiniteSubsetsOf(set)
  BY DEF FiniteSubsetsOf
<1> QED BY <1>2, <1>4, <1>5

-----------------------------------------------------------------------------
(* The sums of the indexer.                                                *)

FieldOf(field) == [e \in Feed |-> e[field]]
Fields == {"liquidity", "volume", "fees"}

LEMMA FieldIsInt ==
  ASSUME NEW field \in Fields
  PROVE  FieldOf(field) \in [Feed -> Int]
<1>1. \A e \in Feed : e["liquidity"] \in Int /\ e["volume"] \in Int /\ e["fees"] \in Int
  BY IndexerAssumption DEF Event
<1> QED BY <1>1 DEF FieldOf, Fields

LEMMA SumIsTally ==
  ASSUME NEW log, NEW is, IsFiniteSet(is), \A i \in is : log[i] \in Feed,
         \A i, j \in is : log[i] = log[j] => i = j,
         NEW field \in Fields
  PROVE  SumOf(log, field, is) = Tally(FieldOf(field), Image(log, is))
<1> DEFINE v == FieldOf(field)
           ev == [i \in is |-> log[i]]
           g == [s \in SUBSET is |-> Tally(v, Image(ev, s))]
           Solves(f) == f = [s \in SUBSET is |-> IF s = {} THEN 0
                              ELSE log[OneOf(s)][field] + f[s \ {OneOf(s)}]]
           c == CHOOSE f : Solves(f)
<1>1. v \in [Feed -> Int]
  BY FieldIsInt
<1>2. ev \in [is -> Feed] /\ \A i, j \in is : ev[i] = ev[j] => i = j
  OBVIOUS
<1>3. \A s \in SUBSET is : s # {} => v[ev[OneOf(s)]] = log[OneOf(s)][field]
  BY DEF OneOf, FieldOf
<1>4. Image(ev, is) = Image(log, is)
  BY DEF Image
<1>5. SumOf(log, field, is) = c[is]
  BY DEF SumOf, MapThenSumSet, MapThenFoldSet, OneOf
<1> HIDE DEF v, ev
<1>6. Folds(g, v, ev, is)
  <2>1. \A s \in SUBSET is : g[s] = Tally(v, Image(ev, s))
    OBVIOUS
  <2> HIDE DEF g
  <2> QED BY <1>1, <1>2, <2>1, TallyFolds
<1>7. Solves(g)
  <2>1. g = [s \in SUBSET is |-> g[s]]
    OBVIOUS
  <2> HIDE DEF g
  <2>2. \A s \in SUBSET is :
          g[s] = IF s = {} THEN 0 ELSE log[OneOf(s)][field] + g[s \ {OneOf(s)}]
    BY <1>3, <1>6 DEF Folds
  <2>3. [s \in SUBSET is |-> g[s]] =
          [s \in SUBSET is |-> IF s = {} THEN 0
             ELSE log[OneOf(s)][field] + g[s \ {OneOf(s)}]]
    BY <2>2
  <2> QED BY <2>1, <2>3
<1>8. Solves(c)
  <2> HIDE DEF g, Solves
  <2> QED BY <1>7
<1>9. Folds(c, v, ev, is)
  <2> HIDE DEF c, g
  <2>1. \A s \in SUBSET is :
          c[s] = IF s = {} THEN 0 ELSE log[OneOf(s)][field] + c[s \ {OneOf(s)}]
    BY <1>8
  <2> HIDE DEF Solves
  <2> QED BY <1>3, <2>1 DEF Folds
<1>10. c[is] = Tally(v, Image(ev, is))
  <2> HIDE DEF c
  <2> QED BY <1>1, <1>2, <1>9, FoldIsTally
<1> QED BY <1>4, <1>5, <1>10 DEF v


(* The depth of the feed is the tally of the pool's events.                *)
LEMMA DepthIsTally ==
  ASSUME NEW set \in SUBSET Feed, IsFiniteSet(set)
  PROVE  MapThenSumSet(LAMBDA e : e.liquidity, set) = Tally(FieldOf("liquidity"), set)
<1> DEFINE v == FieldOf("liquidity")
           ev == [e \in set |-> e]
           g == [s \in SUBSET set |-> Tally(v, Image(ev, s))]
           Solves(f) == f = [s \in SUBSET set |-> IF s = {} THEN 0
                              ELSE OneOf(s).liquidity + f[s \ {OneOf(s)}]]
           c == CHOOSE f : Solves(f)
<1>1. v \in [Feed -> Int]
  BY FieldIsInt DEF Fields
<1>2. ev \in [set -> Feed] /\ \A d, e \in set : ev[d] = ev[e] => d = e
  OBVIOUS
<1>3. \A s \in SUBSET set : s # {} => v[ev[OneOf(s)]] = OneOf(s).liquidity
  BY DEF OneOf, FieldOf
<1>4. Image(ev, set) = set
  BY DEF Image
<1>5. MapThenSumSet(LAMBDA e : e.liquidity, set) = c[set]
  BY DEF MapThenSumSet, MapThenFoldSet, OneOf
<1> HIDE DEF v, ev
<1>6. Folds(g, v, ev, set)
  <2>1. \A s \in SUBSET set : g[s] = Tally(v, Image(ev, s))
    OBVIOUS
  <2> HIDE DEF g
  <2> QED BY <1>1, <1>2, <2>1, TallyFolds
<1>7. Solves(g)
  <2>1. g = [s \in SUBSET set |-> g[s]]
    OBVIOUS
  <2> HIDE DEF g
  <2>2. \A s \in SUBSET set :
          g[s] = IF s = {} THEN 0 ELSE OneOf(s).liquidity + g[s \ {OneOf(s)}]
    BY <1>3, <1>6 DEF Folds
  <2>3. [s \in SUBSET set |-> g[s]] =
          [s \in SUBSET set |-> IF s = {} THEN 0
             ELSE OneOf(s).liquidity + g[s \ {OneOf(s)}]]
    BY <2>2
  <2> QED BY <2>1, <2>3
<1>8. Solves(c)
  <2> HIDE DEF g, Solves
  <2> QED BY <1>7
<1>9. Folds(c, v, ev, set)
  <2> HIDE DEF c, g
  <2>1. \A s \in SUBSET set :
          c[s] = IF s = {} THEN 0 ELSE OneOf(s).liquidity + c[s \ {OneOf(s)}]
    BY <1>8
  <2> HIDE DEF Solves
  <2> QED BY <1>3, <2>1 DEF Folds
<1>10. c[set] = Tally(v, Image(ev, set))
  <2> HIDE DEF c
  <2> QED BY <1>1, <1>2, <1>9, FoldIsTally
<1> QED BY <1>4, <1>5, <1>10 DEF v

-----------------------------------------------------------------------------
(* Two logs of the same events, each once.                                 *)

OnceEach(log) ==
  /\ log \in Seq(Feed)
  /\ \A i, j \in DOMAIN log : log[i] = log[j] => i = j
Held(log) == Image(log, DOMAIN log)
Places(log, T) == {i \in DOMAIN log : log[i] \in T}

OfPool(pool) == {e \in Feed : NormPool[e.pool] = NormPool[pool]}
Recent(pool, from) == {e \in OfPool(pool) : e.time >= from}

LEMMA LogPlaces ==
  ASSUME NEW log, OnceEach(log)
  PROVE  /\ DOMAIN log = 1..Len(log) /\ Len(log) \in Nat
         /\ \A i \in DOMAIN log : log[i] \in Feed /\ log[i].time \in Int
         /\ \A T : /\ Places(log, T) \in SUBSET DOMAIN log
                   /\ IsFiniteSet(Places(log, T))
                   /\ Image(log, Places(log, T)) = Held(log) \cap T
         /\ \A pool : InPool(log, pool) = Places(log, OfPool(pool))
         /\ \A pool, from : {i \in InPool(log, pool) : log[i].time >= from} =
                              Places(log, Recent(pool, from))
<1>1. DOMAIN log = 1..Len(log) /\ Len(log) \in Nat /\ \A i \in DOMAIN log : log[i] \in Feed
  BY DEF OnceEach
<1>2. \A e \in Feed : e.time \in Int
  BY IndexerAssumption DEF Event
<1>3. IsFiniteSet(DOMAIN log)
  BY <1>1, FS_Interval
<1>4. \A T : Places(log, T) \in SUBSET DOMAIN log /\ IsFiniteSet(Places(log, T))
  BY <1>3, FS_Subset DEF Places
<1>5. \A T : Image(log, Places(log, T)) = Held(log) \cap T
  BY DEF Image, Places, Held
<1>6. \A pool : InPool(log, pool) = Places(log, OfPool(pool))
  BY <1>1 DEF InPool, Places, OfPool
<1>7. \A pool, from : {i \in InPool(log, pool) : log[i].time >= from} =
                        Places(log, Recent(pool, from))
  BY <1>1 DEF InPool, Places, OfPool, Recent
<1> QED BY <1>1, <1>2, <1>4, <1>5, <1>6, <1>7

LEMMA SumOfPlaces ==
  ASSUME NEW log, OnceEach(log), NEW T, NEW field \in Fields
  PROVE  SumOf(log, field, Places(log, T)) = Tally(FieldOf(field), Held(log) \cap T)
<1> DEFINE is == Places(log, T)
<1>1. /\ is \in SUBSET DOMAIN log /\ IsFiniteSet(is) /\ Image(log, is) = Held(log) \cap T
      /\ \A i \in DOMAIN log : log[i] \in Feed
  BY LogPlaces
<1>2. \A i, j \in is : log[i] = log[j] => i = j
  BY <1>1 DEF OnceEach
<1>3. \A i \in is : log[i] \in Feed
  BY <1>1
<1> HIDE DEF is
<1>4. SumOf(log, field, is) = Tally(FieldOf(field), Image(log, is))
  BY <1>1, <1>2, <1>3, SumIsTally
<1> QED BY <1>1, <1>4 DEF is

(* Their newest events are of one time.                                    *)
LEMMA NewestAgree ==
  ASSUME NEW log, OnceEach(log), NEW other, OnceEach(other), Held(log) = Held(other),
         NEW pool
  PROVE  /\ Newest(log, pool) = 0 <=> Newest(other, pool) = 0
         /\ Newest(log, pool) # 0 =>
              /\ Newest(log, pool) \in DOMAIN log /\ Newest(other, pool) \in DOMAIN other
              /\ log[Newest(log, pool)] \in Held(log) \cap OfPool(pool)
              /\ other[Newest(other, pool)] \in Held(log) \cap OfPool(pool)
              /\ log[Newest(log, pool)].time = other[Newest(other, pool)].time
<1> DEFINE T == OfPool(pool)
           m == Newest(log, pool)
           n == Newest(other, pool)
<1>1. /\ DOMAIN log = 1..Len(log) /\ Len(log) \in Nat
      /\ \A i \in DOMAIN log : log[i] \in Feed /\ log[i].time \in Int
      /\ InPool(log, pool) = Places(log, T)
      /\ Image(log, Places(log, T)) = Held(log) \cap T
      /\ Places(log, T) \in SUBSET DOMAIN log
  BY LogPlaces
<1>2. /\ DOMAIN other = 1..Len(other) /\ Len(other) \in Nat
      /\ \A i \in DOMAIN other : other[i] \in Feed /\ other[i].time \in Int
      /\ InPool(other, pool) = Places(other, T)
      /\ Image(other, Places(other, T)) = Held(log) \cap T
      /\ Places(other, T) \in SUBSET DOMAIN other
  BY LogPlaces
<1> HIDE DEF T
<1>3. CASE Held(log) \cap T = {}
  <2>1. InPool(log, pool) = {} /\ InPool(other, pool) = {}
    BY <1>1, <1>2, <1>3 DEF Image
  <2>2. m = 0 /\ n = 0
    BY <2>1 DEF Newest
  <2> QED BY <2>2
<1>4. CASE Held(log) \cap T # {}
  <2>1. InPool(log, pool) # {} /\ InPool(other, pool) # {}
    BY <1>1, <1>2, <1>4 DEF Image
  <2>2. m \in InPool(log, pool) /\ \A j \in InPool(log, pool) : log[j].time <= log[m].time
    BY <1>1, <2>1, NewestIsLatest
  <2>3. n \in InPool(other, pool)
        /\ \A j \in InPool(other, pool) : other[j].time <= other[n].time
    BY <1>2, <2>1, NewestIsLatest
  <2> HIDE DEF m, n
  <2>4. m \in DOMAIN log /\ n \in DOMAIN other /\ m # 0 /\ n # 0
    BY <1>1, <1>2, <2>2, <2>3
  <2>5. log[m] \in Held(log) \cap T /\ other[n] \in Held(log) \cap T
    BY <1>1, <1>2, <2>2, <2>3 DEF Image
  <2>6. \E j \in InPool(log, pool) : log[j] = other[n]
    BY <1>1, <2>5 DEF Image
  <2>7. \E j \in InPool(other, pool) : other[j] = log[m]
    BY <1>2, <2>5 DEF Image
  <2>8. log[m].time \in Int /\ other[n].time \in Int
    BY <1>1, <1>2, <2>4
  <2>9. log[m].time <= other[n].time /\ other[n].time <= log[m].time
    BY <2>2, <2>3, <2>6, <2>7
  <2>10. log[m].time = other[n].time
    BY <2>8, <2>9
  <2> QED BY <2>4, <2>5, <2>10 DEF m, n, T
<1> QED BY <1>3, <1>4


(* The snapshots of the two are equal but for the block, and a position    *)
(* is reconciled with the tally of the pool's events.                      *)
LEMMA SnapshotsAgree ==
  ASSUME NEW log, OnceEach(log), NEW other, OnceEach(other), Held(log) = Held(other),
         NEW pool, NEW now, NEW window, NEW maxAge
  PROVE  LET a == Snapshot(log, pool, now, window, maxAge)
             b == Snapshot(other, pool, now, window, maxAge)
         IN /\ [a EXCEPT !.block = 0] = [b EXCEPT !.block = 0]
            /\ a.block # b.block =>
                 \E e, f \in Held(log) \cap OfPool(pool) :
                   e.block = a.block /\ f.block = b.block /\ e.time = f.time
<1> DEFINE a == Snapshot(log, pool, now, window, maxAge)
           b == Snapshot(other, pool, now, window, maxAge)
           m == Newest(log, pool)
           n == Newest(other, pool)
           from == now - window
           recent(l) == {i \in InPool(l, pool) : l[i].time >= from}
           age(l, k) == IF k = 0 THEN maxAge + 1
                        ELSE IF l[k].time > now THEN 0 ELSE now - l[k].time
<1>0. \A T : \A field \in Fields :
        SumOf(log, field, Places(log, T)) = SumOf(other, field, Places(other, T))
  <2> TAKE T
  <2> TAKE field \in Fields
  <2>1. SumOf(log, field, Places(log, T)) = Tally(FieldOf(field), Held(log) \cap T)
    BY SumOfPlaces
  <2>2. SumOf(other, field, Places(other, T)) = Tally(FieldOf(field), Held(log) \cap T)
    BY SumOfPlaces
  <2> QED BY <2>1, <2>2
<1>1. Depth(log, pool) = Depth(other, pool)
  <2>1. "liquidity" \in Fields
    BY DEF Fields
  <2>2. /\ InPool(log, pool) = Places(log, OfPool(pool))
        /\ InPool(other, pool) = Places(other, OfPool(pool))
    BY LogPlaces
  <2>3. SumOf(log, "liquidity", InPool(log, pool)) =
          SumOf(other, "liquidity", InPool(other, pool))
    BY <1>0, <2>1, <2>2
  <2> QED BY <2>3 DEF Depth
<1>2. \A field \in Fields : SumOf(log, field, recent(log)) = SumOf(other, field, recent(other))
  <2> DEFINE T == Recent(pool, from)
  <2> HIDE DEF from
  <2>1. recent(log) = Places(log, T) /\ recent(other) = Places(other, T)
    BY LogPlaces
  <2> HIDE DEF T, recent
  <2> QED BY <1>0, <2>1
<1>3. /\ m = 0 <=> n = 0
      /\ m # 0 => /\ log[m] \in Held(log) \cap OfPool(pool)
                  /\ other[n] \in Held(log) \cap OfPool(pool)
                  /\ log[m].time = other[n].time
  BY NewestAgree
<1>4. /\ a = [liquidity |-> Depth(log, pool), volume |-> SumOf(log, "volume", recent(log)),
              fees |-> SumOf(log, "fees", recent(log)),
              block |-> IF m = 0 THEN 0 ELSE log[m].block,
              dataAge |-> age(log, m), stale |-> age(log, m) > maxAge]
      /\ b = [liquidity |-> Depth(other, pool),
              volume |-> SumOf(other, "volume", recent(other)),
              fees |-> SumOf(other, "fees", recent(other)),
              block |-> IF n = 0 THEN 0 ELSE other[n].block,
              dataAge |-> age(other, n), stale |-> age(other, n) > maxAge]
  BY DEF Snapshot
<1> HIDE DEF m, n
<1>5. age(log, m) = age(other, n)
  BY <1>3
<1>6. "volume" \in Fields /\ "fees" \in Fields
  BY DEF Fields
<1>7. /\ SumOf(log, "volume", recent(log)) = SumOf(other, "volume", recent(other))
      /\ SumOf(log, "fees", recent(log)) = SumOf(other, "fees", recent(other))
  <2> HIDE DEF recent
  <2> QED BY <1>2, <1>6
<1> DEFINE va == SumOf(log, "volume", recent(log))
           fa == SumOf(log, "fees", recent(log))
           ag == age(log, m)
           da == Depth(log, pool)
<1>8. /\ a = [liquidity |-> da, volume |-> va, fees |-> fa,
              block |-> IF m = 0 THEN 0 ELSE log[m].block,
              dataAge |-> ag, stale |-> ag > maxAge]
      /\ b = [liquidity |-> da, volume |-> va, fees |-> fa,
              block |-> IF n = 0 THEN 0 ELSE other[n].block,
              dataAge |-> ag, stale |-> ag > maxAge]
  <2> HIDE DEF a, b, recent, age
  <2> QED BY <1>1, <1>4, <1>5, <1>7
<1> HIDE DEF a, b, va, fa, ag, da
<1>9. [a EXCEPT !.block = 0] = [b EXCEPT !.block = 0]
  BY <1>8
<1>10. ASSUME a.block # b.block
       PROVE  \E e, f \in Held(log) \cap OfPool(pool) :
                e.block = a.block /\ f.block = b.block /\ e.time = f.time
  <2>1. /\ a.block = IF m = 0 THEN 0 ELSE log[m].block
        /\ b.block = IF n = 0 THEN 0 ELSE other[n].block
    BY <1>8
  <2> QED BY <1>3, <1>10, <2>1
<1> QED BY <1>9, <1>10 DEF a, b

LEMMA DepthOfAll ==
  ASSUME NEW log, OnceEach(log), NEW pool, OfPool(pool) \subseteq Held(log)
  PROVE  Depth(log, pool) = FeedDepth(pool)
<1> DEFINE v == FieldOf("liquidity")
           T == OfPool(pool)
           n == Tally(v, T)
<1>1. "liquidity" \in Fields
  BY DEF Fields
<1>2. Held(log) \cap T = T /\ T \in SUBSET Feed
  BY DEF OfPool
<1>3. IsFiniteSet(T)
  <2>1. IsFiniteSet(Held(log))
    <3>1. log \in Surjection(DOMAIN log, Held(log))
      <4>1. log = [i \in DOMAIN log |-> log[i]]
        BY DEF OnceEach
      <4> QED BY <4>1 DEF Surjection, Held, Image
    <3>2. IsFiniteSet(DOMAIN log)
      BY LogPlaces, FS_Interval
    <3> QED BY <3>1, <3>2, FS_Surjection
  <2> QED BY <2>1, FS_Subset
<1>4. InPool(log, pool) = Places(log, T)
  BY LogPlaces
<1>5. SumOf(log, "liquidity", InPool(log, pool)) = n
  <2> HIDE DEF T
  <2> QED BY <1>1, <1>2, <1>4, SumOfPlaces
<1>6. MapThenSumSet(LAMBDA e : e.liquidity, T) = n
  <2> HIDE DEF T
  <2> QED BY <1>2, <1>3, DepthIsTally
<1>7. FeedDepth(pool) = IF n > 0 THEN n ELSE 0
  BY <1>6 DEF FeedDepth, OfPool
<1>8. n \in Int
  <2> HIDE DEF T
  <2>1. v \in [Feed -> Int] /\ Minus(v) \in [Feed -> Int]
    BY <1>1, FieldIsInt DEF Minus
  <2>2. Cardinality(Units(v, T)) \in Nat /\ Cardinality(Units(Minus(v), T)) \in Nat
    BY <1>2, <1>3, <2>1, UnitsFinite
  <2> QED BY <2>2 DEF Tally
<1> HIDE DEF n
<1> QED BY <1>5, <1>7, <1>8 DEF Depth


-----------------------------------------------------------------------------
(* Every event is ingested once: of a key that has been seen no other is.  *)

OncePerKey == \A i, j \in DOMAIN events : events[i].key = events[j].key => i = j

LEMMA KeysStayOnce ==
  ASSUME CursorInv, OncePerKey, [NextIndexer]_indexerVars
  PROVE  OncePerKey'
<1>1. events \in Seq(Feed)
  BY DEF CursorInv, TypeOK
<1>2. ASSUME NEW e \in todo, Ingest(e)
      PROVE  OncePerKey'
  <2>1. /\ events' = Append(events, e)
        /\ \A i \in DOMAIN events : events[i].key # e.key
    BY <1>2 DEF Ingest, Seen, Ingested
  <2>2. /\ DOMAIN events' = 1..(Len(events) + 1)
        /\ DOMAIN events = 1..Len(events) /\ Len(events) \in Nat
        /\ \A i \in 1..Len(events) : events'[i] = events[i]
        /\ events'[Len(events) + 1] = e
    BY <1>1, <2>1
  <2>3. \A i \in DOMAIN events' : i \in DOMAIN events \/ i = Len(events) + 1
    BY <2>2
  <2> QED BY <2>1, <2>2, <2>3 DEF OncePerKey
<1>3. CASE UNCHANGED events
  BY <1>3 DEF OncePerKey
<1>4. \/ UNCHANGED events
      \/ \E e \in todo : Ingest(e)
  BY DEF NextIndexer, Step, Deliver, Throw, Duplicate, indexerVars
<1> QED BY <1>2, <1>3, <1>4

LEMMA KeysOnceHolds == IndexerSpec => []OncePerKey
<1>1. InitIndexer => OncePerKey
  BY DEF InitIndexer, OncePerKey
<1>2. CursorInv /\ OncePerKey /\ [NextIndexer]_indexerVars => OncePerKey'
  BY KeysStayOnce
<1> QED BY <1>1, <1>2, CursorInvariant, PTL DEF IndexerSpec

LEMMA LogsOfIngested ==
  ASSUME TypeOK, OncePerKey
  PROVE  /\ OnceEach(events) /\ Held(events) = Ingested
         /\ \A order \in SetToSeqs(Ingested) : OnceEach(order) /\ Held(order) = Ingested
<1>1. OnceEach(events)
  BY DEF TypeOK, OncePerKey, OnceEach
<1>2. Held(events) = Ingested
  BY DEF Held, Image, Ingested
<1>3. ASSUME NEW order \in SetToSeqs(Ingested)
      PROVE  OnceEach(order) /\ Held(order) = Ingested
  <2> DEFINE n == Cardinality(Ingested)
  <2>1. IsFiniteSet(Ingested) /\ n \in Nat
    BY IngestedIsFinite, FS_CardinalityType
  <2>2. /\ order \in [1..n -> Ingested]
        /\ \A i, j \in 1..n : i # j => order[i] # order[j]
    BY <1>3 DEF SetToSeqs
  <2>3. IsFiniteSet(1..n) /\ Cardinality(1..n) = n
    BY <2>1, FS_Interval
  <2>4. order \in Injection(1..n, Ingested)
    BY <2>2 DEF Injection, IsInjective
  <2> HIDE DEF n
  <2>5. order \in Surjection(1..n, Ingested)
    BY <2>1, <2>3, <2>4, FS_Injection DEF n
  <2>6. Held(order) = Ingested
    BY <2>2, <2>5 DEF Surjection, Held, Image
  <2>7. Ingested \subseteq Feed
    BY DEF Ingested, TypeOK
  <2>8. order \in [1..n -> Feed]
    BY <2>2, <2>7
  <2>9. order \in Seq(Feed)
    BY <2>1, <2>8
  <2> QED BY <2>2, <2>6, <2>9 DEF OnceEach
<1> QED BY <1>1, <1>2, <1>3

(* buildSnapshot and reconcileLiquidity, lines 115-172, do not tell how    *)
(* the events came, for every feed, every delivery and every order: the    *)
(* block of two newest events with one timestamp apart.                    *)
THEOREM SnapshotsForget == IndexerSpec => []SnapshotForgetsDelivery
<1>1. ASSUME CursorInv, OncePerKey PROVE SnapshotForgetsDelivery
  <2> SUFFICES ASSUME NEW order \in SetToSeqs(Ingested), NEW pool \in Pools, NEW now \in Nows
               PROVE  LET taken == Snapshot(events, pool, now, SnapshotWindow, MaxAge)
                          other == Snapshot(order, pool, now, SnapshotWindow, MaxAge)
                      IN /\ [taken EXCEPT !.block = 0] = [other EXCEPT !.block = 0]
                         /\ taken.block # other.block =>
                              \E e, f \in EventsOf(NormPool[pool]) :
                                 e.block = taken.block /\ f.block = other.block /\ e.time = f.time
                         /\ {e \in Feed : NormPool[e.pool] = NormPool[pool]} \subseteq Ingested =>
                              \A depth \in Observed :
                                reconcileLiquidity(events, pool, depth) <=> depth = FeedDepth(pool)
    BY DEF SnapshotForgetsDelivery
  <2> DEFINE taken == Snapshot(events, pool, now, SnapshotWindow, MaxAge)
             other == Snapshot(order, pool, now, SnapshotWindow, MaxAge)
  <2>1. TypeOK
    BY <1>1 DEF CursorInv
  <2>2. /\ OnceEach(events) /\ Held(events) = Ingested
        /\ OnceEach(order) /\ Held(order) = Ingested
    BY <1>1, <2>1, LogsOfIngested
  <2>3. Held(events) \cap OfPool(pool) = EventsOf(NormPool[pool])
    <3>1. Ingested \subseteq Feed
      BY <2>1 DEF Ingested, TypeOK
    <3> QED BY <2>2, <3>1 DEF OfPool, EventsOf
  <2>4. /\ [taken EXCEPT !.block = 0] = [other EXCEPT !.block = 0]
        /\ taken.block # other.block =>
             \E e, f \in Held(events) \cap OfPool(pool) :
               e.block = taken.block /\ f.block = other.block /\ e.time = f.time
    BY <2>2, SnapshotsAgree
  <2>5. ASSUME OfPool(pool) \subseteq Ingested
        PROVE  Depth(events, pool) = FeedDepth(pool)
    BY <2>2, <2>5, DepthOfAll
  <2>6. \A depth : reconcileLiquidity(events, pool, depth) <=> Depth(events, pool) = depth
    BY DEF reconcileLiquidity
  <2>7. OfPool(pool) = {e \in Feed : NormPool[e.pool] = NormPool[pool]}
    BY DEF OfPool
  <2> HIDE DEF taken, other
  <2> QED BY <2>3, <2>4, <2>5, <2>6, <2>7 DEF taken, other
<1>2. CursorInv /\ OncePerKey => SnapshotForgetsDelivery
  BY <1>1
<1> QED BY <1>2, CursorInvariant, KeysOnceHolds, PTL

=============================================================================
