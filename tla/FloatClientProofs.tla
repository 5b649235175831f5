-------------------------- MODULE FloatClientProofs --------------------------
(***************************************************************************)
(* The money and the rate limit of FloatClient, for any number of callers, *)
(* any amounts, any limit and any number of late transactions.             *)
(***************************************************************************)
EXTENDS FloatClient, FiniteSetTheorems, FunctionTheorems, TLAPS

-----------------------------------------------------------------------------
(* Times that are filtered: how many of a history are as late as t.        *)
Since(h, t) == {i \in DOMAIN h : h[i] >= t}
Times == 0..MaxClock

(* Of the recalls that landed, those that the client heard of.             *)
Entries == [at : Times, timedOut : BOOLEAN]
Heard(h, t) == {i \in DOMAIN h : ~h[i].timedOut /\ h[i].at >= t}

LEMMA Bounds ==
  /\ MaxClock \in Nat /\ MaxCalls \in Nat /\ MaxRecalls \in Nat
  /\ Hour \in Nat /\ Hour > 0 /\ Liquid0 \in Nat /\ Vault0 \in Nat
  /\ IsFiniteSet(Callers) /\ Callers # {} /\ Amounts \subseteq Nat \ {0}
BY FloatClientAssumption

LEMMA SinceFinite ==
  ASSUME NEW V, NEW h \in Seq(V), NEW S \in SUBSET DOMAIN h
  PROVE  IsFiniteSet(S) /\ Cardinality(S) \in Nat
<1>1. DOMAIN h = 1..Len(h) /\ Len(h) \in Nat
  OBVIOUS
<1>2. IsFiniteSet(1..Len(h))
  BY <1>1, FS_Interval
<1> QED BY <1>1, <1>2, FS_Subset, FS_CardinalityType

(* An appended time counts if it is late enough.                           *)
LEMMA SinceAppend ==
  ASSUME NEW h \in Seq(Times), NEW at \in Times, NEW t \in Int
  PROVE  /\ Append(h, at) \in Seq(Times)
         /\ Cardinality(Since(Append(h, at), t)) =
              IF at >= t THEN Cardinality(Since(h, t)) + 1
                         ELSE Cardinality(Since(h, t))
<1> DEFINE g == Append(h, at)
           n == Len(h) + 1
<1>1. /\ g \in Seq(Times) /\ DOMAIN g = 1..n /\ DOMAIN h = 1..Len(h)
      /\ Len(h) \in Nat /\ \A i \in 1..Len(h) : g[i] = h[i]
      /\ g[n] = at
  OBVIOUS
<1>2. 1..n = 1..Len(h) \cup {n} /\ n \notin 1..Len(h)
  BY <1>1
<1> HIDE DEF g, n
<1>3. Since(g, t) = IF at >= t THEN Since(h, t) \cup {n} ELSE Since(h, t)
  BY <1>1, <1>2 DEF Since
<1>4. IsFiniteSet(Since(h, t)) /\ n \notin Since(h, t)
  BY <1>1, <1>2, SinceFinite DEF Since
<1> QED BY <1>1, <1>3, <1>4, FS_AddElement DEF g

(* An appended recall counts if it was heard of and is late enough.        *)
LEMMA HeardAppend ==
  ASSUME NEW h \in Seq(Entries), NEW e \in Entries, NEW t \in Int
  PROVE  /\ Append(h, e) \in Seq(Entries)
         /\ Cardinality(Heard(Append(h, e), t)) =
              IF ~e.timedOut /\ e.at >= t THEN Cardinality(Heard(h, t)) + 1
                                          ELSE Cardinality(Heard(h, t))
<1> DEFINE g == Append(h, e)
           n == Len(h) + 1
<1>1. /\ g \in Seq(Entries) /\ DOMAIN g = 1..n /\ DOMAIN h = 1..Len(h)
      /\ Len(h) \in Nat /\ \A i \in 1..Len(h) : g[i] = h[i]
      /\ g[n] = e
  OBVIOUS
<1>2. 1..n = 1..Len(h) \cup {n} /\ n \notin 1..Len(h)
  BY <1>1
<1> HIDE DEF g, n
<1>3. Heard(g, t) = IF ~e.timedOut /\ e.at >= t THEN Heard(h, t) \cup {n}
                                                ELSE Heard(h, t)
  BY <1>1, <1>2 DEF Heard
<1>4. IsFiniteSet(Heard(h, t)) /\ n \notin Heard(h, t)
  BY <1>1, <1>2, SinceFinite DEF Heard
<1> QED BY <1>1, <1>3, <1>4, FS_AddElement DEF g

(* A sequence of a set holds each member once.                             *)
LEMMA SequenceOfSet ==
  ASSUME NEW S, IsFiniteSet(S)
  PROVE  /\ SetToSeq(S) \in Bijection(1..Cardinality(S), S)
         /\ Cardinality(S) \in Nat
<1> DEFINE D == 1..Cardinality(S)
<1>1. Cardinality(S) \in Nat /\ ExistsBijection(D, S)
  BY FS_CardinalityType
<1>2. PICK f : f \in Bijection(D, S)
  BY <1>1 DEF ExistsBijection
<1>3. f \in [D -> S] /\ IsInjective(f)
  BY <1>2 DEF Bijection, Injection
<1> DEFINE g == SetToSeq(S)
<1>4. g \in [D -> S] /\ IsInjective(g)
  BY <1>3 DEF SetToSeq
<1>5. g \in Injection(D, S)
  BY <1>4 DEF Injection
<1>6. IsFiniteSet(D) /\ Cardinality(D) = Cardinality(S)
  <2>1. IsFiniteSet(D) /\ Cardinality(D) = IF 1 > Cardinality(S) THEN 0 ELSE Cardinality(S) - 1 + 1
    BY <1>1, FS_Interval
  <2> QED BY <2>1, <1>1
<1>7. g \in Surjection(D, S)
  BY <1>5, <1>6, FS_Injection
<1> QED BY <1>1, <1>5, <1>7 DEF Bijection

(* What the client forgets is older than an hour: the later counts stay.   *)
LEMMA RecentKeeps ==
  ASSUME NEW h \in Seq(Times), clock \in Times
  PROVE  /\ Recent(h) \in Seq(Times)
         /\ Len(Recent(h)) = Cardinality(Since(h, clock - Hour + 1))
         /\ \A t \in Int : t > clock - Hour =>
              Cardinality(Since(Recent(h), t)) = Cardinality(Since(h, t))
<1> DEFINE S == {i \in DOMAIN h : clock - h[i] < Hour}
           D == 1..Cardinality(S)
           kept == SetToSeq(S)
           r == [n \in DOMAIN kept |-> h[kept[n]]]
<1>1. \A i \in DOMAIN h : h[i] \in Times
  OBVIOUS
<1>2. IsFiniteSet(S)
  BY SinceFinite
<1>3. kept \in Bijection(D, S) /\ Cardinality(S) \in Nat
  BY <1>2, SequenceOfSet
<1>4. /\ kept \in [D -> S] /\ DOMAIN kept = D
      /\ \A a, b \in D : kept[a] = kept[b] => a = b
      /\ \A i \in S : \E n \in D : kept[n] = i
  BY <1>3 DEF Bijection, Injection, Surjection, IsInjective
<1>5. Recent(h) = r
  BY DEF Recent
<1> HIDE DEF kept
<1>6. r \in [D -> Times]
  <2>1. S \subseteq DOMAIN h
    OBVIOUS
  <2> HIDE DEF S
  <2> QED BY <1>1, <1>4, <2>1
<1>7. \A n \in D : r[n] = h[kept[n]]
  BY <1>4
<1> HIDE DEF r
<1>8. r \in Seq(Times) /\ Len(r) = Cardinality(S) /\ DOMAIN r = D
  <2> HIDE DEF S
  <2> QED BY <1>3, <1>6
<1>9. S = Since(h, clock - Hour + 1)
  <2>1. ASSUME NEW i \in DOMAIN h
        PROVE  clock - h[i] < Hour <=> h[i] >= clock - Hour + 1
    BY <1>1, Bounds DEF Times
  <2> QED BY <2>1 DEF Since
<1>10. ASSUME NEW t \in Int, t > clock - Hour
      PROVE  Cardinality(Since(r, t)) = Cardinality(Since(h, t))
  <2> DEFINE A == Since(r, t)
             B == Since(h, t)
             f == [n \in A |-> kept[n]]
  <2>1. A \subseteq D /\ B \subseteq S
    <3>1. \A i \in DOMAIN h : h[i] >= t => clock - h[i] < Hour
      BY <1>1, <1>10, Bounds DEF Times
    <3> QED BY <3>1, <1>8 DEF Since
  <2>2. \A n \in D : n \in A <=> kept[n] \in B
    BY <1>4, <1>8, <1>7 DEF Since
  <2>3. f \in [A -> B]
    BY <2>1, <2>2
  <2>4. f \in Injection(A, B)
    BY <2>1, <2>3, <1>4 DEF Injection, IsInjective
  <2>5. f \in Surjection(A, B)
    <3>1. ASSUME NEW i \in B PROVE \E n \in A : f[n] = i
      <4>1. PICK n \in D : kept[n] = i
        BY <2>1, <1>4
      <4>2. n \in A
        BY <4>1, <2>2
      <4> QED BY <4>1, <4>2
    <3> QED BY <2>3, <3>1 DEF Surjection
  <2>6. IsFiniteSet(A)
    <3>1. IsFiniteSet(D)
      BY <1>3, FS_Interval
    <3> QED BY <2>1, <3>1, FS_Subset
  <2>7. ExistsBijection(A, B)
    BY <2>4, <2>5 DEF Bijection, ExistsBijection
  <2> QED BY <2>6, <2>7, FS_Bijection
<1> HIDE DEF S
<1> QED BY <1>5, <1>8, <1>9, <1>10

-----------------------------------------------------------------------------
(* The invariant.  A caller under way has an amount and, while it recalls, *)
(* a deficit.                                                              *)
Job == [amount : Nat, force : BOOLEAN, liquid : Nat, deficit : Nat, now : Times]
Txs == [kind : {"approve", "park", "withdraw", "pay"}, amount : Nat \ {0},
        recall : BOOLEAN, at : Times]

Real(c) == /\ pc[c] # "idle" => job[c].amount > 0
           /\ pc[c] = "recall" => job[c].deficit > 0

(* Unforced recalls that were let through and are still awaited count with *)
(* those that confirmed; and the client has recorded these, too.           *)
Underway(t) == {c \in Callers : /\ pc[c] \in {"recall", "recalled"}
                                /\ ~job[c].force /\ job[c].now >= t}
Oldest == clock - Hour + 1

Recorded ==
  \A t \in Int : t > clock - Hour =>
    Cardinality(Heard(unforced, t)) <= Cardinality(Since(recallHistory, t))
Limited ==
  Cardinality(Heard(unforced, Oldest)) + Cardinality(Underway(Oldest))
    <= MaxRecalls + Cardinality(Callers) - 1

ClientInv == TypeOK /\ (\A c \in Callers : Real(c)) /\ Recorded /\ Limited

-----------------------------------------------------------------------------
(* A step of one caller: the others keep their places and their jobs.      *)
Moved(c) ==
  /\ pc' \in [Callers -> Places] /\ job' \in [Callers -> Job]
  /\ \A d \in Callers \ {c} : pc'[d] = pc[d] /\ job'[d] = job[d]
  /\ Real(c)'

(* It does not touch the times, and begins no recall.                      *)
Calm(c) ==
  /\ UNCHANGED <<recallHistory, unforced, clock>>
  /\ pc'[c] \in {"recall", "recalled"} => pc[c] = "recall" /\ job'[c] = job[c]

(* The money is there.                                                     *)
Sound ==
  /\ liquid' \in 0..(Liquid0 + Vault0) /\ vault' \in 0..(Liquid0 + Vault0)
  /\ liquid' + vault' <= Liquid0 + Vault0
  /\ allowance' \in Nat /\ late' \in Seq(Txs) /\ calls' \in 0..MaxCalls

LEMMA Typed ==
  ASSUME TypeOK
  PROVE  /\ liquid \in 0..(Liquid0 + Vault0) /\ vault \in 0..(Liquid0 + Vault0)
         /\ liquid \in Nat /\ vault \in Nat
         /\ liquid + vault <= Liquid0 + Vault0
         /\ allowance \in Nat /\ late \in Seq(Txs)
         /\ recallHistory \in Seq(Times) /\ unforced \in Seq(Entries)
         /\ clock \in Times /\ calls \in 0..MaxCalls
         /\ pc \in [Callers -> Places] /\ job \in [Callers -> Job]
BY Bounds DEF TypeOK, Times, Txs, Job, Entries

LEMMA Retyped ==
  ASSUME Sound, recallHistory' \in Seq(Times), unforced' \in Seq(Entries),
         clock' \in Times, pc' \in [Callers -> Places], job' \in [Callers -> Job]
  PROVE  TypeOK'
BY DEF Sound, TypeOK, Times, Txs, Job, Entries

(* A caller that goes on with a job.                                       *)
LEMMA GoesOn ==
  ASSUME TypeOK, NEW c \in Callers, NEW place \in Places, NEW j \in Job,
         Go(c, place), job' = [job EXCEPT ![c] = j],
         place # "idle" => j.amount > 0,
         place = "recall" => j.deficit > 0
  PROVE  Moved(c) /\ pc'[c] = place /\ job'[c] = j
<1>1. /\ pc' \in [Callers -> Places] /\ job' \in [Callers -> Job]
      /\ pc'[c] = place /\ job'[c] = j
      /\ \A d \in Callers \ {c} : pc'[d] = pc[d] /\ job'[d] = job[d]
  BY Typed DEF Go
<1> QED BY <1>1 DEF Moved, Real

(* The others have what they had.                                          *)
LEMMA AllReal ==
  ASSUME ClientInv, NEW c \in Callers, Moved(c)
  PROVE  \A d \in Callers : Real(d)'
BY DEF ClientInv, Moved, Real

(* Fewer under way, or older ones that do not count any more.              *)
LEMMA UnderwayFinite ==
  ASSUME NEW t
  PROVE  /\ IsFiniteSet(Underway(t)) /\ Cardinality(Underway(t)) \in Nat
         /\ Cardinality(Underway(t)) <= Cardinality(Callers)
BY Bounds, FS_Subset, FS_CardinalityType DEF Underway

LEMMA FewerUnderway ==
  ASSUME TypeOK, Limited, UNCHANGED <<unforced, clock>>,
         NEW S, S = Underway(Oldest)', S \subseteq Underway(Oldest)
  PROVE  Limited'
<1>1. Cardinality(S) <= Cardinality(Underway(Oldest)) /\ Cardinality(S) \in Nat
  BY UnderwayFinite, FS_Subset, FS_CardinalityType
<1>2. Cardinality(Heard(unforced, Oldest)) \in Nat
  BY Typed, SinceFinite DEF Heard
<1>3. Cardinality(Callers) \in Nat /\ MaxRecalls \in Nat
  BY Bounds, FS_CardinalityType
<1>4. Heard(unforced, Oldest)' = Heard(unforced, Oldest)
  BY DEF Heard, Oldest
<1> QED BY <1>1, <1>2, <1>3, <1>4, UnderwayFinite DEF Limited

(* Such a step keeps the invariant.                                        *)
LEMMA CalmKeeps ==
  ASSUME ClientInv, NEW c \in Callers, Moved(c), Calm(c), Sound
  PROVE  ClientInv'
<1>1. TypeOK
  BY DEF ClientInv
<1>2. TypeOK'
  BY <1>1, Typed, Retyped DEF Moved, Calm
<1>3. \A d \in Callers : Real(d)'
  BY AllReal
<1>4. Recorded'
  BY DEF ClientInv, Recorded, Calm, Since, Heard
<1>5. Limited'
  <2>1. Oldest' = Oldest /\ UNCHANGED <<unforced, clock>>
    BY DEF Calm, Oldest
  <2>2. ASSUME NEW d \in Underway(Oldest)' PROVE d \in Underway(Oldest)
    <3>1. /\ d \in Callers /\ pc'[d] \in {"recall", "recalled"}
          /\ ~job'[d].force /\ job'[d].now >= Oldest
      BY <2>1 DEF Underway
    <3>2. CASE d = c
      BY <3>1, <3>2 DEF Calm, Underway
    <3>3. CASE d # c
      <4>1. /\ pc'[d] = pc[d] /\ job'[d].force = job[d].force
            /\ job'[d].now = job[d].now
        BY <3>1, <3>3 DEF Moved
      <4> QED BY <3>1, <4>1 DEF Underway
    <3> QED BY <3>2, <3>3
  <2> QED BY <1>1, <2>1, <2>2, FewerUnderway DEF ClientInv
<1> QED BY <1>2, <1>3, <1>4, <1>5 DEF ClientInv

LEMMA NoJobIsJob == NoJob \in Job
BY Bounds DEF NoJob, Job, Times

LEMMA EndMoves ==
  ASSUME TypeOK, NEW c \in Callers, End(c)
  PROVE  Moved(c) /\ pc'[c] = "idle" /\ job'[c] = NoJob
<1>1. "idle" \in Places /\ "idle" # "readParked" /\ "idle" # "pay"
  BY DEF Places
<1> QED BY <1>1, NoJobIsJob, GoesOn DEF End

(* Nothing on the chain moved.                                             *)
LEMMA QuietSound ==
  ASSUME TypeOK, UNCHANGED chain, calls' \in 0..MaxCalls
  PROVE  Sound
BY Typed DEF Sound, chain

-----------------------------------------------------------------------------
(* Calls that begin.                                                       *)
LEMMA StartCalm ==
  ASSUME ClientInv, NEW c \in Callers, NEW amount \in Amounts, NEW force \in BOOLEAN,
         NEW place \in {"readLiquid", "approve", "withdraw"},
         Start(c, place, amount, force)
  PROVE  ClientInv'
<1> DEFINE j == [job[c] EXCEPT !.amount = amount, !.force = force]
<1>1. TypeOK /\ amount \in Nat /\ amount > 0
  BY Bounds DEF ClientInv
<1>2. job[c] \in Job /\ job \in [Callers -> Job] /\ calls \in 0..MaxCalls
  BY <1>1, Typed
<1>3. j \in Job /\ j.amount = amount /\ job' = [job EXCEPT ![c] = j]
  BY <1>1, <1>2 DEF Start, Job
<1>4. Go(c, place) /\ UNCHANGED <<chain, recallHistory, unforced, clock>>
      /\ calls' = calls + 1 /\ calls < MaxCalls
  BY DEF Start
<1> HIDE DEF j
<1>5. Moved(c) /\ pc'[c] = place
  <2>1. /\ place \in Places /\ place # "recall" /\ place # "readParked"
        /\ place # "pay"
    BY DEF Places
  <2> QED BY <1>1, <1>3, <1>4, <2>1, GoesOn
<1>6. Calm(c)
  BY <1>4, <1>5 DEF Calm
<1>7. Sound
  BY <1>1, <1>2, <1>4, QuietSound, Bounds
<1> QED BY <1>5, <1>6, <1>7, CalmKeeps

(* Steps of a payment between which nothing of the chain moves.            *)
LEMMA ReadsCalm ==
  ASSUME ClientInv, NEW c \in Callers,
         ReadLiquid(c) \/ Covered(c) \/ Insufficient(c) \/ Verify(c)
  PROVE  ClientInv'
<1>1. TypeOK /\ Real(c)
  BY DEF ClientInv
<1>2. job[c] \in Job /\ job \in [Callers -> Job] /\ calls \in 0..MaxCalls
      /\ liquid \in Nat /\ pc \in [Callers -> Places]
  BY <1>1, Typed
<1>3. UNCHANGED <<chain, recallHistory, unforced, clock, calls>>
  BY DEF ReadLiquid, Covered, Insufficient, Verify
<1>4. Sound
  BY <1>1, <1>2, <1>3, QuietSound
<1>5. Moved(c) /\ pc'[c] \in {"idle", "readParked", "pay"}
  <2>1. CASE ReadLiquid(c)
    <3> DEFINE j == [job[c] EXCEPT !.liquid = liquid]
    <3>1. /\ j \in Job /\ j.amount = job[c].amount
          /\ job' = [job EXCEPT ![c] = j]
      BY <1>2, <2>1 DEF ReadLiquid, Job
    <3>2. Go(c, "readParked") /\ job[c].amount > 0
      BY <1>1, <2>1 DEF ReadLiquid, Real
    <3> HIDE DEF j
    <3>3. "readParked" \in Places
      BY DEF Places
    <3> QED BY <1>1, <3>1, <3>2, <3>3, GoesOn
  <2>2. CASE pc[c] # "idle" /\ Go(c, "pay") /\ job' = job
    <3>1. job[c].amount > 0 /\ job' = [job EXCEPT ![c] = job[c]]
      BY <1>1, <1>2, <2>2 DEF Real
    <3>2. "pay" \in Places
      BY DEF Places
    <3> QED BY <1>1, <1>2, <2>2, <3>1, <3>2, GoesOn
  <2>3. CASE End(c)
    BY <1>1, <2>3, EndMoves
  <2> QED BY <2>1, <2>2, <2>3 DEF Covered, Insufficient, Verify
<1>6. Calm(c)
  BY <1>3, <1>5 DEF Calm
<1> QED BY <1>4, <1>5, <1>6, CalmKeeps

-----------------------------------------------------------------------------
(* Transactions that land.                                                 *)

LEMMA ParkedSound ==
  ASSUME TypeOK, NEW amount \in Nat, Parked(amount)
  PROVE  /\ liquid' \in 0..(Liquid0 + Vault0) /\ vault' \in 0..(Liquid0 + Vault0)
         /\ liquid' + vault' <= Liquid0 + Vault0 /\ allowance' \in Nat
<1>1. /\ liquid \in Nat /\ vault \in Nat /\ allowance \in Nat
      /\ liquid + vault <= Liquid0 + Vault0
  BY Typed
<1>2. /\ amount <= allowance /\ amount <= liquid
      /\ liquid' = liquid - amount /\ vault' = vault + amount
      /\ allowance' = allowance - amount
  BY DEF Parked
<1>3. liquid' \in Nat /\ vault' \in Nat /\ allowance' \in Nat
      /\ liquid' + vault' = liquid + vault
  BY <1>1, <1>2
<1> DEFINE All == Liquid0 + Vault0
<1>4. All \in Nat /\ liquid + vault <= All
  BY <1>1, Bounds
<1> HIDE DEF All
<1>5. liquid' + vault' <= All
  BY <1>3, <1>4
<1>6. liquid' <= All /\ vault' <= All
  BY <1>3, <1>4, <1>5
<1>7. liquid' \in 0..All /\ vault' \in 0..All
  BY <1>3, <1>4, <1>6
<1> QED BY <1>3, <1>5, <1>7 DEF All

LEMMA WithdrawnSound ==
  ASSUME TypeOK, NEW amount \in Nat, Withdrawn(amount)
  PROVE  /\ liquid' \in 0..(Liquid0 + Vault0) /\ vault' \in 0..(Liquid0 + Vault0)
         /\ liquid' + vault' <= Liquid0 + Vault0 /\ allowance' \in Nat
BY Typed, Bounds DEF Withdrawn

LEMMA PaidSound ==
  ASSUME TypeOK, NEW amount \in Nat, Paid(amount)
  PROVE  /\ liquid' \in 0..(Liquid0 + Vault0) /\ vault' \in 0..(Liquid0 + Vault0)
         /\ liquid' + vault' <= Liquid0 + Vault0 /\ allowance' \in Nat
BY Typed, Bounds DEF Paid

(* Money leaves the wallet, and the call that sent it is over.             *)
LEMMA SpendsCalm ==
  ASSUME ClientInv, NEW c \in Callers, PaymentLands(c) \/ ParkLands(c)
  PROVE  ClientInv'
<1>1. TypeOK /\ job[c] \in Job
  BY Typed DEF ClientInv
<1>2. job[c].amount \in Nat
  BY <1>1 DEF Job
<1>3. End(c) /\ UNCHANGED <<late, recallHistory, unforced, clock, calls>>
  BY DEF PaymentLands, ParkLands
<1>4. Moved(c) /\ pc'[c] = "idle"
  BY <1>1, <1>3, EndMoves
<1>5. /\ liquid' \in 0..(Liquid0 + Vault0) /\ vault' \in 0..(Liquid0 + Vault0)
      /\ liquid' + vault' <= Liquid0 + Vault0 /\ allowance' \in Nat
  BY <1>1, <1>2, PaidSound, ParkedSound DEF PaymentLands, ParkLands
<1>6. Sound
  BY <1>1, <1>3, <1>5, Typed DEF Sound
<1>7. Calm(c)
  BY <1>3, <1>4 DEF Calm
<1> QED BY <1>4, <1>6, <1>7, CalmKeeps

LEMMA AskedTyped ==
  ASSUME ClientInv, NEW c \in Callers, pc[c] # "idle"
  PROVE  Asked(c) \in Nat \ {0}
<1>1. job[c] \in Job /\ Real(c)
  BY Typed DEF ClientInv
<1>2. job[c].amount \in Nat /\ job[c].deficit \in Nat
  BY <1>1 DEF Job
<1> QED BY <1>1, <1>2 DEF Asked, Real

LEMMA LandsCalm ==
  ASSUME ClientInv, NEW c \in Callers, ApproveLands(c) \/ WithdrawLands(c)
  PROVE  ClientInv'
<1>1. TypeOK /\ job[c] \in Job /\ job \in [Callers -> Job] /\ Real(c)
  BY Typed DEF ClientInv
<1>2. CASE ApproveLands(c)
  <2>1. /\ pc[c] = "approve" /\ allowance' = job[c].amount /\ Go(c, "park")
        /\ UNCHANGED <<liquid, vault, late, recallHistory, unforced, clock,
                       calls, job>>
    BY <1>2 DEF ApproveLands
  <2>2. job' = [job EXCEPT ![c] = job[c]] /\ job[c].amount > 0
        /\ job[c].amount \in Nat /\ "park" \in Places
    BY <1>1, <2>1 DEF Real, Job, Places
  <2>3. Moved(c) /\ pc'[c] = "park"
    BY <1>1, <2>1, <2>2, GoesOn
  <2>4. Sound
    BY <1>1, <2>1, <2>2, Typed DEF Sound
  <2> QED BY <2>1, <2>3, <2>4, CalmKeeps DEF Calm
<1>3. CASE WithdrawLands(c)
  <2>1. /\ pc[c] \in {"withdraw", "recall"} /\ Withdrawn(Asked(c))
        /\ IF pc[c] = "recall" THEN Go(c, "recalled") /\ job' = job ELSE End(c)
        /\ UNCHANGED <<late, recallHistory, unforced, clock, calls>>
    BY <1>3 DEF WithdrawLands
  <2>2. Asked(c) \in Nat
    BY <2>1, AskedTyped
  <2>3. /\ liquid' \in 0..(Liquid0 + Vault0) /\ vault' \in 0..(Liquid0 + Vault0)
        /\ liquid' + vault' <= Liquid0 + Vault0 /\ allowance' \in Nat
    BY <1>1, <2>1, <2>2, WithdrawnSound
  <2>4. Sound
    BY <1>1, <2>1, <2>3, Typed DEF Sound
  <2>5. CASE pc[c] = "recall"
    <3>1. job' = [job EXCEPT ![c] = job[c]] /\ job[c].amount > 0
          /\ "recalled" \in Places
      BY <1>1, <2>1, <2>5 DEF Real, Places
    <3>2. Moved(c) /\ pc'[c] = "recalled"
      BY <1>1, <2>1, <2>5, <3>1, GoesOn
    <3> QED BY <2>1, <2>4, <2>5, <3>2, CalmKeeps DEF Calm
  <2>6. CASE pc[c] # "recall"
    <3>1. Moved(c) /\ pc'[c] = "idle"
      BY <1>1, <2>1, <2>6, EndMoves
    <3> QED BY <2>1, <2>4, <3>1, CalmKeeps DEF Calm
  <2> QED BY <2>5, <2>6
<1> QED BY <1>2, <1>3

(* Calls that throw, with their transaction pending or not.                *)
LEMMA ThrowsCalm ==
  ASSUME ClientInv, NEW c \in Callers, CallFails(c) \/ TimesOut(c)
  PROVE  ClientInv'
<1>1. TypeOK
  BY DEF ClientInv
<1>2. /\ End(c) /\ UNCHANGED <<liquid, vault, allowance, recallHistory, unforced,
                               clock, calls>>
      /\ late' \in Seq(Txs)
  <2>1. CASE CallFails(c)
    BY <2>1, <1>1, Typed DEF CallFails, chain
  <2>2. CASE TimesOut(c)
    <3>1. /\ pc[c] \in {"approve", "park", "withdraw", "recall", "pay"}
          /\ late' = Append(late, GivenUp(c))
      BY <2>2 DEF TimesOut
    <3>2. Asked(c) \in Nat \ {0}
      BY <3>1, AskedTyped
    <3>3. job[c] \in Job /\ job[c].now \in Times /\ 0 \in Times
          /\ (pc[c] = "recall" /\ ~job[c].force) \in BOOLEAN
      BY <1>1, Typed, Bounds DEF Job, Times
    <3>4. GivenUp(c) \in Txs
      BY <3>1, <3>2, <3>3 DEF GivenUp, Txs
    <3>5. late' \in Seq(Txs)
      BY <1>1, <3>1, <3>4, Typed
    <3> QED BY <2>2, <3>5 DEF TimesOut
  <2> QED BY <2>1, <2>2
<1>3. Moved(c) /\ pc'[c] = "idle"
  BY <1>1, <1>2, EndMoves
<1>4. Sound
  BY <1>1, <1>2, Typed DEF Sound
<1> QED BY <1>2, <1>3, <1>4, CalmKeeps DEF Calm

-----------------------------------------------------------------------------
(* Transactions given up on that land or drop: every caller keeps its      *)
(* place, and no recall is recorded.                                       *)
LEMMA LateKeeps ==
  ASSUME ClientInv, LateLands \/ LateDrops
  PROVE  ClientInv'
<1> DEFINE tx == Head(late)
<1>1. /\ TypeOK /\ late \in Seq(Txs) /\ job \in [Callers -> Job]
      /\ pc \in [Callers -> Places] /\ unforced \in Seq(Entries)
  BY Typed DEF ClientInv
<1>2. /\ late # <<>> /\ late' = Tail(late)
      /\ UNCHANGED <<recallHistory, clock, calls, pc, job>>
  BY DEF LateLands, LateDrops
<1>3. tx \in Txs /\ late' \in Seq(Txs)
  BY <1>1, <1>2
<1>4. tx.amount \in Nat /\ tx.at \in Times
  BY <1>3 DEF Txs
<1>5. \/ LateDrops
      \/ /\ LateLands
         /\ \/ Paid(tx.amount) \/ Parked(tx.amount) \/ Withdrawn(tx.amount)
            \/ allowance' = tx.amount /\ UNCHANGED <<liquid, vault>>
         /\ UNCHANGED unforced \/ Recalled(tx.at, TRUE)
  BY DEF LateLands
<1> HIDE DEF tx
<1>6. UNCHANGED unforced \/ Recalled(tx.at, TRUE)
  BY <1>5 DEF LateDrops
<1>7. Sound
  <2>1. CASE LateDrops
    <3>1. UNCHANGED <<liquid, vault, allowance>>
      BY <2>1 DEF LateDrops
    <3> QED BY <3>1, <1>1, <1>2, <1>3, Typed DEF Sound
  <2>2. CASE Paid(tx.amount) \/ Parked(tx.amount) \/ Withdrawn(tx.amount)
    <3>1. /\ liquid' \in 0..(Liquid0 + Vault0) /\ vault' \in 0..(Liquid0 + Vault0)
          /\ liquid' + vault' <= Liquid0 + Vault0 /\ allowance' \in Nat
      BY <2>2, <1>1, <1>4, PaidSound, ParkedSound, WithdrawnSound
    <3> QED BY <3>1, <1>1, <1>2, <1>3, Typed DEF Sound
  <2>3. CASE allowance' = tx.amount /\ UNCHANGED <<liquid, vault>>
    BY <2>3, <1>1, <1>2, <1>3, <1>4, Typed DEF Sound
  <2> QED BY <1>5, <2>1, <2>2, <2>3
<1>8. /\ unforced' \in Seq(Entries)
      /\ \A t \in Int : Cardinality(Heard(unforced', t)) = Cardinality(Heard(unforced, t))
  <2>1. CASE UNCHANGED unforced
    BY <2>1, <1>1
  <2>2. CASE Recalled(tx.at, TRUE)
    <3> DEFINE e == [at |-> tx.at, timedOut |-> TRUE]
    <3>1. e \in Entries /\ e.timedOut /\ unforced' = Append(unforced, e)
      BY <2>2, <1>4 DEF Recalled, Entries
    <3> HIDE DEF e
    <3> QED BY <3>1, <1>1, HeardAppend
  <2> QED BY <1>6, <2>1, <2>2
<1>9. TypeOK'
  BY <1>1, <1>2, <1>7, <1>8, Typed, Retyped
<1>10. \A d \in Callers : Real(d)'
  BY <1>2 DEF ClientInv, Real
<1>11. Recorded'
  <2>1. ASSUME NEW t \in Int, t > clock - Hour
        PROVE  Cardinality(Heard(unforced', t)) <= Cardinality(Since(recallHistory, t))
    BY <2>1, <1>8 DEF ClientInv, Recorded
  <2> QED BY <2>1, <1>2 DEF Recorded, Since, Heard
<1>12. Limited'
  <2>1. Oldest' = Oldest /\ Oldest \in Int
    BY <1>1, <1>2, Typed, Bounds DEF Oldest, Times
  <2>2. Underway(Oldest)' = Underway(Oldest)
    BY <1>2, <2>1 DEF Underway
  <2>3. Heard(unforced, Oldest)' = Heard(unforced', Oldest)
    BY <2>1 DEF Heard
  <2>4. Cardinality(Heard(unforced', Oldest)) = Cardinality(Heard(unforced, Oldest))
    BY <1>8, <2>1
  <2> QED BY <2>2, <2>3, <2>4 DEF ClientInv, Limited
<1> QED BY <1>9, <1>10, <1>11, <1>12 DEF ClientInv

(* As the clock ticks, less is of the last hour.                           *)
LEMMA TickKeeps ==
  ASSUME ClientInv, ClockTicks
  PROVE  ClientInv'
<1>1. TypeOK /\ clock \in Times /\ unforced \in Seq(Entries)
  BY Typed DEF ClientInv
<1>2. /\ clock < MaxClock /\ clock' = clock + 1
      /\ UNCHANGED <<chain, recallHistory, unforced, calls, pc, job>>
  BY DEF ClockTicks
<1>3. clock \in Int /\ clock' \in Times /\ Hour \in Int
  BY <1>1, <1>2, Bounds DEF Times
<1>4. TypeOK'
  <2>1. Sound
    BY <1>1, <1>2, Typed, QuietSound
  <2> QED BY <1>1, <1>2, <1>3, <2>1, Typed, Retyped
<1>5. \A d \in Callers : Real(d)'
  BY <1>2 DEF ClientInv, Real
<1>6. Recorded'
  <2>1. ASSUME NEW t \in Int, t > clock' - Hour
        PROVE  Cardinality(Heard(unforced', t)) <= Cardinality(Since(recallHistory', t))
    <3>1. t > clock - Hour
      BY <1>2, <1>3, <2>1
    <3> QED BY <3>1, <1>2 DEF ClientInv, Recorded
  <2> QED BY <2>1 DEF Recorded, Since, Heard
<1>7. Limited'
  <2>1. Oldest \in Int /\ Oldest' = Oldest + 1
    BY <1>2, <1>3 DEF Oldest
  <2>2. Heard(unforced, Oldest') \subseteq Heard(unforced, Oldest)
    <3>1. \A i \in DOMAIN unforced : unforced[i].at \in Int
      <4>1. \A i \in DOMAIN unforced : unforced[i] \in Entries
        BY <1>1
      <4> QED BY <4>1 DEF Entries, Times
    <3> QED BY <2>1, <3>1 DEF Heard
  <2>3. Underway(Oldest)' \subseteq Underway(Oldest)
    <3>1. \A d \in Callers : job[d].now \in Int
      BY <1>1, Typed DEF Job, Times
    <3> QED BY <1>2, <2>1, <3>1 DEF Underway
  <2> DEFINE A == Cardinality(Heard(unforced, Oldest'))
             B == Cardinality(Underway(Oldest)')
             K == MaxRecalls + Cardinality(Callers) - 1
  <2>4. IsFiniteSet(Heard(unforced, Oldest)) /\ Cardinality(Heard(unforced, Oldest)) \in Nat
    BY <1>1, SinceFinite DEF Heard
  <2>5. A \in Nat /\ A <= Cardinality(Heard(unforced, Oldest))
    BY <2>2, <2>4, FS_Subset, FS_CardinalityType
  <2>6. B \in Nat /\ B <= Cardinality(Underway(Oldest))
    BY <2>3, UnderwayFinite, FS_Subset, FS_CardinalityType
  <2>7. K \in Int
    BY Bounds, FS_CardinalityType
  <2>8. Cardinality(Heard(unforced, Oldest)) + Cardinality(Underway(Oldest)) <= K
    BY DEF ClientInv, Limited
  <2>9. Cardinality(Underway(Oldest)) \in Nat
    BY UnderwayFinite
  <2>10. Heard(unforced, Oldest)' = Heard(unforced, Oldest')
    BY <1>2 DEF Heard
  <2> HIDE DEF A, B, K
  <2>11. A + B <= K
    BY <2>4, <2>5, <2>6, <2>7, <2>8, <2>9
  <2> QED BY <2>10, <2>11 DEF Limited, A, B, K
<1> QED BY <1>4, <1>5, <1>6, <1>7 DEF ClientInv

-----------------------------------------------------------------------------
(* The rate limit.  Both ways the client first forgets what is old.        *)
LEMMA ForgottenRecorded ==
  ASSUME ClientInv, recallHistory' = Recent(recallHistory),
         UNCHANGED <<unforced, clock>>
  PROVE  recallHistory' \in Seq(Times) /\ Recorded'
<1>1. recallHistory \in Seq(Times) /\ clock \in Times
  BY Typed DEF ClientInv
<1>2. Recent(recallHistory) \in Seq(Times)
  BY <1>1, RecentKeeps
<1>3. ASSUME NEW t \in Int, t > clock - Hour
      PROVE  Cardinality(Heard(unforced, t)) <= Cardinality(Since(recallHistory', t))
  <2>1. Cardinality(Since(Recent(recallHistory), t)) = Cardinality(Since(recallHistory, t))
    BY <1>1, <1>3, RecentKeeps
  <2> QED BY <1>3, <2>1 DEF ClientInv, Recorded
<1> QED BY <1>2, <1>3 DEF Recorded, Since, Heard

LEMMA LimitedKeeps ==
  ASSUME ClientInv, NEW c \in Callers, RateLimited(c)
  PROVE  ClientInv'
<1>1. TypeOK /\ pc \in [Callers -> Places] /\ job \in [Callers -> Job]
  BY Typed DEF ClientInv
<1>2. /\ recallHistory' = Recent(recallHistory)
      /\ UNCHANGED <<chain, unforced, clock, calls>> /\ End(c)
  BY DEF RateLimited, NeedsRecall
<1>3. recallHistory' \in Seq(Times) /\ Recorded'
  BY <1>2, ForgottenRecorded
<1>4. Moved(c) /\ pc'[c] = "idle"
  BY <1>1, <1>2, EndMoves
<1>5. Sound
  BY <1>1, <1>2, Typed, QuietSound
<1>6. TypeOK'
  BY <1>1, <1>2, <1>3, <1>4, <1>5, Typed, Retyped DEF Moved
<1>7. \A d \in Callers : Real(d)'
  BY <1>4, AllReal
<1>8. Limited'
  <2>1. ASSUME NEW d \in Underway(Oldest)' PROVE d \in Underway(Oldest)
    <3>1. d \in Callers /\ d # c
      BY <1>4 DEF Underway
    <3>2. /\ pc'[d] = pc[d] /\ job'[d] = job[d]
      BY <1>1, <1>2, <3>1 DEF End, Go
    <3> QED BY <2>1, <3>2, <1>2 DEF Underway, Oldest
  <2> QED BY <1>1, <1>2, <2>1, FewerUnderway DEF ClientInv
<1> QED BY <1>3, <1>6, <1>7, <1>8 DEF ClientInv

LEMMA StartsKeeps ==
  ASSUME ClientInv, NEW c \in Callers, StartRecall(c)
  PROVE  ClientInv'
<1> DEFINE j == [job[c] EXCEPT !.deficit = job[c].amount - job[c].liquid,
                               !.now = clock]
<1>1. /\ TypeOK /\ pc \in [Callers -> Places] /\ job \in [Callers -> Job]
      /\ clock \in Times /\ unforced \in Seq(Entries) /\ recallHistory \in Seq(Times)
      /\ Real(c)
  BY Typed DEF ClientInv
<1>2. /\ pc[c] = "readParked" /\ job[c].liquid < job[c].amount
      /\ recallHistory' = Recent(recallHistory)
      /\ UNCHANGED <<chain, unforced, clock, calls>> /\ Go(c, "recall")
      /\ Len(Recent(recallHistory)) < MaxRecalls \/ job[c].force
      /\ job' = [job EXCEPT ![c] = j]
  BY <1>1 DEF StartRecall, NeedsRecall
<1>3. recallHistory' \in Seq(Times) /\ Recorded'
  BY <1>2, ForgottenRecorded
<1>4. /\ j \in Job /\ j.deficit > 0 /\ j.now = clock /\ j.amount > 0
      /\ j.force = job[c].force
  <2>1. job[c] \in Job /\ job[c].amount \in Nat /\ job[c].liquid \in Nat
    BY <1>1 DEF Job
  <2>2. job[c].amount - job[c].liquid \in Nat /\ job[c].amount - job[c].liquid > 0
    BY <1>2, <2>1
  <2>3. job[c].amount > 0
    BY <1>1, <1>2 DEF Real
  <2> QED BY <1>1, <2>1, <2>2, <2>3 DEF Job
<1> HIDE DEF j
<1>5. Moved(c) /\ pc'[c] = "recall" /\ job'[c] = j
  <2>1. "recall" \in Places
    BY DEF Places
  <2> QED BY <1>1, <1>2, <1>4, <2>1, GoesOn
<1>6. Sound
  BY <1>1, <1>2, Typed, QuietSound
<1>7. TypeOK'
  BY <1>1, <1>2, <1>3, <1>5, <1>6, Typed, Retyped DEF Moved
<1>8. \A d \in Callers : Real(d)'
  BY <1>5, AllReal
<1>9. ASSUME NEW d \in Underway(Oldest)', d # c PROVE d \in Underway(Oldest)
  <2>1. d \in Callers /\ pc'[d] = pc[d] /\ job'[d] = job[d]
    BY <1>1, <1>2, <1>9 DEF Go, Underway
  <2> QED BY <1>9, <2>1, <1>2 DEF Underway, Oldest
<1>10. Limited'
  <2>1. CASE job[c].force
    <3>1. c \notin Underway(Oldest)'
      BY <2>1, <1>4, <1>5 DEF Underway
    <3> QED BY <3>1, <1>1, <1>2, <1>9, FewerUnderway DEF ClientInv
  <2>2. CASE ~job[c].force
    <3> DEFINE A == Cardinality(Heard(unforced, Oldest))
               R == Cardinality(Since(recallHistory, Oldest))
               U == Cardinality(Underway(Oldest)')
               N == Cardinality(Callers)
    <3>1. A \in Nat /\ R \in Nat
      BY <1>1, SinceFinite DEF Since, Heard
    <3>2. A <= R
      <4>1. Oldest \in Int /\ Oldest > clock - Hour
        BY <1>1, Bounds DEF Oldest, Times
      <4> QED BY <4>1 DEF ClientInv, Recorded
    <3>3. R < MaxRecalls
      <4>1. Len(Recent(recallHistory)) = R
        BY <1>1, RecentKeeps DEF Oldest
      <4> QED BY <4>1, <1>2, <2>2
    <3>4. U \in Nat /\ U <= N /\ N \in Nat
      <4>1. Underway(Oldest)' \subseteq Callers
        BY DEF Underway
      <4> QED BY <4>1, Bounds, FS_Subset, FS_CardinalityType
    <3>5. Heard(unforced, Oldest)' = Heard(unforced, Oldest)
      BY <1>2 DEF Heard, Oldest
    <3> HIDE DEF A, R, U, N
    <3>6. A + U <= MaxRecalls + N - 1
      BY <3>1, <3>2, <3>3, <3>4, Bounds
    <3> QED BY <3>5, <3>6 DEF Limited, A, U, N
  <2> QED BY <2>1, <2>2
<1> QED BY <1>3, <1>7, <1>8, <1>10 DEF ClientInv

LEMMA ConfirmsKeeps ==
  ASSUME ClientInv, NEW c \in Callers, RecallConfirmed(c)
  PROVE  ClientInv'
<1> DEFINE at == job[c].now
           e == [at |-> at, timedOut |-> FALSE]
<1>1. /\ TypeOK /\ pc \in [Callers -> Places] /\ job \in [Callers -> Job]
      /\ clock \in Times /\ unforced \in Seq(Entries) /\ recallHistory \in Seq(Times)
      /\ Real(c)
  BY Typed DEF ClientInv
<1>2. /\ at \in Times /\ Times \subseteq Int
      /\ e \in Entries /\ e.at = at /\ ~e.timedOut
  BY <1>1 DEF Job, Times, Entries
<1>3. /\ pc[c] = "recalled" /\ recallHistory' = Append(recallHistory, at)
      /\ unforced' = IF job[c].force THEN unforced ELSE Append(unforced, e)
      /\ Go(c, "verify") /\ UNCHANGED <<chain, clock, calls, job>>
  BY DEF RecallConfirmed, Recalled
<1>4. recallHistory' \in Seq(Times) /\ unforced' \in Seq(Entries)
  <2>1. Append(recallHistory, at) \in Seq(Times) /\ Append(unforced, e) \in Seq(Entries)
    BY <1>1, <1>2
  <2> QED BY <1>3, <2>1
<1> HIDE DEF at, e
<1>5. Moved(c) /\ pc'[c] = "verify" /\ job' = job
  <2>1. "verify" \in Places /\ job' = [job EXCEPT ![c] = job[c]] /\ job[c] \in Job
    BY <1>1, <1>3 DEF Places
  <2>2. job[c].amount > 0
    BY <1>1, <1>3 DEF Real
  <2> QED BY <1>1, <1>3, <2>1, <2>2, GoesOn
<1>6. Sound
  BY <1>1, <1>3, Typed, QuietSound
<1>7. TypeOK'
  BY <1>1, <1>3, <1>4, <1>5, <1>6, Retyped DEF Moved
<1>8. \A d \in Callers : Real(d)'
  BY <1>5, AllReal
<1>9. ASSUME NEW t \in Int
      PROVE  /\ Cardinality(Since(recallHistory', t)) =
                  IF at >= t THEN Cardinality(Since(recallHistory, t)) + 1
                             ELSE Cardinality(Since(recallHistory, t))
             /\ Cardinality(Heard(unforced', t)) =
                  IF at >= t /\ ~job[c].force THEN Cardinality(Heard(unforced, t)) + 1
                                              ELSE Cardinality(Heard(unforced, t))
             /\ Cardinality(Since(recallHistory, t)) \in Nat
             /\ Cardinality(Heard(unforced, t)) \in Nat
  <2>1. /\ Cardinality(Since(recallHistory, t)) \in Nat
        /\ Cardinality(Heard(unforced, t)) \in Nat
    BY <1>1, SinceFinite DEF Since, Heard
  <2>2. Cardinality(Since(Append(recallHistory, at), t)) =
          IF at >= t THEN Cardinality(Since(recallHistory, t)) + 1
                     ELSE Cardinality(Since(recallHistory, t))
    BY <1>1, <1>2, SinceAppend
  <2>3. Cardinality(Heard(Append(unforced, e), t)) =
          IF at >= t THEN Cardinality(Heard(unforced, t)) + 1
                     ELSE Cardinality(Heard(unforced, t))
    BY <1>1, <1>2, HeardAppend
  <2> QED BY <1>3, <2>1, <2>2, <2>3
<1>10. Recorded'
  <2>1. ASSUME NEW t \in Int, t > clock - Hour
        PROVE  Cardinality(Heard(unforced', t)) <= Cardinality(Since(recallHistory', t))
    <3>1. Cardinality(Heard(unforced, t)) <= Cardinality(Since(recallHistory, t))
      BY <2>1 DEF ClientInv, Recorded
    <3> QED BY <1>9, <3>1
  <2>2. clock' = clock
    BY <1>3
  <2> QED BY <2>1, <2>2 DEF Recorded, Since, Heard
<1>11. ASSUME NEW d \in Underway(Oldest)' PROVE d \in Underway(Oldest) /\ d # c
  <2>1. d \in Callers /\ d # c /\ pc'[d] = pc[d] /\ job'[d] = job[d]
    BY <1>1, <1>3, <1>5 DEF Go, Underway
  <2> QED BY <1>11, <2>1, <1>3 DEF Underway, Oldest
<1>12. Limited'
  <2>1. Oldest \in Int /\ Oldest' = Oldest
    BY <1>1, <1>3, Bounds DEF Oldest, Times
  <2> DEFINE A == Cardinality(Heard(unforced, Oldest))
             B == Cardinality(Heard(unforced', Oldest))
             U == Cardinality(Underway(Oldest))
             V == Cardinality(Underway(Oldest)')
             K == MaxRecalls + Cardinality(Callers) - 1
  <2>2. /\ A \in Nat
        /\ B = IF at >= Oldest /\ ~job[c].force THEN A + 1 ELSE A
    BY <2>1, <1>9
  <2>3. U \in Nat /\ V \in Nat /\ V <= U
    BY <1>11, UnderwayFinite, FS_Subset, FS_CardinalityType
  <2>4. ASSUME at >= Oldest, ~job[c].force PROVE V + 1 <= U
    <3>1. c \in Underway(Oldest)
      BY <2>4, <1>3 DEF Underway, at
    <3>2. /\ IsFiniteSet(Underway(Oldest) \ {c})
          /\ Cardinality(Underway(Oldest) \ {c}) = U - 1
      BY <3>1, UnderwayFinite, FS_RemoveElement
    <3>3. Underway(Oldest)' \subseteq Underway(Oldest) \ {c}
      BY <1>11
    <3>4. V <= U - 1
      BY <3>2, <3>3, FS_Subset
    <3> HIDE DEF U, V
    <3> QED BY <3>4, <2>3
  <2>5. A + U <= K
    BY DEF ClientInv, Limited
  <2>6. K \in Int
    BY Bounds, FS_CardinalityType
  <2>7. Heard(unforced, Oldest)' = Heard(unforced', Oldest)
    BY <2>1 DEF Heard
  <2> HIDE DEF A, B, U, V, K
  <2>8. B + V <= K
    <3>1. CASE at >= Oldest /\ ~job[c].force
      <4>1. B = A + 1 /\ V + 1 <= U
        BY <3>1, <2>2, <2>4
      <4> QED BY <4>1, <2>2, <2>3, <2>5, <2>6
    <3>2. CASE ~(at >= Oldest /\ ~job[c].force)
      <4>1. B = A
        BY <3>2, <2>2
      <4> QED BY <4>1, <2>2, <2>3, <2>5, <2>6
    <3> QED BY <3>1, <3>2
  <2> QED BY <2>7, <2>8 DEF Limited, B, V, K
<1> QED BY <1>7, <1>8, <1>10, <1>12 DEF ClientInv

-----------------------------------------------------------------------------
LEMMA InitClient ==
  ASSUME Init
  PROVE  ClientInv
<1>1. /\ liquid = Liquid0 /\ vault = Vault0 /\ allowance = 0 /\ late = <<>>
      /\ recallHistory = <<>> /\ unforced = <<>> /\ clock = 0 /\ calls = 0
      /\ pc = [c \in Callers |-> "idle"] /\ job = [c \in Callers |-> NoJob]
  BY DEF Init
<1>2. TypeOK
  <2>1. liquid \in 0..(Liquid0 + Vault0) /\ vault \in 0..(Liquid0 + Vault0)
        /\ liquid + vault <= Liquid0 + Vault0
    BY <1>1, Bounds
  <2>2. recallHistory \in Seq(0..MaxClock) /\ unforced \in Seq(Entries)
    BY <1>1
  <2>3. clock \in 0..MaxClock /\ calls \in 0..MaxCalls /\ allowance \in Nat
    BY <1>1, Bounds
  <2>4. pc \in [Callers -> Places]
    BY <1>1 DEF Places
  <2>5. job \in [Callers -> Job]
    BY <1>1, NoJobIsJob
  <2>6. late \in Seq(Txs)
    BY <1>1
  <2> QED BY <2>1, <2>2, <2>3, <2>4, <2>5, <2>6
          DEF TypeOK, Job, Times, Txs, Entries
<1>3. \A c \in Callers : Real(c)
  BY <1>1 DEF Real
<1>4. Recorded
  <2>1. \A t \in Int : Heard(unforced, t) = Since(recallHistory, t)
    BY <1>1 DEF Since, Heard
  <2>2. \A t \in Int : Cardinality(Since(recallHistory, t)) \in Nat
    BY <1>2, Typed, SinceFinite DEF Since
  <2> QED BY <2>1, <2>2 DEF Recorded
<1>5. Limited
  <2>1. Heard(unforced, Oldest) = {} /\ Underway(Oldest) = {}
    BY <1>1 DEF Heard, Underway
  <2>2. Cardinality(Callers) \in Nat /\ Cardinality(Callers) # 0
    BY Bounds, FS_CardinalityType, FS_EmptySet
  <2> QED BY <2>1, <2>2, FS_EmptySet, Bounds DEF Limited
<1> QED BY <1>2, <1>3, <1>4, <1>5 DEF ClientInv

LEMMA StepClient ==
  ASSUME ClientInv, [Next]_vars
  PROVE  ClientInv'
<1>1. CASE ClockTicks
  BY <1>1, TickKeeps
<1>2. ASSUME NEW c \in Callers, Payment(c) PROVE ClientInv'
  <2>1. ASSUME NEW n \in Amounts, NEW f \in BOOLEAN, Pay(c, n, f) PROVE ClientInv'
    BY <2>1, StartCalm DEF Pay
  <2>2. CASE ReadLiquid(c) \/ Covered(c) \/ Insufficient(c) \/ Verify(c)
    BY <2>2, ReadsCalm
  <2>3. CASE RateLimited(c)
    BY <2>3, LimitedKeeps
  <2>4. CASE StartRecall(c)
    BY <2>4, StartsKeeps
  <2>5. CASE RecallConfirmed(c)
    BY <2>5, ConfirmsKeeps
  <2>6. CASE PaymentLands(c)
    BY <2>6, SpendsCalm
  <2> QED BY <1>2, <2>1, <2>2, <2>3, <2>4, <2>5, <2>6 DEF Payment
<1>3. ASSUME NEW c \in Callers, Transfer(c) PROVE ClientInv'
  <2>1. ASSUME NEW n \in Amounts, Park(c, n) PROVE ClientInv'
    BY <2>1, StartCalm DEF Park
  <2>2. ASSUME NEW n \in Amounts, Withdraw(c, n) PROVE ClientInv'
    BY <2>2, StartCalm DEF Withdraw
  <2>3. CASE ApproveLands(c) \/ WithdrawLands(c)
    BY <2>3, LandsCalm
  <2>4. CASE ParkLands(c)
    BY <2>4, SpendsCalm
  <2>5. CASE CallFails(c) \/ TimesOut(c)
    BY <2>5, ThrowsCalm
  <2> QED BY <1>3, <2>1, <2>2, <2>3, <2>4, <2>5 DEF Transfer
<1>4. CASE LateLands \/ LateDrops
  BY <1>4, LateKeeps
<1>5. CASE UNCHANGED vars
  BY <1>5 DEF vars, chain, ClientInv, TypeOK, Real, Recorded, Limited, Since,
              Heard, Underway, Oldest
<1> QED BY <1>1, <1>2, <1>3, <1>4, <1>5 DEF Next

LEMMA ClientInvHolds == Spec => []ClientInv
<1>1. Init => ClientInv
  BY InitClient
<1>2. ClientInv /\ [Next]_vars => ClientInv'
  BY StepClient
<1> QED BY <1>1, <1>2, PTL DEF Spec

-----------------------------------------------------------------------------
(* Whatever calls run at once, and whatever given-up transactions land     *)
(* late (executeContract, CircleCliAdapter.ts), every variable of the      *)
(* client has its type, and neither the wallet nor the deposit goes below  *)
(* zero or gains money (park, withdraw and wrapPayment, FloatClient.ts).   *)
THEOREM TypeCorrect == Spec => []TypeOK
<1>1. ClientInv => TypeOK
  BY DEF ClientInv
<1> QED BY <1>1, ClientInvHolds, PTL

(* The rate limit of wrapPayment (FloatClient.ts, lines 488-506) is looked *)
(* at when a recall begins and recorded when it confirms.  For any number  *)
(* of callers the recalls that land overshoot it by one less than there    *)
(* are callers and by those that had timed out, and no more: who is let    *)
(* through saw fewer than the limit recorded, all that are under way are   *)
(* callers, and what lands unheard of had been given up on.                *)
THEOREM OvershootBounded == Spec => []OvershootIsBounded
<1>1. ASSUME ClientInv PROVE OvershootIsBounded
  <2> DEFINE H == Heard(unforced, Oldest)
             L == {i \in LastHour : unforced[i].timedOut}
             U == Cardinality(Underway(Oldest))
             K == MaxRecalls + Cardinality(Callers) - 1
  <2>1. unforced \in Seq(Entries) /\ clock \in Times
    BY <1>1, Typed DEF ClientInv
  <2>2. LastHour = H \cup L
    <3>1. \A i \in DOMAIN unforced : unforced[i] \in Entries
      BY <2>1
    <3>2. ASSUME NEW i \in DOMAIN unforced
          PROVE  clock - unforced[i].at < Hour <=> unforced[i].at >= Oldest
      BY <2>1, <3>1, Bounds DEF Entries, Times, Oldest
    <3> QED BY <3>2 DEF Heard, LastHour
  <2>3. IsFiniteSet(H) /\ IsFiniteSet(L)
        /\ Cardinality(H) \in Nat /\ Cardinality(L) \in Nat
    BY <2>1, SinceFinite DEF Heard, LastHour
  <2>4. H \cap L = {}
    BY DEF Heard
  <2>5. Cardinality(LastHour) = Cardinality(H) + Cardinality(L)
    <3>1. Cardinality(H \cup L)
            = Cardinality(H) + Cardinality(L) - Cardinality(H \cap L)
      BY <2>3, FS_Union
    <3>2. Cardinality(H \cap L) = 0
      BY <2>4, FS_EmptySet
    <3> HIDE DEF H, L
    <3> QED BY <2>2, <2>3, <3>1, <3>2
  <2>6. U \in Nat /\ K \in Int
    BY UnderwayFinite, Bounds, FS_CardinalityType
  <2>7. Cardinality(H) + U <= K
    BY <1>1 DEF ClientInv, Limited
  <2> HIDE DEF H, U, K
  <2>8. Cardinality(LastHour) <= K + Cardinality(L)
    BY <2>3, <2>5, <2>6, <2>7
  <2> QED BY <2>8 DEF OvershootIsBounded, K
<1> QED BY <1>1, ClientInvHolds, PTL

=============================================================================
