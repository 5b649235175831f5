--------------------------- MODULE SwapDeskProofs ---------------------------
(***************************************************************************)
(* The swap desk settles an offer once, on an answer to it and within the  *)
(* limits of that moment, for any texts, prices, policies and numbers of   *)
(* messages, offers, policy changes, failed sends and restarts.            *)
(***************************************************************************)
EXTENDS SwapDesk, Screener, TLAPS

-----------------------------------------------------------------------------
(* The types, with what QuoteArrives copies into an offer.                 *)
Message == TextMessage \cup Answer

AsksTyped == \A q \in quoting : q.version \in 1..MaxVersion /\ q.kept \in BOOLEAN
SeqBound == seq <= Len(offers)

Kept == TypeOK /\ AsksTyped /\ SeqBound

LEMMA Bounds ==
  /\ MaxVersion \in Nat /\ MaxVersion > 0 /\ MaxTime \in Nat
  /\ MaxDedupeKeys \in Nat /\ MaxDeliveries \in Nat /\ MaxOffers \in Nat
  /\ MaxRestarts \in Nat /\ QuoteLife \in Nat /\ MaxFailures \in Nat
BY DeskAssumption

(* Appending keeps what was there.                                         *)
LEMMA Appended ==
  ASSUME NEW S, NEW T, S \subseteq T, NEW s \in Seq(S), NEW e \in T
  PROVE  /\ s \in Seq(T) /\ Append(s, e) \in Seq(T)
         /\ Len(Append(s, e)) = Len(s) + 1 /\ Len(s) \in Nat
         /\ DOMAIN s = 1..Len(s) /\ DOMAIN Append(s, e) = 1..(Len(s) + 1)
         /\ \A i \in 1..Len(s) : Append(s, e)[i] = s[i]
         /\ Append(s, e)[Len(s) + 1] = e
<1>1. s \in [1..Len(s) -> S] /\ Len(s) \in Nat
  OBVIOUS
<1>2. s \in [1..Len(s) -> T]
  BY <1>1
<1>3. s \in Seq(T)
  BY <1>1, <1>2
<1> QED BY <1>1, <1>3

LEMMA MessagesTyped ==
  ASSUME TypeOK, NEW k \in Messages PROVE k \in Message
<1>1. CASE k \in sent
  BY <1>1 DEF TypeOK, Message
<1>2. CASE k \in TextMessage
  BY <1>2 DEF Message
<1>3. ASSUME NEW x \in Sends, x[2] # "text", NEW s \in Serials,
             k = [from |-> x[1], kind |-> x[2], id |-> offers[s].id, about |-> s]
      PROVE  k \in Message
  <2>1. x[1] \in {"owner", "other"} /\ x[2] \in {"approve", "reject"}
    BY <1>3, DeskAssumption
  <2>2. s \in Ids /\ offers[s] \in Offer
    <3>1. offers \in Seq(Offer) /\ Len(offers) <= MaxOffers
      BY DEF TypeOK
    <3>2. s \in 1..Len(offers) /\ Len(offers) \in Nat
      BY <3>1, <1>3 DEF Serials
    <3> QED BY <3>1, <3>2, Bounds DEF Ids
  <2>3. offers[s].id \in Ids
    BY <2>2 DEF Offer
  <2> QED BY <1>3, <2>1, <2>2, <2>3 DEF Message, Answer
<1> QED BY <1>1, <1>2, <1>3 DEF Messages

LEMMA SeenTyped ==
  ASSUME TypeOK, NEW k \in Messages, MarkSeen(k)
  PROVE  /\ sent' \subseteq Message /\ delivered' \in 0..MaxDeliveries
         /\ seen' \in Seq(sent') /\ Len(seen') <= MaxDedupeKeys
<1>1. sent' = sent \cup {k} /\ delivered' = delivered + 1
      /\ delivered < MaxDeliveries /\ seen' = Trim(Append(seen, k))
  BY DEF MarkSeen
<1>2. sent' \subseteq Message
  BY <1>1, MessagesTyped DEF TypeOK, Message
<1>3. delivered' \in 0..MaxDeliveries
  <2>1. delivered \in 0..MaxDeliveries
    BY DEF TypeOK
  <2> QED BY <2>1, <1>1, Bounds
<1> DEFINE keys == Append(seen, k)
<1>4. /\ keys \in Seq(sent') /\ Len(keys) = Len(seen) + 1
      /\ Len(seen) \in Nat /\ Len(seen) <= MaxDedupeKeys
  <2>1. seen \in Seq(sent) /\ Len(seen) <= MaxDedupeKeys
    BY DEF TypeOK
  <2>2. sent \subseteq sent' /\ k \in sent'
    BY <1>1
  <2> QED BY <2>1, <2>2, Appended
<1>5. seen' \in Seq(sent') /\ Len(seen') <= MaxDedupeKeys
  <2> HIDE DEF keys
  <2>1. CASE Len(keys) > MaxDedupeKeys
    <3>1. Tail(keys) \in Seq(sent') /\ Len(Tail(keys)) = Len(keys) - 1
      BY <2>1, <1>4, Bounds
    <3> QED BY <2>1, <3>1, <1>1, <1>4, Bounds DEF Trim, keys
  <2>2. CASE ~(Len(keys) > MaxDedupeKeys)
    BY <2>2, <1>1, <1>4, Bounds DEF Trim, keys
  <2> QED BY <2>1, <2>2
<1> QED BY <1>2, <1>3, <1>5

LEMMA AskTyped ==
  ASSUME Kept, NEW t \in Texts, NEW kept \in BOOLEAN, StartQuote(t, kept)
  PROVE  \A q \in quoting' : /\ q.text \in Texts /\ q.policy \in Policies
                             /\ q.version \in 1..MaxVersion /\ q.kept \in BOOLEAN
<1>1. policy \in Policies /\ version \in 1..MaxVersion
  BY DEF Kept, TypeOK, StartQuote, MayQuote
<1>2. \A q \in quoting : /\ q.text \in Texts /\ q.policy \in Policies
                         /\ q.version \in 1..MaxVersion /\ q.kept \in BOOLEAN
  BY DEF Kept, TypeOK, AsksTyped
<1>3. quoting' = quoting \cup
        {[text |-> t, policy |-> policy, version |-> version, kept |-> kept]}
  BY DEF StartQuote
<1> QED BY <1>1, <1>2, <1>3

-----------------------------------------------------------------------------
(* What a step may do to the offers and what depends on them.              *)

standing == <<skills, offers, decision, trades, cache, pending, seq, restarts>>

(* What an outcome may read.                                               *)
Lines == {"refused", "receipt", "failed"}

OutcomeTyped ==
  /\ failures \in 0..MaxFailures /\ resolved \subseteq Ids
  /\ told \in [Ids -> {"none"} \cup Lines]

(* The others, where a step leaves the offers alone.                       *)
OthersTyped ==
  /\ skills' \in {{"swap"}, {"swap", "approval"}}
  /\ policy' \in Policies \cup {NoPolicy}
  /\ version' \in 1..MaxVersion /\ clock' \in 0..MaxTime
  /\ sent' \subseteq Message /\ delivered' \in 0..MaxDeliveries
  /\ seen' \in Seq(sent') /\ Len(seen') <= MaxDedupeKeys
  /\ thinking' \subseteq Texts
  /\ \A q \in quoting' : /\ q.text \in Texts /\ q.policy \in Policies
                         /\ q.version \in 1..MaxVersion /\ q.kept \in BOOLEAN
  /\ settling' \subseteq Serials'
  /\ OutcomeTyped'

LEMMA KeptIsTyped ==
  ASSUME Kept
  PROVE  /\ skills \in {{"swap"}, {"swap", "approval"}}
         /\ policy \in Policies \cup {NoPolicy}
         /\ version \in 1..MaxVersion /\ clock \in 0..MaxTime
         /\ sent \subseteq Message /\ delivered \in 0..MaxDeliveries
         /\ seen \in Seq(sent) /\ Len(seen) <= MaxDedupeKeys
         /\ thinking \subseteq Texts
         /\ \A q \in quoting : /\ q.text \in Texts /\ q.policy \in Policies
                               /\ q.version \in 1..MaxVersion /\ q.kept \in BOOLEAN
         /\ settling \subseteq Serials
         /\ OutcomeTyped
BY DEF Kept, TypeOK, AsksTyped, OutcomeTyped, Lines, Message

LEMMA OutcomeStays == OutcomeTyped /\ UNCHANGED outcome => OutcomeTyped'
BY DEF OutcomeTyped, outcome

(* Whatever sends fail, one of the messages was told or nothing was.       *)
LEMMA SendTyped ==
  ASSUME OutcomeTyped, NEW s \in Ids, NEW lines \in Seq(Lines), Send(s, lines)
  PROVE  failures' \in 0..MaxFailures /\ told' \in [Ids -> {"none"} \cup Lines]
<1>1. PICK lost \in 0..Len(lines) :
        /\ failures + lost <= MaxFailures
        /\ failures' = failures + lost
        /\ told' = IF lost = Len(lines) THEN told
                   ELSE [told EXCEPT ![s] = lines[lost + 1]]
  BY DEF Send
<1>2. failures \in 0..MaxFailures /\ told \in [Ids -> {"none"} \cup Lines]
      /\ Len(lines) \in Nat
  BY DEF OutcomeTyped
<1>3. failures' \in 0..MaxFailures
  BY <1>1, <1>2, Bounds
<1>4. lost # Len(lines) => lines[lost + 1] \in Lines
  BY <1>1, <1>2
<1> QED BY <1>1, <1>2, <1>3, <1>4

LEMMA ReturnedTyped ==
  ASSUME OutcomeTyped, NEW s \in Ids, NEW line \in Lines, Returned(s, line)
  PROVE  OutcomeTyped'
<1>1. /\ resolved' = resolved \cup {s} /\ Send(s, <<line, "failed">>)
      /\ resolved \subseteq Ids
  BY DEF Returned, OutcomeTyped
<1>2. <<line, "failed">> \in Seq(Lines)
  BY DEF Lines
<1>3. failures' \in 0..MaxFailures /\ told' \in [Ids -> {"none"} \cup Lines]
  BY <1>1, <1>2, SendTyped
<1> QED BY <1>1, <1>3 DEF OutcomeTyped

LEMMA TypedIsKept ==
  ASSUME OthersTyped,
         seq' \in 0..MaxOffers, seq' <= Len(offers'),
         cache' \in [Ids -> Ids \cup {NoOffer}], pending' \subseteq Ids,
         offers' \in Seq(Offer), Len(offers') <= MaxOffers,
         decision' \in [Ids -> {"none", "approved", "rejected"}],
         restarts' \in 0..MaxRestarts
  PROVE  Kept'
BY DEF Kept, TypeOK, AsksTyped, SeqBound, OthersTyped, OutcomeTyped, Lines, Message

(* Those that leave all of the standing as it is.                          *)
Aside ==
  /\ UNCHANGED standing
  /\ \/ UNCHANGED sent
     \/ \E k \in Messages : sent' = sent \cup {k}

LEMMA AsideKept == Kept /\ Aside /\ OthersTyped => Kept'
BY TypedIsKept DEF Kept, TypeOK, SeqBound, Aside, standing

LEMMA LimitsAside ==
  ASSUME Kept,
         \/ \E p \in Policies \cup {NoPolicy} : SetPolicy(p)
         \/ SetPause \/ Tick
  PROVE  Aside /\ OthersTyped
<1>1. UNCHANGED <<skills, session, desk, settling, history>>
  BY DEF SetPolicy, SetPause, Tick
<1>2. /\ policy' \in Policies \cup {NoPolicy}
      /\ version' \in 1..MaxVersion /\ clock' \in 0..MaxTime
  <2>0. /\ policy \in Policies \cup {NoPolicy}
        /\ version \in 1..MaxVersion /\ clock \in 0..MaxTime
    BY KeptIsTyped
  <2>1. CASE \E p \in Policies \cup {NoPolicy} : SetPolicy(p)
    BY <2>0, <2>1, Bounds DEF SetPolicy
  <2>2. CASE SetPause
    BY <2>0, <2>2 DEF SetPause
  <2>3. CASE Tick
    BY <2>0, <2>3, Bounds DEF Tick
  <2> QED BY <2>1, <2>2, <2>3
<1>3. OutcomeTyped'
  BY <1>1, OutcomeStays, KeptIsTyped DEF history
<1> QED BY <1>1, <1>2, <1>3, KeptIsTyped
        DEF Aside, OthersTyped, standing, session, desk, history, Serials

LEMMA ReceiveAside ==
  ASSUME Kept, NEW k \in Messages,
         ReceiveOrder(k) \/ ReceiveChat(k) \/ ReceiveAndRefuse(k)
  PROVE  Aside /\ OthersTyped
<1>1. MarkSeen(k) /\ UNCHANGED <<limits, seq, cache, pending, settling, history>>
  BY DEF ReceiveOrder, ReceiveChat, ReceiveAndRefuse, desk
<1>2. /\ sent' \subseteq Message /\ delivered' \in 0..MaxDeliveries
      /\ seen' \in Seq(sent') /\ Len(seen') <= MaxDedupeKeys
      /\ sent' = sent \cup {k}
  BY <1>1, SeenTyped DEF Kept, MarkSeen
<1>3. k.kind = "text" => k.text \in Texts
  BY MessagesTyped DEF Kept, Message, TextMessage, Answer
<1>4. /\ thinking' \subseteq Texts
      /\ \A q \in quoting' : /\ q.text \in Texts /\ q.policy \in Policies
                             /\ q.version \in 1..MaxVersion /\ q.kept \in BOOLEAN
  <2>1. CASE ReceiveOrder(k)
    <3>1. StartQuote(k.text, TRUE) /\ k.text \in Texts /\ thinking' = thinking
      BY <2>1, <1>3 DEF ReceiveOrder
    <3> QED BY <3>1, AskTyped, KeptIsTyped
  <2>2. CASE ReceiveChat(k)
    <3>1. thinking' \subseteq Texts
      BY <2>2, <1>3, KeptIsTyped, DeskAssumption DEF ReceiveChat
    <3> QED BY <2>2, <3>1, KeptIsTyped DEF ReceiveChat, desk
  <2>3. CASE ReceiveAndRefuse(k)
    BY <2>3, KeptIsTyped DEF ReceiveAndRefuse, desk
  <2> QED BY <2>1, <2>2, <2>3
<1>5. OutcomeTyped'
  BY <1>1, OutcomeStays, KeptIsTyped DEF history
<1> QED BY <1>1, <1>2, <1>4, <1>5, KeptIsTyped
        DEF Aside, OthersTyped, standing, limits, history, Serials

LEMMA SerialsAreIds == ASSUME Kept PROVE Serials \subseteq Ids
<1>1. offers \in Seq(Offer) /\ Len(offers) <= MaxOffers
  BY DEF Kept, TypeOK
<1>2. Serials = 1..Len(offers) /\ Len(offers) \in Nat
  BY <1>1 DEF Serials
<1> QED BY <1>1, <1>2, Bounds DEF Ids

LEMMA WaitsAside ==
  ASSUME Kept,
         \/ \E t \in thinking : \/ \E action \in extractAction :
                                     BrainSuggestsSwap(t, action)
                                \/ BrainTalks(t)
         \/ \E q \in quoting : QuoteRefused(q)
         \/ Settle
  PROVE  Aside /\ OthersTyped
<1>1. UNCHANGED <<limits, sent, delivered, seen, pending, seq, cache, offers,
                  decision, trades, restarts>>
  BY DEF BrainSuggestsSwap, BrainTalks, QuoteRefused, Settle, SettleEnds,
         limits, session, desk, history
<1> DEFINE Others ==
             /\ thinking' \subseteq Texts
             /\ \A q \in quoting' :
                  /\ q.text \in Texts /\ q.policy \in Policies
                  /\ q.version \in 1..MaxVersion /\ q.kept \in BOOLEAN
             /\ settling' \subseteq Serials
             /\ OutcomeTyped'
<1>2. Others
  <2>1. ASSUME NEW t \in thinking, NEW action \in extractAction,
               BrainSuggestsSwap(t, action)
        PROVE  Others
    <3> DEFINE text == IF action.args = NoArgs THEN t ELSE action.args
    <3>1. text \in Texts
      BY <2>1, KeptIsTyped DEF extractAction, BrainSuggestsSwap
    <3>2. StartQuote(text, FALSE) /\ thinking' = thinking \ {t}
          /\ UNCHANGED <<settling, history>>
      BY <2>1 DEF BrainSuggestsSwap
    <3> HIDE DEF text
    <3>3. OutcomeTyped'
      BY <3>2, OutcomeStays, KeptIsTyped DEF history
    <3> QED BY <3>1, <3>2, <3>3, AskTyped, KeptIsTyped
  <2>2. ASSUME NEW t \in thinking, BrainTalks(t) PROVE Others
    <3>1. OutcomeTyped'
      BY <2>2, OutcomeStays, KeptIsTyped DEF BrainTalks, history
    <3> QED BY <2>2, <3>1, KeptIsTyped DEF BrainTalks, desk
  <2>3. ASSUME NEW q \in quoting, QuoteRefused(q) PROVE Others
    <3>1. OutcomeTyped'
      BY <2>3, OutcomeStays, KeptIsTyped DEF QuoteRefused, history
    <3> QED BY <2>3, <3>1, KeptIsTyped DEF QuoteRefused, session
  <2>4. ASSUME NEW s \in settling, NEW returns \in BOOLEAN, SettleEnds(s, returns)
        PROVE  Others
    <3>1. s \in Ids
      BY SerialsAreIds, KeptIsTyped
    <3>2. OutcomeTyped'
      <4>1. CASE Returned(s, "receipt")
        BY <3>1, <4>1, ReturnedTyped, KeptIsTyped DEF Lines
      <4>2. CASE Send(s, <<"failed">>) /\ UNCHANGED resolved
        <5>1. <<"failed">> \in Seq(Lines)
          BY DEF Lines
        <5>2. failures' \in 0..MaxFailures /\ told' \in [Ids -> {"none"} \cup Lines]
          BY <3>1, <4>2, <5>1, SendTyped, KeptIsTyped
        <5> QED BY <4>2, <5>2, KeptIsTyped DEF OutcomeTyped
      <4> QED BY <2>4, <4>1, <4>2 DEF SettleEnds
    <3> QED BY <2>4, <3>2, KeptIsTyped DEF SettleEnds, session, desk
  <2> QED BY <2>1, <2>2, <2>3, <2>4 DEF Settle
<1> QED BY <1>1, <1>2, KeptIsTyped
        DEF Aside, OthersTyped, standing, limits, Serials

-----------------------------------------------------------------------------
(* The invariant.  A trade says what held when it was made; an id stands   *)
(* for the offer that bears it, which nobody traded; only undecided offers *)
(* that were shown as pending are; and until a restart an offer's id is    *)
(* its number.                                                             *)
Trade == [offer : Ids, policy : Policies, version : 1..MaxVersion,
          at : 0..MaxTime, minOut : Int]

TradesTyped == trades \in Seq(Trade) /\ \A i \in DOMAIN trades : trades[i].offer \in Serials

Numbered ==
  restarts = 0 => seq = Len(offers) /\ \A s \in Serials : offers[s].id = s

Cached ==
  \A i \in Ids : cache[i] # NoOffer =>
    i <= seq /\ cache[i] \in Serials /\ offers[cache[i]].id = i

Pending ==
  \A i \in pending : /\ cache[i] # NoOffer /\ decision[cache[i]] = "none"
                     /\ offers[cache[i]].kept

Unannounced == \A s \in Ids \ Serials : decision[s] = "none"

Sold == \A i \in DOMAIN trades, id \in Ids : cache[id] # trades[i].offer

AboutShown ==
  \A k \in sent : k.kind # "text" => k.about \in Serials /\ offers[k.about].id = k.id

OnceInv == TradesTyped /\ Cached /\ Sold /\ SettledAtMostOnce
OwnerInv == Numbered /\ Pending /\ Unannounced /\ AboutShown
              /\ OwnerApprovedThisOffer /\ OfferStaysAnswerable

DeskInv == Kept /\ OnceInv /\ OwnerInv /\ SettledWithinLiveLimits

-----------------------------------------------------------------------------
LEMMA InitDesk == Init => DeskInv
<1> SUFFICES ASSUME Init PROVE DeskInv
  OBVIOUS
<1>1. /\ offers = <<>> /\ trades = <<>> /\ DOMAIN offers = {} /\ DOMAIN trades = {}
      /\ Len(offers) = 0 /\ offers \in Seq(Offer) /\ trades \in Seq(Trade)
      /\ seen = <<>> /\ seen \in Seq(sent) /\ Len(seen) = 0
  BY DEF Init
<1>2. Kept
  BY <1>1, Bounds DEF Init, Kept, TypeOK, AsksTyped, SeqBound, Ids, NoOffer,
                      Serials
<1>3. OnceInv
  BY <1>1 DEF Init, OnceInv, TradesTyped, Cached, Sold, SettledAtMostOnce, Serials
<1>4. OwnerInv
  BY <1>1 DEF Init, OwnerInv, Numbered, Pending, Unannounced, AboutShown,
              OwnerApprovedThisOffer, OfferStaysAnswerable, Serials
<1>5. SettledWithinLiveLimits
  BY <1>1 DEF SettledWithinLiveLimits
<1> QED BY <1>2, <1>3, <1>4, <1>5 DEF DeskInv

(* What a message says of an offer is of one that was shown under that id. *)
LEMMA ShownStays ==
  ASSUME DeskInv, UNCHANGED offers,
         \/ UNCHANGED sent
         \/ \E k \in Messages : sent' = sent \cup {k}
  PROVE  AboutShown'
<1>1. ASSUME NEW k \in Messages, k.kind # "text", k \notin sent
      PROVE  k.about \in Serials /\ offers[k.about].id = k.id
  BY <1>1 DEF Messages, TextMessage
<1> QED BY <1>1 DEF DeskInv, OwnerInv, AboutShown, Serials

(* Where no offer is made, decided, settled or forgotten.                  *)
LEMMA AsideSafe ==
  ASSUME DeskInv, Aside, OthersTyped
  PROVE  DeskInv'
<1>1. Kept'
  BY AsideKept DEF DeskInv
<1>2. UNCHANGED <<skills, offers, decision, trades, cache, pending, seq, restarts>>
  BY DEF Aside, standing
<1>3. OnceInv'
  BY <1>2 DEF DeskInv, OnceInv, TradesTyped, Cached, Sold, SettledAtMostOnce, Serials
<1>4. SettledWithinLiveLimits'
  BY <1>2 DEF DeskInv, SettledWithinLiveLimits
<1>5. AboutShown'
  BY <1>2, ShownStays DEF Aside
<1>6. OwnerApprovedThisOffer'
  <2>1. sent \subseteq sent'
    BY DEF Aside
  <2> QED BY <2>1, <1>2 DEF DeskInv, OwnerInv, OwnerApprovedThisOffer
<1>7. OwnerInv'
  BY <1>2, <1>5, <1>6 DEF DeskInv, OwnerInv, Numbered, Pending, Unannounced,
                          OfferStaysAnswerable, Serials
<1> QED BY <1>1, <1>3, <1>4, <1>7 DEF DeskInv

LEMMA RestartSafe ==
  ASSUME DeskInv, Restart
  PROVE  DeskInv'
<1>1. /\ UNCHANGED <<limits, sent, delivered, offers, decision, outcome,
                   trades>>
      /\ seen' = <<>> /\ thinking' = {} /\ quoting' = {} /\ seq' = 0
      /\ cache' = [i \in Ids |-> NoOffer] /\ pending' = {} /\ settling' = {}
      /\ restarts' = restarts + 1 /\ restarts < MaxRestarts
  BY DEF Restart
<1>2. restarts' \in 0..MaxRestarts /\ restarts' # 0
  <2>1. restarts \in 0..MaxRestarts
    BY DEF DeskInv, Kept, TypeOK
  <2> QED BY <2>1, <1>1, Bounds
<1>3. Kept'
  <2>1. OthersTyped
    <3>1. seen' \in Seq(sent') /\ Len(seen') = 0
      BY <1>1
    <3>2. /\ skills' \in {{"swap"}, {"swap", "approval"}}
          /\ sent' \subseteq Message /\ delivered' \in 0..MaxDeliveries
          /\ policy' \in Policies \cup {NoPolicy}
          /\ version' \in 1..MaxVersion /\ clock' \in 0..MaxTime
      BY <1>1, KeptIsTyped DEF DeskInv, limits
    <3>3. Len(seen') <= MaxDedupeKeys
      BY <3>1, Bounds
    <3>4. OutcomeTyped'
      BY <1>1, OutcomeStays, KeptIsTyped DEF DeskInv
    <3> QED BY <1>1, <3>1, <3>2, <3>3, <3>4 DEF OthersTyped
  <2>2. /\ offers' \in Seq(Offer) /\ Len(offers') <= MaxOffers
        /\ decision' \in [Ids -> {"none", "approved", "rejected"}]
    BY <1>1 DEF DeskInv, Kept, TypeOK
  <2>3. /\ seq' \in 0..MaxOffers /\ seq' <= Len(offers')
        /\ cache' \in [Ids -> Ids \cup {NoOffer}] /\ pending' \subseteq Ids
    BY <1>1, <2>2, Bounds
  <2> QED BY <1>2, <2>1, <2>2, <2>3, TypedIsKept
<1>4. OnceInv'
  <2>1. \A i \in DOMAIN trades : trades[i].offer # NoOffer
    <3>1. trades \in Seq(Trade)
      BY DEF DeskInv, OnceInv, TradesTyped
    <3>2. \A i \in DOMAIN trades : trades[i] \in Trade
      BY <3>1
    <3> QED BY <3>2 DEF Trade, Ids, NoOffer
  <2> QED BY <1>1, <2>1 DEF DeskInv, OnceInv, TradesTyped, Cached, Sold,
                            SettledAtMostOnce, Serials
<1>5. OwnerInv'
  BY <1>1, <1>2 DEF DeskInv, OwnerInv, Numbered, Pending, Unannounced, AboutShown,
              OwnerApprovedThisOffer, OfferStaysAnswerable, Serials
<1>6. SettledWithinLiveLimits'
  BY <1>1 DEF DeskInv, SettledWithinLiveLimits
<1> QED BY <1>3, <1>4, <1>5, <1>6 DEF DeskInv

-----------------------------------------------------------------------------
(* A new offer bears the next id, whatever that stood for.                 *)
LEMMA QuoteSafe ==
  ASSUME DeskInv, NEW q \in quoting, NEW price \in Prices, QuoteArrives(q, price)
  PROVE  DeskInv'
<1> DEFINE s == Len(offers) + 1
           new == [id |-> seq + 1, text |-> q.text, price |-> price,
                   version |-> q.version, expiresAt |-> clock + QuoteLife,
                   kept |-> q.kept]
<1>1. /\ s \in Ids /\ seq' = seq + 1 /\ quoting' = quoting \ {q}
      /\ cache' = [cache EXCEPT ![seq + 1] = s]
      /\ offers' = Append(offers, new)
      /\ pending' = IF q.kept THEN pending \cup {seq + 1} ELSE pending
      /\ UNCHANGED <<limits, sent, delivered, seen, thinking, settling, decision,
                     outcome, trades, restarts>>
  BY DEF QuoteArrives, NextSeq
<1>2. /\ offers \in Seq(Offer) /\ Len(offers) <= MaxOffers
      /\ seq \in 0..MaxOffers /\ seq <= Len(offers)
      /\ cache \in [Ids -> Ids \cup {NoOffer}] /\ pending \subseteq Ids
      /\ decision \in [Ids -> {"none", "approved", "rejected"}]
      /\ restarts \in 0..MaxRestarts
  BY DEF DeskInv, Kept, TypeOK, SeqBound
<1>3. Len(offers) \in Nat /\ Serials = 1..Len(offers)
  BY <1>2 DEF Serials
<1>4. seq + 1 \in Ids /\ seq' \in 0..MaxOffers /\ s <= MaxOffers /\ seq' <= s
  BY <1>1, <1>2, <1>3, Bounds DEF Ids
<1>5. new \in Offer
  <2>1. /\ q.text \in Texts /\ q.version \in 1..MaxVersion /\ q.kept \in BOOLEAN
        /\ clock \in 0..MaxTime
    BY KeptIsTyped DEF DeskInv
  <2>2. clock + QuoteLife \in 0..(MaxTime + QuoteLife)
    BY <2>1, Bounds
  <2> QED BY <1>4, <2>1, <2>2 DEF Offer
<1> HIDE DEF new
<1>6. /\ offers' \in Seq(Offer) /\ Len(offers') = s /\ Serials' = 1..s
      /\ \A i \in Serials : offers'[i] = offers[i]
      /\ offers'[s] = new
  BY <1>1, <1>2, <1>3, <1>5, Appended DEF Serials
<1>7. s \notin Serials /\ Serials \subseteq Serials' /\ s \in Serials'
      /\ Serials' = Serials \cup {s}
  BY <1>3, <1>6
<1>8. new.id = seq + 1 /\ new.kept = q.kept
  BY DEF new
<1> HIDE DEF s
<1>9. Kept'
  <2>1. OthersTyped
    <3>1. settling' \subseteq Serials'
      BY <1>1, <1>7, KeptIsTyped DEF DeskInv
    <3>2. \A r \in quoting' : /\ r.text \in Texts /\ r.policy \in Policies
                              /\ r.version \in 1..MaxVersion /\ r.kept \in BOOLEAN
      BY <1>1, KeptIsTyped DEF DeskInv
    <3>3. OutcomeTyped'
      BY <1>1, OutcomeStays, KeptIsTyped DEF DeskInv
    <3> QED BY <1>1, <3>1, <3>2, <3>3, KeptIsTyped DEF DeskInv, OthersTyped, limits
  <2>2. cache' \in [Ids -> Ids \cup {NoOffer}]
    BY <1>1, <1>2
  <2>3. pending' \subseteq Ids
    BY <1>1, <1>2, <1>4
  <2> QED BY <1>1, <1>2, <1>4, <1>6, <2>1, <2>2, <2>3, TypedIsKept
<1>10. \A i \in Ids : cache'[i] = IF i = seq + 1 THEN s ELSE cache[i]
  BY <1>1, <1>2
<1>11. OnceInv'
  <2>1. Cached'
    <3> SUFFICES ASSUME NEW i \in Ids, cache'[i] # NoOffer
                 PROVE  /\ i <= seq' /\ cache'[i] \in Serials'
                        /\ offers'[cache'[i]].id = i
      BY DEF Cached
    <3>1. CASE i = seq + 1
      BY <3>1, <1>1, <1>2, <1>6, <1>7, <1>8, <1>10
    <3>2. CASE i # seq + 1
      <4>1. i <= seq /\ cache[i] \in Serials /\ offers[cache[i]].id = i
        BY <3>2, <1>10 DEF DeskInv, OnceInv, Cached
      <4>2. i <= seq + 1
        BY <4>1, <1>2 DEF Ids
      <4> QED BY <3>2, <4>1, <4>2, <1>1, <1>6, <1>7, <1>10
    <3> QED BY <3>1, <3>2
  <2>2. TradesTyped'
    BY <1>1, <1>7 DEF DeskInv, OnceInv, TradesTyped
  <2>3. Sold'
    BY <1>1, <1>7, <1>10 DEF DeskInv, OnceInv, Sold, TradesTyped
  <2> QED BY <1>1, <2>1, <2>2, <2>3 DEF DeskInv, OnceInv, SettledAtMostOnce
<1>12. OwnerInv'
  <2>1. Numbered'
    <3>1. restarts = 0 => seq = Len(offers) /\ \A r \in Serials : offers[r].id = r
      BY DEF DeskInv, OwnerInv, Numbered
    <3> QED BY <3>1, <1>1, <1>6, <1>7, <1>8 DEF Numbered, s
  <2>2. Pending'
    <3> SUFFICES ASSUME NEW i \in pending'
                 PROVE  /\ cache'[i] # NoOffer /\ decision'[cache'[i]] = "none"
                        /\ offers'[cache'[i]].kept
      BY DEF Pending
    <3>1. CASE i = seq + 1
      <4>1. q.kept
        <5>1. CASE i \in pending
          <6>1. i \in Ids /\ cache[i] # NoOffer
            BY <5>1, <1>2 DEF DeskInv, OwnerInv, Pending
          <6>2. i <= seq
            BY <6>1 DEF DeskInv, OnceInv, Cached
          <6> QED BY <6>2, <3>1, <1>2
        <5> QED BY <5>1, <1>1
      <4>2. decision[s] = "none"
        BY <1>1, <1>7 DEF DeskInv, OwnerInv, Unannounced
      <4>3. s # NoOffer
        BY <1>1, Bounds DEF Ids, NoOffer
      <4>4. cache'[i] = s
        BY <3>1, <1>4, <1>10
      <4>5. decision' = decision /\ offers'[s].kept
        BY <4>1, <1>1, <1>6, <1>8
      <4> QED BY <4>2, <4>3, <4>4, <4>5
    <3>2. CASE i # seq + 1
      <4>1. i \in pending /\ i \in Ids
        BY <3>2, <1>1, <1>2
      <4>2. /\ cache[i] # NoOffer /\ decision[cache[i]] = "none"
            /\ offers[cache[i]].kept
        BY <4>1 DEF DeskInv, OwnerInv, Pending
      <4>3. cache[i] \in Serials
        BY <4>1, <4>2 DEF DeskInv, OnceInv, Cached
      <4>4. cache'[i] = cache[i]
        BY <3>2, <4>1, <1>10
      <4>5. decision' = decision /\ offers'[cache[i]] = offers[cache[i]]
        BY <4>3, <1>1, <1>6
      <4> QED BY <4>2, <4>4, <4>5
    <3> QED BY <3>1, <3>2
  <2>3. Unannounced'
    BY <1>1, <1>7 DEF DeskInv, OwnerInv, Unannounced
  <2>4. AboutShown'
    BY <1>1, <1>6, <1>7 DEF DeskInv, OwnerInv, AboutShown
  <2>5. OwnerApprovedThisOffer'
    BY <1>1, <1>6 DEF DeskInv, OwnerInv, OwnerApprovedThisOffer, OnceInv,
                      TradesTyped, limits
  <2>6. OfferStaysAnswerable'
    <3> SUFFICES ASSUME restarts' = 0, NEW r \in Serials',
                        offers'[r].kept, decision'[r] = "none"
                 PROVE  offers'[r].id \in pending' /\ cache'[offers'[r].id] = r
      BY DEF OfferStaysAnswerable
    <3>1. CASE r = s
      BY <3>1, <1>1, <1>4, <1>6, <1>8, <1>10
    <3>2. CASE r # s
      <4>1. r \in Serials /\ offers'[r] = offers[r] /\ restarts = 0
        BY <3>2, <1>1, <1>6, <1>7
      <4>2. offers[r].id \in pending /\ cache[offers[r].id] = r
        BY <4>1, <1>1 DEF DeskInv, OwnerInv, OfferStaysAnswerable
      <4>3. offers[r].id \in Ids /\ offers[r].id # seq + 1
        <5>1. offers[r].id \in Ids /\ r # NoOffer
          BY <4>2, <4>1, <1>2, <1>3 DEF NoOffer
        <5>2. offers[r].id <= seq
          BY <4>2, <5>1 DEF DeskInv, OnceInv, Cached
        <5> QED BY <5>1, <5>2, <1>2
      <4> QED BY <4>1, <4>2, <4>3, <1>1, <1>10
    <3> QED BY <3>1, <3>2
  <2> QED BY <2>1, <2>2, <2>3, <2>4, <2>5, <2>6 DEF OwnerInv
<1>13. SettledWithinLiveLimits'
  <2>1. trades' = trades /\ \A i \in DOMAIN trades :
          offers'[trades[i].offer] = offers[trades[i].offer]
    BY <1>1, <1>6 DEF DeskInv, OnceInv, TradesTyped
  <2> QED BY <2>1 DEF DeskInv, SettledWithinLiveLimits
<1> QED BY <1>9, <1>11, <1>12, <1>13 DEF DeskInv

-----------------------------------------------------------------------------
(* An answer to a pending offer.                                           *)

(* The offer that a pending id stands for, and no other id does.           *)
LEMMA PendingOffer ==
  ASSUME DeskInv, NEW i \in pending
  PROVE  /\ i \in Ids /\ cache[i] \in Serials /\ cache[i] # NoOffer
         /\ offers[cache[i]].id = i /\ offers[cache[i]].kept
         /\ decision[cache[i]] = "none"
         /\ \A j \in Ids : cache[j] = cache[i] => j = i
<1>1. i \in Ids
  BY DEF DeskInv, Kept, TypeOK
<1>2. cache[i] # NoOffer /\ decision[cache[i]] = "none" /\ offers[cache[i]].kept
  BY DEF DeskInv, OwnerInv, Pending
<1> QED BY <1>1, <1>2 DEF DeskInv, OnceInv, Cached

(* How a decision comes: in a message, or in a draft of the brain.         *)
Carried ==
  /\ \/ UNCHANGED sent
     \/ \E k \in Messages : sent' = sent \cup {k}
  /\ sent' \subseteq Message /\ delivered' \in 0..MaxDeliveries
  /\ seen' \in Seq(sent') /\ Len(seen') <= MaxDedupeKeys
  /\ thinking' \subseteq Texts

LEMMA CarriedByMessage ==
  ASSUME DeskInv, NEW k \in Messages, MarkSeen(k), UNCHANGED thinking
  PROVE  Carried /\ k \in sent'
<1>1. sent' = sent \cup {k}
  BY DEF MarkSeen
<1>2. /\ sent' \subseteq Message /\ delivered' \in 0..MaxDeliveries
      /\ seen' \in Seq(sent') /\ Len(seen') <= MaxDedupeKeys
  BY SeenTyped DEF DeskInv, Kept
<1> QED BY <1>1, <1>2, KeptIsTyped DEF DeskInv, Carried

LEMMA CarriedByDraft ==
  ASSUME DeskInv, NEW t, thinking' = thinking \ {t},
         UNCHANGED <<sent, delivered, seen>>
  PROVE  Carried
BY KeptIsTyped DEF DeskInv, Carried

LEMMA DecisionSafe ==
  ASSUME DeskInv, Carried, NEW id \in pending,
         NEW d \in {"approved", "rejected"},
         pending' = pending \ {id},
         decision' = [decision EXCEPT ![cache[id]] = d],
         \/ cache' = cache
         \/ cache' = [cache EXCEPT ![id] = NoOffer],
         UNCHANGED <<offers, seq, restarts>>
  PROVE  /\ Cached' /\ Numbered' /\ Pending' /\ Unannounced' /\ AboutShown'
         /\ OfferStaysAnswerable'
         /\ cache' \in [Ids -> Ids \cup {NoOffer}]
         /\ decision' \in [Ids -> {"none", "approved", "rejected"}]
<1> DEFINE s == cache[id]
<1>1. /\ id \in Ids /\ s \in Serials /\ s # NoOffer
      /\ offers[s].id = id /\ \A j \in Ids : cache[j] = s => j = id
  BY PendingOffer
<1>2. /\ cache \in [Ids -> Ids \cup {NoOffer}] /\ pending \subseteq Ids
      /\ decision \in [Ids -> {"none", "approved", "rejected"}]
  BY DEF DeskInv, Kept, TypeOK
<1>3. s \in Ids
  BY <1>1, <1>2
<1>4. \A r \in Ids : decision'[r] = IF r = s THEN d ELSE decision[r]
  BY <1>2
<1>5. \A j \in Ids : cache'[j] = cache[j] \/ (j = id /\ cache'[j] = NoOffer)
  BY <1>1, <1>2
<1> HIDE DEF s
<1>6. Cached'
  BY <1>5 DEF DeskInv, OnceInv, Cached, Serials
<1>7. Numbered'
  BY DEF DeskInv, OwnerInv, Numbered, Serials
<1>8. Pending'
  <2> SUFFICES ASSUME NEW i \in pending'
               PROVE  /\ cache'[i] # NoOffer /\ decision'[cache'[i]] = "none"
                      /\ offers'[cache'[i]].kept
    BY DEF Pending
  <2>1. i \in pending /\ i # id /\ i \in Ids
    BY <1>2
  <2>2. /\ cache[i] # NoOffer /\ decision[cache[i]] = "none"
        /\ offers[cache[i]].kept
    BY <2>1, PendingOffer
  <2>3. cache'[i] = cache[i] /\ cache[i] # s
    BY <2>1, <1>1, <1>5
  <2>4. cache[i] \in Ids
    BY <2>1, <2>2, <1>2
  <2> QED BY <2>2, <2>3, <2>4, <1>4
<1>9. Unannounced'
  BY <1>1, <1>4 DEF DeskInv, OwnerInv, Unannounced, Serials
<1>10. AboutShown'
  BY ShownStays DEF Carried
<1>11. OfferStaysAnswerable'
  <2> SUFFICES ASSUME restarts' = 0, NEW r \in Serials',
                      offers'[r].kept, decision'[r] = "none"
               PROVE  offers'[r].id \in pending' /\ cache'[offers'[r].id] = r
    BY DEF OfferStaysAnswerable
  <2>1. r \in Serials /\ offers' = offers /\ restarts = 0
    BY DEF Serials
  <2>2. r \in Ids
    <3>1. offers \in Seq(Offer) /\ Len(offers) <= MaxOffers
      BY DEF DeskInv, Kept, TypeOK
    <3>2. r \in 1..Len(offers) /\ Len(offers) \in Nat
      BY <2>1, <3>1 DEF Serials
    <3> QED BY <3>1, <3>2, Bounds DEF Ids
  <2>3. r # s /\ decision[r] = "none"
    BY <2>2, <1>4
  <2>4. offers[r].id \in pending /\ cache[offers[r].id] = r
    BY <2>1, <2>3 DEF DeskInv, OwnerInv, OfferStaysAnswerable
  <2>5. offers[r].id \in Ids /\ offers[r].id # id
    BY <2>3, <2>4, <1>2 DEF s
  <2> QED BY <2>1, <2>4, <2>5, <1>5
<1>12. cache' \in [Ids -> Ids \cup {NoOffer}]
  BY <1>2
<1>13. decision' \in [Ids -> {"none", "approved", "rejected"}]
  BY <1>2
<1> QED BY <1>6, <1>7, <1>8, <1>9, <1>10, <1>11, <1>12, <1>13

(* What a decision changes besides.                                        *)
LEMMA DecisionTyped ==
  ASSUME DeskInv, Carried,
         UNCHANGED <<limits, quoting, seq, offers, restarts>>,
         pending' \subseteq pending,
         cache' \in [Ids -> Ids \cup {NoOffer}],
         decision' \in [Ids -> {"none", "approved", "rejected"}],
         settling' \subseteq Serials,
         OutcomeTyped'
  PROVE  Kept'
<1>2. OthersTyped
  BY KeptIsTyped DEF Carried, DeskInv, OthersTyped, limits, Serials
<1>3. /\ seq' \in 0..MaxOffers /\ seq' <= Len(offers') /\ pending' \subseteq Ids
      /\ offers' \in Seq(Offer) /\ Len(offers') <= MaxOffers
      /\ restarts' \in 0..MaxRestarts
  BY DEF DeskInv, Kept, TypeOK, SeqBound
<1> QED BY <1>2, <1>3, TypedIsKept

LEMMA RejectSafe ==
  ASSUME DeskInv, Carried, NEW id, Reject(id)
  PROVE  DeskInv'
<1>1. /\ id \in pending /\ pending' = pending \ {id}
      /\ decision' = [decision EXCEPT ![cache[id]] = "rejected"]
      /\ UNCHANGED <<limits, quoting, seq, cache, settling, offers, outcome,
                     trades, restarts>>
  BY DEF Reject, Forget, desk
<1>2. sent \subseteq sent'
  BY DEF Carried
<1>3. /\ Cached' /\ Numbered' /\ Pending' /\ Unannounced' /\ AboutShown'
      /\ OfferStaysAnswerable'
      /\ cache' \in [Ids -> Ids \cup {NoOffer}]
      /\ decision' \in [Ids -> {"none", "approved", "rejected"}]
  BY <1>1, DecisionSafe
<1>4. Kept'
  <2>1. OutcomeTyped'
    BY <1>1, OutcomeStays, KeptIsTyped DEF DeskInv
  <2> QED BY <1>1, <1>3, <2>1, DecisionTyped, KeptIsTyped DEF DeskInv
<1>5. OnceInv'
  BY <1>1, <1>3 DEF DeskInv, OnceInv, TradesTyped, Sold, SettledAtMostOnce, Serials
<1>6. OwnerInv'
  BY <1>1, <1>2, <1>3 DEF DeskInv, OwnerInv, OwnerApprovedThisOffer, limits
<1>7. SettledWithinLiveLimits'
  BY <1>1 DEF DeskInv, SettledWithinLiveLimits
<1> QED BY <1>4, <1>5, <1>6, <1>7 DEF DeskInv

-----------------------------------------------------------------------------
(* A smaller slippage never receives less.                                 *)
LEMMA ReceivedMonotone ==
  ASSUME NEW q \in Nat, NEW b \in Nat, NEW c \in Nat, b <= c
  PROVE  /\ minReceivedAfterSlippage(q, b) \in Int
         /\ minReceivedAfterSlippage(q, b) >= minReceivedAfterSlippage(q, c)
<1>1. PICK n \in Nat : c = b + n
  <2>1. c - b \in Nat /\ c = b + (c - b)
    OBVIOUS
  <2> QED BY <2>1
<1>2. q * (10000 - b) = q * (10000 - c) + q * n
  BY <1>1
<1>3. q * n \in Nat /\ q * (10000 - b) \in Int /\ q * (10000 - c) \in Int
  BY <1>1
<1> DEFINE x == q * (10000 - b)
           y == q * (10000 - c)
<1>4. x \in Int /\ y \in Int /\ x >= y
  BY <1>2, <1>3
<1> HIDE DEF x, y
<1>5. x \div 10000 \in Int /\ x \div 10000 >= y \div 10000
  BY <1>4
<1> QED BY <1>5 DEF x, y, minReceivedAfterSlippage

(* What the gate of a policy lets through is within its limits.            *)
LEMMA GatedMinOut ==
  ASSUME NEW p \in Policies, NEW t \in Texts, NEW price \in Prices, Gate(p, t, price)
  PROVE  /\ checkAction(Terms[p], Shape(t, price)) /\ MinOut(t, price) \in Int
         /\ MinOut(t, price) >= minReceivedAfterSlippage(price.quotedOut,
                                        Terms[p].cap["maxSlippageBps"])
<1>1. Quotable(t, price) /\ checkAction(Terms[p], Shape(t, price))
  BY DEF Gate, Permitted, Quotes
<1> DEFINE b == parseSwap(t).slippageBps
           c == Terms[p].cap["maxSlippageBps"]
<1>2. b \in 0..10000 /\ price.quotedOut > 0
  <2>1. isValidBps(b) /\ price.quotedOut > 0
    BY <1>1, Zenon DEF Quotable
  <2> HIDE DEF b
  <2> QED BY <2>1 DEF isValidBps
<1>3. price.quotedOut \in Nat
  <2>1. price.quotedOut \in Int
    <3>1. price \in PriceQuote
      BY OrdersAssumption
    <3> QED BY <3>1 DEF PriceQuote
  <2> QED BY <2>1, <1>2
<1>4. Terms[p] \in PolicyRecord
  BY DeskAssumption
<1>5. c \in Nat
  BY <1>4 DEF PolicyRecord, Caps, MeasuredCaps
<1>6. Shape(t, price).measure["maxSlippageBps"] = b
  BY DEF Shape, MeasuredCaps
<1>7. b <= c
  BY <1>1, <1>6 DEF checkAction, PassesGates, MeasuredCaps
<1> HIDE DEF b, c
<1>8. /\ minReceivedAfterSlippage(price.quotedOut, b) \in Int
      /\ minReceivedAfterSlippage(price.quotedOut, b)
           >= minReceivedAfterSlippage(price.quotedOut, c)
  <2>1. b \in Nat
    BY <1>2
  <2> QED BY <2>1, <1>3, <1>5, <1>7, ReceivedMonotone
<1> QED BY <1>1, <1>8 DEF MinOut, b, c

-----------------------------------------------------------------------------
(* The decision that settles, or is refused.                               *)
LEMMA ApproveSafe ==
  ASSUME DeskInv, Carried, NEW id, Approve(id),
         \/ "approval" \in skills
         \/ \E k \in sent' : k.from = "owner" /\ k.kind = "approve" /\ k.id = id
  PROVE  DeskInv'
<1> DEFINE s == cache[id]
<1>1. /\ id \in pending /\ pending' = pending \ {id}
      /\ cache' = [cache EXCEPT ![id] = NoOffer]
      /\ decision' = [decision EXCEPT ![s] = "approved"]
      /\ \/ /\ MaySettle(s)
            /\ settling' = settling \cup {s}
            /\ trades' = Append(trades, SettleCall(s))
            /\ UNCHANGED outcome
         \/ /\ Returned(s, "refused")
            /\ UNCHANGED <<settling, trades>>
      /\ UNCHANGED <<limits, quoting, seq, offers, restarts>>
  BY DEF Approve, Forget
<1>2. sent \subseteq sent'
  BY DEF Carried
<1>3. /\ Cached' /\ Numbered' /\ Pending' /\ Unannounced' /\ AboutShown'
      /\ OfferStaysAnswerable'
      /\ cache' \in [Ids -> Ids \cup {NoOffer}]
      /\ decision' \in [Ids -> {"none", "approved", "rejected"}]
  BY <1>1, DecisionSafe
<1>4. /\ id \in Ids /\ s \in Serials /\ s # NoOffer
      /\ offers[s].id = id /\ offers[s].kept
      /\ \A j \in Ids : cache[j] = s => j = id
  BY <1>1, PendingOffer
<1>5. cache \in [Ids -> Ids \cup {NoOffer}] /\ s \in Ids
  BY <1>4 DEF DeskInv, Kept, TypeOK
<1>6. Kept'
  <2>1. settling' \subseteq Serials
    BY <1>1, <1>4, KeptIsTyped DEF DeskInv
  <2>2. OutcomeTyped'
    BY <1>1, <1>5, OutcomeStays, ReturnedTyped, KeptIsTyped DEF DeskInv, Lines
  <2>3. pending' \subseteq pending
    BY <1>1
  <2> QED BY <1>1, <1>3, <2>1, <2>2, <2>3, DecisionTyped
<1> HIDE DEF s
<1>7. CASE trades' = trades
  <2>1. OnceInv'
    <3>1. Sold'
      <4>1. \A i \in DOMAIN trades : trades[i].offer # NoOffer
        <5>1. trades \in Seq(Trade)
          BY DEF DeskInv, OnceInv, TradesTyped
        <5>2. \A i \in DOMAIN trades : trades[i] \in Trade
          BY <5>1
        <5> QED BY <5>2 DEF Trade, Ids, NoOffer
      <4>2. \A j \in Ids : cache'[j] = cache[j] \/ cache'[j] = NoOffer
        BY <1>1, <1>5
      <4> QED BY <1>7, <4>1, <4>2 DEF DeskInv, OnceInv, Sold
    <3> QED BY <1>1, <1>3, <1>7, <3>1
            DEF DeskInv, OnceInv, TradesTyped, SettledAtMostOnce, Serials
  <2>2. OwnerInv'
    BY <1>1, <1>2, <1>3, <1>7 DEF DeskInv, OwnerInv, OwnerApprovedThisOffer, limits
  <2>3. SettledWithinLiveLimits'
    BY <1>1, <1>7 DEF DeskInv, SettledWithinLiveLimits
  <2> QED BY <1>6, <2>1, <2>2, <2>3 DEF DeskInv
<1>8. CASE MaySettle(s) /\ trades' = Append(trades, SettleCall(s))
  <2> DEFINE t == SettleCall(s)
             n == Len(trades) + 1
             o == offers[s]
  <2>1. /\ clock < o.expiresAt /\ policy \in Policies /\ o.version = version
        /\ Gate(policy, o.text, o.price)
        /\ version \in 1..MaxVersion /\ clock \in 0..MaxTime
    BY <1>8, KeptIsTyped DEF MaySettle, DeskInv
  <2>2. o \in Offer
    <3>1. offers \in Seq(Offer)
      BY DEF DeskInv, Kept, TypeOK
    <3> QED BY <3>1, <1>4 DEF Serials
  <2>3. o.text \in Texts /\ o.price \in Prices
    BY <2>2 DEF Offer
  <2>4. /\ checkAction(Terms[policy], Shape(o.text, o.price))
        /\ MinOut(o.text, o.price) \in Int
        /\ MinOut(o.text, o.price)
             >= minReceivedAfterSlippage(o.price.quotedOut,
                                         Terms[policy].cap["maxSlippageBps"])
    BY <2>1, <2>3, GatedMinOut
  <2>5. /\ t.offer = s /\ t.policy = policy /\ t.version = version /\ t.at = clock
        /\ t.minOut = MinOut(o.text, o.price)
    BY DEF SettleCall
  <2>6. t \in Trade
    BY <2>1, <2>4, <1>5 DEF Trade, SettleCall
  <2>7. trades \in Seq(Trade)
    BY DEF DeskInv, OnceInv, TradesTyped
  <2> HIDE DEF t, o
  <2>8. /\ trades' \in Seq(Trade) /\ DOMAIN trades = 1..Len(trades)
        /\ DOMAIN trades' = 1..n /\ Len(trades) \in Nat
        /\ \A i \in DOMAIN trades : trades'[i] = trades[i]
        /\ trades'[n] = t
    BY <1>8, <2>6, <2>7, Appended DEF t
  <2>9. DOMAIN trades' = DOMAIN trades \cup {n}
    BY <2>8
  <2> HIDE DEF n
  <2>10. \A i \in DOMAIN trades : trades[i].offer # s /\ trades[i].offer \in Serials
    BY <1>4 DEF DeskInv, OnceInv, Sold, TradesTyped, s
  <2>11. OnceInv'
    <3>1. TradesTyped'
      BY <1>1, <1>4, <2>5, <2>8, <2>9, <2>10 DEF TradesTyped, Serials
    <3>2. Sold'
      <4> SUFFICES ASSUME NEW i \in DOMAIN trades', NEW j \in Ids
                   PROVE  cache'[j] # trades'[i].offer
        BY DEF Sold
      <4>1. cache'[j] # s /\ (cache'[j] = cache[j] \/ cache'[j] = NoOffer)
        BY <1>1, <1>4, <1>5 DEF s
      <4>2. CASE i = n
        BY <4>1, <4>2, <2>5, <2>8
      <4>3. CASE i \in DOMAIN trades
        <5>1. trades[i].offer # NoOffer
          <6>1. trades[i] \in Trade
            BY <4>3, <2>7
          <6> QED BY <6>1 DEF Trade, Ids, NoOffer
        <5> QED BY <4>1, <4>3, <5>1, <2>8 DEF DeskInv, OnceInv, Sold
      <4> QED BY <4>2, <4>3, <2>9
    <3>3. SettledAtMostOnce'
      BY <2>5, <2>8, <2>9, <2>10 DEF DeskInv, OnceInv, SettledAtMostOnce
    <3> QED BY <1>3, <3>1, <3>2, <3>3 DEF OnceInv
  <2>12. OwnerApprovedThisOffer'
    <3>0. skills' = skills /\ restarts' = restarts
      BY <1>1 DEF limits
    <3> SUFFICES ASSUME restarts' = 0, NEW i \in DOMAIN trades'
                 PROVE  /\ offers[trades'[i].offer].kept
                        /\ \/ "approval" \in skills
                           \/ \E a \in sent' : /\ a.from = "owner"
                                               /\ a.kind = "approve"
                                               /\ a.about = trades'[i].offer
      BY <1>1, <3>0 DEF OwnerApprovedThisOffer
    <3>1. CASE i = n
      <4>0. CASE "approval" \in skills
        BY <3>1, <4>0, <1>4, <2>5, <2>8
      <4> SUFFICES ASSUME "approval" \notin skills
                   PROVE  /\ offers[trades'[i].offer].kept
                          /\ \E a \in sent' : /\ a.from = "owner"
                                              /\ a.kind = "approve"
                                              /\ a.about = trades'[i].offer
        BY <4>0
      <4>1. PICK k \in sent' : k.from = "owner" /\ k.kind = "approve" /\ k.id = id
        OBVIOUS
      <4>2. k.about \in Serials /\ offers[k.about].id = id
        BY <1>1, <1>3, <4>1 DEF AboutShown, Serials
      <4>3. k.about = s
        BY <4>2, <1>1, <1>4 DEF DeskInv, OwnerInv, Numbered
      <4> QED BY <3>1, <4>1, <4>3, <1>4, <2>5, <2>8
    <3>2. CASE i \in DOMAIN trades
      BY <3>0, <3>2, <1>1, <1>2, <2>8 DEF DeskInv, OwnerInv, OwnerApprovedThisOffer
    <3> QED BY <3>1, <3>2, <2>9
  <2>13. SettledWithinLiveLimits'
    <3> DEFINE Within(x, y) ==
                 /\ y.version = x.version
                 /\ checkAction(Terms[x.policy], Shape(y.text, y.price))
                 /\ x.at < y.expiresAt
                 /\ x.minOut >= minReceivedAfterSlippage(y.price.quotedOut,
                                     Terms[x.policy].cap["maxSlippageBps"])
    <3>1. Within(t, o)
      BY <2>1, <2>4, <2>5
    <3>2. \A i \in DOMAIN trades : Within(trades[i], offers[trades[i].offer])
      BY DEF DeskInv, SettledWithinLiveLimits
    <3>3. \A i \in DOMAIN trades' : Within(trades'[i], offers[trades'[i].offer])
      <4> HIDE DEF Within
      <4> QED BY <3>1, <3>2, <2>5, <2>8, <2>9 DEF o
    <3> QED BY <3>3, <1>1 DEF SettledWithinLiveLimits
  <2> QED BY <1>3, <1>6, <2>11, <2>12, <2>13 DEF DeskInv, OwnerInv
<1> QED BY <1>1, <1>7, <1>8

-----------------------------------------------------------------------------
LEMMA StepSafe == DeskInv /\ [Next]_vars => DeskInv'
<1> SUFFICES ASSUME DeskInv, [Next]_vars PROVE DeskInv'
  OBVIOUS
<1>1. CASE \/ \E p \in Policies \cup {NoPolicy} : SetPolicy(p)
           \/ SetPause \/ Tick
  BY <1>1, LimitsAside, AsideSafe DEF DeskInv
<1>2. CASE Restart
  BY <1>2, RestartSafe
<1>3. CASE Receive
  <2>1. PICK k \in Messages : \/ ReceiveOrder(k) \/ ReceiveChat(k)
                              \/ ReceiveAndRefuse(k) \/ ReceiveAnswer(k)
    BY <1>3 DEF Receive
  <2>2. CASE ReceiveOrder(k) \/ ReceiveChat(k) \/ ReceiveAndRefuse(k)
    BY <2>2, ReceiveAside, AsideSafe DEF DeskInv
  <2>3. CASE ReceiveAnswer(k)
    <3>1. Carried /\ k \in sent'
      BY <2>3, CarriedByMessage DEF ReceiveAnswer
    <3>2. CASE k.kind = "approve" /\ Approve(k.id)
      <4>1. k.from = "owner"
        BY <2>3 DEF ReceiveAnswer, FromOwner
      <4>2. \E a \in sent' : a.from = "owner" /\ a.kind = "approve" /\ a.id = k.id
        BY <3>1, <3>2, <4>1
      <4> QED BY <3>1, <3>2, <4>2, ApproveSafe
    <3>3. CASE Reject(k.id)
      BY <3>1, <3>3, RejectSafe
    <3> QED BY <2>3, <3>2, <3>3 DEF ReceiveAnswer
  <2> QED BY <2>1, <2>2, <2>3
<1>4. CASE Settle \/ \E q \in quoting : QuoteRefused(q)
  BY <1>4, WaitsAside, AsideSafe DEF DeskInv
<1>7. ASSUME NEW t \in thinking,
             \/ BrainTalks(t)
             \/ \E action \in extractAction : BrainSuggestsSwap(t, action)
      PROVE  DeskInv'
  BY <1>7, WaitsAside, AsideSafe DEF DeskInv
<1>8. ASSUME NEW t \in thinking, NEW action \in extractAction, BrainDecides(t, action)
      PROVE  DeskInv'
  <2>1. Carried
    BY <1>8, CarriedByDraft DEF BrainDecides
  <2>2. "approval" \in skills
    BY <1>8 DEF BrainDecides, extractAction
  <2>3. CASE Approve(action.id)
    BY <2>1, <2>2, <2>3, ApproveSafe
  <2>4. CASE Reject(action.id)
    BY <2>1, <2>4, RejectSafe
  <2> QED BY <1>8, <2>3, <2>4 DEF BrainDecides
<1>5. CASE \E q \in quoting : \E price \in Prices : QuoteArrives(q, price)
  BY <1>5, QuoteSafe
<1>6. CASE UNCHANGED vars
  <2>1. UNCHANGED <<skills, policy, version, clock, sent, delivered, seen, thinking,
                    pending, quoting, seq, cache, settling, offers, decision,
                    outcome, trades, restarts>>
    BY <1>6 DEF vars, limits, session, desk, history
  <2>2. OutcomeTyped'
    BY <2>1, OutcomeStays, KeptIsTyped DEF DeskInv
  <2>3. Aside /\ OthersTyped
    BY <2>1, <2>2, KeptIsTyped DEF DeskInv, Aside, standing, OthersTyped, Serials
  <2> QED BY <2>3, AsideSafe
<1> QED BY <1>1, <1>2, <1>3, <1>4, <1>5, <1>6, <1>7, <1>8 DEF Next, Quote, Brain

LEMMA DeskInvariant == Spec => []DeskInv
<1> QED BY InitDesk, StepSafe, PTL DEF Spec

-----------------------------------------------------------------------------
(* The types, and the bound on the dedupe keys that shell.ts keeps, for    *)
(* any number of messages and restarts.                                    *)
THEOREM TypeCorrect == Spec => []TypeOK
<1>1. DeskInv => TypeOK
  BY DEF DeskInv, Kept
<1> QED BY <1>1, DeskInvariant, PTL

(* No redelivery, reordering, restart or repeated id settles an offer      *)
(* twice (shell.ts:90-110, skillsSwap.ts:297-320).                         *)
THEOREM SettlesOnce == Spec => []SettledAtMostOnce
<1>1. DeskInv => SettledAtMostOnce
  BY DEF DeskInv, OnceInv
<1> QED BY <1>1, DeskInvariant, PTL

(* What settles, until the process restarts, was shown to the owner as a   *)
(* pending offer and approved under its own id, by the owner, or, where    *)
(* approvalSkill is registered, by a reply of the brain (shell.ts:90-110,  *)
(* 179-184, skills.ts:70-92).                                              *)
THEOREM SettlesWhatWasApproved == Spec => []OwnerApprovedThisOffer
<1>1. DeskInv => OwnerApprovedThisOffer
  BY DEF DeskInv, OwnerInv
<1> QED BY <1>1, DeskInvariant, PTL

(* Whatever the owner's policy became while a quote and an approval were   *)
(* awaited, a swap settles within the policy of that moment.               *)
THEOREM SettlesWithinLimits == Spec => []SettledWithinLiveLimits
<1>1. DeskInv => SettledWithinLiveLimits
  BY DEF DeskInv
<1> QED BY <1>1, DeskInvariant, PTL

(* An offer that the owner may answer can be answered until it is decided. *)
THEOREM StaysAnswerable == Spec => []OfferStaysAnswerable
<1>1. DeskInv => OfferStaysAnswerable
  BY DEF DeskInv, OwnerInv
<1> QED BY <1>1, DeskInvariant, PTL

(* An offer is decided once: a pending id is that of an undecided offer.   *)
THEOREM DecidedOnce == Spec => DecisionIsFinal
<1> DEFINE Final == \A s \in Ids : decision[s] # "none" => decision'[s] = decision[s]
<1>1. DeskInv /\ [Next]_vars => [Final]_vars
  <2> SUFFICES ASSUME DeskInv, Next, NEW s \in Ids, decision[s] # "none"
               PROVE  decision'[s] = decision[s]
    OBVIOUS
  <2>0. ASSUME NEW id, Approve(id) \/ Reject(id)
        PROVE  decision'[s] = decision[s]
    <3>1. id \in pending /\ \E d : decision' = [decision EXCEPT ![cache[id]] = d]
      BY <2>0 DEF Approve, Reject
    <3>2. decision[cache[id]] = "none"
      BY <3>1, PendingOffer
    <3> QED BY <3>1, <3>2
  <2>1. CASE Receive
    <3>1. PICK k \in Messages : \/ ReceiveOrder(k) \/ ReceiveChat(k)
                                \/ ReceiveAndRefuse(k) \/ ReceiveAnswer(k)
      BY <2>1 DEF Receive
    <3>2. CASE ReceiveAnswer(k)
      BY <3>2, <2>0 DEF ReceiveAnswer
    <3>3. CASE ReceiveOrder(k) \/ ReceiveChat(k) \/ ReceiveAndRefuse(k)
      BY <3>3 DEF ReceiveOrder, ReceiveChat, ReceiveAndRefuse, history
    <3> QED BY <3>1, <3>2, <3>3
  <2>2. ASSUME NEW t \in thinking, NEW action \in extractAction,
               BrainDecides(t, action)
        PROVE  decision'[s] = decision[s]
    BY <2>2, <2>0 DEF BrainDecides
  <2>3. ASSUME NEW t \in thinking,
               \/ BrainTalks(t)
               \/ \E action \in extractAction : BrainSuggestsSwap(t, action)
        PROVE  decision'[s] = decision[s]
    BY <2>3 DEF BrainTalks, BrainSuggestsSwap, history
  <2>4. CASE ~Receive /\ ~Brain
    <3>1. decision' = decision
      BY <2>4 DEF Next, SetPolicy, SetPause, Tick, Restart, Quote, QuoteArrives,
                  QuoteRefused, Settle, SettleEnds, history
    <3> QED BY <3>1
  <2> QED BY <2>1, <2>2, <2>3, <2>4 DEF Brain
<1> QED BY <1>1, DeskInvariant, PTL DEF Spec, DecisionIsFinal

-----------------------------------------------------------------------------
(* The screen beside the desk.                                             *)
(* An amount of money that a text names is counted in whole dollars, never *)
(* below none (parseMoneyToAtomic, skillsScreener.ts).                     *)
LEMMA AmountsAreCounted ==
  ASSUME NEW m \in Money PROVE parseMoneyToAtomic(m) \in Nat
<1>1. /\ m.figure.digits * m.multiple \in Nat
      /\ m.figure.scale \in Nat \ {0}
  BY DEF Money, Figure
<1>2. \A a \in Nat, b \in Nat \ {0} : a \div b \in Nat
  OBVIOUS
<1> QED BY <1>1, <1>2, ScreenAssumption DEF parseMoneyToAtomic

(* So is one that is defaulted where the text names none.                  *)
LEMMA AmountsOrDefaults ==
  ASSUME NEW found \in Optional(Money), NEW d \in Nat
  PROVE  Head(Append(Apply(parseMoneyToAtomic, found), d)) \in Nat
<1>1. CASE found = <<>>
  <2>1. Apply(parseMoneyToAtomic, found) = <<>>
    BY <1>1 DEF Apply
  <2> QED BY <2>1
<1>2. ASSUME NEW m \in Money, found = <<m>>
      PROVE  Head(Append(Apply(parseMoneyToAtomic, found), d)) \in Nat
  <2>1. Apply(parseMoneyToAtomic, found) = <<parseMoneyToAtomic(m)>>
    BY <1>2 DEF Apply
  <2> QED BY <2>1, AmountsAreCounted
<1> QED BY <1>1, <1>2 DEF Optional

(* Whatever a text asks for, the screen accepts what the skill makes of    *)
(* it: the handler never throws on its own parameters                      *)
(* (skillsScreener.ts:118, screen.ts:53-58).                               *)
THEOREM RequestsAreAccepted ==
  \A x \in Request : Accepted(parseScreenParams(x))
<1> SUFFICES ASSUME NEW x \in Request PROVE Accepted(parseScreenParams(x))
  OBVIOUS
<1>1. /\ parseScreenParams(x).minLiquidity \in Nat
      /\ parseScreenParams(x).minVolume \in Nat
  <2>1. SCREEN_DEFAULTS.minLiquidity \in Nat /\ SCREEN_DEFAULTS.minVolume \in Nat
    BY ScreenAssumption DEF SCREEN_DEFAULTS
  <2> QED BY <2>1, AmountsOrDefaults DEF parseScreenParams, Request
<1>2. parseScreenParams(x).topN \in 1..20
  <2>1. \A n \in Nat : Clamped(n) \in 1..20
    BY DEF Clamped
  <2>2. CASE x.top = <<>>
    <3>1. Apply(Clamped, x.top) = <<>>
      BY <2>2 DEF Apply
    <3> QED BY <3>1 DEF parseScreenParams, SCREEN_DEFAULTS
  <2>3. ASSUME NEW n \in Nat, x.top = <<n>>
        PROVE  parseScreenParams(x).topN \in 1..20
    <3>1. Apply(Clamped, x.top) = <<Clamped(n)>>
      BY <2>3 DEF Apply
    <3> QED BY <3>1, <2>1 DEF parseScreenParams
  <2>4. x.top \in Optional(Nat)
    BY DEF Request
  <2> QED BY <2>2, <2>3, <2>4 DEF Optional
<1> QED BY <1>1, <1>2 DEF Accepted

(* A token that nothing is held against passes every filter, one by one.   *)
LEMMA Unobjected ==
  ASSUME NEW t, NEW metrics, NEW p, NEW now
  PROVE  Objections(t, metrics, p, now) = {}
           <=> /\ t.wellFormed /\ ~t.deferred /\ ~t.isCreatorLocked
               /\ ~(now - t.deployedAt < 0)
               /\ \A k \in DOMAIN p.minAge : ~(now - t.deployedAt < p.minAge[k])
               /\ \A k \in DOMAIN p.maxAge : ~(now - t.deployedAt > p.maxAge[k])
               /\ t.address \in DOMAIN metrics
               /\ ~(metrics[t.address].dataAge < 0)
               /\ ~(metrics[t.address].dataAge > p.maxDataAge)
               /\ ~(metrics[t.address].liquidity < p.minLiquidity)
               /\ ~(metrics[t.address].volume < p.minVolume)
               /\ ~(metrics[t.address].holders < p.minHolders)
<1>1. {1, 2, 3, 4, 5, 6, 7, 8, 9, 10, 11} \subseteq DOMAIN Reasons
  BY DEF Reasons
<1> QED BY <1>1 DEF Objections

(* Tightening any filters never lets in a token that they refused, though  *)
(* they are applied in an order and stop at the first that refuses         *)
(* (screen.ts:60-107).                                                     *)
THEOREM StricterScreensKeepFewer ==
  ASSUME NEW tokens, NEW metrics, NEW now \in Int, NEW p \in Params, NEW q \in Params,
         Stricter(q, p),
         \A i \in DOMAIN tokens : tokens[i] \in Token,
         \A a \in DOMAIN metrics : metrics[a] \in Metrics
  PROVE  Survivors(tokens, metrics, q, now) \subseteq Survivors(tokens, metrics, p, now)
<1>1. ASSUME NEW t \in Token, Objections(t, metrics, q, now) = {}
      PROVE  Objections(t, metrics, p, now) = {}
  <2>0. ASSUME NEW found \in Optional(Nat)
        PROVE  \A k \in DOMAIN found : found[k] \in Nat
    BY DEF Optional
  <2>1. /\ now - t.deployedAt \in Int
        /\ \A k \in DOMAIN p.minAge : p.minAge[k] \in Nat
        /\ \A k \in DOMAIN p.maxAge : p.maxAge[k] \in Nat
        /\ \A k \in DOMAIN q.minAge : q.minAge[k] \in Nat
        /\ \A k \in DOMAIN q.maxAge : q.maxAge[k] \in Nat
    BY <2>0 DEF Token, Params
  <2>2. t.address \in DOMAIN metrics
    BY <1>1, Unobjected
  <2>3. metrics[t.address] \in Metrics
    BY <2>2
  <2>4. /\ \A k \in DOMAIN p.minAge : ~(now - t.deployedAt < p.minAge[k])
        /\ \A k \in DOMAIN p.maxAge : ~(now - t.deployedAt > p.maxAge[k])
    BY <1>1, <2>1, Unobjected DEF Stricter
  <2>5. /\ ~(metrics[t.address].dataAge > p.maxDataAge)
        /\ ~(metrics[t.address].liquidity < p.minLiquidity)
        /\ ~(metrics[t.address].volume < p.minVolume)
        /\ ~(metrics[t.address].holders < p.minHolders)
    BY <1>1, <2>3, Unobjected DEF Stricter, Metrics, Params
  <2> QED BY <1>1, <2>4, <2>5, Unobjected
<1>2. \A i \in DOMAIN tokens : tokens[i] \in Token
  OBVIOUS
<1> QED BY <1>1, <1>2 DEF Survivors

=============================================================================
