------------------------------ MODULE SwapDesk ------------------------------
(***************************************************************************)
(* The chat shell (services/chat/src/shell.ts) with the swap desk          *)
(* (skillsSwap.ts), in one space.  Messages arrive at least once and in    *)
(* any order.  An order is quoted, gated by the policy and becomes a       *)
(* numbered proposal; APPROVE <id> gates it again and settles it.          *)
(*                                                                         *)
(* Each handler runs up to its next await: handleInbound to the brain or   *)
(* the quote, the quote's continuation, execute to the settlement.  The    *)
(* owner, the delivery, the policy provider, the brain, the quoter, the    *)
(* settlement and the transport are external.  A proposal is named by its  *)
(* place in the history `offers`; its id, SW<seq>, starts over when the    *)
(* process does.                                                           *)
(***************************************************************************)
EXTENDS SwapOrders, FiniteSets

CONSTANTS
  Sends,          (* the senders and the kinds of message considered      *)
  Typed,          (* the texts that a sender may write                    *)
  Policies,       (* policies the provider may set, NoPolicy aside         *)
  Terms,          (* the record of each policy                             *)
  NoPolicy,       (* activePolicy() is null                                *)
  QuoteLife,      (* 60 seconds                                            *)
  AnswerText,     (* what "APPROVE <id>" says to the desk and the brain    *)
  MaxDedupeKeys,
  MaxMessages, MaxDeliveries, MaxOffers,   (* bounds                       *)
  MaxVersion, MaxTime, MaxRestarts,
  MaxFailures     (* bound on the sends that fail                          *)

ASSUME DeskAssumption ==
  /\ Sends \subseteq {"owner", "other"}
                   \X {"text", "approve", "reject"}
  /\ Typed \subseteq Texts
  /\ Terms \in [Policies -> PolicyRecord]
  /\ NoPolicy \notin Policies
  /\ AnswerText \in Texts /\ ~swapIntentMatches(AnswerText)
  /\ {QuoteLife, MaxDedupeKeys, MaxMessages, MaxDeliveries, MaxOffers,
      MaxVersion, MaxTime, MaxRestarts, MaxFailures} \subseteq Nat
  /\ MaxVersion > 0

VARIABLES
  skills,     (* this.skills: the desk's, and approvalSkill beside it or not  *)
  policy,     (* deps.policies.activePolicy()                              *)
  version,    (* its version                                               *)
  clock,      (* deps.now()                                                *)
  sent,       (* the messages delivered so far; each is its own dedupe key *)
  delivered,  (* deliveries that the dedupe keys let through               *)
  seen,       (* this.seen, oldest first                                   *)
  thinking,   (* texts of messages whose brain draft is awaited            *)
  quoting,    (* texts whose quote is awaited, with the policy read first  *)
  seq,        (* the desk's proposal counter                               *)
  cache,      (* the desk's cache: the offer each id stands for            *)
  pending,    (* ids in session.pending                                    *)
  settling,   (* offers whose settle() is awaited                          *)
  failures,   (* the sends of an outcome that have failed                  *)
  offers,     (* history: every proposal announced, in order               *)
  decision,   (* history: what resolveApproval decided on each offer       *)
  resolved,   (* history: offers whose execute() returned its line         *)
  told,       (* history: the follow-up that reached the owner on each     *)
  trades,     (* history: every call of settle()                           *)
  restarts    (* history: restarts of the process                          *)

limits  == <<skills, policy, version, clock>>
session == <<sent, delivered, seen, thinking, pending>>
desk    == <<quoting, seq, cache>>
outcome == <<failures, resolved, told>>
history == <<offers, decision, outcome, trades, restarts>>
vars    == <<limits, session, desk, settling, history>>

NoOffer == 0
Ids == 1..MaxOffers
Serials == DOMAIN offers

TextMessage == [from : {"owner", "other"}, kind : {"text"}, text : Texts]
Answer == [from : {"owner", "other"}, kind : {"approve", "reject"},
           id : Ids, about : Ids]

-----------------------------------------------------------------------------
(* The quotes that each policy lets through, and those its caps do.        *)
Quotes == {q \in Texts \X Prices : Resolvable(q[1]) /\ Quotable(q[1], q[2])}
Permitted == [p \in Policies |->
                {q \in Quotes : checkAction(Terms[p], Shape(q[1], q[2]))}]
UnderCaps == [p \in Policies |->
                {q \in Quotes : PassesGates(Terms[p], Shape(q[1], q[2]))}]

mutGate(p, t, price) == <<t, price>> \in UnderCaps[p]
Gate(p, t, price) == <<t, price>> \in Permitted[p]

-----------------------------------------------------------------------------
Init ==
  /\ skills \in {{"swap"}, {"swap", "approval"}}
  /\ policy \in Policies \cup {NoPolicy} /\ version = 1
  /\ clock = 0 /\ sent = {} /\ delivered = 0 /\ seen = <<>>
  /\ thinking = {} /\ quoting = {} /\ seq = 0
  /\ cache = [i \in Ids |-> NoOffer] /\ pending = {}
  /\ settling = {} /\ offers = <<>> /\ restarts = 0 /\ trades = <<>>
  /\ decision = [s \in Ids |-> "none"]
  /\ failures = 0 /\ resolved = {} /\ told = [s \in Ids |-> "none"]

-----------------------------------------------------------------------------
(* The world around the shell.                                             *)

SetPolicy(p) ==
  /\ version < MaxVersion
  /\ policy' = p
  /\ version' = version + 1
  /\ UNCHANGED <<skills, clock, session, desk, settling, history>>

(* A pause or a resume, which need not give a policy a new version.        *)
SetPause ==
  /\ policy # NoPolicy
  /\ \E p \in Policies :
       /\ Terms[p] = [Terms[policy] EXCEPT !.paused = ~@]
       /\ policy' = p
  /\ UNCHANGED <<skills, version, clock, session, desk, settling, history>>

Tick ==
  /\ clock < MaxTime
  /\ clock' = clock + 1
  /\ UNCHANGED <<skills, policy, version, session, desk, settling, history>>

(* What may be delivered: a text, an answer to an offer that was shown, or *)
(* again what was delivered before.  A message that is late is one whose   *)
(* first delivery comes late: nothing but its content counts.              *)
Messages ==
  {m \in TextMessage : <<m.from, m.kind>> \in Sends /\ m.text \in Typed}
  \cup {[from |-> x[1], kind |-> x[2], id |-> offers[s].id, about |-> s] :
         x \in {y \in Sends : y[2] # "text"}, s \in Serials}
  \cup sent

(* Sessions, dedupe keys, the desk's cache and its counter are in memory.  *)
Restart ==
  /\ restarts < MaxRestarts
  /\ restarts' = restarts + 1
  /\ seen' = <<>> /\ thinking' = {} /\ quoting' = {} /\ seq' = 0
  /\ cache' = [i \in Ids |-> NoOffer] /\ pending' = {} /\ settling' = {}
  /\ UNCHANGED <<limits, sent, delivered, offers, decision, outcome,
                 trades>>

-----------------------------------------------------------------------------
(* handleInbound, up to its first await.                                   *)

(* markSeen of a new key: the oldest keys beyond the bound are forgotten.  *)
Trim(keys) == IF Len(keys) > MaxDedupeKeys THEN Tail(keys) ELSE keys

MarkSeen(k) ==
  /\ delivered < MaxDeliveries
  /\ Cardinality(sent \cup {k}) <= MaxMessages
  /\ sent' = sent \cup {k}
  /\ delivered' = delivered + 1
  /\ seen' = Trim(Append(seen, k))

IsNew(k) == \A i \in DOMAIN seen : seen[i] # k

mutFromOwner(m) == TRUE
FromOwner(m) == m.from = "owner"

(* The desk reads the active policy, then the order, then asks for a quote *)
MayQuote(t) == policy # NoPolicy /\ Resolvable(t)

StartQuote(t, kept) ==
  /\ MayQuote(t)
  /\ quoting' = quoting \cup
       {[text |-> t, policy |-> policy, version |-> version, kept |-> kept]}

ReceiveOrder(k) ==
  /\ IsNew(k) /\ k.kind = "text" /\ FromOwner(k)
  /\ swapIntentMatches(k.text)
  /\ MarkSeen(k)
  /\ StartQuote(k.text, TRUE)
  /\ UNCHANGED <<limits, thinking, pending, seq, cache, settling, history>>

(* An answer that names no pending proposal is a message like any other.   *)
Unanswerable(k) == k.kind \in {"approve", "reject"} /\ k.id \notin pending

(* A message that no skill matches goes to the brain.                      *)
ReceiveChat(k) ==
  /\ IsNew(k) /\ FromOwner(k)
  /\ \/ /\ k.kind = "text" /\ ~swapIntentMatches(k.text)
        /\ thinking' = thinking \cup {k.text}
     \/ /\ Unanswerable(k) /\ "approval" \notin skills
        /\ thinking' = thinking \cup {AnswerText}
  /\ MarkSeen(k)
  /\ UNCHANGED <<limits, pending, desk, settling, history>>

(* A stranger is refused; an order without a policy, or one that does not  *)
(* resolve, is replied to, and so is an answer that no proposal is pending *)
(* for, where approvalSkill takes it.                                      *)
ReceiveAndRefuse(k) ==
  /\ IsNew(k)
  /\ \/ ~FromOwner(k)
     \/ k.kind = "text" /\ swapIntentMatches(k.text) /\ ~MayQuote(k.text)
     \/ Unanswerable(k) /\ "approval" \in skills
  /\ MarkSeen(k)
  /\ UNCHANGED <<limits, thinking, pending, desk, settling, history>>

mutForget(id) == UNCHANGED pending
Forget(id) == pending' = pending \ {id}

(* resolveApproval of a pending id, when it is rejected.                   *)
Reject(id) ==
  /\ id \in pending
  /\ Forget(id)
  /\ decision' = [decision EXCEPT ![cache[id]] = "rejected"]
  /\ UNCHANGED <<limits, desk, settling, offers, outcome, trades, restarts>>

(* execute's conditions on the cached swap, read at the approval.          *)
mutMaySettle(s) ==
  /\ s # NoOffer
  /\ clock < offers[s].expiresAt
  /\ policy # NoPolicy
  /\ Gate(policy, offers[s].text, offers[s].price)
MaySettle(s) ==
  /\ s # NoOffer
  /\ clock < offers[s].expiresAt
  /\ policy # NoPolicy
  /\ offers[s].version = version
  /\ Gate(policy, offers[s].text, offers[s].price)

(* The call of settle: the quote as it was cached, and its least output.   *)
SettleCall(s) ==
  [offer |-> s, policy |-> policy, version |-> version, at |-> clock,
   minOut |-> MinOut(offers[s].text, offers[s].price)]

(* The messages sent one after the other, the next only where the send of  *)
(* the one before it failed; no handler is left for the last.              *)
Send(s, lines) ==
  \E lost \in 0..Len(lines) :
    /\ failures + lost <= MaxFailures
    /\ failures' = failures + lost
    /\ told' = IF lost = Len(lines) THEN told
               ELSE [told EXCEPT ![s] = lines[lost + 1]]

(* execute() returned a line: .then sends it, and .catch, if that throws,  *)
(* that the proposal failed safely and nothing was executed.               *)
Returned(s, line) ==
  /\ resolved' = resolved \cup {s}
  /\ Send(s, <<line, "failed">>)

(* resolveApproval and execute, up to `await settle`.                      *)
Approve(id) ==
  LET s == cache[id] IN
  /\ id \in pending
  /\ Forget(id)
  /\ cache' = [cache EXCEPT ![id] = NoOffer]
  /\ decision' = [decision EXCEPT ![s] = "approved"]
  /\ \/ /\ MaySettle(s)
        /\ settling' = settling \cup {s}
        /\ trades' = Append(trades, SettleCall(s))
        /\ UNCHANGED outcome
     \/ /\ ~MaySettle(s)
        /\ Returned(s, "refused")
        /\ UNCHANGED <<settling, trades>>
  /\ UNCHANGED <<limits, quoting, seq, offers, restarts>>

(* The owner's own word on a pending proposal.                             *)
ReceiveAnswer(k) ==
  /\ IsNew(k) /\ FromOwner(k)
  /\ \/ k.kind = "approve" /\ Approve(k.id)
     \/ k.kind = "reject" /\ Reject(k.id)
  /\ MarkSeen(k)
  /\ UNCHANGED thinking

-----------------------------------------------------------------------------
(* Continuations.                                                          *)

(* What extractAction finds in a reply, or in none: a registered skill,    *)
(* and a text for it or nothing.  The skills that only reply, or pause     *)
(* (SetPause), come to BrainTalks.                                         *)
NoArgs == "no args"
extractAction ==
  [skill : skills \cap {"swap"}, args : Texts \cup {NoArgs}]
  \cup [skill : skills \cap {"approval"}, kind : {"approve", "reject"}, id : Ids]

(* Of no text the skill is given the owner's own.  The proposal that comes *)
(* of it is not kept in the session.                                       *)
BrainSuggestsSwap(t, action) ==
  /\ action.skill = "swap"
  /\ thinking' = thinking \ {t}
  /\ StartQuote(IF action.args = NoArgs THEN t ELSE action.args, FALSE)
  /\ UNCHANGED <<limits, sent, delivered, seen, pending, seq, cache, settling,
                 history>>

(* approvalSkill's handler resolves the id in the brain's own text.        *)
BrainDecides(t, action) ==
  /\ action.skill = "approval"
  /\ thinking' = thinking \ {t}
  /\ \/ action.kind = "approve" /\ Approve(action.id)
     \/ action.kind = "reject" /\ Reject(action.id)
  /\ UNCHANGED <<sent, delivered, seen>>

(* The brain only talks or fails, or the desk turns its suggestion down.   *)
BrainTalks(t) ==
  /\ thinking' = thinking \ {t}
  /\ UNCHANGED <<limits, sent, delivered, seen, pending, desk, settling,
                 history>>

mutNextSeq == 1
NextSeq == seq + 1

QuoteArrives(q, price) ==
  LET s == Len(offers) + 1 IN
  /\ Quotable(q.text, price)
  /\ Gate(q.policy, q.text, price)
  /\ s \in Ids
  /\ quoting' = quoting \ {q}
  /\ seq' = NextSeq
  /\ cache' = [cache EXCEPT ![seq'] = s]
  /\ offers' = Append(offers,
       [id |-> seq', text |-> q.text, price |-> price, version |-> q.version,
        expiresAt |-> clock + QuoteLife, kept |-> q.kept])
  /\ pending' = IF q.kept THEN pending \cup {seq'} ELSE pending
  /\ UNCHANGED <<limits, sent, delivered, seen, thinking, settling, decision,
                 outcome, trades, restarts>>

(* No quote, a HOLD, or a violation of the policy read before the quote.   *)
QuoteRefused(q) ==
  /\ quoting' = quoting \ {q}
  /\ UNCHANGED <<limits, session, seq, cache, settling, history>>

(* The settlement's promise: its receipt, or an error, whatever it did.    *)
mutSilentFailure(s, returns) ==
  /\ settling' = settling \ {s}
  /\ IF returns THEN Returned(s, "receipt") ELSE UNCHANGED outcome
  /\ UNCHANGED <<limits, session, desk, offers, decision, trades, restarts>>
mutSettlesAgain(s, returns) ==
  /\ Len(trades) < 3
  /\ trades' = IF returns THEN trades ELSE Append(trades, trades[1])
  /\ UNCHANGED <<limits, session, desk, settling, offers, decision, outcome,
                 restarts>>
SettleEnds(s, returns) ==
  /\ settling' = settling \ {s}
  /\ \/ returns /\ Returned(s, "receipt")
     \/ ~returns /\ Send(s, <<"failed">>) /\ UNCHANGED resolved
  /\ UNCHANGED <<limits, session, desk, offers, decision, trades, restarts>>

-----------------------------------------------------------------------------
Receive == \E k \in Messages :
  \/ ReceiveOrder(k) \/ ReceiveChat(k) \/ ReceiveAndRefuse(k) \/ ReceiveAnswer(k)

Brain == \E t \in thinking :
  \/ \E action \in extractAction :
       BrainSuggestsSwap(t, action) \/ BrainDecides(t, action)
  \/ BrainTalks(t)

Quote == \E q \in quoting : \/ \E price \in Prices : QuoteArrives(q, price)
                          \/ QuoteRefused(q)

Settle == \E s \in settling, returns \in BOOLEAN : SettleEnds(s, returns)

Next ==
  \/ \E p \in Policies \cup {NoPolicy} : SetPolicy(p)
  \/ SetPause \/ Tick \/ Restart
  \/ Receive \/ Brain \/ Quote \/ Settle

Spec == Init /\ [][Next]_vars

(* The settlement answers, one way or the other.                           *)
FairSpec == Spec /\ WF_vars(Settle)

-----------------------------------------------------------------------------
Offer == [id : Ids, text : Texts, price : Prices, version : 1..MaxVersion,
          expiresAt : 0..(MaxTime + QuoteLife), kept : BOOLEAN]

(* Every variable has its type; the dedupe keys never exceed their bound.  *)
TypeOK ==
  /\ skills \in {{"swap"}, {"swap", "approval"}}
  /\ policy \in Policies \cup {NoPolicy}
  /\ version \in 1..MaxVersion /\ clock \in 0..MaxTime
  /\ sent \subseteq TextMessage \cup Answer
  /\ delivered \in 0..MaxDeliveries
  /\ seen \in Seq(sent) /\ Len(seen) <= MaxDedupeKeys
  /\ thinking \subseteq Texts
  /\ \A q \in quoting : q.text \in Texts /\ q.policy \in Policies
  /\ seq \in 0..MaxOffers
  /\ cache \in [Ids -> Ids \cup {NoOffer}] /\ pending \subseteq Ids
  /\ settling \subseteq Serials
  /\ offers \in Seq(Offer) /\ Len(offers) <= MaxOffers
  /\ decision \in [Ids -> {"none", "approved", "rejected"}]
  /\ failures \in 0..MaxFailures /\ resolved \subseteq Ids
  /\ told \in [Ids -> {"none", "refused", "receipt", "failed"}]
  /\ restarts \in 0..MaxRestarts

(* However often and in whatever order messages are delivered, a proposal  *)
(* is given to the settlement at most once (pending.delete, cache.delete). *)
SettledAtMostOnce ==
  \A i, j \in DOMAIN trades : trades[i].offer = trades[j].offer => i = j

(* While the process lives, only the owner's APPROVE of that very proposal *)
(* settles it, and only if the owner was shown it as a pending one: "Money *)
(* moves only through APPROVE <id>" (shell.ts:9).  With approvalSkill      *)
(* registered, a reply of the brain may approve it, too, but nothing else, *)
(* and no proposal that the owner was not shown.                           *)
OwnerApprovedThisOffer ==
  restarts = 0 =>
    \A i \in DOMAIN trades :
      /\ offers[trades[i].offer].kept
      /\ \/ "approval" \in skills
         \/ \E k \in sent :
              /\ k.from = "owner" /\ k.kind = "approve"
              /\ k.about = trades[i].offer

(* A swap settles under the policy version its proposal named, within the  *)
(* limits and the pause of the policy in force at that moment, before its  *)
(* quote expires, and for no less than that policy's slippage allows;      *)
(* whatever changed while it was quoted or pending.                        *)
SettledWithinLiveLimits ==
  \A i \in DOMAIN trades :
    LET t == trades[i]
        o == offers[t.offer] IN
    /\ o.version = t.version
    /\ checkAction(Terms[t.policy], Shape(o.text, o.price))
    /\ t.at < o.expiresAt
    /\ t.minOut >= minReceivedAfterSlippage(o.price.quotedOut,
                       Terms[t.policy].cap["maxSlippageBps"])

(* The first decision on a proposal stands: a late or repeated message     *)
(* never turns a rejection into a trade, nor the other way round.          *)
DecisionIsFinal ==
  [][\A s \in Ids : decision[s] # "none" => decision'[s] = decision[s]]_vars

(* A proposal that told its owner to reply APPROVE <id>, and that no       *)
(* restart forgot, is answerable under that id until it is decided.        *)
OfferStaysAnswerable ==
  restarts = 0 =>
    \A s \in Serials :
      offers[s].kept /\ decision[s] = "none" =>
        offers[s].id \in pending /\ cache[offers[s].id] = s

(* The owner of an approved proposal hears what became of it, unless the   *)
(* process restarts while the settlement is awaited or as many sends fail  *)
(* as the shell makes: two once execute has returned a line, one where it  *)
(* threw (shell.ts:101-106).  As no decision and no answer is undone, each *)
(* is answered if time and again none is owed an answer.                   *)
Owed ==
  {s \in Ids : /\ decision[s] = "approved" /\ told[s] = "none"
              /\ restarts = 0
              /\ failures < (IF s \in resolved THEN 2 ELSE 1)}
ApprovalIsAnswered == []<>(Owed = {})

-----------------------------------------------------------------------------
(* What a reply says, and the code does not keep.                          *)

(* An owner who reads that a proposal failed safely and that nothing was   *)
(* executed (shell.ts:105) is told so of no settlement that returned its   *)
(* receipt.                                                                *)
FailedMeansNotSettled ==
  \A i \in DOMAIN trades :
    told[trades[i].offer] = "failed" => trades[i].offer \notin resolved

=============================================================================
