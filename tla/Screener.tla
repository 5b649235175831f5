------------------------------ MODULE Screener ------------------------------
(***************************************************************************)
(* The token screen: the parameters that the chat skill reads in a text    *)
(* (services/chat/src/skillsScreener.ts) and the filter, the flags and the *)
(* ranking of screenTokens (packages/screener/src/screen.ts).  Pure        *)
(* operators.                                                              *)
(*                                                                         *)
(* What a text or a token need not have is a sequence of at most one       *)
(* element.  A symbol is its place in the order of localeCompare; a deploy *)
(* time that is not known is one of the future, an unknown number of       *)
(* holders is negative.                                                    *)
(***************************************************************************)
EXTENDS Integers, SequencesExt

CONSTANTS UsdcAtomic,   (* atomic units in one USDC: 1_000_000             *)
          DaySeconds    (* 24 * 3600                                       *)

ASSUME ScreenAssumption == UsdcAtomic \in Nat \ {0} /\ DaySeconds \in Nat

Optional(S) == {<<>>} \cup {<<s>> : s \in S}

SortKeys == {"volume", "liquidity", "fees", "newest"}

Token == [address : STRING, wellFormed : BOOLEAN, symbol : Nat,
          deferred : BOOLEAN,          (* isFeeOnTransfer or isRebasing    *)
          isCreatorLocked : BOOLEAN, deployedAt : Nat]

Metrics == [liquidity : Nat, volume : Nat, fees : Nat, holders : Int,
            dataAge : Int]

Params == [minAge : Optional(Nat), maxAge : Optional(Nat),
           minLiquidity : Int, minVolume : Int, minHolders : Nat,
           maxDataAge : Nat, sortBy : SortKeys, topN : Int]

-----------------------------------------------------------------------------
(* What the patterns of the skill find in a text.  A figure is its digits  *)
(* over the power of ten that its decimals divide by; an amount of money   *)
(* has a multiple (k, m, b) and an age a unit, in days over a number (an   *)
(* hour is a 24th of a day).                                               *)
Figure == [digits : Nat, scale : Nat \ {0}]
Money  == [figure : Figure, multiple : Nat]
Age    == [figure : Figure, days : Nat, over : Nat \ {0}]

Request == [liquidity : Optional(Money), volume : Optional(Money),
            holders : Optional(Nat), older : Optional(Age),
            younger : Optional(Age), sorted : SUBSET SortKeys,
            top : Optional(Nat)]

(* BigInt(Math.floor(num * mult)) * USDC_ATOMIC: cents are dropped.        *)
parseMoneyToAtomic(m) ==
  ((m.figure.digits * m.multiple) \div m.figure.scale) * UsdcAtomic

parseDays(a) ==
  (a.figure.digits * a.days * DaySeconds) \div (a.over * a.figure.scale)

Apply(f(_), found) == [i \in DOMAIN found |-> f(found[i])]

(* Math.min(20, Math.max(1, n)).                                           *)
Clamped(n) == IF n < 1 THEN 1 ELSE IF n > 20 THEN 20 ELSE n

SCREEN_DEFAULTS ==
  [minLiquidity |-> 10 * UsdcAtomic, minVolume |-> 0, minHolders |-> 0,
   maxDataAge |-> 300, sortBy |-> "volume", topN |-> 5]

(* The first of the ways to sort that are looked for in this order.        *)
SortWish(found) ==
  Head(Append(SelectSeq(<<"liquidity", "newest", "fees">>,
                        LAMBDA key : key \in found),
              SCREEN_DEFAULTS.sortBy))

(* The defaults fill what the text leaves open.                            *)
parseScreenParams(x) ==
  [minAge       |-> Apply(parseDays, x.older),
   maxAge       |-> Apply(parseDays, x.younger),
   minLiquidity |-> Head(Append(Apply(parseMoneyToAtomic, x.liquidity),
                                SCREEN_DEFAULTS.minLiquidity)),
   minVolume    |-> Head(Append(Apply(parseMoneyToAtomic, x.volume),
                                SCREEN_DEFAULTS.minVolume)),
   minHolders   |-> Head(Append(x.holders, SCREEN_DEFAULTS.minHolders)),
   maxDataAge   |-> SCREEN_DEFAULTS.maxDataAge,
   sortBy       |-> SortWish(x.sorted),
   topN         |-> Head(Append(Apply(Clamped, x.top), SCREEN_DEFAULTS.topN))]

-----------------------------------------------------------------------------
(* screenTokens, for a sequence of tokens and the metrics observed of some *)
(* addresses.  It throws on other parameters.                              *)
Accepted(p) ==
  /\ p.topN > 0 /\ p.topN <= 50
  /\ p.minLiquidity >= 0 /\ p.minVolume >= 0

Reasons == <<"invalid token address", "deferred token mechanics",
             "creator-locked liquidity", "unknown or future deploy time",
             "younger than min age", "older than max age",
             "no metrics observed", "stale metrics", "below min liquidity",
             "below min volume", "below min holders">>

(* Every reason there is against a token; the code gives the first.        *)
Objections(t, metrics, p, now) ==
  LET age == now - t.deployedAt
      Seen(Bad(_)) == t.address \in DOMAIN metrics /\ Bad(metrics[t.address])
      Stale(m) == m.dataAge < 0 \/ m.dataAge > p.maxDataAge
      Shallow(m) == m.liquidity < p.minLiquidity
      Quiet(m) == m.volume < p.minVolume
      FewHolders(m) == m.holders < p.minHolders
  IN {i \in DOMAIN Reasons :
        \/ i = 1  /\ ~t.wellFormed
        \/ i = 2  /\ t.deferred
        \/ i = 3  /\ t.isCreatorLocked
        \/ i = 4  /\ age < 0
        \/ i = 5  /\ \E k \in DOMAIN p.minAge : age < p.minAge[k]
        \/ i = 6  /\ \E k \in DOMAIN p.maxAge : age > p.maxAge[k]
        \/ i = 7  /\ t.address \notin DOMAIN metrics
        \/ i = 8  /\ Seen(Stale)
        \/ i = 9  /\ Seen(Shallow)
        \/ i = 10 /\ Seen(Quiet)
        \/ i = 11 /\ Seen(FewHolders)}

Survivors(tokens, metrics, p, now) ==
  {i \in DOMAIN tokens : Objections(tokens[i], metrics, p, now) = {}}

Excluded(tokens, metrics, p, now) ==
  [i \in (DOMAIN tokens) \ Survivors(tokens, metrics, p, now) |->
     Reasons[Min(Objections(tokens[i], metrics, p, now))]]

RiskFlags(age, m) ==
  {flag \in {"launched-under-24h", "few-holders", "volume-dwarfs-liquidity",
             "no-depth"} :
     \/ flag = "launched-under-24h" /\ age < DaySeconds
     \/ flag = "few-holders" /\ m.holders < 50
     \/ flag = "volume-dwarfs-liquidity"
          /\ m.volume > 0 /\ m.liquidity > 0 /\ m.volume > m.liquidity * 10
     \/ flag = "no-depth" /\ m.liquidity <= 0}

sortValue(t, m, key) ==
  CASE key = "volume"    -> m.volume
    [] key = "liquidity" -> m.liquidity
    [] key = "fees"      -> m.fees
    [] key = "newest"    -> t.deployedAt

(* The comparison of the sort, which is stable: the highest value first,   *)
(* then by symbol, then in the order of the universe.                      *)
RanksBefore(tokens, metrics, p, i, j) ==
  LET Value(k) == sortValue(tokens[k], metrics[tokens[k].address], p.sortBy) IN
  \/ Value(i) > Value(j)
  \/ /\ Value(i) = Value(j)
     /\ \/ tokens[i].symbol < tokens[j].symbol
        \/ tokens[i].symbol = tokens[j].symbol /\ i < j

(* The rows of the answer: the place of each token, and its flags.         *)
screenTokens(tokens, metrics, p, now) ==
  LET kept == Survivors(tokens, metrics, p, now)
      ranked == SetToSortSeq(kept, LAMBDA i, j :
                               RanksBefore(tokens, metrics, p, i, j))
  IN [r \in 1..Min({p.topN, Cardinality(kept)}) |->
        [place |-> ranked[r],
         flags |-> RiskFlags(now - tokens[ranked[r]].deployedAt,
                             metrics[tokens[ranked[r]].address])]]

-----------------------------------------------------------------------------
(* The rows are what a reader of the reply takes them for: distinct tokens *)
(* that no filter objects to, each ranked before the next, and no token    *)
(* that was left out for want of room ranks before one that is shown.      *)
ShowsTheBest(tokens, metrics, p, now) ==
  LET rows == screenTokens(tokens, metrics, p, now)
      Shown == {rows[r].place : r \in DOMAIN rows}
      kept == Survivors(tokens, metrics, p, now)
      Before(i, j) == RanksBefore(tokens, metrics, p, i, j) IN
  /\ Shown \subseteq kept
  /\ \A r, s \in DOMAIN rows : r < s => Before(rows[r].place, rows[s].place)
  /\ \A i \in kept \ Shown :
       Len(rows) = p.topN /\ \A j \in Shown : Before(j, i)

(* q asks for no less than p in every filter.                              *)
Stricter(q, p) ==
  /\ \A k \in DOMAIN p.minAge : \E l \in DOMAIN q.minAge : q.minAge[l] >= p.minAge[k]
  /\ \A k \in DOMAIN p.maxAge : \E l \in DOMAIN q.maxAge : q.maxAge[l] <= p.maxAge[k]
  /\ q.minLiquidity >= p.minLiquidity /\ q.minVolume >= p.minVolume
  /\ q.minHolders >= p.minHolders /\ q.maxDataAge <= p.maxDataAge

=============================================================================
