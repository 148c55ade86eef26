------------------------- MODULE PledgePool_proofs -------------------------
(***************************************************************************)
(* Proofs about PledgePool for every number of pledgers, tokens, amounts   *)
(* and deposits: the types, Backed, DepositLocked and, as action           *)
(* properties, that nobody but the pledger lowers a main-token balance and *)
(* that the pool stays solvent unless a withdrawal is torn.                *)
(***************************************************************************)
EXTENDS PledgePool, ErcOps_proofs, Sums_proofs

\* Arithmetic of shares: products and quotients of the settlement.
LEMMA MulMono == \A a, b \in Int, s \in Nat : a <= b => a * s <= b * s
  BY SMT
\* Products of what is not negative.
LEMMA MulNat == \A a \in Nat, s \in Nat : a * s \in Nat
  BY SMT
\* Division by the size of the pool keeps the order of amounts,
LEMMA DivMono ==
    \A a, b \in Nat, p \in Nat \ {0} : a <= b => a \div p <= b \div p
  BY SMT
\* gives a whole number
LEMMA DivNat == \A a \in Nat, p \in Nat \ {0} : a \div p \in Nat
  BY SMT

\* and rounds down.
LEMMA DivMul == \A a \in Nat, p \in Nat \ {0} : (a \div p) * p <= a
  BY SMT

\* Settling a token never lowers its accumulator.
LEMMA SettledAccumType ==
    ASSUME TypeOK, NEW t \in TokenIx
    PROVE  /\ SettledAccum(t) \in Int
           /\ SettledAccum(t) >= tInfo[t].rewardAccum
           /\ PoolBalance(t) \in Int
           /\ Arrived(t) \in Int
           /\ Arrived(t) <= 0 => SettledAccum(t) = tInfo[t].rewardAccum
           /\ totalPledge <= 0 => SettledAccum(t) = tInfo[t].rewardAccum
  <1>1. /\ tInfo[t] \in RewardInfo
        /\ erc[t] \in Ledger
        /\ totalPledge \in Int
    BY DEF TypeOK
  <1>2. PoolBalance(t) \in Int
    BY <1>1, AddressAssumption DEF PoolBalance, BalanceOf, Ledger
  <1>3. Arrived(t) \in Int
    BY <1>1, <1>2 DEF Arrived, RewardInfo
  <1>4. Arrived(t) > 0 /\ totalPledge > 0
           => Arrived(t) \div totalPledge \in Nat
    BY <1>1, <1>3, DivNat
  <1> QED
    BY <1>1, <1>2, <1>3, <1>4 DEF SettledAccum, RewardInfo

\* Entries, stakes and balances are integers; a balance is at least the entry.
LEMMA BalanceType ==
    ASSUME TypeOK, Backed, NEW i \in User, NEW t \in TokenIx
    PROVE  /\ amount[i][t] \in RewardInfo
           /\ amount[i][0].lastReward \in Nat
           /\ Stake(i) = amount[i][0].lastReward
           /\ (SettledAccum(t) - amount[i][t].rewardAccum) * Stake(i) \in Nat
           /\ Balance(i, t) = amount[i][t].lastReward
                + (SettledAccum(t) - amount[i][t].rewardAccum) * Stake(i)
           /\ Balance(i, t) \in Int
           /\ Balance(i, t) >= amount[i][t].lastReward
  <1>1. 0 \in TokenIx
    BY AmountAssumption DEF TokenIx
  <1>2. /\ amount[i][t] \in RewardInfo
        /\ amount[i][0] \in RewardInfo
    BY <1>1 DEF TypeOK
  <1>3. amount[i][0].lastReward \in Nat
    BY <1>1, <1>2 DEF Backed, RewardInfo
  <1>4. tInfo[t] \in RewardInfo
    BY DEF TypeOK
  <1>5. amount[i][t].rewardAccum <= tInfo[t].rewardAccum
    BY DEF Backed
  <1>6. SettledAccum(t) - amount[i][t].rewardAccum \in Nat
    BY <1>2, <1>4, <1>5, SettledAccumType DEF RewardInfo
  <1>7. (SettledAccum(t) - amount[i][t].rewardAccum) * Stake(i) \in Nat
    BY <1>3, <1>6, MulNat DEF Stake
  <1> QED
    BY <1>2, <1>3, <1>7 DEF Balance, SettledReward, Stake, RewardInfo

\* The main token is registered from the start.
LEMMA MainToken ==
    ASSUME TypeOK
    PROVE  0 \in TokenIx /\ 0 \in Tokens /\ Tokens \subseteq TokenIx
  BY AmountAssumption DEF TypeOK, TokenIx, Tokens

\* A call that leaves the pool's books of the main token alone, and its
\* balance at least as large, lowers no main-token balance.
LEMMA QuietStep ==
    ASSUME TypeOK, TypeOK', Backed, NEW i \in User,
           tInfo'[0] = tInfo[0], amount' = amount, totalPledge' = totalPledge,
           PoolBalance(0)' >= PoolBalance(0)
    PROVE  Balance(i, 0)' >= Balance(i, 0)
  <1>1. 0 \in TokenIx
    BY MainToken
  <1>2. /\ tInfo[0] \in RewardInfo
        /\ PoolBalance(0) \in Int /\ Arrived(0) \in Int
        /\ SettledAccum(0) \in Int
        /\ totalPledge \in Int
    BY <1>1, SettledAccumType DEF TypeOK
  <1>3. erc'[0] \in Ledger
    BY <1>1 DEF TypeOK
  <1>4. PoolBalance(0)' \in Int
    BY <1>3, AddressAssumption DEF PoolBalance, BalanceOf, Ledger
  <1>5. Arrived(0)' \in Int /\ Arrived(0)' >= Arrived(0)
    BY <1>2, <1>4 DEF Arrived, RewardInfo
  <1>6. Arrived(0) > 0 /\ totalPledge > 0
           => /\ Arrived(0) \div totalPledge \in Nat
              /\ Arrived(0)' \div totalPledge \in Nat
              /\ Arrived(0) \div totalPledge <= Arrived(0)' \div totalPledge
    BY <1>2, <1>5, DivNat, DivMono
  <1>7. Arrived(0)' > 0 /\ totalPledge > 0
           => Arrived(0)' \div totalPledge \in Nat
    BY <1>2, <1>5, DivNat
  <1>8. SettledAccum(0)' \in Int /\ SettledAccum(0) <= SettledAccum(0)'
    BY <1>2, <1>5, <1>6, <1>7 DEF SettledAccum, RewardInfo
  <1> DEFINE acc == amount[i][0].rewardAccum
             rew == amount[i][0].lastReward
  <1>9. acc \in Int /\ rew \in Nat
        /\ Balance(i, 0) = rew + (SettledAccum(0) - acc) * rew
    BY <1>1, BalanceType DEF RewardInfo
  <1>10. Balance(i, 0)' = rew + (SettledAccum(0)' - acc) * rew
    BY <1>1 DEF Balance, SettledReward, Stake
  <1> HIDE DEF acc, rew
  <1>11. (SettledAccum(0) - acc) * rew <= (SettledAccum(0)' - acc) * rew
    <2>1. /\ SettledAccum(0) - acc \in Int
          /\ SettledAccum(0)' - acc \in Int
          /\ SettledAccum(0) - acc <= SettledAccum(0)' - acc
      BY <1>2, <1>8, <1>9
    <2> QED
      BY <2>1, <1>9, MulMono
  <1>12. /\ (SettledAccum(0) - acc) * rew \in Int
         /\ (SettledAccum(0)' - acc) * rew \in Int
    BY <1>2, <1>8, <1>9
  <1> QED
    BY <1>9, <1>10, <1>11, <1>12

\* What the books owe pledger i of token t: its balance if the token had been
\* settled when its books were last written.
Book(i, t) == amount[i][t].lastReward
                + (tInfo[t].rewardAccum - amount[i][t].rewardAccum) * Stake(i)

\* A call of pledger j raises the accumulator of token t by d and the last seen
\* balance by at least d for every main token staked and e besides; no more
\* than that is added to what j is owed.
TokenBooks(j, t, d, e) ==
    /\ tInfo'[t].rewardAccum = tInfo[t].rewardAccum + d
    /\ tInfo'[t].lastReward >= tInfo[t].lastReward + d * totalPledge + e
    /\ Book(j, t)' <= Book(j, t) + d * Stake(j) + e

\* What pledges and withdrawals of j have in common.
BooksStep(j) ==
    /\ token' = token
    /\ entries' \subseteq entries \cup ({j} \X Tokens)
    /\ \A t \in TokenIx \ Tokens : PoolBalance(t)' >= PoolBalance(t)
    /\ \A i \in User \ {j} : amount'[i] = amount[i]
    /\ ~torn' => ~torn /\ totalPledge' = totalPledge + (Stake(j)' - Stake(j))
    /\ \A t \in Tokens : \E d \in Nat, e \in Int : TokenBooks(j, t, d, e)

\* What the other calls but RegisterToken have in common: they leave the books
\* alone and take nothing from the pool.
QuietBooks ==
    /\ UNCHANGED <<token, totalPledge, tInfo, amount, entries, torn>>
    /\ \A t \in TokenIx : PoolBalance(t)' >= PoolBalance(t)

\* A settlement shares out at most what has arrived.
LEMMA ShareWithin ==
    ASSUME TypeOK, Backed, NEW t \in Tokens
    PROVE  \E d \in Nat : /\ SettledAccum(t) = tInfo[t].rewardAccum + d
                          /\ d * totalPledge <= Arrived(t)
  <1>1. t \in TokenIx
    BY MainToken
  <1>2. /\ tInfo[t] \in RewardInfo /\ totalPledge \in Int
        /\ Arrived(t) \in Int /\ PoolBalance(t) \in Int
    BY <1>1, SettledAccumType DEF TypeOK
  <1>3. Arrived(t) \in Nat
    BY <1>2 DEF Backed, Arrived, RewardInfo
  <1>4. CASE Arrived(t) > 0 /\ totalPledge > 0
    <2> DEFINE d == Arrived(t) \div totalPledge
    <2>1. d \in Nat /\ d * totalPledge <= Arrived(t)
      BY <1>2, <1>3, <1>4, DivNat, DivMul
    <2>2. SettledAccum(t) = tInfo[t].rewardAccum + d
      BY <1>4 DEF SettledAccum
    <2> QED
      BY <2>1, <2>2
  <1>5. CASE ~(Arrived(t) > 0 /\ totalPledge > 0)
    <2>1. SettledAccum(t) = tInfo[t].rewardAccum + 0
      BY <1>2, <1>5 DEF SettledAccum, RewardInfo
    <2>2. 0 \in Nat /\ 0 * totalPledge <= Arrived(t)
      BY <1>2, <1>3
    <2> QED
      BY <2>1, <2>2
  <1> QED
    BY <1>4, <1>5

\* The entry a pledge starts from: a new one holds nothing.
LEMMA PledgeEntryType ==
    ASSUME TypeOK, Backed, NEW i \in User, NEW t \in TokenIx
    PROVE  /\ PledgeEntry(i, t) \in RewardInfo
           /\ PledgeEntry(i, t).lastReward = amount[i][t].lastReward
           /\ amount[i][t].lastReward \in Nat
           /\ PledgeEntry(i, t).rewardAccum <= SettledAccum(t)
           /\ (SettledAccum(t) - PledgeEntry(i, t).rewardAccum) * Stake(i)
                 \in Nat
           /\ t = 0 => (SettledAccum(t) - PledgeEntry(i, t).rewardAccum)
                           * Stake(i)
                      = (SettledAccum(t) - amount[i][t].rewardAccum) * Stake(i)
  <1>1. tInfo[t] \in RewardInfo /\ amount[i][t] \in RewardInfo
    BY DEF TypeOK
  <1>2. /\ SettledAccum(t) \in Int
        /\ SettledAccum(t) >= tInfo[t].rewardAccum
    BY SettledAccumType
  <1>3. /\ amount[i][t].rewardAccum <= tInfo[t].rewardAccum
        /\ amount[i][t].lastReward >= 0
        /\ <<i, t>> \notin entries => amount[i][t] = NoReward
    BY DEF Backed
  <1>4. /\ PledgeEntry(i, t) \in RewardInfo
        /\ PledgeEntry(i, t).lastReward = amount[i][t].lastReward
        /\ PledgeEntry(i, t).rewardAccum <= SettledAccum(t)
    BY <1>1, <1>2, <1>3 DEF PledgeEntry, RewardInfo, NoReward
  <1>5. Stake(i) \in Nat
    BY BalanceType
  <1>6. SettledAccum(t) - PledgeEntry(i, t).rewardAccum \in Nat
    BY <1>2, <1>4 DEF RewardInfo
  <1>7. (SettledAccum(t) - PledgeEntry(i, t).rewardAccum) * Stake(i) \in Nat
    BY <1>5, <1>6, MulNat
  <1>8. ASSUME t = 0
        PROVE  (SettledAccum(t) - PledgeEntry(i, t).rewardAccum) * Stake(i)
                 = (SettledAccum(t) - amount[i][t].rewardAccum) * Stake(i)
    <2>1. CASE <<i, t>> \in entries
      BY <2>1 DEF PledgeEntry
    <2>2. CASE <<i, t>> \notin entries
      <3>1. Stake(i) = 0
        BY <1>3, <1>8, <2>2 DEF Stake, NoReward
      <3> QED
        BY <1>1, <1>2, <1>4, <3>1 DEF RewardInfo
    <2> QED
      BY <2>1, <2>2
  <1> QED
    BY <1>1, <1>3, <1>4, <1>7, <1>8 DEF RewardInfo

\* A pledge, failed or not, keeps the types and Backed, and lowers no balance.
LEMMA PledgeStep ==
    ASSUME TypeOK, Backed, NEW j \in User, NEW from \in Address \ {Pool},
           NEW v \in Nat, NEW led \in Ledger, led.money = erc[0].money,
           PoolPledge(j, from, v, led)
    PROVE  /\ TypeOK' /\ Backed'
           /\ \A i \in User : Balance(i, 0)' >= Balance(i, 0)
           /\ BooksStep(j)
  <1> DEFINE paid     == ErcCanTransferFrom(led, Pool, from, v)
             added    == IF paid THEN v ELSE 0
             share(t) == (SettledAccum(t) - PledgeEntry(j, t).rewardAccum)
                           * Stake(j)
             extra(t) == IF t = 0 THEN added ELSE 0
  <1>1. 0 \in TokenIx /\ 0 \in Tokens /\ Tokens \subseteq TokenIx
    BY MainToken
  <1>2. added \in Nat /\ \A t \in TokenIx : extra(t) \in Nat
    OBVIOUS
  <1>3. /\ erc' \in [TokenIx -> Ledger]
        /\ \A t \in TokenIx : PoolBalance(t)' = PoolBalance(t) + extra(t)
    <2>1. /\ ErcTransferFrom(led, Pool, from, Pool, v) \in Ledger
          /\ ErcTransferFrom(led, Pool, from, Pool, v).money[Pool]
                = led.money[Pool] + added
      <3>1. led.money[Pool] \in Int /\ Pool \in Address
        BY AddressAssumption DEF Ledger
      <3>2. /\ ErcTransferFrom(led, Pool, from, Pool, v) \in Ledger
            /\ \A x \in Address :
                 ErcTransferFrom(led, Pool, from, Pool, v).money[x] =
                   IF paid
                   THEN led.money[x] + (IF x = Pool THEN v ELSE 0)
                                     - (IF x = from THEN v ELSE 0)
                   ELSE led.money[x]
        BY ONLY <3>1, TransferFromLedger, from \in Address, v \in Int,
                led \in Ledger
      <3> HIDE DEF paid
      <3> QED
        BY <3>1, <3>2
    <2>2. erc' = [erc EXCEPT ![0] = ErcTransferFrom(led, Pool, from, Pool, v)]
      BY DEF PoolPledge
    <2>3. \A t \in TokenIx : PoolBalance(t) \in Int
      BY SettledAccumType
    <2> QED
      BY <1>1, <2>1, <2>2, <2>3 DEF TypeOK, PoolBalance, BalanceOf
  <1>4. /\ tInfo' \in [TokenIx -> RewardInfo]
        /\ \A t \in Tokens :
              /\ tInfo'[t].rewardAccum = SettledAccum(t)
              /\ tInfo'[t].lastReward = PoolBalance(t) + extra(t)
        /\ \A t \in TokenIx \ Tokens : tInfo'[t] = tInfo[t]
    <2>1. tInfo' = [t \in TokenIx |-> IF t \notin Tokens THEN tInfo[t]
                       ELSE AddReward(SettledToken(t), extra(t))]
      BY DEF PoolPledge
    <2>2. \A t \in TokenIx : /\ SettledAccum(t) \in Int
                             /\ PoolBalance(t) \in Int
      BY SettledAccumType
    <2> HIDE DEF extra
    <2> QED
      BY <1>1, <1>2, <2>1, <2>2 DEF TypeOK, AddReward, SettledToken, RewardInfo
  <1>5. \A t \in TokenIx : share(t) \in Nat
    BY PledgeEntryType
  <1>6. /\ amount' \in [User -> [TokenIx -> RewardInfo]]
        /\ \A i \in User \ {j} : amount'[i] = amount[i]
        /\ \A t \in Tokens :
              /\ amount'[j][t].rewardAccum = SettledAccum(t)
              /\ amount'[j][t].lastReward =
                    amount[j][t].lastReward + share(t) + extra(t)
        /\ \A t \in TokenIx \ Tokens : amount'[j][t] = amount[j][t]
    <2> DEFINE new(t) == AddReward(SettledReward(PledgeEntry(j, t), j, t),
                                   extra(t))
    <2>1. amount' = [amount EXCEPT ![j] = [t \in TokenIx |->
                       IF t \notin Tokens THEN amount[j][t] ELSE new(t)]]
      BY DEF PoolPledge
    <2>2. \A t \in TokenIx :
             /\ new(t) \in RewardInfo
             /\ new(t).rewardAccum = SettledAccum(t)
             /\ new(t).lastReward =
                   amount[j][t].lastReward + share(t) + extra(t)
      <3> TAKE t \in TokenIx
      <3>1. SettledAccum(t) \in Int
        BY SettledAccumType
      <3>2. /\ PledgeEntry(j, t).lastReward = amount[j][t].lastReward
            /\ amount[j][t].lastReward \in Nat
        BY PledgeEntryType
      <3>3. SettledReward(PledgeEntry(j, t), j, t) =
              [rewardAccum |-> SettledAccum(t),
               lastReward  |-> amount[j][t].lastReward + share(t)]
        BY <3>2 DEF SettledReward
      <3> HIDE DEF share, extra
      <3> QED
        BY <1>2, <1>5, <3>1, <3>2, <3>3 DEF AddReward, RewardInfo
    <2> HIDE DEF new, share, extra
    <2> QED
      BY <1>1, <2>1, <2>2 DEF TypeOK
  <1> HIDE DEF share
  <1>7. /\ Stake(j) \in Nat
        /\ Stake(j) = amount[j][0].lastReward
    BY <1>1, BalanceType
  <1>8. TypeOK'
    <2>1. totalPledge' \in Int
      <3>1. SettledReward(PledgeEntry(j, 0), j, 0).lastReward
               = amount[j][0].lastReward + share(0)
        BY <1>1, PledgeEntryType DEF SettledReward, share
      <3> QED
        BY <1>1, <1>5, <1>7, <3>1 DEF PoolPledge, TypeOK
    <2>2. torn' \in BOOLEAN
      BY DEF PoolPledge, TypeOK
    <2>3. entries' \subseteq User \X TokenIx
      BY <1>1 DEF PoolPledge, TypeOK
    <2>4. UNCHANGED <<roleType, token, rewards>>
      BY DEF PoolPledge
    <2> QED
      BY <1>3, <1>4, <1>6, <2>1, <2>2, <2>3, <2>4 DEF TypeOK
  <1>9. Backed'
    <2>1. Tokens' = Tokens /\ TokenIx' = TokenIx
      BY DEF PoolPledge, Tokens, TokenIx
    <2>2. \A t \in Tokens' : tInfo'[t].lastReward <= PoolBalance(t)'
      <3>1. \A t \in Tokens : PoolBalance(t) \in Int
        BY <1>1, SettledAccumType
      <3> QED
        BY <1>1, <1>2, <1>3, <1>4, <2>1, <3>1
    <2>3. ASSUME NEW i \in User, NEW t \in TokenIx
          PROVE  /\ 0 <= amount'[i][t].rewardAccum
                 /\ amount'[i][t].rewardAccum <= tInfo'[t].rewardAccum
                 /\ 0 <= amount'[i][t].lastReward
      <3>1. /\ 0 <= amount[i][t].rewardAccum
            /\ amount[i][t].rewardAccum <= tInfo[t].rewardAccum
            /\ 0 <= amount[i][t].lastReward
        BY DEF Backed
      <3>2. /\ amount[i][t] \in RewardInfo
            /\ tInfo[t] \in RewardInfo
            /\ tInfo'[t] \in RewardInfo
        BY <1>4 DEF TypeOK
      <3>3. /\ SettledAccum(t) \in Int
            /\ SettledAccum(t) >= tInfo[t].rewardAccum
        BY SettledAccumType
      <3>4. CASE t \in Tokens
        <4>1. CASE i = j
          BY <1>2, <1>4, <1>5, <1>6, <3>1, <3>2, <3>3, <3>4, <4>1
             DEF RewardInfo
        <4>2. CASE i # j
          BY <1>4, <1>6, <3>1, <3>2, <3>3, <3>4, <4>2 DEF RewardInfo
        <4> QED
          BY <4>1, <4>2
      <3>5. CASE t \notin Tokens
        BY <1>4, <1>6, <3>1, <3>5
      <3> QED
        BY <3>4, <3>5
    <2>4. ASSUME NEW i \in User, NEW t \in TokenIx, <<i, t>> \notin entries'
          PROVE  amount'[i][t] = NoReward
      <3>1. /\ <<i, t>> \notin entries
            /\ i # j \/ t \notin Tokens
        BY <2>4 DEF PoolPledge
      <3>2. amount[i][t] = NoReward
        BY <3>1 DEF Backed
      <3> QED
        BY <1>6, <3>1, <3>2
    <2>5. \A t \in TokenIx \ Tokens : tInfo'[t].rewardAccum = 0
      BY <1>4 DEF Backed
    <2> QED
      BY <2>1, <2>2, <2>3, <2>4, <2>5 DEF Backed
  <1>10. SettledAccum(0)' = SettledAccum(0)
    <2>1. PoolBalance(0) \in Int /\ SettledAccum(0) \in Int
      BY <1>1, SettledAccumType
    <2>2. Arrived(0)' = 0
      BY <1>1, <1>2, <1>3, <1>4, <2>1 DEF Arrived
    <2> QED
      BY <1>1, <1>4, <2>1, <2>2 DEF SettledAccum
  <1>11. ASSUME NEW i \in User
         PROVE  Balance(i, 0)' >= Balance(i, 0)
    <2>1. Balance(i, 0) = amount[i][0].lastReward
             + (SettledAccum(0) - amount[i][0].rewardAccum) * Stake(i)
      BY <1>1, BalanceType
    <2>2. Balance(i, 0)' = amount'[i][0].lastReward
             + (SettledAccum(0) - amount'[i][0].rewardAccum)
                 * amount'[i][0].lastReward
      BY <1>10 DEF Balance, SettledReward, Stake
    <2>3. Balance(i, 0) \in Int /\ SettledAccum(0) \in Int
      BY <1>1, BalanceType, SettledAccumType
    <2>4. CASE i # j
      BY <1>6, <2>1, <2>2, <2>3, <2>4 DEF Stake
    <2>5. CASE i = j
      <3>1. Balance(j, 0) = amount[j][0].lastReward + share(0)
        BY <1>1, <2>1, <2>5, PledgeEntryType DEF share
      <3>2. amount'[j][0].lastReward \in Int
        BY <1>1, <1>2, <1>5, <1>6, <1>7
      <3>3. (SettledAccum(0) - SettledAccum(0)) * amount'[j][0].lastReward = 0
        BY <2>3, <3>2
      <3>4. Balance(j, 0)' = amount'[j][0].lastReward
        BY <1>1, <1>6, <2>2, <2>5, <3>2, <3>3
      <3> QED
        BY <1>1, <1>2, <1>5, <1>6, <1>7, <2>5, <3>1, <3>4
    <2> QED
      BY <2>4, <2>5
  <1>12. ASSUME NEW t \in Tokens
         PROVE  \E d \in Nat, e \in Int : TokenBooks(j, t, d, e)
    <2>1. PICK d \in Nat : /\ SettledAccum(t) = tInfo[t].rewardAccum + d
                           /\ d * totalPledge <= Arrived(t)
      BY ShareWithin
    <2>2. /\ t \in TokenIx /\ extra(t) \in Nat
          /\ tInfo[t] \in RewardInfo /\ tInfo'[t] \in RewardInfo
          /\ amount[j][t] \in RewardInfo /\ amount'[j][t] \in RewardInfo
          /\ totalPledge \in Int
          /\ amount[j][t].rewardAccum <= tInfo[t].rewardAccum
          /\ PoolBalance(t) \in Int
      BY <1>1, <1>2, <1>4, <1>6, SettledAccumType DEF TypeOK, Backed
    <2> HIDE DEF extra
    <2>3. tInfo'[t].rewardAccum = tInfo[t].rewardAccum + d
      BY <1>4, <2>1
    <2>4. tInfo'[t].lastReward
             >= tInfo[t].lastReward + d * totalPledge + extra(t)
      <3>1. d * totalPledge \in Int
        BY <2>1, <2>2
      <3> HIDE DEF extra
      <3> QED
        BY <1>4, <2>1, <2>2, <3>1 DEF Arrived, RewardInfo
    <2>5. Book(j, t)' = amount[j][t].lastReward + share(t) + extra(t)
      <3>1. Stake(j)' \in Int
        BY <1>1, <1>6 DEF Stake, RewardInfo
      <3>2. (tInfo'[t].rewardAccum - amount'[j][t].rewardAccum) * Stake(j)' = 0
        BY <1>4, <1>6, <2>2, <3>1 DEF RewardInfo
      <3>3. Book(j, t)' = amount'[j][t].lastReward
        BY <2>2, <3>2 DEF Book, RewardInfo
      <3> QED
        BY <1>6, <3>3
    <2>6. share(t) <= (SettledAccum(t) - amount[j][t].rewardAccum) * Stake(j)
      <3>1. /\ PledgeEntry(j, t) \in RewardInfo
            /\ PledgeEntry(j, t).rewardAccum >= amount[j][t].rewardAccum
        BY <2>2, PledgeEntryType DEF PledgeEntry, RewardInfo
      <3>2. /\ SettledAccum(t) - PledgeEntry(j, t).rewardAccum \in Int
            /\ SettledAccum(t) - amount[j][t].rewardAccum \in Int
            /\ SettledAccum(t) - PledgeEntry(j, t).rewardAccum
                 <= SettledAccum(t) - amount[j][t].rewardAccum
        BY <2>1, <2>2, <3>1 DEF RewardInfo
      <3> QED
        BY <1>7, <3>2, MulMono DEF share
    <2>7. (SettledAccum(t) - amount[j][t].rewardAccum) * Stake(j)
            = (tInfo[t].rewardAccum - amount[j][t].rewardAccum) * Stake(j)
                + d * Stake(j)
      <3> DEFINE lag == tInfo[t].rewardAccum - amount[j][t].rewardAccum
      <3>1. lag \in Int /\ SettledAccum(t) - amount[j][t].rewardAccum = lag + d
        BY <2>1, <2>2 DEF RewardInfo
      <3> HIDE DEF lag
      <3>2. (lag + d) * Stake(j) = lag * Stake(j) + d * Stake(j)
        BY <1>7, <3>1
      <3> QED
        BY <3>1, <3>2 DEF lag
    <2>8. Book(j, t)' <= Book(j, t) + d * Stake(j) + extra(t)
      <3> DEFINE p == (tInfo[t].rewardAccum - amount[j][t].rewardAccum)
                        * Stake(j)
                 q == d * Stake(j)
      <3>1. p \in Int /\ q \in Int
        BY <1>7, <2>1, <2>2 DEF RewardInfo
      <3>2. share(t) \in Nat /\ share(t) <= p + q
        BY <1>5, <2>2, <2>6, <2>7
      <3>3. Book(j, t) = amount[j][t].lastReward + p
        BY DEF Book
      <3>4. amount[j][t].lastReward \in Int
        BY <2>2 DEF RewardInfo
      <3> HIDE DEF p, q
      <3>5. Book(j, t)' <= Book(j, t) + q + extra(t)
        BY <2>2, <2>5, <3>1, <3>2, <3>3, <3>4
      <3> QED
        BY <3>5 DEF q
    <2> QED
      BY <2>2, <2>3, <2>4, <2>8 DEF TokenBooks
  <1>13. BooksStep(j)
    <2>1. /\ token' = token
          /\ entries' \subseteq entries \cup ({j} \X Tokens)
      BY DEF PoolPledge
    <2>2. \A t \in TokenIx \ Tokens : PoolBalance(t)' >= PoolBalance(t)
      <3>1. \A t \in TokenIx : PoolBalance(t) \in Int
        BY SettledAccumType
      <3> QED
        BY <1>2, <1>3, <3>1
    <2>3. ~torn' => ~torn /\ totalPledge' = totalPledge + (Stake(j)' - Stake(j))
      <3> DEFINE stake == SettledReward(PledgeEntry(j, 0), j, 0).lastReward
      <3>1. stake = amount[j][0].lastReward + share(0)
        BY <1>1, PledgeEntryType DEF SettledReward, share
      <3>2. Stake(j)' = stake + added
        BY <1>1, <1>6, <3>1 DEF Stake
      <3>3. stake \in Int /\ totalPledge \in Int /\ Stake(j) \in Int
        BY <1>1, <1>5, <1>7, <3>1 DEF TypeOK
      <3>4. /\ totalPledge' = IF paid THEN totalPledge - Stake(j) + stake + v
                              ELSE totalPledge
            /\ torn' = (torn \/ (~paid /\ stake # Stake(j)))
        BY DEF PoolPledge
      <3>5. ~torn' => ~torn /\ (paid \/ stake = Stake(j))
        BY <3>4
      <3> HIDE DEF stake, paid
      <3>6. CASE paid
        BY <3>2, <3>3, <3>4, <3>5, <3>6
      <3>7. CASE ~paid /\ stake = Stake(j)
        BY <3>2, <3>3, <3>4, <3>5, <3>7
      <3> QED
        BY <3>5, <3>6, <3>7
    <2> QED
      BY <1>6, <1>12, <2>1, <2>2, <2>3 DEF BooksStep
  <1> QED
    BY <1>8, <1>9, <1>11, <1>13

\* The entry a withdrawal pays from, and what it leaves of it.
LEMMA WithdrawEntryType ==
    ASSUME TypeOK, Backed, NEW i \in User, NEW t \in TokenIx,
           NEW s \in TokenIx
    PROVE  /\ WithdrawEntry(i, t, s) \in RewardInfo
           /\ WithdrawEntry(i, t, s).lastReward \in Nat
           /\ 0 <= WithdrawEntry(i, t, s).rewardAccum
           /\ WithdrawToken(t, s) \in RewardInfo
           /\ tInfo[s].rewardAccum <= WithdrawToken(t, s).rewardAccum
           /\ WithdrawEntry(i, t, s).rewardAccum
                 <= WithdrawToken(t, s).rewardAccum
           /\ s \in WithdrawSettles(t)
                => /\ WithdrawEntry(i, t, s).lastReward = Balance(i, s)
                   /\ WithdrawEntry(i, t, s).rewardAccum = SettledAccum(s)
                   /\ WithdrawToken(t, s).rewardAccum = SettledAccum(s)
                   /\ WithdrawToken(t, s).lastReward = PoolBalance(s)
           /\ s \notin WithdrawSettles(t)
                => /\ WithdrawEntry(i, t, s) = amount[i][s]
                   /\ WithdrawToken(t, s) = tInfo[s]
  <1>1. /\ tInfo[s] \in RewardInfo
        /\ SettledAccum(s) \in Int
        /\ PoolBalance(s) \in Int
        /\ tInfo[s].rewardAccum <= SettledAccum(s)
    BY SettledAccumType DEF TypeOK
  <1>2. /\ amount[i][s] \in RewardInfo
        /\ Balance(i, s) \in Int
        /\ amount[i][s].lastReward <= Balance(i, s)
    BY BalanceType
  <1>3. /\ 0 <= amount[i][s].lastReward
        /\ 0 <= amount[i][s].rewardAccum
        /\ amount[i][s].rewardAccum <= tInfo[s].rewardAccum
    BY DEF Backed
  <1>4. SettledReward(amount[i][s], i, s) =
            [rewardAccum |-> SettledAccum(s), lastReward |-> Balance(i, s)]
    BY DEF SettledReward, Balance
  <1>5. CASE s \in WithdrawSettles(t)
    <2>1. /\ WithdrawEntry(i, t, s) = SettledReward(amount[i][s], i, s)
          /\ WithdrawToken(t, s) = SettledToken(s)
      BY <1>5 DEF WithdrawEntry, WithdrawToken
    <2> QED
      BY <1>1, <1>2, <1>3, <1>4, <1>5, <2>1 DEF SettledToken, RewardInfo
  <1>6. CASE s \notin WithdrawSettles(t)
    <2>1. WithdrawEntry(i, t, s) = amount[i][s] /\ WithdrawToken(t, s) = tInfo[s]
      BY <1>6 DEF WithdrawEntry, WithdrawToken
    <2> QED
      BY <1>1, <1>2, <1>3, <1>6, <2>1 DEF RewardInfo
  <1> QED
    BY <1>5, <1>6

\* A withdrawal, failed or not, keeps the types and Backed, lowers nobody
\* else's main-token balance, and leaves the caller's lock.
LEMMA WithdrawStep ==
    ASSUME TypeOK, Backed, NEW j \in User, NEW t \in TokenIx, NEW v \in Nat,
           Withdraw(j, t, v)
    PROVE  /\ TypeOK' /\ Backed'
           /\ \A i \in User : i # j \/ t # 0
                 => Balance(i, 0)' >= Balance(i, 0)
           /\ t = 0 /\ Balance(j, 0) >= Lock(j) => Balance(j, 0)' >= Lock(j)
           /\ BooksStep(j)
  <1> DEFINE rw     == Payout(j, t, v)
             sent   == rw > 0 /\ ErcCanTransfer(erc[t], Pool, rw)
             out    == IF sent THEN rw ELSE 0
             cut(s) == IF s = t THEN out ELSE 0
             ent(s) == WithdrawEntry(j, t, s)
             tok(s) == WithdrawToken(t, s)
             lock   == IF t = 0 THEN Lock(j) ELSE 0
  <1>1. 0 \in TokenIx /\ 0 \in Tokens /\ Tokens \subseteq TokenIx
    BY MainToken
  <1>2. \A s \in TokenIx : /\ ent(s) \in RewardInfo
                           /\ ent(s).lastReward \in Nat
                           /\ 0 <= ent(s).rewardAccum
                           /\ tok(s) \in RewardInfo
                           /\ tInfo[s].rewardAccum <= tok(s).rewardAccum
                           /\ ent(s).rewardAccum <= tok(s).rewardAccum
    BY WithdrawEntryType
  <1>3. Lock(j) \in Nat /\ lock \in Nat
    BY AmountAssumption DEF Lock
  <1> HIDE DEF ent, tok, lock
  <1>4. /\ out \in Nat
        /\ out > 0 => out <= ent(t).lastReward - lock
        /\ out <= ent(t).lastReward
    <2>1. rw \in Int /\ (rw > 0 => rw <= ent(t).lastReward - lock)
      BY <1>2, <1>3 DEF Payout, ent, lock
    <2> HIDE DEF rw
    <2> QED
      BY <1>2, <1>3, <2>1
  <1>5. \A s \in TokenIx : cut(s) \in Nat /\ cut(s) <= ent(s).lastReward
    BY <1>2, <1>4
  <1>6. /\ erc' \in [TokenIx -> Ledger]
        /\ \A s \in TokenIx : PoolBalance(s)' = PoolBalance(s) - cut(s)
    <2>1. erc' = [erc EXCEPT ![t] = IF sent THEN ErcTransfer(@, Pool, j, rw)
                                   ELSE @]
      BY DEF Withdraw
    <2>2. erc[t] \in Ledger /\ j \in Address /\ Pool \in Address /\ j # Pool
      BY AddressAssumption DEF TypeOK
    <2>3. \A s \in TokenIx : PoolBalance(s) \in Int
      BY SettledAccumType
    <2>4. ASSUME sent
          PROVE  /\ ErcTransfer(erc[t], Pool, j, rw) \in Ledger
                 /\ ErcTransfer(erc[t], Pool, j, rw).money[Pool]
                       = erc[t].money[Pool] - out
      <3>1. rw \in Int /\ rw = out
        BY <1>4, <2>4
      <3>2. /\ ErcTransfer(erc[t], Pool, j, rw) \in Ledger
            /\ \A x \in Address : ErcTransfer(erc[t], Pool, j, rw).money[x] =
                 IF ErcCanTransfer(erc[t], Pool, rw)
                 THEN erc[t].money[x] + (IF x = j THEN rw ELSE 0)
                                      - (IF x = Pool THEN rw ELSE 0)
                 ELSE erc[t].money[x]
        BY ONLY ZenonT(30), <2>2, <3>1, TransferLedger
      <3>3. erc[t].money[Pool] \in Int
        BY <2>2 DEF Ledger
      <3> QED
        BY <2>2, <2>4, <3>1, <3>2, <3>3
    <2>5. CASE sent
      <3> HIDE DEF sent, out, rw
      <3> QED
        BY <2>1, <2>2, <2>3, <2>4, <2>5 DEF TypeOK, PoolBalance, BalanceOf
    <2>6. CASE ~sent
      <3>1. out = 0 /\ erc' = erc
        BY <2>1, <2>6 DEF TypeOK
      <3> HIDE DEF out
      <3> QED
        BY <2>3, <3>1 DEF TypeOK, PoolBalance, BalanceOf
    <2> QED
      BY <2>5, <2>6
  <1>7. /\ tInfo' \in [TokenIx -> RewardInfo]
        /\ \A s \in TokenIx :
              /\ tInfo'[s].rewardAccum = tok(s).rewardAccum
              /\ tInfo'[s].lastReward = tok(s).lastReward - cut(s)
    <2>1. tInfo' = [s \in TokenIx |->
                      AddReward(tok(s), IF s = t THEN -out ELSE 0)]
      BY DEF Withdraw, tok
    <2> HIDE DEF out
    <2> QED
      BY <1>2, <1>4, <2>1 DEF AddReward, RewardInfo
  <1>8. /\ amount' \in [User -> [TokenIx -> RewardInfo]]
        /\ \A i \in User \ {j} : amount'[i] = amount[i]
        /\ \A s \in TokenIx :
              /\ amount'[j][s].rewardAccum = ent(s).rewardAccum
              /\ amount'[j][s].lastReward = ent(s).lastReward - cut(s)
    <2>1. amount' = [amount EXCEPT ![j] = [s \in TokenIx |->
                       AddReward(ent(s), IF s = t THEN -out ELSE 0)]]
      BY DEF Withdraw, ent
    <2> HIDE DEF out
    <2> QED
      BY <1>2, <1>4, <2>1 DEF TypeOK, AddReward, RewardInfo
  <1>9. /\ Stake(j) \in Nat
        /\ Stake(j) = amount[j][0].lastReward
    BY <1>1, BalanceType
  <1>10. /\ totalPledge' \in Int
         /\ t # 0 => totalPledge' = totalPledge
         /\ totalPledge <= 0 => totalPledge' <= 0
    <2>1. totalPledge \in Int
      BY DEF TypeOK
    <2>2. \/ totalPledge' = totalPledge
          \/ /\ t = 0
             /\ totalPledge' = totalPledge - Stake(j) + ent(0).lastReward - out
      BY DEF Withdraw, ent
    <2>3. totalPledge <= 0 => ent(0).lastReward = Stake(j)
      BY <1>9 DEF ent, WithdrawEntry, WithdrawSettles
    <2> HIDE DEF out
    <2> QED
      BY <1>1, <1>2, <1>4, <1>9, <2>1, <2>2, <2>3
  <1> HIDE DEF out, cut
  <1>11. /\ UNCHANGED <<roleType, token, rewards>>
         /\ t \in Tokens
         /\ entries' = entries \cup ({j} \X WithdrawSettles(t))
         /\ WithdrawSettles(t) \subseteq Tokens
    BY DEF Withdraw, WithdrawSettles
  <1>12. TypeOK'
    <2>1. torn' \in BOOLEAN
      BY DEF Withdraw, TypeOK
    <2>2. entries' \subseteq User \X TokenIx
      BY <1>1, <1>11 DEF TypeOK
    <2> QED
      BY <1>6, <1>7, <1>8, <1>10, <1>11, <2>1, <2>2 DEF TypeOK
  <1>13. Backed'
    <2>1. Tokens' = Tokens /\ TokenIx' = TokenIx
      BY <1>11 DEF Tokens, TokenIx
    <2>2. ASSUME NEW s \in Tokens
          PROVE  tInfo'[s].lastReward <= PoolBalance(s)'
      <3>1. /\ PoolBalance(s) \in Int
            /\ tInfo[s].lastReward <= PoolBalance(s)
            /\ cut(s) \in Nat
            /\ tok(s) \in RewardInfo
        BY <1>1, <1>2, <1>5, SettledAccumType DEF Backed
      <3>2. tok(s).lastReward <= PoolBalance(s)
        BY <1>1, <3>1, WithdrawEntryType DEF tok
      <3> QED
        BY <1>1, <1>6, <1>7, <3>1, <3>2 DEF RewardInfo
    <2>3. ASSUME NEW i \in User, NEW s \in TokenIx
          PROVE  /\ 0 <= amount'[i][s].rewardAccum
                 /\ amount'[i][s].rewardAccum <= tInfo'[s].rewardAccum
                 /\ 0 <= amount'[i][s].lastReward
      <3>1. /\ amount[i][s] \in RewardInfo /\ tInfo[s] \in RewardInfo
            /\ 0 <= amount[i][s].rewardAccum
            /\ amount[i][s].rewardAccum <= tInfo[s].rewardAccum
            /\ 0 <= amount[i][s].lastReward
        BY DEF Backed, TypeOK
      <3>2. CASE i = j
        BY <1>2, <1>5, <1>7, <1>8, <3>2 DEF RewardInfo
      <3>3. CASE i # j
        BY <1>2, <1>7, <1>8, <3>1, <3>3 DEF RewardInfo
      <3> QED
        BY <3>2, <3>3
    <2>4. ASSUME NEW i \in User, NEW s \in TokenIx, <<i, s>> \notin entries'
          PROVE  amount'[i][s] = NoReward
      <3>1. <<i, s>> \notin entries /\ (i # j \/ s \notin WithdrawSettles(t))
        BY <1>11, <2>4
      <3>2. amount[i][s] = NoReward
        BY <3>1 DEF Backed
      <3>3. CASE i # j
        BY <1>8, <3>2, <3>3
      <3>4. CASE i = j
        <4>1. ent(s) = NoReward
          BY <3>1, <3>2, <3>4 DEF ent, WithdrawEntry
        <4>2. cut(s) = 0
          BY <1>5, <4>1 DEF NoReward
        <4>3. amount'[j][s] \in RewardInfo
          BY <1>8
        <4> QED
          BY <1>8, <3>4, <4>1, <4>2, <4>3 DEF NoReward, RewardInfo
      <3> QED
        BY <3>3, <3>4
    <2>5. \A s \in TokenIx \ Tokens : tInfo'[s].rewardAccum = 0
      <3>1. \A s \in TokenIx \ Tokens : tok(s) = tInfo[s]
        BY <1>11 DEF tok, WithdrawToken
      <3> QED
        BY <1>7, <3>1 DEF Backed
    <2> QED
      BY <2>1, <2>2, <2>3, <2>4, <2>5 DEF Backed
  <1>14. SettledAccum(0)' = SettledAccum(0)
    <2>1. /\ PoolBalance(0) \in Int /\ SettledAccum(0) \in Int
          /\ Arrived(0) \in Int
          /\ totalPledge <= 0 => SettledAccum(0) = tInfo[0].rewardAccum
          /\ tInfo[0] \in RewardInfo
          /\ totalPledge \in Int
      BY <1>1, SettledAccumType DEF TypeOK
    <2>2. CASE 0 \in WithdrawSettles(t)
      <3>1. /\ tok(0).rewardAccum = SettledAccum(0)
            /\ tok(0).lastReward = PoolBalance(0)
        BY <1>1, <2>2, WithdrawEntryType DEF tok
      <3>2. Arrived(0)' = 0
        BY <1>1, <1>5, <1>6, <1>7, <2>1, <3>1 DEF Arrived
      <3> QED
        BY <1>1, <1>7, <2>1, <3>1, <3>2 DEF SettledAccum
    <2>3. CASE 0 \notin WithdrawSettles(t) /\ t = 0
      <3>1. totalPledge <= 0
        BY <1>1, <2>1, <2>3 DEF WithdrawSettles
      <3>2. tok(0) = tInfo[0]
        BY <2>3 DEF tok, WithdrawToken
      <3>3. totalPledge' <= 0 /\ totalPledge' \in Int
        BY <1>10, <3>1
      <3> QED
        BY <1>1, <1>7, <2>1, <3>1, <3>2, <3>3 DEF SettledAccum, RewardInfo
    <2>4. CASE 0 \notin WithdrawSettles(t) /\ t # 0
      <3>1. cut(0) = 0 /\ tok(0) = tInfo[0]
        BY <2>4 DEF tok, WithdrawToken, cut
      <3>2. /\ tInfo'[0].rewardAccum = tInfo[0].rewardAccum
            /\ tInfo'[0].lastReward = tInfo[0].lastReward
            /\ PoolBalance(0)' = PoolBalance(0)
            /\ totalPledge' = totalPledge
        BY <1>1, <1>6, <1>7, <1>10, <2>1, <2>4, <3>1 DEF RewardInfo
      <3>3. Arrived(0)' = Arrived(0)
        BY <3>2 DEF Arrived
      <3> QED
        BY <3>2, <3>3 DEF SettledAccum
    <2> QED
      BY <2>2, <2>3, <2>4
  <1>15. \A i \in User : Balance(i, 0)' = amount'[i][0].lastReward
             + (SettledAccum(0) - amount'[i][0].rewardAccum)
                 * amount'[i][0].lastReward
    BY <1>14 DEF Balance, SettledReward, Stake
  <1>16. SettledAccum(0) \in Int
    BY <1>1, SettledAccumType
  <1>17. ASSUME NEW i \in User, i # j \/ t # 0
         PROVE  Balance(i, 0)' >= Balance(i, 0)
    <2>1. /\ Balance(i, 0) \in Int
          /\ Balance(i, 0) = amount[i][0].lastReward
             + (SettledAccum(0) - amount[i][0].rewardAccum)
                 * amount[i][0].lastReward
      BY <1>1, BalanceType DEF Stake
    <2>2. /\ amount'[i][0].lastReward = amount[i][0].lastReward
          /\ amount'[i][0].rewardAccum = amount[i][0].rewardAccum
      <3>1. CASE i # j
        BY <1>8, <3>1
      <3>2. CASE i = j
        <4>1. t # 0 /\ cut(0) = 0 /\ 0 \notin WithdrawSettles(t)
          BY <1>17, <3>2 DEF cut, WithdrawSettles
        <4>2. ent(0) = amount[j][0]
          BY <4>1 DEF ent, WithdrawEntry
        <4>3. amount[j][0] \in RewardInfo
          BY <1>1 DEF TypeOK
        <4> QED
          BY <1>1, <1>8, <3>2, <4>1, <4>2, <4>3 DEF RewardInfo
      <3> QED
        BY <3>1, <3>2
    <2> QED
      BY <1>15, <2>1, <2>2
  <1>18. ASSUME t = 0, Balance(j, 0) >= Lock(j)
         PROVE  Balance(j, 0)' >= Lock(j)
    <2> DEFINE left == ent(0).lastReward - out
               lag  == SettledAccum(0) - ent(0).rewardAccum
    <2>1. /\ amount'[j][0].lastReward = left
          /\ amount'[j][0].rewardAccum = ent(0).rewardAccum
          /\ Balance(j, 0)' = left + lag * left
      BY <1>1, <1>8, <1>15, <1>18 DEF cut
    <2>2. left \in Nat /\ (out > 0 => left >= Lock(j))
      BY <1>1, <1>2, <1>3, <1>4, <1>18 DEF lock
    <2>3. lag \in Nat
      <3>1. /\ WithdrawToken(t, 0).rewardAccum <= SettledAccum(0)
        BY <1>1, <1>16, SettledAccumType, WithdrawEntryType
      <3> QED
        BY <1>1, <1>2, <1>16, <3>1 DEF ent, tok, RewardInfo
    <2>4. lag * left \in Nat
      BY <2>2, <2>3, MulNat
    <2>5. CASE out > 0
      <3> HIDE DEF left, lag
      <3> QED
        BY <1>3, <2>1, <2>2, <2>4, <2>5
    <2>6. CASE out = 0
      <3>1. CASE 0 \in WithdrawSettles(t)
        <4>1. ent(0).lastReward = Balance(j, 0)
          BY <1>1, <3>1, WithdrawEntryType DEF ent
        <4>2. left = Balance(j, 0)
          BY <1>1, <1>2, <2>6, <4>1
        <4> HIDE DEF left, lag
        <4> QED
          BY <1>3, <1>18, <2>1, <2>2, <2>4, <4>2
      <3>2. CASE 0 \notin WithdrawSettles(t)
        <4>1. ent(0) = amount[j][0] /\ amount[j][0] \in RewardInfo
          BY <1>1, <3>2 DEF ent, WithdrawEntry, TypeOK
        <4>2. Balance(j, 0) = left + lag * left
          BY <1>1, <1>2, <2>6, <4>1, BalanceType DEF Stake
        <4> QED
          BY <1>18, <2>1, <4>2
      <3> QED
        BY <3>1, <3>2
    <2> QED
      BY <1>4, <2>5, <2>6
  <1>19. ASSUME NEW s \in Tokens
         PROVE  \E d \in Nat, e \in Int : TokenBooks(j, s, d, e)
    <2>1. /\ s \in TokenIx /\ cut(s) \in Nat /\ -cut(s) \in Int
          /\ tInfo[s] \in RewardInfo /\ tInfo'[s] \in RewardInfo
          /\ amount[j][s] \in RewardInfo /\ amount'[j][s] \in RewardInfo
          /\ totalPledge \in Int /\ PoolBalance(s) \in Int
          /\ amount[j][s].rewardAccum <= tInfo[s].rewardAccum
          /\ Stake(j)' \in Int
      BY <1>1, <1>5, <1>7, <1>8, SettledAccumType
      DEF TypeOK, Backed, Stake, RewardInfo
    <2>2. CASE s \in WithdrawSettles(t)
      <3>1. PICK d \in Nat : /\ SettledAccum(s) = tInfo[s].rewardAccum + d
                             /\ d * totalPledge <= Arrived(s)
        BY ShareWithin
      <3>2. /\ ent(s).lastReward = Balance(j, s)
            /\ ent(s).rewardAccum = SettledAccum(s)
            /\ tok(s).rewardAccum = SettledAccum(s)
            /\ tok(s).lastReward = PoolBalance(s)
        BY <2>1, <2>2, WithdrawEntryType DEF ent, tok
      <3>3. tInfo'[s].rewardAccum = tInfo[s].rewardAccum + d
        BY <1>7, <2>1, <3>1, <3>2
      <3>4. tInfo'[s].lastReward
               >= tInfo[s].lastReward + d * totalPledge + (-cut(s))
        <4>1. d * totalPledge \in Int
          BY <2>1, <3>1
        <4>2. tInfo'[s].lastReward = PoolBalance(s) - cut(s)
          BY <1>7, <2>1, <3>2
        <4> QED
          BY <2>1, <3>1, <4>1, <4>2 DEF Arrived, RewardInfo
      <3>5. Book(j, s)' = Balance(j, s) - cut(s)
        <4>1. /\ amount'[j][s].rewardAccum = SettledAccum(s)
              /\ amount'[j][s].lastReward = Balance(j, s) - cut(s)
              /\ tInfo'[s].rewardAccum = SettledAccum(s)
          BY <1>7, <1>8, <2>1, <3>2
        <4>2. (tInfo'[s].rewardAccum - amount'[j][s].rewardAccum) * Stake(j)'
                = 0
          BY <2>1, <4>1 DEF RewardInfo
        <4> QED
          BY <2>1, <4>1, <4>2 DEF Book, RewardInfo
      <3>6. Balance(j, s) = Book(j, s) + d * Stake(j)
        <4> DEFINE lag == tInfo[s].rewardAccum - amount[j][s].rewardAccum
        <4>1. lag \in Int /\ SettledAccum(s) - amount[j][s].rewardAccum = lag + d
          BY <2>1, <3>1 DEF RewardInfo
        <4>2. Balance(j, s) = amount[j][s].lastReward + (lag + d) * Stake(j)
          BY <2>1, <4>1, BalanceType
        <4>3. Book(j, s) = amount[j][s].lastReward + lag * Stake(j)
          BY DEF Book
        <4>4. amount[j][s].lastReward \in Int
          BY <2>1 DEF RewardInfo
        <4> HIDE DEF lag
        <4>5. /\ (lag + d) * Stake(j) = lag * Stake(j) + d * Stake(j)
              /\ lag * Stake(j) \in Int /\ d * Stake(j) \in Int
          BY <1>9, <4>1
        <4> QED
          BY <4>2, <4>3, <4>4, <4>5
      <3>7. Balance(j, s) \in Int
        BY <2>1, BalanceType
      <3>8. Book(j, s)' <= Book(j, s) + d * Stake(j) + (-cut(s))
        BY <2>1, <3>5, <3>6, <3>7
      <3> QED
        BY <2>1, <3>3, <3>4, <3>8 DEF TokenBooks
    <2>3. CASE s \notin WithdrawSettles(t)
      <3>1. ent(s) = amount[j][s] /\ tok(s) = tInfo[s]
        BY <2>1, <2>3, WithdrawEntryType DEF ent, tok
      <3>2. /\ tInfo'[s].rewardAccum = tInfo[s].rewardAccum + 0
            /\ tInfo'[s].lastReward
                 >= tInfo[s].lastReward + 0 * totalPledge + (-cut(s))
        BY <1>7, <2>1, <3>1 DEF RewardInfo
      <3>3. Stake(j)' <= Stake(j)
        <4>1. ent(0) = amount[j][0]
          BY <1>1, <2>3 DEF ent, WithdrawEntry, WithdrawSettles
        <4> QED
          BY <1>1, <1>5, <1>8, <1>9, <4>1 DEF Stake
      <3> DEFINE lag == tInfo[s].rewardAccum - amount[j][s].rewardAccum
      <3>4. /\ lag \in Nat
            /\ Book(j, s) = amount[j][s].lastReward + lag * Stake(j)
            /\ Book(j, s)' = (amount[j][s].lastReward - cut(s))
                               + lag * Stake(j)'
            /\ amount[j][s].lastReward \in Int
        BY <1>7, <1>8, <2>1, <3>1 DEF Book, RewardInfo
      <3> HIDE DEF lag
      <3>5. /\ lag * Stake(j)' <= lag * Stake(j)
            /\ lag * Stake(j)' \in Int /\ lag * Stake(j) \in Int
            /\ 0 * Stake(j) = 0
        <4>1. Stake(j)' * lag <= Stake(j) * lag
          BY <1>9, <2>1, <3>3, <3>4, MulMono
        <4> QED
          BY <1>9, <2>1, <3>4, <4>1
      <3>6. Book(j, s)' <= Book(j, s) + 0 * Stake(j) + (-cut(s))
        BY <2>1, <3>4, <3>5
      <3>7. 0 \in Nat
        OBVIOUS
      <3> QED
        BY <2>1, <3>2, <3>6, <3>7 DEF TokenBooks
    <2> QED
      BY <2>2, <2>3
  <1>20. BooksStep(j)
    <2>1. \A s \in TokenIx \ Tokens : PoolBalance(s)' >= PoolBalance(s)
      <3> TAKE s \in TokenIx \ Tokens
      <3>1. PoolBalance(s) \in Int
        BY SettledAccumType
      <3>2. cut(s) = 0
        BY <1>11 DEF cut
      <3> QED
        BY <1>6, <3>1, <3>2
    <2>2. ~torn' => ~torn /\ totalPledge' = totalPledge + (Stake(j)' - Stake(j))
      <3>1. /\ Stake(j)' = ent(0).lastReward - cut(0)
            /\ ent(0).lastReward \in Int /\ totalPledge \in Int
        BY <1>1, <1>2, <1>8 DEF Stake, TypeOK
      <3>2. CASE t # 0
        <4>1. 0 \notin WithdrawSettles(t) /\ cut(0) = 0
          BY <3>2 DEF WithdrawSettles, cut
        <4>2. ent(0).lastReward = Stake(j)
          BY <4>1 DEF ent, WithdrawEntry, Stake
        <4>3. torn' = torn /\ totalPledge' = totalPledge
          BY <3>2 DEF Withdraw, TypeOK
        <4> QED
          BY <1>9, <3>1, <4>1, <4>2, <4>3
      <3>3. CASE t = 0
        <4>1. cut(0) = out
          BY <3>3 DEF cut
        <4>2. /\ torn' = (torn \/ (/\ rw > 0 /\ ~sent
                                  /\ ent(0).lastReward # Stake(j)))
              /\ totalPledge' = IF rw > 0 /\ ~sent THEN totalPledge
                                ELSE totalPledge - Stake(j)
                                       + ent(0).lastReward - out
          BY <3>3 DEF Withdraw, ent, out
        <4> DEFINE fail == rw > 0 /\ ~sent
        <4>3. fail => out = 0
          BY DEF out
        <4>4. ~torn' => ~torn /\ (~fail \/ ent(0).lastReward = Stake(j))
          BY <4>2
        <4>5. totalPledge' = IF fail THEN totalPledge
                             ELSE totalPledge - Stake(j)
                                    + ent(0).lastReward - out
          BY <4>2
        <4> HIDE DEF fail
        <4>6. CASE ~fail
          <5>1. totalPledge' = totalPledge + (Stake(j)' - Stake(j))
            BY <1>4, <1>9, <3>1, <4>1, <4>5, <4>6
          <5> QED
            BY <4>4, <5>1
        <4>7. CASE fail /\ ent(0).lastReward = Stake(j)
          <5>1. totalPledge' = totalPledge + (Stake(j)' - Stake(j))
            BY <1>4, <1>9, <3>1, <4>1, <4>3, <4>5, <4>7
          <5> QED
            BY <4>4, <5>1
        <4> QED
          BY <4>4, <4>6, <4>7
      <3> QED
        BY <3>2, <3>3
    <2>3. entries' \subseteq entries \cup ({j} \X Tokens)
      BY <1>11
    <2> QED
      BY <1>8, <1>11, <1>19, <2>1, <2>2, <2>3 DEF BooksStep
  <1> QED
    BY <1>12, <1>13, <1>17, <1>18, <1>20

\* Calls that only move tokens outside the pool's books: the pool's balance of
\* a token may grow, so the types and Backed hold and no balance drops.
LEMMA LedgerStep ==
    ASSUME TypeOK, Backed, NEW t \in TokenIx, NEW led \in Ledger,
           erc' = [erc EXCEPT ![t] = led],
           led.money[Pool] >= erc[t].money[Pool],
           rewards' \in Nat,
           UNCHANGED <<roleType, token, totalPledge, tInfo, amount, entries,
                       torn>>
    PROVE  /\ TypeOK' /\ Backed'
           /\ \A i \in User : Balance(i, 0)' >= Balance(i, 0)
           /\ QuietBooks
  <1>1. 0 \in TokenIx /\ Tokens \subseteq TokenIx
    BY MainToken
  <1>2. TypeOK'
    BY DEF TypeOK
  <1>3. \A s \in TokenIx : /\ PoolBalance(s) \in Int
                           /\ PoolBalance(s)' \in Int
                           /\ PoolBalance(s)' >= PoolBalance(s)
    <2> TAKE s \in TokenIx
    <2>1. PoolBalance(s) \in Int
      BY SettledAccumType
    <2>2. CASE s = t
      <3>1. led.money[Pool] \in Int
        BY AddressAssumption DEF Ledger
      <3> QED
        BY <2>1, <2>2, <3>1 DEF TypeOK, PoolBalance, BalanceOf
    <2>3. CASE s # t
      BY <2>1, <2>3 DEF TypeOK, PoolBalance, BalanceOf
    <2> QED
      BY <2>2, <2>3
  <1>4. Backed'
    <2>1. Tokens' = Tokens
      BY DEF Tokens
    <2>2. \A s \in Tokens : tInfo[s].lastReward <= PoolBalance(s)'
      BY <1>1, <1>3 DEF Backed, TypeOK, RewardInfo
    <2> QED
      BY <2>1, <2>2 DEF Backed
  <1>5. \A i \in User : Balance(i, 0)' >= Balance(i, 0)
    BY <1>1, <1>2, <1>3, QuietStep
  <1>6. QuietBooks
    BY <1>3 DEF QuietBooks
  <1> QED
    BY <1>2, <1>4, <1>5, <1>6

\* Registration of an address or a role leaves the pool as it is.
LEMMA RoleStep ==
    ASSUME TypeOK, Backed,
           roleType' \in [User -> {"unregistered", "none", "keeper", "provider"}],
           UNCHANGED <<erc, token, totalPledge, tInfo, amount, entries, rewards,
                       torn>>
    PROVE  /\ TypeOK' /\ Backed'
           /\ \A i \in User : Balance(i, 0)' = Balance(i, 0)
           /\ QuietBooks
  <1>1. TypeOK'
    BY DEF TypeOK
  <1>2. Backed'
    BY DEF Backed, PoolBalance, Tokens
  <1>3. \A i \in User : Balance(i, 0)' = Balance(i, 0)
    BY DEF Balance, SettledReward, SettledAccum, Arrived, PoolBalance, Stake
  <1>4. QuietBooks
    <2>1. \A t \in TokenIx : /\ PoolBalance(t)' = PoolBalance(t)
                             /\ PoolBalance(t) \in Int
      BY SettledAccumType DEF PoolBalance
    <2> QED
      BY <2>1 DEF QuietBooks
  <1> QED
    BY <1>1, <1>2, <1>3, <1>4

\* Registering a token starts its books at the balance the pool has of it.
LEMMA TokenStep ==
    ASSUME TypeOK, Backed, RegisterToken
    PROVE  /\ TypeOK' /\ Backed'
           /\ \A i \in User : Balance(i, 0)' = Balance(i, 0)
  <1>1. 0 \in TokenIx /\ Tokens \subseteq TokenIx
    BY MainToken
  <1>2. /\ token \in TokenIx /\ token # 0 /\ token \notin Tokens
        /\ Tokens' = Tokens \cup {token}
        /\ token' \in 1 .. NToken
    BY AmountAssumption DEF RegisterToken, TypeOK, TokenIx, Tokens
  <1>3. PoolBalance(token) \in Int
    BY <1>2, SettledAccumType
  <1>4. /\ tInfo' = [tInfo EXCEPT ![token] = [rewardAccum |-> 0,
                                       lastReward |-> PoolBalance(token)]]
        /\ UNCHANGED <<erc, roleType, totalPledge, amount, entries, rewards,
                       torn>>
    BY DEF RegisterToken, Started, PoolBalance
  <1>5. TypeOK'
    BY <1>2, <1>3, <1>4 DEF TypeOK, RewardInfo
  <1>6. Backed'
    <2>1. \A s \in Tokens' : tInfo'[s].lastReward <= PoolBalance(s)'
      BY <1>1, <1>2, <1>3, <1>4 DEF Backed, TypeOK, PoolBalance
    <2>2. ASSUME NEW i \in User, NEW s \in TokenIx
          PROVE  amount[i][s].rewardAccum <= tInfo'[s].rewardAccum
      <3>1. /\ amount[i][s].rewardAccum <= tInfo[s].rewardAccum
            /\ s \notin Tokens => tInfo[s].rewardAccum = 0
        BY DEF Backed
      <3> QED
        BY <1>2, <1>4, <3>1 DEF TypeOK
    <2>3. \A s \in TokenIx \ Tokens' : tInfo'[s].rewardAccum = 0
      BY <1>2, <1>4 DEF Backed, TypeOK
    <2> QED
      BY <1>4, <2>1, <2>2, <2>3 DEF Backed
  <1>7. /\ tInfo'[0] = tInfo[0]
        /\ PoolBalance(0)' = PoolBalance(0)
    BY <1>1, <1>2, <1>4 DEF TypeOK, PoolBalance
  <1>8. \A i \in User : Balance(i, 0)' = Balance(i, 0)
    BY <1>4, <1>7 DEF Balance, SettledReward, SettledAccum, Arrived, Stake
  <1> QED
    BY <1>5, <1>6, <1>8

\* Every call keeps the types and Backed, and a main-token balance drops only
\* by its owner's withdrawal of that token.
LEMMA StepKeeps ==
    ASSUME TypeOK, Backed, Next
    PROVE  /\ TypeOK' /\ Backed'
           /\ \A i \in User : \/ Balance(i, 0)' >= Balance(i, 0)
                              \/ \E v \in Amounts : Withdraw(i, 0, v)
           /\ QuietBooks \/ RegisterToken \/ \E j \in User : BooksStep(j)
  <1> USE AddressAssumption, AmountAssumption
  <1>0. /\ 0 \in TokenIx
        /\ \A t \in TokenIx : erc[t] \in Ledger
        /\ \A i \in User : Balance(i, 0) \in Int
    BY MainToken, BalanceType DEF TypeOK
  <1>1. ASSUME NEW a \in User, Register(a)
        PROVE  /\ TypeOK' /\ Backed'
               /\ \A i \in User : Balance(i, 0)' = Balance(i, 0)
               /\ QuietBooks
    <2>1. roleType' \in
            [User -> {"unregistered", "none", "keeper", "provider"}]
      BY <1>1 DEF Register, TypeOK
    <2> QED
      BY <1>1, <2>1, RoleStep DEF Register
  <1>2. ASSUME NEW a \in User, RegisterKeeper(a) \/ RegisterProvider(a)
        PROVE  /\ TypeOK' /\ Backed'
               /\ \A i \in User : Balance(i, 0)' = Balance(i, 0)
               /\ QuietBooks
    <2>1. roleType' \in
            [User -> {"unregistered", "none", "keeper", "provider"}]
      BY <1>2 DEF RegisterKeeper, RegisterProvider, RegisterRole, TypeOK
    <2>2. UNCHANGED <<erc, token, totalPledge, tInfo, amount, entries, rewards,
                      torn>>
      BY <1>2 DEF RegisterKeeper, RegisterProvider, RegisterRole
    <2> QED
      BY <2>1, <2>2, RoleStep
  <1>3. ASSUME NEW j \in User, NEW v \in Amounts, Pledge(j, v)
        PROVE  /\ TypeOK' /\ Backed'
               /\ \A i \in User : Balance(i, 0)' >= Balance(i, 0)
               /\ BooksStep(j)
    <2>1. PoolPledge(j, j, v, erc[0])
      BY <1>3 DEF Pledge
    <2>2. j \in Address \ {Pool} /\ v \in Nat /\ erc[0] \in Ledger
      BY <1>0
    <2> QED
      BY <2>1, <2>2, PledgeStep
  <1>4. ASSUME NEW j \in User, NEW v \in Amounts, AirDropPledge(j, v)
        PROVE  /\ TypeOK' /\ Backed'
               /\ \A i \in User : Balance(i, 0)' >= Balance(i, 0)
               /\ BooksStep(j)
    <2> DEFINE led == ErcApprove(erc[0], RoleMgr, RoleMgr, v)
    <2>1. PoolPledge(j, RoleMgr, v, led)
      BY <1>4 DEF AirDropPledge
    <2>2. RoleMgr \in Address \ {Pool} /\ v \in Nat /\ v \in Int
      OBVIOUS
    <2>3. led \in Ledger /\ led.money = erc[0].money
      BY ONLY <1>0, <2>2, ApproveLedger
    <2> HIDE DEF led
    <2> QED
      BY <2>1, <2>2, <2>3, PledgeStep
  <1>5. ASSUME NEW j \in User, NEW t \in TokenIx, NEW v \in Amounts,
               Withdraw(j, t, v)
        PROVE  /\ TypeOK' /\ Backed'
               /\ \A i \in User : i # j \/ t # 0
                    => Balance(i, 0)' >= Balance(i, 0)
               /\ BooksStep(j)
    BY <1>5, WithdrawStep
  <1>6. ASSUME NEW a \in User, NEW v \in Amounts, ApprovePool(a, v)
        PROVE  /\ TypeOK' /\ Backed'
               /\ \A i \in User : Balance(i, 0)' >= Balance(i, 0)
               /\ QuietBooks
    <2> DEFINE led == ErcApprove(erc[0], a, Pool, v)
    <2>1. a \in Address /\ Pool \in Address /\ v \in Int
      OBVIOUS
    <2>2. led \in Ledger /\ led.money = erc[0].money
      BY ONLY <1>0, <2>1, ApproveLedger
    <2>3. erc[0].money[Pool] \in Int
      BY <1>0 DEF Ledger
    <2>4. led.money[Pool] >= erc[0].money[Pool]
      BY <2>2, <2>3
    <2>5. /\ erc' = [erc EXCEPT ![0] = led]
          /\ UNCHANGED <<roleType, token, totalPledge, tInfo, amount, entries,
                         rewards, torn>>
      BY <1>6 DEF ApprovePool
    <2> HIDE DEF led
    <2> QED
      BY <1>0, <2>2, <2>4, <2>5, LedgerStep DEF TypeOK
  <1>7. ASSUME NEW t \in TokenIx, NEW a \in Address \ {Pool},
               NEW b \in Address, NEW v \in Amounts, Transfer(t, a, b, v)
        PROVE  /\ TypeOK' /\ Backed'
               /\ \A i \in User : Balance(i, 0)' >= Balance(i, 0)
               /\ QuietBooks
    <2> DEFINE led == ErcTransfer(erc[t], a, b, v)
    <2>1. a \in Address /\ v \in Int /\ v \in Nat /\ erc[t] \in Ledger
      BY <1>0
    <2>2. /\ led \in Ledger
          /\ \A x \in Address : led.money[x] =
                IF ErcCanTransfer(erc[t], a, v)
                THEN erc[t].money[x] + (IF x = b THEN v ELSE 0)
                                     - (IF x = a THEN v ELSE 0)
                ELSE erc[t].money[x]
      BY ONLY <2>1, b \in Address, TransferLedger
    <2>3. Pool \in Address /\ erc[t].money[Pool] \in Int
      BY <2>1 DEF Ledger
    <2>4. led.money[Pool] >= erc[t].money[Pool]
      <3> HIDE DEF led
      <3> QED
        BY <2>1, <2>2, <2>3
    <2>5. /\ erc' = [erc EXCEPT ![t] = led]
          /\ rewards' \in Nat
          /\ UNCHANGED <<roleType, token, totalPledge, tInfo, amount, entries,
                         torn>>
      BY <1>7 DEF Transfer, TypeOK
    <2> HIDE DEF led
    <2> QED
      BY <2>2, <2>4, <2>5, LedgerStep
  <1>8. ASSUME NEW v \in Amounts, SendReward(v)
        PROVE  /\ TypeOK' /\ Backed'
               /\ \A i \in User : Balance(i, 0)' >= Balance(i, 0)
               /\ QuietBooks
    BY <1>0, <1>7, <1>8 DEF SendReward
  <1>9. \A t \in TokenIx, a \in User, b \in Recipients, v \in Amounts :
           a \in Address \ {Pool} /\ b \in Address
    OBVIOUS
  <1>10. ASSUME NEW t \in TokenIx, NEW a \in User, NEW b \in Recipients,
                NEW v \in Amounts, Transfer(t, a, b, v)
         PROVE  /\ TypeOK' /\ Backed'
                /\ \A i \in User : Balance(i, 0)' >= Balance(i, 0)
                /\ QuietBooks
    BY <1>7, <1>9, <1>10
  <1>11. CASE RegisterToken
    BY <1>0, <1>11, TokenStep
  <1>12. ASSUME NEW j \in User, NEW t \in TokenIx, NEW v \in Amounts,
                Withdraw(j, t, v)
         PROVE  /\ TypeOK' /\ Backed'
                /\ \A i \in User : \/ Balance(i, 0)' >= Balance(i, 0)
                                   \/ \E w \in Amounts : Withdraw(i, 0, w)
                /\ \E k \in User : BooksStep(k)
    BY <1>5, <1>12
  <1> QED
    BY <1>0, <1>1, <1>2, <1>3, <1>4, <1>6, <1>8, <1>10, <1>11, <1>12 DEF Next

\* A form of BalanceType that also holds of the next state.
LEMMA BalanceInt == TypeOK /\ Backed => \A i \in User : Balance(i, 0) \in Int
  BY MainToken, BalanceType

\* Every call keeps the deposit of every keeper and provider.
LEMMA DepositStep ==
    ASSUME TypeOK, Backed, DepositLocked, Next
    PROVE  DepositLocked'
  <1> USE AmountAssumption
  <1>0. 0 \in TokenIx
    BY MainToken
  <1>1. \A i \in User : /\ Balance(i, 0) \in Int
                        /\ Balance(i, 0) >= 0
                        /\ Balance(i, 0) >= Lock(i)
                        /\ Lock(i) \in Nat
    <2>1. \A i \in User : Balance(i, 0) \in Int /\ Balance(i, 0) >= 0
      BY <1>0, BalanceType
    <2>2. \A i \in User : Balance(i, 0) >= Lock(i)
      BY DEF DepositLocked
    <2> QED
      BY <2>1, <2>2 DEF Lock
  <1>2. \A i \in User : Balance(i, 0)' \in Int
    <2>1. (TypeOK /\ Backed => \A i \in User : Balance(i, 0) \in Int)'
      BY BalanceInt, PTL
    <2> QED
      BY <2>1, StepKeeps
  <1>3. ASSUME roleType' = roleType, NEW i \in User
        PROVE  Balance(i, 0)' >= Lock(i)'
    <2>1. Lock(i)' = Lock(i)
      BY <1>3 DEF Lock
    <2>2. CASE Balance(i, 0)' >= Balance(i, 0)
      BY <1>1, <1>2, <2>1, <2>2
    <2>3. CASE \E v \in Amounts : Withdraw(i, 0, v)
      <3>1. PICK v \in Amounts : Withdraw(i, 0, v)
        BY <2>3
      <3>2. v \in Nat
        OBVIOUS
      <3> QED
        BY <1>0, <1>1, <2>1, <3>1, <3>2, WithdrawStep
    <2> QED
      BY <2>2, <2>3, StepKeeps
  <1>4. ASSUME NEW a \in User, NEW role \in {"none", "keeper", "provider"},
               roleType' = [roleType EXCEPT ![a] = role],
               UNCHANGED <<erc, token, totalPledge, tInfo, amount, entries,
                           rewards, torn>>,
               role = "keeper" => Balance(a, 0) >= PledgeKeeper,
               role = "provider" => Balance(a, 0) >= PledgePro,
               NEW i \in User
        PROVE  Balance(i, 0)' >= Lock(i)'
    <2>1. Balance(i, 0)' = Balance(i, 0)
      BY <1>4 DEF Balance, SettledReward, SettledAccum, Arrived, PoolBalance,
                  Stake
    <2>2. CASE i = a
      <3>1. roleType'[i] = role
        BY <1>4, <2>2 DEF TypeOK
      <3> QED
        BY <1>1, <1>4, <2>1, <2>2, <3>1 DEF Lock
    <2>3. CASE i # a
      <3>1. roleType'[i] = roleType[i]
        BY <1>4, <2>3 DEF TypeOK
      <3> QED
        BY <1>1, <2>1, <3>1 DEF Lock
    <2> QED
      BY <2>2, <2>3
  <1>5. CASE \E a \in User : \/ Register(a)
                            \/ RegisterKeeper(a)
                            \/ RegisterProvider(a)
    BY <1>4, <1>5 DEF Register, RegisterKeeper, RegisterProvider, RegisterRole,
                      DepositLocked
  <1>6. CASE roleType' = roleType
    BY <1>3, <1>6 DEF DepositLocked
  <1>7. \/ \E a \in User : Register(a) \/ RegisterKeeper(a) \/ RegisterProvider(a)
        \/ roleType' = roleType
    <2>1. RegisterToken => roleType' = roleType
      BY DEF RegisterToken
    <2>2. \A i, from, v, led : PoolPledge(i, from, v, led)
             => roleType' = roleType
      BY DEF PoolPledge
    <2>3. \A i, v : Pledge(i, v) \/ AirDropPledge(i, v) => roleType' = roleType
      BY <2>2 DEF Pledge, AirDropPledge
    <2>4. \A i, t, v : Withdraw(i, t, v) => roleType' = roleType
      BY DEF Withdraw
    <2>5. \A a, v : ApprovePool(a, v) => roleType' = roleType
      BY DEF ApprovePool
    <2>6. \A t, a, b, v : Transfer(t, a, b, v) => roleType' = roleType
      BY DEF Transfer
    <2> QED
      BY <2>1, <2>3, <2>4, <2>5, <2>6 DEF Next, SendReward
  <1> QED
    BY <1>5, <1>6, <1>7

\* The inductive invariant: DepositLocked needs Backed, because a withdrawal
\* that does not settle leaves a share that must not be negative.
PoolInv == TypeOK /\ Backed /\ DepositLocked

\* A new pool holds what it owes, nothing.
LEMMA InitPoolInv == Init => PoolInv
  <1> USE AddressAssumption, AmountAssumption
  <1> SUFFICES ASSUME Init PROVE PoolInv
    OBVIOUS
  <1>1. \A t \in TokenIx : LedgerOf(InitMoney[t]) \in Ledger
    BY DEF LedgerOf, Ledger
  <1>2. 0 \in TokenIx /\ InitMoney[0][Pool] \in Int
    BY DEF TokenIx
  <1>3. Started(0) = [rewardAccum |-> 0, lastReward |-> InitMoney[0][Pool]]
    BY <1>2 DEF Init, Started, BalanceOf, LedgerOf
  <1>4. TypeOK
    <2>1. /\ erc \in [TokenIx -> Ledger]
          /\ roleType \in
               [User -> {"unregistered", "none", "keeper", "provider"}]
      BY <1>1 DEF Init
    <2>2. tInfo \in [TokenIx -> RewardInfo]
      BY <1>2, <1>3 DEF Init, RewardInfo, NoReward
    <2>3. amount \in [User -> [TokenIx -> RewardInfo]]
      BY DEF Init, RewardInfo, NoReward
    <2>4. token \in 1 .. NToken
      BY DEF Init
    <2>5. totalPledge \in Int /\ rewards \in Nat
      BY DEF Init
    <2>6. entries \subseteq User \X TokenIx /\ torn \in BOOLEAN
      BY DEF Init
    <2> QED
      BY <2>1, <2>2, <2>3, <2>4, <2>5, <2>6 DEF TypeOK
  <1>5. Backed
    BY <1>2, <1>3 DEF Init, Backed, NoReward, Tokens, PoolBalance, BalanceOf,
                      LedgerOf
  <1>6. DepositLocked
    <2>1. \A i \in User : Lock(i) = 0
      BY DEF Init, Lock
    <2> QED
      BY <1>2, <1>4, <1>5, <2>1, BalanceType DEF DepositLocked, Backed
  <1> QED
    BY <1>4, <1>5, <1>6 DEF PoolInv

\* Every step keeps the pool backed and the deposit locked.
LEMMA StepPoolInv == PoolInv /\ [Next]_vars => PoolInv'
  <1> SUFFICES ASSUME PoolInv, [Next]_vars PROVE PoolInv'
    OBVIOUS
  <1>1. CASE Next
    BY <1>1, StepKeeps, DepositStep DEF PoolInv
  <1>2. CASE UNCHANGED vars
    BY <1>2 DEF vars, PoolInv, TypeOK, Backed, DepositLocked, Lock, Tokens,
                Balance, SettledReward, SettledAccum, Arrived, PoolBalance, Stake
  <1> QED
    BY <1>1, <1>2

\* In every reachable state the pool's variables have their types.
THEOREM PledgeTypes == Spec => []TypeOK
  <1>1. PoolInv => TypeOK
    BY DEF PoolInv
  <1> QED
    BY <1>1, InitPoolInv, StepPoolInv, PTL DEF Spec

\* In every reachable state the pool's books are backed by its tokens: no last
\* seen balance is above the real one and no share is negative.
THEOREM PledgeBacked == Spec => []Backed
  <1>1. PoolInv => Backed
    BY DEF PoolInv
  <1> QED
    BY <1>1, InitPoolInv, StepPoolInv, PTL DEF Spec

\* In every reachable state a keeper or provider still has its deposit.
THEOREM PledgeDepositLocked == Spec => []DepositLocked
  <1>1. PoolInv => DepositLocked
    BY DEF PoolInv
  <1> QED
    BY <1>1, InitPoolInv, StepPoolInv, PTL DEF Spec

\* No step but a pledger's own withdrawal lowers its main-token balance.
THEOREM PledgeOnlyOwnWithdrawLowers == Spec => OnlyOwnWithdrawLowers
  <1> DEFINE Kept == \A i \in User : Balance(i, 0)' < Balance(i, 0) =>
                        \E v \in Amounts : Withdraw(i, 0, v)
  <1>1. PoolInv /\ [Next]_vars => [Kept]_vars
    <2> SUFFICES ASSUME PoolInv, Next PROVE Kept
      OBVIOUS
    <2>1. TypeOK /\ Backed /\ TypeOK' /\ Backed'
      BY StepKeeps DEF PoolInv
    <2>2. \A i \in User : Balance(i, 0) \in Int
      BY <2>1, BalanceInt
    <2>3. (TypeOK /\ Backed => \A i \in User : Balance(i, 0) \in Int)'
      BY BalanceInt, PTL
    <2> QED
      BY <2>1, <2>2, <2>3, StepKeeps
  <1> QED
    BY <1>1, InitPoolInv, StepPoolInv, PTL DEF Spec, OnlyOwnWithdrawLowers

-----------------------------------------------------------------------------
(***************************************************************************)
(* Solvency.  What GetBalance promises is not inductive: a token that      *)
(* arrives raises it by a share that was waiting for a remainder.  The     *)
(* books are: what they owe at their recorded accumulators is covered by   *)
(* the last seen balance, and each settlement raises the accumulator by a  *)
(* d with d * totalPledge at most what has arrived since.  That bounds the *)
(* new debt because totalPledge is the sum of the stakes, so the two       *)
(* halves of SolventUnlessTorn need each other.                            *)
(***************************************************************************)
BookOwed(t) == SumFunctionOnSet([i \in User |-> Book(i, t)], User)

StakeSum == SumFunctionOnSet([i \in User |-> Stake(i)], User)

SolventInv ==
    /\ entries \subseteq User \X Tokens
    /\ \A t \in TokenIx \ Tokens : PoolBalance(t) >= 0
    /\ ~torn => /\ totalPledge = StakeSum
                /\ \A t \in Tokens :
                      BookOwed(t) + Earlier(t) <= tInfo[t].lastReward

\* The sum of the stakes as the property writes it.
LEMMA StakeSumIs == TotalStake = StakeSum
  BY DEF TotalStake, StakeSum, SumFunction

\* A change of one stake changes the sum by as much.
LEMMA StakeSumStep ==
    ASSUME TypeOK, TypeOK', NEW j \in User,
           \A i \in User \ {j} : amount'[i] = amount[i]
    PROVE  StakeSum' = StakeSum + (Stake(j)' - Stake(j))
  <1> DEFINE g == [i \in User |-> Stake(i)]
             h == [i \in User |-> Stake(i)']
  <1>1. IsFiniteSet(User) /\ 0 \in TokenIx
    BY AddressAssumption, MainToken
  <1>2. /\ \A y \in User : g[y] \in Int /\ h[y] \in Int
        /\ \A y \in User \ {j} : h[y] = g[y]
    BY <1>1 DEF Stake, TypeOK, RewardInfo
  <1>3. StakeSum = SumFunctionOnSet(g, User) /\ StakeSum' = SumFunctionOnSet(h, User)
    BY DEF StakeSum
  <1>4. g[j] = Stake(j) /\ h[j] = Stake(j)'
    OBVIOUS
  <1> HIDE DEF g, h
  <1>5. SumFunctionOnSet(h, User) = SumFunctionOnSet(g, User) + (h[j] - g[j])
    BY <1>1, <1>2, SumUpdate
  <1> QED
    BY <1>3, <1>4, <1>5

\* Books and stakes are integers, and so are their sums.
LEMMA BookType ==
    ASSUME TypeOK, NEW t \in TokenIx
    PROVE  /\ \A i \in User : Book(i, t) \in Int /\ Stake(i) \in Int
           /\ BookOwed(t) \in Int /\ StakeSum \in Int
           /\ Earlier(t) \in Nat
  <1> DEFINE g == [i \in User |-> Book(i, t)]
             h == [i \in User |-> Stake(i)]
  <1>1. IsFiniteSet(User) /\ 0 \in TokenIx
    BY AddressAssumption, MainToken
  <1>2. \A i \in User : Book(i, t) \in Int /\ Stake(i) \in Int
    BY <1>1 DEF Book, Stake, TypeOK, RewardInfo
  <1>3. \A i \in User : g[i] \in Int /\ h[i] \in Int
    BY <1>2
  <1>4. Earlier(t) \in Nat
    BY <1>1, AddressAssumption, AmountAssumption DEF Earlier
  <1> HIDE DEF g, h
  <1>5. SumFunctionOnSet(g, User) \in Int /\ SumFunctionOnSet(h, User) \in Int
    BY <1>1, <1>3, SumType
  <1> QED
    BY <1>2, <1>4, <1>5 DEF BookOwed, StakeSum, g, h

\* Settling a token of everybody's books by d, and adding e to one of them,
\* adds d for every main token staked, and e.
LEMMA OwedStep ==
    ASSUME NEW S, IsFiniteSet(S), NEW b, NEW c, NEW s, NEW j \in S,
           NEW d \in Int, NEW e \in Int,
           \A i \in S : b[i] \in Int /\ c[i] \in Int /\ s[i] \in Int,
           \A i \in S \ {j} : c[i] <= b[i] + d * s[i],
           c[j] <= b[j] + d * s[j] + e
    PROVE  SumFunctionOnSet(c, S)
             <= SumFunctionOnSet(b, S) + d * SumFunctionOnSet(s, S) + e
  <1> DEFINE ds  == [i \in S |-> d * s[i]]
             mid == [i \in S |-> b[i] + ds[i]]
             top == [i \in S |-> IF i = j THEN mid[i] + e ELSE mid[i]]
  <1>1. /\ \A i \in S : s[i] \in Int /\ ds[i] = d * s[i]
        /\ \A i \in S : ds[i] \in Int
    OBVIOUS
  <1>2. \A i \in S : b[i] \in Int /\ ds[i] \in Int /\ mid[i] = b[i] + ds[i]
    BY <1>1
  <1> HIDE DEF ds
  <1>3. /\ \A i \in S : mid[i] \in Int /\ top[i] \in Int
        /\ \A i \in S \ {j} : top[i] = mid[i]
        /\ top[j] - mid[j] = e
    BY <1>2
  <1>4. \A i \in S : c[i] \in Int /\ top[i] \in Int /\ c[i] <= top[i]
    BY <1>1, <1>2, <1>3
  <1> HIDE DEF mid, top
  <1>5. SumFunctionOnSet(ds, S) = d * SumFunctionOnSet(s, S)
    BY <1>1, SumScaled
  <1>6. SumFunctionOnSet(mid, S)
          = SumFunctionOnSet(b, S) + SumFunctionOnSet(ds, S)
    BY <1>2, SumOfSums
  <1>7. SumFunctionOnSet(top, S)
          = SumFunctionOnSet(mid, S) + (top[j] - mid[j])
    <2>1. /\ \A i \in S : mid[i] \in Int /\ top[i] \in Int
          /\ \A i \in S \ {j} : top[i] = mid[i]
      BY <1>3
    <2> QED
      BY <2>1, SumUpdate
  <1>8. SumFunctionOnSet(c, S) <= SumFunctionOnSet(top, S)
    BY <1>4, SumAtMost
  <1>9. /\ SumFunctionOnSet(b, S) \in Int /\ SumFunctionOnSet(ds, S) \in Int
        /\ SumFunctionOnSet(c, S) \in Int
    BY <1>2, <1>4, SumType
  <1> QED
    BY <1>3, <1>5, <1>6, <1>7, <1>8, <1>9

\* A pledge or a withdrawal keeps the books covered.
LEMMA BooksKept ==
    ASSUME TypeOK, TypeOK', SolventInv, NEW j \in User, BooksStep(j)
    PROVE  SolventInv'
  <1>1. /\ 0 \in TokenIx /\ Tokens \subseteq TokenIx /\ Tokens' = Tokens
        /\ IsFiniteSet(User)
    BY MainToken, AddressAssumption DEF BooksStep, Tokens
  <1>2. entries' \subseteq User \X Tokens'
    BY <1>1 DEF BooksStep, SolventInv
  <1>3. \A t \in TokenIx \ Tokens' : PoolBalance(t)' >= 0
    <2> TAKE t \in TokenIx \ Tokens'
    <2>1. PoolBalance(t)' >= PoolBalance(t) /\ PoolBalance(t) >= 0
      BY <1>1 DEF BooksStep, SolventInv
    <2>2. PoolBalance(t) \in Int /\ PoolBalance(t)' \in Int
      BY AddressAssumption DEF PoolBalance, BalanceOf, TypeOK, Ledger
    <2> QED
      BY <2>1, <2>2
  <1>4. ASSUME ~torn'
        PROVE  totalPledge' = StakeSum'
    <2>1. totalPledge' = totalPledge + (Stake(j)' - Stake(j)) /\ totalPledge = StakeSum
      BY <1>4 DEF BooksStep, SolventInv
    <2>2. StakeSum' = StakeSum + (Stake(j)' - Stake(j))
      BY StakeSumStep DEF BooksStep
    <2> QED
      BY <2>1, <2>2
  <1>5. ASSUME ~torn', NEW t \in Tokens
        PROVE  BookOwed(t)' + Earlier(t) <= tInfo'[t].lastReward
    <2>1. PICK d \in Nat, e \in Int : TokenBooks(j, t, d, e)
      BY DEF BooksStep
    <2>2. /\ totalPledge = StakeSum
          /\ BookOwed(t) + Earlier(t) <= tInfo[t].lastReward
      BY <1>5 DEF BooksStep, SolventInv
    <2> DEFINE b == [i \in User |-> Book(i, t)]
               c == [i \in User |-> Book(i, t)']
               s == [i \in User |-> Stake(i)]
    <2>3. \A i \in User : /\ Book(i, t) \in Int /\ Stake(i) \in Int
                          /\ Book(i, t)' \in Int /\ Stake(i)' \in Int
      BY <1>1 DEF Book, Stake, TypeOK, RewardInfo
    <2>4. \A i \in User \ {j} : Book(i, t)' = Book(i, t) + d * Stake(i)
      <3> TAKE i \in User \ {j}
      <3>1. /\ amount'[i] = amount[i]
            /\ amount[i][t] \in RewardInfo /\ tInfo[t] \in RewardInfo
            /\ Stake(i)' = Stake(i)
        BY <1>1 DEF BooksStep, TypeOK, Stake
      <3> DEFINE lag == tInfo[t].rewardAccum - amount[i][t].rewardAccum
      <3>2. /\ lag \in Int
            /\ tInfo'[t].rewardAccum - amount'[i][t].rewardAccum = lag + d
        BY <2>1, <3>1 DEF TokenBooks, RewardInfo
      <3>3. /\ Book(i, t) = amount[i][t].lastReward + lag * Stake(i)
            /\ Book(i, t)' = amount[i][t].lastReward + (lag + d) * Stake(i)
            /\ amount[i][t].lastReward \in Int
        BY <3>1, <3>2 DEF Book, RewardInfo
      <3> HIDE DEF lag
      <3>4. /\ (lag + d) * Stake(i) = lag * Stake(i) + d * Stake(i)
            /\ lag * Stake(i) \in Int /\ d * Stake(i) \in Int
        BY <2>3, <3>2
      <3> QED
        BY <3>3, <3>4
    <2>5. /\ \A i \in User : b[i] \in Int /\ c[i] \in Int /\ s[i] \in Int
          /\ \A i \in User \ {j} : c[i] <= b[i] + d * s[i]
      BY <2>3, <2>4
    <2>6. c[j] <= b[j] + d * s[j] + e
      BY <2>1 DEF TokenBooks
    <2>7. /\ BookOwed(t) = SumFunctionOnSet(b, User)
          /\ BookOwed(t)' = SumFunctionOnSet(c, User)
          /\ StakeSum = SumFunctionOnSet(s, User)
      BY DEF BookOwed, StakeSum
    <2> HIDE DEF b, c, s
    <2>8. SumFunctionOnSet(c, User)
             <= SumFunctionOnSet(b, User) + d * SumFunctionOnSet(s, User) + e
      BY <1>1, <2>5, <2>6, d \in Int, OwedStep
    <2>9. tInfo'[t].lastReward >= tInfo[t].lastReward + d * StakeSum + e
      BY <2>1, <2>2 DEF TokenBooks
    <2>10. /\ BookOwed(t) \in Int /\ StakeSum \in Int /\ Earlier(t) \in Int
           /\ d * StakeSum \in Int
           /\ tInfo[t].lastReward \in Int /\ tInfo'[t].lastReward \in Int
      BY <1>1, BookType DEF TypeOK, RewardInfo
    <2>11. BookOwed(t)' \in Int
      BY <1>1, <2>5, <2>7, SumType
    <2> QED
      BY <2>2, <2>7, <2>8, <2>9, <2>10, <2>11
  <1>6. \A t \in TokenIx : Earlier(t)' = Earlier(t)
    BY DEF Earlier
  <1> QED
    BY <1>1, <1>2, <1>3, <1>4, <1>5, <1>6 DEF SolventInv

\* A call that leaves the books alone keeps them covered.
LEMMA QuietBooksKept ==
    ASSUME TypeOK, TypeOK', SolventInv, QuietBooks
    PROVE  SolventInv'
  <1>1. Tokens' = Tokens
    BY DEF QuietBooks, Tokens
  <1>2. \A t \in TokenIx \ Tokens : PoolBalance(t)' >= 0
    <2> TAKE t \in TokenIx \ Tokens
    <2>1. PoolBalance(t)' >= PoolBalance(t) /\ PoolBalance(t) >= 0
      BY DEF QuietBooks, SolventInv
    <2>2. PoolBalance(t) \in Int /\ PoolBalance(t)' \in Int
      BY AddressAssumption DEF PoolBalance, BalanceOf, TypeOK, Ledger
    <2> QED
      BY <2>1, <2>2
  <1>3. /\ \A t \in TokenIx : BookOwed(t)' = BookOwed(t)
        /\ StakeSum' = StakeSum
    BY DEF QuietBooks, BookOwed, Book, StakeSum, Stake
  <1>4. Tokens \subseteq TokenIx
    BY MainToken
  <1> QED
    BY <1>1, <1>2, <1>3, <1>4 DEF SolventInv, QuietBooks, Earlier

\* A new token's books owe nothing.
LEMMA TokenBooksKept ==
    ASSUME TypeOK, TypeOK', Backed, SolventInv, RegisterToken
    PROVE  SolventInv'
  <1>0. PICK new : new = token
    OBVIOUS
  <1>1. /\ new \in TokenIx /\ new # 0 /\ new \notin Tokens
        /\ Tokens' = Tokens \cup {new} /\ Tokens \subseteq TokenIx
        /\ IsFiniteSet(User)
    <2>1. IsFiniteSet(User) /\ Tokens \subseteq TokenIx
      BY MainToken, AddressAssumption
    <2>2. /\ new \in TokenIx /\ new # 0 /\ new \notin Tokens
          /\ Tokens' = Tokens \cup {new}
      BY <1>0, AmountAssumption DEF RegisterToken, TypeOK, TokenIx, Tokens
    <2> QED
      BY <2>1, <2>2
  <1>2. /\ tInfo' = [tInfo EXCEPT ![new] = [rewardAccum |-> 0,
                                       lastReward |-> PoolBalance(new)]]
        /\ UNCHANGED <<erc, totalPledge, amount, entries, torn>>
    BY <1>0 DEF RegisterToken, Started, PoolBalance
  <1>3. \A t \in TokenIx : PoolBalance(t)' = PoolBalance(t)
    BY <1>2 DEF PoolBalance
  <1>4. StakeSum' = StakeSum
    BY <1>2 DEF StakeSum, Stake
  <1>5. ASSUME NEW t \in Tokens
        PROVE  BookOwed(t)' = BookOwed(t) /\ tInfo'[t] = tInfo[t]
    <2>1. tInfo'[t] = tInfo[t]
      BY <1>1, <1>2 DEF TypeOK
    <2> QED
      BY <1>2, <2>1 DEF BookOwed, Book, Stake
  <1>6. BookOwed(new)' = 0
    <2> DEFINE g == [i \in User |-> Book(i, new)']
    <2>1. \A i \in User : g[i] = 0
      <3> TAKE i \in User
      <3>1. <<i, new>> \notin entries
        BY <1>1 DEF SolventInv
      <3>2. amount[i][new] = NoReward
        BY <1>1, <3>1 DEF Backed
      <3>3. tInfo'[new].rewardAccum = 0
        BY <1>1, <1>2 DEF TypeOK
      <3>4. Book(i, new)' = amount[i][new].lastReward
                + (tInfo'[new].rewardAccum - amount[i][new].rewardAccum)
                    * Stake(i)
        BY <1>2 DEF Book, Stake
      <3>5. 0 \in TokenIx
        BY MainToken
      <3>6. Stake(i) \in Int
        BY <3>5 DEF Stake, TypeOK, RewardInfo
      <3> QED
        BY <3>2, <3>3, <3>4, <3>6 DEF NoReward
    <2> HIDE DEF g
    <2>2. SumFunctionOnSet(g, User) = 0
      BY <1>1, <2>1, SumZero
    <2> QED
      BY <2>2 DEF BookOwed, g
  <1>7. PoolBalance(new) >= 0
    BY <1>1 DEF SolventInv
  <1>8. tInfo'[new].lastReward = PoolBalance(new)
    BY <1>1, <1>2 DEF TypeOK
  <1>9. Earlier(new) = 0 /\ \A t \in TokenIx : Earlier(t)' = Earlier(t)
    BY <1>1 DEF Earlier
  <1>10. \A t \in TokenIx \ Tokens' : PoolBalance(t)' >= 0
    BY <1>1, <1>3 DEF SolventInv
  <1>11. entries' \subseteq User \X Tokens'
    BY <1>1, <1>2 DEF SolventInv
  <1>12. ASSUME ~torn', NEW t \in Tokens'
         PROVE  BookOwed(t)' + Earlier(t)' <= tInfo'[t].lastReward
    <2>1. ~torn
      BY <1>2, <1>12
    <2>2. CASE t = new
      <3>1. 0 + 0 <= PoolBalance(new)
        BY <1>7
      <3> QED
        BY <1>1, <1>6, <1>8, <1>9, <2>2, <3>1
    <2>3. CASE t # new
      BY <1>1, <1>5, <1>9, <2>1, <2>3 DEF SolventInv
    <2> QED
      BY <2>2, <2>3
  <1> QED
    BY <1>2, <1>4, <1>10, <1>11, <1>12 DEF SolventInv

\* A new pool owes nothing, and the main tokens it finds at its address are
\* not counted as arrived.
LEMMA InitSolvent == Init => SolventInv
  <1> SUFFICES ASSUME Init PROVE SolventInv
    OBVIOUS
  <1>1. /\ 0 \in TokenIx /\ IsFiniteSet(User)
        /\ \A t \in TokenIx : PoolBalance(t) = InitMoney[t][Pool]
        /\ \A t \in TokenIx : InitMoney[t][Pool] \in Nat
        /\ Tokens = {0}
    <2>1. 0 \in TokenIx /\ IsFiniteSet(User) /\ Pool \in Address
      BY AddressAssumption, AmountAssumption DEF TokenIx
    <2>2. \A t \in TokenIx : PoolBalance(t) = InitMoney[t][Pool]
      BY DEF Init, PoolBalance, BalanceOf, LedgerOf
    <2>3. \A t \in TokenIx : InitMoney[t][Pool] \in Nat
      BY <2>1, AmountAssumption
    <2>4. Tokens = {0}
      BY DEF Init, Tokens
    <2> QED
      BY <2>1, <2>2, <2>3, <2>4
  <1>2. \A i \in User, t \in TokenIx : amount[i][t] = NoReward
    BY DEF Init
  <1>3. tInfo[0] = [rewardAccum |-> 0, lastReward |-> InitMoney[0][Pool]]
    BY <1>1 DEF Init, Started, PoolBalance
  <1>4. StakeSum = 0
    <2> DEFINE g == [i \in User |-> Stake(i)]
    <2>1. \A i \in User : g[i] = 0
      BY <1>1, <1>2 DEF Stake, NoReward
    <2> HIDE DEF g
    <2>2. SumFunctionOnSet(g, User) = 0
      BY <1>1, <2>1, SumZero
    <2> QED
      BY <2>2 DEF StakeSum, g
  <1>5. BookOwed(0) = 0
    <2> DEFINE g == [i \in User |-> Book(i, 0)]
    <2>1. \A i \in User : g[i] = 0
      BY <1>1, <1>2, <1>3 DEF Book, Stake, NoReward
    <2> HIDE DEF g
    <2>2. SumFunctionOnSet(g, User) = 0
      BY <1>1, <2>1, SumZero
    <2> QED
      BY <2>2 DEF BookOwed, g
  <1>6. BookOwed(0) + Earlier(0) <= tInfo[0].lastReward
    BY <1>1, <1>3, <1>5 DEF Earlier
  <1>7. entries \subseteq User \X Tokens /\ totalPledge = StakeSum
    BY <1>4 DEF Init
  <1>8. \A t \in TokenIx : PoolBalance(t) >= 0
    BY <1>1
  <1> QED
    BY <1>1, <1>6, <1>7, <1>8 DEF SolventInv

\* Every step keeps it.
LEMMA StepSolvent ==
    PoolInv /\ SolventInv /\ [Next]_vars => SolventInv'
  <1> SUFFICES ASSUME PoolInv, SolventInv, [Next]_vars PROVE SolventInv'
    OBVIOUS
  <1>1. CASE Next
    <2>1. TypeOK /\ Backed /\ TypeOK'
      BY <1>1, StepKeeps DEF PoolInv
    <2>2. QuietBooks \/ RegisterToken \/ \E j \in User : BooksStep(j)
      BY <1>1, <2>1, StepKeeps
    <2> QED
      BY <2>1, <2>2, QuietBooksKept, TokenBooksKept, BooksKept
  <1>2. CASE UNCHANGED vars
    BY <1>2 DEF vars, SolventInv, BookOwed, Book, StakeSum, Stake, Tokens,
                PoolBalance, Earlier
  <1> QED
    BY <1>1, <1>2

\* Covered books are what solvency needs: settling now shares out no more than
\* has arrived.
LEMMA InvSolvent == PoolInv /\ SolventInv => SolventUnlessTorn
  <1> SUFFICES ASSUME PoolInv, SolventInv, ~torn
               PROVE  /\ totalPledge = TotalStake
                      /\ \A t \in Tokens : Owed(t) + Earlier(t) <= PoolBalance(t)
    BY DEF SolventUnlessTorn
  <1>1. totalPledge = StakeSum /\ totalPledge = TotalStake
    BY StakeSumIs DEF SolventInv
  <1>2. ASSUME NEW t \in Tokens
        PROVE  Owed(t) + Earlier(t) <= PoolBalance(t)
    <2>1. /\ TypeOK /\ Backed /\ t \in TokenIx
          /\ IsFiniteSet(User)
      BY MainToken, AddressAssumption DEF PoolInv
    <2>2. PICK d \in Nat : /\ SettledAccum(t) = tInfo[t].rewardAccum + d
                           /\ d * totalPledge <= Arrived(t)
      BY <2>1, ShareWithin
    <2> DEFINE b  == [i \in User |-> Book(i, t)]
               s  == [i \in User |-> Stake(i)]
               ds == [i \in User |-> d * Stake(i)]
               o  == [i \in User |-> Balance(i, t)]
    <2>3. \A i \in User : Balance(i, t) = Book(i, t) + d * Stake(i)
      <3> TAKE i \in User
      <3> DEFINE lag == tInfo[t].rewardAccum - amount[i][t].rewardAccum
      <3>1. /\ amount[i][t] \in RewardInfo /\ tInfo[t] \in RewardInfo
            /\ Stake(i) \in Int
            /\ Balance(i, t) = amount[i][t].lastReward
                  + (SettledAccum(t) - amount[i][t].rewardAccum) * Stake(i)
        BY <2>1, BalanceType DEF TypeOK
      <3>2. /\ lag \in Int
            /\ SettledAccum(t) - amount[i][t].rewardAccum = lag + d
            /\ amount[i][t].lastReward \in Int
        BY <2>2, <3>1 DEF RewardInfo
      <3>3. Book(i, t) = amount[i][t].lastReward + lag * Stake(i)
        BY DEF Book
      <3> HIDE DEF lag
      <3>4. /\ (lag + d) * Stake(i) = lag * Stake(i) + d * Stake(i)
            /\ lag * Stake(i) \in Int /\ d * Stake(i) \in Int
        BY <3>1, <3>2
      <3> QED
        BY <3>1, <3>2, <3>3, <3>4
    <2>4. \A i \in User : Book(i, t) \in Int /\ Stake(i) \in Int
      BY <2>1, BookType
    <2>5. /\ \A i \in User : s[i] \in Int /\ ds[i] = d * s[i]
          /\ \A i \in User : b[i] \in Int /\ ds[i] \in Int
                             /\ o[i] = b[i] + ds[i]
      BY <2>3, <2>4
    <2>6. /\ Owed(t) = SumFunctionOnSet(o, User)
          /\ BookOwed(t) = SumFunctionOnSet(b, User)
          /\ StakeSum = SumFunctionOnSet(s, User)
      BY DEF Owed, SumFunction, BookOwed, StakeSum
    <2> HIDE DEF b, s, ds, o
    <2>7. SumFunctionOnSet(o, User)
            = SumFunctionOnSet(b, User) + SumFunctionOnSet(ds, User)
      BY <2>1, <2>5, SumOfSums
    <2>8. SumFunctionOnSet(ds, User) = d * SumFunctionOnSet(s, User)
      BY <2>1, <2>5, d \in Int, SumScaled
    <2>9. Owed(t) = BookOwed(t) + d * StakeSum
      BY <2>6, <2>7, <2>8
    <2>10. /\ BookOwed(t) \in Int /\ StakeSum \in Int /\ Earlier(t) \in Int
           /\ d * StakeSum \in Int /\ d * StakeSum <= Arrived(t)
      BY <1>1, <2>1, <2>2, BookType
    <2>11. /\ tInfo[t].lastReward \in Int /\ PoolBalance(t) \in Int
           /\ Arrived(t) = PoolBalance(t) - tInfo[t].lastReward
      BY <2>1, SettledAccumType DEF Arrived, TypeOK, RewardInfo
    <2>12. BookOwed(t) + Earlier(t) <= tInfo[t].lastReward
      BY DEF SolventInv
    <2> QED
      BY <2>9, <2>10, <2>11, <2>12
  <1> QED
    BY <1>1, <1>2

\* As long as no call failed half-way, totalPledge is the sum of the stakes and
\* the pool can pay everything it promises, in every token.
THEOREM PledgeSolvent == Spec => []SolventUnlessTorn
  BY InitPoolInv, InitSolvent, StepPoolInv, StepSolvent, InvSolvent, PTL
  DEF Spec
=============================================================================
