---------------------------- MODULE FsMgr_proofs ----------------------------
(***************************************************************************)
(* Proofs about FsMgr, for every number of users, providers, keepers and   *)
(* orders, and for any terms, amounts and claims.                          *)
(*                                                                         *)
(* The invariants build on each other.  Types come first.  Orders end in   *)
(* turn because the size of the books at a provider never exceeds that of  *)
(* the open orders (OrderInv), which is also the map to OrderBook; with    *)
(* that, the price of a settlement is the sum of the prices of its open    *)
(* orders.  As long as no order has a negative price, neither has the sum, *)
(* so what can be paid never shrinks, nothing is paid beyond it, and pot   *)
(* and balances are not negative.  The keepers' counts add up to           *)
(* totalCount, so their shares stay within the pot.  Then come the books   *)
(* against the tokens of this contract.  Last, what is shown is there: a   *)
(* settlement within its means holds at least what it shows as locked, the *)
(* shares are within the pot, and the books turn both into tokens.         *)
(***************************************************************************)
EXTENDS FsMgr, ErcOps_proofs, Sums_proofs

\* Arithmetic of spans and percentages.
LEMMA ModWord == \A a \in Int, w \in Nat \ {0} : a % w \in 0 .. w - 1
  BY SMT
\* Products of what is not negative.
LEMMA TimesNat == \A a \in Nat, b \in Nat : a * b \in Nat
  BY SMT
\* Percentages are whole numbers and grow with what they are taken of.
LEMMA Percent ==
    \A a \in Nat : /\ a \div 100 \in Nat
                   /\ \A b \in Nat : a <= b => a \div 100 <= b \div 100
  BY SMT

\* The constants that every proof needs.
LEMMA Constants ==
    /\ IsFiniteSet(Index) /\ IsFiniteSet(Fs) /\ IsFiniteSet(Provider)
    /\ IsFiniteSet(Keeper)
    /\ Index \subseteq Address /\ RoleMgr \in Address /\ FsAddr \in Address
    /\ RoleMgr \notin Index /\ FsAddr \notin Index /\ RoleMgr # FsAddr
    /\ User \subseteq Index /\ Provider \subseteq Index /\ Keeper \subseteq Index
    /\ Foundation \in Index
    /\ User \subseteq Fs /\ Repair \in Fs
    /\ Word \in Nat \ {0} /\ MaxTime \in Nat /\ MaxTime < Word
  <1> USE FsAssumption DEF Index, Fs
  <1>1. IsFiniteSet(Index)
    OBVIOUS
  <1>2. /\ User \subseteq Index /\ Provider \subseteq Index
        /\ Keeper \subseteq Index
    OBVIOUS
  <1>3. IsFiniteSet(User) /\ IsFiniteSet(Provider) /\ IsFiniteSet(Keeper)
    BY <1>1, <1>2, FS_Subset
  <1>4. IsFiniteSet(Fs)
    <2>1. IsFiniteSet({Repair})
      BY FS_Singleton
    <2> QED
      BY <1>3, <2>1, FS_Union
  <1> QED
    BY <1>1, <1>2, <1>3, <1>4

\* The terms of order n of f at p, and the amounts computed from them.
LEMMA TermsType ==
    ASSUME NEW f \in Fs, NEW p \in Provider, NEW n \in Nat,
           n + 1 \in DOMAIN Terms[f][p],
           NEW o, o = Terms[f][p][n + 1]
    PROVE  /\ o.start \in Nat /\ o.end \in Nat /\ o.start < o.end
           /\ o.end < Word
           /\ o.size \in Nat \ {0} /\ o.sprice \in Int
           /\ Pay(o) \in Int /\ Manage(o) \in Int /\ Tax(o) \in Int
           /\ EndPay(o) \in Int /\ Cost(o) \in Int
           /\ Cost(o) = Pay(o) + Manage(o) + Tax(o)
           /\ o.sprice >= 0 => /\ Pay(o) \in Nat /\ Manage(o) \in Nat
                               /\ Tax(o) \in Nat /\ EndPay(o) \in Nat
                               /\ Cost(o) \in Nat
           /\ n < Len(Terms[f][p]) /\ n \in Nonces(f, p)
  <1>1. Terms[f][p] \in Seq(Order)
    BY FsAssumption
  <1>2. o \in Order /\ n < Len(Terms[f][p]) /\ Len(Terms[f][p]) \in Nat
    BY <1>1
  <1>3. o.start < o.end /\ o.end < Word
    BY FsAssumption
  <1>4. o.end - o.start \in Nat
    BY <1>2, <1>3 DEF Order
  <1>5. /\ Pay(o) \in Int /\ Pay(o) \div 100 \in Int
        /\ o.sprice >= 0 => Pay(o) \in Nat
    <2> DEFINE span == o.end - o.start
    <2>1. span \in Nat /\ o.sprice \in Int
      BY <1>2, <1>4 DEF Order
    <2> HIDE DEF span
    <2>2. o.sprice * span \in Int
      BY <2>1
    <2>3. o.sprice >= 0 => o.sprice * span \in Nat
      BY <2>1, TimesNat
    <2>4. Pay(o) = o.sprice * span
      BY DEF Pay, span
    <2> QED
      BY <2>2, <2>3, <2>4
  <1>6. o.sprice >= 0 => Pay(o) \div 100 \in Nat
    BY <1>5, Percent
  <1>7. /\ o.start \in Nat /\ o.end \in Nat
        /\ o.size \in Nat \ {0} /\ o.sprice \in Int
    BY <1>2 DEF Order
  <1>8. /\ Manage(o) \in Int /\ Tax(o) \in Int /\ EndPay(o) \in Int
        /\ Cost(o) \in Int /\ Cost(o) = Pay(o) + Manage(o) + Tax(o)
        /\ o.sprice >= 0 => /\ Manage(o) \in Nat /\ Tax(o) \in Nat
                            /\ EndPay(o) \in Nat /\ Cost(o) \in Nat
    BY <1>5, <1>6 DEF Manage, Tax, EndPay, Cost
  <1>9. n \in Nonces(f, p)
    BY <1>2 DEF Nonces
  <1> QED
    BY <1>2, <1>3, <1>5, <1>7, <1>8, <1>9

-----------------------------------------------------------------------------
\* Settlement operators (fs.go:74, fs.go:99, fs.go:115): what they return.

\* An order that is added raises quota, pay of the keepers and price, and what
\* can be paid does not shrink at a price that is not negative.
LEMMA AddFields ==
    ASSUME NEW s \in Settlement, NEW o
    PROVE  /\ Add(s, o).Time = Later(s.Time, o.start)
           /\ Add(s, o).Size = (s.Size + s.Size) % Word
           /\ Add(s, o).Price = s.Price + o.sprice
           /\ Add(s, o).MaxPay = s.MaxPay + Pay(o)
           /\ Add(s, o).HasPaid = s.HasPaid
           /\ Add(s, o).CanPay =
                 s.CanPay + (IF s.Time < o.start THEN o.start - s.Time
                             ELSE s.Time - o.start) * s.Price
           /\ Add(s, o).Lost = s.Lost
           /\ Add(s, o).LostPaid = s.LostPaid
           /\ Add(s, o).ManagePay = s.ManagePay + Manage(o)
           /\ Add(s, o).EndPaid = s.EndPaid
           /\ Add(s, o).LinearPaid = s.LinearPaid
  BY DEF Settlement, Add

\* What a settlement's fields are.
LEMMA SettlementFields ==
    ASSUME NEW s \in Settlement
    PROVE  /\ s.Time \in Nat /\ s.Size \in 0 .. Word - 1 /\ s.Price \in Int
           /\ s.MaxPay \in Int /\ s.HasPaid \in Nat /\ s.CanPay \in Int
           /\ s.Lost \in Nat /\ s.LostPaid \in Int /\ s.ManagePay \in Int
           /\ s.EndPaid \in Int /\ s.LinearPaid \in Nat
  BY DEF Settlement

\* An order that is added leaves a settlement, and what can be paid does not
\* shrink at a price that is not negative.
LEMMA AddType ==
    ASSUME NEW s \in Settlement, NEW o, o.start \in Nat,
           o.sprice \in Int, Pay(o) \in Int, Manage(o) \in Int
    PROVE  /\ Add(s, o) \in Settlement
           /\ s.Price >= 0 => Add(s, o).CanPay >= s.CanPay
  <1> DEFINE span == IF s.Time < o.start THEN o.start - s.Time
                     ELSE s.Time - o.start
             t == Later(s.Time, o.start)
             z == (s.Size + s.Size) % Word
             c == s.CanPay + span * s.Price
             r == s.Price + o.sprice
             m == s.MaxPay + Pay(o)
             g == s.ManagePay + Manage(o)
  <1>1. span \in Nat /\ t \in Nat
    BY SettlementFields DEF Later
  <1>2. span * s.Price \in Int /\ (s.Price >= 0 => span * s.Price >= 0)
    <2>1. s.Price \in Int
      BY SettlementFields
    <2> HIDE DEF span
    <2>2. span * s.Price \in Int
      BY <1>1, <2>1
    <2>3. s.Price >= 0 => span * s.Price \in Nat
      BY <1>1, <2>1, TimesNat
    <2> QED
      BY <2>2, <2>3
  <1>3. z \in 0 .. Word - 1
    <2>1. s.Size + s.Size \in Int /\ Word \in Nat \ {0}
      BY SettlementFields, Constants
    <2> QED
      BY <2>1, ModWord
  <1> HIDE DEF span
  <1>4. c \in Int /\ r \in Int /\ m \in Int /\ g \in Int
    BY <1>2, SettlementFields
  <1>5. Add(s, o) = [s EXCEPT !.Time = t, !.CanPay = c, !.Price = r,
                              !.Size = z, !.MaxPay = m, !.ManagePay = g]
    BY DEF Add, span
  <1>6. s.Price >= 0 => c >= s.CanPay
    BY <1>2, SettlementFields
  <1>7. Add(s, o).CanPay = c
    BY AddFields DEF span
  <1> HIDE DEF t, z, c, r, m, g
  <1>8. Add(s, o) \in Settlement
    BY ZenonT(30), <1>1, <1>3, <1>4, <1>5 DEF Settlement
  <1> QED
    BY <1>6, <1>7, <1>8

\* An order that ends lowers the price and pays the keepers a percent.
LEMMA EndFields ==
    ASSUME NEW s \in Settlement, NEW o
    PROVE  /\ End(s, o).Time = Later(s.Time, o.end)
           /\ End(s, o).Size = Span(o.size, s.Size)
           /\ End(s, o).Price = s.Price - o.sprice
           /\ End(s, o).MaxPay = s.MaxPay
           /\ End(s, o).HasPaid = s.HasPaid
           /\ End(s, o).CanPay = s.CanPay + Span(s.Time, o.end) * s.Price
           /\ End(s, o).Lost = s.Lost
           /\ End(s, o).LostPaid = s.LostPaid
           /\ End(s, o).ManagePay = s.ManagePay
           /\ End(s, o).EndPaid = s.EndPaid + EndPay(o)
           /\ End(s, o).LinearPaid = s.LinearPaid
  BY DEF Settlement, End, Sub

\* The difference of two clock values is one, and of ordered ones exact.
LEMMA SpanType ==
    ASSUME NEW a \in Nat, NEW b \in Nat
    PROVE  /\ Span(a, b) \in 0 .. Word - 1
           /\ (a <= b /\ b < Word) => Span(a, b) = b - a
  <1>1. b - a \in Int /\ Word \in Nat \ {0}
    BY Constants
  <1>2. Span(a, b) \in 0 .. Word - 1
    BY <1>1, ModWord DEF Span
  <1>3. (a <= b /\ b < Word) => (b - a) % Word = b - a
    BY <1>1, SMT
  <1> QED
    BY <1>2, <1>3 DEF Span

\* So does an order that ends.
LEMMA EndType ==
    ASSUME NEW s \in Settlement, NEW o, o.end \in Nat,
           o.size \in Nat, o.sprice \in Int, EndPay(o) \in Int
    PROVE  /\ End(s, o) \in Settlement
           /\ s.Price >= 0 => End(s, o).CanPay >= s.CanPay
  <1> DEFINE span == Span(s.Time, o.end)
             t == Later(s.Time, o.end)
             z == Span(o.size, s.Size)
             c == s.CanPay + span * s.Price
             r == s.Price - o.sprice
             e == s.EndPaid + EndPay(o)
  <1>1. span \in Nat /\ t \in Nat
    <2>1. s.Time \in Nat /\ Word \in Nat \ {0}
      BY SettlementFields, Constants
    <2>2. span \in 0 .. Word - 1
      BY <2>1, SpanType
    <2> HIDE DEF span
    <2>3. span \in Nat
      BY <2>1, <2>2
    <2> QED
      BY <2>1, <2>3 DEF Later
  <1>2. span * s.Price \in Int /\ (s.Price >= 0 => span * s.Price >= 0)
    <2>1. s.Price \in Int
      BY SettlementFields
    <2> HIDE DEF span
    <2>2. span * s.Price \in Int
      BY <1>1, <2>1
    <2>3. s.Price >= 0 => span * s.Price \in Nat
      BY <1>1, <2>1, TimesNat
    <2> QED
      BY <2>2, <2>3
  <1>3. z \in 0 .. Word - 1
    <2>1. s.Size \in Nat
      BY SettlementFields, Constants
    <2> QED
      BY <2>1, SpanType
  <1> HIDE DEF span
  <1>4. c \in Int /\ r \in Int /\ e \in Int
    BY <1>2, SettlementFields
  <1>5. End(s, o) = [[s EXCEPT !.Time = t, !.CanPay = c, !.Price = r,
                               !.Size = z] EXCEPT !.EndPaid = e]
    BY DEF End, Sub, span, Settlement
  <1>6. s.Price >= 0 => c >= s.CanPay
    BY <1>2, SettlementFields
  <1>7. End(s, o).CanPay = c
    BY EndFields DEF span
  <1> HIDE DEF t, z, c, r, e
  <1>8. End(s, o) \in Settlement
    BY ZenonT(30), <1>1, <1>3, <1>4, <1>5 DEF Settlement
  <1> QED
    BY <1>6, <1>7, <1>8

\* A claim records the loss and the accrual up to now.
LEMMA AccruedFields ==
    ASSUME NEW s \in Settlement, NEW lost
    PROVE  /\ Accrued(s, lost).Time = Later(s.Time, now)
           /\ Accrued(s, lost).Size = s.Size
           /\ Accrued(s, lost).Price = s.Price
           /\ Accrued(s, lost).MaxPay = s.MaxPay
           /\ Accrued(s, lost).HasPaid = s.HasPaid
           /\ Accrued(s, lost).CanPay =
                 s.CanPay + (IF s.Time < now THEN now - s.Time ELSE 0) * s.Price
           /\ Accrued(s, lost).Lost = lost
           /\ Accrued(s, lost).LostPaid = s.LostPaid
           /\ Accrued(s, lost).ManagePay = s.ManagePay
           /\ Accrued(s, lost).EndPaid = s.EndPaid
           /\ Accrued(s, lost).LinearPaid = s.LinearPaid
  BY DEF Settlement, Accrued

\* So does a claim before it is compared with what can be paid.
LEMMA AccruedType ==
    ASSUME NEW s \in Settlement, NEW lost \in Nat, now \in Nat
    PROVE  /\ Accrued(s, lost) \in Settlement
           /\ s.Price >= 0 => Accrued(s, lost).CanPay >= s.CanPay
  <1> DEFINE span == IF s.Time < now THEN now - s.Time ELSE 0
             t == Later(s.Time, now)
             c == s.CanPay + span * s.Price
  <1>1. span \in Nat /\ t \in Nat
    BY SettlementFields DEF Later
  <1>2. span * s.Price \in Int /\ (s.Price >= 0 => span * s.Price >= 0)
    <2>1. s.Price \in Int
      BY SettlementFields
    <2> HIDE DEF span
    <2>2. span * s.Price \in Int
      BY <1>1, <2>1
    <2>3. s.Price >= 0 => span * s.Price \in Nat
      BY <1>1, <2>1, TimesNat
    <2> QED
      BY <2>2, <2>3
  <1> HIDE DEF span
  <1>4. c \in Int
    BY <1>2, SettlementFields
  <1>5. Accrued(s, lost) = [s EXCEPT !.Lost = lost, !.CanPay = c, !.Time = t]
    BY DEF Accrued, span
  <1>6. s.Price >= 0 => c >= s.CanPay
    BY <1>2, SettlementFields
  <1>7. Accrued(s, lost).CanPay = c
    BY AccruedFields DEF span
  <1> HIDE DEF t, c
  <1>8. Accrued(s, lost) \in Settlement
    BY <1>1, <1>4, <1>5 DEF Settlement
  <1> QED
    BY <1>6, <1>7, <1>8

\* A claim that is granted sets what has been paid and what the keepers got.
LEMMA PaidFields ==
    ASSUME NEW s \in Settlement, NEW pay
    PROVE  /\ Paid(s, pay).Time = s.Time
           /\ Paid(s, pay).Size = s.Size
           /\ Paid(s, pay).Price = s.Price
           /\ Paid(s, pay).MaxPay = s.MaxPay
           /\ Paid(s, pay).HasPaid = pay
           /\ Paid(s, pay).CanPay = s.CanPay
           /\ Paid(s, pay).Lost = s.Lost
           /\ Paid(s, pay).LostPaid = s.LostPaid
           /\ Paid(s, pay).ManagePay = s.ManagePay
           /\ Paid(s, pay).EndPaid = s.EndPaid
           /\ Paid(s, pay).LinearPaid = s.LinearPaid + Linear(s, pay)
  BY DEF Settlement, Paid

\* A granted claim leaves a settlement, and the keepers never give back.
LEMMA PaidType ==
    ASSUME NEW s \in Settlement, NEW pay \in Nat
    PROVE  Paid(s, pay) \in Settlement /\ Linear(s, pay) \in Nat
  <1> DEFINE l == s.LinearPaid + Linear(s, pay)
  <1>1. pay \div 100 \in Nat
    BY Percent
  <1>2. Linear(s, pay) \in Nat
    BY <1>1, SettlementFields DEF Linear
  <1>3. l \in Nat
    BY <1>2, SettlementFields
  <1>4. Paid(s, pay) = [s EXCEPT !.HasPaid = pay, !.LinearPaid = l]
    BY DEF Paid
  <1> HIDE DEF l
  <1> QED
    BY <1>2, <1>3, <1>4 DEF Settlement

\* The loss that pays for a repair.
LEMMA RepairPaidFields ==
    ASSUME NEW s \in Settlement, NEW o
    PROVE  /\ RepairPaid(s, o).Time = s.Time
           /\ RepairPaid(s, o).Size = s.Size
           /\ RepairPaid(s, o).Price = s.Price
           /\ RepairPaid(s, o).MaxPay = s.MaxPay
           /\ RepairPaid(s, o).HasPaid = s.HasPaid
           /\ RepairPaid(s, o).CanPay = s.CanPay
           /\ RepairPaid(s, o).Lost = s.Lost
           /\ RepairPaid(s, o).LostPaid = s.LostPaid + Pay(o)
           /\ RepairPaid(s, o).ManagePay = s.ManagePay
           /\ RepairPaid(s, o).EndPaid = s.EndPaid
           /\ RepairPaid(s, o).LinearPaid = s.LinearPaid
  BY DEF Settlement, RepairPaid

\* A repair that is paid from losses leaves a settlement.
LEMMA RepairPaidType ==
    ASSUME NEW s \in Settlement, NEW o, Pay(o) \in Int
    PROVE  RepairPaid(s, o) \in Settlement
  <1> DEFINE l == s.LostPaid + Pay(o)
  <1>1. l \in Int
    BY SettlementFields
  <1>2. RepairPaid(s, o) = [s EXCEPT !.LostPaid = l]
    BY DEF RepairPaid
  <1> HIDE DEF l
  <1> QED
    BY <1>1, <1>2 DEF Settlement

\* A new provider's settlement is empty.
LEMMA NewType ==
    /\ newSettlement \in Settlement
    /\ newSettlement.Price = 0 /\ newSettlement.CanPay = 0
    /\ newSettlement.HasPaid = 0 /\ newSettlement.LinearPaid = 0
    /\ newSettlement.LostPaid = 0 /\ newSettlement.EndPaid = 0
    /\ newSettlement.MaxPay = 0 /\ newSettlement.ManagePay = 0
  BY Constants DEF newSettlement, Settlement

-----------------------------------------------------------------------------
(***************************************************************************)
(* Types, and what each call changes, entry by entry                       *)
(***************************************************************************)
Aggregate == [nonce : Nat, subNonce : Nat, size : Int, price : Int]

\* Opening and closing an order change the books at its provider.
LEMMA BookFields ==
    ASSUME NEW b \in Aggregate, NEW o, o.size \in Nat, o.sprice \in Int
    PROVE  /\ Opened(b, o) \in Aggregate
           /\ Opened(b, o).nonce = b.nonce + 1
           /\ Opened(b, o).subNonce = b.subNonce
           /\ Opened(b, o).size = b.size + o.size
           /\ Closed(b, o) \in Aggregate
           /\ Closed(b, o).nonce = b.nonce
           /\ Closed(b, o).subNonce = b.subNonce
           /\ Closed(b, o).size = b.size - o.size
           /\ Ended(b, o) \in Aggregate
           /\ Ended(b, o).nonce = b.nonce
           /\ Ended(b, o).subNonce = b.subNonce + 1
           /\ Ended(b, o).size = b.size - o.size
  <1> DEFINE n == b.nonce + 1
             m == b.subNonce + 1
             up == b.size + o.size
             down == b.size - o.size
             more == b.price + o.sprice
             less == b.price - o.sprice
  <1>1. /\ n \in Nat /\ m \in Nat /\ up \in Int /\ down \in Int
        /\ more \in Int /\ less \in Int
    BY DEF Aggregate
  <1>2. /\ Opened(b, o) = [b EXCEPT !.nonce = n, !.size = up, !.price = more]
        /\ Closed(b, o) = [b EXCEPT !.size = down, !.price = less]
        /\ Ended(b, o) = [[b EXCEPT !.size = down, !.price = less]
                             EXCEPT !.subNonce = m]
    BY DEF Opened, Closed, Ended, Aggregate
  <1>3. /\ Opened(b, o).nonce = b.nonce + 1
        /\ Opened(b, o).subNonce = b.subNonce
        /\ Opened(b, o).size = b.size + o.size
    BY DEF Opened, Aggregate
  <1>4. /\ Closed(b, o).nonce = b.nonce
        /\ Closed(b, o).subNonce = b.subNonce
        /\ Closed(b, o).size = b.size - o.size
    BY DEF Closed, Aggregate
  <1>5. /\ Ended(b, o).nonce = b.nonce
        /\ Ended(b, o).subNonce = b.subNonce + 1
        /\ Ended(b, o).size = b.size - o.size
    BY DEF Ended, Closed, Aggregate
  <1> HIDE DEF n, m, up, down, more, less
  <1>6. /\ [b EXCEPT !.nonce = n, !.size = up, !.price = more] \in Aggregate
        /\ [b EXCEPT !.size = down, !.price = less] \in Aggregate
        /\ [[b EXCEPT !.size = down, !.price = less] EXCEPT !.subNonce = m]
              \in Aggregate
    BY <1>1 DEF Aggregate
  <1> QED
    BY <1>2, <1>3, <1>4, <1>5, <1>6

\* A call that stores new books b for f at p.
LEMMA BooksStored ==
    ASSUME NEW a \in [Fs -> [Provider -> Aggregate]], NEW f \in Fs,
           NEW p \in Provider, NEW b \in Aggregate
    PROVE  /\ [a EXCEPT ![f][p] = b] \in [Fs -> [Provider -> Aggregate]]
           /\ \A g \in Fs, q \in Provider :
                [a EXCEPT ![f][p] = b][g][q]
                   = IF g = f /\ q = p THEN b ELSE a[g][q]
  OBVIOUS

\* A call that opens an order of f at p.
LEMMA OpenedStep ==
    ASSUME NEW a \in [Fs -> [Provider -> Aggregate]], NEW f \in Fs,
           NEW p \in Provider, NEW o, o.size \in Nat, o.sprice \in Int
    PROVE  /\ [a EXCEPT ![f][p] = Opened(@, o)]
                 \in [Fs -> [Provider -> Aggregate]]
           /\ \A g \in Fs, q \in Provider :
                [a EXCEPT ![f][p] = Opened(@, o)][g][q]
                   = IF g = f /\ q = p THEN Opened(a[f][p], o) ELSE a[g][q]
  <1> DEFINE b == Opened(a[f][p], o)
  <1>1. a[f][p] \in Aggregate
    OBVIOUS
  <1>2. b \in Aggregate
    BY <1>1, BookFields
  <1>3. [a EXCEPT ![f][p] = Opened(@, o)] = [a EXCEPT ![f][p] = b]
    OBVIOUS
  <1> HIDE DEF b
  <1>4. /\ [a EXCEPT ![f][p] = b] \in [Fs -> [Provider -> Aggregate]]
        /\ \A g \in Fs, q \in Provider :
              [a EXCEPT ![f][p] = b][g][q]
                 = IF g = f /\ q = p THEN b ELSE a[g][q]
    BY <1>2, BooksStored
  <1> QED
    BY <1>3, <1>4 DEF b

\* A call that closes an order of f at p, and counts it as ended or not.
LEMMA ClosedStep ==
    ASSUME NEW a \in [Fs -> [Provider -> Aggregate]], NEW f \in Fs,
           NEW p \in Provider, NEW o, o.size \in Nat, o.sprice \in Int
    PROVE  /\ [a EXCEPT ![f][p] = Closed(@, o)]
                 \in [Fs -> [Provider -> Aggregate]]
           /\ \A g \in Fs, q \in Provider :
                [a EXCEPT ![f][p] = Closed(@, o)][g][q]
                   = IF g = f /\ q = p THEN Closed(a[f][p], o) ELSE a[g][q]
           /\ [a EXCEPT ![f][p] = Ended(@, o)]
                 \in [Fs -> [Provider -> Aggregate]]
           /\ \A g \in Fs, q \in Provider :
                [a EXCEPT ![f][p] = Ended(@, o)][g][q]
                   = IF g = f /\ q = p
                     THEN Ended(a[f][p], o)
                     ELSE a[g][q]
  <1> DEFINE b == Closed(a[f][p], o)
             c == Ended(a[f][p], o)
  <1>1. a[f][p] \in Aggregate
    OBVIOUS
  <1>2. b \in Aggregate /\ c \in Aggregate
    BY <1>1, BookFields
  <1>3. [a EXCEPT ![f][p] = Closed(@, o)] = [a EXCEPT ![f][p] = b]
    OBVIOUS
  <1>4. [a EXCEPT ![f][p] = Ended(@, o)]
           = [a EXCEPT ![f][p] = c]
    OBVIOUS
  <1> HIDE DEF b, c
  <1>5. /\ [a EXCEPT ![f][p] = b] \in [Fs -> [Provider -> Aggregate]]
        /\ \A g \in Fs, q \in Provider :
              [a EXCEPT ![f][p] = b][g][q]
                 = IF g = f /\ q = p THEN b ELSE a[g][q]
    BY <1>2, BooksStored
  <1>6. /\ [a EXCEPT ![f][p] = c] \in [Fs -> [Provider -> Aggregate]]
        /\ \A g \in Fs, q \in Provider :
              [a EXCEPT ![f][p] = c][g][q]
                 = IF g = f /\ q = p THEN c ELSE a[g][q]
    BY <1>2, BooksStored
  <1> QED
    BY <1>3, <1>4, <1>5, <1>6 DEF b, c

\* The fields of the state that the calls read.
LEMMA StateTypes ==
    ASSUME TypeOK
    PROVE  /\ ao \in [Fs -> [Provider -> Aggregate]]
           /\ se \in [Provider -> Settlement]
           /\ balance \in [Index -> Int]
           /\ count \in [Keeper -> Nat] /\ totalCount \in Nat /\ tAcc \in Int
           /\ keepers \subseteq Keeper /\ proInfo \subseteq Provider
           /\ now \in Nat /\ now <= MaxTime /\ lastTime \in Nat
           /\ lastTime <= now /\ erc \in Ledger /\ unbacked \in Int
           /\ given \in [Index -> Nat] /\ clobbered \in BOOLEAN
           /\ entries \subseteq Index
  BY Constants DEF TypeOK, Aggregate

\* What is left of TypeOK after a call that keeps the clock.
LEMMA TypesKept ==
    ASSUME TypeOK, now' = now, fs' = fs,
           erc' \in Ledger, ao' \in [Fs -> [Provider -> Aggregate]],
           se' \in [Provider -> Settlement], proInfo' \subseteq Provider,
           balance' \in [Index -> Int], count' \in [Keeper -> Nat],
           keepers' = keepers, totalCount' \in Nat, tAcc' \in Int,
           lastTime' = lastTime, unbacked' \in Int, clobbered' \in BOOLEAN,
           given' \in [Index -> Nat], entries' \subseteq Index
    PROVE  TypeOK'
  BY DEF TypeOK, Aggregate

\* A call counted for a keeper keeps the types of the counts.
LEMMA CountedTypes ==
    ASSUME TypeOK, NEW k, Counted(k)
    PROVE  count' \in [Keeper -> Nat] /\ totalCount' \in Nat
  BY StateTypes DEF Counted

\* The balances after user u has paid for order o.
Charged(u, o) == [i \in Index |-> balance[i]
                                    + (IF i = Foundation THEN Tax(o) ELSE 0)
                                    - (IF i = u THEN Cost(o) ELSE 0)]

\* AddOrder: the order enters the books and the settlement of p, and the user
\* pays for it, a percent of it to the foundation.
LEMMA AddOrderStep ==
    ASSUME TypeOK, NEW k, NEW u \in User, NEW p \in Provider,
           NEW n \in Nonces(u, p), AddOrder(k, u, p, n),
           NEW o, o = Terms[u][p][n + 1]
    PROVE  /\ TypeOK'
           /\ \A f \in Fs, q \in Provider :
                 ao'[f][q] = IF f = u /\ q = p THEN Opened(ao[u][p], o)
                             ELSE ao[f][q]
           /\ \A q \in Provider :
                 se'[q] = IF q = p THEN Add(se[p], o) ELSE se[q]
           /\ balance' = Charged(u, o)
  <1>1. u \in Fs /\ u \in Index /\ Foundation \in Index
    BY Constants
  <1>2. n \in Nat /\ n + 1 \in DOMAIN Terms[u][p]
    BY <1>1, FsAssumption DEF Nonces, AddOrder, CanAdd
  <1>3. /\ o.start \in Nat /\ o.size \in Nat /\ o.sprice \in Int
        /\ Pay(o) \in Int /\ Manage(o) \in Int /\ Tax(o) \in Int
        /\ Cost(o) \in Int
    BY <1>1, <1>2, TermsType
  <1>4. /\ ao' = [ao EXCEPT ![u][p] = Opened(@, o)]
        /\ se' = [se EXCEPT ![p] = Add(@, o)]
        /\ balance' = [[balance EXCEPT ![Foundation] = @ + Tax(o)]
                          EXCEPT ![u] = @ - Cost(o)]
    BY DEF AddOrder
  <1>5. /\ ao' \in [Fs -> [Provider -> Aggregate]]
        /\ \A f \in Fs, q \in Provider :
              ao'[f][q] = IF f = u /\ q = p THEN Opened(ao[u][p], o)
                          ELSE ao[f][q]
    BY <1>1, <1>3, <1>4, StateTypes, OpenedStep
  <1>6. se[p] \in Settlement
    BY StateTypes
  <1>7. Add(se[p], o) \in Settlement
    BY <1>3, <1>6, AddType
  <1>8. /\ se' \in [Provider -> Settlement]
        /\ \A q \in Provider :
              se'[q] = IF q = p THEN Add(se[p], o) ELSE se[q]
    BY <1>4, <1>7, StateTypes
  <1>9. /\ balance' \in [Index -> Int]
        /\ balance' = Charged(u, o)
    <2> DEFINE tax == Tax(o)
               cost == Cost(o)
    <2>1. tax \in Int /\ cost \in Int /\ balance \in [Index -> Int]
      BY <1>3, StateTypes
    <2>2. balance' = [[balance EXCEPT ![Foundation] = @ + tax]
                         EXCEPT ![u] = @ - cost]
      BY <1>4
    <2> HIDE DEF tax, cost
    <2>3. /\ balance' \in [Index -> Int]
          /\ \A i \in Index :
                balance'[i] = balance[i] + (IF i = Foundation THEN tax ELSE 0)
                                         - (IF i = u THEN cost ELSE 0)
      BY <1>1, <2>1, <2>2
    <2>4. balance' = [i \in Index |-> balance[i]
                                         + (IF i = Foundation THEN tax ELSE 0)
                                         - (IF i = u THEN cost ELSE 0)]
      BY <2>3
    <2> QED
      BY <2>3, <2>4 DEF tax, cost, Charged
  <1>10. TypeOK'
    <2>1. /\ now' = now /\ fs' = fs /\ erc' = erc /\ keepers' = keepers
          /\ tAcc' = tAcc /\ lastTime' = lastTime /\ unbacked' = unbacked
          /\ clobbered' = clobbered /\ given' = given
          /\ proInfo' = proInfo \cup {p} /\ Counted(k)
          /\ entries' = entries \cup {Foundation}
      BY DEF AddOrder
    <2>3. entries' \subseteq Index
      BY <1>1, <2>1, StateTypes
    <2>2. count' \in [Keeper -> Nat] /\ totalCount' \in Nat
      BY <2>1, CountedTypes
    <2> QED
      BY <1>5, <1>8, <1>9, <2>1, <2>2, <2>3, StateTypes, TypesKept
  <1> QED
    BY <1>5, <1>8, <1>9, <1>10

\* SubOrder: the order leaves the books and the settlement of p, and a percent
\* of it goes to the pot.
LEMMA SubOrderStep ==
    ASSUME TypeOK, NEW k, NEW u \in User, NEW p \in Provider,
           NEW n \in Nonces(u, p), SubOrder(k, u, p, n),
           NEW o, o = Terms[u][p][n + 1]
    PROVE  /\ TypeOK'
           /\ \A f \in Fs, q \in Provider :
                 ao'[f][q] = IF f = u /\ q = p THEN Ended(ao[u][p], o)
                             ELSE ao[f][q]
           /\ \A q \in Provider :
                 se'[q] = IF q = p THEN End(se[p], o) ELSE se[q]
           /\ tAcc' = tAcc + EndPay(o)
  <1>1. u \in Fs
    BY Constants
  <1>2. n \in Nat /\ n + 1 \in DOMAIN Terms[u][p]
    BY <1>1, FsAssumption DEF Nonces, SubOrder, CanSub
  <1>3. /\ o.end \in Nat /\ o.size \in Nat /\ o.sprice \in Int
        /\ EndPay(o) \in Int
    BY <1>1, <1>2, TermsType
  <1>4. /\ ao' = [ao EXCEPT ![u][p] = Ended(@, o)]
        /\ se' = [se EXCEPT ![p] = End(@, o)]
        /\ tAcc' = tAcc + EndPay(o)
    BY DEF SubOrder
  <1>5. /\ ao' \in [Fs -> [Provider -> Aggregate]]
        /\ \A f \in Fs, q \in Provider :
              ao'[f][q] = IF f = u /\ q = p THEN Ended(ao[u][p], o)
                          ELSE ao[f][q]
    <2>1. ao \in [Fs -> [Provider -> Aggregate]]
      BY StateTypes
    <2> QED
      BY ONLY <1>1, <1>3, <1>4, <2>1, ClosedStep
  <1>6. se[p] \in Settlement
    BY StateTypes
  <1>7. End(se[p], o) \in Settlement
    BY <1>3, <1>6, EndType
  <1>8. /\ se' \in [Provider -> Settlement]
        /\ \A q \in Provider :
              se'[q] = IF q = p THEN End(se[p], o) ELSE se[q]
    BY <1>4, <1>7, StateTypes
  <1>9. TypeOK'
    <2>1. /\ now' = now /\ fs' = fs /\ erc' = erc /\ keepers' = keepers
          /\ balance' = balance /\ lastTime' = lastTime
          /\ unbacked' = unbacked /\ clobbered' = clobbered /\ given' = given
          /\ proInfo' = proInfo /\ entries' = entries /\ Counted(k)
      BY DEF SubOrder
    <2>2. count' \in [Keeper -> Nat] /\ totalCount' \in Nat
      BY <2>1, CountedTypes
    <2>3. tAcc' \in Int
      BY <1>3, <1>4, StateTypes
    <2> QED
      BY <1>5, <1>8, <2>1, <2>2, <2>3, StateTypes, TypesKept
  <1> QED
    BY <1>4, <1>5, <1>8, <1>9

\* AddRepair: the repair enters the books at q.  With a settlement, q's grows
\* and p's loss pays; without one, p's settlement becomes q's new one.
LEMMA AddRepairStep ==
    ASSUME TypeOK, NEW k, NEW p \in Provider, NEW q \in Provider,
           NEW n \in Nonces(Repair, q), AddRepair(k, p, q, n),
           NEW o, o = Terms[Repair][q][n + 1]
    PROVE  /\ TypeOK'
           /\ \A f \in Fs, r \in Provider :
                 ao'[f][r] = IF f = Repair /\ r = q
                             THEN Opened(ao[Repair][q], o) ELSE ao[f][r]
           /\ q \in proInfo => \A r \in Provider :
                 se'[r] = IF r = q
                          THEN IF q = p THEN RepairPaid(Add(se[q], o), o)
                               ELSE Add(se[q], o)
                          ELSE IF r = p THEN RepairPaid(se[p], o) ELSE se[r]
           /\ q \notin proInfo => \A r \in Provider :
                 se'[r] = IF r = p THEN Add(newSettlement, o) ELSE se[r]
           /\ q \in proInfo => unbacked' = unbacked + Manage(o)
           /\ q \notin proInfo =>
                 unbacked' = unbacked + Manage(o) + (Pay(o) - Escrow(p))
  <1>1. Repair \in Fs
    BY Constants
  <1>2. n \in Nat /\ n + 1 \in DOMAIN Terms[Repair][q]
    BY <1>1, FsAssumption DEF Nonces, AddRepair, CanAdd
  <1>3. /\ o.start \in Nat /\ o.size \in Nat /\ o.sprice \in Int
        /\ Pay(o) \in Int /\ Manage(o) \in Int
    BY <1>1, <1>2, TermsType
  <1>4. ao' = [ao EXCEPT ![Repair][q] = Opened(@, o)]
    BY DEF AddRepair
  <1>5. /\ ao' \in [Fs -> [Provider -> Aggregate]]
        /\ \A f \in Fs, r \in Provider :
              ao'[f][r] = IF f = Repair /\ r = q
                          THEN Opened(ao[Repair][q], o) ELSE ao[f][r]
    BY <1>1, <1>3, <1>4, StateTypes, OpenedStep
  <1>6. se[p] \in Settlement /\ se[q] \in Settlement
    BY StateTypes
  <1>7. /\ Add(se[q], o) \in Settlement
        /\ Add(newSettlement, o) \in Settlement
    BY <1>3, <1>6, AddType, NewType
  <1>8. /\ RepairPaid(se[p], o) \in Settlement
        /\ RepairPaid(Add(se[q], o), o) \in Settlement
    BY <1>3, <1>6, <1>7, RepairPaidType
  <1>9. /\ se' \in [Provider -> Settlement]
        /\ q \in proInfo => \A r \in Provider :
              se'[r] = IF r = q
                       THEN IF q = p THEN RepairPaid(Add(se[q], o), o)
                            ELSE Add(se[q], o)
                       ELSE IF r = p THEN RepairPaid(se[p], o) ELSE se[r]
        /\ q \notin proInfo => \A r \in Provider :
              se'[r] = IF r = p THEN Add(newSettlement, o) ELSE se[r]
    <2>1. CASE q \in proInfo
      <3>1. se' = [[se EXCEPT ![q] = Add(@, o)] EXCEPT ![p] = RepairPaid(@, o)]
        BY <2>1 DEF AddRepair
      <3> QED
        BY <1>7, <1>8, <2>1, <3>1, StateTypes
    <2>2. CASE q \notin proInfo
      <3>1. se' = [se EXCEPT ![p] = Add(newSettlement, o)]
        BY <2>2 DEF AddRepair
      <3> QED
        BY <1>7, <2>2, <3>1, StateTypes
    <2> QED
      BY <2>1, <2>2
  <1>10. Escrow(p) \in Int
    BY <1>6, SettlementFields DEF Escrow
  <1>11. /\ q \in proInfo => unbacked' = unbacked + Manage(o) + 0
         /\ q \notin proInfo =>
               unbacked' = unbacked + Manage(o) + (Pay(o) - Escrow(p))
    BY DEF AddRepair, Escrow
  <1>12. /\ unbacked' \in Int
         /\ q \in proInfo => unbacked' = unbacked + Manage(o)
    BY <1>3, <1>10, <1>11, StateTypes
  <1>13. TypeOK'
    <2>1. /\ now' = now /\ fs' = fs /\ erc' = erc /\ keepers' = keepers
          /\ balance' = balance /\ lastTime' = lastTime /\ tAcc' = tAcc
          /\ given' = given /\ proInfo' = proInfo /\ entries' = entries
          /\ Counted(k) /\ clobbered' \in BOOLEAN
      BY DEF AddRepair
    <2>2. count' \in [Keeper -> Nat] /\ totalCount' \in Nat
      BY <2>1, CountedTypes
    <2> QED
      BY <1>5, <1>9, <1>12, <2>1, <2>2, StateTypes, TypesKept
  <1> QED
    BY <1>5, <1>9, <1>11, <1>12, <1>13

\* SubRepair: the repair leaves the books at q, and the settlement of q if it
\* has one; without one the call fails and the repair does not count as ended.
LEMMA SubRepairStep ==
    ASSUME TypeOK, NEW k, NEW q \in Provider,
           NEW n \in Nonces(Repair, q), SubRepair(k, q, n),
           NEW o, o = Terms[Repair][q][n + 1]
    PROVE  /\ TypeOK'
           /\ \A f \in Fs, r \in Provider :
                 ao'[f][r] = IF f = Repair /\ r = q
                             THEN IF q \in proInfo THEN Ended(ao[Repair][q], o)
                                  ELSE Closed(ao[Repair][q], o)
                             ELSE ao[f][r]
           /\ q \in proInfo => \A r \in Provider :
                 se'[r] = IF r = q THEN End(se[q], o) ELSE se[r]
           /\ q \in proInfo => tAcc' = tAcc + EndPay(o)
           /\ q \notin proInfo => UNCHANGED <<se, tAcc>>
  <1>1. Repair \in Fs
    BY Constants
  <1>2. n \in Nat /\ n + 1 \in DOMAIN Terms[Repair][q]
    BY <1>1, FsAssumption DEF Nonces, SubRepair, CanSub
  <1>3. /\ o.end \in Nat /\ o.size \in Nat /\ o.sprice \in Int
        /\ EndPay(o) \in Int
    BY <1>1, <1>2, TermsType
  <1>4. /\ now' = now /\ fs' = fs /\ erc' = erc /\ keepers' = keepers
        /\ balance' = balance /\ lastTime' = lastTime
        /\ unbacked' = unbacked /\ clobbered' = clobbered /\ given' = given
        /\ proInfo' = proInfo /\ entries' = entries
    BY DEF SubRepair
  <1>5. CASE q \in proInfo
    <2>1. /\ ao' = [ao EXCEPT ![Repair][q] = Ended(@, o)]
          /\ se' = [se EXCEPT ![q] = End(@, o)]
          /\ tAcc' = tAcc + EndPay(o)
          /\ Counted(k)
      BY <1>5 DEF SubRepair
    <2>2. /\ ao' \in [Fs -> [Provider -> Aggregate]]
          /\ \A f \in Fs, r \in Provider :
                ao'[f][r] = IF f = Repair /\ r = q
                            THEN Ended(ao[Repair][q], o) ELSE ao[f][r]
      BY <1>1, <1>3, <2>1, StateTypes, ClosedStep
    <2>3. End(se[q], o) \in Settlement
      BY <1>3, StateTypes, EndType
    <2>4. /\ se' \in [Provider -> Settlement]
          /\ \A r \in Provider : se'[r] = IF r = q THEN End(se[q], o) ELSE se[r]
      BY <2>1, <2>3, StateTypes
    <2>5. count' \in [Keeper -> Nat] /\ totalCount' \in Nat
      BY <2>1, CountedTypes
    <2>6. tAcc' \in Int
      BY <1>3, <2>1, StateTypes
    <2>7. TypeOK'
      BY <1>4, <2>2, <2>4, <2>5, <2>6, StateTypes, TypesKept
    <2> QED
      BY <1>5, <2>1, <2>2, <2>4, <2>7
  <1>6. CASE q \notin proInfo
    <2>1. /\ ao' = [ao EXCEPT ![Repair][q] = Closed(@, o)]
          /\ se' = se /\ tAcc' = tAcc /\ count' = count
          /\ totalCount' = totalCount
      BY <1>6 DEF SubRepair
    <2>2. /\ ao' \in [Fs -> [Provider -> Aggregate]]
          /\ \A f \in Fs, r \in Provider :
                ao'[f][r] = IF f = Repair /\ r = q
                            THEN Closed(ao[Repair][q], o) ELSE ao[f][r]
      BY <1>1, <1>3, <2>1, StateTypes, ClosedStep
    <2>3. TypeOK'
      BY <1>4, <2>1, <2>2, StateTypes, TypesKept
    <2> QED
      BY <1>6, <2>1, <2>2, <2>3
  <1> QED
    BY <1>5, <1>6

\* ProWithdraw: a claim beyond the accrual only records it; another is paid, as
\* tokens or into the balance of p, and the keepers get their part.
LEMMA ProWithdrawStep ==
    ASSUME TypeOK, NEW p \in Provider, NEW pay \in Nat, NEW lost \in Nat,
           ProWithdraw(p, pay, lost),
           NEW s, s = Accrued(se[p], lost),
           NEW money, money = balance[p] + pay - se[p].HasPaid
    PROVE  /\ TypeOK' /\ s \in Settlement /\ money \in Int
           /\ se[p].HasPaid <= pay /\ se[p].Lost <= lost
           /\ \A q \in Provider \ {p} : se'[q] = se[q]
           /\ s.CanPay < pay =>
                 se'[p] = s /\ erc' = erc /\ balance' = balance /\ tAcc' = tAcc
           /\ s.CanPay >= pay =>
                 /\ se'[p] = Paid(s, pay)
                 /\ tAcc' = tAcc + Linear(s, pay)
                 /\ Linear(s, pay) \in Nat
                 /\ \A i \in Index :
                       balance'[i] = IF i = p
                                     THEN IF ErcCanTransfer(erc, FsAddr, money)
                                          THEN 0 ELSE money
                                     ELSE balance[i]
                 /\ \A x \in Address : erc'.money[x] =
                       IF ErcCanTransfer(erc, FsAddr, money)
                       THEN erc.money[x] + (IF x = p THEN money ELSE 0)
                                         - (IF x = FsAddr THEN money ELSE 0)
                       ELSE erc.money[x]
  <1>1. p \in Index /\ p \in Address /\ FsAddr \in Address
    BY Constants
  <1>2. se[p] \in Settlement /\ erc \in Ledger /\ balance \in [Index -> Int]
    BY StateTypes
  <1>3. s \in Settlement
    BY <1>2, StateTypes, AccruedType
  <1>4. s.HasPaid = se[p].HasPaid
    BY <1>2, AccruedFields
  <1>5. money \in Int
    BY <1>1, <1>2, SettlementFields
  <1>6. /\ now' = now /\ fs' = fs /\ ao' = ao /\ keepers' = keepers
        /\ lastTime' = lastTime /\ count' = count /\ totalCount' = totalCount
        /\ unbacked' = unbacked /\ clobbered' = clobbered /\ given' = given
        /\ proInfo' = proInfo
        /\ se[p].HasPaid <= pay /\ se[p].Lost <= lost
    BY DEF ProWithdraw, CanCalc
  <1>7. CASE s.CanPay < pay
    <2>1. /\ se' = [se EXCEPT ![p] = s]
          /\ erc' = erc /\ balance' = balance /\ tAcc' = tAcc
          /\ entries' = entries
      BY <1>7 DEF ProWithdraw
    <2>2. /\ se' \in [Provider -> Settlement] /\ se'[p] = s
          /\ \A q \in Provider \ {p} : se'[q] = se[q]
      BY <1>3, <2>1, StateTypes
    <2>3. TypeOK'
      BY <1>6, <2>1, <2>2, StateTypes, TypesKept
    <2>4. ~(s.CanPay >= pay)
      BY <1>3, <1>7, SettlementFields
    <2> QED
      BY <1>3, <1>5, <1>6, <1>7, <2>1, <2>2, <2>3, <2>4
  <1>8. CASE ~(s.CanPay < pay)
    <2> DEFINE sent == ErcCanTransfer(erc, FsAddr, money)
               left == Undelivered(money, sent)
    <2>1. /\ se' = [se EXCEPT ![p] = Paid(s, pay)]
          /\ tAcc' = tAcc + Linear(s, pay)
          /\ balance' = [balance EXCEPT ![p] = left]
          /\ erc' = ErcTransfer(erc, FsAddr, p, money)
          /\ entries' = entries \cup {p}
      BY <1>4, <1>8 DEF ProWithdraw
    <2>2. Paid(s, pay) \in Settlement /\ Linear(s, pay) \in Nat
      BY <1>3, PaidType
    <2>3. /\ se' \in [Provider -> Settlement] /\ se'[p] = Paid(s, pay)
          /\ \A q \in Provider \ {p} : se'[q] = se[q]
      BY <2>1, <2>2, StateTypes
    <2>4. left \in Int /\ left = IF sent THEN 0 ELSE money
      BY <1>5 DEF Undelivered
    <2>5. /\ erc' \in Ledger
          /\ \A x \in Address : erc'.money[x] =
                IF sent THEN erc.money[x] + (IF x = p THEN money ELSE 0)
                                          - (IF x = FsAddr THEN money ELSE 0)
                ELSE erc.money[x]
      <3>1. ErcTransfer(erc, FsAddr, p, money) \in Ledger
        BY ONLY <1>1, <1>2, <1>5, TransferLedger
      <3>2. \A x \in Address : ErcTransfer(erc, FsAddr, p, money).money[x] =
                IF sent THEN erc.money[x] + (IF x = p THEN money ELSE 0)
                                          - (IF x = FsAddr THEN money ELSE 0)
                ELSE erc.money[x]
        BY ONLY <1>1, <1>2, <1>5, TransferLedger DEF sent
      <3> QED
        BY <2>1, <3>1, <3>2
    <2> HIDE DEF sent
    <2>6. /\ balance' \in [Index -> Int]
          /\ \A i \in Index : balance'[i] = IF i = p THEN IF sent THEN 0 ELSE money
                                            ELSE balance[i]
      <3> HIDE DEF left
      <3>1. /\ balance' \in [Index -> Int]
            /\ \A i \in Index : balance'[i] = IF i = p THEN left ELSE balance[i]
        BY <1>1, <1>2, <2>1, <2>4
      <3> QED
        BY <2>4, <3>1
    <2>7. tAcc' \in Int
      BY <2>1, <2>2, StateTypes
    <2>8. TypeOK'
      <3>1. entries' \subseteq Index
        BY <1>1, <2>1, StateTypes
      <3> QED
        BY <1>6, <2>3, <2>5, <2>6, <2>7, <3>1, StateTypes, TypesKept
    <2> QED
      BY <1>3, <1>5, <1>6, <1>8, <2>1, <2>2, <2>3, <2>5, <2>6, <2>8 DEF sent
  <1> QED
    BY <1>7, <1>8

\* A keeper's share of the pot, and that of all keepers.
LEMMA ShareType ==
    ASSUME TypeOK, totalCount > 0
    PROVE  /\ \A k \in keepers : Share(k) \in Int
           /\ IsFiniteSet(keepers)
           /\ Shares = SumFunctionOnSet([k \in keepers |-> Share(k)], keepers)
           /\ Shares \in Int
  <1> DEFINE g == [k \in keepers |-> Share(k)]
  <1>1. IsFiniteSet(keepers)
    BY Constants, StateTypes, FS_Subset
  <1>2. \A k \in keepers : Share(k) \in Int
    <2> DEFINE each == tAcc \div totalCount
    <2>1. each \in Int
      BY StateTypes
    <2> HIDE DEF each
    <2>2. \A k \in keepers : each * count[k] \in Int
      BY <2>1, StateTypes
    <2> QED
      BY <2>2 DEF Share, each
  <1>3. \A k \in keepers : g[k] \in Int
    BY <1>2
  <1>4. DOMAIN g = keepers
    OBVIOUS
  <1>5. Shares = SumFunctionOnSet(g, keepers)
    BY <1>4 DEF Shares, SumFunction
  <1> HIDE DEF g
  <1>6. SumFunctionOnSet(g, keepers) \in Int
    BY <1>1, <1>3, SumType
  <1> QED
    BY <1>1, <1>2, <1>5, <1>6 DEF g

\* A transfer of the contract to i.
LEMMA FsPays ==
    ASSUME erc \in Ledger, FsAddr \in Address, NEW i \in Address, NEW v \in Int
    PROVE  /\ ErcTransfer(erc, FsAddr, i, v) \in Ledger
           /\ \A x \in Address : ErcTransfer(erc, FsAddr, i, v).money[x] =
                 IF ErcCanTransfer(erc, FsAddr, v)
                 THEN erc.money[x] + (IF x = i THEN v ELSE 0)
                                   - (IF x = FsAddr THEN v ELSE 0)
                 ELSE erc.money[x]
  <1>1. ErcTransfer(erc, FsAddr, i, v) \in Ledger
    BY TransferLedger
  <1>2. \A x \in Address : ErcTransfer(erc, FsAddr, i, v).money[x] =
            IF ErcCanTransfer(erc, FsAddr, v)
            THEN erc.money[x] + (IF x = i THEN v ELSE 0)
                              - (IF x = FsAddr THEN v ELSE 0)
            ELSE erc.money[x]
    BY TransferLedger
  <1> QED
    BY <1>1, <1>2

\* Withdraw: a due sharing first, then what i asks for, if the token moves it.
LEMMA WithdrawStep ==
    ASSUME TypeOK, NEW i \in Index, NEW amount \in Nat, Withdraw(i, amount),
           NEW money, money = IF amount = 0 \/ amount > Shared(i)[i]
                              THEN Shared(i)[i] ELSE amount
    PROVE  /\ TypeOK' /\ money \in Int /\ money <= Shared(i)[i]
           /\ Due(i) => totalCount > 0 /\ Shares \in Int
           /\ tAcc' = IF Due(i) THEN tAcc - Shares ELSE tAcc
           /\ Shared(i) \in [Index -> Int]
           /\ \A j \in Index :
                 balance'[j] = IF ErcCanTransfer(erc, FsAddr, money) /\ j = i
                               THEN Shared(i)[j] - money ELSE Shared(i)[j]
           /\ \A x \in Address : erc'.money[x] =
                 IF ErcCanTransfer(erc, FsAddr, money)
                 THEN erc.money[x] + (IF x = i THEN money ELSE 0)
                                   - (IF x = FsAddr THEN money ELSE 0)
                 ELSE erc.money[x]
  <1> DEFINE due == Due(i)
             sent == ErcCanTransfer(erc, FsAddr, money)
             bal == Shared(i)
  <1>1. i \in Address /\ FsAddr \in Address
    BY Constants
  <1>2. erc \in Ledger /\ balance \in [Index -> Int]
    BY StateTypes
  <1>3. /\ now' = now /\ fs' = fs /\ ao' = ao /\ keepers' = keepers
        /\ count' = count /\ totalCount' = totalCount /\ se' = se
        /\ unbacked' = unbacked /\ clobbered' = clobbered /\ given' = given
        /\ proInfo' = proInfo
        /\ due => totalCount > 0
        /\ tAcc' = IF due THEN tAcc - Shares ELSE tAcc
        /\ lastTime' = IF due THEN now ELSE lastTime
        /\ erc' = ErcTransfer(erc, FsAddr, i, money)
        /\ balance' = IF sent THEN [bal EXCEPT ![i] = @ - money] ELSE bal
        /\ entries' = entries \cup {i} \cup (IF due THEN keepers ELSE {})
    BY DEF Withdraw
  <1>4. due => /\ \A k \in keepers : Share(k) \in Int
               /\ Shares \in Int
    BY <1>3, ShareType
  <1>5. bal \in [Index -> Int]
    BY <1>2, <1>4 DEF Shared
  <1>6. money \in Int /\ money <= bal[i]
    <2> HIDE DEF bal
    <2> QED
      BY <1>5 DEF bal
  <1>7. /\ balance' \in [Index -> Int]
        /\ \A j \in Index : balance'[j] = IF sent /\ j = i THEN bal[j] - money
                                          ELSE bal[j]
    <2> HIDE DEF bal, sent
    <2> QED
      BY <1>3, <1>5, <1>6
  <1>8. /\ erc' \in Ledger
        /\ \A x \in Address : erc'.money[x] =
                IF sent THEN erc.money[x] + (IF x = i THEN money ELSE 0)
                                          - (IF x = FsAddr THEN money ELSE 0)
                ELSE erc.money[x]
    <2> DEFINE led == ErcTransfer(erc, FsAddr, i, money)
    <2>1. money \in Int
      BY <1>6
    <2> HIDE DEF bal
    <2>2. /\ led \in Ledger
          /\ \A x \in Address : led.money[x] =
                IF sent THEN erc.money[x] + (IF x = i THEN money ELSE 0)
                                          - (IF x = FsAddr THEN money ELSE 0)
                ELSE erc.money[x]
      BY <1>1, <1>2, <2>1, FsPays
    <2>3. erc' = led
      BY <1>3
    <2> HIDE DEF led
    <2> QED
      BY <2>2, <2>3
  <1>9. tAcc' \in Int
    BY <1>3, <1>4, StateTypes
  <1>10. lastTime' \in 0 .. now'
    BY <1>3, StateTypes
  <1>11. TypeOK'
    <2>1. entries' \subseteq Index
      BY <1>3, StateTypes, Constants
    <2> HIDE DEF due, sent, bal
    <2> QED
      BY <1>3, <1>7, <1>8, <1>9, <1>10, <2>1, StateTypes DEF TypeOK
  <1> QED
    BY <1>3, <1>4, <1>5, <1>6, <1>7, <1>8, <1>11

\* Recharge and the admin's air drop: the tokens that arrive are balance.
LEMMA RechargeStep ==
    ASSUME TypeOK, NEW i \in Index, NEW v \in Int, Recharge(i, v)
    PROVE  /\ TypeOK'
           /\ \A j \in Index :
                 balance'[j] = IF j = i THEN balance[j] + v ELSE balance[j]
           /\ v >= 0
           /\ \A x \in Address : erc'.money[x] =
                 erc.money[x] + (IF x = FsAddr THEN v ELSE 0)
                              - (IF x = i THEN v ELSE 0)
  <1>1. i \in Address /\ FsAddr \in Address
    BY Constants
  <1>2. erc \in Ledger /\ balance \in [Index -> Int]
    BY StateTypes
  <1>3. /\ UNCHANGED <<now, fs, ao, se, proInfo, keepers, count, totalCount,
                       tAcc, lastTime, unbacked, clobbered, given>>
        /\ ErcCanTransferFrom(erc, FsAddr, i, v)
        /\ erc' = ErcTransferFrom(erc, FsAddr, i, FsAddr, v)
        /\ balance' = [balance EXCEPT ![i] = @ + v]
        /\ entries' = entries \cup {i}
    BY DEF Recharge
  <1>4. /\ erc' \in Ledger
        /\ \A x \in Address : erc'.money[x] =
                 erc.money[x] + (IF x = FsAddr THEN v ELSE 0)
                              - (IF x = i THEN v ELSE 0)
    <2>1. ErcTransferFrom(erc, FsAddr, i, FsAddr, v) \in Ledger
      BY <1>1, <1>2, TransferFromLedger
    <2>2. \A x \in Address : ErcTransferFrom(erc, FsAddr, i, FsAddr, v).money[x] =
              IF ErcCanTransferFrom(erc, FsAddr, i, v)
              THEN erc.money[x] + (IF x = FsAddr THEN v ELSE 0)
                                - (IF x = i THEN v ELSE 0)
              ELSE erc.money[x]
      BY <1>1, <1>2, TransferFromLedger
    <2> QED
      BY <1>3, <2>1, <2>2
  <1>5. /\ balance' \in [Index -> Int]
        /\ \A j \in Index :
              balance'[j] = IF j = i THEN balance[j] + v ELSE balance[j]
    BY <1>2, <1>3
  <1>6. v >= 0
    BY <1>3 DEF ErcCanTransferFrom, ErcCanTransfer
  <1>7. TypeOK'
    BY <1>3, <1>4, <1>5, StateTypes, TypesKept
  <1> QED
    BY <1>4, <1>5, <1>6, <1>7

\* A recharge the owner signs moves the tokens and books them, or does neither.
LEMMA RechargeByAdminStep ==
    ASSUME TypeOK, NEW i \in Index, NEW v \in Nat, RechargeByAdmin(i, v)
    PROVE  /\ TypeOK'
           /\ \E w \in {0, v} :
                 /\ \A j \in Index :
                       /\ balance'[j] = IF j = i THEN balance[j] + w ELSE balance[j]
                       /\ given'[j] = IF j = i THEN given[j] + w ELSE given[j]
                 /\ \A x \in Address : erc'.money[x] =
                       erc.money[x] + (IF x = FsAddr THEN w ELSE 0)
                                    - (IF x = RoleMgr THEN w ELSE 0)
  <1> DEFINE led == ErcApprove(erc, RoleMgr, RoleMgr, v)
             can == ErcCanTransferFrom(led, FsAddr, RoleMgr, v)
             w == IF can THEN v ELSE 0
  <1>1. RoleMgr \in Address /\ FsAddr \in Address
    BY Constants
  <1>2. erc \in Ledger /\ balance \in [Index -> Int] /\ given \in [Index -> Nat]
    BY StateTypes
  <1>3. /\ UNCHANGED <<now, fs, ao, se, proInfo, keepers, count, totalCount,
                       tAcc, lastTime, unbacked, clobbered>>
        /\ erc' = ErcTransferFrom(led, FsAddr, RoleMgr, FsAddr, v)
        /\ balance' = IF can THEN [balance EXCEPT ![i] = @ + v] ELSE balance
        /\ given' = IF can THEN [given EXCEPT ![i] = @ + v] ELSE given
        /\ entries' = IF can THEN entries \cup {i} ELSE entries
    BY DEF RechargeByAdmin
  <1>4. v \in Int
    OBVIOUS
  <1>5. led \in Ledger /\ led.money = erc.money
    BY <1>1, <1>2, <1>4, ApproveLedger
  <1>6. erc.money \in [Address -> Int]
    BY <1>2 DEF Ledger
  <1> HIDE DEF led, can
  <1>7. /\ erc' \in Ledger
        /\ \A x \in Address : erc'.money[x] =
                 erc.money[x] + (IF x = FsAddr THEN w ELSE 0)
                              - (IF x = RoleMgr THEN w ELSE 0)
    <2>1. ErcTransferFrom(led, FsAddr, RoleMgr, FsAddr, v) \in Ledger
      BY <1>1, <1>4, <1>5, TransferFromLedger
    <2>2. \A x \in Address :
              ErcTransferFrom(led, FsAddr, RoleMgr, FsAddr, v).money[x] =
              IF ErcCanTransferFrom(led, FsAddr, RoleMgr, v)
              THEN led.money[x] + (IF x = FsAddr THEN v ELSE 0)
                                - (IF x = RoleMgr THEN v ELSE 0)
              ELSE led.money[x]
      <3>1. led \in Ledger
        BY <1>5
      <3> QED
        BY <1>1, <1>4, <3>1, TransferFromLedger
    <2> QED
      BY <1>3, <1>5, <1>6, <2>1, <2>2 DEF can
  <1>8. /\ balance' \in [Index -> Int]
        /\ given' \in [Index -> Nat]
        /\ \A j \in Index :
              /\ balance'[j] = IF j = i THEN balance[j] + w ELSE balance[j]
              /\ given'[j] = IF j = i THEN given[j] + w ELSE given[j]
    BY <1>2, <1>3
  <1>9. w \in {0, v}
    OBVIOUS
  <1>10. TypeOK'
    <2>1. entries' \subseteq Index
      BY <1>3, StateTypes
    <2> HIDE DEF w
    <2> QED
      BY <1>3, <1>7, <1>8, <2>1, StateTypes, TypesKept
  <1> QED
    BY <1>7, <1>8, <1>9, <1>10

\* Steps that keep the token, the books, the settlements and the balances.
Quiet ==
    \/ Tick
    \/ \E a \in Payers, v \in Money : ApproveFs(a, v)
    \/ \E k \in Keeper : AddKeeper(k)
    \/ \E u \in User : CreateFs(u)
    \/ UNCHANGED vars

\* What they keep.
LEMMA QuietStep ==
    ASSUME TypeOK, Quiet
    PROVE  /\ TypeOK'
           /\ UNCHANGED <<ao, se, proInfo, balance, tAcc, unbacked, clobbered,
                          given>>
           /\ erc'.money = erc.money
  <1>1. CASE Tick
    BY <1>1, Constants DEF Tick, TypeOK
  <1>2. ASSUME NEW a \in Payers, NEW v \in Money, ApproveFs(a, v)
        PROVE  /\ TypeOK'
               /\ UNCHANGED <<ao, se, proInfo, balance, tAcc, unbacked,
                              clobbered, given>>
               /\ erc'.money = erc.money
    <2>1. a \in Address /\ FsAddr \in Address /\ v \in Int
      BY Constants, FsAssumption
    <2>2. erc' = ErcApprove(erc, a, FsAddr, v) /\ erc \in Ledger
      BY <1>2, StateTypes DEF ApproveFs
    <2>3. erc' \in Ledger /\ erc'.money = erc.money
      BY <2>1, <2>2, ApproveLedger
    <2>4. UNCHANGED <<now, fs, ao, se, proInfo, balance, entries, keepers,
                      count, totalCount, tAcc, lastTime, unbacked, clobbered,
                      given>>
      BY <1>2 DEF ApproveFs
    <2>5. TypeOK'
      BY <2>3, <2>4, StateTypes, TypesKept
    <2> QED
      BY <2>3, <2>4, <2>5
  <1>3. ASSUME NEW k \in Keeper, AddKeeper(k)
        PROVE  /\ TypeOK'
               /\ UNCHANGED <<ao, se, proInfo, balance, tAcc, unbacked,
                              clobbered, given>>
               /\ erc'.money = erc.money
    BY <1>3 DEF AddKeeper, TypeOK
  <1>4. ASSUME NEW u \in User, CreateFs(u)
        PROVE  /\ TypeOK'
               /\ UNCHANGED <<ao, se, proInfo, balance, tAcc, unbacked,
                              clobbered, given>>
               /\ erc'.money = erc.money
    BY <1>4 DEF CreateFs, TypeOK
  <1>5. CASE UNCHANGED vars
    BY <1>5 DEF vars, TypeOK
  <1> QED
    BY <1>1, <1>2, <1>3, <1>4, <1>5 DEF Quiet

\* The calls, with the types of their arguments.
LEMMA NextCases ==
    ASSUME [Next]_vars
    PROVE  \/ Quiet
           \/ \E i \in Index, v \in Nat : Recharge(i, v)
           \/ \E i \in Index, v \in Nat : RechargeByAdmin(i, v)
           \/ \E k \in Callers, u \in User, p \in Provider :
                 \E n \in Nonces(u, p) : AddOrder(k, u, p, n)
           \/ \E k \in Callers, u \in User, p \in Provider :
                 \E n \in Nonces(u, p) : SubOrder(k, u, p, n)
           \/ \E k \in Callers, p \in Provider, q \in Provider :
                 \E n \in Nonces(Repair, q) : AddRepair(k, p, q, n)
           \/ \E k \in Callers, q \in Provider :
                 \E n \in Nonces(Repair, q) : SubRepair(k, q, n)
           \/ \E p \in Provider, pay \in Nat, lost \in Nat :
                 ProWithdraw(p, pay, lost)
           \/ \E i \in Index, amount \in Nat : Withdraw(i, amount)
  <1>1. /\ \A a \in Payers : a \in Index
        /\ \A v \in Money : v \in Nat
        /\ \A c \in Claims : c[1] \in Nat /\ c[2] \in Nat
    BY FsAssumption
  <1>2. CASE UNCHANGED vars
    BY <1>2 DEF Quiet
  <1>3. CASE Next
    <2>1. CASE Tick
      BY <2>1 DEF Quiet
    <2>2. CASE \E a \in Payers, v \in Money :
                  ApproveFs(a, v) \/ Recharge(a, v) \/ RechargeByAdmin(a, v)
      BY <1>1, <2>2, Zenon DEF Quiet
    <2>3. CASE \/ \E k \in Keeper : AddKeeper(k)
               \/ \E u \in User : CreateFs(u)
      BY <2>3 DEF Quiet
    <2>4. CASE \E k \in Callers, u \in User, p \in Provider :
                  \E n \in Nonces(u, p) :
                     AddOrder(k, u, p, n) \/ SubOrder(k, u, p, n)
      BY <2>4, Zenon
    <2>5. CASE \E k \in Callers, q \in Provider : \E n \in Nonces(Repair, q) :
                  \/ SubRepair(k, q, n)
                  \/ \E p \in Provider : AddRepair(k, p, q, n)
      BY <2>5, Zenon
    <2>6. CASE \E p \in Provider, c \in Claims : ProWithdraw(p, c[1], c[2])
      BY <1>1, <2>6, Zenon
    <2>7. CASE \E i \in Index, v \in Money : Withdraw(i, v)
      BY <1>1, <2>7, Zenon
    <2> QED
      BY <1>3, <2>1, <2>2, <2>3, <2>4, <2>5, <2>6, <2>7, Zenon DEF Next
  <1> QED
    BY <1>2, <1>3

\* The initial state has the types.
LEMMA InitTypes == Init => TypeOK
  <1> SUFFICES ASSUME Init PROVE TypeOK
    OBVIOUS
  <1>1. /\ now \in 0 .. MaxTime /\ lastTime \in 0 .. now
        /\ fs \subseteq User /\ proInfo \subseteq Provider
        /\ keepers \subseteq Keeper
        /\ balance \in [Index -> Int] /\ count \in [Keeper -> Nat]
        /\ given \in [Index -> Nat] /\ entries \subseteq Index
        /\ totalCount \in Nat /\ tAcc \in Int /\ unbacked \in Int
        /\ clobbered \in BOOLEAN
    <2>1. now = 0 /\ lastTime = 0 /\ 0 \in 0 .. MaxTime /\ 0 \in 0 .. 0
      BY Constants DEF Init
    <2>2. /\ fs \subseteq User /\ proInfo \subseteq Provider
          /\ keepers \subseteq Keeper
          /\ balance \in [Index -> Int] /\ count \in [Keeper -> Nat]
          /\ given \in [Index -> Nat] /\ entries \subseteq Index
          /\ totalCount \in Nat /\ tAcc \in Int /\ unbacked \in Int
      BY DEF Init
    <2>3. clobbered \in BOOLEAN
      BY DEF Init
    <2> QED
      BY <2>1, <2>2, <2>3
  <1>2. erc \in Ledger
    BY FsAssumption DEF Init, LedgerOf, Ledger
  <1>3. se \in [Provider -> Settlement]
    BY NewType DEF Init
  <1>4. NoOrders \in Aggregate
    BY DEF NoOrders, Aggregate
  <1>5. ao \in [Fs -> [Provider -> Aggregate]]
    BY <1>4 DEF Init
  <1> QED
    BY <1>1, <1>2, <1>3, <1>5 DEF TypeOK, Aggregate

\* Every call keeps the types.
LEMMA StepTypes == TypeOK /\ [Next]_vars => TypeOK'
  <1> SUFFICES ASSUME TypeOK, [Next]_vars PROVE TypeOK'
    OBVIOUS
  <1>1. CASE Quiet
    BY <1>1, QuietStep
  <1>2. CASE \E i \in Index, v \in Nat : Recharge(i, v)
    <2>1. PICK i \in Index, v \in Nat : Recharge(i, v)
      BY <1>2
    <2>2. v \in Int
      OBVIOUS
    <2> QED
      BY <2>1, <2>2, RechargeStep
  <1>3. CASE \E i \in Index, v \in Nat : RechargeByAdmin(i, v)
    BY <1>3, RechargeByAdminStep
  <1>4. CASE \E k \in Callers, u \in User, p \in Provider :
                \E n \in Nonces(u, p) : AddOrder(k, u, p, n)
    BY <1>4, AddOrderStep
  <1>5. CASE \E k \in Callers, u \in User, p \in Provider :
                \E n \in Nonces(u, p) : SubOrder(k, u, p, n)
    BY <1>5, SubOrderStep
  <1>6. CASE \E k \in Callers, p \in Provider, q \in Provider :
                \E n \in Nonces(Repair, q) : AddRepair(k, p, q, n)
    BY <1>6, AddRepairStep
  <1>7. CASE \E k \in Callers, q \in Provider :
                \E n \in Nonces(Repair, q) : SubRepair(k, q, n)
    BY <1>7, SubRepairStep
  <1>8. CASE \E p \in Provider, pay \in Nat, lost \in Nat :
                ProWithdraw(p, pay, lost)
    BY <1>8, ProWithdrawStep
  <1>9. CASE \E i \in Index, amount \in Nat : Withdraw(i, amount)
    BY <1>9, WithdrawStep
  <1> QED
    BY <1>1, <1>2, <1>3, <1>4, <1>5, <1>6, <1>7, <1>8, <1>9, NextCases

\* fs.go keeps its counters non-negative and its clock readings in the past,
\* whatever is signed, claimed and asked for; balances, prices and the amounts
\* computed from them are signed big.Int, and later theorems say when they are
\* not negative.
THEOREM FsTypes == Spec => []TypeOK
  <1> QED
    BY InitTypes, StepTypes, PTL DEF Spec

-----------------------------------------------------------------------------
(***************************************************************************)
(* Orders in turn                                                          *)
(***************************************************************************)
\* The three things a step can do to the orders: nothing, but a failing call
\* may lower the size of the books; add the next order of f at p; or end it.
OrdersKept ==
    \A f \in Fs, p \in Provider :
        /\ ao'[f][p].nonce = ao[f][p].nonce
        /\ ao'[f][p].subNonce = ao[f][p].subNonce
        /\ ao'[f][p].size <= ao[f][p].size

OthersKept(f, p) ==
    \A g \in Fs, q \in Provider : ~(g = f /\ q = p) => ao'[g][q] = ao[g][q]

OrderAdded(f, p, n) ==
    /\ n \in Nat
    /\ n + 1 \in DOMAIN Terms[f][p]
    /\ ao[f][p].nonce = n
    /\ ao'[f][p].nonce = n + 1
    /\ ao'[f][p].subNonce = ao[f][p].subNonce
    /\ ao'[f][p].size = ao[f][p].size + Terms[f][p][n + 1].size
    /\ OthersKept(f, p)
    /\ now' = now

OrderEnded(f, p, n) ==
    /\ n \in Nat
    /\ n + 1 \in DOMAIN Terms[f][p]
    /\ Terms[f][p][n + 1].end <= now
    /\ ao[f][p].subNonce = n
    /\ ao[f][p].size >= Terms[f][p][n + 1].size
    /\ ao'[f][p].nonce = ao[f][p].nonce
    /\ ao'[f][p].subNonce = n + 1
    /\ ao'[f][p].size = ao[f][p].size - Terms[f][p][n + 1].size
    /\ OthersKept(f, p)
    /\ now' = now

\* What a step does to the prices: that of p changes by d.
PricesMoved(p, d) ==
    ~clobbered' =>
        /\ ~clobbered
        /\ \A q \in Provider :
              se'[q].Price = IF q = p THEN se[q].Price + d ELSE se[q].Price

PricesKept ==
    ~clobbered' =>
        /\ ~clobbered
        /\ \A q \in Provider : se'[q].Price = se[q].Price

\* AddOrder adds one.
LEMMA AddOrderOrders ==
    ASSUME TypeOK, NEW k, NEW u \in User, NEW p \in Provider,
           NEW n \in Nonces(u, p), AddOrder(k, u, p, n)
    PROVE  /\ OrderAdded(u, p, n)
           /\ PricesMoved(p, Terms[u][p][n + 1].sprice)
  <1>1. PICK o : o = Terms[u][p][n + 1]
    OBVIOUS
  <1>2. /\ n \in Nat /\ n + 1 \in DOMAIN Terms[u][p] /\ u \in Fs
        /\ ao[u][p].nonce = n /\ now' = now /\ clobbered' = clobbered
        /\ ao' = [ao EXCEPT ![u][p] = Opened(@, o)]
        /\ se' = [se EXCEPT ![p] = Add(@, o)]
    BY <1>1, FsAssumption, Constants DEF Nonces, AddOrder, CanAdd
  <1>3. o.size \in Nat /\ o.sprice \in Int
    BY <1>1, <1>2, TermsType
  <1>4. ao[u][p] \in Aggregate /\ se[p] \in Settlement
    BY <1>2, StateTypes
  <1>5. \A g \in Fs, q \in Provider :
            ao'[g][q] = IF g = u /\ q = p THEN Opened(ao[u][p], o) ELSE ao[g][q]
    BY <1>2, <1>3, StateTypes, OpenedStep
  <1>6. OthersKept(u, p) /\ ao'[u][p] = Opened(ao[u][p], o)
    BY <1>2, <1>5 DEF OthersKept
  <1>7. OrderAdded(u, p, n)
    <2>1. /\ ao'[u][p].nonce = ao[u][p].nonce + 1
          /\ ao'[u][p].subNonce = ao[u][p].subNonce
          /\ ao'[u][p].size = ao[u][p].size + o.size
      <3>1. /\ Opened(ao[u][p], o).nonce = ao[u][p].nonce + 1
            /\ Opened(ao[u][p], o).subNonce = ao[u][p].subNonce
            /\ Opened(ao[u][p], o).size = ao[u][p].size + o.size
        BY <1>3, <1>4, BookFields
      <3> QED
        BY <1>6, <3>1
    <2> QED
      BY <1>1, <1>2, <1>6, <2>1 DEF OrderAdded
  <1>8. Add(se[p], o).Price = se[p].Price + o.sprice
    BY <1>4, AddFields
  <1>9. PricesMoved(p, o.sprice)
    BY <1>2, <1>8, StateTypes DEF PricesMoved
  <1> QED
    BY <1>1, <1>7, <1>9

\* SubOrder ends one.
LEMMA SubOrderOrders ==
    ASSUME TypeOK, NEW k, NEW u \in User, NEW p \in Provider,
           NEW n \in Nonces(u, p), SubOrder(k, u, p, n)
    PROVE  /\ OrderEnded(u, p, n)
           /\ PricesMoved(p, -Terms[u][p][n + 1].sprice)
  <1>1. PICK o : o = Terms[u][p][n + 1]
    OBVIOUS
  <1>2. /\ n \in Nat /\ n + 1 \in DOMAIN Terms[u][p] /\ u \in Fs
        /\ ao[u][p].subNonce = n /\ now' = now /\ clobbered' = clobbered
        /\ o.end <= now /\ ao[u][p].size >= o.size
        /\ ao' = [ao EXCEPT ![u][p] = Ended(@, o)]
        /\ se' = [se EXCEPT ![p] = End(@, o)]
    BY <1>1, FsAssumption, Constants DEF Nonces, SubOrder, CanSub
  <1>3. o.size \in Nat /\ o.sprice \in Int
    BY <1>1, <1>2, TermsType
  <1>4. ao[u][p] \in Aggregate /\ se[p] \in Settlement
    BY <1>2, StateTypes
  <1>5. \A g \in Fs, q \in Provider :
            ao'[g][q] = IF g = u /\ q = p THEN Ended(ao[u][p], o) ELSE ao[g][q]
    BY <1>2, <1>3, StateTypes, ClosedStep
  <1>6. OthersKept(u, p) /\ ao'[u][p] = Ended(ao[u][p], o)
    BY <1>2, <1>5 DEF OthersKept
  <1>7. OrderEnded(u, p, n)
    <2>1. /\ ao'[u][p].nonce = ao[u][p].nonce
          /\ ao'[u][p].subNonce = ao[u][p].subNonce + 1
          /\ ao'[u][p].size = ao[u][p].size - o.size
      <3>1. /\ Ended(ao[u][p], o).nonce = ao[u][p].nonce
            /\ Ended(ao[u][p], o).subNonce = ao[u][p].subNonce + 1
            /\ Ended(ao[u][p], o).size = ao[u][p].size - o.size
        BY <1>3, <1>4, BookFields
      <3> QED
        BY <1>6, <3>1
    <2> QED
      BY <1>1, <1>2, <1>6, <2>1 DEF OrderEnded
  <1>8. End(se[p], o).Price = se[p].Price - o.sprice /\ se[p].Price \in Int
    BY <1>4, EndFields, SettlementFields
  <1>9. End(se[p], o).Price = se[p].Price + (-o.sprice)
    BY <1>3, <1>8
  <1>10. PricesMoved(p, -o.sprice)
    BY <1>2, <1>9, StateTypes DEF PricesMoved
  <1> QED
    BY <1>1, <1>7, <1>10

\* AddRepair adds one, at the new provider.
LEMMA AddRepairOrders ==
    ASSUME TypeOK, NEW k, NEW p \in Provider, NEW q \in Provider,
           NEW n \in Nonces(Repair, q), AddRepair(k, p, q, n)
    PROVE  /\ OrderAdded(Repair, q, n)
           /\ PricesMoved(q, Terms[Repair][q][n + 1].sprice)
  <1>1. PICK o : o = Terms[Repair][q][n + 1]
    OBVIOUS
  <1>2. /\ n \in Nat /\ n + 1 \in DOMAIN Terms[Repair][q] /\ Repair \in Fs
        /\ ao[Repair][q].nonce = n /\ now' = now
        /\ ~clobbered' => ~clobbered /\ q \in proInfo
        /\ ao' = [ao EXCEPT ![Repair][q] = Opened(@, o)]
        /\ q \in proInfo => se' = [[se EXCEPT ![q] = Add(@, o)]
                                      EXCEPT ![p] = RepairPaid(@, o)]
    <2>1. Repair \in Fs
      BY Constants
    <2>2. /\ n \in Nat /\ n + 1 \in DOMAIN Terms[Repair][q]
          /\ ao[Repair][q].nonce = n /\ now' = now
          /\ ao' = [ao EXCEPT ![Repair][q] = Opened(@, o)]
      BY <1>1, <2>1, FsAssumption DEF Nonces, AddRepair, CanAdd
    <2>3. q \in proInfo => se' = [[se EXCEPT ![q] = Add(@, o)]
                                      EXCEPT ![p] = RepairPaid(@, o)]
      BY <1>1 DEF AddRepair
    <2>4. ~clobbered' => ~clobbered /\ q \in proInfo
      BY DEF AddRepair
    <2> QED
      BY <2>1, <2>2, <2>3, <2>4
  <1>3. /\ o.size \in Nat /\ o.sprice \in Int /\ o.start \in Nat
        /\ Pay(o) \in Int /\ Manage(o) \in Int
    BY <1>1, <1>2, TermsType
  <1>4. /\ ao[Repair][q] \in Aggregate /\ se[q] \in Settlement
        /\ se[p] \in Settlement
    BY <1>2, StateTypes
  <1>5. \A g \in Fs, r \in Provider :
            ao'[g][r] = IF g = Repair /\ r = q THEN Opened(ao[Repair][q], o)
                        ELSE ao[g][r]
    BY <1>2, <1>3, StateTypes, OpenedStep
  <1>6. OthersKept(Repair, q) /\ ao'[Repair][q] = Opened(ao[Repair][q], o)
    BY <1>2, <1>5 DEF OthersKept
  <1>7. OrderAdded(Repair, q, n)
    <2>1. /\ ao'[Repair][q].nonce = ao[Repair][q].nonce + 1
          /\ ao'[Repair][q].subNonce = ao[Repair][q].subNonce
          /\ ao'[Repair][q].size = ao[Repair][q].size + o.size
      <3>1. /\ Opened(ao[Repair][q], o).nonce = ao[Repair][q].nonce + 1
            /\ Opened(ao[Repair][q], o).subNonce = ao[Repair][q].subNonce
            /\ Opened(ao[Repair][q], o).size = ao[Repair][q].size + o.size
        BY <1>3, <1>4, BookFields
      <3> QED
        BY <1>6, <3>1
    <2> QED
      BY <1>1, <1>2, <1>6, <2>1 DEF OrderAdded
  <1>8. PricesMoved(q, o.sprice)
    <2> SUFFICES ASSUME ~clobbered', NEW r \in Provider
                 PROVE  se'[r].Price = IF r = q THEN se[r].Price + o.sprice
                                       ELSE se[r].Price
      BY <1>2 DEF PricesMoved
    <2>1. se'[r] = IF r = q THEN IF q = p THEN RepairPaid(Add(se[q], o), o)
                                 ELSE Add(se[q], o)
                   ELSE IF r = p THEN RepairPaid(se[p], o) ELSE se[r]
      BY <1>2, StateTypes
    <2>2. Add(se[q], o).Price = se[q].Price + o.sprice
      BY <1>4, AddFields
    <2>3. Add(se[q], o) \in Settlement
      BY <1>3, <1>4, AddType
    <2>4. RepairPaid(Add(se[q], o), o).Price = Add(se[q], o).Price
      BY <2>3, RepairPaidFields
    <2>5. RepairPaid(se[p], o).Price = se[p].Price
      BY <1>4, RepairPaidFields
    <2> QED
      BY <2>1, <2>2, <2>4, <2>5
  <1> QED
    BY <1>1, <1>7, <1>8

\* SubRepair ends one if the provider has a settlement.
LEMMA SubRepairEnds ==
    ASSUME TypeOK, NEW k, NEW q \in Provider, q \in proInfo,
           NEW n \in Nonces(Repair, q), SubRepair(k, q, n)
    PROVE  OrderEnded(Repair, q, n)
  <1>1. PICK o : o = Terms[Repair][q][n + 1]
    OBVIOUS
  <1>2. /\ n \in Nat /\ n + 1 \in DOMAIN Terms[Repair][q] /\ Repair \in Fs
        /\ ao[Repair][q].subNonce = n /\ now' = now
        /\ o.end <= now /\ ao[Repair][q].size >= o.size
        /\ ao' = [ao EXCEPT ![Repair][q] = Ended(@, o)]
    BY <1>1, FsAssumption, Constants DEF Nonces, SubRepair, CanSub
  <1>3. o.size \in Nat /\ o.sprice \in Int
    BY <1>1, <1>2, TermsType
  <1>4. ao[Repair][q] \in Aggregate
    BY <1>2, StateTypes
  <1>5. \A g \in Fs, r \in Provider :
            ao'[g][r] = IF g = Repair /\ r = q THEN Ended(ao[Repair][q], o)
                        ELSE ao[g][r]
    BY <1>2, <1>3, StateTypes, ClosedStep
  <1>6. OthersKept(Repair, q) /\ ao'[Repair][q] = Ended(ao[Repair][q], o)
    BY <1>2, <1>5 DEF OthersKept
  <1>7. /\ Ended(ao[Repair][q], o).nonce = ao[Repair][q].nonce
        /\ Ended(ao[Repair][q], o).subNonce = ao[Repair][q].subNonce + 1
        /\ Ended(ao[Repair][q], o).size = ao[Repair][q].size - o.size
    BY <1>3, <1>4, BookFields
  <1> QED
    BY <1>1, <1>2, <1>6, <1>7 DEF OrderEnded

\* SubRepair ends one, or fails and only lowers the size of the books.
LEMMA SubRepairOrders ==
    ASSUME TypeOK, NEW k, NEW q \in Provider,
           NEW n \in Nonces(Repair, q), SubRepair(k, q, n)
    PROVE  \/ /\ OrderEnded(Repair, q, n)
              /\ PricesMoved(q, -Terms[Repair][q][n + 1].sprice)
           \/ OrdersKept /\ PricesKept /\ now' = now
  <1>1. PICK o : o = Terms[Repair][q][n + 1]
    OBVIOUS
  <1>2. /\ n \in Nat /\ n + 1 \in DOMAIN Terms[Repair][q] /\ Repair \in Fs
        /\ ao[Repair][q].subNonce = n /\ now' = now /\ clobbered' = clobbered
        /\ o.end <= now /\ ao[Repair][q].size >= o.size
    BY <1>1, FsAssumption, Constants DEF Nonces, SubRepair, CanSub
  <1>3. o.size \in Nat /\ o.sprice \in Int
    BY <1>1, <1>2, TermsType
  <1>4. ao[Repair][q] \in Aggregate /\ se[q] \in Settlement
    BY <1>2, StateTypes
  <1>5. CASE q \in proInfo
    <2>1. /\ ao' = [ao EXCEPT ![Repair][q] = Ended(@, o)]
          /\ se' = [se EXCEPT ![q] = End(@, o)]
      BY <1>1, <1>5 DEF SubRepair
    <2>4. OrderEnded(Repair, q, n)
      BY <1>5, SubRepairEnds
    <2>5. End(se[q], o).Price = se[q].Price - o.sprice /\ se[q].Price \in Int
      BY <1>4, EndFields, SettlementFields
    <2>6. End(se[q], o).Price = se[q].Price + (-o.sprice)
      BY <1>3, <2>5
    <2>7. PricesMoved(q, -o.sprice)
      BY <1>2, <2>1, <2>6, StateTypes DEF PricesMoved
    <2> QED
      BY <1>1, <2>4, <2>7
  <1>6. CASE q \notin proInfo
    <2>1. /\ ao' = [ao EXCEPT ![Repair][q] = Closed(@, o)]
          /\ se' = se
      BY <1>1, <1>6 DEF SubRepair
    <2>2. \A g \in Fs, r \in Provider :
              ao'[g][r] = IF g = Repair /\ r = q THEN Closed(ao[Repair][q], o)
                          ELSE ao[g][r]
      BY <1>2, <1>3, <2>1, StateTypes, ClosedStep
    <2>3. /\ Closed(ao[Repair][q], o).nonce = ao[Repair][q].nonce
          /\ Closed(ao[Repair][q], o).subNonce = ao[Repair][q].subNonce
          /\ Closed(ao[Repair][q], o).size = ao[Repair][q].size - o.size
      BY <1>3, <1>4, BookFields
    <2>4. \A g \in Fs, r \in Provider : ao[g][r].size \in Int
      BY StateTypes DEF Aggregate
    <2>5. OrdersKept
      BY <1>2, <1>3, <2>2, <2>3, <2>4 DEF OrdersKept
    <2>6. PricesKept
      BY <1>2, <2>1 DEF PricesKept
    <2> QED
      BY <1>2, <2>5, <2>6
  <1> QED
    BY <1>5, <1>6

\* Every step does one of the three.
LEMMA OrdersStep ==
    ASSUME TypeOK, [Next]_vars
    PROVE  \/ /\ OrdersKept /\ PricesKept
              /\ now' = now \/ (now' > now /\ ao' = ao)
           \/ \E f \in Fs, p \in Provider : \E n \in Nat :
                 /\ OrderAdded(f, p, n)
                 /\ PricesMoved(p, Terms[f][p][n + 1].sprice)
           \/ \E f \in Fs, p \in Provider : \E n \in Nat :
                 /\ OrderEnded(f, p, n)
                 /\ PricesMoved(p, -Terms[f][p][n + 1].sprice)
  <1> DEFINE Kept == /\ OrdersKept /\ PricesKept
                     /\ now' = now \/ (now' > now /\ ao' = ao)
             Added == \E f \in Fs, p \in Provider : \E n \in Nat :
                         /\ OrderAdded(f, p, n)
                         /\ PricesMoved(p, Terms[f][p][n + 1].sprice)
             Gone  == \E f \in Fs, p \in Provider : \E n \in Nat :
                         /\ OrderEnded(f, p, n)
                         /\ PricesMoved(p, -Terms[f][p][n + 1].sprice)
  <1> SUFFICES Kept \/ Added \/ Gone
    OBVIOUS
  <1>1. \A f \in Fs, p \in Provider : ao[f][p].size <= ao[f][p].size
    BY StateTypes DEF Aggregate
  <1>2. ASSUME UNCHANGED <<ao, se, clobbered>> PROVE OrdersKept /\ PricesKept
    BY <1>1, <1>2 DEF OrdersKept, PricesKept
  <1>3. CASE Quiet
    <2>1. OrdersKept /\ PricesKept /\ ao' = ao
      BY <1>2, <1>3, QuietStep
    <2>2. now' = now \/ now' > now
      <3>1. CASE Tick
        BY <3>1, StateTypes DEF Tick
      <3>2. CASE now' = now
        BY <3>2
      <3> QED
        BY <1>3, <3>1, <3>2 DEF Quiet, ApproveFs, AddKeeper, CreateFs, vars
    <2> QED
      BY <2>1, <2>2
  <1>4. ASSUME NEW i \in Index, NEW v \in Nat,
               Recharge(i, v) \/ RechargeByAdmin(i, v) \/ Withdraw(i, v)
        PROVE  Kept
    BY <1>2, <1>4 DEF Recharge, RechargeByAdmin, Withdraw
  <1>5. ASSUME NEW p \in Provider, NEW pay \in Nat, NEW lost \in Nat,
               ProWithdraw(p, pay, lost)
        PROVE  Kept
    <2>1. PICK s : s = Accrued(se[p], lost)
      OBVIOUS
    <2>2. /\ UNCHANGED <<ao, clobbered, now>>
          /\ \/ se' = [se EXCEPT ![p] = s]
             \/ se' = [se EXCEPT ![p] = Paid(s, pay)]
      BY <1>5, <2>1 DEF ProWithdraw
    <2>3. s \in Settlement /\ s.Price = se[p].Price
      BY ZenonT(30), <2>1, StateTypes, AccruedType, AccruedFields
    <2>4. Paid(s, pay).Price = s.Price
      BY <2>3, PaidFields
    <2>5. PricesKept
      BY <2>2, <2>3, <2>4, StateTypes DEF PricesKept
    <2>6. OrdersKept
      BY <1>1, <2>2 DEF OrdersKept
    <2> QED
      BY <2>2, <2>5, <2>6
  <1>6. ASSUME NEW k \in Callers, NEW u \in User, NEW p \in Provider,
               NEW n \in Nonces(u, p), AddOrder(k, u, p, n)
        PROVE  Added
    <2>1. /\ OrderAdded(u, p, n)
          /\ PricesMoved(p, Terms[u][p][n + 1].sprice)
      BY <1>6, AddOrderOrders
    <2>2. u \in Fs /\ n \in Nat
      BY <2>1, Constants DEF OrderAdded
    <2> QED
      BY <2>1, <2>2
  <1>7. ASSUME NEW k \in Callers, NEW u \in User, NEW p \in Provider,
               NEW n \in Nonces(u, p), SubOrder(k, u, p, n)
        PROVE  Gone
    <2>1. /\ OrderEnded(u, p, n)
          /\ PricesMoved(p, -Terms[u][p][n + 1].sprice)
      BY <1>7, SubOrderOrders
    <2>2. u \in Fs /\ n \in Nat
      BY <2>1, Constants DEF OrderEnded
    <2> QED
      BY <2>1, <2>2
  <1>8. ASSUME NEW k \in Callers, NEW p \in Provider, NEW q \in Provider,
               NEW n \in Nonces(Repair, q), AddRepair(k, p, q, n)
        PROVE  Added
    <2>1. /\ OrderAdded(Repair, q, n)
          /\ PricesMoved(q, Terms[Repair][q][n + 1].sprice)
      BY <1>8, AddRepairOrders
    <2>2. Repair \in Fs /\ n \in Nat
      BY <2>1, Constants DEF OrderAdded
    <2> QED
      BY <2>1, <2>2
  <1>9. ASSUME NEW k \in Callers, NEW q \in Provider,
               NEW n \in Nonces(Repair, q), SubRepair(k, q, n)
        PROVE  Kept \/ Gone
    <2>1. CASE OrdersKept /\ PricesKept /\ now' = now
      BY <2>1
    <2>2. CASE /\ OrderEnded(Repair, q, n)
               /\ PricesMoved(q, -Terms[Repair][q][n + 1].sprice)
      <3>1. Repair \in Fs /\ n \in Nat
        BY <2>2, Constants DEF OrderEnded
      <3> QED
        BY <2>2, <3>1
    <2> QED
      BY <1>9, <2>1, <2>2, SubRepairOrders
  <1> HIDE DEF Kept, Added, Gone
  <1> QED
    BY <1>3, <1>4, <1>5, <1>6, <1>7, <1>8, <1>9, NextCases

\* Sums over the open orders of f at p.
LEMMA OpenFinite ==
    ASSUME NEW f \in Fs, NEW p \in Provider
    PROVE  /\ IsFiniteSet(Nonces(f, p)) /\ IsFiniteSet(OpenOrders(f, p))
           /\ OpenOrders(f, p) \subseteq Nonces(f, p)
           /\ Nonces(f, p) \subseteq Nat
           /\ \A n \in Nonces(f, p) : n + 1 \in DOMAIN Terms[f][p]
  <1>1. Terms[f][p] \in Seq(Order)
    BY FsAssumption
  <1>2. Len(Terms[f][p]) \in Nat
    BY <1>1
  <1>3. IsFiniteSet(Nonces(f, p))
    BY <1>2, FS_Interval DEF Nonces
  <1>4. OpenOrders(f, p) \subseteq Nonces(f, p)
    BY DEF OpenOrders
  <1>5. /\ Nonces(f, p) \subseteq Nat
        /\ \A n \in Nonces(f, p) : n + 1 \in DOMAIN Terms[f][p]
    BY <1>1, <1>2 DEF Nonces
  <1> QED
    BY <1>3, <1>4, <1>5, FS_Subset

\* An order that is added joins the open ones.
LEMMA OpenMore ==
    ASSUME TypeOK, NEW f \in Fs, NEW p \in Provider, NEW n \in Nonces(f, p),
           OrderAdded(f, p, n), ao[f][p].subNonce <= n,
           NEW g, \A m \in Nonces(f, p) : g[m] \in Int
    PROVE  SumFunctionOnSet(g, OpenOrders(f, p)')
              = SumFunctionOnSet(g, OpenOrders(f, p)) + g[n]
  <1> DEFINE S == OpenOrders(f, p)
             T == OpenOrders(f, p)'
  <1>1. /\ n \in Nat /\ ao[f][p].subNonce \in Nat
        /\ Nonces(f, p) \subseteq Nat
    BY OpenFinite, StateTypes DEF Aggregate
  <1>2. T = S \cup {n} /\ n \notin S
    BY <1>1 DEF OpenOrders, OrderAdded, Nonces
  <1>3. IsFiniteSet(S) /\ IsFiniteSet(T) /\ S \subseteq Nonces(f, p)
    BY <1>2, OpenFinite, FS_AddElement
  <1>4. /\ \A m \in T : g[m] \in Int
        /\ n \in T /\ T \ {n} = S
    BY <1>2, <1>3
  <1>5. \A m \in S : g[m] \in Int
    BY <1>3
  <1> HIDE DEF S, T
  <1>6. SumFunctionOnSet(g, T) = g[n] + SumFunctionOnSet(g, T \ {n})
    BY <1>3, <1>4, SumRemove
  <1>7. SumFunctionOnSet(g, S) \in Int
    BY <1>3, <1>5, SumType
  <1>8. g[n] \in Int /\ T \ {n} = S
    BY <1>4
  <1>9. SumFunctionOnSet(g, T) = SumFunctionOnSet(g, S) + g[n]
    <2>1. SumFunctionOnSet(g, T) = g[n] + SumFunctionOnSet(g, S)
      BY ONLY <1>6, <1>8
    <2> QED
      BY ONLY <1>7, <1>8, <2>1
  <1> QED
    BY <1>9 DEF S, T

\* An order that ends leaves the open ones, if it was one.
LEMMA OpenLess ==
    ASSUME TypeOK, NEW f \in Fs, NEW p \in Provider, NEW n \in Nonces(f, p),
           OrderEnded(f, p, n), n < ao[f][p].nonce,
           NEW g, \A m \in Nonces(f, p) : g[m] \in Int
    PROVE  SumFunctionOnSet(g, OpenOrders(f, p)')
              = SumFunctionOnSet(g, OpenOrders(f, p)) - g[n]
  <1> DEFINE S == OpenOrders(f, p)
             T == OpenOrders(f, p)'
  <1>1. /\ n \in Nat /\ ao[f][p].nonce \in Nat
        /\ Nonces(f, p) \subseteq Nat
    BY OpenFinite, StateTypes DEF Aggregate
  <1>2. T = S \ {n} /\ n \in S
    BY <1>1 DEF OpenOrders, OrderEnded, Nonces
  <1>3. IsFiniteSet(S) /\ S \subseteq Nonces(f, p)
    BY OpenFinite
  <1>4. \A m \in S : g[m] \in Int
    BY <1>3
  <1>5. IsFiniteSet(T) /\ \A m \in T : g[m] \in Int
    BY <1>2, <1>3, <1>4, FS_Subset
  <1> HIDE DEF S, T
  <1>6. SumFunctionOnSet(g, S) = g[n] + SumFunctionOnSet(g, S \ {n})
    BY <1>2, <1>3, <1>4, SumRemove
  <1>7. SumFunctionOnSet(g, T) \in Int
    BY <1>5, SumType
  <1>8. g[n] \in Int /\ S \ {n} = T
    BY <1>2, <1>4
  <1>9. SumFunctionOnSet(g, T) = SumFunctionOnSet(g, S) - g[n]
    <2>1. SumFunctionOnSet(g, S) = g[n] + SumFunctionOnSet(g, T)
      BY ONLY <1>6, <1>8
    <2> QED
      BY ONLY <1>7, <1>8, <2>1
  <1> QED
    BY <1>9 DEF S, T

\* Orders elsewhere, and steps that keep the nonces, keep the open ones.
LEMMA OpenSame ==
    ASSUME NEW f \in Fs, NEW p \in Provider,
           ao'[f][p].nonce = ao[f][p].nonce,
           ao'[f][p].subNonce = ao[f][p].subNonce
    PROVE  OpenOrders(f, p)' = OpenOrders(f, p)
  BY DEF OpenOrders, Nonces

\* The size in the books covers no more than the open orders: a failing
\* SubRepair lowers it, and nothing raises it but an order that is added.  So
\* an order whose size the books still hold is open, though SubOrder and
\* SubRepair do not compare its nonce with that of the next order.
OpenSize(f, p) ==
    SumFunctionOnSet([n \in Nonces(f, p) |-> Terms[f][p][n + 1].size],
                     OpenOrders(f, p))

OrderInv ==
    \A f \in Fs, p \in Provider :
        /\ ao[f][p].subNonce <= ao[f][p].nonce
        /\ ao[f][p].nonce <= Len(Terms[f][p])
        /\ ao[f][p].size <= OpenSize(f, p)

\* An order that ends was added: the size of the open orders would not cover it.
LEMMA EndedWasOpen ==
    ASSUME TypeOK, OrderInv, NEW f \in Fs, NEW p \in Provider, NEW n \in Nat,
           OrderEnded(f, p, n)
    PROVE  n < ao[f][p].nonce
  <1> SUFFICES ASSUME ~(n < ao[f][p].nonce) PROVE FALSE
    OBVIOUS
  <1> DEFINE o == Terms[f][p][n + 1]
             g == [m \in Nonces(f, p) |-> Terms[f][p][m + 1].size]
  <1>1. /\ n + 1 \in DOMAIN Terms[f][p]
        /\ ao[f][p].subNonce = n /\ ao[f][p].size >= o.size
    BY DEF OrderEnded
  <1>2. o.size \in Nat \ {0}
    BY <1>1, TermsType
  <1>3. ao[f][p].size \in Int /\ ao[f][p].nonce \in Nat
    BY StateTypes DEF Aggregate
  <1>4. OpenOrders(f, p) = {}
    <2>1. Nonces(f, p) \subseteq Nat
      BY OpenFinite
    <2> QED
      BY <1>1, <1>3, <2>1 DEF OpenOrders
  <1>5. OpenSize(f, p) = 0
    BY <1>4, SumEmpty DEF OpenSize
  <1>6. ao[f][p].size <= 0
    BY <1>5 DEF OrderInv
  <1> HIDE DEF o
  <1> QED
    BY <1>1, <1>2, <1>3, <1>6

\* Every step keeps the nonces in order and the stored size covered.
LEMMA StepOrderInv == TypeOK /\ OrderInv /\ [Next]_vars => OrderInv'
  <1> SUFFICES ASSUME TypeOK, OrderInv, [Next]_vars,
                      NEW f \in Fs, NEW p \in Provider
               PROVE  /\ ao'[f][p].subNonce <= ao'[f][p].nonce
                      /\ ao'[f][p].nonce <= Len(Terms[f][p])
                      /\ ao'[f][p].size <= OpenSize(f, p)'
    BY DEF OrderInv
  <1> DEFINE g == [n \in Nonces(f, p) |-> Terms[f][p][n + 1].size]
             Size(S) == SumFunctionOnSet(g, S)
             Goal == /\ ao'[f][p].subNonce <= ao'[f][p].nonce
                     /\ ao'[f][p].nonce <= Len(Terms[f][p])
                     /\ ao'[f][p].size <= Size(OpenOrders(f, p)')
  <1>1. /\ ao[f][p].subNonce <= ao[f][p].nonce
        /\ ao[f][p].nonce <= Len(Terms[f][p])
        /\ ao[f][p].size <= Size(OpenOrders(f, p))
    BY DEF OrderInv, OpenSize
  <1>2. TypeOK'
    BY StepTypes
  <1>3. /\ ao[f][p].subNonce \in Nat /\ ao[f][p].nonce \in Nat
        /\ ao[f][p].size \in Int /\ ao'[f][p].size \in Int
        /\ Len(Terms[f][p]) \in Nat
    <2>1. ao' \in [Fs -> [Provider -> Aggregate]]
      BY <1>2 DEF TypeOK, Aggregate
    <2>2. Terms[f][p] \in Seq(Order)
      BY FsAssumption
    <2> QED
      BY <2>1, <2>2, StateTypes DEF Aggregate
  <1>4. \A n \in Nonces(f, p) : g[n] \in Int
    <2> SUFFICES ASSUME NEW n \in Nonces(f, p)
                 PROVE  Terms[f][p][n + 1].size \in Int
      OBVIOUS
    <2>1. n \in Nat /\ n + 1 \in DOMAIN Terms[f][p]
      BY OpenFinite
    <2>2. Terms[f][p][n + 1].size \in Nat
      BY <2>1, TermsType
    <2> QED
      BY <2>2
  <1>5. \A n \in Nonces(f, p) : g[n] = Terms[f][p][n + 1].size
    OBVIOUS
  <1>6. Size(OpenOrders(f, p)) \in Int
    <2>1. \A n \in OpenOrders(f, p) : g[n] \in Int
      BY <1>4, OpenFinite
    <2> HIDE DEF g
    <2> QED
      BY <2>1, OpenFinite, SumType
  <1> SUFFICES Goal
    BY DEF OpenSize, Nonces
  <1> HIDE DEF g
  <1>7. ASSUME ao'[f][p].nonce = ao[f][p].nonce,
               ao'[f][p].subNonce = ao[f][p].subNonce,
               ao'[f][p].size <= ao[f][p].size
        PROVE  Goal
    <2>1. OpenOrders(f, p)' = OpenOrders(f, p)
      BY <1>7, OpenSame
    <2> QED
      BY <1>1, <1>3, <1>6, <1>7, <2>1
  <1>8. CASE OrdersKept
    BY <1>7, <1>8 DEF OrdersKept
  <1>9. ASSUME NEW h \in Fs, NEW q \in Provider, NEW n \in Nat,
               OrderAdded(h, q, n)
        PROVE  Goal
    <2>1. CASE h = f /\ q = p
      <3>1. /\ n + 1 \in DOMAIN Terms[f][p] /\ ao[f][p].nonce = n
            /\ ao'[f][p].nonce = n + 1
            /\ ao'[f][p].subNonce = ao[f][p].subNonce
            /\ ao'[f][p].size = ao[f][p].size + Terms[f][p][n + 1].size
        BY <1>9, <2>1 DEF OrderAdded
      <3>2. n \in Nonces(f, p) /\ n < Len(Terms[f][p])
        BY <3>1, TermsType
      <3>3. Size(OpenOrders(f, p)') = Size(OpenOrders(f, p)) + g[n]
        BY <1>1, <1>4, <1>9, <2>1, <3>1, <3>2, OpenMore
      <3>4. g[n] = Terms[f][p][n + 1].size /\ g[n] \in Int
        BY <1>4, <1>5, <3>2
      <3>5. ao'[f][p].size <= Size(OpenOrders(f, p)')
        BY SMTT(30), <1>1, <1>3, <1>6, <3>1, <3>3, <3>4
      <3> QED
        BY <1>1, <1>3, <3>1, <3>2, <3>5
    <2>2. CASE ~(h = f /\ q = p)
      <3>1. ao'[f][p] = ao[f][p]
        BY <1>9, <2>2 DEF OrderAdded, OthersKept
      <3> QED
        BY <1>3, <1>7, <3>1
    <2> QED
      BY <2>1, <2>2
  <1>10. ASSUME NEW h \in Fs, NEW q \in Provider, NEW n \in Nat,
                OrderEnded(h, q, n)
         PROVE  Goal
    <2>1. CASE h = f /\ q = p
      <3>1. /\ n + 1 \in DOMAIN Terms[f][p] /\ ao[f][p].subNonce = n
            /\ ao'[f][p].nonce = ao[f][p].nonce
            /\ ao'[f][p].subNonce = n + 1
            /\ ao'[f][p].size = ao[f][p].size - Terms[f][p][n + 1].size
        BY <1>10, <2>1 DEF OrderEnded
      <3>2. n \in Nonces(f, p)
        BY <3>1, TermsType
      <3>3. n < ao[f][p].nonce
        BY <1>10, <2>1, EndedWasOpen
      <3>4. Size(OpenOrders(f, p)') = Size(OpenOrders(f, p)) - g[n]
        BY ZenonT(30), <1>4, <1>10, <2>1, <3>2, <3>3, OpenLess
      <3>5. g[n] = Terms[f][p][n + 1].size /\ g[n] \in Int
        BY <1>4, <1>5, <3>2
      <3>6. ao'[f][p].size <= Size(OpenOrders(f, p)')
        BY SMTT(30), <1>1, <1>3, <1>6, <3>1, <3>4, <3>5
      <3> QED
        BY <1>1, <1>3, <3>1, <3>3, <3>6
    <2>2. CASE ~(h = f /\ q = p)
      <3>1. ao'[f][p] = ao[f][p]
        BY <1>10, <2>2 DEF OrderEnded, OthersKept
      <3> QED
        BY <1>3, <1>7, <3>1
    <2> QED
      BY <2>1, <2>2
  <1> HIDE DEF Goal
  <1> QED
    BY <1>8, <1>9, <1>10, OrdersStep

\* At the start no order is stored.
LEMMA InitOrderInv == Init => OrderInv
  <1> SUFFICES ASSUME Init, NEW f \in Fs, NEW p \in Provider
               PROVE  /\ ao[f][p].subNonce <= ao[f][p].nonce
                      /\ ao[f][p].nonce <= Len(Terms[f][p])
                      /\ ao[f][p].size <= OpenSize(f, p)
    BY DEF OrderInv
  <1>1. /\ ao[f][p].nonce = 0 /\ ao[f][p].subNonce = 0 /\ ao[f][p].size = 0
    BY DEF Init, NoOrders
  <1>2. Len(Terms[f][p]) \in Nat
    <2>1. Terms[f][p] \in Seq(Order)
      BY FsAssumption
    <2> QED
      BY <2>1
  <1>3. OpenOrders(f, p) = {}
    <2>1. Nonces(f, p) \subseteq Nat
      BY OpenFinite
    <2> QED
      BY <1>1, <2>1 DEF OpenOrders
  <1>4. OpenSize(f, p) = 0
    BY <1>3, SumEmpty DEF OpenSize
  <1> QED
    BY <1>1, <1>2, <1>4

-----------------------------------------------------------------------------
\* Two tables of counters that differ by one in one entry.
LEMMA RaisedByOne ==
    ASSUME NEW a \in [Fs -> [Provider -> Nat]],
           NEW b \in [Fs -> [Provider -> Nat]],
           NEW f \in Fs, NEW p \in Provider, b[f][p] = a[f][p] + 1,
           \A g \in Fs, q \in Provider : ~(g = f /\ q = p) => b[g][q] = a[g][q]
    PROVE  b = [a EXCEPT ![f][p] = @ + 1]
  <1> DEFINE c == [a EXCEPT ![f][p] = @ + 1]
  <1>1. c \in [Fs -> [Provider -> Nat]]
    OBVIOUS
  <1>2. \A g \in Fs, q \in Provider : b[g][q] = c[g][q]
    OBVIOUS
  <1> HIDE DEF c
  <1>3. \A g \in Fs : b[g] = c[g]
    BY <1>1, <1>2
  <1>4. b = c
    BY <1>1, <1>3
  <1> QED
    BY <1>4 DEF c

\* FsMgr implements OrderBook: whichever keeper calls, and also when an ending
\* fails half-way, the orders of a payer at a provider are added in turn, and
\* end in turn, each once, after it was added and not before its end
\* (fs.go:388, fs.go:483, fs.go:837, fs.go:911).
THEOREM FsOrdersInTurn == Spec => OrdersInTurn
  <1> DEFINE added == [f \in Fs |-> [p \in Provider |-> ao[f][p].nonce]]
             ended == [f \in Fs |-> [p \in Provider |-> ao[f][p].subNonce]]
             Inv == TypeOK /\ OrderInv
  <1>1. Init => Inv
    BY InitTypes, InitOrderInv
  <1>2. Inv /\ [Next]_vars => Inv'
    BY StepTypes, StepOrderInv
  <1>3. Init => Book!Init
    BY DEF Init, Book!Init, NoOrders
  <1>4. Inv /\ [Next]_vars => [Book!Next]_<<now, added, ended>>
    <2> SUFFICES ASSUME TypeOK, OrderInv, [Next]_vars
                 PROVE  Book!Next \/ UNCHANGED <<now, added, ended>>
      OBVIOUS
    <2>1. /\ added \in [Fs -> [Provider -> Nat]]
          /\ added' \in [Fs -> [Provider -> Nat]]
          /\ ended \in [Fs -> [Provider -> Nat]]
          /\ ended' \in [Fs -> [Provider -> Nat]]
      <3>1. TypeOK'
        BY StepTypes
      <3> QED
        BY <3>1 DEF TypeOK
    <2>2. CASE /\ OrdersKept
               /\ now' = now \/ (now' > now /\ ao' = ao)
      <3>1. UNCHANGED <<added, ended>>
        BY <2>2 DEF OrdersKept
      <3> QED
        BY <2>2, <3>1 DEF Book!Next, Book!Pass
    <2>3. ASSUME NEW f \in Fs, NEW p \in Provider, NEW n \in Nat,
                 OrderAdded(f, p, n)
          PROVE  Book!Next
      <3>1. /\ n + 1 \in DOMAIN Terms[f][p] /\ ao[f][p].nonce = n
            /\ ao'[f][p].nonce = n + 1
            /\ ao'[f][p].subNonce = ao[f][p].subNonce
            /\ OthersKept(f, p) /\ now' = now
        BY <2>3 DEF OrderAdded
      <3>2. added[f][p] < Len(Terms[f][p])
        BY <3>1, TermsType
      <3>3. added' = [added EXCEPT ![f][p] = @ + 1]
        <4> DEFINE b == added'
        <4>1. added[f][p] = n /\ b[f][p] = added[f][p] + 1
          BY <3>1
        <4>2. \A g \in Fs, q \in Provider :
                 ~(g = f /\ q = p) => b[g][q] = added[g][q]
          BY <3>1 DEF OthersKept
        <4> HIDE DEF added, b
        <4>3. b = [added EXCEPT ![f][p] = @ + 1]
          BY <2>1, <4>1, <4>2, RaisedByOne DEF b
        <4> QED
          BY <4>3 DEF b
      <3>4. ended' = ended
        BY <3>1 DEF OthersKept
      <3>5. Book!AddNext(f, p)
        BY <3>1, <3>2, <3>3, <3>4 DEF Book!AddNext
      <3> QED
        BY <3>5 DEF Book!Next
    <2>4. ASSUME NEW f \in Fs, NEW p \in Provider, NEW n \in Nat,
                 OrderEnded(f, p, n)
          PROVE  Book!Next
      <3>1. /\ Terms[f][p][n + 1].end <= now /\ ao[f][p].subNonce = n
            /\ ao'[f][p].subNonce = n + 1
            /\ ao'[f][p].nonce = ao[f][p].nonce
            /\ OthersKept(f, p) /\ now' = now
        BY <2>4 DEF OrderEnded
      <3>2. ended[f][p] < added[f][p]
        BY <2>4, <3>1, EndedWasOpen
      <3>3. ended' = [ended EXCEPT ![f][p] = @ + 1]
        <4> DEFINE b == ended'
        <4>1. ended[f][p] = n /\ b[f][p] = ended[f][p] + 1
          BY <3>1
        <4>2. \A g \in Fs, q \in Provider :
                 ~(g = f /\ q = p) => b[g][q] = ended[g][q]
          BY <3>1 DEF OthersKept
        <4> HIDE DEF ended, b
        <4>3. b = [ended EXCEPT ![f][p] = @ + 1]
          BY <2>1, <4>1, <4>2, RaisedByOne DEF b
        <4> QED
          BY <4>3 DEF b
      <3>4. added' = added
        BY <3>1 DEF OthersKept
      <3>5. Terms[f][p][ended[f][p] + 1].end <= now
        BY <3>1
      <3>6. Book!EndNext(f, p)
        BY <3>1, <3>2, <3>3, <3>4, <3>5 DEF Book!EndNext
      <3> QED
        BY <3>6 DEF Book!Next
    <2> HIDE DEF added, ended
    <2> QED
      BY <2>2, <2>3, <2>4, OrdersStep
  <1> QED
    BY <1>1, <1>2, <1>3, <1>4, PTL DEF Spec, OrdersInTurn, Book!Spec

-----------------------------------------------------------------------------
\* Orders stay added, so once a price was negative the condition is gone.
LEMMA NegativeStays ==
    ASSUME TypeOK, [Next]_vars, NoNegativePrice'
    PROVE  NoNegativePrice
  <1>1. \A f \in Fs, p \in Provider : ao[f][p].nonce <= ao'[f][p].nonce
    <2>1. \A f \in Fs, p \in Provider : ao[f][p].nonce \in Nat
      BY StateTypes DEF Aggregate
    <2>2. CASE OrdersKept
      BY <2>1, <2>2 DEF OrdersKept
    <2>3. ASSUME NEW g \in Fs, NEW q \in Provider, NEW n \in Nat,
                 OrderAdded(g, q, n) \/ OrderEnded(g, q, n)
          PROVE  \A f \in Fs, p \in Provider :
                     ao[f][p].nonce <= ao'[f][p].nonce
      <3> SUFFICES ASSUME NEW f \in Fs, NEW p \in Provider
                   PROVE  ao[f][p].nonce <= ao'[f][p].nonce
        OBVIOUS
      <3>1. CASE f = g /\ p = q
        BY <2>1, <2>3, <3>1 DEF OrderAdded, OrderEnded
      <3>2. CASE ~(f = g /\ p = q)
        <4>1. ao'[f][p] = ao[f][p]
          BY <2>3, <3>2 DEF OrderAdded, OrderEnded, OthersKept
        <4> QED
          BY <2>1, <4>1
      <3> QED
        BY <3>1, <3>2
    <2> QED
      BY <2>2, <2>3, OrdersStep
  <1>2. TypeOK'
    BY StepTypes
  <1>3. \A f \in Fs, p \in Provider :
            /\ ao[f][p].nonce \in Nat /\ ao'[f][p].nonce \in Nat
            /\ Nonces(f, p) \subseteq Nat
    <2>1. ao' \in [Fs -> [Provider -> Aggregate]]
      BY <1>2 DEF TypeOK, Aggregate
    <2> QED
      BY <2>1, StateTypes, OpenFinite DEF Aggregate
  <1>4. \A f \in Fs, p \in Provider : \A n \in Nonces(f, p) :
            n < ao'[f][p].nonce => Terms[f][p][n + 1].sprice >= 0
    BY DEF NoNegativePrice, Nonces
  <1>5. ASSUME NEW f \in Fs, NEW p \in Provider, NEW n \in Nonces(f, p),
               n < ao[f][p].nonce
        PROVE  Terms[f][p][n + 1].sprice >= 0
    <2>1. n < ao'[f][p].nonce
      BY <1>1, <1>3, <1>5
    <2> QED
      BY <1>4, <2>1
  <1> QED
    BY <1>5 DEF NoNegativePrice

\* An order that is added has no negative price then.
LEMMA AddedPrice ==
    ASSUME TypeOK, NEW f \in Fs, NEW p \in Provider, NEW n \in Nat,
           OrderAdded(f, p, n), NoNegativePrice'
    PROVE  Terms[f][p][n + 1].sprice >= 0
  <1>1. n \in Nonces(f, p) /\ ao'[f][p].nonce = n + 1
    BY TermsType DEF OrderAdded
  <1>2. \A m \in Nonces(f, p) :
            m < ao'[f][p].nonce => Terms[f][p][m + 1].sprice >= 0
    BY DEF NoNegativePrice, Nonces
  <1>3. n < n + 1
    OBVIOUS
  <1> QED
    BY <1>1, <1>2, <1>3

\* Nor has an order that ends, since it was added.
LEMMA EndedPrice ==
    ASSUME TypeOK, OrderInv, NEW f \in Fs, NEW p \in Provider, NEW n \in Nat,
           OrderEnded(f, p, n), NoNegativePrice
    PROVE  Terms[f][p][n + 1].sprice >= 0
  <1>1. n \in Nonces(f, p)
    BY TermsType DEF OrderEnded
  <1>2. n < ao[f][p].nonce
    BY EndedWasOpen
  <1> QED
    BY <1>1, <1>2 DEF NoNegativePrice

-----------------------------------------------------------------------------
(***************************************************************************)
(* The pot of the keepers                                                  *)
(***************************************************************************)
\* A counted call raises totalCount by what it raises a keeper's count.
LEMMA CountedSum ==
    ASSUME TypeOK, keepers' = keepers, NEW k,
           Counted(k) \/ UNCHANGED <<count, totalCount>>,
           totalCount = SumFunctionOnSet(count, keepers)
    PROVE  totalCount' = SumFunctionOnSet(count', keepers')
  <1>1. CASE UNCHANGED <<count, totalCount>>
    BY <1>1
  <1>2. CASE Counted(k) /\ k \notin keepers
    BY <1>2 DEF Counted
  <1>3. CASE Counted(k) /\ k \in keepers
    <2> DEFINE g == count
               h == [count EXCEPT ![k] = @ + 1]
               S == keepers
               x == k
    <2>1. count' = h /\ totalCount' = totalCount + 1
      BY <1>3 DEF Counted
    <2>2. IsFiniteSet(S)
      BY Constants, StateTypes, FS_Subset
    <2>3. /\ x \in S
          /\ \A y \in S : g[y] \in Int /\ h[y] \in Int
          /\ \A y \in S \ {x} : h[y] = g[y]
      BY <1>3, StateTypes
    <2>4. h[x] - g[x] = 1
      BY <1>3, StateTypes
    <2> HIDE DEF g, h, S, x
    <2>5. SumFunctionOnSet(h, S) = SumFunctionOnSet(g, S) + (h[x] - g[x])
      BY <2>2, <2>3, SumUpdate
    <2> QED
      BY <2>1, <2>4, <2>5 DEF g, S
  <1> QED
    BY <1>1, <1>2, <1>3

\* A keeper that joins counts once.
LEMMA AddKeeperSum ==
    ASSUME TypeOK, NEW k \in Keeper, AddKeeper(k),
           totalCount = SumFunctionOnSet(count, keepers)
    PROVE  totalCount' = SumFunctionOnSet(count', keepers')
  <1> DEFINE h == [count EXCEPT ![k] = 1]
             T == keepers \cup {k}
             S == keepers
  <1>1. /\ keepers' = T /\ count' = h /\ totalCount' = totalCount + 1
        /\ k \notin S
    BY DEF AddKeeper
  <1>2. IsFiniteSet(S) /\ IsFiniteSet(T)
    BY Constants, StateTypes, FS_Subset
  <1>3. /\ \A y \in T : h[y] \in Int
        /\ \A y \in S : count[y] \in Int /\ h[y] = count[y]
        /\ h[k] = 1 /\ k \in T /\ T \ {k} = S
    BY <1>1, StateTypes
  <1> HIDE DEF h, T, S
  <1>4. SumFunctionOnSet(h, T) = h[k] + SumFunctionOnSet(h, T \ {k})
    BY <1>2, <1>3, SumRemove
  <1>5. SumFunctionOnSet(h, S) = SumFunctionOnSet(count, S)
    BY <1>2, <1>3, SumSame
  <1>6. totalCount = SumFunctionOnSet(count, S) /\ totalCount \in Int
    BY StateTypes DEF S
  <1>7. T \ {k} = S /\ h[k] = 1
    BY <1>3
  <1>8. SumFunctionOnSet(h, T) = 1 + totalCount
    BY <1>4, <1>5, <1>6, <1>7
  <1>9. totalCount' = 1 + totalCount
    BY <1>1, <1>6
  <1> QED
    BY <1>1, <1>8, <1>9

\* Sharing out the pot leaves what the division leaves.
LEMMA SharesWithin ==
    ASSUME TypeOK, SharesWithinPot, NoNegativePrice, totalCount > 0
    PROVE  /\ Shares \in Int /\ Shares <= tAcc
           /\ \A k \in keepers : Share(k) \in Nat
  <1> DEFINE d == tAcc \div totalCount
             g == count
             h == [k \in keepers |-> Share(k)]
             S == keepers
  <1>1. totalCount \in Nat \ {0} /\ tAcc \in Nat
    BY StateTypes DEF SharesWithinPot
  <1>2. d \in Nat /\ totalCount * d <= tAcc
    BY <1>1, SMT
  <1>3. IsFiniteSet(S) /\ Shares = SumFunctionOnSet(h, S) /\ Shares \in Int
    BY ShareType
  <1>4. \A k \in S : g[k] \in Nat /\ h[k] = d * g[k] /\ Share(k) = d * g[k]
    BY StateTypes DEF Share
  <1>5. SumFunctionOnSet(g, S) = totalCount
    BY DEF SharesWithinPot
  <1> HIDE DEF d, g, h, S
  <1>6. \A k \in S : g[k] \in Int /\ h[k] = d * g[k]
    BY <1>4
  <1>7. d \in Int
    BY <1>2
  <1>8. SumFunctionOnSet(h, S) = d * SumFunctionOnSet(g, S)
    BY <1>3, <1>6, <1>7, SumScaled
  <1>9. SumFunctionOnSet(h, S) = d * totalCount
    BY <1>5, <1>8
  <1>10. d * totalCount <= tAcc
    BY <1>1, <1>2
  <1>11. \A k \in S : Share(k) \in Nat
    BY <1>2, <1>4, TimesNat
  <1> QED
    BY <1>3, <1>9, <1>10, <1>11 DEF S

\* The counts add up, users and providers never owe, and as long as no price is
\* negative neither the pot nor anyone else does.
LEMMA StepPot ==
    TypeOK /\ OrderInv /\ SharesWithinPot /\ [Next]_vars => SharesWithinPot'
  <1> SUFFICES ASSUME TypeOK, OrderInv, SharesWithinPot, [Next]_vars
               PROVE  SharesWithinPot'
    OBVIOUS
  <1> DEFINE Customer == (User \cup Provider) \ {Foundation}
             Sums == totalCount' = SumFunctionOnSet(count', keepers')
             Paying == \A i \in Customer : balance'[i] >= 0
             Rest == tAcc' >= 0 /\ \A i \in Index : balance'[i] >= 0
             Good == Sums /\ Paying /\ (NoNegativePrice' => Rest)
  <1>1. /\ totalCount = SumFunctionOnSet(count, keepers)
        /\ \A i \in Customer : balance[i] >= 0
        /\ \A i \in Index : balance[i] \in Int
        /\ tAcc \in Int
        /\ Customer \subseteq Index
    BY StateTypes, Constants DEF SharesWithinPot
  <1>2. NoNegativePrice' => /\ NoNegativePrice
                            /\ tAcc >= 0
                            /\ \A i \in Index : balance[i] >= 0
    BY NegativeStays DEF SharesWithinPot
  <1> SUFFICES Good
    BY DEF SharesWithinPot
  <1>3. CASE Quiet
    <2>1. Paying /\ (NoNegativePrice' => Rest)
      BY <1>1, <1>2, <1>3, QuietStep
    <2>2. Sums
      <3>1. ASSUME NEW k \in Keeper, AddKeeper(k) PROVE Sums
        BY <1>1, <3>1, AddKeeperSum
      <3>2. CASE UNCHANGED <<count, totalCount, keepers>>
        BY <1>1, <3>2
      <3> QED
        BY <1>3, <3>1, <3>2 DEF Quiet, Tick, ApproveFs, CreateFs, vars
    <2> QED
      BY <2>1, <2>2
  <1>4. ASSUME NEW i \in Index, NEW w \in Nat, UNCHANGED tAcc,
               UNCHANGED <<count, totalCount, keepers>>,
               \A j \in Index :
                  balance'[j] = IF j = i THEN balance[j] + w ELSE balance[j]
        PROVE  Good
    <2>1. \A j \in Index : balance[j] >= 0 => balance'[j] >= 0
      BY <1>1, <1>4
    <2> QED
      BY <1>1, <1>2, <1>4, <2>1
  <1>5. ASSUME NEW i \in Index, NEW v \in Nat, Recharge(i, v)
        PROVE  Good
    <2>1. v \in Int
      OBVIOUS
    <2>2. \A j \in Index :
              balance'[j] = IF j = i THEN balance[j] + v ELSE balance[j]
      BY <1>5, <2>1, RechargeStep
    <2>3. UNCHANGED tAcc /\ UNCHANGED <<count, totalCount, keepers>>
      BY <1>5 DEF Recharge
    <2> QED
      BY <1>4, <2>2, <2>3
  <1>6. ASSUME NEW i \in Index, NEW v \in Nat, RechargeByAdmin(i, v)
        PROVE  Good
    <2>1. PICK w \in {0, v} : \A j \in Index :
              balance'[j] = IF j = i THEN balance[j] + w ELSE balance[j]
      BY <1>6, RechargeByAdminStep
    <2>2. UNCHANGED tAcc /\ UNCHANGED <<count, totalCount, keepers>>
      BY <1>6 DEF RechargeByAdmin
    <2>3. w \in Nat
      OBVIOUS
    <2> QED
      BY <1>4, <2>1, <2>2, <2>3
  <1>7. ASSUME NEW k \in Callers, NEW u \in User, NEW p \in Provider,
               NEW n \in Nonces(u, p), AddOrder(k, u, p, n)
        PROVE  Good
    <2>1. PICK o : o = Terms[u][p][n + 1]
      OBVIOUS
    <2> DEFINE tax == Tax(o)
               cost == Cost(o)
    <2>2. /\ UNCHANGED <<tAcc, keepers>> /\ Counted(k)
          /\ balance[u] >= cost
      BY <1>7, <2>1 DEF AddOrder
    <2>3. \A i \in Index :
              balance'[i] = balance[i] + (IF i = Foundation THEN tax ELSE 0)
                                       - (IF i = u THEN cost ELSE 0)
      <3>1. balance' = Charged(u, o)
        BY ONLY TypeOK, <1>7, <2>1, AddOrderStep
      <3> QED
        BY <3>1 DEF Charged
    <2>4. /\ tax \in Int /\ cost \in Int
          /\ NoNegativePrice' => tax \in Nat /\ cost \in Nat
      <3>1. u \in Fs /\ n \in Nat /\ n + 1 \in DOMAIN Terms[u][p]
        BY <1>7, FsAssumption, Constants DEF Nonces, AddOrder, CanAdd
      <3>2. NoNegativePrice' => o.sprice >= 0
        BY <1>7, <2>1, <3>1, AddOrderOrders, AddedPrice
      <3> QED
        BY <2>1, <3>1, <3>2, TermsType
    <2> HIDE DEF tax, cost
    <2>5. u \in Index
      BY Constants
    <2>6. Paying
      BY <1>1, <2>2, <2>3, <2>4
    <2>7. NoNegativePrice' => Rest
      BY <1>1, <1>2, <2>2, <2>3, <2>4, <2>5
    <2>8. Sums
      BY <1>1, <2>2, CountedSum
    <2> QED
      BY <2>6, <2>7, <2>8
  <1>8. ASSUME NEW f \in Fs, NEW p \in Provider, NEW n \in Nat,
               OrderEnded(f, p, n), NEW k,
               UNCHANGED <<balance, keepers>>, Counted(k),
               tAcc' = tAcc + EndPay(Terms[f][p][n + 1])
        PROVE  Good
    <2>1. PICK e : e = EndPay(Terms[f][p][n + 1])
      OBVIOUS
    <2>2. NoNegativePrice' => e \in Nat
      <3>1. n + 1 \in DOMAIN Terms[f][p]
        BY <1>8 DEF OrderEnded
      <3>2. NoNegativePrice' => Terms[f][p][n + 1].sprice >= 0
        BY <1>2, <1>8, EndedPrice
      <3> QED
        BY <2>1, <3>1, <3>2, TermsType
    <2>3. Sums
      BY <1>1, <1>8, CountedSum
    <2> QED
      BY <1>1, <1>2, <1>8, <2>1, <2>2, <2>3
  <1>9. ASSUME NEW k \in Callers, NEW u \in User, NEW p \in Provider,
               NEW n \in Nonces(u, p), SubOrder(k, u, p, n)
        PROVE  Good
    <2>1. u \in Fs /\ n \in Nat /\ OrderEnded(u, p, n)
      BY <1>9, SubOrderOrders, Constants DEF OrderEnded
    <2>2. /\ UNCHANGED <<balance, keepers>> /\ Counted(k)
          /\ tAcc' = tAcc + EndPay(Terms[u][p][n + 1])
      BY <1>9 DEF SubOrder
    <2> QED
      BY <1>8, <2>1, <2>2
  <1>10. ASSUME NEW k \in Callers, NEW p \in Provider, NEW q \in Provider,
                NEW n \in Nonces(Repair, q), AddRepair(k, p, q, n)
         PROVE  Good
    <2>1. UNCHANGED <<balance, keepers, tAcc>> /\ Counted(k)
      BY <1>10 DEF AddRepair
    <2>2. Sums
      BY <1>1, <2>1, CountedSum
    <2> QED
      BY <1>1, <1>2, <2>1, <2>2
  <1>11. ASSUME NEW k \in Callers, NEW q \in Provider,
                NEW n \in Nonces(Repair, q), SubRepair(k, q, n)
         PROVE  Good
    <2>1. CASE q \in proInfo
      <3>1. /\ UNCHANGED <<balance, keepers>> /\ Counted(k)
            /\ tAcc' = tAcc + EndPay(Terms[Repair][q][n + 1])
        BY <1>11, <2>1 DEF SubRepair
      <3>2. Repair \in Fs /\ n \in Nat /\ OrderEnded(Repair, q, n)
        BY <1>11, <2>1, SubRepairEnds, Constants DEF OrderEnded
      <3> QED
        BY <1>8, <3>1, <3>2
    <2>2. CASE q \notin proInfo
      <3>1. UNCHANGED <<balance, keepers, tAcc, count, totalCount>>
        BY <1>11, <2>2 DEF SubRepair
      <3> QED
        BY <1>1, <1>2, <3>1
    <2> QED
      BY <2>1, <2>2
  <1>12. ASSUME NEW p \in Provider, NEW pay \in Nat, NEW lost \in Nat,
                ProWithdraw(p, pay, lost)
         PROVE  Good
    <2> DEFINE s == Accrued(se[p], lost)
               money == balance[p] + pay - se[p].HasPaid
               l == Linear(s, pay)
    <2>1. UNCHANGED <<count, totalCount, keepers>>
      BY <1>12 DEF ProWithdraw
    <2>2. /\ money \in Int /\ se[p].HasPaid <= pay
          /\ s \in Settlement
          /\ s.CanPay < pay => balance' = balance /\ tAcc' = tAcc
          /\ s.CanPay >= pay =>
                /\ tAcc' = tAcc + l
                /\ l \in Nat
                /\ \A i \in Index :
                      balance'[i] = IF i = p
                                    THEN IF ErcCanTransfer(erc, FsAddr, money)
                                         THEN 0 ELSE money
                                    ELSE balance[i]
      BY <1>12, ProWithdrawStep
    <2>3. balance[p] >= 0 => money >= 0
      <3>1. p \in Index /\ se[p].HasPaid \in Nat
        BY Constants, StateTypes, SettlementFields
      <3> QED
        BY <1>1, <2>2, <3>1
    <2>4. s.CanPay < pay \/ s.CanPay >= pay
      BY <2>2, SettlementFields
    <2> HIDE DEF s, money, l
    <2>5. \A i \in Index : balance[i] >= 0 => balance'[i] >= 0
      BY <1>1, <2>2, <2>3, <2>4
    <2>6. tAcc >= 0 => tAcc' >= 0
      BY <1>1, <2>2, <2>4
    <2> QED
      BY <1>1, <1>2, <2>1, <2>5, <2>6
  <1>13. ASSUME NEW i \in Index, NEW amount \in Nat, Withdraw(i, amount)
         PROVE  Good
    <2> DEFINE bal == Shared(i)
               money == IF amount = 0 \/ amount > bal[i] THEN bal[i] ELSE amount
    <2>1. UNCHANGED <<count, totalCount, keepers>>
      BY <1>13 DEF Withdraw
    <2>2. /\ money \in Int /\ money <= bal[i]
          /\ Due(i) => totalCount > 0
          /\ tAcc' = IF Due(i) THEN tAcc - Shares ELSE tAcc
          /\ bal \in [Index -> Int]
          /\ \A j \in Index :
                balance'[j] = IF ErcCanTransfer(erc, FsAddr, money) /\ j = i
                              THEN bal[j] - money ELSE bal[j]
      BY <1>13, WithdrawStep
    <2>3. NoNegativePrice' => tAcc' >= 0
      BY <1>1, <1>2, <2>2, SharesWithin
    <2>4. NoNegativePrice' => \A j \in Index : bal[j] >= 0
      <3>1. ASSUME Due(i), NoNegativePrice'
            PROVE  \A j \in Index : bal[j] >= 0
        <4>1. \A j \in keepers : Share(j) \in Nat
          BY <1>2, <2>2, <3>1, SharesWithin
        <4> QED
          BY <1>1, <1>2, <3>1, <4>1 DEF Shared
      <3>2. ASSUME ~Due(i), NoNegativePrice'
            PROVE  \A j \in Index : bal[j] >= 0
        BY <1>1, <1>2, <3>2 DEF Shared
      <3> QED
        BY <3>1, <3>2
    <2>5. \A j \in Customer : bal[j] >= 0
      <3>1. \A j \in Customer : j \notin keepers
        BY StateTypes, FsAssumption
      <3> QED
        BY <1>1, <3>1 DEF Shared
    <2> HIDE DEF bal, money
    <2>6. \A j \in Index : bal[j] >= 0 => balance'[j] >= 0
      BY <2>2
    <2> QED
      BY <1>1, <2>1, <2>3, <2>4, <2>5, <2>6
  <1> HIDE DEF Good
  <1> QED
    BY <1>3, <1>5, <1>6, <1>7, <1>9, <1>10, <1>11, <1>12, <1>13, NextCases

\* Nobody has a share at the start.
LEMMA InitPot == Init => SharesWithinPot
  <1> SUFFICES ASSUME Init PROVE SharesWithinPot
    OBVIOUS
  <1>1. /\ keepers = {} /\ totalCount = 0 /\ tAcc = 0
        /\ \A i \in Index : balance[i] = 0
    BY DEF Init
  <1>2. SumFunctionOnSet(count, {}) = 0
    BY SumEmpty
  <1>3. \A i \in (User \cup Provider) \ {Foundation} : i \in Index
    BY Constants
  <1>4. /\ totalCount = SumFunctionOnSet(count, keepers) /\ tAcc >= 0
        /\ \A i \in Index : balance[i] >= 0
    BY <1>1, <1>2
  <1> QED
    BY <1>3, <1>4 DEF SharesWithinPot

\* Whoever calls and however calls fail, the keepers' counts add up to
\* totalCount, and no user or provider ever owes.  As long as no order of
\* negative price is added, which no line of AddOrder (fs.go:346) sees to, the
\* pot and the foundation do not owe either, so a distribution (fs.go:669)
\* shares out at most the pot.
THEOREM FsSharesWithinPot == Spec => []SharesWithinPot
  BY InitPot, InitTypes, InitOrderInv, StepTypes, StepOrderInv, StepPot,
     PTL DEF Spec

-----------------------------------------------------------------------------
(***************************************************************************)
(* What a provider has been paid                                           *)
(***************************************************************************)
\* A settlement that takes an order in or ends one has paid the same.
LEMMA HasPaidKept ==
    ASSUME TypeOK, NEW o, NEW q \in Provider
    PROVE  /\ Add(se[q], o).HasPaid = se[q].HasPaid
           /\ RepairPaid(Add(se[q], o), o).HasPaid = se[q].HasPaid
           /\ RepairPaid(se[q], o).HasPaid = se[q].HasPaid
           /\ End(se[q], o).HasPaid = se[q].HasPaid
  <1>1. se[q] \in Settlement
    BY StateTypes
  <1>2. Add(se[q], o).HasPaid = se[q].HasPaid
    BY <1>1, AddFields
  <1>3. RepairPaid(se[q], o).HasPaid = se[q].HasPaid
    BY <1>1, RepairPaidFields
  <1>4. End(se[q], o).HasPaid = se[q].HasPaid
    BY <1>1, EndFields
  <1>5. RepairPaid(Add(se[q], o), o).HasPaid = Add(se[q], o).HasPaid
    <2>1. DOMAIN Add(se[q], o) = DOMAIN se[q] /\ "HasPaid" \in DOMAIN se[q]
      BY <1>1 DEF Add, Settlement
    <2> QED
      BY <2>1 DEF RepairPaid
  <1> QED
    BY <1>2, <1>3, <1>4, <1>5

\* A provider's tokens and balance change by what it is paid and given.
LEMMA StepPaidOnce == TypeOK /\ PaidOnce /\ [Next]_vars => PaidOnce'
  <1> SUFFICES ASSUME TypeOK, PaidOnce, [Next]_vars,
                      NEW p \in Provider \ {Foundation}, ~clobbered'
               PROVE  erc'.money[p] + balance'[p]
                         = InitMoney[p] + given'[p] + se'[p].HasPaid
    BY DEF PaidOnce
  <1> DEFINE Goal == erc'.money[p] + balance'[p]
                        = InitMoney[p] + given'[p] + se'[p].HasPaid
  <1> SUFFICES Goal
    OBVIOUS
  <1>1. /\ p \in Index /\ p \in Address /\ FsAddr # p /\ RoleMgr # p
        /\ p \notin User /\ p \notin Keeper /\ p # Foundation
    BY Constants, FsAssumption
  <1>2. /\ erc.money[p] \in Int /\ balance[p] \in Int /\ given[p] \in Nat
        /\ se[p] \in Settlement /\ se[p].HasPaid \in Nat
        /\ InitMoney[p] \in Nat
    BY <1>1, StateTypes, SettlementFields, FsAssumption DEF Ledger
  <1>3. ~clobbered => erc.money[p] + balance[p]
                         = InitMoney[p] + given[p] + se[p].HasPaid
    BY DEF PaidOnce
  <1>4. CASE Quiet
    BY <1>3, <1>4, QuietStep
  <1>5. ASSUME NEW i \in Index, NEW v \in Nat, Recharge(i, v) PROVE Goal
    <2>1. v \in Int
      OBVIOUS
    <2>2. \A j \in Index :
              balance'[j] = IF j = i THEN balance[j] + v ELSE balance[j]
      BY <1>5, <2>1, RechargeStep
    <2>3. \A x \in Address : erc'.money[x] =
                 erc.money[x] + (IF x = FsAddr THEN v ELSE 0)
                              - (IF x = i THEN v ELSE 0)
      BY <1>5, <2>1, RechargeStep
    <2>4. UNCHANGED <<se, given, clobbered>>
      BY <1>5 DEF Recharge
    <2> QED
      BY <1>1, <1>2, <1>3, <2>1, <2>2, <2>3, <2>4
  <1>6. ASSUME NEW i \in Index, NEW v \in Nat, RechargeByAdmin(i, v) PROVE Goal
    <2>1. PICK w \in {0, v} :
                 /\ \A j \in Index :
                       /\ balance'[j] = IF j = i THEN balance[j] + w ELSE balance[j]
                       /\ given'[j] = IF j = i THEN given[j] + w ELSE given[j]
                 /\ \A x \in Address : erc'.money[x] =
                       erc.money[x] + (IF x = FsAddr THEN w ELSE 0)
                                    - (IF x = RoleMgr THEN w ELSE 0)
      BY <1>6, RechargeByAdminStep
    <2>2. UNCHANGED <<se, clobbered>>
      BY <1>6 DEF RechargeByAdmin
    <2>3. w \in Nat
      OBVIOUS
    <2> QED
      BY <1>1, <1>2, <1>3, <2>1, <2>2, <2>3
  <1>7. ASSUME NEW k \in Callers, NEW u \in User, NEW q \in Provider,
               NEW n \in Nonces(u, q), AddOrder(k, u, q, n)
        PROVE  Goal
    <2>1. PICK o : o = Terms[u][q][n + 1]
      OBVIOUS
    <2>2. balance' = Charged(u, o)
      BY SMTT(30), <1>7, <2>1, AddOrderStep
    <2>3. balance'[p] = balance[p]
      BY <1>1, <1>2, <2>2 DEF Charged
    <2>4. se' = [se EXCEPT ![q] = Add(@, o)]
      BY <1>7, <2>1 DEF AddOrder
    <2>5. se'[p].HasPaid = se[p].HasPaid
      <3>1. se'[p] = IF p = q THEN Add(se[q], o) ELSE se[p]
        BY <2>4, StateTypes
      <3>2. Add(se[q], o).HasPaid = se[q].HasPaid
        BY ONLY TypeOK, HasPaidKept
      <3> QED
        BY <3>1, <3>2
    <2>6. UNCHANGED <<erc, given, clobbered>>
      BY <1>7 DEF AddOrder
    <2> QED
      BY <1>3, <2>3, <2>5, <2>6
  <1>8. ASSUME NEW k \in Callers, NEW u \in User, NEW q \in Provider,
               NEW n \in Nonces(u, q), SubOrder(k, u, q, n)
        PROVE  Goal
    <2>1. PICK o : o = Terms[u][q][n + 1]
      OBVIOUS
    <2>2. se' = [se EXCEPT ![q] = End(@, o)]
      BY <1>8, <2>1 DEF SubOrder
    <2>3. se'[p].HasPaid = se[p].HasPaid
      <3>1. se'[p] = IF p = q THEN End(se[q], o) ELSE se[p]
        BY <2>2, StateTypes
      <3>2. End(se[q], o).HasPaid = se[q].HasPaid
        BY ONLY TypeOK, HasPaidKept
      <3> QED
        BY <3>1, <3>2
    <2>4. UNCHANGED <<erc, balance, given, clobbered>>
      BY <1>8 DEF SubOrder
    <2> QED
      BY <1>3, <2>3, <2>4
  <1>9. ASSUME NEW k \in Callers, NEW a \in Provider, NEW q \in Provider,
               NEW n \in Nonces(Repair, q), AddRepair(k, a, q, n)
        PROVE  Goal
    <2>1. PICK o : o = Terms[Repair][q][n + 1]
      OBVIOUS
    <2>2. /\ UNCHANGED <<erc, balance, given>>
          /\ ~clobbered /\ q \in proInfo
      BY <1>9 DEF AddRepair
    <2>3. se' = [[se EXCEPT ![q] = Add(@, o)] EXCEPT ![a] = RepairPaid(@, o)]
      BY <1>9, <2>1, <2>2 DEF AddRepair
    <2>4. se'[p].HasPaid = se[p].HasPaid
      <3>1. se'[p] = IF p = q
                     THEN IF q = a THEN RepairPaid(Add(se[q], o), o)
                          ELSE Add(se[q], o)
                     ELSE IF p = a THEN RepairPaid(se[a], o) ELSE se[p]
        BY <2>3, StateTypes
      <3>2. /\ Add(se[q], o).HasPaid = se[q].HasPaid
            /\ RepairPaid(Add(se[q], o), o).HasPaid = se[q].HasPaid
            /\ RepairPaid(se[a], o).HasPaid = se[a].HasPaid
        BY ONLY TypeOK, HasPaidKept
      <3> QED
        BY <3>1, <3>2
    <2> QED
      BY <1>3, <2>2, <2>4
  <1>10. ASSUME NEW k \in Callers, NEW q \in Provider,
                NEW n \in Nonces(Repair, q), SubRepair(k, q, n)
         PROVE  Goal
    <2>1. PICK o : o = Terms[Repair][q][n + 1]
      OBVIOUS
    <2>2. UNCHANGED <<erc, balance, given, clobbered>>
      BY <1>10 DEF SubRepair
    <2>3. CASE q \in proInfo
      <3>1. se' = [se EXCEPT ![q] = End(@, o)]
        BY <1>10, <2>1, <2>3 DEF SubRepair
      <3>2. se'[p].HasPaid = se[p].HasPaid
        <4>1. se'[p] = IF p = q THEN End(se[q], o) ELSE se[p]
          BY <3>1, StateTypes
        <4>2. End(se[q], o).HasPaid = se[q].HasPaid
          BY ONLY TypeOK, HasPaidKept
        <4> QED
          BY <4>1, <4>2
      <3> QED
        BY <1>3, <2>2, <3>2
    <2>4. CASE q \notin proInfo
      <3>1. se' = se
        BY <1>10, <2>4 DEF SubRepair
      <3> QED
        BY <1>3, <2>2, <3>1
    <2> QED
      BY <2>3, <2>4
  <1>11. ASSUME NEW q \in Provider, NEW pay \in Nat, NEW lost \in Nat,
                ProWithdraw(q, pay, lost)
         PROVE  Goal
    <2>1. PICK s : s = Accrued(se[q], lost)
      OBVIOUS
    <2>2. PICK money : money = balance[q] + pay - se[q].HasPaid
      OBVIOUS
    <2>3. UNCHANGED <<given, clobbered>>
      BY <1>11 DEF ProWithdraw
    <2>4. /\ s \in Settlement /\ money \in Int
          /\ \A r \in Provider \ {q} : se'[r] = se[r]
          /\ s.CanPay < pay => se'[q] = s /\ erc' = erc /\ balance' = balance
      BY <1>11, <2>1, <2>2, ProWithdrawStep
    <2>5. s.HasPaid = se[q].HasPaid
      BY <2>1, StateTypes, AccruedFields
    <2>6. CASE s.CanPay < pay
      BY <1>3, <2>3, <2>4, <2>5, <2>6
    <2>7. CASE ~(s.CanPay < pay)
      <3>1. s.CanPay >= pay
        BY <2>4, <2>7, SettlementFields
      <3>2. /\ se'[q] = Paid(s, pay)
            /\ \A i \in Index :
                  balance'[i] = IF i = q
                                THEN IF ErcCanTransfer(erc, FsAddr, money)
                                     THEN 0 ELSE money
                                ELSE balance[i]
            /\ \A x \in Address : erc'.money[x] =
                  IF ErcCanTransfer(erc, FsAddr, money)
                  THEN erc.money[x] + (IF x = q THEN money ELSE 0)
                                    - (IF x = FsAddr THEN money ELSE 0)
                  ELSE erc.money[x]
        BY <1>11, <2>1, <2>2, <3>1, ProWithdrawStep
      <3>3. se'[q].HasPaid = pay
        BY <2>4, <3>2, PaidFields
      <3>4. CASE q = p
        BY <1>1, <1>2, <1>3, <2>2, <2>3, <2>4, <3>2, <3>3, <3>4
      <3>5. CASE q # p
        BY <1>1, <1>2, <1>3, <2>3, <2>4, <3>2, <3>5
      <3> QED
        BY <3>4, <3>5
    <2> QED
      BY <2>6, <2>7
  <1>12. ASSUME NEW i \in Index, NEW amount \in Nat, Withdraw(i, amount)
         PROVE  Goal
    <2>1. PICK money : money = IF amount = 0 \/ amount > Shared(i)[i]
                               THEN Shared(i)[i] ELSE amount
      OBVIOUS
    <2>2. UNCHANGED <<given, clobbered, se>>
      BY <1>12 DEF Withdraw
    <2>3. /\ money \in Int
          /\ \A j \in Index :
                balance'[j] = IF ErcCanTransfer(erc, FsAddr, money) /\ j = i
                              THEN Shared(i)[j] - money ELSE Shared(i)[j]
          /\ \A x \in Address : erc'.money[x] =
                IF ErcCanTransfer(erc, FsAddr, money)
                THEN erc.money[x] + (IF x = i THEN money ELSE 0)
                                  - (IF x = FsAddr THEN money ELSE 0)
                ELSE erc.money[x]
      BY <1>12, <2>1, WithdrawStep
    <2>4. Shared(i)[p] = balance[p]
      <3>1. p \notin keepers
        BY <1>1, StateTypes
      <3> QED
        BY <1>1, <3>1 DEF Shared
    <2>5. CASE ErcCanTransfer(erc, FsAddr, money) /\ i = p
      <3>1. /\ balance'[p] = balance[p] - money
            /\ erc'.money[p] = erc.money[p] + money - 0
        BY <1>1, <2>3, <2>4, <2>5
      <3>2. money \in Int
        BY <2>3
      <3> QED
        BY <1>2, <1>3, <2>2, <3>1, <3>2
    <2>6. CASE ~(ErcCanTransfer(erc, FsAddr, money) /\ i = p)
      <3>1. /\ balance'[p] = balance[p]
            /\ erc'.money[p] = erc.money[p]
        BY <1>1, <1>2, <2>3, <2>4, <2>6
      <3> QED
        BY <1>3, <2>2, <3>1
    <2> QED
      BY <2>5, <2>6
  <1> HIDE DEF Goal
  <1> QED
    BY <1>4, <1>5, <1>6, <1>7, <1>8, <1>9, <1>10, <1>11, <1>12, NextCases

\* Each amount that a provider has claimed reaches it once, as tokens or as
\* balance, also over failed transfers and later claims (fs.go:754), as long as
\* no repair has overwritten a settlement.
THEOREM FsPaidOnce == Spec => []PaidOnce
  <1>1. Init => PaidOnce
    <2> SUFFICES ASSUME Init, NEW p \in Provider
                 PROVE  erc.money[p] + balance[p]
                           = InitMoney[p] + given[p] + se[p].HasPaid
      BY DEF PaidOnce
    <2>1. /\ p \in Index /\ InitMoney[p] \in Nat
      BY Constants, FsAssumption
    <2>2. /\ erc.money = InitMoney /\ balance[p] = 0 /\ given[p] = 0
          /\ se[p].HasPaid = 0
      BY <2>1, NewType DEF Init, LedgerOf
    <2> QED
      BY <2>1, <2>2
  <1> QED
    BY <1>1, InitTypes, StepTypes, StepPaidOnce, PTL DEF Spec

-----------------------------------------------------------------------------
(***************************************************************************)
(* The price of a settlement, and what is paid of what has accrued         *)
(***************************************************************************)
\* The prices of open orders.
LEMMA OpenPriceType ==
    ASSUME NEW f \in Fs, NEW p \in Provider,
           NEW g, g = [n \in Nonces(f, p) |-> Terms[f][p][n + 1].sprice]
    PROVE  /\ \A n \in Nonces(f, p) : /\ g[n] = Terms[f][p][n + 1].sprice
                                       /\ g[n] \in Int
           /\ OpenPrice(f, p) = SumFunctionOnSet(g, OpenOrders(f, p))
           /\ OpenPrice(f, p) \in Int
  <1>1. \A n \in Nonces(f, p) : g[n] = Terms[f][p][n + 1].sprice /\ g[n] \in Int
    <2> SUFFICES ASSUME NEW n \in Nonces(f, p)
                 PROVE  g[n] = Terms[f][p][n + 1].sprice /\ g[n] \in Int
      OBVIOUS
    <2>1. n \in Nat /\ n + 1 \in DOMAIN Terms[f][p]
      BY OpenFinite
    <2>2. Terms[f][p][n + 1].sprice \in Int
      BY <2>1, TermsType
    <2> QED
      BY <2>2
  <1>2. OpenPrice(f, p) = SumFunctionOnSet(g, OpenOrders(f, p))
    BY DEF OpenPrice
  <1>3. \A n \in OpenOrders(f, p) : g[n] \in Int
    BY <1>1, OpenFinite
  <1> HIDE DEF OpenOrders
  <1>4. SumFunctionOnSet(g, OpenOrders(f, p)) \in Int
    BY <1>3, OpenFinite, SumType
  <1> QED
    BY <1>1, <1>2, <1>4

\* What the open orders of all payers at p cost per unit of time.
RunningPrice(p) == SumFunctionOnSet([f \in Fs |-> OpenPrice(f, p)], Fs)

\* The running price is the sum the property speaks of.
LEMMA RunningPriceIs ==
    ASSUME NEW p
    PROVE  SumFunction([f \in Fs |-> OpenPrice(f, p)]) = RunningPrice(p)
  <1> DEFINE g == [f \in Fs |-> OpenPrice(f, p)]
  <1>1. DOMAIN g = Fs
    OBVIOUS
  <1> HIDE DEF g
  <1>2. SumFunction(g) = SumFunctionOnSet(g, Fs)
    BY <1>1 DEF SumFunction
  <1> QED
    BY <1>2 DEF g, RunningPrice

\* As long as no order of negative price is added, it is not negative.
LEMMA RunningPriceType ==
    ASSUME NEW p \in Provider, NoNegativePrice
    PROVE  RunningPrice(p) \in Nat
  <1> DEFINE g == [f \in Fs |-> OpenPrice(f, p)]
  <1>1. ASSUME NEW f \in Fs PROVE g[f] \in Nat
    <2> DEFINE h == [n \in Nonces(f, p) |-> Terms[f][p][n + 1].sprice]
    <2>1. /\ \A n \in Nonces(f, p) : h[n] = Terms[f][p][n + 1].sprice
                                     /\ h[n] \in Int
          /\ OpenPrice(f, p) = SumFunctionOnSet(h, OpenOrders(f, p))
      BY OpenPriceType
    <2> HIDE DEF h
    <2>2. \A n \in OpenOrders(f, p) : n \in Nonces(f, p) /\ n < ao[f][p].nonce
      BY DEF OpenOrders
    <2>3. \A n \in OpenOrders(f, p) : h[n] \in Nat
      BY <2>1, <2>2 DEF NoNegativePrice
    <2>4. SumFunctionOnSet(h, OpenOrders(f, p)) \in Nat
      BY <2>3, OpenFinite, SumNat
    <2> QED
      BY <2>1, <2>4
  <1>2. IsFiniteSet(Fs)
    BY Constants
  <1> HIDE DEF g
  <1>3. SumFunctionOnSet(g, Fs) \in Nat
    BY <1>1, <1>2, SumNat
  <1> QED
    BY <1>3 DEF g, RunningPrice

\* It stays when the open orders stay.
LEMMA RunningPriceSame ==
    ASSUME NEW p \in Provider,
           \A f \in Fs : OpenPrice(f, p)' = OpenPrice(f, p)
    PROVE  RunningPrice(p)' = RunningPrice(p)
  <1>1. [f \in Fs |-> OpenPrice(f, p)]' = [f \in Fs |-> OpenPrice(f, p)]
    OBVIOUS
  <1> QED
    BY <1>1 DEF RunningPrice

\* It changes by what changes at one payer.
LEMMA RunningPriceMoved ==
    ASSUME NEW p \in Provider, NEW f \in Fs, NEW d \in Int,
           OpenPrice(f, p)' = OpenPrice(f, p) + d,
           \A h \in Fs \ {f} : OpenPrice(h, p)' = OpenPrice(h, p)
    PROVE  RunningPrice(p)' = RunningPrice(p) + d
  <1> DEFINE g == [h \in Fs |-> OpenPrice(h, p)]
             i == [h \in Fs |-> OpenPrice(h, p)']
             S == Fs
             x == f
  <1>1. \A h \in Fs : OpenPrice(h, p) \in Int
    BY OpenPriceType
  <1>2. /\ \A h \in S : g[h] \in Int /\ i[h] \in Int
        /\ \A h \in S \ {x} : i[h] = g[h]
        /\ x \in S
    <2>1. \A h \in Fs : g[h] \in Int
      BY <1>1
    <2>2. \A h \in Fs : OpenPrice(h, p)' \in Int
      BY <1>1
    <2> QED
      BY <2>1, <2>2
  <1>3. IsFiniteSet(S)
    BY Constants
  <1>4. i[x] - g[x] = d /\ g[x] \in Int
    BY <1>1
  <1>5. RunningPrice(p) = SumFunctionOnSet(g, S)
    BY DEF RunningPrice
  <1>6. RunningPrice(p)' = SumFunctionOnSet(i, S)
    BY DEF RunningPrice
  <1> HIDE DEF g, i, S, x
  <1>7. SumFunctionOnSet(i, S) = SumFunctionOnSet(g, S) + (i[x] - g[x])
    BY <1>2, <1>3, SumUpdate
  <1> QED
    BY <1>4, <1>5, <1>6, <1>7

\* Orders elsewhere keep the price.
LEMMA OpenPriceSame ==
    ASSUME NEW f \in Fs, NEW p \in Provider,
           ao'[f][p].nonce = ao[f][p].nonce,
           ao'[f][p].subNonce = ao[f][p].subNonce
    PROVE  OpenPrice(f, p)' = OpenPrice(f, p)
  <1>1. OpenOrders(f, p)' = OpenOrders(f, p)
    BY OpenSame
  <1> QED
    BY <1>1 DEF OpenPrice, Nonces

\* An order that is added or ended moves the price of p, and no other.
LEMMA PriceMoves ==
    ASSUME TypeOK, OrderInv, NEW f \in Fs, NEW p \in Provider, NEW n \in Nat,
           OrderAdded(f, p, n) \/ OrderEnded(f, p, n),
           NEW d, d = IF OrderAdded(f, p, n) THEN Terms[f][p][n + 1].sprice
                      ELSE -Terms[f][p][n + 1].sprice
    PROVE  /\ d \in Int
           /\ \A q \in Provider :
                 RunningPrice(q)' = IF q = p THEN RunningPrice(q) + d
                                    ELSE RunningPrice(q)
  <1>1. PICK g : g = [m \in Nonces(f, p) |-> Terms[f][p][m + 1].sprice]
    OBVIOUS
  <1>2. /\ n + 1 \in DOMAIN Terms[f][p] /\ n \in Nonces(f, p)
        /\ OthersKept(f, p)
    <2>1. n + 1 \in DOMAIN Terms[f][p] /\ OthersKept(f, p)
      BY DEF OrderAdded, OrderEnded
    <2> QED
      BY <2>1, TermsType
  <1>3. /\ \A m \in Nonces(f, p) : g[m] \in Int
        /\ g[n] = Terms[f][p][n + 1].sprice /\ g[n] \in Int
        /\ OpenPrice(f, p) = SumFunctionOnSet(g, OpenOrders(f, p))
        /\ OpenPrice(f, p) \in Int
    BY <1>1, <1>2, OpenPriceType
  <1>4. d \in Int
    BY <1>3
  <1>5. OpenPrice(f, p)' = SumFunctionOnSet(g, OpenOrders(f, p)')
    BY <1>1 DEF OpenPrice, Nonces
  <1>6. OpenPrice(f, p)' = OpenPrice(f, p) + d
    <2>1. CASE OrderAdded(f, p, n)
      <3>1. ao[f][p].subNonce <= n
        BY <2>1 DEF OrderInv, OrderAdded
      <3>2. SumFunctionOnSet(g, OpenOrders(f, p)')
               = SumFunctionOnSet(g, OpenOrders(f, p)) + g[n]
        BY <1>2, <1>3, <2>1, <3>1, OpenMore
      <3> QED
        BY <1>3, <1>5, <2>1, <3>2
    <2>2. CASE ~OrderAdded(f, p, n)
      <3>1. n < ao[f][p].nonce
        BY <2>2, EndedWasOpen
      <3>2. SumFunctionOnSet(g, OpenOrders(f, p)')
               = SumFunctionOnSet(g, OpenOrders(f, p)) - g[n]
        BY <1>2, <1>3, <2>2, <3>1, OpenLess
      <3>3. d = -g[n]
        BY <1>3, <2>2
      <3> QED
        BY <1>3, <1>5, <3>2, <3>3
    <2> QED
      BY <2>1, <2>2
  <1>7. \A h \in Fs, q \in Provider : ~(h = f /\ q = p) =>
            OpenPrice(h, q)' = OpenPrice(h, q)
    <2> SUFFICES ASSUME NEW h \in Fs, NEW q \in Provider, ~(h = f /\ q = p)
                 PROVE  OpenPrice(h, q)' = OpenPrice(h, q)
      OBVIOUS
    <2>1. ao'[h][q] = ao[h][q]
      BY <1>2 DEF OthersKept
    <2> QED
      BY <2>1, OpenPriceSame
  <1>8. RunningPrice(p)' = RunningPrice(p) + d
    BY <1>4, <1>6, <1>7, RunningPriceMoved
  <1>9. ASSUME NEW q \in Provider, q # p
        PROVE  RunningPrice(q)' = RunningPrice(q)
    BY <1>7, <1>9, RunningPriceSame
  <1> QED
    BY <1>4, <1>8, <1>9

\* Settlement price and running price move together.
PriceInv == ~clobbered => \A p \in Provider : se[p].Price = RunningPrice(p)

\* The property, in terms of the running price.
LEMMA PriceInvIs == PriceInv <=> PriceOfOpenOrders
  BY RunningPriceIs DEF PriceInv, PriceOfOpenOrders

\* Every step moves both prices alike, or overwrites a settlement.
LEMMA StepPriceInv ==
    TypeOK /\ OrderInv /\ PriceInv /\ [Next]_vars => PriceInv'
  <1> SUFFICES ASSUME TypeOK, OrderInv, PriceInv, [Next]_vars, ~clobbered',
                      NEW q \in Provider
               PROVE  se'[q].Price = RunningPrice(q)'
    BY DEF PriceInv
  <1>1. CASE OrdersKept /\ PricesKept
    <2>1. \A f \in Fs : /\ ao'[f][q].nonce = ao[f][q].nonce
                        /\ ao'[f][q].subNonce = ao[f][q].subNonce
      BY <1>1 DEF OrdersKept
    <2>2. \A f \in Fs : OpenPrice(f, q)' = OpenPrice(f, q)
      BY <2>1, OpenPriceSame
    <2>3. RunningPrice(q)' = RunningPrice(q)
      BY <2>2, RunningPriceSame
    <2> QED
      BY <1>1, <2>3 DEF PricesKept, PriceInv
  <1>2. ASSUME NEW f \in Fs, NEW p \in Provider, NEW n \in Nat, NEW d,
               OrderAdded(f, p, n) \/ OrderEnded(f, p, n),
               d = IF OrderAdded(f, p, n) THEN Terms[f][p][n + 1].sprice
                   ELSE -Terms[f][p][n + 1].sprice,
               PricesMoved(p, d)
        PROVE  se'[q].Price = RunningPrice(q)'
    <2>1. RunningPrice(q)' = IF q = p THEN RunningPrice(q) + d
                             ELSE RunningPrice(q)
      BY <1>2, PriceMoves
    <2>2. /\ ~clobbered
          /\ se'[q].Price = IF q = p THEN se[q].Price + d ELSE se[q].Price
      BY <1>2 DEF PricesMoved
    <2>3. se[q].Price = RunningPrice(q)
      BY <2>2 DEF PriceInv
    <2> QED
      BY <2>1, <2>2, <2>3
  <1>3. ASSUME NEW f \in Fs, NEW p \in Provider, NEW n \in Nat,
               OrderAdded(f, p, n),
               PricesMoved(p, Terms[f][p][n + 1].sprice)
        PROVE  se'[q].Price = RunningPrice(q)'
    BY <1>2, <1>3
  <1>4. ASSUME NEW f \in Fs, NEW p \in Provider, NEW n \in Nat,
               OrderEnded(f, p, n),
               PricesMoved(p, -Terms[f][p][n + 1].sprice)
        PROVE  se'[q].Price = RunningPrice(q)'
    <2>1. ~OrderAdded(f, p, n)
      <3>1. n < ao[f][p].nonce
        BY <1>4, EndedWasOpen
      <3>2. ao[f][p].nonce \in Nat
        BY StateTypes DEF Aggregate
      <3> QED
        BY <3>1, <3>2 DEF OrderAdded
    <2> QED
      BY <1>2, <1>4, <2>1
  <1> QED
    BY <1>1, <1>3, <1>4, OrdersStep

\* At the start there is no price.
LEMMA InitPriceInv == Init => PriceInv
  <1> SUFFICES ASSUME Init, NEW p \in Provider
               PROVE  se[p].Price = RunningPrice(p)
    BY DEF PriceInv
  <1>1. \A f \in Fs : OpenPrice(f, p) = 0
    <2> SUFFICES ASSUME NEW f \in Fs PROVE OpenPrice(f, p) = 0
      OBVIOUS
    <2>1. ao[f][p].nonce = 0 /\ Nonces(f, p) \subseteq Nat
      BY OpenFinite DEF Init, NoOrders
    <2>2. OpenOrders(f, p) = {}
      BY <2>1 DEF OpenOrders
    <2> QED
      BY <2>2, SumEmpty DEF OpenPrice
  <1> DEFINE g == [f \in Fs |-> OpenPrice(f, p)]
  <1>2. \A f \in Fs : g[f] = 0
    BY <1>1
  <1>3. IsFiniteSet(Fs)
    BY Constants
  <1>4. RunningPrice(p) = SumFunctionOnSet(g, Fs)
    BY DEF RunningPrice
  <1> HIDE DEF g
  <1>5. RunningPrice(p) = 0
    BY <1>2, <1>3, <1>4, SumZero
  <1>6. se[p].Price = 0
    BY NewType DEF Init
  <1> QED
    BY <1>5, <1>6

\* Until a repair overwrites a settlement, each one accrues at the price of the
\* orders that have been added and not ended: no order is charged twice, after
\* its end was taken, or to another provider (fs.go:421, fs.go:510).
THEOREM FsPriceOfOpenOrders == Spec => []PriceOfOpenOrders
  <1> DEFINE Inv == TypeOK /\ OrderInv /\ PriceInv
  <1>1. Init => Inv
    BY InitTypes, InitOrderInv, InitPriceInv
  <1>2. Inv /\ [Next]_vars => Inv'
    BY StepTypes, StepOrderInv, StepPriceInv
  <1>3. Inv => PriceOfOpenOrders
    BY PriceInvIs
  <1> QED
    BY <1>1, <1>2, <1>3, PTL DEF Spec

-----------------------------------------------------------------------------
\* A settlement keeps what has been paid within what has accrued, and pays the
\* keepers 4% of it.
Accounted(s) == s.LinearPaid = 4 * (s.HasPaid \div 100)
Within(s)    == s.HasPaid <= s.CanPay

\* An order that is added pays nothing out.
LEMMA AddAccounted ==
    ASSUME NEW s \in Settlement, NEW o, o.start \in Nat, o.sprice \in Int,
           Pay(o) \in Int, Manage(o) \in Int, Accounted(s)
    PROVE  /\ Accounted(Add(s, o))
           /\ (s.Price >= 0 /\ Within(s)) => Within(Add(s, o))
  <1>1. /\ Add(s, o).LinearPaid = s.LinearPaid
        /\ Add(s, o).HasPaid = s.HasPaid
    BY AddFields
  <1>2. s.Price >= 0 => Add(s, o).CanPay >= s.CanPay
    BY AddType
  <1>3. Add(s, o).CanPay \in Int /\ s.CanPay \in Int /\ s.HasPaid \in Nat
    BY AddType, SettlementFields
  <1> QED
    BY <1>1, <1>2, <1>3 DEF Accounted, Within

\* Nor does one that ends.
LEMMA EndAccounted ==
    ASSUME NEW s \in Settlement, NEW o, o.end \in Nat, o.size \in Nat,
           o.sprice \in Int, EndPay(o) \in Int, Accounted(s)
    PROVE  /\ Accounted(End(s, o))
           /\ (s.Price >= 0 /\ Within(s)) => Within(End(s, o))
  <1>1. /\ End(s, o).LinearPaid = s.LinearPaid
        /\ End(s, o).HasPaid = s.HasPaid
    BY EndFields
  <1>2. s.Price >= 0 => End(s, o).CanPay >= s.CanPay
    BY EndType
  <1>3. End(s, o).CanPay \in Int /\ s.CanPay \in Int /\ s.HasPaid \in Nat
    BY EndType, SettlementFields
  <1> QED
    BY <1>1, <1>2, <1>3 DEF Accounted, Within

\* Nor does a repair take from what can be paid.
LEMMA RepairPaidAccounted ==
    ASSUME NEW s \in Settlement, NEW o, Accounted(s)
    PROVE  /\ Accounted(RepairPaid(s, o))
           /\ Within(s) => Within(RepairPaid(s, o))
  BY RepairPaidFields DEF Accounted, Within

\* A claim, granted or not: the keepers' part of all claims together is due,
\* so what the rounding of one claim left is paid with the next.
LEMMA ClaimAccounted ==
    ASSUME NEW s \in Settlement, NEW pay \in Nat, NEW lost \in Nat,
           now \in Nat, s.HasPaid <= pay, Accounted(s),
           NEW a, a = Accrued(s, lost)
    PROVE  /\ Accounted(a)
           /\ Accounted(Paid(a, pay))
           /\ (s.Price >= 0 /\ Within(s)) => Within(a)
           /\ a.CanPay >= pay => Within(Paid(a, pay))
  <1>1. /\ a.LinearPaid = s.LinearPaid /\ a.HasPaid = s.HasPaid
        /\ a \in Settlement
    BY AccruedFields, AccruedType
  <1>2. s.Price >= 0 => a.CanPay >= s.CanPay
    BY AccruedType
  <1>3. a.CanPay \in Int /\ s.CanPay \in Int /\ s.HasPaid \in Nat
    BY <1>1, SettlementFields
  <1>4. /\ Paid(a, pay).HasPaid = pay /\ Paid(a, pay).CanPay = a.CanPay
        /\ Paid(a, pay).LinearPaid = a.LinearPaid + Linear(a, pay)
    BY <1>1, PaidFields
  <1>5. /\ pay \div 100 \in Nat /\ s.HasPaid \div 100 \in Nat
        /\ s.HasPaid \div 100 <= pay \div 100
    BY <1>3, Percent
  <1>6. a.LinearPaid = 4 * (s.HasPaid \div 100)
    BY <1>1 DEF Accounted
  <1>7. a.LinearPaid + Linear(a, pay) = 4 * (pay \div 100)
    BY <1>5, <1>6 DEF Linear
  <1> QED
    BY <1>1, <1>2, <1>3, <1>4, <1>7 DEF Accounted, Within

\* The settlement of a provider that has just got one.
LEMMA NewAccounted ==
    ASSUME NEW o, o.start \in Nat, o.sprice \in Int, Pay(o) \in Int,
           Manage(o) \in Int
    PROVE  Accounted(newSettlement) /\ Accounted(Add(newSettlement, o))
  <1>1. Accounted(newSettlement)
    <2>1. 4 * (0 \div 100) = 0
      BY SMT
    <2> QED
      BY <2>1, NewType DEF Accounted
  <1> QED
    BY <1>1, NewType, AddAccounted

\* Every step keeps what was paid within what has accrued, and the keepers' part
\* at 4% of it.
LEMMA StepPaid ==
    TypeOK /\ PriceInv /\ PaidAsAccrued /\ [Next]_vars => PaidAsAccrued'
  <1> SUFFICES ASSUME TypeOK, PriceInv, PaidAsAccrued, [Next]_vars,
                      NEW p \in Provider
               PROVE  /\ Accounted(se'[p])
                      /\ (~clobbered /\ NoNegativePrice)' => Within(se'[p])
    BY DEF PaidAsAccrued, Accounted, Within
  <1> DEFINE Clean == ~clobbered /\ NoNegativePrice
             Goal == /\ Accounted(se'[p])
                     /\ Clean' => Within(se'[p])
  <1> SUFFICES Goal
    OBVIOUS
  <1>0. (~clobbered' => ~clobbered) => (Clean' => Clean)
    BY NegativeStays
  <1>1. \A q \in Provider :
            /\ se[q] \in Settlement /\ Accounted(se[q])
            /\ Clean => Within(se[q]) /\ se[q].Price >= 0
    <2> SUFFICES ASSUME NEW q \in Provider
                 PROVE  /\ se[q] \in Settlement /\ Accounted(se[q])
                        /\ Clean => Within(se[q]) /\ se[q].Price >= 0
      OBVIOUS
    <2>1. /\ se[q] \in Settlement /\ Accounted(se[q])
          /\ Clean => Within(se[q])
      BY StateTypes DEF PaidAsAccrued, Accounted, Within
    <2>2. Clean => se[q].Price >= 0
      <3>1. Clean => RunningPrice(q) \in Nat /\ se[q].Price = RunningPrice(q)
        BY RunningPriceType DEF PriceInv
      <3> QED
        BY <3>1
    <2> QED
      BY <2>1, <2>2
  <1>2. ASSUME se'[p] = se[p], ~clobbered' => ~clobbered PROVE Goal
    BY <1>0, <1>1, <1>2
  <1> HIDE DEF Clean
  <1>3. CASE Quiet
    BY <1>2, <1>3, QuietStep
  <1>4. ASSUME NEW i \in Index, NEW v \in Nat,
               Recharge(i, v) \/ RechargeByAdmin(i, v) \/ Withdraw(i, v)
        PROVE  Goal
    BY <1>2, <1>4 DEF Recharge, RechargeByAdmin, Withdraw
  <1>5. ASSUME NEW k \in Callers, NEW u \in User, NEW q \in Provider,
               NEW n \in Nonces(u, q), AddOrder(k, u, q, n)
        PROVE  Goal
    <2>1. PICK o : o = Terms[u][q][n + 1]
      OBVIOUS
    <2>2. /\ n \in Nat /\ n + 1 \in DOMAIN Terms[u][q] /\ u \in Fs
          /\ se' = [se EXCEPT ![q] = Add(@, o)] /\ clobbered' = clobbered
      BY <1>5, <2>1, FsAssumption, Constants DEF Nonces, AddOrder, CanAdd
    <2>3. /\ o.start \in Nat /\ o.sprice \in Int /\ Pay(o) \in Int
          /\ Manage(o) \in Int
      BY <2>1, <2>2, TermsType
    <2>4. /\ Accounted(Add(se[q], o))
          /\ Clean => Within(Add(se[q], o))
      BY <1>1, <2>3, AddAccounted
    <2>5. se'[p] = IF p = q THEN Add(se[q], o) ELSE se[p]
      BY <2>2, StateTypes
    <2> QED
      BY <1>0, <1>2, <2>2, <2>4, <2>5
  <1>6. ASSUME NEW k \in Callers, NEW u \in User, NEW q \in Provider,
               NEW n \in Nonces(u, q), SubOrder(k, u, q, n)
        PROVE  Goal
    <2>1. PICK o : o = Terms[u][q][n + 1]
      OBVIOUS
    <2>2. /\ n \in Nat /\ n + 1 \in DOMAIN Terms[u][q] /\ u \in Fs
          /\ se' = [se EXCEPT ![q] = End(@, o)] /\ clobbered' = clobbered
      BY <1>6, <2>1, FsAssumption, Constants DEF Nonces, SubOrder, CanSub
    <2>3. /\ o.end \in Nat /\ o.size \in Nat /\ o.sprice \in Int
          /\ EndPay(o) \in Int
      BY <2>1, <2>2, TermsType
    <2>4. /\ Accounted(End(se[q], o))
          /\ Clean => Within(End(se[q], o))
      BY <1>1, <2>3, EndAccounted
    <2>5. se'[p] = IF p = q THEN End(se[q], o) ELSE se[p]
      BY <2>2, StateTypes
    <2> QED
      BY <1>0, <1>2, <2>2, <2>4, <2>5
  <1>7. ASSUME NEW k \in Callers, NEW a \in Provider, NEW q \in Provider,
               NEW n \in Nonces(Repair, q), AddRepair(k, a, q, n)
        PROVE  Goal
    <2>1. PICK o : o = Terms[Repair][q][n + 1]
      OBVIOUS
    <2>2. /\ n \in Nat /\ n + 1 \in DOMAIN Terms[Repair][q] /\ Repair \in Fs
      BY <1>7, FsAssumption, Constants DEF Nonces, AddRepair, CanAdd
    <2>3. /\ o.start \in Nat /\ o.sprice \in Int /\ Pay(o) \in Int
          /\ Manage(o) \in Int
      BY <2>1, <2>2, TermsType
    <2>4. CASE q \in proInfo
      <3>1. se' = [[se EXCEPT ![q] = Add(@, o)] EXCEPT ![a] = RepairPaid(@, o)]
        BY <1>7, <2>1, <2>4 DEF AddRepair
      <3>2. ~clobbered' => ~clobbered
        BY <1>7 DEF AddRepair
      <3>3. Add(se[q], o) \in Settlement
        BY <1>1, <2>3, AddType
      <3>4. /\ Accounted(Add(se[q], o))
            /\ Clean => Within(Add(se[q], o))
        BY <1>1, <2>3, AddAccounted
      <3>5. /\ Accounted(RepairPaid(Add(se[q], o), o))
            /\ Within(Add(se[q], o)) => Within(RepairPaid(Add(se[q], o), o))
        BY <3>3, <3>4, RepairPaidAccounted
      <3>6. /\ Accounted(RepairPaid(se[a], o))
            /\ Within(se[a]) => Within(RepairPaid(se[a], o))
        BY <1>1, RepairPaidAccounted
      <3>7. se'[p] = IF p = q
                     THEN IF q = a THEN RepairPaid(Add(se[q], o), o)
                          ELSE Add(se[q], o)
                     ELSE IF p = a THEN RepairPaid(se[a], o) ELSE se[p]
        BY <3>1, StateTypes
      <3> QED
        BY <1>0, <1>1, <3>2, <3>4, <3>5, <3>6, <3>7
    <2>5. CASE q \notin proInfo
      <3>1. se' = [se EXCEPT ![a] = Add(newSettlement, o)]
        BY <1>7, <2>1, <2>5 DEF AddRepair
      <3>2. clobbered' = TRUE
        BY <1>7, <2>5 DEF AddRepair
      <3>3. Accounted(Add(newSettlement, o))
        BY <2>3, NewAccounted
      <3>4. se'[p] = IF p = a THEN Add(newSettlement, o) ELSE se[p]
        BY <3>1, StateTypes
      <3>5. ~Clean'
        BY <3>2 DEF Clean
      <3> QED
        BY <1>1, <3>3, <3>4, <3>5
    <2> QED
      BY <2>4, <2>5
  <1>8. ASSUME NEW k \in Callers, NEW q \in Provider,
               NEW n \in Nonces(Repair, q), SubRepair(k, q, n)
        PROVE  Goal
    <2>1. PICK o : o = Terms[Repair][q][n + 1]
      OBVIOUS
    <2>2. /\ n \in Nat /\ n + 1 \in DOMAIN Terms[Repair][q] /\ Repair \in Fs
          /\ clobbered' = clobbered
      BY <1>8, FsAssumption, Constants DEF Nonces, SubRepair, CanSub
    <2>3. /\ o.end \in Nat /\ o.size \in Nat /\ o.sprice \in Int
          /\ EndPay(o) \in Int
      BY <2>1, <2>2, TermsType
    <2>4. CASE q \in proInfo
      <3>1. se' = [se EXCEPT ![q] = End(@, o)]
        BY <1>8, <2>1, <2>4 DEF SubRepair
      <3>2. /\ Accounted(End(se[q], o))
            /\ Clean => Within(End(se[q], o))
        BY <1>1, <2>3, EndAccounted
      <3>3. se'[p] = IF p = q THEN End(se[q], o) ELSE se[p]
        BY <3>1, StateTypes
      <3> QED
        BY <1>0, <1>2, <2>2, <3>2, <3>3
    <2>5. CASE q \notin proInfo
      <3>1. se' = se
        BY <1>8, <2>5 DEF SubRepair
      <3> QED
        BY <1>2, <2>2, <3>1
    <2> QED
      BY <2>4, <2>5
  <1>9. ASSUME NEW q \in Provider, NEW pay \in Nat, NEW lost \in Nat,
               ProWithdraw(q, pay, lost)
        PROVE  Goal
    <2>1. PICK s : s = Accrued(se[q], lost)
      OBVIOUS
    <2>2. /\ clobbered' = clobbered /\ se[q].HasPaid <= pay
          /\ \/ se' = [se EXCEPT ![q] = s]
             \/ se' = [se EXCEPT ![q] = Paid(s, pay)] /\ ~(s.CanPay < pay)
      BY <1>9, <2>1 DEF ProWithdraw, CanCalc
    <2>3. /\ Accounted(s) /\ Accounted(Paid(s, pay))
          /\ Clean => Within(s)
          /\ s.CanPay >= pay => Within(Paid(s, pay))
      BY <1>1, <2>1, <2>2, StateTypes, ClaimAccounted
    <2>4. s \in Settlement
      BY <2>1, StateTypes, AccruedType
    <2>5. s.CanPay < pay \/ s.CanPay >= pay
      BY <2>4, SettlementFields
    <2>6. CASE p = q
      <3>1. se'[p] = s \/ (se'[p] = Paid(s, pay) /\ s.CanPay >= pay)
        BY <2>2, <2>5, <2>6, StateTypes
      <3> QED
        BY <1>0, <2>2, <2>3, <3>1
    <2>7. CASE p # q
      <3>1. se'[p] = se[p]
        BY <2>2, <2>7, StateTypes
      <3> QED
        BY <1>2, <2>2, <3>1
    <2> QED
      BY <2>6, <2>7
  <1> HIDE DEF Goal
  <1> QED
    BY <1>3, <1>4, <1>5, <1>6, <1>7, <1>8, <1>9, NextCases

\* The keepers get 4% of all that was paid, however it is split into claims
\* (fs.go:743), and a provider is never paid beyond what has accrued, as long as
\* no repair has overwritten a settlement and no order of negative price, which
\* lets an accrual shrink, has been added.
THEOREM FsPaidAsAccrued == Spec => []PaidAsAccrued
  <1> DEFINE Inv == TypeOK /\ OrderInv /\ PriceInv /\ PaidAsAccrued
  <1>1. Init => Inv
    <2>1. Init => PaidAsAccrued
      <3> SUFFICES ASSUME Init, NEW p \in Provider
                   PROVE  Accounted(se[p]) /\ Within(se[p])
        BY DEF PaidAsAccrued, Accounted, Within
      <3>1. Accounted(newSettlement)
        <4>1. 4 * (0 \div 100) = 0
          BY SMT
        <4> QED
          BY <4>1, NewType DEF Accounted
      <3>2. se[p] = newSettlement
        BY DEF Init
      <3> QED
        BY <3>1, <3>2, NewType DEF Within
    <2> QED
      BY <2>1, InitTypes, InitOrderInv, InitPriceInv
  <1>2. Inv /\ [Next]_vars => Inv'
    BY StepTypes, StepOrderInv, StepPriceInv, StepPaid
  <1> QED
    BY <1>1, <1>2, PTL DEF Spec

-----------------------------------------------------------------------------
(***************************************************************************)
(* The contract's books                                                    *)
(***************************************************************************)
\* What the contract owes out of a settlement, out of all of them, and as
\* balances.
EscrowOf(s) == s.MaxPay - s.LostPaid + s.ManagePay
                 - s.HasPaid - s.LinearPaid - s.EndPaid

Held(x) == SumFunctionOnSet([p \in Provider |-> EscrowOf(x[p])], Provider)

Deposits(x) == SumFunctionOnSet(x, Index)

\* Escrows are integers,
LEMMA EscrowType == ASSUME NEW s \in Settlement PROVE EscrowOf(s) \in Int
  BY SettlementFields DEF EscrowOf

\* and so is their sum
LEMMA HeldType == ASSUME NEW x \in [Provider -> Settlement] PROVE Held(x) \in Int
  <1> DEFINE g == [p \in Provider |-> EscrowOf(x[p])]
  <1>1. \A p \in Provider : g[p] \in Int
    BY EscrowType
  <1>2. IsFiniteSet(Provider)
    BY Constants
  <1> HIDE DEF g
  <1>3. SumFunctionOnSet(g, Provider) \in Int
    BY <1>1, <1>2, SumType
  <1> QED
    BY <1>3 DEF Held, g

\* and that of the balances.
LEMMA DepositsType == ASSUME NEW x \in [Index -> Int] PROVE Deposits(x) \in Int
  <1>1. \A i \in Index : x[i] \in Int
    OBVIOUS
  <1>2. IsFiniteSet(Index)
    BY Constants
  <1>3. SumFunctionOnSet(x, Index) \in Int
    BY <1>1, <1>2, SumType
  <1> QED
    BY <1>3 DEF Deposits

\* They change by what changes in one settlement, or in one balance.
LEMMA HeldMoved ==
    ASSUME NEW x \in [Provider -> Settlement], NEW p \in Provider,
           NEW y \in [Provider -> Settlement],
           \A q \in Provider \ {p} : y[q] = x[q]
    PROVE  Held(y) = Held(x) + (EscrowOf(y[p]) - EscrowOf(x[p]))
  <1> DEFINE g == [q \in Provider |-> EscrowOf(x[q])]
             h == [q \in Provider |-> EscrowOf(y[q])]
             S == Provider
             z == p
  <1>1. \A q \in S : g[q] \in Int /\ h[q] \in Int
    BY EscrowType
  <1>2. \A q \in S \ {z} : h[q] = g[q]
    OBVIOUS
  <1>3. h[z] = EscrowOf(y[p]) /\ g[z] = EscrowOf(x[p]) /\ z \in S
    OBVIOUS
  <1>4. IsFiniteSet(S)
    BY Constants
  <1>5. Held(y) = SumFunctionOnSet(h, S) /\ Held(x) = SumFunctionOnSet(g, S)
    BY DEF Held
  <1> HIDE DEF g, h, S, z
  <1>6. z \in S
    BY <1>3
  <1>7. SumFunctionOnSet(h, S) = SumFunctionOnSet(g, S) + (h[z] - g[z])
    BY <1>1, <1>2, <1>4, <1>6, SumUpdate
  <1> QED
    BY <1>3, <1>5, <1>7

\* A change in one of the balances.
LEMMA DepositsMoved ==
    ASSUME NEW x \in [Index -> Int], NEW i \in Index, NEW y \in [Index -> Int],
           \A j \in Index \ {i} : y[j] = x[j]
    PROVE  Deposits(y) = Deposits(x) + (y[i] - x[i])
  <1> DEFINE S == Index
             g == x
             h == y
             z == i
  <1>1. \A j \in S : g[j] \in Int /\ h[j] \in Int
    OBVIOUS
  <1>2. \A j \in S \ {z} : h[j] = g[j]
    OBVIOUS
  <1>3. z \in S
    OBVIOUS
  <1>4. IsFiniteSet(S)
    BY Constants
  <1>5. Deposits(y) = SumFunctionOnSet(h, S) /\ Deposits(x) = SumFunctionOnSet(g, S)
    BY DEF Deposits
  <1>6. h[z] = y[i] /\ g[z] = x[i]
    OBVIOUS
  <1> HIDE DEF g, h, S, z
  <1>7. SumFunctionOnSet(h, S) = SumFunctionOnSet(g, S) + (h[z] - g[z])
    BY <1>1, <1>2, <1>3, <1>4, SumUpdate
  <1> QED
    BY <1>5, <1>6, <1>7

\* The books in these terms.
Books == erc.money[FsAddr] = Deposits(balance) + tAcc + Held(se) - unbacked

\* The property, in terms of these sums.
LEMMA BooksIs == TypeOK => (Books <=> BooksBalance)
  <1> SUFFICES ASSUME TypeOK PROVE Books <=> BooksBalance
    OBVIOUS
  <1> DEFINE g == [p \in Provider |-> Escrow(p)]
             b == balance
  <1>1. DOMAIN g = Provider /\ DOMAIN b = Index
    BY StateTypes
  <1>2. g = [p \in Provider |-> EscrowOf(se[p])]
    BY DEF Escrow, EscrowOf
  <1> HIDE DEF g, b
  <1>3. SumFunction(g) = SumFunctionOnSet(g, Provider)
    BY <1>1 DEF SumFunction
  <1>4. SumFunction(b) = SumFunctionOnSet(b, Index)
    BY <1>1 DEF SumFunction
  <1>5. SumFunction(g) = Held(se)
    BY <1>2, <1>3 DEF Held
  <1>6. SumFunction(b) = Deposits(b)
    BY <1>4 DEF Deposits
  <1> QED
    BY <1>5, <1>6 DEF Books, BooksBalance, g, b

\* What the operators on a settlement do to what is owed out of it.
LEMMA AddEscrow ==
    ASSUME NEW s \in Settlement, NEW o, o.start \in Nat,
           o.sprice \in Int, Pay(o) \in Int, Manage(o) \in Int
    PROVE  EscrowOf(Add(s, o)) = EscrowOf(s) + Pay(o) + Manage(o)
  <1> DEFINE a == Add(s, o)
             x == Pay(o)
             m == Manage(o)
  <1>1. /\ a.MaxPay = s.MaxPay + x /\ a.ManagePay = s.ManagePay + m
        /\ a.HasPaid = s.HasPaid /\ a.LinearPaid = s.LinearPaid
        /\ a.EndPaid = s.EndPaid /\ a.LostPaid = s.LostPaid
    BY AddFields
  <1>2. x \in Int /\ m \in Int
    OBVIOUS
  <1> HIDE DEF a, x, m
  <1>3. EscrowOf(a) = EscrowOf(s) + x + m
    BY <1>1, <1>2, SettlementFields DEF EscrowOf
  <1> QED
    BY <1>3 DEF a, x, m

\* An order that ends releases its last part to the keepers.
LEMMA EndEscrow ==
    ASSUME NEW s \in Settlement, NEW o, EndPay(o) \in Int
    PROVE  EscrowOf(End(s, o)) = EscrowOf(s) - EndPay(o)
  <1> DEFINE a == End(s, o)
             x == EndPay(o)
  <1>1. /\ a.MaxPay = s.MaxPay /\ a.ManagePay = s.ManagePay
        /\ a.HasPaid = s.HasPaid /\ a.LinearPaid = s.LinearPaid
        /\ a.EndPaid = s.EndPaid + x /\ a.LostPaid = s.LostPaid
    BY EndFields
  <1>2. x \in Int
    OBVIOUS
  <1> HIDE DEF a, x
  <1>3. EscrowOf(a) = EscrowOf(s) - x
    BY <1>1, <1>2, SettlementFields DEF EscrowOf
  <1> QED
    BY <1>3 DEF a, x

\* Accruing moves nothing.
LEMMA AccruedEscrow ==
    ASSUME NEW s \in Settlement, NEW lost
    PROVE  EscrowOf(Accrued(s, lost)) = EscrowOf(s)
  BY AccruedFields DEF EscrowOf

\* A granted claim releases the claim and the keepers' linear part.
LEMMA PaidEscrow ==
    ASSUME NEW s \in Settlement, NEW pay \in Nat
    PROVE  EscrowOf(Paid(s, pay))
              = EscrowOf(s) - (pay - s.HasPaid) - Linear(s, pay)
  <1> DEFINE a == Paid(s, pay)
             l == Linear(s, pay)
  <1>1. /\ a.MaxPay = s.MaxPay /\ a.ManagePay = s.ManagePay
        /\ a.HasPaid = pay /\ a.LinearPaid = s.LinearPaid + l
        /\ a.EndPaid = s.EndPaid /\ a.LostPaid = s.LostPaid
    BY PaidFields
  <1>2. l \in Nat
    BY PaidType
  <1> HIDE DEF a, l
  <1>3. EscrowOf(a) = EscrowOf(s) - (pay - s.HasPaid) - l
    BY <1>1, <1>2, SettlementFields DEF EscrowOf
  <1> QED
    BY <1>3 DEF a, l

\* A repair releases its pay from the settlement of the provider that lost.
LEMMA RepairPaidEscrow ==
    ASSUME NEW s \in Settlement, NEW o, Pay(o) \in Int
    PROVE  EscrowOf(RepairPaid(s, o)) = EscrowOf(s) - Pay(o)
  <1> DEFINE a == RepairPaid(s, o)
             x == Pay(o)
  <1>1. /\ a.MaxPay = s.MaxPay /\ a.ManagePay = s.ManagePay
        /\ a.HasPaid = s.HasPaid /\ a.LinearPaid = s.LinearPaid
        /\ a.EndPaid = s.EndPaid /\ a.LostPaid = s.LostPaid + x
    BY RepairPaidFields
  <1>2. x \in Int
    OBVIOUS
  <1> HIDE DEF a, x
  <1>3. EscrowOf(a) = EscrowOf(s) - x
    BY <1>1, <1>2, SettlementFields DEF EscrowOf
  <1> QED
    BY <1>3 DEF a, x

\* A sharing of the pot moves the shares into the balances.
LEMMA SharedDeposits ==
    ASSUME TypeOK, NEW i, Due(i) => totalCount > 0
    PROVE  /\ Shared(i) \in [Index -> Int]
           /\ Deposits(Shared(i))
                 = Deposits(balance) + (IF Due(i) THEN Shares ELSE 0)
  <1>1. CASE ~Due(i)
    <2>1. Shared(i) = balance
      BY <1>1, StateTypes DEF Shared
    <2>2. Deposits(balance) \in Int
      BY StateTypes, DepositsType
    <2> QED
      BY <1>1, <2>1, <2>2, StateTypes
  <1>2. CASE Due(i)
    <2> DEFINE each == [k \in keepers |-> Share(k)]
               d == [j \in Index |-> IF j \in keepers THEN Share(j) ELSE 0]
               b == balance
               s == Shared(i)
               S == Index
               K == keepers
    <2>1. /\ \A k \in keepers : Share(k) \in Int
          /\ IsFiniteSet(keepers)
          /\ Shares = SumFunctionOnSet(each, keepers)
          /\ Shares \in Int
      BY <1>2, ShareType
    <2>2. IsFiniteSet(S) /\ K \in SUBSET S
      BY Constants, StateTypes
    <2>3. \A j \in S : b[j] \in Int /\ d[j] \in Int /\ s[j] = b[j] + d[j]
      BY <1>2, <2>1, StateTypes DEF Shared
    <2>4. /\ \A j \in S : d[j] \in Int
          /\ \A j \in S \ K : d[j] = 0
      BY <2>1
    <2>5. \A k \in K : each[k] \in Int /\ d[k] = each[k]
      BY <2>1, <2>2
    <2>6. s \in [Index -> Int]
      BY <1>2, <2>1, StateTypes DEF Shared
    <2>7. IsFiniteSet(K) /\ Shares = SumFunctionOnSet(each, K)
      BY <2>1
    <2>8. Deposits(s) = SumFunctionOnSet(s, S)
          /\ Deposits(balance) = SumFunctionOnSet(b, S)
      BY DEF Deposits
    <2> HIDE DEF each, d, b, s, S, K
    <2>9. SumFunctionOnSet(s, S)
             = SumFunctionOnSet(b, S) + SumFunctionOnSet(d, S)
      BY <2>2, <2>3, SumOfSums
    <2>10. SumFunctionOnSet(d, S) = SumFunctionOnSet(d, K)
      BY <2>2, <2>4, SumRestrict
    <2>11. SumFunctionOnSet(d, K) = SumFunctionOnSet(each, K)
      BY <2>5, <2>7, SumSame
    <2>12. Deposits(s) = Deposits(balance) + Shares
      BY <2>7, <2>8, <2>9, <2>10, <2>11
    <2> QED
      BY <1>2, <2>6, <2>12 DEF s
  <1> QED
    BY <1>1, <1>2

\* If both sides change alike they stay equal.
LEMMA SumsMatch ==
    ASSUME NEW m \in Int, NEW d \in Int, NEW t \in Int, NEW h \in Int,
           NEW u \in Int, NEW mm \in Int, NEW dd \in Int, NEW tt \in Int,
           NEW hh \in Int, NEW uu \in Int, m = d + t + h - u,
           mm - m = (dd - d) + (tt - t) + (hh - h) - (uu - u)
    PROVE  mm = dd + tt + hh - uu
  OBVIOUS

\* What is left of the books after a call: the changes of the tokens held, of
\* the balances, of the pot, of what is owed and of the promises match.
LEMMA BooksKept ==
    ASSUME TypeOK, Books,
           erc'.money[FsAddr] - erc.money[FsAddr]
              = (Deposits(balance') - Deposits(balance)) + (tAcc' - tAcc)
                  + (Held(se') - Held(se)) - (unbacked' - unbacked),
           TypeOK'
    PROVE  Books'
  <1> DEFINE m == erc.money[FsAddr]
             mm == erc'.money[FsAddr]
             d == Deposits(balance)
             dd == Deposits(balance')
             h == Held(se)
             hh == Held(se')
  <1>1. /\ m \in Int /\ mm \in Int /\ d \in Int /\ dd \in Int
        /\ h \in Int /\ hh \in Int /\ tAcc \in Int /\ tAcc' \in Int
        /\ unbacked \in Int /\ unbacked' \in Int
    <2>1. /\ erc \in Ledger /\ balance \in [Index -> Int]
          /\ se \in [Provider -> Settlement] /\ tAcc \in Int /\ unbacked \in Int
      BY StateTypes
    <2>2. /\ erc' \in Ledger /\ balance' \in [Index -> Int]
          /\ se' \in [Provider -> Settlement] /\ tAcc' \in Int
          /\ unbacked' \in Int
      BY DEF TypeOK
    <2>3. d \in Int /\ dd \in Int
      BY <2>1, <2>2, DepositsType
    <2>4. h \in Int /\ hh \in Int
      BY <2>1, <2>2, HeldType
    <2>5. m \in Int /\ mm \in Int
      BY <2>1, <2>2, Constants DEF Ledger
    <2> QED
      BY <2>1, <2>2, <2>3, <2>4, <2>5
  <1>2. m = d + tAcc + h - unbacked
    BY DEF Books
  <1>3. mm - m = (dd - d) + (tAcc' - tAcc) + (hh - h) - (unbacked' - unbacked)
    OBVIOUS
  <1> HIDE DEF m, mm, d, dd, h, hh
  <1>4. mm = dd + tAcc' + hh - unbacked'
    <2>1. m \in Int /\ mm \in Int
      BY <1>1
    <2>2. d \in Int /\ dd \in Int
      BY <1>1
    <2>3. h \in Int /\ hh \in Int
      BY <1>1
    <2>4. tAcc \in Int /\ tAcc' \in Int
      BY <1>1
    <2>5. unbacked \in Int /\ unbacked' \in Int
      BY <1>1
    <2>6. mm = (d + tAcc + h - unbacked) + ((dd - d) + (tAcc' - tAcc) + (hh - h) - (unbacked' - unbacked))
      <3>1. mm = m + (mm - m)
        BY ONLY <2>1
      <3>2. mm = m + ((dd - d) + (tAcc' - tAcc) + (hh - h) - (unbacked' - unbacked))
        BY ONLY <3>1, <1>3
      <3> QED
        BY ONLY <3>2, <1>2
    <2> QED
      BY ONLY <2>6, <2>1, <2>2, <2>3, <2>4, <2>5
  <1> QED
    BY <1>4 DEF Books, mm, dd, hh

\* AddOrder: what the user pays goes to the provider's settlement, with the
\* keepers' share of it, and to the foundation.
LEMMA AddOrderBooks ==
    ASSUME TypeOK, Books, NEW k, NEW u \in User, NEW p \in Provider,
           NEW n \in Nonces(u, p), AddOrder(k, u, p, n)
    PROVE  Books'
  <1>1. PICK o : o = Terms[u][p][n + 1]
    OBVIOUS
  <1>2. /\ TypeOK' /\ balance' = Charged(u, o)
        /\ \A q \in Provider :
              se'[q] = IF q = p THEN Add(se[p], o) ELSE se[q]
    <2>1. TypeOK' /\ balance' = Charged(u, o)
      BY <1>1, AddOrderStep
    <2>2. \A q \in Provider :
              se'[q] = IF q = p THEN Add(se[p], o) ELSE se[q]
      <3>1. se' = [se EXCEPT ![p] = Add(@, o)]
        BY <1>1 DEF AddOrder
      <3> QED
        BY <3>1, StateTypes
    <2> QED
      BY <2>1, <2>2
  <1>3. n \in Nat /\ n + 1 \in DOMAIN Terms[u][p] /\ u \in Fs
    BY FsAssumption, Constants DEF Nonces, AddOrder, CanAdd
  <1>4. /\ o.start \in Nat /\ o.sprice \in Int
        /\ Pay(o) \in Int /\ Manage(o) \in Int /\ Tax(o) \in Int
        /\ Cost(o) \in Int
        /\ Cost(o) = Pay(o) + Manage(o) + Tax(o)
    BY <1>1, <1>3, TermsType
  <1>5. UNCHANGED <<erc, tAcc, unbacked>>
    BY DEF AddOrder
  <1>6. /\ se \in [Provider -> Settlement] /\ se' \in [Provider -> Settlement]
        /\ balance \in [Index -> Int] /\ balance' \in [Index -> Int]
    BY <1>2, StateTypes DEF TypeOK
  <1>7. Held(se') - Held(se) = Pay(o) + Manage(o)
    <2>1. Held(se') = Held(se) + (EscrowOf(se'[p]) - EscrowOf(se[p]))
      BY <1>2, <1>6, HeldMoved
    <2>2. se'[p] = Add(se[p], o) /\ se[p] \in Settlement
      BY <1>2, <1>6
    <2>3. EscrowOf(Add(se[p], o)) = EscrowOf(se[p]) + Pay(o) + Manage(o)
      BY <1>4, <2>2, AddEscrow
    <2>4. EscrowOf(se[p]) \in Int /\ Held(se) \in Int
      BY <1>6, <2>2, EscrowType, HeldType
    <2> QED
      BY <1>4, <2>1, <2>2, <2>3, <2>4
  <1>8. Deposits(balance') - Deposits(balance) = Tax(o) - Cost(o)
    <2> DEFINE tax == Tax(o)
               cost == Cost(o)
               mid == [i \in Index |-> balance[i]
                                         + (IF i = Foundation THEN tax ELSE 0)]
    <2>1. tax \in Int /\ cost \in Int /\ u \in Index /\ Foundation \in Index
      BY <1>4, Constants
    <2>2. balance' = [i \in Index |-> balance[i]
                                        + (IF i = Foundation THEN tax ELSE 0)
                                        - (IF i = u THEN cost ELSE 0)]
      BY <1>2 DEF Charged
    <2> HIDE DEF tax, cost
    <2>3. /\ mid \in [Index -> Int]
          /\ \A j \in Index \ {Foundation} : mid[j] = balance[j]
          /\ mid[Foundation] - balance[Foundation] = tax
      BY <1>6, <2>1
    <2>4. /\ \A j \in Index \ {u} : balance'[j] = mid[j]
          /\ balance'[u] = mid[u] - cost
      <3>1. \A j \in Index : balance'[j] = mid[j] - (IF j = u THEN cost ELSE 0)
        BY <1>6, <2>1, <2>2
      <3>2. \A j \in Index : mid[j] \in Int
        BY <2>3
      <3> HIDE DEF mid
      <3> QED
        BY <2>1, <3>1, <3>2
    <2> HIDE DEF mid
    <2>5. Deposits(mid) = Deposits(balance) + (mid[Foundation] - balance[Foundation])
      BY <1>6, <2>1, <2>3, DepositsMoved
    <2>6. Deposits(balance') = Deposits(mid) + (balance'[u] - mid[u])
      BY <1>6, <2>1, <2>3, <2>4, DepositsMoved
    <2>7. Deposits(balance) \in Int
      BY <1>6, DepositsType
    <2>8. Deposits(balance') - Deposits(balance) = tax - cost
      BY <2>1, <2>3, <2>4, <2>5, <2>6, <2>7
    <2> QED
      BY <2>8 DEF tax, cost
  <1>9. erc.money[FsAddr] \in Int /\ tAcc \in Int /\ unbacked \in Int
    BY StateTypes, Constants DEF Ledger
  <1>10. erc'.money[FsAddr] - erc.money[FsAddr]
              = (Deposits(balance') - Deposits(balance)) + (tAcc' - tAcc)
                  + (Held(se') - Held(se)) - (unbacked' - unbacked)
    BY <1>4, <1>5, <1>7, <1>8, <1>9
  <1> QED
    BY <1>2, <1>10, BooksKept

\* An order ends: 1% of it goes from the settlement to the pot.
LEMMA EndedBooks ==
    ASSUME TypeOK, Books, TypeOK', NEW p \in Provider, NEW o,
           EndPay(o) \in Int, se' = [se EXCEPT ![p] = End(@, o)],
           UNCHANGED <<erc, balance, unbacked>>, tAcc' = tAcc + EndPay(o)
    PROVE  Books'
  <1>1. /\ se \in [Provider -> Settlement] /\ se' \in [Provider -> Settlement]
        /\ balance \in [Index -> Int] /\ tAcc \in Int /\ unbacked \in Int
    BY StateTypes DEF TypeOK
  <1>2. erc.money[FsAddr] \in Int
    BY StateTypes, Constants DEF Ledger
  <1>3. /\ se'[p] = End(se[p], o) /\ se[p] \in Settlement
        /\ \A q \in Provider \ {p} : se'[q] = se[q]
    BY <1>1
  <1>4. Held(se') = Held(se) + (EscrowOf(se'[p]) - EscrowOf(se[p]))
    BY ZenonT(30), <1>1, <1>3, HeldMoved
  <1>5. EscrowOf(se'[p]) = EscrowOf(se[p]) - EndPay(o)
    BY <1>3, EndEscrow
  <1>6. /\ EscrowOf(se[p]) \in Int /\ Held(se) \in Int
        /\ Deposits(balance) \in Int
    BY <1>1, <1>3, EscrowType, HeldType, DepositsType
  <1>7. Held(se') - Held(se) = -EndPay(o) /\ tAcc' - tAcc = EndPay(o)
    BY <1>1, <1>4, <1>5, <1>6
  <1>8. erc'.money[FsAddr] - erc.money[FsAddr]
              = (Deposits(balance') - Deposits(balance)) + (tAcc' - tAcc)
                  + (Held(se') - Held(se)) - (unbacked' - unbacked)
    BY <1>1, <1>2, <1>6, <1>7
  <1> QED
    BY <1>8, BooksKept

\* SubOrder: 1% of the order goes from the settlement to the pot.
LEMMA SubOrderBooks ==
    ASSUME TypeOK, Books, NEW k, NEW u \in User, NEW p \in Provider,
           NEW n \in Nonces(u, p), SubOrder(k, u, p, n)
    PROVE  Books'
  <1>1. PICK o : o = Terms[u][p][n + 1]
    OBVIOUS
  <1>2. /\ TypeOK'
        /\ se' = [se EXCEPT ![p] = End(@, o)]
        /\ UNCHANGED <<erc, balance, unbacked>>
        /\ tAcc' = tAcc + EndPay(o)
    <2>1. TypeOK'
      BY <1>1, SubOrderStep
    <2> QED
      BY <1>1, <2>1 DEF SubOrder
  <1>3. n \in Nat /\ n + 1 \in DOMAIN Terms[u][p] /\ u \in Fs
    BY FsAssumption, Constants DEF Nonces, SubOrder, CanSub
  <1>4. EndPay(o) \in Int
    BY <1>1, <1>3, TermsType
  <1> QED
    BY <1>2, <1>4, EndedBooks

\* SubRepair does the same, or nothing to the money.
LEMMA SubRepairBooks ==
    ASSUME TypeOK, Books, NEW k, NEW q \in Provider,
           NEW n \in Nonces(Repair, q), SubRepair(k, q, n)
    PROVE  Books'
  <1>1. PICK o : o = Terms[Repair][q][n + 1]
    OBVIOUS
  <1>2. TypeOK' /\ UNCHANGED <<erc, balance, unbacked>>
    <2>1. TypeOK'
      BY <1>1, SubRepairStep
    <2> QED
      BY <2>1 DEF SubRepair
  <1>3. CASE q \in proInfo
    <2>1. /\ se' = [se EXCEPT ![q] = End(@, o)]
          /\ tAcc' = tAcc + EndPay(o)
      BY <1>1, <1>3 DEF SubRepair
    <2>2. n \in Nat /\ n + 1 \in DOMAIN Terms[Repair][q] /\ Repair \in Fs
      BY FsAssumption, Constants DEF Nonces, SubRepair, CanSub
    <2>3. EndPay(o) \in Int
      BY <1>1, <2>2, TermsType
    <2> QED
      BY <1>2, <2>1, <2>3, EndedBooks
  <1>4. CASE q \notin proInfo
    <2>1. UNCHANGED <<se, tAcc>>
      BY <1>4 DEF SubRepair
    <2> QED
      BY <1>2, <2>1 DEF Books
  <1> QED
    BY <1>3, <1>4

\* AddRepair: the provider's loss pays for the repair, nobody for the keepers'
\* share of it; a new provider without a settlement gets the one of the other,
\* whatever was still owed out of that.
LEMMA AddRepairBooks ==
    ASSUME TypeOK, Books, NEW k, NEW p \in Provider, NEW q \in Provider,
           NEW n \in Nonces(Repair, q), AddRepair(k, p, q, n)
    PROVE  Books'
  <1>1. PICK o : o = Terms[Repair][q][n + 1]
    OBVIOUS
  <1>2. TypeOK' /\ UNCHANGED <<erc, balance, tAcc>>
    <2>1. TypeOK'
      BY <1>1, AddRepairStep
    <2> QED
      BY <2>1 DEF AddRepair
  <1>3. n \in Nat /\ n + 1 \in DOMAIN Terms[Repair][q] /\ Repair \in Fs
    BY FsAssumption, Constants DEF Nonces, AddRepair, CanAdd
  <1>4. /\ o.start \in Nat /\ o.sprice \in Int
        /\ Pay(o) \in Int /\ Manage(o) \in Int
    BY <1>1, <1>3, TermsType
  <1>5. /\ se \in [Provider -> Settlement] /\ se' \in [Provider -> Settlement]
        /\ erc.money[FsAddr] \in Int /\ tAcc \in Int /\ unbacked \in Int
        /\ Deposits(balance) \in Int /\ Held(se) \in Int
    <2>1. /\ se \in [Provider -> Settlement] /\ se' \in [Provider -> Settlement]
          /\ balance \in [Index -> Int] /\ tAcc \in Int /\ unbacked \in Int
      BY <1>2, StateTypes DEF TypeOK
    <2>2. erc.money[FsAddr] \in Int
      BY StateTypes, Constants DEF Ledger
    <2> QED
      BY <2>1, <2>2, DepositsType, HeldType
  <1>6. Held(se') - Held(se) = unbacked' - unbacked
    <2>1. CASE q \in proInfo
      <3> DEFINE mid == [se EXCEPT ![q] = Add(@, o)]
      <3>1. se[q] \in Settlement /\ Add(se[q], o) \in Settlement
        BY <1>4, <1>5, AddType
      <3>2. /\ mid \in [Provider -> Settlement]
            /\ mid[q] = Add(se[q], o)
            /\ \A r \in Provider \ {q} : mid[r] = se[r]
        BY <1>5, <3>1
      <3>3. /\ se' = [mid EXCEPT ![p] = RepairPaid(@, o)]
            /\ unbacked' = unbacked + Manage(o)
        <4>1. se' = [[se EXCEPT ![q] = Add(@, o)] EXCEPT ![p] = RepairPaid(@, o)]
          BY <1>1, <2>1 DEF AddRepair
        <4>2. unbacked' = unbacked + Manage(o) + 0
          BY <1>1, <2>1 DEF AddRepair
        <4>3. unbacked' = unbacked + Manage(o)
          BY <1>4, <1>5, <4>2
        <4> QED
          BY <4>1, <4>3
      <3> HIDE DEF mid
      <3>4. /\ se'[p] = RepairPaid(mid[p], o)
            /\ \A r \in Provider \ {p} : se'[r] = mid[r]
        BY <3>2, <3>3
      <3>5. Held(mid) = Held(se) + (EscrowOf(mid[q]) - EscrowOf(se[q]))
        BY <1>5, <3>2, HeldMoved
      <3>6. Held(se') = Held(mid) + (EscrowOf(se'[p]) - EscrowOf(mid[p]))
        BY <1>5, <3>2, <3>4, HeldMoved
      <3>7. EscrowOf(mid[q]) = EscrowOf(se[q]) + Pay(o) + Manage(o)
        BY <1>4, <3>1, <3>2, AddEscrow
      <3>8. EscrowOf(se'[p]) = EscrowOf(mid[p]) - Pay(o)
        BY <1>4, <3>2, <3>4, RepairPaidEscrow
      <3>9. /\ EscrowOf(se[q]) \in Int /\ EscrowOf(mid[p]) \in Int
            /\ Pay(o) \in Int /\ Manage(o) \in Int
        BY <1>4, <3>1, <3>2, EscrowType
      <3> QED
        BY <1>5, <3>3, <3>5, <3>6, <3>7, <3>8, <3>9
    <2>2. CASE q \notin proInfo
      <3>1. /\ se' = [se EXCEPT ![p] = Add(newSettlement, o)]
            /\ unbacked' = unbacked + Manage(o) + (Pay(o) - Escrow(p))
        <4>1. se' = [se EXCEPT ![p] = Add(newSettlement, o)]
          BY <1>1, <2>2 DEF AddRepair
        <4>2. unbacked' = unbacked + Manage(o) + (Pay(o) - Escrow(p))
          BY <1>1, <2>2 DEF AddRepair, Escrow
        <4> QED
          BY <4>1, <4>2
      <3>2. /\ se'[p] = Add(newSettlement, o)
            /\ \A r \in Provider \ {p} : se'[r] = se[r]
        BY <1>5, <3>1
      <3>3. Held(se') = Held(se) + (EscrowOf(se'[p]) - EscrowOf(se[p]))
        BY <1>5, <3>2, HeldMoved
      <3>4. EscrowOf(se'[p]) = EscrowOf(newSettlement) + Pay(o) + Manage(o)
        BY <1>4, <3>2, NewType, AddEscrow
      <3>5. EscrowOf(newSettlement) = 0
        BY NewType DEF EscrowOf
      <3>6. EscrowOf(se[p]) = Escrow(p)
        BY DEF EscrowOf, Escrow
      <3>7. EscrowOf(se[p]) \in Int /\ Pay(o) \in Int /\ Manage(o) \in Int
        BY <1>4, <1>5, EscrowType
      <3> QED
        BY <1>5, <3>1, <3>3, <3>4, <3>5, <3>6, <3>7
    <2> QED
      BY <2>1, <2>2
  <1>7. Held(se') \in Int /\ unbacked' \in Int
    BY <1>2, <1>5, HeldType DEF TypeOK
  <1>8. erc'.money[FsAddr] - erc.money[FsAddr]
              = (Deposits(balance') - Deposits(balance)) + (tAcc' - tAcc)
                  + (Held(se') - Held(se)) - (unbacked' - unbacked)
    <2>1. /\ erc'.money[FsAddr] = erc.money[FsAddr] /\ tAcc' = tAcc
          /\ Deposits(balance') = Deposits(balance)
      BY <1>2
    <2>2. /\ erc'.money[FsAddr] - erc.money[FsAddr] = 0
          /\ Deposits(balance') - Deposits(balance) = 0 /\ tAcc' - tAcc = 0
      BY ONLY <1>5, <2>1
    <2> DEFINE h == Held(se') - Held(se)
               b == unbacked' - unbacked
    <2>3. h = b /\ h \in Int
      BY ONLY <1>5, <1>6, <1>7
    <2> HIDE DEF h, b
    <2>4. 0 = (0 + 0) + h - b
      BY ONLY <2>3
    <2> QED
      BY ONLY <2>2, <2>4 DEF h, b
  <1> QED
    BY <1>2, <1>8, BooksKept

\* ProWithdraw: what is paid leaves the settlement, 4% of it for the pot, and
\* the contract when it has been transferred.
LEMMA ProWithdrawBooks ==
    ASSUME TypeOK, Books, NEW p \in Provider, NEW pay \in Nat, NEW lost \in Nat,
           ProWithdraw(p, pay, lost)
    PROVE  Books'
  <1>1. PICK s : s = Accrued(se[p], lost)
    OBVIOUS
  <1>2. PICK money : money = balance[p] + pay - se[p].HasPaid
    OBVIOUS
  <1>3. PICK sent \in BOOLEAN : sent <=> ErcCanTransfer(erc, FsAddr, money)
    <2>1. ErcCanTransfer(erc, FsAddr, money) \/ ~ErcCanTransfer(erc, FsAddr, money)
      OBVIOUS
    <2> QED
      BY <2>1
  <1>4. /\ TypeOK' /\ s \in Settlement /\ money \in Int
        /\ \A q \in Provider \ {p} : se'[q] = se[q]
        /\ s.CanPay < pay =>
              se'[p] = s /\ erc' = erc /\ balance' = balance /\ tAcc' = tAcc
        /\ s.CanPay >= pay =>
              /\ se'[p] = Paid(s, pay)
              /\ tAcc' = tAcc + Linear(s, pay)
              /\ Linear(s, pay) \in Nat
              /\ \A i \in Index :
                    balance'[i] = IF i = p
                                  THEN IF sent THEN 0 ELSE money
                                  ELSE balance[i]
              /\ \A x \in Address : erc'.money[x] =
                    IF sent
                    THEN erc.money[x] + (IF x = p THEN money ELSE 0)
                                      - (IF x = FsAddr THEN money ELSE 0)
                    ELSE erc.money[x]
    BY <1>1, <1>2, <1>3, ProWithdrawStep
  <1>5. /\ se \in [Provider -> Settlement] /\ se' \in [Provider -> Settlement]
        /\ balance \in [Index -> Int] /\ balance' \in [Index -> Int]
        /\ tAcc \in Int /\ unbacked \in Int
    BY <1>4, StateTypes DEF TypeOK
  <1>6. /\ erc.money[FsAddr] \in Int /\ unbacked' = unbacked
        /\ p \in Index /\ FsAddr \in Address /\ p # FsAddr
    <2>1. unbacked' = unbacked
      BY DEF ProWithdraw
    <2>2. erc.money[FsAddr] \in Int
      BY StateTypes, Constants DEF Ledger
    <2> QED
      BY <2>1, <2>2, Constants
  <1>7. /\ Deposits(balance) \in Int /\ Held(se) \in Int
        /\ EscrowOf(se[p]) \in Int /\ EscrowOf(s) = EscrowOf(se[p])
        /\ s.HasPaid = se[p].HasPaid /\ se[p].HasPaid \in Int
        /\ s.CanPay \in Int /\ balance[p] \in Int
    <2>1. /\ se[p] \in Settlement /\ balance[p] \in Int
      BY <1>5, <1>6
    <2>2. EscrowOf(s) = EscrowOf(se[p]) /\ s.HasPaid = se[p].HasPaid
      BY <1>1, <2>1, AccruedEscrow, AccruedFields
    <2> QED
      BY <1>4, <1>5, <2>1, <2>2, DepositsType, HeldType, EscrowType,
         SettlementFields
  <1>8. Held(se') = Held(se) + (EscrowOf(se'[p]) - EscrowOf(se[p]))
    BY <1>4, <1>5, HeldMoved
  <1>9. CASE s.CanPay < pay
    <2>1. Held(se') = Held(se)
      BY <1>4, <1>7, <1>8, <1>9
    <2> QED
      BY <1>4, <1>6, <1>9, <2>1 DEF Books
  <1>10. CASE s.CanPay >= pay
    <2> DEFINE l == Linear(s, pay)
               d == Deposits(balance)
               dd == Deposits(balance')
               h == Held(se)
               hh == Held(se')
               m == erc.money[FsAddr]
               mm == erc'.money[FsAddr]
               b == balance[p]
               hp == se[p].HasPaid
    <2>1. l \in Int /\ tAcc' = tAcc + l
      BY <1>4, <1>10
    <2>2. hh = h - (pay - hp) - l
      <3>1. EscrowOf(Paid(s, pay)) = EscrowOf(s) - (pay - s.HasPaid) - l
        BY <1>4, PaidEscrow
      <3>2. se'[p] = Paid(s, pay)
        BY <1>4, <1>10
      <3> HIDE DEF l
      <3> QED
        BY <1>7, <1>8, <2>1, <3>1, <3>2
    <2>3. dd = d + (balance'[p] - b)
      <3>1. \A j \in Index \ {p} : balance'[j] = balance[j]
        BY <1>4, <1>10
      <3> QED
        BY <1>5, <1>6, <3>1, DepositsMoved
    <2>4. /\ balance'[p] = IF sent THEN 0 ELSE money
          /\ mm = IF sent THEN m - money ELSE m
      <3>1. balance'[p] = IF sent THEN 0 ELSE money
        BY <1>4, <1>6, <1>10
      <3>2. mm = IF sent THEN m + 0 - money ELSE m
        BY <1>4, <1>6, <1>10
      <3> QED
        BY <1>4, <1>6, <3>1, <3>2
    <2>5. /\ d \in Int /\ h \in Int /\ m \in Int /\ b \in Int /\ hp \in Int
          /\ money = b + pay - hp
      BY <1>2, <1>6, <1>7
    <2> HIDE DEF l, d, dd, h, hh, m, mm, b, hp
    <2>6. mm - m = (dd - d) + (tAcc' - tAcc) + (hh - h) - (unbacked' - unbacked)
      <3>1. tAcc' - tAcc = l /\ unbacked' - unbacked = 0
        BY <1>5, <1>6, <2>1
      <3>2. hh - h = (hp - pay) - l
        BY <2>1, <2>2, <2>5
      <3>3. dd - d = balance'[p] - b
        BY <1>4, <2>3, <2>4, <2>5
      <3>4. mm - m = (balance'[p] - b) + (hp - pay)
        BY <1>4, <2>4, <2>5
      <3>5. balance'[p] \in Int
        BY <1>4, <2>4
      <3> QED
        BY <2>1, <2>5, <3>1, <3>2, <3>3, <3>4, <3>5
    <2> QED
      BY <1>4, <2>6, BooksKept DEF d, dd, h, hh, m, mm
  <1> QED
    BY <1>4, <1>7, <1>9, <1>10

\* Withdraw: the pot is shared out into the balances, and what is withdrawn
\* leaves both the balance and the contract, or neither.
LEMMA WithdrawBooks ==
    ASSUME TypeOK, Books, NEW i \in Index, NEW amount \in Nat,
           Withdraw(i, amount)
    PROVE  Books'
  <1> DEFINE bal == Shared(i)
  <1>1. PICK money : money = IF amount = 0 \/ amount > bal[i]
                             THEN bal[i] ELSE amount
    OBVIOUS
  <1>2. PICK sent \in BOOLEAN : sent <=> ErcCanTransfer(erc, FsAddr, money)
    <2>1. ErcCanTransfer(erc, FsAddr, money) \/ ~ErcCanTransfer(erc, FsAddr, money)
      OBVIOUS
    <2> QED
      BY <2>1
  <1>3. /\ TypeOK' /\ money \in Int
        /\ Due(i) => totalCount > 0 /\ Shares \in Int
        /\ tAcc' = IF Due(i) THEN tAcc - Shares ELSE tAcc
        /\ bal \in [Index -> Int]
        /\ \A j \in Index :
              balance'[j] = IF sent /\ j = i THEN bal[j] - money ELSE bal[j]
        /\ \A x \in Address : erc'.money[x] =
              IF sent
              THEN erc.money[x] + (IF x = i THEN money ELSE 0)
                                - (IF x = FsAddr THEN money ELSE 0)
              ELSE erc.money[x]
    BY <1>1, <1>2, WithdrawStep
  <1>4. UNCHANGED <<se, unbacked>>
    BY DEF Withdraw
  <1>5. /\ balance' \in [Index -> Int] /\ tAcc \in Int /\ unbacked \in Int
        /\ erc.money[FsAddr] \in Int /\ FsAddr \in Address /\ i # FsAddr
        /\ Deposits(balance) \in Int /\ Held(se) \in Int
    <2>1. balance' \in [Index -> Int]
      BY <1>3 DEF TypeOK
    <2>2. erc.money[FsAddr] \in Int
      BY StateTypes, Constants DEF Ledger
    <2> QED
      BY <2>1, <2>2, StateTypes, Constants, DepositsType, HeldType
  <1>6. PICK w \in Int : w = IF Due(i) THEN Shares ELSE 0
    BY <1>3
  <1>7. Deposits(bal) = Deposits(balance) + w
    BY <1>3, <1>6, SharedDeposits
  <1>8. tAcc' - tAcc = -w
    BY <1>3, <1>5, <1>6
  <1> DEFINE d == Deposits(balance)
             db == Deposits(bal)
             dd == Deposits(balance')
             m == erc.money[FsAddr]
             mm == erc'.money[FsAddr]
             bi == bal[i]
  <1> HIDE DEF bal
  <1>9. dd = db + (balance'[i] - bi)
    <2>1. \A j \in Index \ {i} : balance'[j] = bal[j]
      BY <1>3
    <2> QED
      BY <1>3, <1>5, <2>1, DepositsMoved
  <1>10. balance'[i] - bi = mm - m
    <2>1. CASE sent
      <3>1. balance'[i] = bi - money
        BY <1>3, <2>1
      <3>2. mm = m + 0 - money
        BY <1>3, <1>5, <2>1
      <3>3. bi \in Int
        BY <1>3
      <3> HIDE DEF bi, m, mm
      <3> QED
        BY <1>3, <1>5, <3>1, <3>2, <3>3 DEF m
    <2>2. CASE ~sent
      BY <1>3, <1>5, <2>2
    <2> QED
      BY <2>1, <2>2
  <1>11. /\ db \in Int /\ bi \in Int /\ balance'[i] \in Int
         /\ mm \in Int /\ m \in Int /\ d \in Int
    <2>1. mm \in Int
      BY <1>3, Constants DEF TypeOK, Ledger
    <2> QED
      BY <1>3, <1>5, <2>1, DepositsType
  <1>12. Held(se') - Held(se) = 0 /\ unbacked' - unbacked = 0
    BY <1>4, <1>5
  <1> HIDE DEF d, db, dd, m, mm, bi
  <1>13. dd - d = (mm - m) + w
    BY <1>6, <1>7, <1>9, <1>10, <1>11 DEF d, db
  <1>14. mm - m = (dd - d) + (tAcc' - tAcc) + (Held(se') - Held(se))
                    - (unbacked' - unbacked)
    BY <1>6, <1>8, <1>11, <1>12, <1>13
  <1> QED
    BY <1>3, <1>14, BooksKept DEF d, dd, m, mm

\* A recharge: what index i gets is what the contract receives.
LEMMA RechargedBooks ==
    ASSUME TypeOK, Books, TypeOK', NEW i \in Index, NEW w \in Int,
           NEW from \in Address, from # FsAddr,
           \A j \in Index :
              balance'[j] = IF j = i THEN balance[j] + w ELSE balance[j],
           \A x \in Address : erc'.money[x] =
              erc.money[x] + (IF x = FsAddr THEN w ELSE 0)
                           - (IF x = from THEN w ELSE 0),
           UNCHANGED <<se, tAcc, unbacked>>
    PROVE  Books'
  <1>1. /\ balance \in [Index -> Int] /\ balance' \in [Index -> Int]
        /\ tAcc \in Int /\ unbacked \in Int /\ erc.money[FsAddr] \in Int
        /\ Deposits(balance) \in Int /\ Held(se) \in Int
    <2>1. /\ balance \in [Index -> Int] /\ balance' \in [Index -> Int]
          /\ se \in [Provider -> Settlement] /\ tAcc \in Int /\ unbacked \in Int
      BY StateTypes DEF TypeOK
    <2>2. erc.money[FsAddr] \in Int
      BY StateTypes, Constants DEF Ledger
    <2> QED
      BY <2>1, <2>2, DepositsType, HeldType
  <1>2. Deposits(balance') = Deposits(balance) + (balance'[i] - balance[i])
    <2>1. \A j \in Index \ {i} : balance'[j] = balance[j]
      OBVIOUS
    <2> QED
      BY <1>1, <2>1, DepositsMoved
  <1>3. balance'[i] = balance[i] + w /\ balance[i] \in Int
    BY <1>1
  <1>4. erc'.money[FsAddr] = erc.money[FsAddr] + w
    <2>1. erc'.money[FsAddr] = erc.money[FsAddr] + w - 0
      BY Constants
    <2> QED
      BY <1>1, <2>1
  <1>5. Deposits(balance') = Deposits(balance) + w
    BY <1>1, <1>2, <1>3
  <1>6. erc'.money[FsAddr] - erc.money[FsAddr]
              = (Deposits(balance') - Deposits(balance)) + (tAcc' - tAcc)
                  + (Held(se') - Held(se)) - (unbacked' - unbacked)
    BY <1>1, <1>4, <1>5
  <1> QED
    BY <1>6, BooksKept

\* Every step keeps the books.
LEMMA StepBooks == TypeOK /\ Books /\ [Next]_vars => Books'
  <1> SUFFICES ASSUME TypeOK, Books, [Next]_vars
               PROVE  Books'
    OBVIOUS
  <1>1. CASE Quiet
    <2>1. UNCHANGED <<se, balance, tAcc, unbacked>> /\ erc'.money = erc.money
      BY <1>1, QuietStep
    <2> QED
      BY <2>1 DEF Books
  <1>2. ASSUME NEW i \in Index, NEW v \in Nat, Recharge(i, v)
        PROVE  Books'
    <2>1. v \in Int
      OBVIOUS
    <2>2. /\ TypeOK'
          /\ \A j \in Index :
                balance'[j] = IF j = i THEN balance[j] + v ELSE balance[j]
          /\ \A x \in Address : erc'.money[x] =
                erc.money[x] + (IF x = FsAddr THEN v ELSE 0)
                             - (IF x = i THEN v ELSE 0)
      BY <1>2, <2>1, RechargeStep
    <2>3. UNCHANGED <<se, tAcc, unbacked>> /\ i \in Address /\ i # FsAddr
      BY <1>2, Constants DEF Recharge
    <2> QED
      BY <2>1, <2>2, <2>3, RechargedBooks
  <1>3. ASSUME NEW i \in Index, NEW v \in Nat, RechargeByAdmin(i, v)
        PROVE  Books'
    <2>1. PICK w \in {0, v} :
             /\ \A j \in Index :
                   balance'[j] = IF j = i THEN balance[j] + w ELSE balance[j]
             /\ \A x \in Address : erc'.money[x] =
                   erc.money[x] + (IF x = FsAddr THEN w ELSE 0)
                                - (IF x = RoleMgr THEN w ELSE 0)
      BY <1>3, RechargeByAdminStep
    <2>2. TypeOK' /\ w \in Int
      BY <1>3, RechargeByAdminStep
    <2>3. /\ UNCHANGED <<se, tAcc, unbacked>>
          /\ RoleMgr \in Address /\ RoleMgr # FsAddr
      BY <1>3, Constants DEF RechargeByAdmin
    <2> QED
      BY <2>1, <2>2, <2>3, RechargedBooks
  <1>4. ASSUME NEW k \in Callers, NEW u \in User, NEW p \in Provider,
               NEW n \in Nonces(u, p), AddOrder(k, u, p, n) \/ SubOrder(k, u, p, n)
        PROVE  Books'
    BY <1>4, AddOrderBooks, SubOrderBooks
  <1>5. ASSUME NEW k \in Callers, NEW p \in Provider, NEW q \in Provider,
               NEW n \in Nonces(Repair, q), AddRepair(k, p, q, n)
        PROVE  Books'
    BY <1>5, AddRepairBooks
  <1>6. ASSUME NEW k \in Callers, NEW q \in Provider,
               NEW n \in Nonces(Repair, q), SubRepair(k, q, n)
        PROVE  Books'
    BY <1>6, SubRepairBooks
  <1>7. ASSUME NEW p \in Provider, NEW pay \in Nat, NEW lost \in Nat,
               ProWithdraw(p, pay, lost)
        PROVE  Books'
    BY <1>7, ProWithdrawBooks
  <1>8. ASSUME NEW i \in Index, NEW amount \in Nat, Withdraw(i, amount)
        PROVE  Books'
    BY <1>8, WithdrawBooks
  <1> QED
    BY <1>1, <1>2, <1>3, <1>4, <1>5, <1>6, <1>7, <1>8, NextCases

\* At the start there is no money in the contract and nothing is owed.
LEMMA InitBooks == Init => Books
  <1> SUFFICES ASSUME Init PROVE Books
    OBVIOUS
  <1>1. /\ tAcc = 0 /\ unbacked = 0 /\ erc.money[FsAddr] = 0
        /\ \A i \in Index : balance[i] = 0
        /\ \A p \in Provider : se[p] = newSettlement
    <2>1. erc.money = InitMoney
      BY DEF Init, LedgerOf
    <2> QED
      BY <2>1, FsAssumption DEF Init
  <1>2. Deposits(balance) = 0
    <2> DEFINE b == balance
               S == Index
    <2>1. IsFiniteSet(S) /\ \A i \in S : b[i] = 0
      BY <1>1, Constants
    <2> HIDE DEF b, S
    <2>2. SumFunctionOnSet(b, S) = 0
      BY <2>1, SumZero
    <2> QED
      BY <2>2 DEF Deposits, b, S
  <1>3. Held(se) = 0
    <2> DEFINE g == [p \in Provider |-> EscrowOf(se[p])]
               S == Provider
    <2>1. IsFiniteSet(S) /\ \A p \in S : g[p] = 0
      <3>1. EscrowOf(newSettlement) = 0
        BY NewType DEF EscrowOf
      <3> QED
        BY <1>1, <3>1, Constants
    <2> HIDE DEF g, S
    <2>2. SumFunctionOnSet(g, S) = 0
      BY <2>1, SumZero
    <2> QED
      BY <2>2 DEF Held, g, S
  <1> QED
    BY <1>1, <1>2, <1>3 DEF Books

\* The contract's tokens are exactly the balances, the keepers' pot and what is
\* owed out of the settlements, less what repairs promised without money,
\* whichever calls fail half-way and whichever transfers are refused.
THEOREM FsBooksBalance == Spec => []BooksBalance
  <1> DEFINE Inv == TypeOK /\ Books
  <1>1. Init => Inv
    BY InitTypes, InitBooks
  <1>2. Inv /\ [Next]_vars => Inv'
    BY StepTypes, StepBooks
  <1>3. Inv => BooksBalance
    BY BooksIs
  <1> HIDE DEF Inv
  <1> QED
    BY <1>1, <1>2, <1>3, PTL DEF Spec

-----------------------------------------------------------------------------
(***************************************************************************)
(* What GetBalance shows                                                   *)
(***************************************************************************)
\* A keeper of the group has a count from the start.
KeepersCount == \A k \in keepers : count[k] >= 1

\* So there is a total to divide the pot by.
LEMMA CountPositive ==
    ASSUME TypeOK, SharesWithinPot, KeepersCount, NEW k \in keepers
    PROVE  totalCount > 0
  <1> DEFINE c == count
             S == keepers
  <1>1. IsFiniteSet(S) /\ \A x \in S : c[x] \in Nat /\ c[x] >= 1
    <2>1. keepers \subseteq Keeper /\ IsFiniteSet(Keeper)
      BY StateTypes, Constants
    <2>2. IsFiniteSet(keepers)
      BY <2>1, FS_Subset
    <2> QED
      BY <2>1, <2>2, StateTypes DEF KeepersCount
  <1>2. totalCount = SumFunctionOnSet(c, S) /\ k \in S
    BY DEF SharesWithinPot
  <1> HIDE DEF c, S
  <1>3. SumFunctionOnSet(c, S) = c[k] + SumFunctionOnSet(c, S \ {k})
    <2>1. \A x \in S : c[x] \in Int
      BY <1>1
    <2> QED
      BY <1>1, <1>2, <2>1, SumRemove
  <1>4. SumFunctionOnSet(c, S \ {k}) \in Nat
    <2>1. IsFiniteSet(S \ {k}) /\ \A x \in S \ {k} : c[x] \in Nat
      BY <1>1, FS_Subset
    <2> QED
      BY <2>1, SumNat
  <1> QED
    BY <1>1, <1>2, <1>3, <1>4

\* No call takes a keeper's count away.
LEMMA StepKeepersCount == TypeOK /\ KeepersCount /\ [Next]_vars => KeepersCount'
  <1> SUFFICES ASSUME TypeOK, KeepersCount, [Next]_vars
               PROVE  KeepersCount'
    OBVIOUS
  <1>1. /\ count \in [Keeper -> Nat] /\ keepers \subseteq Keeper
        /\ \A k \in keepers : count[k] >= 1
    BY StateTypes DEF KeepersCount
  <1>2. ASSUME NEW k \in Keeper, AddKeeper(k) PROVE KeepersCount'
    BY <1>1, <1>2 DEF AddKeeper, KeepersCount
  <1>3. ASSUME NEW k, Counted(k) \/ UNCHANGED <<count, totalCount>>,
               keepers' = keepers
        PROVE  KeepersCount'
    BY <1>1, <1>3 DEF Counted, KeepersCount
  <1>4. CASE UNCHANGED <<keepers, count>>
    BY <1>1, <1>4 DEF KeepersCount
  <1>5. CASE Quiet
    BY <1>2, <1>4, <1>5 DEF Quiet, Tick, ApproveFs, CreateFs, vars
  <1>6. ASSUME NEW i \in Index, NEW v \in Nat,
               Recharge(i, v) \/ RechargeByAdmin(i, v) \/ Withdraw(i, v)
        PROVE  KeepersCount'
    BY <1>4, <1>6 DEF Recharge, RechargeByAdmin, Withdraw
  <1>7. ASSUME NEW k \in Callers, NEW u \in User, NEW p \in Provider,
               NEW n \in Nonces(u, p), AddOrder(k, u, p, n) \/ SubOrder(k, u, p, n)
        PROVE  KeepersCount'
    BY <1>3, <1>7 DEF AddOrder, SubOrder
  <1>8. ASSUME NEW k \in Callers, NEW p \in Provider, NEW q \in Provider,
               NEW n \in Nonces(Repair, q), AddRepair(k, p, q, n)
        PROVE  KeepersCount'
    BY <1>3, <1>8 DEF AddRepair
  <1>9. ASSUME NEW k \in Callers, NEW q \in Provider,
               NEW n \in Nonces(Repair, q), SubRepair(k, q, n)
        PROVE  KeepersCount'
    BY <1>3, <1>9 DEF SubRepair
  <1>10. ASSUME NEW p \in Provider, NEW pay \in Nat, NEW lost \in Nat,
                ProWithdraw(p, pay, lost)
         PROVE  KeepersCount'
    BY <1>4, <1>10 DEF ProWithdraw
  <1> QED
    BY <1>5, <1>6, <1>7, <1>8, <1>9, <1>10, NextCases

\* What is available is what a withdrawal pays from.
LEMMA AvailableShared ==
    ASSUME TypeOK, SharesWithinPot, KeepersCount, NEW i \in Index,
           now - lastTime # Period
    PROVE  Available(i) = Shared(i)[i]
  <1>1. /\ balance[i] \in Int /\ now \in Int /\ lastTime \in Int
        /\ Period \in Int /\ keepers \subseteq Keeper
    BY StateTypes, FsAssumption
  <1>2. Shared(i)[i] = IF Due(i) /\ i \in keepers
                       THEN balance[i] + Share(i) ELSE balance[i]
    BY DEF Shared
  <1>3. CASE i \in keepers
    <2>1. totalCount > 0
      BY <1>3, CountPositive
    <2>2. Pending(i) = Share(i)
      BY <1>3, <2>1 DEF Pending
    <2>3. Share(i) \in Int
      BY <1>3, <2>1, ShareType
    <2>4. CASE now - lastTime > Period
      BY <1>1, <1>2, <1>3, <2>2, <2>3, <2>4 DEF Available, Due
    <2>5. CASE now - lastTime < Period
      BY <1>1, <1>2, <1>3, <2>2, <2>3, <2>5 DEF Available, Due
    <2> QED
      BY <1>1, <2>4, <2>5
  <1>4. CASE i \notin keepers
    <2>1. Pending(i) = 0
      BY <1>4 DEF Pending
    <2> QED
      BY <1>1, <1>2, <1>4, <2>1 DEF Available
  <1> QED
    BY <1>3, <1>4

\* A claim for what is locked is granted.
LEMMA LockedGranted ==
    ASSUME TypeOK, NEW p \in Provider, se[p].Time <= now, LockedPay(p) >= 0,
           NEW pay, pay = se[p].HasPaid + LockedPay(p)
    PROVE  /\ CanCalc(se[p], pay, se[p].Lost)
           /\ pay <= Accrued(se[p], se[p].Lost).CanPay
  <1>1. PICK s : s = se[p]
    OBVIOUS
  <1>2. s \in Settlement
    BY <1>1, StateTypes
  <1>3. /\ s.Time \in Nat /\ s.Price \in Int /\ s.MaxPay \in Int
        /\ s.HasPaid \in Nat /\ s.CanPay \in Int /\ s.Lost \in Nat
        /\ now \in Nat /\ now < Word /\ Word \in Nat
    BY <1>2, SettlementFields, StateTypes, Constants
  <1>4. Span(s.Time, now) = now - s.Time
    BY <1>1, <1>3, SpanType
  <1> DEFINE a == (now - s.Time) * s.Price
             c == s.CanPay + a
             l == s.MaxPay - s.Lost
  <1>5. a \in Int
    BY <1>3
  <1>6. LockedPay(p) = (IF c > l THEN l ELSE c) - s.HasPaid
    BY <1>1, <1>4 DEF LockedPay
  <1>7. Accrued(s, s.Lost).CanPay = c
    <2>1. Accrued(s, s.Lost).CanPay
             = s.CanPay + (IF s.Time < now THEN now - s.Time ELSE 0) * s.Price
      BY <1>2, AccruedFields
    <2>2. (IF s.Time < now THEN now - s.Time ELSE 0) = now - s.Time
      BY <1>1, <1>3
    <2> QED
      BY <2>1, <2>2
  <1>8. c \in Int /\ l \in Int
    BY <1>3, <1>5
  <1> HIDE DEF a, c, l
  <1>9. /\ pay = s.HasPaid + LockedPay(p) /\ LockedPay(p) >= 0
        /\ LockedPay(p) \in Int
    BY <1>1, <1>3, <1>6, <1>8
  <1>10. s.HasPaid <= pay /\ pay <= c
    BY <1>3, <1>6, <1>8, <1>9
  <1> QED
    BY <1>1, <1>3, <1>7, <1>10 DEF CanCalc

\* No repair is paid from a loss that has not been claimed.
LostInv == \A p \in Provider : se[p].LostPaid <= se[p].Lost

\* A claim only raises the loss, and a repair is checked against what is left.
LEMMA StepLost == TypeOK /\ LostInv /\ [Next]_vars => LostInv'
  <1> SUFFICES ASSUME TypeOK, LostInv, [Next]_vars, NEW p \in Provider
               PROVE  se'[p].LostPaid <= se'[p].Lost
    BY DEF LostInv
  <1> DEFINE Fine(s) == s.LostPaid <= s.Lost
  <1>1. \A q \in Provider : se[q] \in Settlement /\ Fine(se[q])
    BY StateTypes DEF LostInv
  <1>2. CASE se'[p] = se[p]
    BY <1>1, <1>2
  <1>3. CASE Quiet
    BY <1>2, <1>3, QuietStep
  <1>4. ASSUME NEW i \in Index, NEW v \in Nat,
               Recharge(i, v) \/ RechargeByAdmin(i, v) \/ Withdraw(i, v)
        PROVE  Fine(se'[p])
    BY <1>2, <1>4 DEF Recharge, RechargeByAdmin, Withdraw
  <1>5. ASSUME NEW q \in Provider, NEW o,
               \/ se' = [se EXCEPT ![q] = Add(@, o)]
               \/ se' = [se EXCEPT ![q] = End(@, o)]
        PROVE  Fine(se'[p])
    <2>1. \/ se'[p] = se[p]
          \/ se'[p] = Add(se[p], o)
          \/ se'[p] = End(se[p], o)
      BY <1>5, StateTypes
    <2>2. Fine(Add(se[p], o)) /\ Fine(End(se[p], o))
      <3>1. PICK s \in Settlement : s = se[p]
        BY <1>1
      <3>2. Add(s, o).Lost = s.Lost /\ Add(s, o).LostPaid = s.LostPaid
        BY AddFields
      <3>3. End(s, o).Lost = s.Lost /\ End(s, o).LostPaid = s.LostPaid
        BY EndFields
      <3> QED
        BY <1>1, <3>1, <3>2, <3>3
    <2> QED
      BY <1>1, <2>1, <2>2
  <1>6. ASSUME NEW k \in Callers, NEW u \in User, NEW q \in Provider,
               NEW n \in Nonces(u, q), AddOrder(k, u, q, n) \/ SubOrder(k, u, q, n)
        PROVE  Fine(se'[p])
    BY <1>5, <1>6 DEF AddOrder, SubOrder
  <1>7. ASSUME NEW k \in Callers, NEW a \in Provider, NEW q \in Provider,
               NEW n \in Nonces(Repair, q), AddRepair(k, a, q, n)
        PROVE  Fine(se'[p])
    <2>1. PICK o : o = Terms[Repair][q][n + 1]
      OBVIOUS
    <2>2. /\ n \in Nat /\ n + 1 \in DOMAIN Terms[Repair][q] /\ Repair \in Fs
          /\ se[a].Lost - se[a].LostPaid >= Pay(o)
      BY <1>7, <2>1, FsAssumption, Constants DEF Nonces, AddRepair, CanAdd
    <2>3. /\ o.start \in Nat /\ o.sprice \in Int /\ Pay(o) \in Int
          /\ Manage(o) \in Int
      BY <2>1, <2>2, TermsType
    <2>4. ASSUME NEW s \in Settlement, s.Lost = se[a].Lost,
                 s.LostPaid = se[a].LostPaid
          PROVE  Fine(RepairPaid(s, o))
      <3>1. /\ RepairPaid(s, o).Lost = s.Lost
            /\ RepairPaid(s, o).LostPaid = s.LostPaid + Pay(o)
        BY RepairPaidFields
      <3>2. s.Lost \in Nat /\ s.LostPaid \in Int
        BY SettlementFields
      <3> QED
        BY <2>2, <2>3, <2>4, <3>1, <3>2
    <2>5. CASE q \in proInfo
      <3>1. se' = [[se EXCEPT ![q] = Add(@, o)] EXCEPT ![a] = RepairPaid(@, o)]
        BY <1>7, <2>1, <2>5 DEF AddRepair
      <3>2. se'[p] = IF p = q
                     THEN IF q = a THEN RepairPaid(Add(se[q], o), o)
                          ELSE Add(se[q], o)
                     ELSE IF p = a THEN RepairPaid(se[a], o) ELSE se[p]
        BY <3>1, StateTypes
      <3>3. /\ Add(se[q], o) \in Settlement
            /\ Add(se[q], o).Lost = se[q].Lost
            /\ Add(se[q], o).LostPaid = se[q].LostPaid
        BY <1>1, <2>3, AddType, AddFields
      <3>4. Fine(RepairPaid(se[a], o)) /\ Fine(Add(se[q], o))
        BY <1>1, <2>4, <3>3
      <3>5. q = a => Fine(RepairPaid(Add(se[q], o), o))
        BY <2>4, <3>3
      <3> QED
        BY <1>1, <3>2, <3>4, <3>5
    <2>6. CASE q \notin proInfo
      <3>1. se' = [se EXCEPT ![a] = Add(newSettlement, o)]
        BY <1>7, <2>1, <2>6 DEF AddRepair
      <3>2. se'[p] = IF p = a THEN Add(newSettlement, o) ELSE se[p]
        BY <3>1, StateTypes
      <3>3. /\ Add(newSettlement, o).Lost = newSettlement.Lost
            /\ Add(newSettlement, o).LostPaid = newSettlement.LostPaid
        BY NewType, AddFields
      <3>4. newSettlement.Lost = 0 /\ newSettlement.LostPaid = 0
        BY DEF newSettlement
      <3>5. Fine(Add(newSettlement, o))
        BY <3>3, <3>4
      <3> QED
        BY <1>1, <3>2, <3>5
    <2> QED
      BY <2>5, <2>6
  <1>8. ASSUME NEW k \in Callers, NEW q \in Provider,
               NEW n \in Nonces(Repair, q), SubRepair(k, q, n)
        PROVE  Fine(se'[p])
    BY <1>2, <1>5, <1>8 DEF SubRepair
  <1>9. ASSUME NEW q \in Provider, NEW pay \in Nat, NEW lost \in Nat,
               ProWithdraw(q, pay, lost)
        PROVE  Fine(se'[p])
    <2>1. PICK s : s = Accrued(se[q], lost)
      OBVIOUS
    <2>2. /\ se[q].Lost <= lost
          /\ \/ se' = [se EXCEPT ![q] = s]
             \/ se' = [se EXCEPT ![q] = Paid(s, pay)]
      BY <1>9, <2>1 DEF ProWithdraw, CanCalc
    <2>3. s \in Settlement /\ s.Lost = lost /\ s.LostPaid = se[q].LostPaid
      <3>1. PICK r \in Settlement : r = se[q]
        BY <1>1
      <3>2. now \in Nat
        BY StateTypes
      <3>3. Accrued(r, lost) \in Settlement
        BY <3>2, AccruedType
      <3>4. Accrued(r, lost).Lost = lost /\ Accrued(r, lost).LostPaid = r.LostPaid
        BY AccruedFields
      <3> QED
        BY <2>1, <3>1, <3>3, <3>4
    <2>4. /\ Paid(s, pay).Lost = s.Lost
          /\ Paid(s, pay).LostPaid = s.LostPaid
      BY <2>3, PaidFields
    <2>5. Fine(s) /\ Fine(Paid(s, pay))
      <3>1. se[q].LostPaid \in Int /\ se[q].Lost \in Nat
        BY <1>1, SettlementFields
      <3> QED
        BY <1>1, <2>2, <2>3, <2>4, <3>1
    <2>6. se'[p] = se[p] \/ se'[p] = s \/ se'[p] = Paid(s, pay)
      BY <2>2, StateTypes
    <2> QED
      BY <1>1, <2>5, <2>6
  <1> QED
    BY <1>3, <1>4, <1>6, <1>7, <1>8, <1>9, NextCases

\* Whoever holds tokens is known to the token, and nobody has a balance before
\* the group has a keeper.
MoneyInv == /\ Entered(erc)
            /\ keepers = {} => \A i \in Index : balance[i] = 0

\* A group without keepers is not active: no call on its fs goes through.
LEMMA StepMoneyInv == TypeOK /\ MoneyInv /\ [Next]_vars => MoneyInv'
  <1> SUFFICES ASSUME TypeOK, MoneyInv, [Next]_vars PROVE MoneyInv'
    OBVIOUS
  <1>1. /\ erc \in Ledger /\ Entered(erc)
        /\ keepers = {} => \A i \in Index : balance[i] = 0
        /\ RoleMgr \in Address /\ FsAddr \in Address /\ Index \subseteq Address
    BY StateTypes, Constants DEF MoneyInv
  <1>2. Entered(erc) => Entered(erc)'
    <2> SUFFICES Entered(erc')
      BY DEF Entered
    <2>1. CASE erc' = erc
      BY <1>1, <2>1
    <2>2. ASSUME NEW i \in Index, NEW v \in Int,
                 \/ erc' = ErcApprove(erc, i, FsAddr, v)
                 \/ erc' = ErcTransfer(erc, FsAddr, i, v)
                 \/ erc' = ErcTransferFrom(erc, FsAddr, i, FsAddr, v)
          PROVE  Entered(erc')
      <3>1. i \in Address
        BY <1>1
      <3> QED
        BY <1>1, <2>2, <3>1, CallsEntered
    <2>3. CASE Quiet
      <3>1. ASSUME NEW a \in Payers, NEW v \in Money, ApproveFs(a, v)
            PROVE  Entered(erc')
        <4>1. a \in Index /\ v \in Int
          BY FsAssumption
        <4> QED
          BY <2>2, <3>1, <4>1 DEF ApproveFs
      <3> QED
        BY <2>1, <2>3, <3>1 DEF Quiet, Tick, AddKeeper, CreateFs, vars
    <2>4. ASSUME NEW i \in Index, NEW v \in Nat, Recharge(i, v)
          PROVE  Entered(erc')
      <3>1. v \in Int /\ erc' = ErcTransferFrom(erc, FsAddr, i, FsAddr, v)
        BY <2>4 DEF Recharge
      <3> QED
        BY <2>2, <3>1
    <2>5. ASSUME NEW i \in Index, NEW v \in Nat, RechargeByAdmin(i, v)
          PROVE  Entered(erc')
      <3> DEFINE led == ErcApprove(erc, RoleMgr, RoleMgr, v)
      <3>1. v \in Int /\ erc' = ErcTransferFrom(led, FsAddr, RoleMgr, FsAddr, v)
        BY <2>5 DEF RechargeByAdmin
      <3>2. Entered(led) /\ led \in Ledger
        BY <1>1, <3>1, CallsEntered, ApproveLedger
      <3> HIDE DEF led
      <3> QED
        BY <1>1, <3>1, <3>2, CallsEntered
    <2>6. ASSUME NEW k \in Callers, NEW u \in User, NEW p \in Provider,
                 NEW n \in Nonces(u, p),
                 AddOrder(k, u, p, n) \/ SubOrder(k, u, p, n)
          PROVE  Entered(erc')
      BY <2>1, <2>6 DEF AddOrder, SubOrder
    <2>7. ASSUME NEW k \in Callers, NEW p \in Provider, NEW q \in Provider,
                 NEW n \in Nonces(Repair, q),
                 AddRepair(k, p, q, n) \/ SubRepair(k, q, n)
          PROVE  Entered(erc')
      BY <2>1, <2>7 DEF AddRepair, SubRepair
    <2>8. ASSUME NEW p \in Provider, NEW pay \in Nat, NEW lost \in Nat,
                 ProWithdraw(p, pay, lost)
          PROVE  Entered(erc')
      <3>1. PICK money : money = balance[p] + pay - se[p].HasPaid
        OBVIOUS
      <3>2. erc' = erc \/ erc' = ErcTransfer(erc, FsAddr, p, money)
        <4>1. Accrued(se[p], lost).HasPaid = se[p].HasPaid
          BY StateTypes, AccruedFields
        <4> QED
          BY <2>8, <3>1, <4>1 DEF ProWithdraw
      <3>3. p \in Index /\ money \in Int
        BY <3>1, StateTypes, SettlementFields, Constants
      <3> QED
        BY <2>1, <2>2, <3>2, <3>3
    <2>9. ASSUME NEW i \in Index, NEW amount \in Nat, Withdraw(i, amount)
          PROVE  Entered(erc')
      <3>1. PICK money : money = IF amount = 0 \/ amount > Shared(i)[i]
                                 THEN Shared(i)[i] ELSE amount
        OBVIOUS
      <3>2. money \in Int
        BY <2>9, <3>1, WithdrawStep
      <3>3. erc' = ErcTransfer(erc, FsAddr, i, money)
        BY <2>9, <3>1 DEF Withdraw
      <3> QED
        BY <2>2, <3>2, <3>3
    <2> QED
      BY <2>3, <2>4, <2>5, <2>6, <2>7, <2>8, <2>9, NextCases
  <1>3. keepers \subseteq keepers' /\ (~Active => balance' = balance)
    <2>1. CASE Quiet
      <3>1. UNCHANGED balance
        BY <2>1, QuietStep
      <3> QED
        BY <2>1, <3>1 DEF Quiet, Tick, ApproveFs, AddKeeper, CreateFs, vars
    <2>2. ASSUME NEW i \in Index, NEW v \in Nat,
                 Recharge(i, v) \/ RechargeByAdmin(i, v) \/ Withdraw(i, v)
          PROVE  keepers' = keepers /\ Active
      BY <2>2 DEF Recharge, RechargeByAdmin, Withdraw
    <2>3. ASSUME NEW k \in Callers, NEW u \in User, NEW p \in Provider,
                 NEW n \in Nonces(u, p),
                 AddOrder(k, u, p, n) \/ SubOrder(k, u, p, n)
          PROVE  keepers' = keepers /\ Active
      BY <2>3 DEF AddOrder, SubOrder
    <2>4. ASSUME NEW k \in Callers, NEW p \in Provider, NEW q \in Provider,
                 NEW n \in Nonces(Repair, q),
                 AddRepair(k, p, q, n) \/ SubRepair(k, q, n)
          PROVE  keepers' = keepers /\ Active
      BY <2>4 DEF AddRepair, SubRepair
    <2>5. ASSUME NEW p \in Provider, NEW pay \in Nat, NEW lost \in Nat,
                 ProWithdraw(p, pay, lost)
          PROVE  keepers' = keepers /\ Active
      BY <2>5 DEF ProWithdraw
    <2>6. CASE keepers' = keepers /\ Active
      BY <2>6
    <2> QED
      BY <2>1, <2>2, <2>3, <2>4, <2>5, <2>6, NextCases
  <1>4. (keepers = {} => \A i \in Index : balance[i] = 0)'
    BY <1>1, <1>3 DEF Active
  <1> QED
    BY <1>1, <1>2, <1>4 DEF MoneyInv

\* What GetBalance shows to i in all, and what i can still get out of its
\* settlement, if it has one.
ShownTo(i) == Available(i) + (IF Locked(i) > 0 THEN Locked(i) ELSE 0)

Backing(i) == IF i \in Provider THEN EscrowOf(se[i]) ELSE 0

\* The states in which ShownIsPaid promises something.
Solvent == /\ \A p \in Provider : WithinMeans(se[p])
           /\ unbacked <= 0
           /\ NoNegativePrice

\* Where a settlement has paid no more than its quota, its escrow covers what is
\* shown as locked for it, whatever the accrual comes to: the quota caps it.
LEMMA LockedBacked ==
    ASSUME TypeOK, LostInv, NEW p \in Provider, WithinMeans(se[p])
    PROVE  /\ LockedPay(p) \in Int /\ EscrowOf(se[p]) \in Nat
           /\ LockedPay(p) <= EscrowOf(se[p])
  <1>1. PICK s \in Settlement : s = se[p]
    BY StateTypes
  <1>2. /\ s.Time \in Nat /\ s.Price \in Int /\ s.MaxPay \in Int
        /\ s.HasPaid \in Nat /\ s.CanPay \in Int /\ s.Lost \in Nat
        /\ s.LostPaid \in Int /\ s.ManagePay \in Int /\ s.EndPaid \in Int
        /\ s.LinearPaid \in Nat
    BY SettlementFields
  <1> DEFINE a == Span(s.Time, now) * s.Price
             c == s.CanPay + a
             l == s.MaxPay - s.Lost
             e == s.MaxPay - s.LostPaid + s.ManagePay
                    - s.HasPaid - s.LinearPaid - s.EndPaid
  <1>3. a \in Int
    <2>1. Span(s.Time, now) \in Int
      <3>1. now \in Nat
        BY StateTypes
      <3>2. Span(s.Time, now) \in Int
        <4>1. Span(s.Time, now) \in 0 .. Word - 1
          BY <1>2, <3>1, SpanType
        <4> QED
          BY <4>1, Constants
      <3> QED
        BY <3>2
    <2> QED
      BY <1>2, <2>1
  <1>4. c \in Int /\ l \in Int
    BY <1>2, <1>3
  <1>5. LockedPay(p) = (IF c > l THEN l ELSE c) - s.HasPaid
    BY <1>1 DEF LockedPay
  <1>6. EscrowOf(se[p]) = e
    BY <1>1 DEF EscrowOf
  <1>7. /\ s.LostPaid <= s.Lost
        /\ s.HasPaid + s.LostPaid <= s.MaxPay
        /\ s.EndPaid + s.LinearPaid <= s.ManagePay
    BY <1>1 DEF LostInv, WithinMeans
  <1>8. e \in Nat /\ l - s.HasPaid <= e
    BY <1>2, <1>7
  <1> HIDE DEF c, l, e
  <1>9. LockedPay(p) \in Int /\ LockedPay(p) <= l - s.HasPaid
    BY <1>2, <1>4, <1>5
  <1> QED
    BY <1>2, <1>4, <1>6, <1>8, <1>9

\* A share that is shown is one of those the pot is divided into.
LEMMA PendingType ==
    ASSUME TypeOK, SharesWithinPot, NoNegativePrice, NEW i
    PROVE  Pending(i) \in Nat
  BY SharesWithin DEF Pending

\* What is shown to i: its balance, its share and its escrow at most.
LEMMA ShownBacked ==
    ASSUME TypeOK, SharesWithinPot, LostInv, Solvent, NEW i \in Index
    PROVE  /\ Available(i) \in Nat /\ Available(i) <= ShownTo(i)
           /\ ShownTo(i) \in Nat /\ Backing(i) \in Nat
           /\ ShownTo(i) <= balance[i] + Pending(i) + Backing(i)
           /\ balance[i] \in Nat /\ Pending(i) \in Nat
           /\ i \in proInfo => balance[i] + LockedPay(i) <= ShownTo(i)
  <1>1. balance[i] \in Nat
    BY StateTypes DEF SharesWithinPot, Solvent
  <1>2. Pending(i) \in Nat
    BY PendingType DEF Solvent
  <1>3. Backing(i) \in Nat
    BY LockedBacked DEF Backing, Solvent
  <1> DEFINE early == now - lastTime < Period
             lock == IF i \in proInfo THEN LockedPay(i) ELSE 0
             late == IF early THEN 0 ELSE Pending(i)
             wait == IF early THEN Pending(i) ELSE 0
  <1>4. lock \in Int /\ lock <= Backing(i)
    <2>1. CASE i \in proInfo
      <3>1. i \in Provider
        BY <2>1, StateTypes
      <3> QED
        BY <2>1, <3>1, LockedBacked DEF Backing, Solvent
    <2> QED
      BY <1>3, <2>1
  <1>5. /\ Available(i) = balance[i] + late
        /\ Locked(i) = lock + wait
    <2>1. now \in Int /\ lastTime \in Int /\ Period \in Int
      BY StateTypes, FsAssumption
    <2>2. (now - lastTime >= Period) <=> ~early
      BY <2>1
    <2> QED
      BY <2>2 DEF Available, Locked
  <1>6. /\ late \in Nat /\ wait \in Nat
        /\ late + wait = Pending(i)
    BY <1>2
  <1> HIDE DEF early, lock, late, wait
  <1>7. ShownTo(i) = balance[i] + late
                       + (IF lock + wait > 0 THEN lock + wait ELSE 0)
    BY <1>5 DEF ShownTo
  <1>8. i \in proInfo => LockedPay(i) = lock
    BY DEF lock
  <1> QED
    BY ONLY <1>1, <1>2, <1>3, <1>4, <1>5, <1>6, <1>7, <1>8

\* Only the group's keepers have a share, and the shares are within the pot.
LEMMA PendingSum ==
    ASSUME TypeOK, SharesWithinPot, KeepersCount, NoNegativePrice
    PROVE  SumFunctionOnSet([i \in Index |-> Pending(i)], Index) <= tAcc
  <1> DEFINE g == [i \in Index |-> Pending(i)]
             h == [k \in keepers |-> Share(k)]
             S == Index
             T == keepers
  <1>1. IsFiniteSet(S) /\ T \in SUBSET S /\ IsFiniteSet(T)
    BY Constants, StateTypes, FS_Subset
  <1>2. \A i \in S : g[i] \in Int
    BY PendingType
  <1>3. \A i \in S \ T : g[i] = 0
    BY DEF Pending
  <1>4. 0 <= tAcc /\ tAcc \in Int
    BY StateTypes DEF SharesWithinPot
  <1>5. CASE keepers = {}
    <2>1. \A i \in S : g[i] = 0
      BY <1>3, <1>5
    <2> HIDE DEF g, S
    <2>2. SumFunctionOnSet(g, S) = 0
      BY <1>1, <2>1, SumZero
    <2> QED
      BY <1>4, <2>2 DEF g, S
  <1>6. CASE keepers # {}
    <2>1. totalCount > 0
      BY <1>6, CountPositive
    <2>2. \A k \in T : h[k] \in Int /\ g[k] = h[k]
      BY <1>1, <2>1, ShareType DEF Pending
    <2>3. SumFunctionOnSet(h, T) <= tAcc
      <3>1. Shares = SumFunctionOnSet(h, T)
        BY <2>1, ShareType
      <3>2. Shares <= tAcc
        BY <2>1, SharesWithin
      <3> QED
        BY <3>1, <3>2
    <2> HIDE DEF g, h, S, T
    <2>4. SumFunctionOnSet(g, T) = SumFunctionOnSet(h, T)
      BY <1>1, <2>2, SumSame
    <2>5. SumFunctionOnSet(g, S) = SumFunctionOnSet(g, T)
      BY <1>1, <1>2, <1>3, SumRestrict
    <2>6. SumFunctionOnSet(g, S) <= tAcc
      BY <2>3, <2>4, <2>5
    <2> QED
      BY <2>6 DEF g, S
  <1> QED
    BY <1>5, <1>6

\* Only providers have an escrow.
LEMMA BackingSum ==
    ASSUME TypeOK
    PROVE  SumFunctionOnSet([i \in Index |-> Backing(i)], Index) = Held(se)
  <1> DEFINE g == [i \in Index |-> Backing(i)]
             h == [p \in Provider |-> EscrowOf(se[p])]
             S == Index
             T == Provider
  <1>1. IsFiniteSet(S) /\ T \in SUBSET S /\ IsFiniteSet(T)
    BY Constants
  <1>2. \A p \in T : h[p] \in Int /\ g[p] = h[p]
    BY <1>1, StateTypes, EscrowType DEF Backing
  <1>3. /\ \A i \in S : g[i] \in Int
        /\ \A i \in S \ T : g[i] = 0
    <2>1. \A i \in S \ T : g[i] = 0
      BY DEF Backing
    <2> HIDE DEF g, h, S, T
    <2>2. \A i \in S : g[i] \in Int
      BY <1>2, <2>1
    <2> QED
      BY <2>1, <2>2
  <1>4. Held(se) = SumFunctionOnSet(h, T)
    BY DEF Held
  <1> HIDE DEF g, h, S, T
  <1>5. SumFunctionOnSet(g, T) = SumFunctionOnSet(h, T)
    BY <1>1, <1>2, SumSame
  <1>6. SumFunctionOnSet(g, S) = SumFunctionOnSet(g, T)
    BY <1>1, <1>3, SumRestrict
  <1>7. SumFunctionOnSet(g, S) = Held(se)
    BY <1>4, <1>5, <1>6
  <1> QED
    BY <1>7 DEF g, S

\* So the tokens cover all that is shown, and what is shown to each.
LEMMA ShownCovered ==
    ASSUME TypeOK, SharesWithinPot, KeepersCount, Books, LostInv, Solvent
    PROVE  /\ SumFunction([i \in Index |-> ShownTo(i)]) <= erc.money[FsAddr]
           /\ \A i \in Index : ShownTo(i) <= erc.money[FsAddr]
  <1> DEFINE f == [i \in Index |-> ShownTo(i)]
             b == balance
             q == [i \in Index |-> Pending(i)]
             e == [i \in Index |-> Backing(i)]
             d == [i \in Index |-> b[i] + q[i]]
             c == [i \in Index |-> d[i] + e[i]]
             S == Index
             Total(x) == SumFunctionOnSet(x, S)
             money == erc.money[FsAddr]
  <1>1. \A i \in S : /\ f[i] \in Nat /\ b[i] \in Int /\ q[i] \in Int
                      /\ e[i] \in Int /\ f[i] <= b[i] + q[i] + e[i]
    BY ShownBacked
  <1>2. /\ \A i \in S : d[i] = b[i] + q[i] /\ c[i] = d[i] + e[i]
        /\ IsFiniteSet(S) /\ DOMAIN f = S
    BY Constants
  <1>3. /\ Total(q) <= tAcc /\ Total(e) = Held(se)
        /\ Total(b) = Deposits(balance)
    BY PendingSum, BackingSum DEF Deposits, Solvent
  <1>4. money = Deposits(balance) + tAcc + Held(se) - unbacked
    BY DEF Books
  <1>5. /\ money \in Int /\ Deposits(balance) \in Int /\ tAcc \in Int
        /\ Held(se) \in Int /\ unbacked \in Int /\ unbacked <= 0
    <2>1. money \in Int
      BY StateTypes, Constants DEF Ledger
    <2> QED
      BY <2>1, StateTypes, DepositsType, HeldType DEF Solvent
  <1>6. SumFunction(f) = Total(f)
    BY <1>2 DEF SumFunction
  <1> HIDE DEF f, b, q, e, d, c, S, money
  <1>7. \A i \in S : d[i] \in Int /\ c[i] \in Int
    BY <1>1, <1>2
  <1>8. Total(d) = Total(b) + Total(q)
    BY <1>1, <1>2, <1>7, SumOfSums
  <1>9. Total(c) = Total(d) + Total(e)
    BY <1>1, <1>2, <1>7, SumOfSums
  <1>10. Total(f) <= Total(c)
    <2>1. \A i \in S : f[i] \in Int /\ c[i] \in Int /\ f[i] <= c[i]
      BY <1>1, <1>2, <1>7
    <2> QED
      BY <1>2, <2>1, SumAtMost
  <1>11. Total(q) \in Int /\ Total(f) \in Int
    BY <1>1, <1>2, SumType
  <1> HIDE DEF Total
  <1>12. Total(f) <= money
    BY <1>3, <1>4, <1>5, <1>8, <1>9, <1>10, <1>11
  <1>13. ASSUME NEW i \in S PROVE f[i] <= Total(f)
    <2>1. Total(f) = f[i] + SumFunctionOnSet(f, S \ {i})
      BY <1>1, <1>2, SumRemove DEF Total
    <2>2. SumFunctionOnSet(f, S \ {i}) \in Nat
      <3>1. IsFiniteSet(S \ {i})
        BY <1>2, FS_Subset
      <3> QED
        BY <1>1, <3>1, SumNat
    <2> QED
      BY <1>1, <2>1, <2>2
  <1>14. \A i \in S : f[i] <= money
    BY <1>1, <1>5, <1>11, <1>12, <1>13
  <1> QED
    BY <1>6, <1>12, <1>14 DEF f, S, money

\* The token moves what the contract has, if it has anything to move.
LEMMA Moves ==
    ASSUME TypeOK, MoneyInv, NEW v \in Nat, v <= erc.money[FsAddr], v > 0
    PROVE  ErcCanTransfer(erc, FsAddr, v)
  <1>1. FsAddr \in Address /\ erc.money[FsAddr] \in Int
    BY StateTypes, Constants DEF Ledger
  <1>2. FsAddr \in erc.holders
    BY <1>1 DEF MoneyInv, Entered
  <1> QED
    BY <1>2 DEF ErcCanTransfer

\* A withdrawal of what is available is paid, but for the share at exactly a
\* period.
LEMMA AvailablePaid ==
    ASSUME TypeOK, SharesWithinPot, KeepersCount, Books, LostInv, MoneyInv,
           Solvent, NEW i \in Index
    PROVE  Payable(i) = IF now - lastTime = Period THEN balance[i]
                        ELSE Available(i)
  <1> DEFINE v == Shared(i)[i]
  <1>1. /\ now \in Int /\ lastTime \in Int /\ Period \in Int
        /\ erc.money[FsAddr] \in Int
    BY StateTypes, Constants, FsAssumption DEF Ledger
  <1>2. /\ balance[i] \in Nat /\ Pending(i) \in Nat
        /\ Available(i) \in Nat /\ ShownTo(i) \in Nat
        /\ Available(i) <= ShownTo(i)
    BY ShownBacked
  <1>3. v = IF now - lastTime = Period THEN balance[i] ELSE Available(i)
    <2>1. CASE now - lastTime = Period
      BY <1>1, <2>1 DEF Shared, Due
    <2>2. CASE now - lastTime # Period
      BY <2>2, AvailableShared
    <2> QED
      BY <2>1, <2>2
  <1>4. Payable(i) = IF (Due(i) => totalCount > 0) /\ ErcCanTransfer(erc, FsAddr, v)
                     THEN v ELSE 0
    BY DEF Payable
  <1>5. balance[i] <= Available(i)
    BY <1>2 DEF Available
  <1> HIDE DEF v
  <1>6. v \in Nat /\ v <= erc.money[FsAddr]
    <2>1. ShownTo(i) <= erc.money[FsAddr]
      BY ShownCovered
    <2> QED
      BY <1>1, <1>2, <1>3, <1>5, <2>1
  <1>7. CASE v = 0
    BY <1>3, <1>4, <1>7
  <1>8. CASE v > 0
    <2>1. ErcCanTransfer(erc, FsAddr, v)
      BY <1>6, <1>8, Moves
    <2>2. keepers # {}
      <3>1. keepers = {} => Available(i) = 0
        BY StateTypes DEF MoneyInv, Available, Pending
      <3> QED
        BY <1>2, <1>3, <1>5, <1>8, <3>1
    <2>3. totalCount > 0
      BY <2>2, CountPositive
    <2> QED
      BY <1>3, <1>4, <2>1, <2>3
  <1> QED
    BY <1>6, <1>7, <1>8

\* A claim for what is locked is granted and paid.
LEMMA LockedPaid ==
    ASSUME TypeOK, SharesWithinPot, KeepersCount, Books, LostInv, MoneyInv,
           Solvent, NEW p \in proInfo, se[p].Time <= now, LockedPay(p) > 0
    PROVE  IsGranted(p, se[p].HasPaid + LockedPay(p))
  <1> DEFINE pay == se[p].HasPaid + LockedPay(p)
             money == balance[p] + pay - se[p].HasPaid
  <1>1. p \in Provider /\ p \in Index
    BY StateTypes, Constants
  <1>2. LockedPay(p) \in Int /\ se[p].HasPaid \in Nat /\ balance[p] \in Nat
    <2>1. se[p] \in Settlement
      BY <1>1, StateTypes
    <2> QED
      BY <1>1, <2>1, SettlementFields, LockedBacked, ShownBacked DEF Solvent
  <1>3. /\ CanCalc(se[p], pay, se[p].Lost)
        /\ pay <= Accrued(se[p], se[p].Lost).CanPay
    BY <1>1, <1>2, LockedGranted
  <1>4. money = balance[p] + LockedPay(p)
    BY <1>2
  <1>5. money \in Nat /\ money > 0 /\ money <= erc.money[FsAddr]
    <2>1. money <= ShownTo(p) /\ ShownTo(p) \in Nat
      BY <1>1, <1>4, ShownBacked
    <2>2. ShownTo(p) <= erc.money[FsAddr] /\ erc.money[FsAddr] \in Int
      BY <1>1, ShownCovered, StateTypes, Constants DEF Ledger
    <2>3. money \in Nat /\ money > 0
      BY <1>2, <1>4
    <2> HIDE DEF money
    <2> QED
      BY <2>1, <2>2, <2>3
  <1>6. ErcCanTransfer(erc, FsAddr, money)
    <2> HIDE DEF money
    <2> QED
      BY <1>5, Moves
  <1> QED
    BY <1>3, <1>6 DEF IsGranted

\* What GetBalance shows to all together is there in tokens: what is available
\* is paid to whoever withdraws it, without the share at exactly a period after
\* the last sharing, and a claim for what is locked is granted, except before the
\* start of an order.  This holds in every instance as long as the settlements stay
\* within their means, repairs promise no more than was there and no order has
\* a negative price.
THEOREM FsShownIsPaid == Spec => []ShownIsPaid
  <1> DEFINE Inv == /\ TypeOK /\ OrderInv /\ SharesWithinPot /\ KeepersCount
                    /\ Books /\ LostInv /\ MoneyInv
  <1>1. Init => Inv
    <2> SUFFICES ASSUME Init PROVE Inv
      OBVIOUS
    <2>1. TypeOK /\ OrderInv /\ SharesWithinPot /\ Books
      BY InitTypes, InitOrderInv, InitPot, InitBooks
    <2>2. KeepersCount
      BY DEF Init, KeepersCount
    <2>3. LostInv
      BY DEF Init, LostInv, newSettlement
    <2>4. MoneyInv
      <3>1. Entered(erc)
        BY LedgerOfEntered, FsAssumption DEF Init
      <3> QED
        BY <3>1 DEF Init, MoneyInv
    <2> QED
      BY <2>1, <2>2, <2>3, <2>4
  <1>2. Inv /\ [Next]_vars => Inv'
    BY StepTypes, StepOrderInv, StepPot, StepKeepersCount, StepBooks, StepLost,
       StepMoneyInv
  <1>3. Inv => ShownIsPaid
    <2> SUFFICES ASSUME Inv, Solvent
                 PROVE  /\ SumFunction([i \in Index |-> ShownTo(i)])
                              <= erc.money[FsAddr]
                        /\ \A i \in Index :
                              Payable(i) = IF now - lastTime = Period
                                           THEN balance[i] ELSE Available(i)
                        /\ \A p \in proInfo :
                              se[p].Time <= now /\ LockedPay(p) > 0
                                => IsGranted(p, se[p].HasPaid + LockedPay(p))
      BY DEF ShownIsPaid, ShownTo, Solvent
    <2> QED
      BY ShownCovered, AvailablePaid, LockedPaid
  <1> HIDE DEF Inv
  <1> QED
    BY <1>1, <1>2, <1>3, PTL DEF Spec

=============================================================================
