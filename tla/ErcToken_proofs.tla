-------------------------- MODULE ErcToken_proofs --------------------------
(***************************************************************************)
(* Proofs about ErcToken, for any finite set of addresses and any amounts, *)
(* lists and bounds: the types, that balances add up to the supply, that   *)
(* allowances are accounted, and by whose calls balances may drop.         *)
(*                                                                         *)
(* TypeOK, Conserved and AllowanceAccounted are inductive one after the    *)
(* other.  The one call that is not a single ledger operation is AirDrop,  *)
(* a fold over a list: it stays within every set of ledgers that transfers *)
(* of the admin do not leave (AirDropWithin), so it is enough to say of    *)
(* one transfer what the theorems say of an air drop.                      *)
(***************************************************************************)
EXTENDS ErcToken, ErcOps_proofs, Sums_proofs, TLAPS

\* An account without an entry holds nothing.
NoEntryNoMoney(l) == \A a \in Address \ l.holders : l.money[a] = 0

\* Moving tokens leaves the sum of the balances.
LEMMA MoveConserves ==
    ASSUME NEW l \in Ledger, NEW from \in Address, NEW to \in Address,
           NEW v \in Int
    PROVE  SumFunctionOnSet(Move(l, from, to, v).money, Address)
             = SumFunctionOnSet(l.money, Address)
  <1> DEFINE mid == Credit(l, from, -v)
             sum(led1) == SumFunctionOnSet(led1.money, Address)
  <1>1. IsFiniteSet(Address)
    BY ErcAssumption
  <1>2. -v \in Int
    OBVIOUS
  <1>3. /\ mid \in Ledger
        /\ mid.money = [x \in Address |-> IF x = from THEN l.money[x] + (-v)
                                          ELSE l.money[x]]
    BY <1>2, CreditLedger
  <1>4. /\ Credit(mid, to, v) \in Ledger
        /\ Credit(mid, to, v).money =
              [x \in Address |-> IF x = to THEN mid.money[x] + v
                                 ELSE mid.money[x]]
    BY ZenonT(30), <1>3, CreditLedger
  <1>5. /\ l.money \in [Address -> Int] /\ mid.money \in [Address -> Int]
        /\ Credit(mid, to, v).money \in [Address -> Int]
    BY <1>3, <1>4 DEF Ledger
  <1>6. sum(mid) = sum(l) + (mid.money[from] - l.money[from])
    <2> DEFINE g == l.money
               h == mid.money
    <2>1. /\ \A y \in Address : g[y] \in Int /\ h[y] \in Int
          /\ \A y \in Address \ {from} : h[y] = g[y]
      BY <1>3, <1>5
    <2> HIDE DEF g, h
    <2>2. SumFunctionOnSet(h, Address)
            = SumFunctionOnSet(g, Address) + (h[from] - g[from])
      BY <1>1, <2>1, SumUpdate
    <2> QED
      BY <2>2 DEF g, h
  <1>7. sum(Credit(mid, to, v))
          = sum(mid) + (Credit(mid, to, v).money[to] - mid.money[to])
    <2> DEFINE g == mid.money
               h == Credit(mid, to, v).money
    <2>1. /\ \A y \in Address : g[y] \in Int /\ h[y] \in Int
          /\ \A y \in Address \ {to} : h[y] = g[y]
      BY <1>4, <1>5
    <2> HIDE DEF g, h
    <2>2. SumFunctionOnSet(h, Address)
            = SumFunctionOnSet(g, Address) + (h[to] - g[to])
      BY <1>1, <2>1, SumUpdate
    <2> QED
      BY <2>2 DEF g, h
  <1>8. sum(l) \in Int
    BY <1>1, <1>5, SumType
  <1>9. /\ mid.money[from] - l.money[from] = -v
        /\ Credit(mid, to, v).money[to] - mid.money[to] = v
    BY <1>3, <1>4, <1>5
  <1> QED
    BY <1>6, <1>7, <1>8, <1>9 DEF Move

\* Moving tokens puts the receiver into the map, and takes nobody out.
LEMMA MoveHolders ==
    ASSUME NEW l \in Ledger, NEW from \in Address, from \in l.holders,
           NEW to \in Address, NEW v \in Int, NoEntryNoMoney(l)
    PROVE  NoEntryNoMoney(Move(l, from, to, v))
  <1>1. l.money \in [Address -> Int]
    BY DEF Ledger
  <1>2. \A x \in Address : Move(l, from, to, v).money[x] =
                l.money[x] + (IF x = to THEN v ELSE 0)
                           - (IF x = from THEN v ELSE 0)
    BY MoveLedger
  <1>3. Move(l, from, to, v).holders = l.holders \cup {from, to}
    BY DEF Move, Credit
  <1>4. ASSUME NEW x \in Address \ Move(l, from, to, v).holders
        PROVE  Move(l, from, to, v).money[x] = 0
    <2>1. x \in Address \ l.holders /\ x # from /\ x # to
      BY <1>3
    <2>2. l.money[x] = 0
      BY <2>1 DEF NoEntryNoMoney
    <2> QED
      BY <1>2, <2>1, <2>2
  <1> QED
    BY <1>4 DEF NoEntryNoMoney

\* What a transfer does to a ledger besides moving v.
LEMMA TransferConserves ==
    ASSUME NEW l \in Ledger, NEW from \in Address, NEW to \in Address,
           NEW v \in Int
    PROVE  /\ SumFunctionOnSet(ErcTransfer(l, from, to, v).money, Address)
                = SumFunctionOnSet(l.money, Address)
           /\ ErcTransfer(l, from, to, v).allowed = l.allowed
           /\ NoEntryNoMoney(l) => NoEntryNoMoney(ErcTransfer(l, from, to, v))
  <1>1. CASE ErcCanTransfer(l, from, v)
    <2>1. ErcTransfer(l, from, to, v) = Move(l, from, to, v)
      BY <1>1 DEF ErcTransfer
    <2>2. from \in l.holders
      BY <1>1 DEF ErcCanTransfer
    <2>3. Move(l, from, to, v).allowed = l.allowed
      BY MoveLedger
    <2> QED
      BY <2>1, <2>2, <2>3, MoveConserves, MoveHolders
  <1>2. CASE ~ErcCanTransfer(l, from, v)
    BY <1>2 DEF ErcTransfer
  <1> QED
    BY <1>1, <1>2

\* The greatest index of a set of indices is in the set.
LEMMA MaxIn ==
    ASSUME NEW n \in Nat, NEW s \in SUBSET (1 .. n), s # {}
    PROVE  Max(s) \in s
  <1> DEFINE turned == {n - i : i \in s}
  <1>1. turned \in SUBSET Nat /\ turned # {}
    <2>1. \A i \in s : n - i \in Nat
      OBVIOUS
    <2> QED
      BY <2>1
  <1>2. PICK m \in turned : \A k \in turned : m <= k
    <2> HIDE DEF turned
    <2> QED
      BY <1>1, LeastNatural
  <1>3. PICK i \in s : m = n - i
    OBVIOUS
  <1>4. \A j \in s : i >= j
    <2> TAKE j \in s
    <2>1. m <= n - j
      BY <1>2
    <2> QED
      BY <1>3, <2>1
  <1> QED
    BY <1>4 DEF Max

\* AirDrop's loop of transfers (erc20.go:211) ends in any set of ledgers that
\* it starts in and that no transfer of the admin leaves.
LEMMA AirDropWithin ==
    ASSUME NEW W, NEW l0 \in W, NEW addrs \in Seq(Address), NEW v,
           \A l \in W, a \in Address : ErcTransfer(l, admin, a, v) \in W
    PROVE  Dropped(l0, addrs, v) \in W
  <1> DEFINE D == DOMAIN addrs
             Eq(it, s) == IF s = {} THEN l0
                          ELSE ErcTransfer(it[s \ {Max(s)}], admin,
                                           addrs[Max(s)], v)
             iter == CHOOSE it : it = [s \in SUBSET D |-> Eq(it, s)]
             F == [i \in D |-> [l \in W |-> ErcTransfer(l, admin, addrs[i], v)]]
             p == [s \in SUBSET D |-> Max(s)]
  <1>1. Dropped(l0, addrs, v) = iter[D]
    BY DEF Dropped, FoldLeft, MapThenFoldSet
  <1>2. D = 1 .. Len(addrs) /\ Len(addrs) \in Nat
    OBVIOUS
  <1>3. IsFiniteSet(D)
    BY <1>2, FS_Interval
  <1>4. \A s \in SUBSET D : s # {} => Max(s) \in s
    BY <1>2, MaxIn
  <1>5. F \in [D -> [W -> W]]
    OBVIOUS
  <1>6. PICK h \in [SUBSET D -> W] : Folds(h, D, l0, F, p)
    <2>1. Chooses(p, D)
      BY <1>4 DEF Chooses
    <2> HIDE DEF D, F, p
    <2> QED
      BY <1>3, <1>5, <2>1, FoldExists
  <1>7. ASSUME NEW s \in SUBSET D PROVE h[s] = Eq(h, s)
    <2>1. CASE s = {}
      BY <1>6, <2>1 DEF Folds
    <2>2. CASE s # {}
      <3>1. Max(s) \in D /\ s \ {Max(s)} \in SUBSET D /\ p[s] = Max(s)
        BY <1>4, <2>2
      <3>2. h[s] = F[Max(s)][h[s \ {Max(s)}]]
        BY <1>6, <2>2, <3>1 DEF Folds
      <3>3. h[s \ {Max(s)}] \in W
        BY <3>1
      <3> QED
        BY <2>2, <3>1, <3>2, <3>3
    <2> QED
      BY <2>1, <2>2
  <1>8. iter = [s \in SUBSET D |-> Eq(iter, s)]
    <2>1. h = [s \in SUBSET D |-> Eq(h, s)]
      BY <1>7
    <2> QED
      BY <2>1
  <1> DEFINE bad == {s \in SUBSET D : iter[s] \notin W}
  <1>9. bad = {}
    <2> SUFFICES ASSUME bad # {} PROVE FALSE
      OBVIOUS
    <2>1. PICK s \in bad : \A r \in bad : ~(r \subseteq s /\ r # s)
      <3>1. bad \subseteq SUBSET D
        OBVIOUS
      <3> HIDE DEF bad, D
      <3> QED
        BY <1>3, <3>1, MinimalSubset
    <2> HIDE DEF iter
    <2>2. iter[s] = Eq(iter, s)
      BY <1>8
    <2>3. s # {}
      BY <2>2
    <2>4. Max(s) \in s /\ s \ {Max(s)} \notin bad
      BY <1>4, <2>1, <2>3
    <2>5. iter[s \ {Max(s)}] \in W /\ addrs[Max(s)] \in Address
      BY <2>4
    <2> QED
      BY <2>2, <2>3, <2>5
  <1> QED
    BY <1>1, <1>9

\* The ledgers AirDrop can end in: same sum, same allowances, nobody but the
\* admin has less, and the admin is not overdrawn further.
Outcomes ==
    {l \in Ledger :
        /\ SumFunctionOnSet(l.money, Address)
             = SumFunctionOnSet(led.money, Address)
        /\ l.allowed = led.allowed
        /\ NoEntryNoMoney(l)
        /\ \A a \in Address \ {admin} : l.money[a] >= led.money[a]
        /\ l.money[admin] >= led.money[admin] \/ l.money[admin] >= 0}

\* An air drop ends in one of them.
LEMMA AirDropOutcome ==
    ASSUME TypeOK, NEW l \in DropLists, NEW v \in Amounts, AirDrop(l, v)
    PROVE  led' \in Outcomes
  <1> USE ErcAssumption
  <1>1. led \in Outcomes
    BY DEF Outcomes, TypeOK, NoEntryNoMoney, Ledger
  <1>2. ASSUME NEW m \in Outcomes, NEW a \in Address
        PROVE  ErcTransfer(m, admin, a, v) \in Outcomes
    <2> DEFINE m1 == ErcTransfer(m, admin, a, v)
    <2>1. m \in Ledger /\ admin \in Address /\ v \in Int /\ NoEntryNoMoney(m)
      BY DEF Outcomes
    <2>2. /\ m1 \in Ledger
          /\ SumFunctionOnSet(m1.money, Address)
               = SumFunctionOnSet(led.money, Address)
          /\ m1.allowed = led.allowed
          /\ NoEntryNoMoney(m1)
      BY <2>1, TransferLedger, TransferConserves DEF Outcomes
    <2>3. \A x \in Address : m1.money[x] =
                IF ErcCanTransfer(m, admin, v)
                THEN m.money[x] + (IF x = a THEN v ELSE 0)
                                - (IF x = admin THEN v ELSE 0)
                ELSE m.money[x]
      BY <2>1, TransferLedger
    <2>4. /\ m.money \in [Address -> Int] /\ led.money \in [Address -> Int]
          /\ ErcCanTransfer(m, admin, v) => v >= 0 /\ m.money[admin] >= v
      BY <2>1 DEF ErcCanTransfer, Ledger, TypeOK
    <2> HIDE DEF m1
    <2>5. ASSUME NEW x \in Address \ {admin}
          PROVE  m1.money[x] >= led.money[x]
      <3>1. m.money[x] >= led.money[x]
        BY DEF Outcomes
      <3>2. m.money[x] \in Int /\ led.money[x] \in Int
        BY <2>4
      <3>3. CASE ErcCanTransfer(m, admin, v)
        <4>1. m1.money[x] = m.money[x] + (IF x = a THEN v ELSE 0)
                                       - (IF x = admin THEN v ELSE 0)
          BY <2>3, <3>3
        <4>2. v \in Int /\ v >= 0 /\ x # admin
          BY <2>1, <2>4, <3>3
        <4> QED
          BY <3>1, <3>2, <4>1, <4>2
      <3>4. CASE ~ErcCanTransfer(m, admin, v)
        BY <2>3, <3>1, <3>4
      <3> QED
        BY <3>3, <3>4
    <2>6. m1.money[admin] >= led.money[admin] \/ m1.money[admin] >= 0
      BY <2>1, <2>3, <2>4 DEF Outcomes
    <2>7. m1 \in Outcomes
      BY <2>2, <2>5, <2>6 DEF Outcomes
    <2> QED
      BY <2>7 DEF m1
  <1>3. l \in Seq(Address)
    OBVIOUS
  <1>4. Dropped(led, l, v) \in Outcomes
    <2> DEFINE W == Outcomes
    <2> HIDE DEF W
    <2>1. /\ led \in W
          /\ \A m \in W, a \in Address : ErcTransfer(m, admin, a, v) \in W
      BY <1>1, <1>2 DEF W
    <2>2. Dropped(led, l, v) \in W
      BY <1>3, <2>1, AirDropWithin
    <2> QED
      BY <2>2 DEF W
  <1> QED
    BY <1>4 DEF AirDrop

-----------------------------------------------------------------------------
\* What a change of one balance does to the sum.
LEMMA CreditSum ==
    ASSUME NEW l \in Ledger, NEW a \in Address, NEW v \in Int
    PROVE  /\ SumFunctionOnSet(l.money, Address) \in Int
           /\ SumFunctionOnSet(Credit(l, a, v).money, Address)
                = SumFunctionOnSet(l.money, Address) + v
  <1> DEFINE g == l.money
             h == Credit(l, a, v).money
  <1>1. IsFiniteSet(Address)
    BY ErcAssumption
  <1>2. /\ g \in [Address -> Int]
        /\ h = [x \in Address |-> IF x = a THEN g[x] + v ELSE g[x]]
    BY ZenonT(30), CreditLedger DEF Ledger
  <1>3. /\ \A y \in Address : g[y] \in Int /\ h[y] \in Int
        /\ \A y \in Address \ {a} : h[y] = g[y]
        /\ h[a] - g[a] = v
    BY <1>2
  <1> HIDE DEF g, h
  <1>4. SumFunctionOnSet(h, Address)
          = SumFunctionOnSet(g, Address) + (h[a] - g[a])
    <2>1. \A y \in Address : g[y] \in Int /\ h[y] \in Int
      BY <1>3
    <2>2. \A y \in Address \ {a} : h[y] = g[y]
      BY <1>3
    <2> QED
      BY ONLY <1>1, <2>1, <2>2, SumUpdate
  <1>5. SumFunctionOnSet(g, Address) \in Int
    BY <1>1, <1>3, SumType
  <1> QED
    BY <1>3, <1>4, <1>5 DEF g, h

\* The ledger of a new token (NewErcToken, erc20.go:40).
NewLedger == LedgerOf([a \in Address |-> IF a = admin THEN Supply ELSE 0])

\* It holds the supply, and the creator alone has an entry.
LEMMA NewLedgerSum ==
    /\ NewLedger \in Ledger
    /\ NoEntryNoMoney(NewLedger)
    /\ SumFunctionOnSet(NewLedger.money, Address) = Supply
    /\ \A p \in Address \X Address : NewLedger.allowed[p] = 0
  <1>0. IsFiniteSet(Address) /\ admin \in Address /\ Supply \in Int
    BY ErcAssumption
  <1> DEFINE g == [a \in Address |-> 0]
             h == [a \in Address |-> IF a = admin THEN Supply ELSE 0]
  <1>1. /\ NewLedger \in Ledger
        /\ NewLedger.money = h
        /\ NewLedger.allowed = [p \in Address \X Address |-> 0]
        /\ NoEntryNoMoney(NewLedger)
    BY <1>0 DEF NewLedger, LedgerOf, Ledger, NoEntryNoMoney
  <1>2. /\ \A y \in Address : g[y] \in Int /\ h[y] \in Int
        /\ \A y \in Address \ {admin} : h[y] = g[y]
        /\ h[admin] - g[admin] = Supply
    BY <1>0
  <1> HIDE DEF g, h
  <1>3. SumFunctionOnSet(h, Address)
          = SumFunctionOnSet(g, Address) + (h[admin] - g[admin])
    <2>1. /\ \A y \in Address : g[y] \in Int /\ h[y] \in Int
          /\ \A y \in Address \ {admin} : h[y] = g[y]
      BY <1>2
    <2> QED
      BY <1>0, <2>1, SumUpdate
  <1>4. SumFunctionOnSet(g, Address) = 0
    <2>1. \A y \in Address : g[y] = 0
      BY DEF g
    <2> QED
      BY <1>0, <2>1, SumZero
  <1> QED
    BY <1>0, <1>1, <1>2, <1>3, <1>4

\* What is inductive: types, the sum, and allowances for the pairs that use
\* them; an allowance that is not in the map is zero.
ErcInv == TypeOK /\ Conserved /\ AllowanceAccounted

-----------------------------------------------------------------------------
\* Conserved as a fact about the ledger.
LEMMA ConservedIs ==
    ASSUME TypeOK
    PROVE  SumFunction(led.money) = SumFunctionOnSet(led.money, Address)
  <1>1. DOMAIN led.money = Address
    BY DEF TypeOK, Ledger
  <1> QED
    BY <1>1 DEF SumFunction

\* The same of the next state.
LEMMA ConservedIsNext ==
    ASSUME TypeOK'
    PROVE  SumFunction(led'.money) = SumFunctionOnSet(led'.money, Address)
  <1>1. DOMAIN led'.money = Address
    BY DEF TypeOK, Ledger
  <1> QED
    BY <1>1 DEF SumFunction

\* A new token satisfies the invariant.
LEMMA NewInv ==
    ASSUME led = NewLedger, totalSupply = Supply,
           granted = NoPairs, spent = NoPairs
    PROVE  ErcInv
  <1> USE ErcAssumption
  <1>1. TypeOK
    BY NewLedgerSum DEF TypeOK, NoEntryNoMoney, NoPairs
  <1>2. Conserved
    BY <1>1, NewLedgerSum, ConservedIs DEF Conserved
  <1>3. AllowanceAccounted
    BY NewLedgerSum DEF AllowanceAccounted, NoPairs
  <1> QED
    BY <1>1, <1>2, <1>3 DEF ErcInv

\* The new contract's first state satisfies it.
LEMMA InitInv == Init => ErcInv
  BY NewInv DEF Init, NewLedger

\* What an action leaves when it changes the ledger and neither the supply nor
\* an allowance.
Quiet(l) ==
    /\ l \in Ledger
    /\ NoEntryNoMoney(l)
    /\ SumFunctionOnSet(l.money, Address)
         = SumFunctionOnSet(led.money, Address)
    /\ l.allowed = led.allowed

\* Such an action keeps the invariant.
LEMMA QuietInv ==
    ASSUME ErcInv, Quiet(led'), UNCHANGED <<totalSupply, granted, spent>>
    PROVE  ErcInv'
  <1>1. TypeOK'
    BY DEF ErcInv, TypeOK, Quiet, NoEntryNoMoney
  <1>2. Conserved'
    BY <1>1, ConservedIs, ConservedIsNext DEF ErcInv, Conserved, Quiet
  <1>3. AllowanceAccounted'
    BY DEF ErcInv, AllowanceAccounted, Quiet
  <1> QED
    BY <1>1, <1>2, <1>3 DEF ErcInv

\* A transfer keeps the invariant.
LEMMA TransferInv ==
    ASSUME ErcInv, NEW from \in Address, NEW to \in Address,
           NEW v \in Amounts, Transfer(from, to, v)
    PROVE  ErcInv'
  <1>1. led \in Ledger /\ NoEntryNoMoney(led) /\ v \in Int
    BY ErcAssumption DEF ErcInv, TypeOK, NoEntryNoMoney
  <1>2. Quiet(led')
    BY <1>1, TransferLedger, TransferConserves DEF Transfer, Quiet
  <1> QED
    BY <1>2, QuietInv DEF Transfer

\* An air drop does, wherever it stops.
LEMMA AirDropInv ==
    ASSUME ErcInv, NEW l \in DropLists, NEW v \in Amounts, AirDrop(l, v)
    PROVE  ErcInv'
  <1>1. led' \in Outcomes
    BY AirDropOutcome DEF ErcInv
  <1>2. Quiet(led')
    BY <1>1 DEF Outcomes, Quiet
  <1> QED
    BY <1>2, QuietInv DEF AirDrop

\* An approval adds v to what is granted and to what is left.
LEMMA ApproveInv ==
    ASSUME ErcInv, NEW owner \in Address, NEW spender \in Address,
           NEW v \in Amounts, Approve(owner, spender, v)
    PROVE  ErcInv'
  <1> DEFINE p == <<owner, spender>>
  <1>1. /\ led \in Ledger /\ v \in Int /\ v > 0 /\ p \in Address \X Address
        /\ granted \in [Address \X Address -> Nat]
    BY ErcAssumption DEF ErcInv, TypeOK, Approve
  <1>2. /\ led' \in Ledger
        /\ led'.money = led.money
        /\ led'.holders = led.holders
        /\ led'.allowed = [led.allowed EXCEPT ![p] = @ + v]
    <2>1. led' = Allow(led, owner, spender, v)
      BY <1>1 DEF Approve, ErcApprove
    <2>2. /\ led'.holders = led.holders
          /\ led'.allowed = [led.allowed EXCEPT ![p] = @ + v]
      BY <2>1 DEF Allow
    <2>3. led' \in Ledger /\ led'.money = led.money
      <3>1. /\ Allow(led, owner, spender, v) \in Ledger
            /\ Allow(led, owner, spender, v).money = led.money
        BY <1>1, AllowLedger
      <3> QED
        BY <2>1, <3>1
    <2> QED
      BY <2>2, <2>3
  <1>3. granted' = [granted EXCEPT ![p] = @ + v] /\ UNCHANGED <<totalSupply, spent>>
    BY DEF Approve
  <1> HIDE DEF p
  <1>4. TypeOK'
    <2>1. granted' \in [Address \X Address -> Nat]
      BY <1>1, <1>3
    <2> QED
      BY <1>2, <1>3, <2>1 DEF ErcInv, TypeOK
  <1>5. Conserved'
    BY <1>2, <1>3 DEF ErcInv, Conserved
  <1>6. ASSUME NEW q \in Pairs
        PROVE  led'.allowed[q] >= 0 /\ led'.allowed[q] + spent'[q] = granted'[q]
    <2>1. /\ q \in Address \X Address
          /\ led.allowed[q] \in Int /\ spent[q] \in Nat /\ granted[q] \in Nat
          /\ led.allowed \in [Address \X Address -> Int]
      BY ErcAssumption DEF ErcInv, TypeOK, Ledger
    <2>2. led.allowed[q] >= 0 /\ led.allowed[q] + spent[q] = granted[q]
      BY DEF ErcInv, AllowanceAccounted
    <2>3. CASE q = p
      BY <1>1, <1>2, <1>3, <2>1, <2>2, <2>3
    <2>4. CASE q # p
      BY <1>1, <1>2, <1>3, <2>1, <2>2, <2>4
    <2> QED
      BY <2>3, <2>4
  <1> QED
    BY <1>4, <1>5, <1>6 DEF ErcInv, AllowanceAccounted

\* What TransferFrom does when its guard holds: it moves v and uses up v of the
\* allowance of the caller.
LEMMA TransferFromDoes ==
    ASSUME TypeOK, NEW owner \in Address, NEW spender \in Address,
           NEW to \in Address, NEW v \in Amounts,
           TransferFrom(spender, owner, to, v)
    PROVE  /\ v \in Nat
           /\ led.money[owner] >= v
           /\ led.allowed[<<owner, spender>>] >= v
           /\ led' \in Ledger
           /\ led'.money = Move(led, owner, to, v).money
           /\ led'.holders = Move(led, owner, to, v).holders
           /\ led'.allowed = [led.allowed EXCEPT ![<<owner, spender>>] = @ - v]
  <1>1. led \in Ledger /\ v \in Int /\ -v \in Int
    BY ErcAssumption DEF TypeOK
  <1>2. /\ v >= 0 /\ led.money[owner] >= v
        /\ led.allowed[<<owner, spender>>] >= v
    BY DEF TransferFrom, ErcCanTransferFrom, ErcCanTransfer
  <1> DEFINE moved == Move(led, owner, to, v)
  <1>3. moved \in Ledger /\ moved.allowed = led.allowed
    <2>1. Move(led, owner, to, v) \in Ledger
      BY <1>1, MoveLedger
    <2>2. Move(led, owner, to, v).allowed = led.allowed
      BY <1>1, MoveLedger
    <2> QED
      BY <2>1, <2>2
  <1>4. led' = Allow(moved, owner, spender, -v)
    BY DEF TransferFrom, ErcTransferFrom
  <1> HIDE DEF moved
  <1>5. led' \in Ledger /\ led'.money = moved.money
    <2>1. /\ Allow(moved, owner, spender, -v) \in Ledger
          /\ Allow(moved, owner, spender, -v).money = moved.money
      BY <1>1, <1>3, AllowLedger
    <2> QED
      BY <1>4, <2>1
  <1>6. /\ led'.holders = moved.holders
        /\ led'.allowed = [led.allowed EXCEPT ![<<owner, spender>>] = @ + (-v)]
    BY <1>3, <1>4 DEF Allow
  <1>7. led'.allowed = [led.allowed EXCEPT ![<<owner, spender>>] = @ - v]
    <2>1. led.allowed[<<owner, spender>>] \in Int
      BY <1>1 DEF Ledger
    <2>2. led.allowed[<<owner, spender>>] + (-v)
            = led.allowed[<<owner, spender>>] - v
      BY <1>1, <2>1
    <2> QED
      BY <1>6, <2>2
  <1> QED
    BY <1>1, <1>2, <1>5, <1>6, <1>7 DEF moved

\* TransferFrom keeps the invariant: what is spent and what is left still add
\* up to what was granted.
LEMMA TransferFromInv ==
    ASSUME ErcInv, NEW owner \in Address, NEW spender \in Address,
           NEW to \in Address, NEW v \in Amounts,
           TransferFrom(spender, owner, to, v)
    PROVE  ErcInv'
  <1> DEFINE p == <<owner, spender>>
  <1>1. /\ TypeOK /\ led \in Ledger /\ NoEntryNoMoney(led)
        /\ p \in Address \X Address
        /\ spent \in [Address \X Address -> Nat]
        /\ totalSupply \in Int /\ granted \in [Address \X Address -> Nat]
    BY DEF ErcInv, TypeOK, NoEntryNoMoney
  <1>2. /\ v \in Nat /\ led.allowed[p] >= v /\ led' \in Ledger
        /\ led'.money = Move(led, owner, to, v).money
        /\ led'.holders = Move(led, owner, to, v).holders
        /\ led'.allowed = [led.allowed EXCEPT ![p] = @ - v]
    BY <1>1, TransferFromDoes
  <1>3. spent' = [spent EXCEPT ![p] = @ + v] /\ UNCHANGED <<totalSupply, granted>>
    BY DEF TransferFrom
  <1>4. owner \in led.holders
    BY DEF TransferFrom, ErcCanTransferFrom, ErcCanTransfer
  <1> HIDE DEF p
  <1>5. TypeOK'
    <2>1. NoEntryNoMoney(Move(led, owner, to, v))
      <3>1. v \in Int
        BY <1>2
      <3> QED
        BY <1>1, <1>4, <3>1, MoveHolders
    <2>2. spent' \in [Address \X Address -> Nat]
      BY <1>1, <1>2, <1>3
    <2>3. \A a \in Address \ led'.holders : led'.money[a] = 0
      BY <1>2, <2>1 DEF NoEntryNoMoney
    <2> QED
      BY <1>1, <1>2, <1>3, <2>2, <2>3 DEF TypeOK
  <1>6. Conserved'
    <2>1. SumFunctionOnSet(led'.money, Address)
            = SumFunctionOnSet(led.money, Address)
      BY <1>1, <1>2, MoveConserves
    <2> QED
      BY <1>1, <1>3, <1>5, <2>1, ConservedIs, ConservedIsNext
      DEF ErcInv, Conserved
  <1>7. ASSUME NEW q \in Pairs
        PROVE  led'.allowed[q] >= 0 /\ led'.allowed[q] + spent'[q] = granted'[q]
    <2>1. /\ q \in Address \X Address
          /\ led.allowed[q] \in Int /\ spent[q] \in Nat /\ granted[q] \in Nat
          /\ led.allowed \in [Address \X Address -> Int]
      BY <1>1, ErcAssumption DEF Ledger
    <2>2. led.allowed[q] >= 0 /\ led.allowed[q] + spent[q] = granted[q]
      BY DEF ErcInv, AllowanceAccounted
    <2>3. CASE q = p
      BY <1>1, <1>2, <1>3, <2>1, <2>2, <2>3
    <2>4. CASE q # p
      BY <1>1, <1>2, <1>3, <2>1, <2>2, <2>4
    <2> QED
      BY <2>3, <2>4
  <1> QED
    BY <1>5, <1>6, <1>7 DEF ErcInv, AllowanceAccounted

\* A mint or a burn changes one balance and the supply by the same amount.
LEMMA IssueInv ==
    ASSUME ErcInv, NEW a \in Address, NEW v \in Int,
           led' = Credit(led, a, v), totalSupply' = totalSupply + v,
           UNCHANGED <<granted, spent>>
    PROVE  ErcInv'
  <1>1. led \in Ledger /\ NoEntryNoMoney(led) /\ totalSupply \in Int
    BY DEF ErcInv, TypeOK, NoEntryNoMoney
  <1>2. /\ led' \in Ledger /\ led'.allowed = led.allowed
        /\ led'.money = [x \in Address |-> IF x = a THEN led.money[x] + v
                                           ELSE led.money[x]]
        /\ led'.holders = led.holders \cup {a}
    <2>1. led'.holders = led.holders \cup {a}
      BY DEF Credit
    <2> QED
      BY <1>1, <2>1, CreditLedger
  <1>3. TypeOK'
    BY <1>1, <1>2 DEF ErcInv, TypeOK, NoEntryNoMoney
  <1>4. SumFunctionOnSet(led'.money, Address)
          = SumFunctionOnSet(led.money, Address) + v
    BY <1>1, CreditSum
  <1>5. Conserved'
    BY <1>3, <1>4, ConservedIs, ConservedIsNext DEF ErcInv, Conserved
  <1>6. AllowanceAccounted'
    BY <1>2 DEF ErcInv, AllowanceAccounted
  <1> QED
    BY <1>3, <1>5, <1>6 DEF ErcInv

\* Every step keeps the invariant.
LEMMA StepInv == ErcInv /\ [Next]_vars => ErcInv'
  <1> SUFFICES ASSUME ErcInv, [Next]_vars PROVE ErcInv'
    OBVIOUS
  <1>1. ASSUME NEW a \in Address, NEW b \in Address, NEW v \in Amounts,
               Transfer(a, b, v)
        PROVE  ErcInv'
    BY <1>1, TransferInv
  <1>2. ASSUME NEW p \in Pairs, NEW v \in Amounts, Approve(p[1], p[2], v)
        PROVE  ErcInv'
    <2>1. p[1] \in Address /\ p[2] \in Address
      BY ErcAssumption
    <2> QED
      BY <1>2, <2>1, ApproveInv
  <1>3. ASSUME NEW p \in Pairs, NEW b \in Address, NEW v \in Amounts,
               TransferFrom(p[2], p[1], b, v)
        PROVE  ErcInv'
    <2>1. p[1] \in Address /\ p[2] \in Address
      BY ErcAssumption
    <2> QED
      BY <1>3, <2>1, TransferFromInv
  <1>4. ASSUME NEW a \in Address, NEW v \in Amounts, MintToken(a, v)
        PROVE  ErcInv'
    <2>1. v \in Int
      BY ErcAssumption
    <2> QED
      BY <1>4, <2>1, IssueInv DEF MintToken
  <1>5. ASSUME NEW v \in Amounts, Burn(v) PROVE ErcInv'
    <2>1. -v \in Int /\ admin \in Address
      BY ErcAssumption
    <2>2. totalSupply' = totalSupply + (-v)
      BY <1>5, ErcAssumption DEF Burn, ErcInv, TypeOK
    <2> QED
      BY <1>5, <2>1, <2>2, IssueInv DEF Burn
  <1>6. ASSUME NEW l \in DropLists, NEW v \in Amounts, AirDrop(l, v)
        PROVE  ErcInv'
    BY <1>6, AirDropInv
  <1>7. CASE NewErcToken
    <2>1. /\ led' = NewLedger /\ totalSupply' = Supply
          /\ granted' = NoPairs /\ spent' = NoPairs
      BY <1>7 DEF NewErcToken, NewLedger
    <2>2. ErcInv'
      <3>1. TypeOK'
        BY <2>1, ErcAssumption, NewLedgerSum DEF TypeOK, NoEntryNoMoney, NoPairs
      <3>2. Conserved'
        BY <2>1, <3>1, NewLedgerSum, ConservedIsNext DEF Conserved
      <3>3. AllowanceAccounted'
        BY <2>1, ErcAssumption, NewLedgerSum DEF AllowanceAccounted, NoPairs
      <3> QED
        BY <3>1, <3>2, <3>3 DEF ErcInv
    <2> QED
      BY <2>2
  <1>8. CASE UNCHANGED vars
    BY <1>8 DEF ErcInv, TypeOK, Conserved, AllowanceAccounted, vars
  <1> QED
    BY <1>1, <1>2, <1>3, <1>4, <1>5, <1>6, <1>7, <1>8 DEF Next

\* So every reachable state satisfies it.
LEMMA InvAlways == Spec => []ErcInv
  BY InitInv, StepInv, PTL DEF Spec

-----------------------------------------------------------------------------
\* Types hold in every state: an account without an entry holds nothing.
THEOREM ErcTypes == Spec => []TypeOK
  <1>1. ErcInv => TypeOK
    BY DEF ErcInv
  <1> QED
    BY <1>1, InvAlways, PTL

\* The balances always add up to the total supply, for any number of accounts
\* and whatever an air drop's list holds.
THEOREM ErcConserved == Spec => []Conserved
  <1>1. ErcInv => Conserved
    BY DEF ErcInv
  <1> QED
    BY <1>1, InvAlways, PTL

\* What a spender moved and what it may still move is what it was given.
THEOREM ErcAllowances == Spec => []AllowanceAccounted
  <1>1. ErcInv => AllowanceAccounted
    BY DEF ErcInv
  <1> QED
    BY <1>1, InvAlways, PTL

-----------------------------------------------------------------------------
\* The ways a balance may drop, of DropsByConsent.
Consented(a) ==
    \/ \E b \in Address, v \in Amounts : Transfer(a, b, v)
    \/ \E p \in Pairs : /\ p[1] = a
                        /\ led.allowed[p] - led'.allowed[p]
                             = led.money[a] - led'.money[a]
    \/ \E v \in Amounts : MintToken(a, v)
    \/ a = admin /\ \E v \in Amounts : Burn(v)
    \/ a = admin /\ \E l \in DropLists, v \in Amounts : AirDrop(l, v)
    \/ NewErcToken

\* What a step may take from account a, and that it does not overdraw it.
Fair(a) ==
    /\ led'.money[a] < led.money[a] => Consented(a)
    /\ led'.money[a] < 0 /\ led'.money[a] < led.money[a]
         => \E v \in Amounts : v < 0 /\ MintToken(a, v)

\* A transfer takes from its caller, what the caller has.
LEMMA TransferFair ==
    ASSUME ErcInv, NEW from \in Address, NEW to \in Address,
           NEW v \in Amounts, Transfer(from, to, v), NEW a \in Address
    PROVE  Fair(a)
  <1>1. led \in Ledger /\ v \in Int /\ led.money[a] \in Int
    BY ErcAssumption DEF ErcInv, TypeOK, Ledger
  <1>2. v >= 0 /\ led.money[from] >= v /\ ErcCanTransfer(led, from, v)
    BY DEF Transfer, ErcCanTransfer
  <1>3. led'.money[a] = led.money[a] + (IF a = to THEN v ELSE 0)
                                     - (IF a = from THEN v ELSE 0)
    BY <1>1, <1>2, TransferLedger DEF Transfer
  <1>4. CASE a = from
    <2>1. led'.money[a] >= 0
      BY <1>1, <1>2, <1>3, <1>4
    <2>2. Consented(a)
      BY <1>4 DEF Consented
    <2>3. ~(led'.money[a] < 0)
      BY <1>1, <1>3, <2>1
    <2> QED
      BY <2>2, <2>3 DEF Fair
  <1>5. CASE a # from
    <2>1. ~(led'.money[a] < led.money[a])
      BY <1>1, <1>2, <1>3, <1>5
    <2> QED
      BY <2>1 DEF Fair
  <1> QED
    BY <1>4, <1>5

\* TransferFrom takes from the owner what it takes off the allowance.
LEMMA TransferFromFair ==
    ASSUME ErcInv, NEW p \in Pairs, NEW to \in Address,
           NEW v \in Amounts, TransferFrom(p[2], p[1], to, v),
           NEW a \in Address
    PROVE  Fair(a)
  <1> DEFINE owner == p[1]
             spender == p[2]
  <1>1. /\ owner \in Address /\ spender \in Address /\ p = <<owner, spender>>
        /\ p \in Address \X Address
    BY ErcAssumption
  <1>2. TypeOK /\ led \in Ledger
    BY DEF ErcInv, TypeOK
  <1>3. led.money[a] \in Int /\ led.allowed[p] \in Int
    BY <1>1, <1>2 DEF Ledger
  <1>4. /\ v \in Nat /\ led.money[owner] >= v
        /\ led'.money = Move(led, owner, to, v).money
        /\ led'.allowed = [led.allowed EXCEPT ![p] = @ - v]
    <2> HIDE DEF owner, spender
    <2>1. TransferFrom(spender, owner, to, v)
      BY DEF owner, spender
    <2> QED
      BY <1>1, <1>2, <2>1, TransferFromDoes
  <1>5. led'.money[a] = led.money[a] + (IF a = to THEN v ELSE 0)
                                     - (IF a = owner THEN v ELSE 0)
    <2>1. v \in Int
      BY <1>4
    <2> HIDE DEF owner, spender
    <2>2. Move(led, owner, to, v).money[a] =
             led.money[a] + (IF a = to THEN v ELSE 0)
                          - (IF a = owner THEN v ELSE 0)
      BY <1>1, <1>2, <2>1, MoveLedger
    <2> QED
      BY <1>4, <2>2
  <1>6. led.allowed[p] - led'.allowed[p] = v
    <2>1. led.allowed \in [Address \X Address -> Int]
      BY <1>2 DEF Ledger
    <2>2. led'.allowed[p] = led.allowed[p] - v
      BY <1>1, <1>4, <2>1
    <2> QED
      BY <1>3, <1>4, <2>2
  <1> HIDE DEF owner, spender
  <1>7. CASE a = owner /\ to # owner
    <2>1. led.money[a] - led'.money[a] = v /\ led'.money[a] >= 0
      BY <1>3, <1>4, <1>5, <1>7
    <2>2. Consented(a)
      <3>1. p[1] = a
        BY <1>7 DEF owner
      <3> QED
        BY <1>6, <2>1, <3>1 DEF Consented
    <2>3. ~(led'.money[a] < 0)
      BY <1>3, <1>4, <1>5, <2>1
    <2> QED
      BY <2>2, <2>3 DEF Fair
  <1>8. CASE ~(a = owner /\ to # owner)
    <2>1. ~(led'.money[a] < led.money[a])
      BY <1>3, <1>4, <1>5, <1>8
    <2> QED
      BY <2>1 DEF Fair
  <1> QED
    BY <1>7, <1>8

\* A mint takes from its target alone, and only when it is negative.
LEMMA MintFair ==
    ASSUME ErcInv, NEW to \in Address, NEW v \in Amounts, MintToken(to, v),
           NEW a \in Address
    PROVE  Fair(a)
  <1>1. led \in Ledger /\ v \in Int /\ led.money[a] \in Int
    BY ErcAssumption DEF ErcInv, TypeOK, Ledger
  <1>2. led'.money[a] = IF a = to THEN led.money[a] + v ELSE led.money[a]
    <2>1. Credit(led, to, v).money =
             [x \in Address |-> IF x = to THEN led.money[x] + v
                                ELSE led.money[x]]
      BY <1>1, CreditLedger
    <2> QED
      BY <2>1 DEF MintToken
  <1>3. led'.money[a] < led.money[a] => v < 0
    BY <1>1, <1>2
  <1>4. CASE a = to
    BY <1>3, <1>4 DEF Fair, Consented
  <1>5. CASE a # to
    BY <1>1, <1>2, <1>5 DEF Fair
  <1> QED
    BY <1>4, <1>5

\* A burn takes from the admin, who has the amount.
LEMMA BurnFair ==
    ASSUME ErcInv, NEW v \in Amounts, Burn(v), NEW a \in Address
    PROVE  Fair(a)
  <1>1. /\ led \in Ledger /\ v \in Int /\ -v \in Int /\ admin \in Address
        /\ led.money[a] \in Int /\ led.money[admin] \in Int
    BY ErcAssumption DEF ErcInv, TypeOK, Ledger
  <1>2. led'.money[a] = IF a = admin THEN led.money[a] + (-v) ELSE led.money[a]
    <2>1. Credit(led, admin, -v).money =
             [x \in Address |-> IF x = admin THEN led.money[x] + (-v)
                                ELSE led.money[x]]
      BY <1>1, CreditLedger
    <2> QED
      BY <2>1 DEF Burn
  <1>3. led.money[admin] >= v
    BY DEF Burn
  <1>4. led'.money[a] < led.money[a] => a = admin /\ ~(led'.money[a] < 0)
    BY <1>1, <1>2, <1>3
  <1> QED
    BY <1>4 DEF Fair, Consented

\* An air drop takes from the admin, what the admin has.
LEMMA AirDropFair ==
    ASSUME ErcInv, NEW l \in DropLists, NEW v \in Amounts, AirDrop(l, v),
           NEW a \in Address
    PROVE  Fair(a)
  <1>1. led' \in Outcomes
    BY AirDropOutcome DEF ErcInv
  <1>2. led.money[a] \in Int /\ led'.money[a] \in Int
    BY <1>1 DEF Outcomes, ErcInv, TypeOK, Ledger
  <1>3. CASE a = admin
    <2>1. led'.money[a] < led.money[a] => ~(led'.money[a] < 0)
      <3>1. led'.money[a] >= led.money[a] \/ led'.money[a] >= 0
        BY <1>1, <1>3 DEF Outcomes
      <3> QED
        BY <1>2, <3>1
    <2> QED
      BY <1>3, <2>1 DEF Fair, Consented
  <1>4. CASE a # admin
    <2>1. led'.money[a] >= led.money[a]
      BY <1>1, <1>4 DEF Outcomes
    <2>2. ~(led'.money[a] < led.money[a])
      BY <1>2, <2>1
    <2> QED
      BY <2>2 DEF Fair
  <1> QED
    BY <1>3, <1>4

\* A new token overdraws nobody.
LEMMA NewFair ==
    ASSUME NewErcToken, NEW a \in Address
    PROVE  Fair(a)
  <1>1. led'.money[a] >= 0 /\ led'.money[a] \in Int
    BY ErcAssumption DEF NewErcToken, LedgerOf
  <1>2. ~(led'.money[a] < 0)
    BY <1>1
  <1> QED
    BY <1>2 DEF Fair, Consented

\* An approval moves no tokens.
LEMMA ApproveFair ==
    ASSUME ErcInv, NEW owner \in Address, NEW spender \in Address,
           NEW v \in Amounts, Approve(owner, spender, v), NEW a \in Address
    PROVE  Fair(a)
  <1>1. led \in Ledger /\ v \in Int /\ led.money[a] \in Int
    BY ErcAssumption DEF ErcInv, TypeOK, Ledger
  <1>2. led'.money = led.money
    BY <1>1, ApproveLedger DEF Approve
  <1>3. ~(led'.money[a] < led.money[a])
    BY <1>1, <1>2
  <1> QED
    BY <1>3 DEF Fair

\* Every step that changes the state is fair to every account.
LEMMA StepFair ==
    ASSUME ErcInv, Next, NEW a \in Address
    PROVE  Fair(a)
  <1>1. \A p \in Pairs : p[1] \in Address /\ p[2] \in Address
    BY ErcAssumption
  <1> QED
    BY <1>1, TransferFair, ApproveFair, TransferFromFair, MintFair, BurnFair,
       AirDropFair, NewFair DEF Next

\* Nobody's balance drops without consent.
THEOREM ErcDropsByConsent == Spec => DropsByConsent
  <1>1. ErcInv /\ [Next]_vars =>
          [\A a \in Address : led'.money[a] < led.money[a] => Consented(a)]_vars
    BY StepFair DEF Fair
  <1> QED
    BY <1>1, InvAlways, PTL DEF Spec, DropsByConsent, Consented

\* Only a negative mint can overdraw an account.
THEOREM ErcNoOverdraft == Spec => NoOverdraft
  <1>1. ErcInv /\ [Next]_vars =>
          [\A a \in Address : led'.money[a] < 0 /\ led'.money[a] < led.money[a]
              => \E v \in Amounts : v < 0 /\ MintToken(a, v)]_vars
    BY StepFair DEF Fair
  <1> QED
    BY <1>1, InvAlways, PTL DEF Spec, NoOverdraft
=============================================================================
