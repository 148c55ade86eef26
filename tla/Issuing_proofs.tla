--------------------------- MODULE Issuing_proofs ---------------------------
(***************************************************************************)
(* The sums of the role manager: the types of its state, the sums of the   *)
(* groups, and the issuing of the main token (module Issuance).            *)
(*                                                                         *)
(* Time is divided into days, and orders end at their boundaries.  A call  *)
(* moves the time issued up to by a day at most, so it crosses at most one *)
(* boundary, and exactly the orders that end there stop running.           *)
(***************************************************************************)
EXTENDS RoleMgr_proofs, ErcOps_proofs, Sums_proofs

-----------------------------------------------------------------------------
(***************************************************************************)
(* Days                                                                    *)
(***************************************************************************)
\* Division by the length of a day.
LEMMA DivBounds ==
    \A a \in Nat, d \in Nat \ {0} :
        /\ a \div d \in Nat
        /\ (a \div d) * d <= a
        /\ a < (a \div d) * d + d
  BY SMT

\* Multiples are in the order of their factors.
LEMMA TimesMono ==
    \A a \in Nat, b \in Nat, d \in Nat : a <= b => a * d <= b * d
  BY SMT

\* One day more.
LEMMA TimesNext == \A a \in Nat, d \in Nat : (a + 1) * d = a * d + d
  BY SMT

\* A product of naturals is a natural.
LEMMA TimesIsNat == \A a \in Nat, b \in Nat : a * b \in Nat
  BY SMT

\* A boundary lies after l and not after t exactly if l and t are on different
\* days and it is the last one before t, when they are a day apart at most.
LEMMA OneBoundary ==
    ASSUME NEW d \in Nat \ {0}, NEW l \in Nat, NEW t \in Nat, l <= t, t <= l + d,
           NEW k \in Nat, NEW q \in Nat, q = t \div d
    PROVE  /\ (l < k * d /\ k * d <= t) <=> (l \div d < q /\ k * d = q * d)
           /\ l \div d < q => l < q * d
           /\ q * d <= t
  <1>1. PICK p \in Nat : p = l \div d
    BY DivBounds
  <1>2. PICK e \in Nat : e = p * d
    BY TimesIsNat
  <1>3. PICK f \in Nat : f = q * d
    BY TimesIsNat
  <1>4. PICK g \in Nat : g = k * d
    BY TimesIsNat
  <1>5. /\ e <= l /\ l < e + d
        /\ f <= t /\ t < f + d
    BY <1>1, <1>2, <1>3, DivBounds
  <1>6. /\ (p + 1) * d = e + d /\ (q + 1) * d = f + d
        /\ (k + 1) * d = g + d /\ (p + 2) * d = e + 2 * d
    BY <1>2, <1>3, <1>4, SMT
  <1>7. p <= q
    <2>1. CASE q + 1 <= p
      <3>1. (q + 1) * d <= p * d
        BY <2>1, TimesMono
      <3> QED
        BY <3>1, <1>2, <1>5, <1>6
    <2> QED
      BY <2>1
  <1>8. q <= p + 1
    <2>1. CASE p + 2 <= q
      <3>1. (p + 2) * d <= q * d
        BY <2>1, TimesMono
      <3> QED
        BY <3>1, <1>3, <1>5, <1>6
    <2> QED
      BY <2>1
  <1>9. p < q => l < f
    <2>1. CASE p < q
      <3>1. (p + 1) * d <= q * d
        BY <2>1, TimesMono
      <3> QED
        BY <3>1, <1>3, <1>5, <1>6
    <2> QED
      BY <2>1
  <1>10. ASSUME l < g, g <= t PROVE p < q /\ g = f
    <2>1. k <= q
      <3>1. CASE q + 1 <= k
        <4>1. (q + 1) * d <= k * d
          BY <3>1, TimesMono
        <4> QED
          BY <4>1, <1>4, <1>5, <1>6, <1>10
      <3> QED
        BY <3>1
    <2>2. p < k
      <3>1. CASE k <= p
        <4>1. k * d <= p * d
          BY <3>1, TimesMono
        <4> QED
          BY <4>1, <1>2, <1>4, <1>5, <1>10
      <3> QED
        BY <3>1
    <2>3. k = q /\ p < q
      BY <1>8, <2>1, <2>2
    <2> QED
      BY <2>3, <1>3, <1>4
  <1>11. (l < g /\ g <= t) <=> (p < q /\ g = f)
    BY <1>5, <1>9, <1>10
  <1> QED
    BY <1>1, <1>3, <1>4, <1>5, <1>9, <1>11

\* The constants of issuing.
LEMMA IssuingConstants ==
    /\ Day \in Nat \ {0} /\ Days \in Nat /\ MaxTime \in Nat
    /\ MaxTime < Days * Day + Day
    /\ Boundaries \subseteq Nat /\ IsFiniteSet(Account) /\ NGroup \in Nat
  <1>1. Day \in Nat \ {0} /\ Days \in Nat
    BY IssuanceAssumption
  <1>2. MaxTime \in 0 .. (Days + 1) * Day - 1
    BY RoleAssumption
  <1>3. (Days + 1) * Day = Days * Day + Day
    BY <1>1, TimesNext
  <1>4. Days * Day \in Nat
    BY <1>1, TimesIsNat
  <1>5. MaxTime \in Nat /\ MaxTime < Days * Day + Day
    <2> DEFINE x == Days * Day
               y == (Days + 1) * Day
    <2>1. x \in Nat /\ y = x + Day /\ MaxTime \in 0 .. y - 1
      BY <1>2, <1>3, <1>4
    <2> HIDE DEF x, y
    <2> QED
      BY <1>1, <2>1 DEF x
  <1>6. Boundaries \subseteq Nat
    BY <1>1, TimesIsNat DEF Boundaries
  <1> QED
    BY <1>1, <1>5, <1>6, RoleAssumption

\* The last boundary before a time the clock can show.
LEMMA BoundaryType ==
    ASSUME NEW t \in Nat, t <= MaxTime
    PROVE  LastBoundary(t) \in Boundaries /\ LastBoundary(t) \in Nat
  <1>1. PICK q \in Nat : q = t \div Day
    BY IssuingConstants, DivBounds
  <1>2. q * Day <= t
    BY <1>1, IssuingConstants, DivBounds
  <1>3. q <= Days
    <2>1. CASE Days + 1 <= q
      <3>1. (Days + 1) * Day <= q * Day
        BY <2>1, IssuingConstants, TimesMono
      <3>2. (Days + 1) * Day = Days * Day + Day
        BY IssuingConstants, TimesNext
      <3> DEFINE x == Days * Day
                 y == q * Day
      <3>3. x \in Nat /\ y \in Nat
        BY IssuingConstants, TimesIsNat
      <3>4. x + Day <= y /\ y <= t
        BY <1>2, <3>1, <3>2
      <3>5. MaxTime < x + Day
        BY IssuingConstants
      <3> HIDE DEF x, y
      <3> QED
        BY <3>3, <3>4, <3>5, IssuingConstants
    <2> QED
      BY <2>1, IssuingConstants
  <1> QED
    BY <1>1, <1>3, IssuingConstants DEF LastBoundary, Boundaries

\* An order's end is crossed exactly if it is the boundary just crossed.
LEMMA CrossedBoundary ==
    ASSUME NEW l \in Nat, NEW t \in Nat, l <= t, t <= l + Day,
           NEW m, m.lastMint = l
    PROVE  /\ \A b \in Boundaries :
                 (l < b /\ b <= t) <=> (Crosses(m, t) /\ b = LastBoundary(t))
           /\ Crosses(m, t) => l < LastBoundary(t)
           /\ LastBoundary(t) <= t
  <1>1. PICK q \in Nat : q = t \div Day
    BY IssuingConstants, DivBounds
  <1>2. LastBoundary(t) = q * Day /\ (Crosses(m, t) <=> l \div Day < q)
    BY <1>1 DEF LastBoundary, Crosses
  <1>3. /\ Crosses(m, t) => l < LastBoundary(t)
        /\ LastBoundary(t) <= t
    <2>1. /\ (l \div Day < q) => l < q * Day
          /\ q * Day <= t
      BY ONLY <1>1, IssuingConstants, OneBoundary
    <2> QED
      BY <1>2, <2>1
  <1>4. ASSUME NEW b \in Boundaries
        PROVE  (l < b /\ b <= t) <=> (Crosses(m, t) /\ b = LastBoundary(t))
    <2>1. PICK k \in Nat : b = k * Day
      BY IssuingConstants DEF Boundaries
    <2>2. (l < k * Day /\ k * Day <= t) <=> (l \div Day < q /\ k * Day = q * Day)
      BY ZenonT(30), <1>1, IssuingConstants, OneBoundary
    <2> QED
      BY <1>2, <2>1, <2>2
  <1> QED
    BY <1>3, <1>4

\* One call moves the time issued up to towards the clock, by a day at most.
LEMMA CatchUpType ==
    ASSUME NEW m \in Mint, NEW n \in Nat, m.lastMint <= n, NEW t, t = CatchUp(m, n)
    PROVE  /\ t \in Nat /\ m.lastMint <= t /\ t <= n /\ t <= m.lastMint + Day
           /\ m.lastMint \in Nat
  <1>1. m.lastMint \in Nat
    BY DEF Mint
  <1> QED
    BY <1>1, IssuingConstants DEF CatchUp

-----------------------------------------------------------------------------
(***************************************************************************)
(* The sums for issuing                                                    *)
(***************************************************************************)
\* Fields of the sums.
LEMMA MintFields ==
    ASSUME NEW m \in Mint
    PROVE  /\ m.size \in Int /\ m.price \in Int /\ m.spaceTime \in Int
           /\ m.mintLevel \in Nat /\ m.lastMint \in Nat /\ m.totalPaid \in Int
           /\ m.totalPay \in Int
           /\ m.subPMap \in [Boundaries -> Int]
           /\ m.subSMap \in [Boundaries -> Int]
  BY DEF Mint

\* Fields of an order's terms.
LEMMA OrderFields ==
    ASSUME NEW o \in Order
    PROVE  /\ o.start \in Nat /\ o.end \in Boundaries /\ o.end \in Nat
           /\ o.size \in Nat \ {0} /\ o.sprice \in Int /\ o.token \in Nat
  BY IssuingConstants DEF Order

\* Scheduling the end of an order.
LEMMA ScheduledFields ==
    ASSUME NEW m \in Mint, NEW o \in Order, NEW s, s = Scheduled(m, o)
    PROVE  /\ s \in Mint
           /\ s.size = m.size /\ s.price = m.price /\ s.lastMint = m.lastMint
           /\ s.spaceTime = m.spaceTime /\ s.mintLevel = m.mintLevel
           /\ s.totalPaid = m.totalPaid /\ s.totalPay = m.totalPay
           /\ s.subPMap = [m.subPMap EXCEPT ![o.end] = @ + o.sprice]
           /\ s.subSMap = [m.subSMap EXCEPT ![o.end] = @ + o.size]
  <1> DEFINE f == [m.subPMap EXCEPT ![o.end] = @ + o.sprice]
             h == [m.subSMap EXCEPT ![o.end] = @ + o.size]
  <1>1. f \in [Boundaries -> Int] /\ h \in [Boundaries -> Int]
    BY MintFields, OrderFields
  <1>2. s = [m EXCEPT !.subPMap = f, !.subSMap = h]
    BY DEF Scheduled
  <1> HIDE DEF f, h
  <1>3. /\ s \in Mint
        /\ s.size = m.size /\ s.price = m.price /\ s.lastMint = m.lastMint
        /\ s.spaceTime = m.spaceTime /\ s.mintLevel = m.mintLevel
        /\ s.totalPaid = m.totalPaid /\ s.totalPay = m.totalPay
        /\ s.subPMap = f /\ s.subSMap = h
    BY <1>1, <1>2 DEF Mint
  <1> QED
    BY <1>3 DEF f, h

\* Taking off what has ended at the boundary crossed.
LEMMA ExpiredFields ==
    ASSUME NEW s \in Mint, NEW t \in Nat, t <= MaxTime,
           NEW e, e = Expired(s, t)
    PROVE  /\ e \in Mint
           /\ e.size = s.size - (IF Crosses(s, t)
                                 THEN s.subSMap[LastBoundary(t)] ELSE 0)
           /\ e.price = s.price - (IF Crosses(s, t)
                                   THEN s.subPMap[LastBoundary(t)] ELSE 0)
           /\ e.lastMint = s.lastMint
           /\ e.spaceTime = s.spaceTime /\ e.mintLevel = s.mintLevel
           /\ e.totalPaid = s.totalPaid /\ e.totalPay = s.totalPay
           /\ e.subPMap = s.subPMap /\ e.subSMap = s.subSMap
  <1> DEFINE x == s.subPMap[LastBoundary(t)]
             y == s.subSMap[LastBoundary(t)]
  <1>1. x \in Int /\ y \in Int
    BY MintFields, BoundaryType
  <1>2. CASE Crosses(s, t)
    <2> DEFINE p == s.price - x
               z == s.size - y
    <2>1. e = [s EXCEPT !.price = p, !.size = z]
      BY <1>2 DEF Expired
    <2>2. p \in Int /\ z \in Int
      BY <1>1, MintFields
    <2> HIDE DEF p, z
    <2>3. /\ e \in Mint
          /\ e.size = z /\ e.price = p /\ e.lastMint = s.lastMint
          /\ e.spaceTime = s.spaceTime /\ e.mintLevel = s.mintLevel
          /\ e.totalPaid = s.totalPaid /\ e.totalPay = s.totalPay
          /\ e.subPMap = s.subPMap /\ e.subSMap = s.subSMap
      BY <2>1, <2>2 DEF Mint
    <2> QED
      BY <1>2, <2>3 DEF p, z
  <1>3. CASE ~Crosses(s, t)
    <2>1. e = s
      BY <1>3 DEF Expired
    <2>2. s.size = s.size - 0 /\ s.price = s.price - 0
      BY MintFields
    <2> QED
      BY <1>3, <2>1, <2>2
  <1> QED
    BY <1>2, <1>3

\* An order joins the running ones.
LEMMA JoinedFields ==
    ASSUME NEW e \in Mint, NEW o \in Order, NEW j, j = Joined(e, o)
    PROVE  /\ j \in Mint
           /\ j.size = e.size + o.size /\ j.price = e.price + o.sprice
           /\ j.lastMint = e.lastMint /\ j.mintLevel = e.mintLevel
           /\ j.spaceTime = e.spaceTime + SpaceTime(o)
           /\ j.totalPaid = e.totalPaid /\ j.totalPay = e.totalPay + Pay(o)
           /\ j.subPMap = e.subPMap /\ j.subSMap = e.subSMap
           /\ SpaceTime(o) \in Int /\ Pay(o) \in Int
  <1> DEFINE x == SpaceTime(o)
             y == Pay(o)
  <1>1. x \in Int /\ y \in Int
    <2>1. o.end - o.start \in Int /\ o.size \in Int /\ o.sprice \in Int
      BY OrderFields
    <2> QED
      BY <2>1 DEF SpaceTime, Pay
  <1> DEFINE st == e.spaceTime + x
             tp == e.totalPay + y
             sz == e.size + o.size
             pr == e.price + o.sprice
  <1>2. j = [e EXCEPT !.spaceTime = st, !.totalPay = tp, !.size = sz,
                      !.price = pr]
    BY DEF Joined
  <1>3. st \in Int /\ tp \in Int /\ sz \in Int /\ pr \in Int
    BY <1>1, OrderFields, MintFields
  <1> HIDE DEF st, tp, sz, pr
  <1>4. /\ j \in Mint
        /\ j.size = sz /\ j.price = pr
        /\ j.lastMint = e.lastMint /\ j.mintLevel = e.mintLevel
        /\ j.spaceTime = st
        /\ j.totalPaid = e.totalPaid /\ j.totalPay = tp
        /\ j.subPMap = e.subPMap /\ j.subSMap = e.subSMap
    BY <1>2, <1>3 DEF Mint
  <1> QED
    BY <1>1, <1>4 DEF st, tp, sz, pr

\* What has accrued is an amount.
LEMMA AccruedType ==
    ASSUME NEW s \in Mint, NEW t \in Nat, t <= MaxTime
    PROVE  Accrued(s, t) \in Int
  <1> DEFINE x == s.subPMap[LastBoundary(t)]
             b == LastBoundary(t)
  <1>1. x \in Int /\ b \in Nat /\ s.price \in Int /\ s.lastMint \in Nat
    BY MintFields, BoundaryType
  <1>2. Accrued(s, t) = s.price * (t - s.lastMint)
                          - (IF Crosses(s, t) THEN x * (t - b) ELSE 0)
    BY DEF Accrued
  <1> HIDE DEF x, b
  <1> QED
    BY <1>1, <1>2

-----------------------------------------------------------------------------
(***************************************************************************)
(* The levels                                                              *)
(***************************************************************************)
\* The recursion over the levels, as Climbed defines it.
ClimbStep(m, f, c) ==
    IF c.next >= Len(Levels) THEN c
    ELSE LET lasting == c.spaceTime \div LevelSize(m, c.next)
         IN  IF Lasts(c.next, lasting)
             THEN f[[next |-> c.next + 1, spaceTime |-> lasting]]
             ELSE [next |-> c.next, spaceTime |-> lasting]
ClimbIter(m) == CHOOSE f : f = [c \in Climbing |-> ClimbStep(m, f, c)]
Climb(m)     == ClimbIter(m)[[next |-> m.mintLevel + 1, spaceTime |-> m.spaceTime]]

\* Climbed changes the level and the sum to where the recursion ends.
LEMMA ClimbedIs ==
    ASSUME NEW m
    PROVE  Climbed(m) = [m EXCEPT !.mintLevel = Climb(m).next - 1,
                                  !.spaceTime = Climb(m).spaceTime]
  BY DEF Climbed, Climb, ClimbIter, ClimbStep

\* The levels that are looked at have a size to divide by.
LEMMA LevelType ==
    ASSUME NEW m \in Mint, NEW i \in Nat, i < Len(Levels)
    PROVE  /\ Levels[i + 1] \in Level /\ i + 1 \in DOMAIN Levels
           /\ Levels[i + 1].Ratio \in Nat /\ Levels[i + 1].Size \in Nat \ {0}
           /\ Levels[i + 1].Duration \in Nat
           /\ LevelSize(m, i) \in Nat \ {0}
           /\ Levels[i + 1].Size <= LevelSize(m, i)
  <1>1. Levels \in Seq(Level)
    BY IssuanceAssumption
  <1>2. Len(Levels) \in Nat /\ i + 1 \in DOMAIN Levels /\ Levels[i + 1] \in Level
    BY <1>1
  <1>3. /\ Levels[i + 1].Ratio \in Nat /\ Levels[i + 1].Size \in Nat \ {0}
        /\ Levels[i + 1].Duration \in Nat
    BY <1>2 DEF Level
  <1>4. m.size \in Int
    BY MintFields
  <1> QED
    BY <1>2, <1>3, <1>4 DEF LevelSize

\* Division by a size.
LEMMA DivType == \A a \in Int, b \in Nat \ {0} : a \div b \in Int
  BY SMT

\* The recursion ends at the last level, so it is defined.
LEMMA ClimbExists ==
    ASSUME NEW m \in Mint
    PROVE  \E f \in [Climbing -> Climbing] :
              \A c \in Climbing : f[c] = ClimbStep(m, f, c)
  <1> DEFINE L == Len(Levels)
             Upto(f, n) == \A c \in Climbing :
                              c.next + n >= L => f[c] = ClimbStep(m, f, c)
             Good(n) == \E f \in [Climbing -> Climbing] : Upto(f, n)
             bad == {n \in Nat : ~Good(n)}
  <1>1. L \in Nat
    BY IssuanceAssumption
  <1>2. ASSUME NEW c \in Climbing, c.next < L,
               NEW q, q = c.spaceTime \div LevelSize(m, c.next)
        PROVE  /\ q \in Int /\ c.next \in Nat
               /\ [next |-> c.next + 1, spaceTime |-> q] \in Climbing
               /\ [next |-> c.next, spaceTime |-> q] \in Climbing
    <2>1. c.next \in Nat /\ c.spaceTime \in Int
      BY DEF Climbing
    <2>2. LevelSize(m, c.next) \in Nat \ {0}
      BY <1>2, <2>1, LevelType
    <2>3. q \in Int
      BY <1>2, <2>1, <2>2, DivType
    <2> QED
      BY <2>1, <2>3 DEF Climbing
  <1>3. ASSUME NEW f \in [Climbing -> Climbing], NEW c \in Climbing
        PROVE  ClimbStep(m, f, c) \in Climbing
    <2>1. CASE c.next >= L
      BY <2>1 DEF ClimbStep
    <2>2. CASE c.next < L
      <3>1. PICK q : q = c.spaceTime \div LevelSize(m, c.next)
        OBVIOUS
      <3>2. /\ [next |-> c.next + 1, spaceTime |-> q] \in Climbing
            /\ [next |-> c.next, spaceTime |-> q] \in Climbing
            /\ c.next \in Nat
        BY <1>2, <2>2, <3>1
      <3>3. ClimbStep(m, f, c) = IF Lasts(c.next, q)
                                 THEN f[[next |-> c.next + 1, spaceTime |-> q]]
                                 ELSE [next |-> c.next, spaceTime |-> q]
        BY <1>1, <2>2, <3>1, <3>2 DEF ClimbStep
      <3> QED
        BY <3>2, <3>3
    <2>3. c.next \in Nat
      BY DEF Climbing
    <2> QED
      BY <1>1, <2>1, <2>2, <2>3
  <1>4. Good(0)
    <2> DEFINE f == [c \in Climbing |-> c]
    <2>1. f \in [Climbing -> Climbing]
      OBVIOUS
    <2>2. ASSUME NEW c \in Climbing, c.next + 0 >= L
          PROVE  f[c] = ClimbStep(m, f, c)
      <3>1. c.next >= L
        BY <1>1, <2>2 DEF Climbing
      <3> QED
        BY <3>1 DEF ClimbStep
    <2> QED
      BY <2>1, <2>2
  <1>5. ASSUME NEW n \in Nat, Good(n) PROVE Good(n + 1)
    <2>1. PICK f \in [Climbing -> Climbing] : Upto(f, n)
      BY <1>5
    <2> DEFINE g == [c \in Climbing |-> ClimbStep(m, f, c)]
    <2>2. g \in [Climbing -> Climbing]
      BY <1>3
    <2>3. \A c \in Climbing : g[c] = ClimbStep(m, f, c)
      OBVIOUS
    <2> HIDE DEF g
    <2>4. ASSUME NEW c \in Climbing, c.next + (n + 1) >= L
          PROVE  g[c] = ClimbStep(m, g, c)
      <3>1. CASE c.next >= L
        BY <2>3, <3>1 DEF ClimbStep
      <3>2. CASE c.next < L
        <4>1. PICK q : q = c.spaceTime \div LevelSize(m, c.next)
          OBVIOUS
        <4>2. PICK d : d = [next |-> c.next + 1, spaceTime |-> q]
          OBVIOUS
        <4>3. d \in Climbing /\ c.next \in Nat /\ d.next = c.next + 1
          BY <1>2, <3>2, <4>1, <4>2
        <4>4. d.next + n >= L
          BY <1>1, <2>4, <4>3
        <4>5. f[d] = g[d]
          BY <2>1, <2>3, <4>3, <4>4
        <4>6. ClimbStep(m, f, c) = ClimbStep(m, g, c)
          BY <4>1, <4>2, <4>5 DEF ClimbStep
        <4> QED
          BY <2>3, <4>6
      <3>3. c.next \in Nat
        BY DEF Climbing
      <3> QED
        BY <1>1, <3>1, <3>2, <3>3
    <2>5. Upto(g, n + 1)
      BY <2>4
    <2> QED
      BY <2>2, <2>5
  <1>6. bad = {}
    <2> SUFFICES ASSUME bad # {} PROVE FALSE
      OBVIOUS
    <2>1. PICK n \in bad : \A k \in bad : n <= k
      <3>1. bad \in SUBSET Nat
        OBVIOUS
      <3> HIDE DEF bad
      <3> QED
        BY <3>1, LeastNatural
    <2>2. n \in Nat /\ ~Good(n)
      OBVIOUS
    <2> HIDE DEF Good
    <2>3. n # 0
      BY <1>4, <2>2
    <2>4. n - 1 \in Nat /\ (n - 1) + 1 = n
      BY <2>2, <2>3
    <2>5. Good(n - 1)
      BY <2>1, <2>4
    <2> QED
      BY <1>5, <2>2, <2>4, <2>5
  <1>7. Good(L)
    <2> HIDE DEF Good
    <2> QED
      BY <1>1, <1>6
  <1>8. PICK f \in [Climbing -> Climbing] : Upto(f, L)
    BY <1>7
  <1>9. ASSUME NEW c \in Climbing PROVE f[c] = ClimbStep(m, f, c)
    <2>1. c.next + L >= L
      BY <1>1 DEF Climbing
    <2> QED
      BY <1>8, <2>1
  <1> QED
    BY <1>9

\* The recursion satisfies its equation.
LEMMA ClimbEquation ==
    ASSUME NEW m \in Mint
    PROVE  \A c \in Climbing : ClimbIter(m)[c] = ClimbStep(m, ClimbIter(m), c)
  <1>1. PICK f \in [Climbing -> Climbing] :
               \A c \in Climbing : f[c] = ClimbStep(m, f, c)
    BY ClimbExists
  <1>2. f = [c \in Climbing |-> ClimbStep(m, f, c)]
    BY <1>1
  <1>3. ClimbIter(m) = [c \in Climbing |-> ClimbStep(m, ClimbIter(m), c)]
    BY <1>2 DEF ClimbIter
  <1> QED
    BY <1>3

\* A quotient of a natural, and the product it stands for.
LEMMA QuotientBounds ==
    ASSUME NEW s \in Nat, NEW z \in Nat \ {0}, NEW q, q = s \div z
    PROVE  /\ q \in Nat /\ q <= s
           /\ \A d \in Nat, y \in Nat : d <= q /\ y <= z => y * d <= s
  <1>1. q \in Nat /\ q * z <= s
    BY DivBounds
  <1>2. q * 1 <= q * z
    BY <1>1, SMT
  <1>3. ASSUME NEW d \in Nat, NEW y \in Nat, d <= q, y <= z PROVE y * d <= s
    <2>1. y * d <= z * d
      BY <1>3, TimesMono
    <2>2. d * z <= q * z
      BY <1>1, <1>3, TimesMono
    <2>3. z * d = d * z /\ z * d \in Nat /\ y * d \in Nat /\ q * z \in Nat
      BY <1>1, TimesIsNat, SMT
    <2> DEFINE a == y * d
               b == z * d
               e == q * z
    <2>4. a \in Nat /\ b \in Nat /\ e \in Nat /\ a <= b /\ b <= e /\ e <= s
      BY <1>1, <2>1, <2>2, <2>3
    <2> HIDE DEF a, b, e
    <2>5. a <= s
      BY <2>4
    <2> QED
      BY <2>5 DEF a
  <1>4. q <= s
    <2> DEFINE e == q * z
    <2>1. e \in Nat /\ q <= e /\ e <= s
      BY <1>1, <1>2, TimesIsNat
    <2> HIDE DEF e
    <2> QED
      BY <1>1, <2>1
  <1> QED
    BY <1>1, <1>3, <1>4

\* Where the recursion from c ends: no level lower, nothing more left, and the
\* level reached was asked for of what c had.
Reaches(c, r) ==
    /\ r \in Climbing
    /\ c.next <= r.next /\ r.next <= Len(Levels)
    /\ 0 <= r.spaceTime /\ r.spaceTime <= c.spaceTime
    /\ c.next < r.next =>
          Levels[r.next].Size * Levels[r.next].Duration <= c.spaceTime

\* The recursion reaches a level that what is left allows.
LEMMA ClimbReaches ==
    ASSUME NEW m \in Mint
    PROVE  \A c \in Climbing : c.next <= Len(Levels) /\ c.spaceTime >= 0
              => Reaches(c, ClimbIter(m)[c])
  <1> DEFINE L == Len(Levels)
             f == ClimbIter(m)
             bad == {n \in Nat : \E c \in Climbing :
                        /\ c.next <= L /\ c.spaceTime >= 0 /\ n = L - c.next
                        /\ ~Reaches(c, f[c])}
  <1>1. L \in Nat
    BY IssuanceAssumption
  <1>2. bad = {}
    <2> SUFFICES ASSUME bad # {} PROVE FALSE
      OBVIOUS
    <2>1. PICK n \in bad : \A k \in bad : n <= k
      <3>1. bad \in SUBSET Nat
        OBVIOUS
      <3> HIDE DEF bad
      <3> QED
        BY <3>1, LeastNatural
    <2>2. PICK c \in Climbing : /\ c.next <= L /\ c.spaceTime >= 0
                                /\ n = L - c.next /\ ~Reaches(c, f[c])
      OBVIOUS
    <2>3. c.next \in Nat /\ c.spaceTime \in Nat
      BY <2>2 DEF Climbing
    <2>4. f[c] = ClimbStep(m, f, c)
      BY ClimbEquation
    <2> HIDE DEF f
    <2>5. CASE c.next >= L
      <3>1. f[c] = c
        BY <2>4, <2>5 DEF ClimbStep
      <3>2. Reaches(c, c)
        BY <1>1, <2>2, <2>3 DEF Reaches
      <3> QED
        BY <2>2, <3>1, <3>2
    <2>6. CASE c.next < L
      <3>1. PICK q : q = c.spaceTime \div LevelSize(m, c.next)
        OBVIOUS
      <3>2. /\ LevelSize(m, c.next) \in Nat \ {0}
            /\ Levels[c.next + 1].Size <= LevelSize(m, c.next)
            /\ Levels[c.next + 1].Size \in Nat
            /\ Levels[c.next + 1].Duration \in Nat
        BY <2>3, <2>6, LevelType
      <3>3. /\ q \in Nat /\ q <= c.spaceTime
            /\ \A d \in Nat, y \in Nat : d <= q /\ y <= LevelSize(m, c.next)
                  => y * d <= c.spaceTime
        <4>1. PICK z : z = LevelSize(m, c.next)
          OBVIOUS
        <4>2. PICK s : s = c.spaceTime
          OBVIOUS
        <4>3. s \in Nat /\ z \in Nat \ {0} /\ q = s \div z
          BY <2>3, <3>1, <3>2, <4>1, <4>2
        <4>4. /\ q \in Nat /\ q <= s
              /\ \A d \in Nat, y \in Nat : d <= q /\ y <= z => y * d <= s
          BY <4>3, QuotientBounds
        <4> QED
          BY <4>1, <4>2, <4>4
      <3>4. PICK d : d = [next |-> c.next + 1, spaceTime |-> q]
        OBVIOUS
      <3>5. PICK e : e = [next |-> c.next, spaceTime |-> q]
        OBVIOUS
      <3>6. f[c] = IF Lasts(c.next, q) THEN f[d] ELSE e
        BY <2>4, <2>6, <3>1, <3>4, <3>5, <2>3, <1>1 DEF ClimbStep
      <3>7. CASE ~Lasts(c.next, q)
        <4>1. e \in Climbing /\ e.next = c.next /\ e.spaceTime = q
          BY <2>3, <3>3, <3>5 DEF Climbing
        <4>2. Reaches(c, e)
          BY <1>1, <2>2, <2>3, <3>3, <4>1 DEF Reaches
        <4> QED
          BY <2>2, <3>6, <3>7, <4>2
      <3>8. CASE Lasts(c.next, q)
        <4>1. d \in Climbing /\ d.next = c.next + 1 /\ d.spaceTime = q
          BY <2>3, <3>3, <3>4 DEF Climbing
        <4>2. Levels[d.next].Size * Levels[d.next].Duration <= c.spaceTime
          BY <3>2, <3>3, <3>8, <4>1 DEF Lasts
        <4>3. d.next <= L /\ d.spaceTime >= 0 /\ L - d.next \in Nat
              /\ L - d.next < n
          BY <1>1, <2>2, <2>3, <2>6, <3>3, <4>1
        <4>4. Reaches(d, f[d])
          <5> SUFFICES ASSUME ~Reaches(d, f[d]) PROVE FALSE
            OBVIOUS
          <5>1. L - d.next \in bad
            BY <4>1, <4>3 DEF f
          <5>2. n \in Nat /\ n <= L - d.next
            BY <2>1, <5>1
          <5> QED
            BY <4>3, <5>2
        <4>5. PICK r : r = f[d]
          OBVIOUS
        <4>6. /\ r \in Climbing /\ d.next <= r.next /\ r.next <= L
              /\ 0 <= r.spaceTime /\ r.spaceTime <= d.spaceTime
              /\ d.next < r.next =>
                    Levels[r.next].Size * Levels[r.next].Duration <= d.spaceTime
          BY <4>4, <4>5 DEF Reaches
        <4>7. r.next \in Nat /\ r.spaceTime \in Int
          BY <4>6 DEF Climbing
        <4>8. c.next < r.next /\ 0 <= r.spaceTime /\ r.spaceTime <= c.spaceTime
          BY <2>3, <3>3, <4>1, <4>6, <4>7
        <4>9. Levels[r.next].Size * Levels[r.next].Duration <= c.spaceTime
          <5>1. CASE d.next = r.next
            BY <4>2, <5>1
          <5>2. CASE d.next < r.next
            <6>1. Levels[r.next] \in Level
              BY <1>1, <4>6, <4>7, <5>2, <4>1, <2>3, IssuanceAssumption
            <6>2. Levels[r.next].Size \in Nat /\ Levels[r.next].Duration \in Nat
              BY <6>1 DEF Level
            <6> DEFINE a == Levels[r.next].Size * Levels[r.next].Duration
            <6>3. a \in Nat /\ a <= d.spaceTime
              BY <4>6, <5>2, <6>2, TimesIsNat
            <6> HIDE DEF a
            <6>4. a <= c.spaceTime
              BY <2>3, <3>3, <4>1, <6>3
            <6> QED
              BY <6>4 DEF a
          <5> QED
            BY <4>1, <4>6, <4>7, <2>3, <5>1, <5>2
        <4>10. Reaches(c, r)
          BY <2>3, <4>6, <4>7, <4>8, <4>9 DEF Reaches
        <4> QED
          BY <2>2, <3>6, <3>8, <4>5, <4>10
      <3> QED
        BY <3>7, <3>8
    <2> QED
      BY <1>1, <2>3, <2>5, <2>6
  <1> SUFFICES ASSUME NEW c \in Climbing, c.next <= L, c.spaceTime >= 0,
                      ~Reaches(c, f[c])
               PROVE  FALSE
    OBVIOUS
  <1>3. c.next \in Nat
    BY DEF Climbing
  <1>4. L - c.next \in Nat
    BY <1>1, <1>3
  <1>5. L - c.next \in bad
    BY <1>4
  <1> QED
    BY <1>2, <1>5

\* Climbing the levels changes the level and the sum of space and time only.
LEMMA ClimbedFields ==
    ASSUME NEW j \in Mint, j.mintLevel < Len(Levels), j.spaceTime >= 0,
           NEW i, i = Climbed(j)
    PROVE  /\ i \in Mint
           /\ i.size = j.size /\ i.price = j.price /\ i.lastMint = j.lastMint
           /\ i.totalPaid = j.totalPaid /\ i.totalPay = j.totalPay
           /\ i.subPMap = j.subPMap /\ i.subSMap = j.subSMap
           /\ i.mintLevel < Len(Levels) /\ j.mintLevel <= i.mintLevel
           /\ 0 <= i.spaceTime /\ i.spaceTime <= j.spaceTime
           /\ j.mintLevel < i.mintLevel =>
                 Levels[i.mintLevel + 1].Size * Levels[i.mintLevel + 1].Duration
                    <= j.spaceTime
  <1>1. PICK c : c = [next |-> j.mintLevel + 1, spaceTime |-> j.spaceTime]
    OBVIOUS
  <1>2. PICK r : r = ClimbIter(j)[c]
    OBVIOUS
  <1>3. Len(Levels) \in Nat
    BY IssuanceAssumption
  <1>4. /\ c \in Climbing /\ c.next = j.mintLevel + 1
        /\ c.spaceTime = j.spaceTime /\ j.mintLevel \in Nat /\ j.spaceTime \in Int
    BY <1>1, MintFields DEF Climbing
  <1>5. c.next <= Len(Levels) /\ c.spaceTime >= 0
    BY <1>3, <1>4
  <1>6. Reaches(c, r)
    BY <1>2, <1>4, <1>5, ClimbReaches
  <1>7. r.next \in Nat /\ r.spaceTime \in Int
    BY <1>6 DEF Reaches, Climbing
  <1>8. r = Climb(j)
    BY <1>1, <1>2 DEF Climb
  <1> DEFINE a == r.next - 1
             b == r.spaceTime
  <1>9. i = [j EXCEPT !.mintLevel = a, !.spaceTime = b]
    BY <1>8, ClimbedIs
  <1>10. /\ a \in Nat /\ b \in Int /\ a < Len(Levels) /\ j.mintLevel <= a
         /\ 0 <= b /\ b <= j.spaceTime
         /\ j.mintLevel < a => c.next < r.next
         /\ a + 1 = r.next
    BY <1>3, <1>4, <1>6, <1>7 DEF Reaches
  <1>11. j.mintLevel < a =>
            Levels[a + 1].Size * Levels[a + 1].Duration <= j.spaceTime
    BY <1>4, <1>6, <1>10 DEF Reaches
  <1> HIDE DEF a, b
  <1>12. /\ i \in Mint
         /\ i.size = j.size /\ i.price = j.price /\ i.lastMint = j.lastMint
         /\ i.totalPaid = j.totalPaid /\ i.totalPay = j.totalPay
         /\ i.subPMap = j.subPMap /\ i.subSMap = j.subSMap
         /\ i.mintLevel = a /\ i.spaceTime = b
    BY <1>9, <1>10 DEF Mint
  <1> QED
    BY <1>10, <1>11, <1>12

\* What an order changes in the sums.
LEMMA IssuedFields ==
    ASSUME NEW m \in Mint, m.mintLevel < Len(Levels), m.spaceTime >= 0,
           NEW o \in Order, o.start < o.end, NEW t \in Nat, t <= MaxTime,
           NEW s, s = Scheduled(m, o), NEW i, i = Issued(m, o, t),
           NEW paid, paid = Accrued(s, t), NEW B, B = LastBoundary(t)
    PROVE  /\ i \in Mint /\ paid \in Int /\ s \in Mint
           /\ i.lastMint = m.lastMint
           /\ i.subPMap = s.subPMap /\ i.subSMap = s.subSMap
           /\ i.totalPaid = m.totalPaid + paid
           /\ paid = m.price * (t - m.lastMint)
                       - (IF Crosses(m, t) THEN s.subPMap[B] * (t - B) ELSE 0)
           /\ i.price = m.price - (IF Crosses(m, t) THEN s.subPMap[B] ELSE 0)
                          + o.sprice
           /\ i.size = m.size - (IF Crosses(m, t) THEN s.subSMap[B] ELSE 0)
                          + o.size
           /\ i.mintLevel < Len(Levels) /\ m.mintLevel <= i.mintLevel
           /\ 0 <= i.spaceTime /\ i.spaceTime <= m.spaceTime + SpaceTime(o)
           /\ SpaceTime(o) \in Nat
           /\ m.mintLevel < i.mintLevel =>
                 Levels[i.mintLevel + 1].Size * Levels[i.mintLevel + 1].Duration
                    <= m.spaceTime + SpaceTime(o)
  <1>1. /\ s \in Mint
        /\ s.size = m.size /\ s.price = m.price /\ s.lastMint = m.lastMint
        /\ s.spaceTime = m.spaceTime /\ s.mintLevel = m.mintLevel
        /\ s.totalPaid = m.totalPaid
    <2> DEFINE f == [m.subPMap EXCEPT ![o.end] = @ + o.sprice]
               h == [m.subSMap EXCEPT ![o.end] = @ + o.size]
    <2>1. s \in Mint
      BY ScheduledFields
    <2>2. s = [m EXCEPT !.subPMap = f, !.subSMap = h]
      BY DEF Scheduled
    <2> HIDE DEF f, h
    <2> QED
      BY <2>1, <2>2 DEF Mint
  <1>2. PICK e : e = Expired(s, t)
    OBVIOUS
  <1>3. /\ e \in Mint
        /\ e.size = s.size - (IF Crosses(s, t) THEN s.subSMap[B] ELSE 0)
        /\ e.price = s.price - (IF Crosses(s, t) THEN s.subPMap[B] ELSE 0)
        /\ e.lastMint = s.lastMint
        /\ e.spaceTime = s.spaceTime /\ e.mintLevel = s.mintLevel
        /\ e.totalPaid = s.totalPaid
        /\ e.subPMap = s.subPMap /\ e.subSMap = s.subSMap
    BY <1>1, <1>2, ExpiredFields
  <1>4. paid \in Int
    BY <1>1, AccruedType
  <1>5. PICK k : k = [e EXCEPT !.totalPaid = @ + paid]
    OBVIOUS
  <1>6. /\ k \in Mint
        /\ k.size = e.size /\ k.price = e.price /\ k.lastMint = e.lastMint
        /\ k.spaceTime = e.spaceTime /\ k.mintLevel = e.mintLevel
        /\ k.totalPaid = e.totalPaid + paid
        /\ k.subPMap = e.subPMap /\ k.subSMap = e.subSMap
    <2> DEFINE y == e.totalPaid + paid
    <2>1. y \in Int
      BY <1>3, <1>4, MintFields
    <2>2. k = [e EXCEPT !.totalPaid = y]
      BY <1>5
    <2> HIDE DEF y
    <2>3. /\ k \in Mint
          /\ k.size = e.size /\ k.price = e.price /\ k.lastMint = e.lastMint
          /\ k.spaceTime = e.spaceTime /\ k.mintLevel = e.mintLevel
          /\ k.totalPaid = y
          /\ k.subPMap = e.subPMap /\ k.subSMap = e.subSMap
      BY <1>3, <2>1, <2>2 DEF Mint
    <2> QED
      BY <2>3 DEF y
  <1>7. PICK j : j = Joined(k, o)
    OBVIOUS
  <1>8. /\ j \in Mint
        /\ j.size = k.size + o.size /\ j.price = k.price + o.sprice
        /\ j.lastMint = k.lastMint /\ j.mintLevel = k.mintLevel
        /\ j.spaceTime = k.spaceTime + SpaceTime(o)
        /\ j.totalPaid = k.totalPaid
        /\ j.subPMap = k.subPMap /\ j.subSMap = k.subSMap
    BY <1>6, <1>7, JoinedFields
  <1>9. SpaceTime(o) \in Nat
    <2>1. o.end - o.start \in Nat /\ o.size \in Nat
      BY OrderFields
    <2> QED
      BY <2>1, TimesIsNat DEF SpaceTime
  <1>10. /\ j.mintLevel = m.mintLevel
         /\ j.spaceTime = m.spaceTime + SpaceTime(o)
         /\ j.spaceTime >= 0 /\ m.mintLevel \in Nat /\ m.spaceTime \in Int
    BY <1>1, <1>3, <1>6, <1>8, <1>9, MintFields
  <1>11. Crosses(s, t) <=> Crosses(m, t)
    BY <1>1 DEF Crosses
  <1>12. paid = m.price * (t - m.lastMint)
                  - (IF Crosses(m, t) THEN s.subPMap[B] * (t - B) ELSE 0)
    BY <1>1, <1>11 DEF Accrued
  <1>13. /\ j.lastMint = m.lastMint
         /\ j.subPMap = s.subPMap /\ j.subSMap = s.subSMap
         /\ j.totalPaid = m.totalPaid + paid
         /\ j.price = m.price - (IF Crosses(m, t) THEN s.subPMap[B] ELSE 0)
                        + o.sprice
         /\ j.size = m.size - (IF Crosses(m, t) THEN s.subSMap[B] ELSE 0)
                        + o.size
    BY <1>1, <1>3, <1>6, <1>8, <1>11
  <1>14. i = IF paid <= 0 THEN j ELSE Climbed(j)
    BY <1>2, <1>5, <1>7 DEF Issued
  <1>15. CASE paid <= 0
    BY <1>1, <1>4, <1>8, <1>9, <1>10, <1>12, <1>13, <1>14, <1>15
  <1>16. CASE ~(paid <= 0)
    <2>1. i = Climbed(j)
      BY <1>14, <1>16
    <2>2. /\ i \in Mint
          /\ i.size = j.size /\ i.price = j.price /\ i.lastMint = j.lastMint
          /\ i.totalPaid = j.totalPaid
          /\ i.subPMap = j.subPMap /\ i.subSMap = j.subSMap
      BY <1>8, <1>10, <2>1, ClimbedFields
    <2>3. /\ i.mintLevel < Len(Levels) /\ j.mintLevel <= i.mintLevel
          /\ 0 <= i.spaceTime /\ i.spaceTime <= j.spaceTime
          /\ j.mintLevel < i.mintLevel =>
                Levels[i.mintLevel + 1].Size * Levels[i.mintLevel + 1].Duration
                    <= j.spaceTime
      BY <1>8, <1>10, <2>1, ClimbedFields
    <2> QED
      BY <1>1, <1>4, <1>9, <1>10, <1>12, <1>13, <2>2, <2>3
  <1> QED
    BY <1>15, <1>16

-----------------------------------------------------------------------------
(***************************************************************************)
(* What an order changes                                                   *)
(***************************************************************************)
\* Everything is of its type, a level is always one of the table, and the sum
\* of space and time is not negative.
TypeInv ==
    /\ TypeOK
    /\ mint.mintLevel < Len(Levels)
    /\ mint.spaceTime >= 0

\* A step that issues adds record z, pays up to t as far as the send goes
\* through, and counts paid.
Issues(z, t, paid, sent) ==
    /\ t \in Nat /\ paid \in Int /\ sent \in BOOLEAN
    /\ mint.lastMint <= t /\ t <= now /\ t <= mint.lastMint + Day

RecordStep(z, t, sent) ==
    /\ z \in Added /\ z.nonce \in Nonces(z.user, z.pro)
    /\ z.nonce = book[z.user][z.pro].nonce
    /\ book'[z.user][z.pro].nonce = z.nonce + 1
    /\ z.late <=> TermsOf(z).end <= mint.lastMint
    /\ z.since = IF sent THEN t ELSE mint.lastMint
    /\ added' = added \cup {z}
    /\ unsent' = (unsent \/ ~sent)

DriftStep(paid, sent) == drift' = IF sent THEN drift ELSE drift + paid

PriceStep(z, t, paid) ==
    LET o == TermsOf(z)
        B == LastBoundary(t)
    IN  /\ mint' \in Mint
        /\ mint'.lastMint = z.since
        /\ mint'.subPMap = [mint.subPMap EXCEPT ![o.end] = @ + o.sprice]
        /\ mint'.subSMap = [mint.subSMap EXCEPT ![o.end] = @ + o.size]
        /\ mint'.totalPaid = mint.totalPaid + paid
        /\ paid = mint.price * (t - mint.lastMint)
                    - (IF Crosses(mint, t) THEN mint'.subPMap[B] * (t - B) ELSE 0)
        /\ mint'.price = mint.price
              - (IF Crosses(mint, t) THEN mint'.subPMap[B] ELSE 0) + o.sprice
        /\ mint'.size = mint.size
              - (IF Crosses(mint, t) THEN mint'.subSMap[B] ELSE 0) + o.size

LevelStep(z) ==
    LET span == SpaceTime(TermsOf(z)) IN
    /\ span \in Nat
    /\ mint'.mintLevel < Len(Levels) /\ mint.mintLevel <= mint'.mintLevel
    /\ 0 <= mint'.spaceTime /\ mint'.spaceTime <= mint.spaceTime + span
    /\ mint.mintLevel < mint'.mintLevel =>
          Levels[mint'.mintLevel + 1].Size * Levels[mint'.mintLevel + 1].Duration
             <= mint.spaceTime + span

PoolStep(paid, sent) ==
    /\ erc' \in Ledger
    /\ IF sent /\ paid > 0
       THEN erc'.money[Pool] = erc.money[Pool]
               + (paid * Levels[mint'.mintLevel + 1].Ratio) \div 100
       ELSE erc'.money[Pool] = erc.money[Pool]

\* Fields of what is known of the state.
LEMMA RoleTypes ==
    ASSUME TypeInv
    PROVE  /\ mint \in Mint /\ mint.lastMint \in Nat /\ mint.lastMint <= now
           /\ now \in Nat /\ now <= MaxTime
           /\ mint.mintLevel < Len(Levels) /\ mint.spaceTime >= 0
           /\ erc \in Ledger
  BY MintFields, IssuingConstants DEF TypeInv, TypeOK

\* The terms of an order whose nonce a module of signed terms has.
LEMMA SignedTerms ==
    ASSUME NEW z \in Added, z.nonce \in Nonces(z.user, z.pro)
    PROVE  TermsOf(z) \in Order /\ TermsOf(z).start < TermsOf(z).end
  <1>1. z.user \in Account /\ z.pro \in Account
    BY DEF Added
  <1>2. TermsOf(z) \in Order
    BY <1>1, TermsTypes DEF TermsOf
  <1>3. Terms[z.user][z.pro] \in Seq(Order)
    BY <1>1, RoleAssumption
  <1>4. z.nonce + 1 \in DOMAIN Terms[z.user][z.pro]
    BY <1>3 DEF Nonces
  <1>5. TermsOf(z).start < TermsOf(z).end
    <2> DEFINE k == z.nonce + 1
    <2>1. k \in DOMAIN Terms[z.user][z.pro]
      BY <1>4
    <2> HIDE DEF k
    <2>2. Terms[z.user][z.pro][k].start < Terms[z.user][z.pro][k].end
      BY <1>1, <2>1, RoleAssumption
    <2> QED
      BY <2>2 DEF k, TermsOf
  <1> QED
    BY <1>2, <1>5

\* The part of AddOrder for a main-token order is such a step.
LEMMA IssueForIs ==
    ASSUME RoleInv, TypeInv, NEW u \in Account, NEW p \in Account,
           NEW n \in Nonces(u, p), n = book[u][p].nonce,
           IssueFor(u, p, n, Terms[u][p][n + 1]),
           book' = [book EXCEPT ![u][p].nonce = @ + 1]
    PROVE  \E z, t, paid, sent : /\ Issues(z, t, paid, sent)
                                 /\ RecordStep(z, t, sent)
                                 /\ DriftStep(paid, sent)
                                 /\ PriceStep(z, t, paid)
                                 /\ LevelStep(z)
                                 /\ PoolStep(paid, sent)
  <1>1. PICK o : o = Terms[u][p][n + 1]
    OBVIOUS
  <1>2. PICK t : t = CatchUp(mint, now)
    OBVIOUS
  <1>3. PICK s : s = Scheduled(mint, o)
    OBVIOUS
  <1>4. PICK i : i = Issued(mint, o, t)
    OBVIOUS
  <1>5. PICK paid : paid = Accrued(s, t)
    OBVIOUS
  <1>6. PICK r : r = Reward(mint, o, t)
    OBVIOUS
  <1>7. PICK sent \in BOOLEAN : sent <=> (paid > 0 => ErcCanTransfer(erc, RoleAddr, r))
    OBVIOUS
  <1>8. PICK last : last = IF sent THEN t ELSE mint.lastMint
    OBVIOUS
  <1>9. PICK late \in BOOLEAN : late <=> o.end <= mint.lastMint
    OBVIOUS
  <1>10. PICK z : z = [user |-> u, pro |-> p, nonce |-> n, since |-> last,
                       late |-> late]
    OBVIOUS
  <1>11. /\ mint' = [i EXCEPT !.lastMint = last]
         /\ erc' = IF paid > 0 THEN ErcTransfer(erc, RoleAddr, Pool, r) ELSE erc
         /\ added' = added \cup {z}
         /\ unsent' = (unsent \/ ~sent)
         /\ drift' = IF sent THEN drift ELSE drift + paid
    <2>1. z = [user |-> u, pro |-> p, nonce |-> n, since |-> last,
               late |-> o.end <= mint.lastMint]
      <3>1. late = (o.end <= mint.lastMint)
        BY <1>9
      <3> QED
        BY <1>10, <3>1
    <2>2. sent = (paid > 0 => ErcCanTransfer(erc, RoleAddr, r))
      BY <1>7
    <2>3. IssueFor(u, p, n, o)
      BY <1>1
    <2>4. /\ mint' = [i EXCEPT !.lastMint = last]
          /\ erc' = IF paid > 0 THEN ErcTransfer(erc, RoleAddr, Pool, r) ELSE erc
          /\ unsent' = (unsent \/ ~sent)
          /\ drift' = IF sent THEN drift ELSE drift + paid
      BY <2>3, <1>2, <1>3, <1>4, <1>5, <1>6, <1>8, <2>2 DEF IssueFor
    <2>5. added' = added \cup {z}
      BY <2>3, <1>2, <1>3, <1>5, <1>6, <1>8, <2>1, <2>2 DEF IssueFor
    <2> QED
      BY <2>4, <2>5
  <1>12. /\ t \in Nat /\ mint.lastMint <= t /\ t <= now /\ t <= mint.lastMint + Day
         /\ t <= MaxTime /\ mint.lastMint \in Nat /\ now \in Nat
    <2>1. /\ t \in Nat /\ mint.lastMint <= t /\ t <= now
          /\ t <= mint.lastMint + Day /\ mint.lastMint \in Nat
      BY <1>2, RoleTypes, CatchUpType
    <2> QED
      BY <2>1, RoleTypes, IssuingConstants
  <1>13. last \in Nat
    BY <1>8, <1>12
  <1>14. z.user = u /\ z.pro = p /\ z.nonce = n /\ z.since = last /\ z.late = late
    BY <1>10
  <1>15. z \in Added /\ z.nonce \in Nonces(z.user, z.pro) /\ TermsOf(z) = o
    BY <1>1, <1>10, <1>13, <1>14, TermsTypes DEF Added, TermsOf
  <1>16. o \in Order /\ o.start < o.end
    BY <1>15, SignedTerms
  <1>17. PICK B : B = LastBoundary(t)
    OBVIOUS
  <1>18. /\ i \in Mint /\ paid \in Int /\ s \in Mint
         /\ i.subPMap = s.subPMap /\ i.subSMap = s.subSMap
         /\ i.totalPaid = mint.totalPaid + paid
         /\ paid = mint.price * (t - mint.lastMint)
                     - (IF Crosses(mint, t) THEN s.subPMap[B] * (t - B) ELSE 0)
         /\ i.price = mint.price
                - (IF Crosses(mint, t) THEN s.subPMap[B] ELSE 0) + o.sprice
         /\ i.size = mint.size
                - (IF Crosses(mint, t) THEN s.subSMap[B] ELSE 0) + o.size
    <2> DEFINE Facts(m) ==
         /\ i \in Mint /\ paid \in Int /\ s \in Mint
         /\ i.subPMap = s.subPMap /\ i.subSMap = s.subSMap
         /\ i.totalPaid = m.totalPaid + paid
         /\ paid = m.price * (t - m.lastMint)
                     - (IF Crosses(m, t) THEN s.subPMap[B] * (t - B) ELSE 0)
         /\ i.price = m.price
                - (IF Crosses(m, t) THEN s.subPMap[B] ELSE 0) + o.sprice
         /\ i.size = m.size
                - (IF Crosses(m, t) THEN s.subSMap[B] ELSE 0) + o.size
    <2>1. /\ mint \in Mint /\ mint.mintLevel < Len(Levels) /\ mint.spaceTime >= 0
      BY RoleTypes
    <2>2. Facts(mint)
      BY <1>3, <1>4, <1>5, <1>12, <1>16, <1>17, <2>1, IssuedFields
    <2> QED
      BY <2>2
  <1>19. /\ i.mintLevel < Len(Levels) /\ mint.mintLevel <= i.mintLevel
         /\ 0 <= i.spaceTime /\ i.spaceTime <= mint.spaceTime + SpaceTime(o)
         /\ SpaceTime(o) \in Nat
         /\ mint.mintLevel < i.mintLevel =>
               Levels[i.mintLevel + 1].Size * Levels[i.mintLevel + 1].Duration
                    <= mint.spaceTime + SpaceTime(o)
    <2>1. /\ mint \in Mint /\ mint.mintLevel < Len(Levels) /\ mint.spaceTime >= 0
      BY RoleTypes
    <2> QED
      BY <1>3, <1>4, <1>5, <1>12, <1>16, <1>17, <2>1, IssuedFields
  <1>20. /\ mint' \in Mint /\ mint'.lastMint = last
         /\ mint'.subPMap = s.subPMap /\ mint'.subSMap = s.subSMap
         /\ mint'.totalPaid = i.totalPaid /\ mint'.price = i.price
         /\ mint'.size = i.size /\ mint'.mintLevel = i.mintLevel
         /\ mint'.spaceTime = i.spaceTime
    BY <1>11, <1>13, <1>18 DEF Mint
  <1>21. /\ s.subPMap = [mint.subPMap EXCEPT ![o.end] = @ + o.sprice]
         /\ s.subSMap = [mint.subSMap EXCEPT ![o.end] = @ + o.size]
    BY <1>3, <1>16, RoleTypes, ScheduledFields
  <1>22. Issues(z, t, paid, sent)
    BY <1>12, <1>18 DEF Issues
  <1>23. RecordStep(z, t, sent)
    <2>1. book'[u][p].nonce = n + 1
      <3>1. book \in [Account -> [Account -> Book]] /\ book[u][p] \in Book
        BY DEF RoleInv, MemberTypes
      <3> QED
        BY <3>1 DEF Book
    <2> QED
      BY <1>8, <1>9, <1>11, <1>14, <1>15, <2>1 DEF RecordStep
  <1>24. PriceStep(z, t, paid)
    BY <1>14, <1>15, <1>17, <1>18, <1>20, <1>21 DEF PriceStep
  <1>25. LevelStep(z)
    BY <1>15, <1>19, <1>20 DEF LevelStep
  <1>26. PoolStep(paid, sent)
    <2>1. erc \in Ledger /\ RoleAddr \in Address /\ Pool \in Address /\ RoleAddr # Pool
      BY RoleTypes, RoleAssumption
    <2>2. r = (paid * Levels[mint'.mintLevel + 1].Ratio) \div 100
      BY <1>3, <1>4, <1>5, <1>6, <1>20 DEF Reward
    <2>3. r \in Int
      <3>1. Levels[mint'.mintLevel + 1].Ratio \in Nat
        BY <1>19, <1>20, MintFields, LevelType
      <3>2. paid * Levels[mint'.mintLevel + 1].Ratio \in Int
        BY <1>18, <3>1
      <3> QED
        BY <2>2, <3>2, DivType
    <2>4. /\ ErcTransfer(erc, RoleAddr, Pool, r) \in Ledger
          /\ ErcTransfer(erc, RoleAddr, Pool, r).money[Pool] =
                IF ErcCanTransfer(erc, RoleAddr, r) THEN erc.money[Pool] + r - 0
                ELSE erc.money[Pool]
      BY <2>1, <2>3, TransferLedger
    <2>5. erc.money[Pool] \in Int
      BY <2>1 DEF Ledger
    <2>6. CASE sent /\ paid > 0
      <3>1. erc' = ErcTransfer(erc, RoleAddr, Pool, r)
        BY <1>11, <2>6
      <3>2. ErcCanTransfer(erc, RoleAddr, r)
        BY <1>7, <2>6
      <3>3. erc'.money[Pool] = erc.money[Pool] + r
        BY <2>3, <2>4, <2>5, <3>1, <3>2
      <3>4. erc' \in Ledger
        BY <2>4, <3>1
      <3> QED
        BY <2>2, <2>6, <3>3, <3>4 DEF PoolStep
    <2>7. CASE ~(sent /\ paid > 0)
      <3>1. erc' \in Ledger /\ erc'.money[Pool] = erc.money[Pool]
        <4>1. CASE paid > 0
          <5>1. ~ErcCanTransfer(erc, RoleAddr, r)
            BY <1>7, <2>7, <4>1
          <5>2. erc' = ErcTransfer(erc, RoleAddr, Pool, r)
            BY <1>11, <4>1
          <5> QED
            BY <2>4, <5>1, <5>2
        <4>2. CASE ~(paid > 0)
          BY <1>11, <2>1, <4>2
        <4> QED
          BY <4>1, <4>2
      <3> QED
        BY <2>7, <3>1 DEF PoolStep
    <2> QED
      BY <2>6, <2>7
  <1>27. DriftStep(paid, sent)
    BY <1>11 DEF DriftStep
  <1> QED
    BY <1>22, <1>23, <1>24, <1>25, <1>26, <1>27

-----------------------------------------------------------------------------
(***************************************************************************)
(* Types                                                                   *)
(***************************************************************************)
Losing == [known : BOOLEAN, Lost : Nat, LostPaid : Int]

RestTypes ==
    /\ now \in 0 .. MaxTime
    /\ se \in [GroupIx -> [Account -> Losing]]
    /\ repairs \in [GroupIx -> [Account -> Nat]]
    /\ mint \in Mint
    /\ mint.lastMint <= now
    /\ erc \in Ledger
    /\ added \subseteq Added
    /\ unsent \in BOOLEAN
    /\ drift \in Int
    /\ mint.mintLevel < Len(Levels)
    /\ mint.spaceTime >= 0

\* The type invariant in two parts.
LEMMA TypeParts == /\ RoleInv /\ RestTypes => TypeInv
                   /\ TypeInv => RestTypes
                   /\ RoleInv' /\ RestTypes' => TypeInv'
  BY DEF RoleInv, MemberTypes, RestTypes, TypeInv, TypeOK, Book, Losing

\* The initial states.
LEMMA InitTypes == Init => RestTypes
  <1> SUFFICES ASSUME Init PROVE RestTypes
    OBVIOUS
  <1>1. /\ now = 0 /\ mint = NewMint /\ erc = LedgerOf(InitMoney)
        /\ added = {} /\ unsent = FALSE /\ drift = 0
        /\ se = [g \in GroupIx |-> [p \in Account |-> NoSettlement]]
        /\ repairs = [g \in GroupIx |-> [q \in Account |-> 0]]
    BY DEF Init
  <1>2. mint \in Mint /\ mint.lastMint = 0 /\ mint.mintLevel = 0
        /\ mint.spaceTime = 0
    BY <1>1 DEF NewMint, Mint
  <1>3. erc \in Ledger
    BY <1>1, RoleAssumption DEF LedgerOf, Ledger
  <1>4. 0 < Len(Levels)
    BY IssuanceAssumption
  <1>5. /\ se \in [GroupIx -> [Account -> Losing]]
        /\ repairs \in [GroupIx -> [Account -> Nat]]
    BY <1>1 DEF NoSettlement, Losing
  <1> QED
    <2>1. now \in 0 .. MaxTime /\ mint.lastMint <= now
      BY <1>1, <1>2, IssuingConstants
    <2>2. added \subseteq Added /\ drift \in Int
      BY <1>1
    <2>4. unsent \in BOOLEAN
      BY <1>1
    <2>3. mint.mintLevel < Len(Levels) /\ mint.spaceTime >= 0
      BY <1>2, <1>4
    <2> QED
      BY ONLY <1>2, <1>3, <1>5, <2>1, <2>2, <2>3, <2>4 DEF RestTypes

\* A step of neither the clock nor the sums, the ledger and the settlements.
LEMMA QuietTypes ==
    ASSUME RestTypes,
           UNCHANGED <<now, se, repairs, mint, erc, added, unsent, drift>>
    PROVE  RestTypes'
  BY DEF RestTypes

\* An order changes the sums as above if it is in the main token, and nothing
\* of them if not; it changes no loss.
LEMMA AddOrderIs ==
    ASSUME RoleInv, TypeInv, NEW u \in Account, NEW p \in Account,
           NEW n \in Nonces(u, p), AddOrder(u, p, n)
    PROVE  /\ UNCHANGED <<now, repairs>>
           /\ \/ \E z, t, paid, sent : /\ Issues(z, t, paid, sent)
                                       /\ RecordStep(z, t, sent)
                                       /\ DriftStep(paid, sent)
                                       /\ PriceStep(z, t, paid)
                                       /\ LevelStep(z)
                                       /\ PoolStep(paid, sent)
              \/ UNCHANGED <<mint, erc, added, unsent, drift>>
           /\ se' \in [GroupIx -> [Account -> Losing]]
           /\ \A g \in GroupIx, q \in Account :
                 /\ se'[g][q].Lost = se[g][q].Lost
                 /\ se'[g][q].LostPaid = se[g][q].LostPaid
           /\ \A v, r \in Account : book'[v][r].nonce >= book[v][r].nonce
           /\ \A v, r \in Account : book'[v][r].subNonce = book[v][r].subNonce
  <1>1. UNCHANGED <<now, repairs>> /\ book[u][p].nonce = n
        /\ book' = [book EXCEPT ![u][p].nonce = @ + 1]
    BY DEF AddOrder
  <1>2. book \in [Account -> [Account -> Book]] /\ book[u][p] \in Book
    BY DEF RoleInv, MemberTypes
  <1>3. /\ \A v, r \in Account : book'[v][r].nonce >= book[v][r].nonce
        /\ \A v, r \in Account : book'[v][r].subNonce = book[v][r].subNonce
    <2> DEFINE new == [book[u][p] EXCEPT !.nonce = @ + 1]
    <2>1. new \in Book /\ new.nonce = book[u][p].nonce + 1
          /\ new.subNonce = book[u][p].subNonce /\ book[u][p].nonce \in Nat
      <3>1. PICK b : b = book[u][p]
        OBVIOUS
      <3>2. b \in Book
        BY <1>2, <3>1
      <3> QED
        BY <3>1, <3>2 DEF Book
    <2>2. book' = [book EXCEPT ![u][p] = new]
      BY <1>1
    <2> HIDE DEF new
    <2>3. \A v, r \in Account : book[v][r] \in Book /\ book[v][r].nonce \in Nat
      BY <1>2 DEF Book
    <2>4. /\ book'[u][p] = new
          /\ \A v, r \in Account : ~(v = u /\ r = p) => book'[v][r] = book[v][r]
      BY <1>2, <2>2
    <2> QED
      BY <2>1, <2>3, <2>4
  <1>4. PICK g : g = gIndex[u]
    OBVIOUS
  <1>5. PICK o : o = Terms[u][p][n + 1]
    OBVIOUS
  <1>6. se \in [GroupIx -> [Account -> Losing]]
    BY TypeParts DEF RestTypes
  <1>7. CASE o.token = 0
    <2>1. IssueFor(u, p, n, o) /\ se' = [se EXCEPT ![g][p].known = TRUE]
      BY <1>4, <1>5, <1>7 DEF AddOrder
    <2>2. \E z, t, paid, sent : /\ Issues(z, t, paid, sent)
                                /\ RecordStep(z, t, sent)
                                /\ DriftStep(paid, sent)
                                /\ PriceStep(z, t, paid)
                                /\ LevelStep(z)
                                /\ PoolStep(paid, sent)
      BY <1>1, <1>5, <2>1, IssueForIs
    <2>3. g \in GroupIx
      BY <1>4, OpenGroup DEF AddOrder
    <2> DEFINE new == [se[g][p] EXCEPT !.known = TRUE]
    <2>4. se[g][p] \in Losing
      BY <1>6, <2>3
    <2>5. /\ new \in Losing /\ new.Lost = se[g][p].Lost
          /\ new.LostPaid = se[g][p].LostPaid
      BY <2>4 DEF Losing
    <2>6. se' = [se EXCEPT ![g][p] = new]
      BY <2>1
    <2> HIDE DEF new
    <2>7. /\ se' \in [GroupIx -> [Account -> Losing]] /\ se'[g][p] = new
          /\ \A h \in GroupIx, q \in Account :
                ~(h = g /\ q = p) => se'[h][q] = se[h][q]
      BY <1>6, <2>3, <2>5, <2>6
    <2>8. \A h \in GroupIx, q \in Account :
                 /\ se'[h][q].Lost = se[h][q].Lost
                 /\ se'[h][q].LostPaid = se[h][q].LostPaid
      BY <2>5, <2>7
    <2> QED
      BY <1>1, <1>3, <2>2, <2>7, <2>8
  <1>8. CASE o.token # 0
    <2>1. UNCHANGED <<mint, erc, added, unsent, drift, se>>
      BY <1>5, <1>8 DEF AddOrder
    <2> QED
      BY <1>1, <1>3, <1>6, <2>1
  <1> QED
    BY <1>7, <1>8

\* An order keeps the types.
LEMMA AddOrderTypes ==
    ASSUME RoleInv, TypeInv, NEW u \in Account, NEW p \in Account,
           NEW n \in Nonces(u, p), AddOrder(u, p, n)
    PROVE  RestTypes'
  <1>1. RestTypes
    BY TypeParts
  <1>2. UNCHANGED <<now, repairs>> /\ se' \in [GroupIx -> [Account -> Losing]]
    BY AddOrderIs
  <1>3. CASE UNCHANGED <<mint, erc, added, unsent, drift>>
    BY <1>1, <1>2, <1>3 DEF RestTypes
  <1>4. CASE \E z, t, paid, sent : /\ Issues(z, t, paid, sent)
                                   /\ RecordStep(z, t, sent)
                                   /\ DriftStep(paid, sent)
                                   /\ PriceStep(z, t, paid)
                                   /\ LevelStep(z)
                                   /\ PoolStep(paid, sent)
    <2>1. PICK z, t, paid, sent : /\ Issues(z, t, paid, sent)
                                  /\ RecordStep(z, t, sent)
                                  /\ DriftStep(paid, sent)
                                  /\ PriceStep(z, t, paid)
                                  /\ LevelStep(z)
                                  /\ PoolStep(paid, sent)
      BY <1>4
    <2>2. added' \subseteq Added /\ unsent' \in BOOLEAN /\ drift' \in Int
      BY <1>1, <2>1 DEF RestTypes, RecordStep, DriftStep, Issues
    <2>3. mint' \in Mint /\ mint'.lastMint <= now
      BY <1>1, <2>1 DEF RestTypes, RecordStep, PriceStep, Issues
    <2>4. mint'.mintLevel < Len(Levels) /\ mint'.spaceTime >= 0
      BY <2>1, <2>3, MintFields DEF LevelStep
    <2>5. erc' \in Ledger
      BY <2>1 DEF PoolStep
    <2> QED
      BY <1>1, <1>2, <2>2, <2>3, <2>4, <2>5 DEF RestTypes
  <1> QED
    BY <1>3, <1>4, AddOrderIs

\* A step that changes only what counts as paid, by e, and the loss of one
\* settlement that is still open, by d.  Only a claim that fails and a repair of
\* an unknown provider change them by different amounts.
MintKept ==
    /\ mint' \in Mint
    /\ mint'.size = mint.size /\ mint'.price = mint.price
    /\ mint'.spaceTime = mint.spaceTime /\ mint'.mintLevel = mint.mintLevel
    /\ mint'.lastMint = mint.lastMint
    /\ mint'.subPMap = mint.subPMap /\ mint'.subSMap = mint.subSMap

LossStep(g, p, d, e) ==
    /\ d \in Int /\ e \in Int
    /\ mint'.totalPaid = mint.totalPaid + e
    /\ se'[g][p].Lost - se'[g][p].LostPaid = se[g][p].Lost - se[g][p].LostPaid + d
    /\ \A h \in GroupIx, q \in Account :
          ~(h = g /\ q = p) => se'[h][q] = se[h][q]
    /\ drift' = drift + (e - d)
    /\ unsent' = unsent

\* A new amount that counts as paid leaves the other sums.
LEMMA PaidOnly ==
    ASSUME mint \in Mint, NEW v \in Int, mint' = [mint EXCEPT !.totalPaid = v]
    PROVE  MintKept /\ mint'.totalPaid = v
  BY DEF MintKept, Mint

\* One settlement is replaced.
LEMMA SettlementReplaced ==
    ASSUME se \in [GroupIx -> [Account -> Losing]],
           NEW g \in GroupIx, NEW p \in Account, NEW new \in Losing,
           se' = [se EXCEPT ![g][p] = new]
    PROVE  /\ se' \in [GroupIx -> [Account -> Losing]] /\ se'[g][p] = new
           /\ \A h \in GroupIx, q \in Account :
                 ~(h = g /\ q = p) => se'[h][q] = se[h][q]
  OBVIOUS

\* A claim of losses, paid or turned down.
LEMMA ProWithdrawIs ==
    ASSUME RoleInv, RestTypes, NEW p \in Account, NEW lost \in Losses[p],
           NEW outcome, ProWithdraw(p, lost, outcome)
    PROVE  /\ RestTypes' /\ MintKept /\ UNCHANGED <<now, added, erc, book>>
           /\ \E g \in GroupIx, q \in Account : \E d, e : LossStep(g, q, d, e)
  <1>0. PICK paid \in BOOLEAN : paid <=> outcome = "paid"
    OBVIOUS
  <1>1. PICK g : g = gIndex[p]
    OBVIOUS
  <1>2. g \in GroupIx
    BY <1>1, RoleAssumption DEF ProWithdraw, RoleInv, MemberTypes, Open, Existing, GroupIx
  <1>3. PICK s : s = se[g][p]
    OBVIOUS
  <1>4. se \in [GroupIx -> [Account -> Losing]] /\ s \in Losing
    BY <1>2, <1>3 DEF RestTypes
  <1>5. s.Lost \in Nat /\ s.LostPaid \in Int /\ lost \in Nat
    BY <1>4, RoleAssumption DEF Losing
  <1>6. PICK new : new = [s EXCEPT !.Lost = lost]
    OBVIOUS
  <1>7. new \in Losing /\ new.Lost = lost /\ new.LostPaid = s.LostPaid
    BY <1>4, <1>5, <1>6 DEF Losing
  <1>8. se' = [se EXCEPT ![g][p] = new]
    BY <1>1, <1>3, <1>6 DEF ProWithdraw
  <1>9. /\ se' \in [GroupIx -> [Account -> Losing]] /\ se'[g][p] = new
        /\ \A h \in GroupIx, q \in Account :
              ~(h = g /\ q = p) => se'[h][q] = se[h][q]
    BY <1>2, <1>4, <1>7, <1>8, SettlementReplaced
  <1>10. PICK d : d = lost - s.Lost
    OBVIOUS
  <1>11. PICK e : e = IF paid THEN d ELSE 0
    OBVIOUS
  <1>12. d \in Int /\ e \in Int /\ d >= 0 /\ mint.totalPaid \in Int /\ mint \in Mint
    BY <1>1, <1>3, <1>5, <1>10, <1>11, MintFields DEF ProWithdraw, RestTypes
  <1>13. MintKept /\ mint'.totalPaid = mint.totalPaid + e
    <2>1. CASE paid
      <3> DEFINE v == mint.totalPaid + d
      <3>1. mint' = [mint EXCEPT !.totalPaid = v]
        BY <1>0, <1>1, <1>3, <1>10, <2>1 DEF ProWithdraw, LossCounted
      <3>2. v \in Int
        BY <1>12
      <3>3. v = mint.totalPaid + e
        BY <1>11, <2>1
      <3> HIDE DEF v
      <3> QED
        BY <1>12, <3>1, <3>2, <3>3, PaidOnly
    <2>2. CASE ~paid
      <3>1. mint' = mint
        BY <1>0, <2>2 DEF ProWithdraw
      <3> QED
        BY <1>11, <1>12, <2>2, <3>1 DEF MintKept
    <2> QED
      BY <2>1, <2>2
  <1>14. drift' = drift + (e - d) /\ unsent' = unsent /\ drift' \in Int
    <2>1. /\ drift' = IF paid THEN drift ELSE drift - d
          /\ unsent' = unsent /\ drift \in Int /\ unsent \in BOOLEAN
      BY <1>0, <1>1, <1>3, <1>10 DEF ProWithdraw, RestTypes
    <2> QED
      BY <1>11, <1>12, <2>1
  <1>15. UNCHANGED <<now, added, erc, book, repairs>>
    BY DEF ProWithdraw
  <1>16. LossStep(g, p, d, e)
    <2>1. new.Lost - new.LostPaid = s.Lost - s.LostPaid + d
      BY <1>5, <1>7, <1>10
    <2> QED
      BY <1>3, <1>9, <1>12, <1>13, <1>14, <2>1 DEF LossStep
  <1>17. RestTypes'
    BY <1>9, <1>13, <1>14, <1>15 DEF RestTypes, MintKept
  <1> QED
    BY <1>2, <1>13, <1>15, <1>16, <1>17

\* A repair of what has been lost.
LEMMA AddRepairIs ==
    ASSUME RoleInv, RestTypes, NEW p \in Account, NEW q \in Account,
           NEW n \in 0 .. Len(RepairPays[q]) - 1, AddRepair(p, q, n)
    PROVE  /\ RestTypes' /\ MintKept /\ UNCHANGED <<now, added, erc, book>>
           /\ \E g \in GroupIx, r \in Account : \E d, e : LossStep(g, r, d, e)
  <1>1. PICK g : g = gIndex[q]
    OBVIOUS
  <1>2. g \in GroupIx
    BY <1>1, OpenGroup DEF AddRepair
  <1>3. PICK s : s = se[g][p]
    OBVIOUS
  <1>4. PICK pay : pay = RepairPays[q][n + 1]
    OBVIOUS
  <1>5. se \in [GroupIx -> [Account -> Losing]] /\ s \in Losing
    BY <1>2, <1>3 DEF RestTypes
  <1>6. s.Lost \in Nat /\ s.LostPaid \in Int
    BY <1>5 DEF Losing
  <1>7. pay \in Int
    <2>1. RepairPays[q] \in Seq(Int)
      BY RoleAssumption
    <2> QED
      BY <1>4, <2>1
  <1>8. PICK new : new = IF se[g][q].known THEN [s EXCEPT !.LostPaid = @ + pay]
                         ELSE Settled0
    OBVIOUS
  <1>9. /\ new \in Losing
        /\ se[g][q].known => new.Lost = s.Lost /\ new.LostPaid = s.LostPaid + pay
    <2>1. CASE se[g][q].known
      <3> DEFINE v == s.LostPaid + pay
      <3>1. new = [s EXCEPT !.LostPaid = v]
        BY <1>8, <2>1
      <3>2. v \in Int
        BY <1>6, <1>7
      <3> HIDE DEF v
      <3>3. new \in Losing /\ new.Lost = s.Lost /\ new.LostPaid = v
        BY <1>5, <3>1, <3>2 DEF Losing
      <3> QED
        BY <3>3 DEF v
    <2>2. CASE ~se[g][q].known
      BY <1>8, <2>2 DEF Losing, Settled0
    <2> QED
      BY <2>1, <2>2
  <1>10. se' = [se EXCEPT ![g][p] = new]
    <2>1. CASE se[g][q].known
      BY <1>1, <1>3, <1>4, <1>8, <2>1 DEF AddRepair
    <2>2. CASE ~se[g][q].known
      BY <1>1, <1>3, <1>4, <1>8, <2>2 DEF AddRepair
    <2> QED
      BY <2>1, <2>2
  <1>11. /\ se' \in [GroupIx -> [Account -> Losing]] /\ se'[g][p] = new
         /\ \A h \in GroupIx, r \in Account :
               ~(h = g /\ r = p) => se'[h][r] = se[h][r]
    BY <1>2, <1>5, <1>9, <1>10, SettlementReplaced
  <1>12. PICK e : e = -pay
    OBVIOUS
  <1>13. PICK d : d = (new.Lost - new.LostPaid) - (s.Lost - s.LostPaid)
    OBVIOUS
  <1>14. new.Lost \in Nat /\ new.LostPaid \in Int
    BY <1>9 DEF Losing
  <1>15. d \in Int /\ e \in Int /\ mint \in Mint /\ mint.totalPaid \in Int
    BY <1>6, <1>7, <1>12, <1>13, <1>14, MintFields DEF RestTypes
  <1>16. MintKept /\ mint'.totalPaid = mint.totalPaid + e
    <2> DEFINE v == mint.totalPaid - pay
    <2>1. mint' = [mint EXCEPT !.totalPaid = v]
      BY <1>1, <1>4 DEF AddRepair
    <2>2. v \in Int /\ v = mint.totalPaid + e
      BY <1>7, <1>12, <1>15
    <2> HIDE DEF v
    <2> QED
      BY <1>15, <2>1, <2>2, PaidOnly
  <1>17. drift' = drift + (e - d) /\ unsent' = unsent /\ drift' \in Int
    <2>1. /\ drift' = IF se[g][q].known THEN drift
                      ELSE drift + (s.Lost - s.LostPaid - pay)
          /\ unsent' = unsent /\ drift \in Int
      BY <1>1, <1>3, <1>4 DEF AddRepair, RestTypes
    <2>2. CASE se[g][q].known
      <3>1. e - d = 0
        BY <1>6, <1>7, <1>9, <1>12, <1>13, <2>2
      <3> QED
        BY <1>15, <2>1, <2>2, <3>1
    <2>3. CASE ~se[g][q].known
      <3>1. new.Lost = 0 /\ new.LostPaid = 0
        BY <1>8, <2>3 DEF Settled0
      <3>2. e - d = s.Lost - s.LostPaid - pay
        BY <1>6, <1>7, <1>12, <1>13, <3>1
      <3> QED
        BY <1>15, <2>1, <2>3, <3>2
    <2> QED
      BY <2>2, <2>3
  <1>18. UNCHANGED <<now, added, erc, book>>
    BY DEF AddRepair
  <1>19. LossStep(g, p, d, e)
    <2>1. new.Lost - new.LostPaid = s.Lost - s.LostPaid + d
      BY <1>6, <1>13, <1>14
    <2> QED
      BY <1>3, <1>11, <1>15, <1>16, <1>17, <2>1 DEF LossStep
  <1>20. repairs' \in [GroupIx -> [Account -> Nat]]
    <2>1. repairs' = [repairs EXCEPT ![g][q] = @ + 1]
      BY <1>1 DEF AddRepair
    <2>2. repairs \in [GroupIx -> [Account -> Nat]]
      BY DEF RestTypes
    <2> QED
      BY <1>2, <2>1, <2>2
  <1>21. RestTypes'
    <2>1. unsent' \in BOOLEAN
      BY <1>17 DEF RestTypes
    <2> QED
      BY <1>11, <1>16, <1>17, <1>18, <1>20, <2>1 DEF RestTypes, MintKept
  <1> QED
    BY <1>2, <1>16, <1>18, <1>19, <1>21

\* The types are kept.
LEMMA NextTypes == RoleInv /\ RestTypes /\ [Next]_vars => RestTypes'
  <1> SUFFICES ASSUME RoleInv, RestTypes, [Next]_vars PROVE RestTypes'
    OBVIOUS
  <1>1. TypeInv
    BY TypeParts
  <1>2. CASE Tick
    <2>1. now \in 0 .. MaxTime /\ now < MaxTime /\ now' = now + 1
          /\ mint.lastMint <= now /\ mint.lastMint \in Nat /\ now \in Nat
      BY <1>1, <1>2, RoleTypes DEF Tick, RestTypes
    <2>2. now' \in 0 .. MaxTime /\ mint.lastMint <= now'
      BY <2>1, IssuingConstants
    <2>3. UNCHANGED <<se, repairs, mint, erc, added, unsent, drift>>
      BY <1>2 DEF Tick
    <2> QED
      BY <2>2, <2>3 DEF RestTypes
  <1>3. CASE CreateGroup
    BY <1>3, QuietTypes DEF CreateGroup
  <1>4. CASE \E g \in GroupIx : SetReady(g)
    BY <1>4, QuietTypes DEF SetReady
  <1>5. CASE \E a \in Account, role \in {"keeper", "provider"} :
                role \in Asks[a] /\ RegisterRole(a, role)
    BY <1>5, QuietTypes DEF RegisterRole
  <1>6. CASE \E a \in Account, g \in GroupIx :
                \/ "user" \in Asks[a] /\ RegisterUser(a, g)
                \/ AddKeeperToGroup(a, g)
                \/ AddProviderToGroup(a, g)
    BY <1>6, QuietTypes DEF RegisterUser, AddKeeperToGroup, AddProviderToGroup
  <1>7. CASE \E a \in Payers :
                \/ Recharge(a)
                \/ \E shared \in BOOLEAN : WithdrawFromFs(a, shared)
    BY <1>7, QuietTypes DEF Recharge, WithdrawFromFs
  <1>8. CASE \E v \in Gifts : Fund(v)
    <2>1. PICK v \in Gifts : Fund(v)
      BY <1>8
    <2>2. v \in Int /\ erc \in Ledger /\ Admin \in Address /\ RoleAddr \in Address
      BY RoleAssumption DEF RestTypes
    <2>3. erc' \in Ledger
      BY <2>1, <2>2, TransferLedger DEF Fund
    <2>4. UNCHANGED <<now, se, repairs, mint, added, unsent, drift>>
      BY <2>1 DEF Fund
    <2> QED
      BY <2>3, <2>4 DEF RestTypes
  <1>9. CASE \E u, p \in Account : \E n \in Nonces(u, p) :
                AddOrder(u, p, n) \/ SubOrder(u, p, n)
    BY <1>1, <1>9, AddOrderTypes, QuietTypes DEF SubOrder, MaySub
  <1>10. CASE \E p \in Account, outcome \in Outcomes : \E lost \in Losses[p] :
                ProWithdraw(p, lost, outcome)
    BY <1>10, ProWithdrawIs
  <1>11. CASE \E p, q \in Account : \E n \in 0 .. Len(RepairPays[q]) - 1 :
                AddRepair(p, q, n)
    BY <1>11, AddRepairIs
  <1>12. CASE UNCHANGED vars
    BY <1>12, QuietTypes DEF vars
  <1> QED
    BY <1>2, <1>3, <1>4, <1>5, <1>6, <1>7, <1>8, <1>9, <1>10, <1>11, <1>12
    DEF Next

\* The types hold throughout.
LEMMA TypesInvariant == Spec => [](RoleInv /\ TypeInv)
  <1>1. Init => RoleInv /\ RestTypes
    BY InitRole, InitTypes
  <1>2. RoleInv /\ RestTypes /\ [Next]_vars => RoleInv' /\ RestTypes'
    BY NextKeeps, NextTypes
  <1>3. RoleInv /\ RestTypes => RoleInv /\ TypeInv
    BY TypeParts
  <1> QED
    BY <1>1, <1>2, <1>3, PTL DEF Spec

\* In every instance, the state of the role manager is of its type: its sums
\* stay defined whatever orders, failed sends and losses do to them, and the
\* time issued up to is never ahead of the clock (role.go).
THEOREM RoleTypeOK == Spec => []TypeOK
  <1>1. RoleInv /\ TypeInv => TypeOK
    BY DEF TypeInv
  <1> QED
    BY <1>1, TypesInvariant, PTL

-----------------------------------------------------------------------------
(***************************************************************************)
(* Sums over the orders that were added                                    *)
(***************************************************************************)
\* Whether x runs when issued up to l, and what it has cost by then.
RunsAt(x, l) == x.late \/ l < TermsOf(x).end
CostAt(x, l) ==
    TermsOf(x).sprice * ((IF RunsAt(x, l) THEN l ELSE TermsOf(x).end) - x.since)

Prices == [x \in Added |-> TermsOf(x).sprice]
Sizes  == [x \in Added |-> TermsOf(x).size]
Spans  == [x \in Added |-> SpaceTime(TermsOf(x))]

\* The weights of the orders in S that run at l, or that end at b.
Running(w, S, l) ==
    SumFunctionOnSet([x \in S |-> IF RunsAt(x, l) THEN w[x] ELSE 0], S)
Ending(w, S, b) ==
    SumFunctionOnSet([x \in S |-> IF TermsOf(x).end = b THEN w[x] ELSE 0], S)

\* The steps, as far as the sums go.
LossesKept == \A g \in GroupIx, q \in Account :
                 /\ se'[g][q].Lost = se[g][q].Lost
                 /\ se'[g][q].LostPaid = se[g][q].LostPaid

Issuing == \E z, t, paid, sent :
    /\ Issues(z, t, paid, sent) /\ RecordStep(z, t, sent)
    /\ DriftStep(paid, sent)
    /\ PriceStep(z, t, paid) /\ LevelStep(z) /\ PoolStep(paid, sent)
Claiming == \E g \in GroupIx, q \in Account : \E d, e : LossStep(g, q, d, e)

SumsStep ==
    /\ \A v, r \in Account : book'[v][r].nonce >= book[v][r].nonce
    /\ \/ Issuing /\ LossesKept
       \/ Claiming /\ MintKept /\ UNCHANGED <<added, erc>>
       \/ /\ LossesKept /\ UNCHANGED <<mint, added, unsent, drift>>
          /\ erc'.money[Pool] <= erc.money[Pool]

\* Every step is one of these.
LEMMA NextSums == RoleInv /\ TypeInv /\ [Next]_vars => SumsStep
  <1> SUFFICES ASSUME RoleInv, TypeInv, [Next]_vars PROVE SumsStep
    OBVIOUS
  <1> DEFINE Quiet == /\ book' = book /\ se' = se /\ erc' = erc
                      /\ UNCHANGED <<mint, added, unsent, drift>>
  <1>1. erc \in Ledger /\ RestTypes /\ Pool \in Address /\ erc.money[Pool] \in Int
    BY RoleTypes, TypeParts, RoleAssumption DEF Ledger
  <1>2. \A v, r \in Account : book[v][r] \in Book /\ book[v][r].nonce \in Nat
    BY DEF RoleInv, MemberTypes, Book
  <1>3. Quiet => SumsStep
    BY <1>1, <1>2 DEF SumsStep, LossesKept
  <1>4. CASE Tick
    BY <1>3, <1>4 DEF Tick
  <1>5. CASE CreateGroup
    BY <1>3, <1>5 DEF CreateGroup
  <1>6. CASE \E g \in GroupIx : SetReady(g)
    BY <1>3, <1>6 DEF SetReady
  <1>7. CASE \E a \in Account, role \in {"keeper", "provider"} :
                role \in Asks[a] /\ RegisterRole(a, role)
    BY <1>3, <1>7 DEF RegisterRole
  <1>8. CASE \E a \in Account, g \in GroupIx :
                \/ "user" \in Asks[a] /\ RegisterUser(a, g)
                \/ AddKeeperToGroup(a, g)
                \/ AddProviderToGroup(a, g)
    BY <1>3, <1>8 DEF RegisterUser, AddKeeperToGroup, AddProviderToGroup
  <1>9. CASE \E a \in Payers :
                \/ Recharge(a)
                \/ \E shared \in BOOLEAN : WithdrawFromFs(a, shared)
    BY <1>3, <1>9 DEF Recharge, WithdrawFromFs
  <1>10. CASE \E v \in Gifts : Fund(v)
    <2>1. PICK v \in Gifts : Fund(v)
      BY <1>10
    <2>2. /\ UNCHANGED <<mint, added, unsent, drift, book, se>>
          /\ erc' = ErcTransfer(erc, Admin, RoleAddr, v)
      BY <2>1 DEF Fund
    <2>3. v \in Nat /\ Admin \in Address /\ RoleAddr \in Address /\ Pool # RoleAddr
      BY RoleAssumption
    <2>4. erc'.money[Pool] =
            IF ErcCanTransfer(erc, Admin, v)
            THEN erc.money[Pool] + (IF Pool = RoleAddr THEN v ELSE 0)
                                 - (IF Pool = Admin THEN v ELSE 0)
            ELSE erc.money[Pool]
      <3>1. v \in Int
        BY <2>3
      <3>2. \A x \in Address : ErcTransfer(erc, Admin, RoleAddr, v).money[x] =
                IF ErcCanTransfer(erc, Admin, v)
                THEN erc.money[x] + (IF x = RoleAddr THEN v ELSE 0)
                                  - (IF x = Admin THEN v ELSE 0)
                ELSE erc.money[x]
        <4>1. erc \in Ledger
          BY <1>1
        <4> QED
          BY <2>3, <3>1, <4>1, TransferLedger
      <3> QED
        BY <1>1, <2>2, <3>2
    <2>5. erc'.money[Pool] <= erc.money[Pool]
      BY <1>1, <2>3, <2>4
    <2> QED
      BY <1>2, <2>2, <2>5 DEF SumsStep, LossesKept
  <1>11. CASE \E u, p \in Account : \E n \in Nonces(u, p) :
                AddOrder(u, p, n) \/ SubOrder(u, p, n)
    <2>0. PICK u \in Account, p \in Account : \E n \in Nonces(u, p) :
                AddOrder(u, p, n) \/ SubOrder(u, p, n)
      BY <1>11
    <2>1. PICK n \in Nonces(u, p) : AddOrder(u, p, n) \/ SubOrder(u, p, n)
      BY <2>0
    <2>2. CASE AddOrder(u, p, n)
      <3>1. /\ Issuing \/ UNCHANGED <<mint, erc, added, unsent, drift>>
            /\ LossesKept
            /\ \A v, r \in Account : book'[v][r].nonce >= book[v][r].nonce
        BY <2>2, AddOrderIs DEF Issuing, LossesKept
      <3> QED
        BY <1>1, <3>1 DEF SumsStep
    <2>3. CASE SubOrder(u, p, n)
      <3>1. /\ UNCHANGED <<mint, added, unsent, drift, se, erc>>
            /\ book' = [book EXCEPT ![u][p].subNonce = @ + 1]
        BY <2>3 DEF SubOrder, MaySub
      <3>2. \A v, r \in Account : book'[v][r].nonce = book[v][r].nonce
        <4>1. book \in [Account -> [Account -> Book]] /\ book[u][p] \in Book
          BY DEF RoleInv, MemberTypes
        <4> DEFINE new == [book[u][p] EXCEPT !.subNonce = @ + 1]
        <4>2. new.nonce = book[u][p].nonce
          BY <4>1 DEF Book
        <4>3. book' = [book EXCEPT ![u][p] = new]
          BY <3>1
        <4> HIDE DEF new
        <4> QED
          BY <4>1, <4>2, <4>3
      <3> QED
        BY <1>1, <1>2, <3>1, <3>2 DEF SumsStep, LossesKept
    <2> QED
      BY <2>1, <2>2, <2>3
  <1>12. CASE \E p \in Account, outcome \in Outcomes : \E lost \in Losses[p] :
                ProWithdraw(p, lost, outcome)
    <2>1. Claiming /\ MintKept /\ UNCHANGED <<added, erc, book>>
      BY <1>1, <1>12, ProWithdrawIs DEF Claiming
    <2> QED
      BY <1>2, <2>1 DEF SumsStep
  <1>13. CASE \E p, q \in Account : \E n \in 0 .. Len(RepairPays[q]) - 1 :
                AddRepair(p, q, n)
    <2>1. Claiming /\ MintKept /\ UNCHANGED <<added, erc, book>>
      BY <1>1, <1>13, AddRepairIs DEF Claiming
    <2> QED
      BY <1>2, <2>1 DEF SumsStep
  <1>14. CASE UNCHANGED vars
    BY <1>3, <1>14 DEF vars
  <1> QED
    BY <1>4, <1>5, <1>6, <1>7, <1>8, <1>9, <1>10, <1>11, <1>12, <1>13, <1>14
    DEF Next

\* Each order was added once, with the nonce it has, and at a time that is
\* issued; if it was over then, its end is issued, too.
AddedInv ==
    /\ IsFiniteSet(added)
    /\ \A x \in added : /\ x \in Added /\ x.nonce \in Nonces(x.user, x.pro)
                        /\ x.nonce < book[x.user][x.pro].nonce
                        /\ x.since <= mint.lastMint
                        /\ x.late => TermsOf(x).end <= mint.lastMint

\* A new record is not among the old ones.
LEMMA RecordNew ==
    ASSUME RoleInv, AddedInv, NEW z, NEW t, NEW sent, RecordStep(z, t, sent)
    PROVE  z \notin added
  <1>1. book[z.user][z.pro].nonce \in Nat
    BY DEF RoleInv, MemberTypes, Book, RecordStep, Added
  <1> QED
    BY <1>1 DEF AddedInv, RecordStep

\* Fields of a record.
LEMMA AddedFields ==
    ASSUME NEW x \in Added, x.nonce \in Nonces(x.user, x.pro)
    PROVE  /\ x.user \in Account /\ x.pro \in Account /\ x.nonce \in Nat
           /\ x.since \in Nat /\ x.late \in BOOLEAN
           /\ TermsOf(x).end \in Boundaries /\ TermsOf(x).end \in Nat
           /\ TermsOf(x).sprice \in Int /\ TermsOf(x).size \in Nat
           /\ Prices[x] = TermsOf(x).sprice /\ Sizes[x] = TermsOf(x).size
           /\ Spans[x] = SpaceTime(TermsOf(x)) /\ Spans[x] \in Nat
  <1>1. TermsOf(x) \in Order /\ TermsOf(x).start < TermsOf(x).end
    BY SignedTerms
  <1>2. PICK o : o = TermsOf(x)
    OBVIOUS
  <1>3. /\ o.start \in Nat /\ o.end \in Boundaries /\ o.end \in Nat
        /\ o.size \in Nat \ {0} /\ o.sprice \in Int /\ o.start < o.end
    BY <1>1, <1>2, OrderFields
  <1>4. SpaceTime(o) \in Nat
    <2>1. o.end - o.start \in Nat
      BY <1>3
    <2> QED
      BY <1>3, <2>1, TimesIsNat DEF SpaceTime
  <1> QED
    BY <1>2, <1>3, <1>4 DEF Added, Prices, Sizes, Spans

\* The records are as they should be.
LEMMA AddedStep ==
    ASSUME RoleInv, RoleInv', TypeInv, TypeInv', AddedInv, SumsStep
    PROVE  AddedInv'
  <1>1. \A v, r \in Account : /\ book[v][r].nonce \in Nat
                             /\ book'[v][r].nonce \in Nat
                             /\ book'[v][r].nonce >= book[v][r].nonce
    BY DEF RoleInv, MemberTypes, Book, SumsStep
  <1>2. mint.lastMint \in Nat /\ mint'.lastMint \in Nat
    BY RoleTypes, MintFields DEF TypeInv, TypeOK
  <1>3. ASSUME mint'.lastMint >= mint.lastMint, NEW x \in added
        PROVE  /\ x \in Added /\ x.nonce \in Nonces(x.user, x.pro)
               /\ x.nonce < book'[x.user][x.pro].nonce
               /\ x.since <= mint'.lastMint
               /\ x.late => TermsOf(x).end <= mint'.lastMint
    <2>1. /\ x \in Added /\ x.nonce \in Nonces(x.user, x.pro)
          /\ x.nonce < book[x.user][x.pro].nonce
          /\ x.since <= mint.lastMint
          /\ x.late => TermsOf(x).end <= mint.lastMint
      BY DEF AddedInv
    <2>2. /\ x.user \in Account /\ x.pro \in Account /\ x.nonce \in Nat
          /\ x.since \in Nat /\ TermsOf(x).end \in Nat
      BY <2>1, AddedFields
    <2> QED
      BY <1>1, <1>2, <1>3, <2>1, <2>2
  <1>4. CASE Issuing
    <2>1. PICK z, t, paid, sent : /\ Issues(z, t, paid, sent)
                                  /\ RecordStep(z, t, sent)
                                  /\ PriceStep(z, t, paid)
      BY <1>4 DEF Issuing
    <2>2. /\ t \in Nat /\ mint.lastMint <= t /\ mint'.lastMint = z.since
          /\ z.since = IF sent THEN t ELSE mint.lastMint
          /\ added' = added \cup {z}
          /\ z \in Added /\ z.nonce \in Nonces(z.user, z.pro)
          /\ book'[z.user][z.pro].nonce = z.nonce + 1
          /\ z.late <=> TermsOf(z).end <= mint.lastMint
      BY <2>1 DEF Issues, RecordStep, PriceStep
    <2>3. mint'.lastMint >= mint.lastMint
      BY <1>2, <2>2
    <2>4. /\ z.nonce \in Nat /\ TermsOf(z).end \in Nat
      BY <2>2, AddedFields
    <2>5. IsFiniteSet(added')
      BY <2>2, FS_AddElement DEF AddedInv
    <2>6. /\ z.nonce < book'[z.user][z.pro].nonce
          /\ z.since <= mint'.lastMint
          /\ z.late => TermsOf(z).end <= mint'.lastMint
      BY <1>2, <2>2, <2>3, <2>4
    <2>7. ASSUME NEW x \in added'
          PROVE  /\ x \in Added /\ x.nonce \in Nonces(x.user, x.pro)
                 /\ x.nonce < book'[x.user][x.pro].nonce
                 /\ x.since <= mint'.lastMint
                 /\ x.late => TermsOf(x).end <= mint'.lastMint
      BY <1>3, <2>2, <2>3, <2>6
    <2> QED
      BY <2>5, <2>7 DEF AddedInv
  <1>5. CASE added' = added /\ mint'.lastMint = mint.lastMint
    <2>1. mint'.lastMint >= mint.lastMint
      BY <1>2, <1>5
    <2> QED
      BY <1>3, <1>5, <2>1 DEF AddedInv
  <1> QED
    BY <1>4, <1>5 DEF SumsStep, MintKept

\* A sum over one element more, whose other entries lose what c says.
LEMMA SumShift ==
    ASSUME NEW S, IsFiniteSet(S), NEW z, z \notin S, NEW T, T = S \cup {z},
           NEW a, NEW b, NEW c, NEW v \in Int,
           \A x \in S : a[x] \in Int /\ c[x] \in Int /\ b[x] = a[x] - c[x],
           c[z] \in Int, b[z] = v - c[z]
    PROVE  /\ SumFunctionOnSet(b, T)
                = SumFunctionOnSet(a, S) - SumFunctionOnSet(c, T) + v
           /\ SumFunctionOnSet(a, S) \in Int /\ SumFunctionOnSet(c, T) \in Int
  <1>1. IsFiniteSet(T) /\ z \in T /\ T \ {z} = S
    BY FS_AddElement
  <1>2. \A x \in T : b[x] \in Int /\ c[x] \in Int
    OBVIOUS
  <1>3. /\ SumFunctionOnSet(b, T) = b[z] + SumFunctionOnSet(b, S)
        /\ SumFunctionOnSet(c, T) = c[z] + SumFunctionOnSet(c, S)
    BY <1>1, <1>2, SumRemove
  <1>4. SumFunctionOnSet(a, S) = SumFunctionOnSet(b, S) + SumFunctionOnSet(c, S)
    <2>1. \A x \in S : b[x] \in Int /\ c[x] \in Int /\ a[x] = b[x] + c[x]
      OBVIOUS
    <2> QED
      BY <2>1, SumOfSums
  <1>5. SumFunctionOnSet(b, S) \in Int /\ SumFunctionOnSet(c, S) \in Int
    BY <1>2, SumType
  <1> QED
    BY <1>3, <1>4, <1>5

\* Weights of the records, and those that are not negative.
Weights(w, S)  == \A x \in S : w[x] \in Int
Positive(w, S) == \A x \in S : w[x] \in Nat

\* The sum of those that end at b grows by a new record that does.
LEMMA EndingAdd ==
    ASSUME NEW S, IsFiniteSet(S), NEW z, z \notin S, NEW T, T = S \cup {z},
           NEW w, Weights(w, T), NEW b
    PROVE  Ending(w, T, b)
             = Ending(w, S, b) + (IF TermsOf(z).end = b THEN w[z] ELSE 0)
  <1> DEFINE f == [x \in S |-> IF TermsOf(x).end = b THEN w[x] ELSE 0]
             h == [x \in T |-> IF TermsOf(x).end = b THEN w[x] ELSE 0]
  <1>1. /\ \A x \in S : f[x] \in Int /\ h[x] = f[x]
        /\ h[z] = IF TermsOf(z).end = b THEN w[z] ELSE 0
        /\ \A x \in T : h[x] \in Int
    BY DEF Weights
  <1>2. Ending(w, T, b) = SumFunctionOnSet(h, T) /\ Ending(w, S, b) = SumFunctionOnSet(f, S)
    BY DEF Ending
  <1> HIDE DEF f, h
  <1>3. IsFiniteSet(T) /\ z \in T /\ T \ {z} = S
    BY FS_AddElement
  <1>4. SumFunctionOnSet(h, T) = h[z] + SumFunctionOnSet(h, S)
    BY <1>1, <1>3, SumRemove
  <1>5. SumFunctionOnSet(h, S) = SumFunctionOnSet(f, S)
    BY <1>1, SumSame
  <1>6. SumFunctionOnSet(f, S) \in Int
    BY <1>1, SumType
  <1> QED
    BY <1>1, <1>2, <1>4, <1>5, <1>6

\* Sums of weights are amounts, and not negative if no weight is.
LEMMA WeightSums ==
    ASSUME NEW S, IsFiniteSet(S), NEW w, Weights(w, S), NEW l
    PROVE  /\ Running(w, S, l) \in Int /\ Ending(w, S, l) \in Int
           /\ Positive(w, S) => Running(w, S, l) \in Nat /\ Ending(w, S, l) \in Nat
  <1> DEFINE f == [x \in S |-> IF TermsOf(x).end = l THEN w[x] ELSE 0]
             h == [x \in S |-> IF RunsAt(x, l) THEN w[x] ELSE 0]
  <1>1. /\ \A x \in S : f[x] \in Int /\ h[x] \in Int
        /\ Positive(w, S) => \A x \in S : f[x] \in Nat /\ h[x] \in Nat
    BY DEF Weights, Positive
  <1>2. Ending(w, S, l) = SumFunctionOnSet(f, S) /\ Running(w, S, l) = SumFunctionOnSet(h, S)
    BY DEF Ending, Running
  <1> HIDE DEF f, h
  <1>3. SumFunctionOnSet(f, S) \in Int /\ SumFunctionOnSet(h, S) \in Int
    BY <1>1, SumType
  <1>4. ASSUME Positive(w, S)
        PROVE  SumFunctionOnSet(f, S) \in Nat /\ SumFunctionOnSet(h, S) \in Nat
    BY <1>1, <1>4, SumNat
  <1> QED
    BY <1>2, <1>3, <1>4

\* z joins the orders S as they are issued from l up to t: those that end in
\* between end at the boundary B, if one is crossed (K), and a late one is one
\* over at l.
Stops(S, z, T, l, t, B, K) ==
  /\ IsFiniteSet(S) /\ z \notin S /\ T = S \cup {z}
  /\ l \in Nat /\ t \in Nat /\ l <= t /\ K \in BOOLEAN
  /\ \A x \in T : TermsOf(x).end \in Nat
  /\ \A x \in T : (l < TermsOf(x).end /\ TermsOf(x).end <= t)
                     <=> (K /\ TermsOf(x).end = B)
  /\ \A x \in S : x.late => TermsOf(x).end <= l
  /\ z.late <=> TermsOf(z).end <= l

\* Issuing up to t stops the orders that end at the boundary crossed, the new
\* one among them.
LEMMA RunningStep ==
    ASSUME NEW S, NEW z, NEW T, NEW w, NEW l, NEW t, NEW B, NEW K,
           Stops(S, z, T, l, t, B, K), Weights(w, T)
    PROVE  Running(w, T, t) = Running(w, S, l)
                                - (IF K THEN Ending(w, T, B) ELSE 0) + w[z]
  <1> USE DEF Stops
  <1> DEFINE a == [x \in S |-> IF RunsAt(x, l) THEN w[x] ELSE 0]
             b == [x \in T |-> IF RunsAt(x, t) THEN w[x] ELSE 0]
             c == [x \in T |-> IF K /\ TermsOf(x).end = B THEN w[x] ELSE 0]
             d == [x \in T |-> IF TermsOf(x).end = B THEN w[x] ELSE 0]
  <1>1. \A x \in S : a[x] \in Int /\ c[x] \in Int /\ b[x] = a[x] - c[x]
    <2> SUFFICES ASSUME NEW x \in S
                 PROVE  a[x] \in Int /\ c[x] \in Int /\ b[x] = a[x] - c[x]
      OBVIOUS
    <2>1. PICK e \in Nat : e = TermsOf(x).end
      OBVIOUS
    <2>2. /\ w[x] \in Int
          /\ (l < e /\ e <= t) <=> (K /\ e = B)
          /\ x.late => e <= l
      BY <2>1 DEF Weights
    <2>3. /\ RunsAt(x, l) <=> (x.late \/ l < e)
          /\ RunsAt(x, t) <=> (x.late \/ t < e)
      BY <2>1 DEF RunsAt
    <2>4. /\ a[x] = IF RunsAt(x, l) THEN w[x] ELSE 0
          /\ b[x] = IF RunsAt(x, t) THEN w[x] ELSE 0
          /\ c[x] = IF K /\ e = B THEN w[x] ELSE 0
      BY <2>1
    <2> HIDE DEF a, b, c
    <2>5. CASE K /\ e = B
      <3>1. RunsAt(x, l) /\ ~RunsAt(x, t)
        BY <2>2, <2>3, <2>5
      <3> QED
        BY <2>2, <2>4, <2>5, <3>1
    <2>6. CASE ~(K /\ e = B)
      <3>1. RunsAt(x, l) <=> RunsAt(x, t)
        <4>1. ~(l < e /\ e <= t)
          BY <2>2, <2>6
        <4> QED
          BY <2>3, <4>1
      <3> QED
        BY <2>2, <2>4, <2>6, <3>1
    <2> QED
      BY <2>5, <2>6
  <1>2. c[z] \in Int /\ b[z] = w[z] - c[z] /\ w[z] \in Int
    <2>1. PICK e \in Nat : e = TermsOf(z).end
      OBVIOUS
    <2>2. /\ w[z] \in Int
          /\ (l < e /\ e <= t) <=> (K /\ e = B)
          /\ z.late <=> e <= l
      BY <2>1 DEF Weights
    <2>3. RunsAt(z, t) <=> (z.late \/ t < e)
      BY <2>1 DEF RunsAt
    <2>4. /\ b[z] = IF RunsAt(z, t) THEN w[z] ELSE 0
          /\ c[z] = IF K /\ e = B THEN w[z] ELSE 0
      BY <2>1
    <2> HIDE DEF a, b, c
    <2>5. CASE K /\ e = B
      <3>1. ~RunsAt(z, t)
        BY <2>2, <2>3, <2>5
      <3> QED
        BY <2>2, <2>4, <2>5, <3>1
    <2>6. CASE ~(K /\ e = B)
      <3>1. RunsAt(z, t)
        <4>1. ~(l < e /\ e <= t)
          BY <2>2, <2>6
        <4> QED
          BY <2>2, <2>3, <4>1
      <3> QED
        BY <2>2, <2>4, <2>6, <3>1
    <2> QED
      BY <2>5, <2>6
  <1>3. SumFunctionOnSet(c, T) = IF K THEN Ending(w, T, B) ELSE 0
    <2>1. IsFiniteSet(T)
      BY FS_AddElement
    <2>2. CASE K
      <3>1. c = d
        BY <2>2
      <3> QED
        BY <2>2, <3>1 DEF Ending
    <2>3. CASE ~K
      <3>1. \A x \in T : c[x] = 0
        BY <2>3
      <3> HIDE DEF c
      <3> QED
        BY <2>1, <2>3, <3>1, SumZero
    <2> QED
      BY <2>2, <2>3
  <1>4. Running(w, T, t) = SumFunctionOnSet(b, T) /\ Running(w, S, l) = SumFunctionOnSet(a, S)
    BY DEF Running
  <1> HIDE DEF a, b, c
  <1>5. SumFunctionOnSet(b, T)
           = SumFunctionOnSet(a, S) - SumFunctionOnSet(c, T) + w[z]
    BY <1>1, <1>2, SumShift
  <1> QED
    BY <1>3, <1>4, <1>5

\* Where nothing is issued, the new order runs with the others.
LEMMA RunningKept ==
    ASSUME NEW S, IsFiniteSet(S), NEW z, z \notin S, NEW T, T = S \cup {z},
           NEW w, Weights(w, T), NEW l \in Nat, TermsOf(z).end \in Nat,
           z.late <=> TermsOf(z).end <= l
    PROVE  Running(w, T, l) = Running(w, S, l) + w[z]
  <1> DEFINE a == [x \in S |-> IF RunsAt(x, l) THEN w[x] ELSE 0]
             b == [x \in T |-> IF RunsAt(x, l) THEN w[x] ELSE 0]
  <1>1. \A x \in S : a[x] \in Int /\ b[x] = a[x]
    BY DEF Weights
  <1>2. b[z] = w[z] /\ b[z] \in Int
    BY DEF Weights, RunsAt
  <1>3. IsFiniteSet(T) /\ z \in T /\ T \ {z} = S
    BY FS_AddElement
  <1>4. Running(w, T, l) = SumFunctionOnSet(b, T) /\ Running(w, S, l) = SumFunctionOnSet(a, S)
    BY DEF Running
  <1>5. \A x \in T : b[x] \in Int
    BY <1>1, <1>2
  <1> HIDE DEF a, b
  <1>6. SumFunctionOnSet(b, T) = b[z] + SumFunctionOnSet(b, S)
    BY <1>3, <1>5, SumRemove
  <1>7. SumFunctionOnSet(b, S) = SumFunctionOnSet(a, S) /\ SumFunctionOnSet(a, S) \in Int
    BY <1>1, SumSame, SumType
  <1> QED
    BY <1>2, <1>4, <1>6, <1>7

-----------------------------------------------------------------------------
(***************************************************************************)
(* The price of what runs                                                  *)
(***************************************************************************)
\* The maps hold what ends at each boundary.
EndingInv ==
    \A b \in Boundaries : /\ mint.subPMap[b] = Ending(Prices, added, b)
                          /\ mint.subSMap[b] = Ending(Sizes, added, b)

\* The price and size are those of the orders that run.
PriceInv ==
    /\ mint.size <= Running(Sizes, added, mint.lastMint)
    /\ NoNegativePrice => mint.price <= Running(Prices, added, mint.lastMint)
    /\ ~unsent =>
          /\ mint.price = Running(Prices, added, mint.lastMint)
          /\ mint.size = Running(Sizes, added, mint.lastMint)

\* Records of signed orders.
Records(S) == \A x \in S : x \in Added /\ x.nonce \in Nonces(x.user, x.pro)

\* Their weights.
LEMMA RecordWeights ==
    ASSUME NEW S, Records(S)
    PROVE  /\ Weights(Prices, S) /\ Weights(Sizes, S) /\ Weights(Spans, S)
           /\ \A x \in S : TermsOf(x).end \in Nat /\ TermsOf(x).end \in Boundaries
           /\ \A x \in S : x.since \in Nat
           /\ \A x \in S : TermsOf(x).sprice \in Int /\ TermsOf(x).size \in Nat
           /\ Positive(Sizes, S)
           /\ (\A x \in S : TermsOf(x).sprice >= 0) => Positive(Prices, S)
           /\ \A x \in S : Prices[x] = TermsOf(x).sprice
           /\ \A x \in S : Sizes[x] = TermsOf(x).size
           /\ \A x \in S : Spans[x] = SpaceTime(TermsOf(x))
  BY AddedFields DEF Records, Weights, Positive

\* What is known as an order is issued for.
LEMMA IssuingContext ==
    ASSUME RoleInv, TypeInv, AddedInv, NEW z, NEW t, NEW paid, NEW sent,
           Issues(z, t, paid, sent), RecordStep(z, t, sent),
           PriceStep(z, t, paid)
    PROVE  /\ IsFiniteSet(added) /\ z \notin added /\ added' = added \cup {z}
           /\ Records(added) /\ Records(added') /\ IsFiniteSet(added')
           /\ mint.lastMint \in Nat /\ t \in Nat /\ mint.lastMint <= t
           /\ t <= mint.lastMint + Day /\ t <= MaxTime
           /\ Crosses(mint, t) \in BOOLEAN
           /\ LastBoundary(t) \in Boundaries /\ LastBoundary(t) <= t
           /\ LastBoundary(t) \in Nat
           /\ Crosses(mint, t) => mint.lastMint < LastBoundary(t)
           /\ \A x \in added' :
                 (mint.lastMint < TermsOf(x).end /\ TermsOf(x).end <= t)
                    <=> (Crosses(mint, t) /\ TermsOf(x).end = LastBoundary(t))
           /\ \A x \in added : x.late => TermsOf(x).end <= mint.lastMint
           /\ z.late <=> TermsOf(z).end <= mint.lastMint
  <1>1. /\ t \in Nat /\ mint.lastMint <= t /\ t <= mint.lastMint + Day
        /\ t <= now
        /\ z \in Added /\ z.nonce \in Nonces(z.user, z.pro)
        /\ z.late <=> TermsOf(z).end <= mint.lastMint
        /\ added' = added \cup {z}
    BY DEF Issues, RecordStep
  <1>2. mint.lastMint \in Nat /\ t <= MaxTime
    BY <1>1, RoleTypes, IssuingConstants
  <1>3. z \notin added
    BY RecordNew
  <1>4. IsFiniteSet(added) /\ IsFiniteSet(added')
    BY <1>1, FS_AddElement DEF AddedInv
  <1>5. Records(added) /\ Records(added')
    BY <1>1 DEF Records, AddedInv
  <1>6. /\ \A b \in Boundaries : (mint.lastMint < b /\ b <= t)
                                    <=> (Crosses(mint, t) /\ b = LastBoundary(t))
        /\ Crosses(mint, t) => mint.lastMint < LastBoundary(t)
        /\ LastBoundary(t) <= t
    BY <1>1, <1>2, CrossedBoundary
  <1>7. \A x \in added' : TermsOf(x).end \in Boundaries
    BY <1>5, RecordWeights
  <1>8. LastBoundary(t) \in Boundaries /\ LastBoundary(t) \in Nat
    BY <1>1, <1>2, BoundaryType
  <1>9. \A x \in added : x.late => TermsOf(x).end <= mint.lastMint
    BY DEF AddedInv
  <1>10. Crosses(mint, t) \in BOOLEAN
    BY DEF Crosses
  <1> QED
    BY <1>1, <1>2, <1>3, <1>4, <1>5, <1>6, <1>7, <1>8, <1>9, <1>10

\* The maps follow the orders.
LEMMA EndingStep ==
    ASSUME RoleInv, TypeInv, AddedInv, SumsStep, EndingInv
    PROVE  EndingInv'
  <1>1. CASE Issuing
    <2>1. PICK z, t, paid, sent : /\ Issues(z, t, paid, sent)
                                  /\ RecordStep(z, t, sent)
                                  /\ PriceStep(z, t, paid)
      BY <1>1 DEF Issuing
    <2>2. /\ IsFiniteSet(added) /\ z \notin added /\ added' = added \cup {z}
          /\ Records(added) /\ Records(added') /\ z \in added'
      BY <2>1, IssuingContext
    <2>3. /\ Weights(Prices, added') /\ Weights(Sizes, added')
          /\ TermsOf(z).end \in Boundaries
          /\ Prices[z] = TermsOf(z).sprice /\ Sizes[z] = TermsOf(z).size
          /\ TermsOf(z).sprice \in Int /\ TermsOf(z).size \in Nat
      BY <2>2, RecordWeights
    <2>4. mint.subPMap \in [Boundaries -> Int] /\ mint.subSMap \in [Boundaries -> Int]
      BY RoleTypes, MintFields
    <2>5. PICK o : o = TermsOf(z)
      OBVIOUS
    <2>6. /\ mint'.subPMap = [mint.subPMap EXCEPT ![o.end] = @ + o.sprice]
          /\ mint'.subSMap = [mint.subSMap EXCEPT ![o.end] = @ + o.size]
      BY <2>1, <2>5 DEF PriceStep
    <2>7. ASSUME NEW b \in Boundaries
          PROVE  /\ mint'.subPMap[b] = Ending(Prices, added', b)
                 /\ mint'.subSMap[b] = Ending(Sizes, added', b)
      <3>1. /\ mint.subPMap[b] = Ending(Prices, added, b)
            /\ mint.subSMap[b] = Ending(Sizes, added, b)
            /\ mint.subPMap[b] \in Int /\ mint.subSMap[b] \in Int
        BY <2>4 DEF EndingInv
      <3>2. Ending(Prices, added', b) = Ending(Prices, added, b)
                   + (IF o.end = b THEN Prices[z] ELSE 0)
        BY <2>2, <2>3, <2>5, EndingAdd
      <3>3. Ending(Sizes, added', b) = Ending(Sizes, added, b)
                   + (IF o.end = b THEN Sizes[z] ELSE 0)
        BY <2>2, <2>3, <2>5, EndingAdd
      <3>4. /\ mint'.subPMap[b] = mint.subPMap[b] + (IF o.end = b THEN o.sprice ELSE 0)
            /\ mint'.subSMap[b] = mint.subSMap[b] + (IF o.end = b THEN o.size ELSE 0)
        BY <2>3, <2>4, <2>5, <2>6, <3>1
      <3> QED
        BY <2>3, <2>5, <3>1, <3>2, <3>3, <3>4
    <2> QED
      BY <2>7 DEF EndingInv
  <1>2. CASE UNCHANGED added /\ mint'.subPMap = mint.subPMap
                /\ mint'.subSMap = mint.subSMap
    BY <1>2 DEF EndingInv
  <1> QED
    BY <1>1, <1>2 DEF SumsStep, MintKept

\* The price and size follow the orders, boundaries and failed sends.
LEMMA PriceStepKeeps ==
    ASSUME RoleInv, TypeInv, AddedInv, SumsStep, EndingInv', PriceInv
    PROVE  PriceInv'
  <1>1. CASE Issuing
    <2>1. PICK z, t, paid, sent : /\ Issues(z, t, paid, sent)
                                  /\ RecordStep(z, t, sent)
                                  /\ PriceStep(z, t, paid)
      BY <1>1 DEF Issuing
    <2>2. PICK B : B = LastBoundary(t)
      OBVIOUS
    <2>3. PICK K : K = Crosses(mint, t)
      OBVIOUS
    <2>4. PICK l : l = mint.lastMint
      OBVIOUS
    <2>5. PICK T : T = added'
      OBVIOUS
    <2>6. /\ IsFiniteSet(added) /\ z \notin added /\ T = added \cup {z} /\ z \in T
          /\ Records(T) /\ Records(added) /\ l \in Nat /\ t \in Nat /\ l <= t
          /\ K \in BOOLEAN /\ B \in Boundaries /\ IsFiniteSet(T)
      BY <2>1, <2>2, <2>3, <2>4, <2>5, IssuingContext
    <2>7. \A x \in T : (l < TermsOf(x).end /\ TermsOf(x).end <= t)
                           <=> (K /\ TermsOf(x).end = B)
      BY <2>1, <2>2, <2>3, <2>4, <2>5, IssuingContext
    <2>8. /\ \A x \in added : x.late => TermsOf(x).end <= l
          /\ z.late <=> TermsOf(z).end <= l
      BY <2>1, <2>4, IssuingContext
    <2>9. /\ Weights(Prices, T) /\ Weights(Sizes, T)
          /\ Weights(Prices, added) /\ Weights(Sizes, added)
          /\ Positive(Sizes, T) /\ Positive(Sizes, added)
          /\ NoNegativePrice' => Positive(Prices, T) /\ NoNegativePrice
          /\ \A x \in T : TermsOf(x).end \in Nat
          /\ TermsOf(z).end \in Nat
          /\ Prices[z] = TermsOf(z).sprice /\ Sizes[z] = TermsOf(z).size
      BY <2>5, <2>6, RecordWeights DEF NoNegativePrice, TermsOf
    <2>10. PICK e : e = IF K THEN Ending(Prices, T, B) ELSE 0
      OBVIOUS
    <2>11. PICK f : f = IF K THEN Ending(Sizes, T, B) ELSE 0
      OBVIOUS
    <2>12. /\ e \in Int /\ f \in Nat /\ (NoNegativePrice' => e \in Nat)
           /\ Running(Prices, added, l) \in Int /\ Running(Sizes, added, l) \in Nat
           /\ Prices[z] \in Int /\ Sizes[z] \in Nat
           /\ mint.price \in Int /\ mint.size \in Int
      <3>1. /\ Ending(Prices, T, B) \in Int /\ Ending(Sizes, T, B) \in Nat
            /\ NoNegativePrice' => Ending(Prices, T, B) \in Nat
        BY <2>6, <2>9, WeightSums
      <3>2. Running(Prices, added, l) \in Int /\ Running(Sizes, added, l) \in Nat
        BY <2>6, <2>9, WeightSums
      <3> QED
        BY <2>6, <2>9, <2>10, <2>11, <3>1, <3>2, RoleTypes, MintFields
        DEF Weights, Positive
    <2>13. /\ mint'.price = mint.price - e + Prices[z]
           /\ mint'.size = mint.size - f + Sizes[z]
      <3>1. /\ mint'.price = mint.price
                - (IF K THEN mint'.subPMap[B] ELSE 0) + TermsOf(z).sprice
            /\ mint'.size = mint.size
                - (IF K THEN mint'.subSMap[B] ELSE 0) + TermsOf(z).size
        BY <2>1, <2>2, <2>3 DEF PriceStep
      <3>2. /\ mint'.subPMap[B] = Ending(Prices, T, B)
            /\ mint'.subSMap[B] = Ending(Sizes, T, B)
        BY <2>5, <2>6 DEF EndingInv
      <3> QED
        BY <2>9, <2>10, <2>11, <3>1, <3>2
    <2>14. CASE sent
      <3>1. mint'.lastMint = t /\ unsent' = unsent
        BY <2>1, <2>14 DEF RecordStep, PriceStep, TypeInv, TypeOK
      <3>a. Stops(added, z, T, l, t, B, K)
        BY ONLY <2>6, <2>7, <2>8, <2>9 DEF Stops
      <3>b. Weights(Prices, T)
        BY <2>9
      <3>c. Weights(Sizes, T)
        BY <2>9
      <3>2. Running(Prices, T, t) = Running(Prices, added, l) - e + Prices[z]
        BY ONLY <2>10, <3>a, <3>b, RunningStep
      <3>3. Running(Sizes, T, t) = Running(Sizes, added, l) - f + Sizes[z]
        BY ONLY <2>11, <3>a, <3>c, RunningStep
      <3>4. /\ mint.size <= Running(Sizes, added, l)
            /\ NoNegativePrice => mint.price <= Running(Prices, added, l)
            /\ ~unsent => /\ mint.price = Running(Prices, added, l)
                          /\ mint.size = Running(Sizes, added, l)
        BY <2>4 DEF PriceInv
      <3>5. /\ mint'.size <= Running(Sizes, T, t)
            /\ NoNegativePrice' => mint'.price <= Running(Prices, T, t)
            /\ ~unsent => /\ mint'.price = Running(Prices, T, t)
                          /\ mint'.size = Running(Sizes, T, t)
        BY <2>9, <2>12, <2>13, <3>2, <3>3, <3>4
      <3> QED
        BY <2>5, <3>1, <3>5 DEF PriceInv
    <2>15. CASE ~sent
      <3>1. mint'.lastMint = l /\ unsent'
        BY <2>1, <2>4, <2>15 DEF RecordStep, PriceStep
      <3>2. Running(Prices, T, l) = Running(Prices, added, l) + Prices[z]
        BY <2>6, <2>8, <2>9, RunningKept
      <3>3. Running(Sizes, T, l) = Running(Sizes, added, l) + Sizes[z]
        BY <2>6, <2>8, <2>9, RunningKept
      <3>4. /\ mint.size <= Running(Sizes, added, l)
            /\ NoNegativePrice => mint.price <= Running(Prices, added, l)
        BY <2>4 DEF PriceInv
      <3>5. /\ mint'.size <= Running(Sizes, T, l)
            /\ NoNegativePrice' => mint'.price <= Running(Prices, T, l)
        BY <2>9, <2>12, <2>13, <3>2, <3>3, <3>4
      <3> QED
        BY <2>5, <3>1, <3>5 DEF PriceInv
    <2> QED
      BY <2>14, <2>15
  <1>2. CASE /\ UNCHANGED <<added, unsent>> /\ mint'.price = mint.price
             /\ mint'.size = mint.size /\ mint'.lastMint = mint.lastMint
    BY <1>2 DEF PriceInv, NoNegativePrice, TermsOf
  <1> QED
    BY <1>1, <1>2 DEF SumsStep, MintKept, Claiming, LossStep

\* Time and space the orders add up to, and the level reached.
EarnedInv ==
    /\ mint.spaceTime <= SumFunctionOnSet(Spans, added)
    /\ mint.mintLevel > 0 =>
          Levels[mint.mintLevel + 1].Size * Levels[mint.mintLevel + 1].Duration
             <= SumFunctionOnSet(Spans, added)

\* A level is reached on what is there, and what is there only grows.
LEMMA EarnedStep ==
    ASSUME RoleInv, TypeInv, TypeInv', AddedInv, SumsStep, EarnedInv
    PROVE  EarnedInv'
  <1>1. CASE Issuing
    <2>1. PICK z, t, paid, sent : /\ Issues(z, t, paid, sent)
                                  /\ RecordStep(z, t, sent)
                                  /\ PriceStep(z, t, paid)
                                  /\ LevelStep(z)
      BY <1>1 DEF Issuing
    <2>2. /\ IsFiniteSet(added) /\ z \notin added /\ added' = added \cup {z}
          /\ Records(added) /\ Records(added') /\ z \in added' /\ IsFiniteSet(added')
      BY <2>1, IssuingContext
    <2>3. /\ Weights(Spans, added') /\ Spans[z] = SpaceTime(TermsOf(z))
      BY <2>2, RecordWeights
    <2>4. \A x \in added' : Spans[x] \in Int
      BY <2>3 DEF Weights
    <2>5. added' \ {z} = added
      BY <2>2
    <2>6. SumFunctionOnSet(Spans, added') = Spans[z] + SumFunctionOnSet(Spans, added)
      BY <2>2, <2>4, <2>5, SumRemove
    <2>7. PICK s : s = SumFunctionOnSet(Spans, added)
      OBVIOUS
    <2>8. s \in Int
      BY <2>2, <2>4, <2>7, SumType
    <2>9. PICK w : w = Spans[z]
      OBVIOUS
    <2>10. /\ w \in Nat
           /\ mint'.mintLevel < Len(Levels) /\ mint.mintLevel <= mint'.mintLevel
           /\ mint'.spaceTime <= mint.spaceTime + w
           /\ mint.mintLevel < mint'.mintLevel =>
                Levels[mint'.mintLevel + 1].Size
                    * Levels[mint'.mintLevel + 1].Duration <= mint.spaceTime + w
      BY <2>1, <2>3, <2>9 DEF LevelStep
    <2>11. /\ mint.spaceTime <= s
           /\ mint.mintLevel > 0 =>
                Levels[mint.mintLevel + 1].Size
                    * Levels[mint.mintLevel + 1].Duration <= s
      BY <2>7 DEF EarnedInv
    <2>12. /\ mint.mintLevel \in Nat /\ mint'.mintLevel \in Nat
           /\ mint.spaceTime \in Int /\ mint'.spaceTime \in Int
           /\ mint' \in Mint
      BY RoleTypes, MintFields DEF TypeInv, TypeOK
    <2>13. PICK y : y = Levels[mint'.mintLevel + 1].Size
                           * Levels[mint'.mintLevel + 1].Duration
      OBVIOUS
    <2>14. y \in Nat
      <3>1. /\ Levels[mint'.mintLevel + 1].Size \in Nat
            /\ Levels[mint'.mintLevel + 1].Duration \in Nat
        BY <2>10, <2>12, LevelType
      <3> QED
        BY <2>13, <3>1, TimesIsNat
    <2>15. mint'.mintLevel > 0 => y <= s + w
      <3>1. CASE mint.mintLevel < mint'.mintLevel
        <4>1. y <= mint.spaceTime + w
          BY <2>10, <2>13, <3>1
        <4> QED
          BY <2>8, <2>10, <2>11, <2>12, <2>14, <4>1
      <3>2. CASE mint.mintLevel = mint'.mintLevel
        <4>1. mint'.mintLevel > 0 => y <= s
          BY <2>11, <2>13, <3>2
        <4> QED
          BY <2>8, <2>10, <2>14, <4>1
      <3> QED
        BY <2>10, <2>12, <3>1, <3>2
    <2>16. SumFunctionOnSet(Spans, added') = s + w
      BY <2>6, <2>7, <2>8, <2>9, <2>10
    <2>17. mint'.spaceTime <= s + w
      BY <2>8, <2>10, <2>11, <2>12
    <2> QED
      BY <2>13, <2>15, <2>16, <2>17 DEF EarnedInv
  <1>2. CASE UNCHANGED added /\ mint'.spaceTime = mint.spaceTime
                /\ mint'.mintLevel = mint.mintLevel
    BY <1>2 DEF EarnedInv
  <1> QED
    BY <1>1, <1>2 DEF SumsStep, MintKept

\* Nothing is summed at the start.
LEMMA InitSums == Init => AddedInv /\ EndingInv /\ PriceInv /\ EarnedInv
  <1> SUFFICES ASSUME Init PROVE AddedInv /\ EndingInv /\ PriceInv /\ EarnedInv
    OBVIOUS
  <1>1. added = {} /\ mint = NewMint
    BY DEF Init
  <1>2. /\ mint.price = 0 /\ mint.size = 0 /\ mint.spaceTime = 0 /\ mint.mintLevel = 0
        /\ mint.subPMap = [b \in Boundaries |-> 0]
        /\ mint.subSMap = [b \in Boundaries |-> 0]
    BY <1>1 DEF NewMint
  <1>3. \A w, l : Running(w, {}, l) = 0 /\ Ending(w, {}, l) = 0
    BY SumEmpty DEF Running, Ending
  <1>4. AddedInv
    BY <1>1, FS_EmptySet DEF AddedInv
  <1>5. EndingInv
    BY <1>1, <1>2, <1>3 DEF EndingInv
  <1>6. PriceInv
    BY <1>1, <1>2, <1>3 DEF PriceInv
  <1>7. EarnedInv
    BY <1>1, <1>2, SumEmpty DEF EarnedInv
  <1> QED
    BY <1>4, <1>5, <1>6, <1>7

IssueInv == AddedInv /\ EndingInv /\ PriceInv /\ EarnedInv

\* The sums hold throughout.
LEMMA SumsInvariant == Spec => [](RoleInv /\ TypeInv /\ IssueInv)
  <1>1. Init => IssueInv
    BY InitSums DEF IssueInv
  <1>2. /\ RoleInv /\ TypeInv /\ (RoleInv /\ TypeInv)' /\ IssueInv /\ [Next]_vars
        => IssueInv'
    <2> SUFFICES ASSUME RoleInv, TypeInv, RoleInv', TypeInv', IssueInv, [Next]_vars
                 PROVE  IssueInv'
      OBVIOUS
    <2>1. SumsStep
      BY NextSums
    <2>2. AddedInv /\ EndingInv /\ PriceInv /\ EarnedInv
      BY DEF IssueInv
    <2>3. AddedInv'
      BY <2>1, <2>2, AddedStep
    <2>4. EndingInv'
      BY <2>1, <2>2, EndingStep
    <2>5. PriceInv'
      BY <2>1, <2>2, <2>4, PriceStepKeeps
    <2>6. EarnedInv'
      BY <2>1, <2>2, EarnedStep
    <2> QED
      BY <2>3, <2>4, <2>5, <2>6 DEF IssueInv
  <1> QED
    BY <1>1, <1>2, TypesInvariant, PTL DEF Spec

\* The running orders as PriceOfRunning sums them.
LEMMA RunningIs ==
    ASSUME NEW S, IsFiniteSet(S), NEW w, Weights(w, S), NEW l, NEW R,
           R = {x \in S : RunsAt(x, l)}, NEW f, DOMAIN f = R,
           \A x \in R : f[x] = w[x]
    PROVE  SumFunction(f) = Running(w, S, l)
  <1> DEFINE h == [x \in S |-> IF RunsAt(x, l) THEN w[x] ELSE 0]
  <1>1. Running(w, S, l) = SumFunctionOnSet(h, S)
    BY DEF Running
  <1>2. /\ \A x \in S : h[x] \in Int
        /\ \A x \in S \ R : h[x] = 0
        /\ \A x \in R : h[x] \in Int /\ f[x] = h[x]
        /\ R \in SUBSET S
    BY DEF Weights
  <1> HIDE DEF h
  <1>3. SumFunctionOnSet(h, S) = SumFunctionOnSet(h, R)
    BY <1>2, SumRestrict
  <1>4. IsFiniteSet(R)
    BY <1>2, FS_Subset
  <1>5. SumFunctionOnSet(f, R) = SumFunctionOnSet(h, R)
    BY <1>2, <1>4, SumSame
  <1> QED
    BY <1>1, <1>3, <1>5 DEF SumFunction

\* In every instance, what is issued per unit of time is the price of the orders
\* that run, however orders, boundaries and catching up interleave; a failed send
\* only makes the size less, and the price if no order has a negative one
\* (role.go:814, 852).
THEOREM RolePriceOfRunning == Spec => []PriceOfRunning
  <1>1. RoleInv /\ TypeInv /\ IssueInv => PriceOfRunning
    <2> SUFFICES ASSUME RoleInv, TypeInv, IssueInv PROVE PriceOfRunning
      OBVIOUS
    <2> DEFINE running == {x \in added : Runs(x)}
               f == [x \in running |-> TermsOf(x).sprice]
               h == [x \in running |-> TermsOf(x).size]
    <2>1. AddedInv /\ PriceInv
      BY DEF IssueInv
    <2>2. IsFiniteSet(added) /\ Records(added)
      BY <2>1 DEF AddedInv, Records
    <2>3. Weights(Prices, added) /\ Weights(Sizes, added)
      BY <2>2, RecordWeights
    <2>4. running = {x \in added : RunsAt(x, mint.lastMint)}
      BY DEF Runs, RunsAt
    <2>5. /\ \A x \in running : f[x] = Prices[x] /\ h[x] = Sizes[x]
          /\ DOMAIN f = running /\ DOMAIN h = running
      BY <2>2, RecordWeights
    <2>6. PICK p : p = SumFunction(f)
      OBVIOUS
    <2>7. PICK s : s = SumFunction(h)
      OBVIOUS
    <2>8. PriceOfRunning <=> /\ mint.size <= s
                             /\ NoNegativePrice => mint.price <= p
                             /\ ~unsent => mint.price = p /\ mint.size = s
      BY <2>6, <2>7 DEF PriceOfRunning
    <2> HIDE DEF f, h, running
    <2>9. p = Running(Prices, added, mint.lastMint)
      BY <2>2, <2>3, <2>4, <2>5, <2>6, RunningIs
    <2>10. s = Running(Sizes, added, mint.lastMint)
      BY <2>2, <2>3, <2>4, <2>5, <2>7, RunningIs
    <2> QED
      BY <2>1, <2>8, <2>9, <2>10 DEF PriceInv
  <1> QED
    BY <1>1, SumsInvariant, PTL

\* In every instance, the orders so far add up to the time and space the level
\* in force asks for: no ratio is granted too early (role.go:868).
THEOREM RoleLevelEarned == Spec => []LevelEarned
  <1>1. RoleInv /\ TypeInv /\ IssueInv => LevelEarned
    <2> SUFFICES ASSUME RoleInv, TypeInv, IssueInv PROVE LevelEarned
      OBVIOUS
    <2> DEFINE f == [x \in added |-> SpaceTime(TermsOf(x))]
    <2>1. AddedInv /\ EarnedInv
      BY DEF IssueInv
    <2>2. IsFiniteSet(added) /\ Records(added)
      BY <2>1 DEF AddedInv, Records
    <2>3. \A x \in added : Spans[x] \in Int /\ f[x] = Spans[x]
      BY <2>2, RecordWeights DEF Weights
    <2>4. SumFunction(f) = SumFunctionOnSet(f, added)
      BY DEF SumFunction
    <2>5. PICK s : s = SumFunction(f)
      OBVIOUS
    <2>6. PICK y : y = Levels[mint.mintLevel + 1].Size
                          * Levels[mint.mintLevel + 1].Duration
      OBVIOUS
    <2>7. LevelEarned <=> (mint.mintLevel > 0 => s >= y)
      BY <2>5, <2>6 DEF LevelEarned
    <2> HIDE DEF f
    <2>8. s = SumFunctionOnSet(Spans, added)
      BY <2>2, <2>3, <2>4, <2>5, SumSame
    <2>9. mint.mintLevel > 0 => y <= s
      BY <2>1, <2>6, <2>8 DEF EarnedInv
    <2>10. s \in Int
      BY <2>2, <2>3, <2>8, SumType
    <2>11. y \in Nat
      <3>1. mint.mintLevel \in Nat /\ mint.mintLevel < Len(Levels) /\ mint \in Mint
        BY RoleTypes, MintFields
      <3>2. /\ Levels[mint.mintLevel + 1].Size \in Nat
            /\ Levels[mint.mintLevel + 1].Duration \in Nat
        BY <3>1, LevelType
      <3> QED
        BY <2>6, <3>2, TimesIsNat
    <2> QED
      BY <2>7, <2>9, <2>10, <2>11
  <1> QED
    BY <1>1, SumsInvariant, PTL

-----------------------------------------------------------------------------
(***************************************************************************)
(* What the orders have cost                                               *)
(***************************************************************************)
\* The costs of the orders in S, issued up to l, and those that are positive.
PosAt(x, l)    == IF CostAt(x, l) > 0 THEN CostAt(x, l) ELSE 0
Costs(S, l)    == SumFunctionOnSet([x \in S |-> CostAt(x, l)], S)
PosCosts(S, l) == SumFunctionOnSet([x \in S |-> PosAt(x, l)], S)

\* What an order costs while it runs, by a span (l to t) that ends before or
\* after its end (B).
LEMMA SpanCosts ==
    \A s \in Int, n \in Int, l \in Int, t \in Int, B \in Int :
        /\ s * (t - n) = s * (l - n) + s * (t - l)
        /\ s * (B - n) = s * (l - n) + s * (t - l) - s * (t - B)
        /\ s * (B - t) = 0 - s * (t - B)
        /\ s * (t - t) = 0
  BY SMT

\* A cost is an amount.
LEMMA CostType ==
    ASSUME NEW S, Records(S), NEW x \in S, NEW l \in Nat
    PROVE  CostAt(x, l) \in Int /\ PosAt(x, l) \in Nat
  <1>1. TermsOf(x).sprice \in Int /\ x.since \in Nat /\ TermsOf(x).end \in Nat
    BY RecordWeights
  <1>2. PICK s \in Int : s = TermsOf(x).sprice
    BY <1>1
  <1>3. PICK d : d = (IF RunsAt(x, l) THEN l ELSE TermsOf(x).end) - x.since
    OBVIOUS
  <1>4. d \in Int
    BY <1>1, <1>3
  <1>5. CostAt(x, l) = s * d
    BY <1>2, <1>3 DEF CostAt
  <1>6. s * d \in Int
    BY <1>4
  <1> QED
    BY <1>5, <1>6 DEF PosAt

\* A product has the sign of its factors.
LEMMA Signs ==
    \A s \in Int, d \in Nat : /\ s >= 0 => s * d >= 0
                             /\ s <= 0 => s * d <= 0
  BY SMT

\* The cost of one order grows by its price for the time it still runs between
\* l and t, and, once it has begun to cost, its positive part by no less.
LEMMA CostGrowth ==
    ASSUME NEW S, Records(S), NEW x \in S, NEW l \in Nat, NEW t \in Nat, l <= t,
           NEW s, s = TermsOf(x).sprice,
           NEW i, i = IF RunsAt(x, l) THEN l ELSE TermsOf(x).end,
           NEW j, j = IF RunsAt(x, t) THEN t ELSE TermsOf(x).end
    PROVE  /\ s \in Int /\ i \in Nat /\ j \in Nat /\ i <= j
           /\ CostAt(x, t) = CostAt(x, l) + s * (j - i)
           /\ x.since <= l => /\ PosAt(x, t) >= PosAt(x, l) + s * (j - i)
                              /\ PosAt(x, l) <= PosAt(x, t)
  <1>1. s \in Int
    BY RecordWeights
  <1>2. PICK n \in Nat : n = x.since
    BY RecordWeights
  <1>3. PICK e \in Nat : e = TermsOf(x).end
    BY RecordWeights
  <1>4. /\ RunsAt(x, l) <=> (x.late \/ l < e)
        /\ RunsAt(x, t) <=> (x.late \/ t < e)
    BY <1>3 DEF RunsAt
  <1>5. /\ i \in Nat /\ j \in Nat /\ i <= j
        /\ i = j \/ i = l
    BY <1>3, <1>4
  <1>6. CostAt(x, l) = s * (i - n) /\ CostAt(x, t) = s * (j - n)
    BY <1>2 DEF CostAt
  <1>7. s * (j - n) = s * (i - n) + s * (j - i)
    BY <1>1, <1>2, <1>5, SpanCosts
  <1> DEFINE u == s * (i - n)
             v == s * (j - i)
  <1>8. u \in Int /\ v \in Int
    BY <1>1, <1>5
  <1>9. CostAt(x, l) = u /\ CostAt(x, t) = u + v
    BY <1>6, <1>7
  <1>10. n <= l => v = 0 \/ (u >= 0 /\ v >= 0) \/ (u <= 0 /\ v <= 0)
    <2> SUFFICES ASSUME n <= l
                 PROVE  v = 0 \/ (u >= 0 /\ v >= 0) \/ (u <= 0 /\ v <= 0)
      OBVIOUS
    <2>1. CASE i = j
      <3>1. s * 0 = 0 /\ j - i = 0
        BY <1>1, <1>5, <2>1
      <3> QED
        BY <3>1
    <2>2. CASE i = l
      <3>1. i - n \in Nat /\ j - i \in Nat
        BY <1>5, <2>2
      <3>2. s >= 0 => u >= 0 /\ v >= 0
        BY <1>1, <3>1, Signs
      <3>3. s <= 0 => u <= 0 /\ v <= 0
        BY <1>1, <3>1, Signs
      <3> HIDE DEF u, v
      <3> QED
        BY <1>1, <3>2, <3>3
    <2> QED
      BY <1>5, <2>1, <2>2
  <1> HIDE DEF u, v
  <1>11. x.since <= l => /\ PosAt(x, t) >= PosAt(x, l) + v
                         /\ PosAt(x, l) <= PosAt(x, t)
    BY <1>2, <1>8, <1>9, <1>10 DEF PosAt
  <1> QED
    BY <1>1, <1>5, <1>9, <1>11 DEF v

\* How the cost of one order grows from l to t: by its price for the span, less
\* what comes after its end.
LEMMA CostGrows ==
    ASSUME NEW S, Records(S), NEW x \in S, NEW l \in Nat, NEW t \in Nat, l <= t,
           NEW K \in BOOLEAN, NEW B \in Nat, K => l < B /\ B <= t,
           (l < TermsOf(x).end /\ TermsOf(x).end <= t)
              <=> (K /\ TermsOf(x).end = B),
           x.late => TermsOf(x).end <= l,
           NEW r, r = IF RunsAt(x, l) THEN Prices[x] ELSE 0,
           NEW c, c = IF K /\ TermsOf(x).end = B THEN Prices[x] ELSE 0
    PROVE  /\ CostAt(x, t) = CostAt(x, l) + r * (t - l) - c * (t - B)
           /\ x.since <= l =>
                 PosAt(x, t) >= PosAt(x, l) + r * (t - l) - c * (t - B)
  <1>1. PICK s \in Int : s = TermsOf(x).sprice /\ Prices[x] = s
    BY RecordWeights
  <1>2. PICK e \in Nat : e = TermsOf(x).end
    BY RecordWeights
  <1>3. /\ RunsAt(x, l) <=> (x.late \/ l < e)
        /\ RunsAt(x, t) <=> (x.late \/ t < e)
    BY <1>2 DEF RunsAt
  <1>4. PICK i : i = IF RunsAt(x, l) THEN l ELSE e
    OBVIOUS
  <1>5. PICK j : j = IF RunsAt(x, t) THEN t ELSE e
    OBVIOUS
  <1>6. PICK v : v = s * (j - i)
    OBVIOUS
  <1>7. /\ CostAt(x, t) = CostAt(x, l) + v
        /\ x.since <= l => PosAt(x, t) >= PosAt(x, l) + v
    BY <1>1, <1>2, <1>4, <1>5, <1>6, CostGrowth
  <1>8. r * (t - l) \in Int /\ c * (t - B) \in Int
        /\ v = r * (t - l) - c * (t - B)
    <2>1. CASE K /\ e = B
      <3>1. RunsAt(x, l) /\ ~RunsAt(x, t)
        BY <1>2, <1>3, <2>1
      <3>2. r = s /\ c = s /\ v = s * (B - l)
        BY <1>1, <1>2, <1>4, <1>5, <1>6, <2>1, <3>1
      <3>3. s * (B - l) = s * (t - l) - s * (t - B)
        BY SMT
      <3>4. s * (t - l) \in Int /\ s * (t - B) \in Int
        OBVIOUS
      <3> QED
        BY <3>2, <3>3, <3>4
    <2>2. CASE ~(K /\ e = B)
      <3>1. RunsAt(x, l) <=> RunsAt(x, t)
        BY <1>2, <1>3, <2>2
      <3>2. c = 0 /\ 0 * (t - B) = 0
        BY <1>2, <2>2
      <3>3. CASE RunsAt(x, l)
        <4>1. r = s /\ v = s * (t - l) /\ s * (t - l) \in Int
          BY <1>1, <1>4, <1>5, <1>6, <3>1, <3>3
        <4>2. PICK k \in Int : k = s * (t - l)
          BY <4>1
        <4>3. r * (t - l) = k /\ c * (t - B) = 0 /\ v = k
          BY <3>2, <4>1, <4>2
        <4> QED
          BY <4>3
      <3>4. CASE ~RunsAt(x, l)
        <4>1. r = 0 /\ v = s * (e - e)
          BY <1>4, <1>5, <1>6, <3>1, <3>4
        <4>2. s * (e - e) = 0 /\ 0 * (t - l) = 0
          BY SMT
        <4> QED
          BY <3>2, <4>1, <4>2
      <3> QED
        BY <3>3, <3>4
    <2> QED
      BY <2>1, <2>2
  <1>9. CostAt(x, l) \in Int /\ PosAt(x, l) \in Int
    BY CostType
  <1> DEFINE p == r * (t - l)
             q == c * (t - B)
  <1>10. p \in Int /\ q \in Int /\ v = p - q
    BY <1>8
  <1> HIDE DEF p, q
  <1>11. /\ CostAt(x, t) = CostAt(x, l) + p - q
         /\ x.since <= l => PosAt(x, t) >= PosAt(x, l) + p - q
    BY <1>7, <1>9, <1>10
  <1> QED
    BY <1>11 DEF p, q

\* A sum whose entries grow by one function for a span, less another for one.
LEMMA SumSpans ==
    ASSUME NEW S, IsFiniteSet(S), NEW z, z \notin S, NEW T, T = S \cup {z},
           NEW g, NEW h, NEW r, NEW c, NEW p \in Int, NEW q \in Int, NEW v \in Int,
           \A x \in S : g[x] \in Int /\ r[x] \in Int,
           \A x \in T : c[x] \in Int,
           \A x \in S : h[x] = g[x] + r[x] * p - c[x] * q,
           h[z] = v - c[z] * q
    PROVE  /\ SumFunctionOnSet(h, T)
                = SumFunctionOnSet(g, S) + SumFunctionOnSet(r, S) * p
                    - SumFunctionOnSet(c, T) * q + v
           /\ SumFunctionOnSet(g, S) \in Int /\ SumFunctionOnSet(r, S) \in Int
           /\ SumFunctionOnSet(c, T) \in Int
  <1> DEFINE rp == [x \in S |-> p * r[x]]
             a == [x \in S |-> g[x] + rp[x]]
             d == [x \in T |-> q * c[x]]
  <1>1. /\ \A x \in S : rp[x] \in Int /\ rp[x] = p * r[x]
        /\ \A x \in T : d[x] \in Int /\ d[x] = q * c[x]
    OBVIOUS
  <1>2. \A x \in S : a[x] \in Int /\ a[x] = g[x] + rp[x]
    OBVIOUS
  <1> HIDE DEF rp, a, d
  <1>3. z \in T /\ IsFiniteSet(T)
    BY FS_AddElement
  <1>4. ASSUME NEW x \in S PROVE h[x] = a[x] - d[x]
    <2>1. h[x] = g[x] + r[x] * p - c[x] * q
      OBVIOUS
    <2>2. r[x] * p = rp[x]
      <3>1. r[x] \in Int /\ rp[x] = p * r[x]
        BY <1>1
      <3> QED
        BY <3>1
    <2>3. c[x] * q = d[x]
      <3>1. x \in T
        OBVIOUS
      <3>2. c[x] \in Int /\ d[x] = q * c[x]
        BY <1>1, <3>1
      <3> QED
        BY <3>2
    <2>4. a[x] = g[x] + rp[x]
      BY <1>2
    <2> QED
      BY <2>1, <2>2, <2>3, <2>4
  <1>5. h[z] = v - d[z]
    <2>1. c[z] \in Int /\ d[z] = q * c[z]
      BY <1>1, <1>3
    <2>2. c[z] * q = d[z]
      BY <2>1
    <2> QED
      BY <2>2
  <1>6. \A x \in S : a[x] \in Int /\ d[x] \in Int /\ h[x] = a[x] - d[x]
    BY <1>1, <1>2, <1>4
  <1>7. d[z] \in Int
    BY <1>1, <1>3
  <1>8. SumFunctionOnSet(h, T)
           = SumFunctionOnSet(a, S) - SumFunctionOnSet(d, T) + v
    BY <1>5, <1>6, <1>7, SumShift
  <1>9. SumFunctionOnSet(a, S) = SumFunctionOnSet(g, S) + SumFunctionOnSet(rp, S)
    BY <1>1, <1>2, SumOfSums
  <1>10. SumFunctionOnSet(rp, S) = p * SumFunctionOnSet(r, S)
    BY <1>1, SumScaled
  <1>11. SumFunctionOnSet(d, T) = q * SumFunctionOnSet(c, T)
    BY <1>1, <1>3, SumScaled
  <1>12. /\ SumFunctionOnSet(g, S) \in Int /\ SumFunctionOnSet(r, S) \in Int
         /\ SumFunctionOnSet(c, T) \in Int
    BY <1>3, SumType
  <1>13. /\ p * SumFunctionOnSet(r, S) = SumFunctionOnSet(r, S) * p
         /\ q * SumFunctionOnSet(c, T) = SumFunctionOnSet(c, T) * q
    BY <1>12
  <1> QED
    BY <1>8, <1>9, <1>10, <1>11, <1>12, <1>13

\* Issuing the span from l to t for the orders S adds z, which makes T of them,
\* and stops those that end at B when that boundary is crossed (K).
Span(S, z, T, l, t, B, K) ==
    /\ IsFiniteSet(S) /\ z \notin S /\ T = S \cup {z} /\ Records(T)
    /\ l \in Nat /\ t \in Nat /\ B \in Nat /\ l <= t
    /\ K \in BOOLEAN /\ (K => l < B /\ B <= t)
    /\ \A x \in T : (l < TermsOf(x).end /\ TermsOf(x).end <= t)
                        <=> (K /\ TermsOf(x).end = B)
    /\ \A x \in S : x.late => TermsOf(x).end <= l
    /\ z.late <=> TermsOf(z).end <= l
    /\ z.since = t

\* The costs of all orders grow by the price of those that run, for the span,
\* less what comes after the end of those that stop.
LEMMA CostsStep ==
    ASSUME NEW S, NEW z, NEW T, NEW l, NEW t, NEW B, NEW K,
           Span(S, z, T, l, t, B, K),
           NEW R, R = Running(Prices, S, l),
           NEW E, E = IF K THEN Ending(Prices, T, B) ELSE 0,
           NEW v, v = R * (t - l), NEW w, w = E * (t - B)
    PROVE  /\ R \in Int /\ E \in Int
           /\ Costs(T, t) = Costs(S, l) + v - w
           /\ (\A x \in S : x.since <= l) =>
                 PosCosts(T, t) >= PosCosts(S, l) + v - w
           /\ Costs(S, l) \in Int /\ PosCosts(S, l) \in Int
           /\ PosCosts(T, t) \in Int
  <1> DEFINE r == [x \in S |-> IF RunsAt(x, l) THEN Prices[x] ELSE 0]
             c == [x \in T |-> IF K /\ TermsOf(x).end = B THEN Prices[x] ELSE 0]
             d == [x \in T |-> IF TermsOf(x).end = B THEN Prices[x] ELSE 0]
             g == [x \in S |-> CostAt(x, l)]
             h == [x \in T |-> CostAt(x, t)]
             pg == [x \in S |-> PosAt(x, l)]
             ph == [x \in T |-> PosAt(x, t)]
  <1> USE DEF Span
  <1>1. z \in T /\ IsFiniteSet(T) /\ Records(S)
    BY FS_AddElement DEF Records
  <1>2. /\ \A x \in T : Prices[x] \in Int /\ TermsOf(x).sprice = Prices[x]
        /\ \A x \in T : TermsOf(x).end \in Nat
        /\ Weights(Prices, T) /\ Weights(Prices, S)
    BY <1>1, RecordWeights DEF Weights
  <1>3. /\ \A x \in S : r[x] \in Int
        /\ \A x \in S : r[x] = IF RunsAt(x, l) THEN Prices[x] ELSE 0
        /\ \A x \in T : c[x] \in Int
        /\ \A x \in T : c[x] = IF K /\ TermsOf(x).end = B THEN Prices[x] ELSE 0
    BY <1>2
  <1>4. /\ \A x \in S : g[x] = CostAt(x, l) /\ pg[x] = PosAt(x, l)
        /\ \A x \in T : h[x] = CostAt(x, t) /\ ph[x] = PosAt(x, t)
    OBVIOUS
  <1>5. /\ Costs(S, l) = SumFunctionOnSet(g, S)
        /\ Costs(T, t) = SumFunctionOnSet(h, T)
        /\ PosCosts(S, l) = SumFunctionOnSet(pg, S)
        /\ PosCosts(T, t) = SumFunctionOnSet(ph, T)
        /\ R = SumFunctionOnSet(r, S)
    BY DEF Costs, PosCosts, Running
  <1>6. E = SumFunctionOnSet(c, T)
    <2>1. CASE K
      <3>1. c = d
        BY <2>1
      <3> QED
        BY <2>1, <3>1 DEF Ending
    <2>2. CASE ~K
      <3>1. \A x \in T : c[x] = 0
        BY <2>2
      <3> HIDE DEF c
      <3> QED
        BY <1>1, <2>2, <3>1, SumZero
    <2> QED
      BY <2>1, <2>2
  <1> HIDE DEF r, c, d, g, h, pg, ph
  <1>7. R \in Int /\ E \in Int
    BY <1>1, <1>3, <1>5, <1>6, SumType
  <1>8. /\ \A x \in S : CostAt(x, l) \in Int /\ PosAt(x, l) \in Nat
        /\ \A x \in T : CostAt(x, t) \in Int /\ PosAt(x, t) \in Nat
    BY <1>1, CostType
  <1>9. ASSUME NEW x \in S
        PROVE  /\ h[x] = g[x] + r[x] * (t - l) - c[x] * (t - B)
               /\ x.since <= l => ph[x] >= pg[x] + r[x] * (t - l) - c[x] * (t - B)
    <2>1. x \in T
      OBVIOUS
    <2>2. PICK rx : rx = r[x]
      OBVIOUS
    <2>3. PICK cx : cx = c[x]
      OBVIOUS
    <2>4. /\ rx = IF RunsAt(x, l) THEN Prices[x] ELSE 0
          /\ cx = IF K /\ TermsOf(x).end = B THEN Prices[x] ELSE 0
      BY <1>3, <2>1, <2>2, <2>3
    <2>5. /\ CostAt(x, t) = CostAt(x, l) + rx * (t - l) - cx * (t - B)
          /\ x.since <= l =>
                PosAt(x, t) >= PosAt(x, l) + rx * (t - l) - cx * (t - B)
      <3>1. (l < TermsOf(x).end /\ TermsOf(x).end <= t)
                           <=> (K /\ TermsOf(x).end = B)
        BY <2>1
      <3>2. x.late => TermsOf(x).end <= l
        OBVIOUS
      <3> QED
        BY <1>1, <2>4, <3>1, <3>2, CostGrows
    <2> QED
      BY <1>4, <2>1, <2>2, <2>3, <2>5
  <1>10. h[z] = 0 - c[z] * (t - B) /\ ph[z] >= 0 - c[z] * (t - B)
    <2>1. PICK s \in Int : s = TermsOf(z).sprice /\ Prices[z] = s
      BY <1>1, <1>2
    <2>2. PICK e \in Nat : e = TermsOf(z).end
      BY <1>1, <1>2
    <2>3. CostAt(z, t) = s * ((IF RunsAt(z, t) THEN t ELSE e) - t)
      BY <2>1, <2>2 DEF CostAt
    <2>4. RunsAt(z, t) <=> (z.late \/ t < e)
      BY <2>2 DEF RunsAt
    <2>5. CostAt(z, t) = 0 - c[z] * (t - B)
      <3>1. CASE K /\ e = B
        <4>1. ~RunsAt(z, t)
          BY <2>2, <2>4, <3>1
        <4>2. CostAt(z, t) = s * (B - t)
          BY <2>3, <3>1, <4>1
        <4>3. s * (B - t) = 0 - s * (t - B)
          BY SpanCosts
        <4>4. c[z] = s
          BY <1>1, <1>3, <2>1, <2>2, <3>1
        <4> QED
          BY <4>2, <4>3, <4>4
      <3>2. CASE ~(K /\ e = B)
        <4>1. RunsAt(z, t)
          <5>1. ~(l < e /\ e <= t)
            BY <1>1, <2>2, <3>2
          <5>2. z.late <=> e <= l
            BY <2>2
          <5> QED
            BY <2>4, <5>1, <5>2
        <4>2. CostAt(z, t) = s * (t - t)
          BY <2>3, <4>1
        <4>3. s * (t - t) = 0
          BY SpanCosts
        <4>4. c[z] = 0
          BY <1>1, <1>3, <2>2, <3>2
        <4>5. c[z] * (t - B) = 0
          BY <4>4
        <4> QED
          BY <4>2, <4>3, <4>5
      <3> QED
        BY <3>1, <3>2
    <2>6. CostAt(z, t) \in Int /\ PosAt(z, t) >= CostAt(z, t)
      BY <1>1, <1>8 DEF PosAt
    <2> QED
      BY <1>1, <1>4, <2>5, <2>6
  <1> DEFINE p == t - l
             q == t - B
  <1>11. p \in Int /\ q \in Int
    OBVIOUS
  <1>12. /\ \A x \in S : g[x] \in Int /\ r[x] \in Int /\ pg[x] \in Int
         /\ \A x \in T : c[x] \in Int /\ ph[x] \in Int
    BY <1>3, <1>4, <1>8
  <1>13. /\ \A x \in S : h[x] = g[x] + r[x] * p - c[x] * q
         /\ (\A x \in S : x.since <= l) =>
               \A x \in S : ph[x] >= pg[x] + r[x] * p - c[x] * q
    BY <1>9
  <1>14. h[z] = 0 - c[z] * q /\ ph[z] >= 0 - c[z] * q
    BY <1>10
  <1>15. v = R * p /\ w = E * q
    OBVIOUS
  <1> HIDE DEF p, q
  <1>16. SumFunctionOnSet(h, T) = SumFunctionOnSet(g, S)
              + SumFunctionOnSet(r, S) * p - SumFunctionOnSet(c, T) * q + 0
    BY <1>11, <1>12, <1>13, <1>14, SumSpans
  <1>17. /\ SumFunctionOnSet(g, S) \in Int /\ SumFunctionOnSet(pg, S) \in Int
         /\ SumFunctionOnSet(ph, T) \in Int
    BY <1>1, <1>12, SumType
  <1>18. Costs(T, t) = Costs(S, l) + v - w
    <2>1. v \in Int /\ w \in Int
      BY <1>7, <1>11, <1>15
    <2> QED
      BY <1>5, <1>6, <1>15, <1>16, <1>17, <2>1
  <1>19. ASSUME \A x \in S : x.since <= l
         PROVE  PosCosts(T, t) >= PosCosts(S, l) + v - w
    <2> DEFINE k == [x \in T |-> IF x = z THEN 0 - c[x] * q
                                ELSE pg[x] + r[x] * p - c[x] * q]
    <2>1. \A x \in S : x \in T /\ x # z
      OBVIOUS
    <2>2. /\ \A x \in S : k[x] = pg[x] + r[x] * p - c[x] * q
          /\ k[z] = 0 - c[z] * q
      BY <1>1, <2>1
    <2> HIDE DEF k
    <2>3. SumFunctionOnSet(k, T) = SumFunctionOnSet(pg, S)
              + SumFunctionOnSet(r, S) * p - SumFunctionOnSet(c, T) * q + 0
      BY <1>11, <1>12, <2>2, SumSpans
    <2>4. ASSUME NEW x \in T PROVE k[x] \in Int /\ k[x] <= ph[x] /\ ph[x] \in Int
      <3>1. CASE x = z
        <4>1. c[z] \in Int /\ ph[z] \in Int
          BY <1>1, <1>12
        <4>2. c[z] * q \in Int
          BY <1>11, <4>1
        <4> QED
          BY <1>14, <2>2, <3>1, <4>1, <4>2
      <3>2. CASE x \in S
        <4>1. pg[x] \in Int /\ r[x] \in Int /\ c[x] \in Int /\ ph[x] \in Int
          BY <1>12, <3>2
        <4>2. r[x] * p \in Int /\ c[x] * q \in Int
          BY <1>11, <4>1
        <4>3. ph[x] >= pg[x] + r[x] * p - c[x] * q
          BY <1>13, <1>19, <3>2
        <4> QED
          BY <2>2, <3>2, <4>1, <4>2, <4>3
      <3> QED
        BY <3>1, <3>2
    <2>5. SumFunctionOnSet(k, T) <= SumFunctionOnSet(ph, T)
      BY <1>1, <2>4, SumAtMost
    <2>6. R * p \in Int /\ E * q \in Int
      BY <1>7, <1>11
    <2>7. /\ v \in Int /\ w \in Int /\ PosCosts(S, l) \in Int
          /\ SumFunctionOnSet(k, T) = PosCosts(S, l) + v - w + 0
      BY <1>5, <1>6, <1>15, <1>17, <2>3, <2>6
    <2> QED
      BY <1>5, <1>17, <2>5, <2>7
  <1> QED
    BY <1>5, <1>7, <1>17, <1>18, <1>19

\* Where nothing is issued, the new order has cost nothing.
LEMMA CostsKept ==
    ASSUME NEW S, IsFiniteSet(S), NEW z, z \notin S, NEW T, T = S \cup {z},
           Records(T), NEW l \in Nat, z.since = l,
           z.late <=> TermsOf(z).end <= l
    PROVE  Costs(T, l) = Costs(S, l) /\ Costs(S, l) \in Int
  <1> DEFINE g == [x \in S |-> CostAt(x, l)]
             h == [x \in T |-> CostAt(x, l)]
  <1>1. IsFiniteSet(T) /\ z \in T /\ T \ {z} = S /\ Records(S)
    BY FS_AddElement DEF Records
  <1>2. CostAt(z, l) = 0
    <2>1. PICK s \in Int : s = TermsOf(z).sprice
      BY <1>1, RecordWeights
    <2>2. TermsOf(z).end \in Nat
      BY <1>1, RecordWeights
    <2>3. RunsAt(z, l)
      BY <2>2 DEF RunsAt
    <2>4. CostAt(z, l) = s * (l - l)
      BY <2>1, <2>3 DEF CostAt
    <2>5. s * (l - l) = 0
      BY SpanCosts
    <2> QED
      BY <2>4, <2>5
  <1>3. \A x \in T : CostAt(x, l) \in Int
    BY CostType
  <1>4. /\ \A x \in T : h[x] \in Int /\ h[x] = CostAt(x, l)
        /\ \A x \in S : g[x] \in Int /\ h[x] = g[x]
    BY <1>3
  <1>5. Costs(T, l) = SumFunctionOnSet(h, T) /\ Costs(S, l) = SumFunctionOnSet(g, S)
    BY DEF Costs
  <1> HIDE DEF g, h
  <1>6. SumFunctionOnSet(h, T) = h[z] + SumFunctionOnSet(h, S)
    BY <1>1, <1>4, SumRemove
  <1>7. SumFunctionOnSet(h, S) = SumFunctionOnSet(g, S) /\ SumFunctionOnSet(g, S) \in Int
    BY <1>4, SumSame, SumType
  <1> QED
    BY <1>1, <1>2, <1>4, <1>5, <1>6, <1>7

\* Positive costs only grow, with time and with orders.
LEMMA PosCostsGrow ==
    ASSUME NEW S, NEW T, IsFiniteSet(T), S \subseteq T, Records(T),
           NEW l \in Nat, NEW t \in Nat, l <= t,
           \A x \in S : x.since <= l
    PROVE  PosCosts(S, l) <= PosCosts(T, t)
  <1>1. \A x \in S : PosAt(x, l) <= PosAt(x, t)
    BY CostGrowth
  <1>2. \A x \in T : PosAt(x, l) \in Nat /\ PosAt(x, t) \in Nat
    BY CostType
  <1> DEFINE g == [x \in S |-> PosAt(x, l)]
             h == [x \in T |-> PosAt(x, t)]
             k == [x \in T |-> IF x \in S THEN PosAt(x, l) ELSE 0]
  <1>3. /\ PosCosts(S, l) = SumFunctionOnSet(g, S)
        /\ PosCosts(T, t) = SumFunctionOnSet(h, T)
    BY DEF PosCosts
  <1>4. /\ \A x \in T : k[x] \in Int /\ h[x] \in Int /\ k[x] <= h[x]
        /\ \A x \in T \ S : k[x] = 0
        /\ \A x \in S : k[x] \in Int /\ g[x] = k[x]
    BY <1>1, <1>2
  <1> HIDE DEF g, h, k
  <1>5. SumFunctionOnSet(k, T) <= SumFunctionOnSet(h, T)
    BY <1>4, SumAtMost
  <1>6. SumFunctionOnSet(k, T) = SumFunctionOnSet(k, S)
    BY <1>4, SumRestrict
  <1>7. SumFunctionOnSet(g, S) = SumFunctionOnSet(k, S)
    <2>1. IsFiniteSet(S)
      BY FS_Subset
    <2> QED
      BY <1>4, <2>1, SumSame
  <1> QED
    BY <1>3, <1>5, <1>6, <1>7

\* The losses nobody has repaired.
OpenLosses ==
    SumFunction([x \in GroupIx \X Account |->
                    se[x[1]][x[2]].Lost - se[x[1]][x[2]].LostPaid])

\* They are an amount, and one settlement's loss changes them by as much.
LEMMA OpenLossesStep ==
    ASSUME RestTypes, RestTypes'
    PROVE  /\ OpenLosses \in Int
           /\ LossesKept => OpenLosses' = OpenLosses
           /\ \A g \in GroupIx, q \in Account : \A d, e :
                 LossStep(g, q, d, e) => OpenLosses' = OpenLosses + d
  <1> DEFINE D == GroupIx \X Account
             f == [x \in D |-> se[x[1]][x[2]].Lost - se[x[1]][x[2]].LostPaid]
             h == [x \in D |-> se'[x[1]][x[2]].Lost - se'[x[1]][x[2]].LostPaid]
  <1>1. IsFiniteSet(D)
    <2>1. IsFiniteSet(GroupIx) /\ IsFiniteSet(Account)
      <3>1. NGroup - 1 \in Int /\ 0 \in Int
        BY IssuingConstants
      <3> QED
        BY <3>1, IssuingConstants, FS_Interval DEF GroupIx
    <2> QED
      BY <2>1, FS_Product
  <1>2. ASSUME NEW x \in D
        PROVE  /\ f[x] = se[x[1]][x[2]].Lost - se[x[1]][x[2]].LostPaid
               /\ h[x] = se'[x[1]][x[2]].Lost - se'[x[1]][x[2]].LostPaid
               /\ f[x] \in Int /\ h[x] \in Int
               /\ x[1] \in GroupIx /\ x[2] \in Account /\ x = <<x[1], x[2]>>
    <2>1. x[1] \in GroupIx /\ x[2] \in Account /\ x = <<x[1], x[2]>>
      OBVIOUS
    <2>2. se[x[1]][x[2]] \in Losing /\ se'[x[1]][x[2]] \in Losing
      BY <2>1 DEF RestTypes
    <2> QED
      BY <2>1, <2>2 DEF Losing
  <1>3. OpenLosses = SumFunctionOnSet(f, D) /\ OpenLosses' = SumFunctionOnSet(h, D)
    BY DEF OpenLosses, SumFunction
  <1> HIDE DEF D, f, h
  <1>4. OpenLosses \in Int
    BY <1>1, <1>2, <1>3, SumType
  <1>5. ASSUME LossesKept PROVE OpenLosses' = OpenLosses
    <2>1. \A x \in D : f[x] \in Int /\ h[x] = f[x]
      BY <1>2, <1>5 DEF LossesKept
    <2> QED
      BY <1>1, <1>3, <2>1, SumSame
  <1>6. ASSUME NEW g \in GroupIx, NEW q \in Account, NEW d, NEW e,
               LossStep(g, q, d, e)
        PROVE  OpenLosses' = OpenLosses + d
    <2>1. PICK y : y = <<g, q>>
      OBVIOUS
    <2>2. y \in D /\ y[1] = g /\ y[2] = q
      BY <2>1 DEF D
    <2>3. /\ d \in Int
          /\ se'[g][q].Lost - se'[g][q].LostPaid
                = se[g][q].Lost - se[g][q].LostPaid + d
          /\ \A k \in GroupIx, r \in Account :
                ~(k = g /\ r = q) => se'[k][r] = se[k][r]
      BY <1>6 DEF LossStep
    <2>4. h[y] = f[y] + d /\ h[y] \in Int /\ f[y] \in Int
      BY <1>2, <2>2, <2>3
    <2>5. \A x \in D \ {y} : h[x] = f[x]
      <3> SUFFICES ASSUME NEW x \in D, x # y PROVE h[x] = f[x]
        OBVIOUS
      <3>1. ~(x[1] = g /\ x[2] = q)
        <4>1. x = <<x[1], x[2]>>
          BY <1>2
        <4> QED
          BY <2>1, <4>1
      <3>2. se'[x[1]][x[2]] = se[x[1]][x[2]]
        BY <1>2, <2>3, <3>1
      <3> QED
        BY <1>2, <3>2
    <2>6. \A x \in D : f[x] \in Int /\ h[x] \in Int
      BY <1>2
    <2>7. SumFunctionOnSet(h, D) = SumFunctionOnSet(f, D) + (h[y] - f[y])
      BY <1>1, <2>2, <2>5, <2>6, SumUpdate
    <2>8. SumFunctionOnSet(f, D) \in Int
      BY <1>3, <1>4
    <2>9. h[y] - f[y] = d
      BY <2>3, <2>4
    <2> QED
      BY <1>3, <2>7, <2>9
  <1> QED
    BY <1>4, <1>5, <1>6

\* What has accrued when an order is added is what the running orders cost for
\* the span, less what comes after the end of those that stop; after a failed
\* send it may be less.
LEMMA PaidAtMost ==
    ASSUME RoleInv, TypeInv, AddedInv, EndingInv', PriceInv,
           NEW z, NEW t, NEW paid, NEW sent,
           Issues(z, t, paid, sent), RecordStep(z, t, sent),
           PriceStep(z, t, paid),
           NEW l, l = mint.lastMint, NEW B, B = LastBoundary(t),
           NEW K, K = Crosses(mint, t),
           NEW R, R = Running(Prices, added, l),
           NEW E, E = IF K THEN Ending(Prices, added', B) ELSE 0
    PROVE  /\ R * (t - l) \in Int /\ E * (t - B) \in Int
           /\ NoNegativePrice => paid <= R * (t - l) - E * (t - B)
           /\ ~unsent => paid = R * (t - l) - E * (t - B)
  <1>1. /\ IsFiniteSet(added) /\ Records(added) /\ Records(added')
        /\ IsFiniteSet(added') /\ l \in Nat /\ t \in Nat /\ l <= t
        /\ K \in BOOLEAN /\ B \in Nat /\ B \in Boundaries
    BY IssuingContext
  <1>2. R \in Int /\ E \in Int
    <2>1. Weights(Prices, added) /\ Weights(Prices, added')
      BY <1>1, RecordWeights
    <2> QED
      BY <1>1, <2>1, WeightSums
  <1>3. PICK p \in Int : p = mint.price
    BY RoleTypes, MintFields
  <1>4. PICK w \in Nat : w = t - l
    BY <1>1
  <1>5. PICK v : v = E * (t - B)
    OBVIOUS
  <1>6. v \in Int
    BY <1>1, <1>2, <1>5
  <1>7. paid = p * w - v
    <2>1. paid = mint.price * (t - l)
                   - (IF K THEN mint'.subPMap[B] * (t - B) ELSE 0)
      BY DEF PriceStep
    <2>2. (IF K THEN mint'.subPMap[B] * (t - B) ELSE 0) = E * (t - B)
      <3>1. mint'.subPMap[B] = Ending(Prices, added', B)
        BY <1>1 DEF EndingInv
      <3>2. 0 * (t - B) = 0
        BY <1>1
      <3> QED
        BY <3>1, <3>2
    <2> QED
      BY <1>3, <1>4, <1>5, <2>1, <2>2
  <1>8. /\ NoNegativePrice => p <= R
        /\ ~unsent => p = R
    BY <1>3 DEF PriceInv
  <1>9. p <= R => p * w <= R * w
    <2> SUFFICES ASSUME p <= R PROVE p * w <= R * w
      OBVIOUS
    <2>1. PICK k \in Nat : k = R - p
      BY <1>2
    <2>2. R * w = p * w + k * w
      <3>1. R = p + k
        BY <1>2, <2>1
      <3> QED
        BY <3>1, SMT
    <2>3. k * w \in Nat
      BY TimesIsNat
    <2>4. PICK x \in Int : x = p * w
      OBVIOUS
    <2>5. PICK y \in Nat : y = k * w
      BY <2>3
    <2> QED
      BY <2>2, <2>4, <2>5
  <1>10. PICK x \in Int : x = p * w
    OBVIOUS
  <1>11. PICK y \in Int : y = R * w
    BY <1>2
  <1>12. /\ NoNegativePrice => paid <= y - v
         /\ ~unsent => paid = y - v
    BY <1>6, <1>7, <1>8, <1>9, <1>10, <1>11
  <1>13. R * (t - l) = y
    BY <1>4, <1>11
  <1> QED
    BY <1>5, <1>6, <1>12, <1>13

\* What counts as paid is what the orders have cost and the open losses, but
\* for what half-failed calls count too much or leave out.
PaidInv ==
    /\ NoNegativePrice =>
          mint.totalPaid <= Costs(added, mint.lastMint) + OpenLosses + drift
    /\ ~unsent =>
          mint.totalPaid = Costs(added, mint.lastMint) + OpenLosses + drift

\* The costs so far are an amount.
LEMMA CostsType ==
    ASSUME TypeInv, AddedInv
    PROVE  Costs(added, mint.lastMint) \in Int
  <1>1. mint.lastMint \in Nat /\ Records(added) /\ IsFiniteSet(added)
    BY RoleTypes DEF AddedInv, Records
  <1>2. \A x \in added : CostAt(x, mint.lastMint) \in Int
    BY <1>1, CostType
  <1> DEFINE k == [x \in added |-> CostAt(x, mint.lastMint)]
  <1>3. /\ Costs(added, mint.lastMint) = SumFunctionOnSet(k, added)
        /\ \A x \in added : k[x] \in Int
    BY <1>2 DEF Costs
  <1> HIDE DEF k
  <1> QED
    BY <1>1, <1>3, SumType

\* Each order that is issued for, each claim and each repair keeps it so.
LEMMA PaidStep ==
    ASSUME RoleInv, TypeInv, TypeInv', AddedInv, EndingInv', PriceInv, SumsStep,
           PaidInv
    PROVE  PaidInv'
  <1>1. RestTypes /\ RestTypes'
    BY TypeParts DEF TypeInv, TypeOK, RestTypes, Losing
  <1>2. mint.totalPaid \in Int /\ drift \in Int
    BY <1>1, RoleTypes, MintFields DEF RestTypes
  <1>3. PICK c \in Int : c = Costs(added, mint.lastMint)
    BY CostsType
  <1>4. OpenLosses \in Int
    BY <1>1, OpenLossesStep
  <1>5. /\ NoNegativePrice => mint.totalPaid <= c + OpenLosses + drift
        /\ ~unsent => mint.totalPaid = c + OpenLosses + drift
    BY <1>3 DEF PaidInv
  <1>6. CASE Issuing /\ LossesKept
    <2>1. PICK z, t, paid, sent : /\ Issues(z, t, paid, sent)
                                  /\ RecordStep(z, t, sent)
                                  /\ DriftStep(paid, sent)
                                  /\ PriceStep(z, t, paid)
      BY <1>6 DEF Issuing
    <2>2. PICK T : T = added'
      OBVIOUS
    <2>3. PICK l : l = mint.lastMint
      OBVIOUS
    <2>4. /\ IsFiniteSet(added) /\ z \notin added /\ T = added \cup {z}
          /\ Records(T) /\ l \in Nat /\ t \in Nat /\ l <= t
      BY <2>1, <2>2, <2>3, IssuingContext
    <2>5. /\ \A x \in added : x.late => TermsOf(x).end <= l
          /\ z.late <=> TermsOf(z).end <= l
      BY <2>1, <2>3, IssuingContext
    <2>6. /\ paid \in Int /\ sent \in BOOLEAN
          /\ mint'.totalPaid = mint.totalPaid + paid
          /\ drift' = IF sent THEN drift ELSE drift + paid
          /\ unsent' = (unsent \/ ~sent) /\ unsent \in BOOLEAN
          /\ mint'.lastMint = z.since
          /\ z.since = IF sent THEN t ELSE l
      BY <1>1, <2>1, <2>3
      DEF Issues, RecordStep, DriftStep, PriceStep, RestTypes
    <2>7. OpenLosses' = OpenLosses
      BY <1>1, <1>6, OpenLossesStep
    <2>8. NoNegativePrice' => NoNegativePrice
      BY <2>2, <2>4 DEF NoNegativePrice, TermsOf
    <2>9. PICK d : d = Costs(T, mint'.lastMint)
      OBVIOUS
    <2>10. CASE ~sent
      <3>1. z.since = l
        BY <2>6, <2>10
      <3>2. Costs(T, l) = Costs(added, l)
        BY <2>4, <2>5, <3>1, CostsKept
      <3>3. d = c
        BY <1>3, <2>3, <2>6, <2>9, <3>1, <3>2
      <3>4. NoNegativePrice' =>
               mint'.totalPaid <= d + OpenLosses' + drift'
        BY <1>2, <1>4, <1>5, <2>6, <2>7, <2>8, <2>10, <3>3
      <3>5. unsent'
        BY <2>6, <2>10
      <3> QED
        BY <2>2, <2>9, <3>4, <3>5 DEF PaidInv
    <2>11. CASE sent
      <3>1. PICK B : B = LastBoundary(t)
        OBVIOUS
      <3>2. PICK K : K = Crosses(mint, t)
        OBVIOUS
      <3>3. /\ K \in BOOLEAN /\ B \in Nat /\ B \in Boundaries
            /\ K => l < B /\ B <= t
        <4>1. /\ K \in BOOLEAN /\ B \in Nat /\ B \in Boundaries /\ B <= t
              /\ K => l < B
          BY <2>1, <2>3, <3>1, <3>2, IssuingContext
        <4> QED
          BY <4>1
      <3>4. \A x \in T : (l < TermsOf(x).end /\ TermsOf(x).end <= t)
                           <=> (K /\ TermsOf(x).end = B)
        BY <2>1, <2>2, <2>3, <3>1, <3>2, IssuingContext
      <3>5. z.since = t /\ mint'.lastMint = t /\ unsent' = unsent
        BY <2>6, <2>11
      <3>6. PICK R : R = Running(Prices, added, l)
        OBVIOUS
      <3>7. PICK E : E = IF K THEN Ending(Prices, T, B) ELSE 0
        OBVIOUS
      <3>8. PICK x : x = R * (t - l)
        OBVIOUS
      <3>9. PICK y : y = E * (t - B)
        OBVIOUS
      <3>10. /\ x \in Int /\ y \in Int /\ d = c + x - y
             /\ NoNegativePrice => paid <= x - y
             /\ ~unsent => paid = x - y
        <4>1. Costs(T, t) = Costs(added, l) + x - y
          <5>1. Span(added, z, T, l, t, B, K)
            BY <2>4, <2>5, <3>3, <3>4, <3>5 DEF Span
          <5> QED
            BY <3>6, <3>7, <3>8, <3>9, <5>1, CostsStep
        <4>2. /\ R * (t - l) \in Int /\ E * (t - B) \in Int
              /\ NoNegativePrice => paid <= R * (t - l) - E * (t - B)
              /\ ~unsent => paid = R * (t - l) - E * (t - B)
          BY <2>1, <2>2, <2>3, <3>1, <3>2, <3>6, <3>7, PaidAtMost
        <4> QED
          BY <1>3, <2>3, <2>9, <3>5, <3>8, <3>9, <4>1, <4>2
      <3>11. drift' = drift
        BY <2>6, <2>11
      <3>12. NoNegativePrice' =>
                mint'.totalPaid <= d + OpenLosses' + drift'
        BY <1>2, <1>4, <1>5, <2>6, <2>7, <2>8, <3>10, <3>11
      <3>13. ~unsent' => mint'.totalPaid = d + OpenLosses' + drift'
        BY <1>2, <1>4, <1>5, <2>6, <2>7, <3>5, <3>10, <3>11
      <3> QED
        BY <2>2, <2>9, <3>12, <3>13 DEF PaidInv
    <2> QED
      BY <2>6, <2>10, <2>11
  <1>7. CASE Claiming /\ MintKept /\ added' = added
    <2>1. PICK g \in GroupIx, q \in Account : \E d, e : LossStep(g, q, d, e)
      BY <1>7 DEF Claiming
    <2>2. PICK d, e : LossStep(g, q, d, e)
      BY <2>1
    <2>3. OpenLosses' = OpenLosses + d
      BY <1>1, <2>2, OpenLossesStep
    <2>4. /\ d \in Int /\ e \in Int /\ mint'.totalPaid = mint.totalPaid + e
          /\ drift' = drift + (e - d) /\ unsent' = unsent
      BY <2>2 DEF LossStep
    <2>5. Costs(added, mint.lastMint)' = c
      BY <1>3, <1>7 DEF MintKept
    <2>6. NoNegativePrice' => NoNegativePrice
      BY <1>7 DEF NoNegativePrice, TermsOf
    <2>7. /\ NoNegativePrice' => mint'.totalPaid <= c + OpenLosses' + drift'
          /\ ~unsent' => mint'.totalPaid = c + OpenLosses' + drift'
      BY <1>2, <1>4, <1>5, <2>3, <2>4, <2>6
    <2> QED
      BY <2>5, <2>7 DEF PaidInv
  <1>8. CASE LossesKept /\ UNCHANGED <<mint, added, unsent, drift>>
    <2>1. OpenLosses' = OpenLosses
      BY <1>1, <1>8, OpenLossesStep
    <2>2. NoNegativePrice' => NoNegativePrice
      BY <1>8 DEF NoNegativePrice, TermsOf
    <2> QED
      BY <1>8, <2>1, <2>2 DEF PaidInv
  <1> QED
    BY <1>6, <1>7, <1>8 DEF SumsStep

\* At the start nothing is paid, lost or ordered.
LEMMA InitPaid == Init => PaidInv
  <1> SUFFICES ASSUME Init PROVE PaidInv
    OBVIOUS
  <1> DEFINE D == GroupIx \X Account
             f == [x \in D |-> se[x[1]][x[2]].Lost - se[x[1]][x[2]].LostPaid]
  <1>1. /\ added = {} /\ mint = NewMint
        /\ se = [g \in GroupIx |-> [p \in Account |-> NoSettlement]]
    BY DEF Init
  <1>2. mint.totalPaid = 0 /\ drift = 0
    BY <1>1 DEF NewMint, Init
  <1>3. Costs(added, mint.lastMint) = 0
    BY <1>1, SumEmpty DEF Costs
  <1>4. IsFiniteSet(D)
    <2>1. NGroup - 1 \in Int /\ 0 \in Int
      BY IssuingConstants
    <2>2. IsFiniteSet(GroupIx) /\ IsFiniteSet(Account)
      BY <2>1, IssuingConstants, FS_Interval DEF GroupIx
    <2> QED
      BY <2>2, FS_Product
  <1>5. \A x \in D : f[x] = 0
    BY <1>1 DEF NoSettlement
  <1>6. OpenLosses = SumFunctionOnSet(f, D)
    BY DEF OpenLosses, SumFunction
  <1> HIDE DEF D, f
  <1>7. OpenLosses = 0
    BY <1>4, <1>5, <1>6, SumZero
  <1> QED
    BY <1>2, <1>3, <1>7 DEF PaidInv

\* It holds throughout.
LEMMA PaidInvariant == Spec => [](RoleInv /\ TypeInv /\ IssueInv /\ PaidInv)
  <1>1. Init => PaidInv
    BY InitPaid
  <1>2. /\ RoleInv /\ TypeInv /\ IssueInv
        /\ (RoleInv /\ TypeInv /\ IssueInv)' /\ PaidInv /\ [Next]_vars
        => PaidInv'
    <2> SUFFICES ASSUME RoleInv, TypeInv, IssueInv, RoleInv', TypeInv', IssueInv',
                        PaidInv, [Next]_vars
                 PROVE  PaidInv'
      OBVIOUS
    <2>1. SumsStep
      BY NextSums
    <2>2. AddedInv /\ PriceInv /\ EndingInv'
      BY DEF IssueInv
    <2> QED
      BY <2>1, <2>2, PaidStep
  <1> QED
    BY <1>1, <1>2, SumsInvariant, PTL DEF Spec

\* In every instance, what counts as paid is what each order has cost up to its
\* end or the time issued, and each loss once, less what repairs have been paid
\* (role.go:836, 999), but for what half-failed calls make of it, call by call:
\* a failed send counts its span and leaves it to be counted again (role.go:877),
\* a failed claim leaves its new loss out, and a repair over another settlement
\* forgets the loss left there.  It is no more than that after failed sends, too,
\* if no order has a negative price.
THEOREM RolePaidAccounted == Spec => []PaidAccounted
  <1>1. RoleInv /\ TypeInv /\ IssueInv /\ PaidInv => PaidAccounted
    <2> SUFFICES ASSUME PaidInv PROVE PaidAccounted
      OBVIOUS
    <2> DEFINE f == [x \in added |-> Cost(x)]
               h == [x \in added |-> CostAt(x, mint.lastMint)]
    <2>1. h = f
      BY DEF Cost, CostAt, Runs, RunsAt
    <2>2. Costs(added, mint.lastMint) = SumFunctionOnSet(h, added)
      BY DEF Costs
    <2>3. SumFunction(f) = SumFunctionOnSet(f, added)
      BY DEF SumFunction
    <2>4. PICK c : c = SumFunction(f)
      OBVIOUS
    <2>5. PaidAccounted <=>
             /\ (NoNegativePrice => mint.totalPaid <= c + OpenLosses + drift)
             /\ (~unsent => mint.totalPaid = c + OpenLosses + drift)
      BY <2>4 DEF PaidAccounted, OpenLosses
    <2> HIDE DEF f, h
    <2>6. c = Costs(added, mint.lastMint)
      BY <2>1, <2>2, <2>3, <2>4
    <2> QED
      BY <2>5, <2>6 DEF PaidInv
  <1> QED
    BY <1>1, PaidInvariant, PTL

-----------------------------------------------------------------------------
(***************************************************************************)
(* What the pledge pool gets                                               *)
(***************************************************************************)
\* The highest of the ratios of the table.
Highest == Max({Levels[i].Ratio : i \in DOMAIN Levels})

\* It is one, and no level's is higher.
LEMMA HighestRatio ==
    /\ Highest \in Nat
    /\ \A i \in DOMAIN Levels : Levels[i].Ratio \in Nat /\ Levels[i].Ratio <= Highest
  <1> DEFINE N == DOMAIN Levels
             S == {Levels[i].Ratio : i \in N}
             f == [i \in N |-> Levels[i].Ratio]
  <1>1. Levels \in Seq(Level) /\ Levels # <<>>
    BY IssuanceAssumption
  <1>2. N = 1 .. Len(Levels) /\ Len(Levels) \in Nat /\ Len(Levels) # 0
    BY <1>1
  <1>3. \A i \in N : Levels[i] \in Level
    BY <1>1
  <1>4. S \in SUBSET Nat
    BY <1>3 DEF Level
  <1>5. S # {}
    <2>1. 1 \in N
      BY <1>2
    <2> QED
      BY <2>1
  <1>6. IsFiniteSet(S)
    <2>1. IsFiniteSet(N)
      <3>1. 1 \in Int /\ Len(Levels) \in Int
        BY <1>2
      <3> QED
        BY <1>2, <3>1, FS_Interval
    <2>2. f \in Surjection(N, S)
      BY DEF Surjection
    <2> HIDE DEF N, S, f
    <2> QED
      BY <2>1, <2>2, FS_Surjection
  <1>7. Highest = Max(S)
    BY DEF Highest
  <1>8. \A i \in N : Levels[i].Ratio \in S
    OBVIOUS
  <1>9. Max(S) \in S /\ \A y \in S : y <= Max(S)
    <2> HIDE DEF S
    <2> QED
      BY <1>4, <1>5, <1>6, MaxOf
  <1> QED
    BY <1>4, <1>7, <1>8, <1>9

\* The pool has got no more than the highest ratio allows for what the orders
\* have cost.
PoolInv ==
    NoNegativePrice \/ ~unsent =>
        100 * erc.money[Pool] <= Highest * PosCosts(added, mint.lastMint)

\* A percentage, of a part of what has been added to the costs.
LEMMA Percentage ==
    ASSUME NEW paid \in Nat, NEW r \in Nat, NEW top \in Nat, r <= top,
           NEW m \in Int, NEW c \in Int, NEW d \in Int,
           100 * m <= top * c, c + paid <= d
    PROVE  100 * (m + (paid * r) \div 100) <= top * d
  <1>1. PICK a : a = paid * r
    OBVIOUS
  <1>2. PICK b : b = paid * top
    OBVIOUS
  <1>3. a \in Nat /\ b \in Nat
    BY <1>1, <1>2, TimesIsNat
  <1>4. a <= b
    <2>1. r * paid <= top * paid
      BY TimesMono
    <2>2. paid * r = r * paid /\ paid * top = top * paid
      BY SMT
    <2> QED
      BY <1>1, <1>2, <2>1, <2>2
  <1>5. PICK q : q = a \div 100
    OBVIOUS
  <1>6. q \in Nat /\ 100 * q <= a
    BY <1>3, <1>5, DivBounds
  <1>7. PICK e \in Nat : e = d - (c + paid)
    OBVIOUS
  <1>8. top * d = top * c + paid * top + top * e
    <2>1. d = c + paid + e
      BY <1>7
    <2> QED
      BY <2>1, SMT
  <1>9. PICK f : f = top * e
    OBVIOUS
  <1>10. f \in Nat
    BY <1>9, TimesIsNat
  <1>11. PICK g \in Int : g = top * c
    OBVIOUS
  <1>12. PICK h \in Int : h = top * d
    OBVIOUS
  <1>13. h = g + b + f
    BY <1>2, <1>8, <1>9, <1>11, <1>12
  <1>14. 100 * m <= g
    BY <1>11
  <1>15. 100 * (m + q) <= h
    BY <1>3, <1>4, <1>6, <1>10, <1>13, <1>14
  <1> QED
    BY <1>1, <1>5, <1>12, <1>15

\* Multiples of costs that have grown.
LEMMA HighestTimes ==
    ASSUME NEW top \in Nat, NEW m \in Int, NEW c \in Int, NEW d \in Int,
           100 * m <= top * c, c <= d
    PROVE  100 * m <= top * d
  <1>1. PICK e \in Nat : e = d - c
    OBVIOUS
  <1>2. top * d = top * c + top * e
    <2>1. d = c + e
      BY <1>1
    <2> QED
      BY <2>1, SMT
  <1>3. top * e \in Nat
    BY TimesIsNat
  <1>4. PICK f \in Nat : f = top * e
    BY <1>3
  <1>5. PICK g \in Int : g = top * c
    OBVIOUS
  <1>6. PICK h \in Int : h = top * d
    OBVIOUS
  <1> QED
    BY <1>2, <1>4, <1>5, <1>6

\* What is sent is covered by what the costs grow by.
LEMMA PoolStepKeeps ==
    ASSUME RoleInv, TypeInv, TypeInv', AddedInv, EndingInv', PriceInv, SumsStep,
           PoolInv
    PROVE  PoolInv'
  <1>1. Highest \in Nat
    BY HighestRatio
  <1>2. erc.money[Pool] \in Int /\ erc'.money[Pool] \in Int
    <2>1. erc \in Ledger /\ erc' \in Ledger /\ Pool \in Address
      BY RoleTypes, RoleAssumption DEF TypeInv, TypeOK
    <2> QED
      BY <2>1 DEF Ledger
  <1>3. mint.lastMint \in Nat /\ Records(added) /\ IsFiniteSet(added)
    BY RoleTypes DEF AddedInv, Records
  <1>4. PICK l : l = mint.lastMint
    OBVIOUS
  <1>5. PICK c : c = PosCosts(added, l)
    OBVIOUS
  <1>6. PICK m : m = erc.money[Pool]
    OBVIOUS
  <1>7. NoNegativePrice \/ ~unsent => 100 * m <= Highest * c
    BY <1>4, <1>5, <1>6 DEF PoolInv
  <1>8. c \in Int
    <2> DEFINE h == [x \in added |-> PosAt(x, l)]
    <2>1. c = SumFunctionOnSet(h, added)
      BY <1>5 DEF PosCosts
    <2>2. \A x \in added : h[x] \in Int
      BY <1>3, <1>4, CostType
    <2> HIDE DEF h
    <2> QED
      BY <1>3, <2>1, <2>2, SumType
  <1>9. CASE Issuing
    <2>1. PICK z, t, paid, sent : /\ Issues(z, t, paid, sent)
                                  /\ RecordStep(z, t, sent)
                                  /\ PriceStep(z, t, paid)
                                  /\ LevelStep(z)
                                  /\ PoolStep(paid, sent)
      BY <1>9 DEF Issuing
    <2>2. PICK T : T = added'
      OBVIOUS
    <2>3. PICK j : j = mint'.lastMint
      OBVIOUS
    <2>4. /\ z \notin added /\ T = added \cup {z}
          /\ Records(T) /\ IsFiniteSet(T) /\ t \in Nat /\ l <= t
      BY <2>1, <2>2, <1>4, IssuingContext
    <2>5. /\ paid \in Int /\ sent \in BOOLEAN
          /\ j = z.since /\ z.since = (IF sent THEN t ELSE l)
      BY <1>4, <2>1, <2>3 DEF Issues, RecordStep, PriceStep
    <2>6. j \in Nat /\ l <= j /\ l \in Nat
      BY <1>3, <1>4, <2>4, <2>5
    <2>7. PICK d : d = PosCosts(T, j)
      OBVIOUS
    <2>8. c <= d
      <3>1. added \subseteq T
        BY <2>4
      <3> QED
        BY <1>4, <1>5, <2>4, <2>6, <2>7, <3>1, PosCostsGrow DEF AddedInv
    <2>9. d \in Int
      <3> DEFINE h == [x \in T |-> PosAt(x, j)]
      <3>1. d = SumFunctionOnSet(h, T)
        BY <2>7 DEF PosCosts
      <3>2. \A x \in T : h[x] \in Int
        BY <2>4, <2>6, CostType
      <3> HIDE DEF h
      <3> QED
        BY <2>4, <3>1, <3>2, SumType
    <2>10. 100 * erc'.money[Pool] <= Highest * d => PoolInv'
      BY <2>2, <2>3, <2>7 DEF PoolInv, Highest
    <2>20. /\ ~unsent' => ~unsent
           /\ NoNegativePrice' => NoNegativePrice
      <3>1. RestTypes
        BY TypeParts DEF TypeInv, TypeOK, RestTypes, Losing
      <3> QED
        BY <2>1, <2>2, <2>4, <3>1
        DEF RecordStep, RestTypes, NoNegativePrice, TermsOf
    <2> SUFFICES ASSUME NoNegativePrice' \/ ~unsent' PROVE PoolInv'
      BY DEF PoolInv
    <2>21. NoNegativePrice \/ ~unsent
      BY <2>20
    <2>22. 100 * m <= Highest * c
      BY <1>7, <2>21
    <2>11. CASE sent /\ paid > 0
      <3>1. PICK B : B = LastBoundary(t)
        OBVIOUS
      <3>2. PICK K : K = Crosses(mint, t)
        OBVIOUS
      <3>3. /\ K \in BOOLEAN /\ B \in Nat /\ B \in Boundaries
            /\ K => l < B /\ B <= t
        <4>1. /\ K \in BOOLEAN /\ B \in Nat /\ B \in Boundaries /\ B <= t
              /\ K => l < B
          BY <1>4, <2>1, <3>1, <3>2, IssuingContext
        <4> QED
          BY <4>1
      <3>4. \A x \in T : (l < TermsOf(x).end /\ TermsOf(x).end <= t)
                           <=> (K /\ TermsOf(x).end = B)
        BY <1>4, <2>1, <2>2, <3>1, <3>2, IssuingContext
      <3>5. /\ \A x \in added : x.late => TermsOf(x).end <= l
            /\ z.late <=> TermsOf(z).end <= l
        BY <1>4, <2>1, IssuingContext
      <3>6. \A x \in added : x.since <= l
        BY <1>4 DEF AddedInv
      <3>7. z.since = t /\ j = t
        BY <2>5, <2>11
      <3>8. PICK R : R = Running(Prices, added, l)
        OBVIOUS
      <3>9. PICK E : E = IF K THEN Ending(Prices, T, B) ELSE 0
        OBVIOUS
      <3>10. /\ R * (t - l) \in Int /\ E * (t - B) \in Int
             /\ NoNegativePrice => paid <= R * (t - l) - E * (t - B)
             /\ ~unsent => paid = R * (t - l) - E * (t - B)
        BY <1>4, <2>1, <2>2, <3>1, <3>2, <3>8, <3>9, PaidAtMost
      <3>11. PICK x : x = R * (t - l)
        OBVIOUS
      <3>12. PICK y : y = E * (t - B)
        OBVIOUS
      <3>13. /\ x \in Int /\ y \in Int /\ d >= c + x - y
             /\ NoNegativePrice => paid <= x - y
             /\ ~unsent => paid = x - y
        <4>1. PosCosts(T, t) >= PosCosts(added, l) + x - y
          <5>1. Span(added, z, T, l, t, B, K)
            BY <1>3, <2>4, <2>6, <3>3, <3>4, <3>5, <3>7 DEF Span
          <5> QED
            BY <3>6, <3>8, <3>9, <3>11, <3>12, <5>1, CostsStep
        <4> QED
          BY <1>5, <2>7, <3>7, <3>10, <3>11, <3>12, <4>1
      <3>14. c + paid <= d
        BY <1>8, <2>5, <2>9, <2>21, <3>13
      <3>15. PICK r : r = Levels[mint'.mintLevel + 1].Ratio
        OBVIOUS
      <3>16. r \in Nat /\ r <= Highest
        <4>1. mint'.mintLevel < Len(Levels) /\ mint' \in Mint
          BY <2>1 DEF LevelStep, PriceStep
        <4>2. mint'.mintLevel \in Nat
          BY <4>1, MintFields
        <4>3. mint'.mintLevel + 1 \in DOMAIN Levels
          BY <4>1, <4>2, LevelType
        <4> QED
          BY <3>15, <4>3, HighestRatio
      <3>17. erc'.money[Pool] = m + (paid * r) \div 100
        BY <1>6, <2>1, <2>11, <3>15 DEF PoolStep
      <3>18. paid \in Nat
        BY <2>5, <2>11
      <3>19. 100 * (m + (paid * r) \div 100) <= Highest * d
        <4>1. m \in Int
          BY <1>2, <1>6
        <4> QED
          BY ONLY <1>1, <1>8, <2>9, <2>22, <3>14, <3>16, <3>18, <4>1, Percentage
      <3> QED
        BY <2>10, <3>17, <3>19
    <2>12. CASE ~(sent /\ paid > 0)
      <3>1. erc'.money[Pool] = m
        BY <1>6, <2>1, <2>12 DEF PoolStep
      <3>2. 100 * m <= Highest * d
        BY <1>1, <1>2, <1>6, <1>8, <2>8, <2>9, <2>22, HighestTimes
      <3> QED
        BY <2>10, <3>1, <3>2
    <2> QED
      BY <2>11, <2>12
  <1>10. CASE /\ added' = added /\ mint'.lastMint = mint.lastMint
              /\ unsent' = unsent
              /\ erc'.money[Pool] <= erc.money[Pool]
    <2>1. NoNegativePrice' <=> NoNegativePrice
      BY <1>10 DEF NoNegativePrice, TermsOf
    <2>2. 100 * erc'.money[Pool] <= Highest * c => PoolInv'
      BY <1>4, <1>5, <1>10 DEF PoolInv, Highest
    <2> SUFFICES ASSUME NoNegativePrice \/ ~unsent PROVE PoolInv'
      BY <1>10, <2>1 DEF PoolInv
    <2>3. PICK h \in Int : h = Highest * c
      BY <1>1, <1>8
    <2>4. 100 * erc'.money[Pool] <= h
      BY <1>2, <1>6, <1>7, <1>10, <2>3
    <2> QED
      BY <2>2, <2>3, <2>4
  <1>11. \/ Issuing
         \/ /\ added' = added /\ mint'.lastMint = mint.lastMint
            /\ unsent' = unsent
            /\ erc'.money[Pool] <= erc.money[Pool]
    BY <1>2 DEF SumsStep, MintKept, Claiming, LossStep
  <1> QED
    BY <1>9, <1>10, <1>11

\* In every instance, the pool never gets more than the highest ratio allows
\* for what the orders have cost (role.go:819, 874): no span is paid out twice,
\* also when sends fail and the next call starts from the same time again, but
\* for orders of negative price after a failed send.
THEOREM RoleNoSpanPaidTwice == Spec => []NoSpanPaidTwice
  <1>1. Init => PoolInv
    <2> SUFFICES ASSUME Init PROVE PoolInv
      OBVIOUS
    <2>1. erc.money[Pool] = 0 /\ added = {}
      BY RoleAssumption DEF Init, LedgerOf
    <2>2. PosCosts(added, mint.lastMint) = 0
      BY <2>1, SumEmpty DEF PosCosts
    <2>3. Highest * 0 = 0 /\ 100 * 0 = 0
      BY HighestRatio
    <2> QED
      BY <2>1, <2>2, <2>3 DEF PoolInv
  <1>2. /\ RoleInv /\ TypeInv /\ IssueInv
        /\ (RoleInv /\ TypeInv /\ IssueInv)' /\ PoolInv /\ [Next]_vars
        => PoolInv'
    <2> SUFFICES ASSUME RoleInv, TypeInv, IssueInv, RoleInv', TypeInv', IssueInv',
                        PoolInv, [Next]_vars
                 PROVE  PoolInv'
      OBVIOUS
    <2>1. SumsStep
      BY NextSums
    <2>2. AddedInv /\ PriceInv /\ EndingInv'
      BY DEF IssueInv
    <2> QED
      BY <2>1, <2>2, PoolStepKeeps
  <1>3. PoolInv => NoSpanPaidTwice
    <2> SUFFICES ASSUME PoolInv PROVE NoSpanPaidTwice
      OBVIOUS
    <2> DEFINE f == [x \in added |-> IF Cost(x) > 0 THEN Cost(x) ELSE 0]
               h == [x \in added |-> PosAt(x, mint.lastMint)]
    <2>1. \A x : Cost(x) = CostAt(x, mint.lastMint)
      BY DEF Cost, CostAt, Runs, RunsAt
    <2>2. f = h
      BY <2>1 DEF PosAt
    <2>3. PosCosts(added, mint.lastMint) = SumFunctionOnSet(h, added)
      BY DEF PosCosts
    <2>4. SumFunction(f) = SumFunctionOnSet(f, added)
      BY DEF SumFunction
    <2>5. PICK c : c = SumFunction(f)
      OBVIOUS
    <2>6. NoSpanPaidTwice <=> (NoNegativePrice \/ ~unsent =>
                                  100 * erc.money[Pool] <= Highest * c)
      BY <2>5 DEF NoSpanPaidTwice, Highest
    <2> HIDE DEF f, h
    <2>7. c = PosCosts(added, mint.lastMint)
      BY <2>2, <2>3, <2>4, <2>5
    <2> QED
      BY <2>6, <2>7 DEF PoolInv
  <1> QED
    BY <1>1, <1>2, <1>3, SumsInvariant, PTL DEF Spec

-----------------------------------------------------------------------------
(***************************************************************************)
(* The sums of the groups                                                  *)
(***************************************************************************)
\* How order x counts in the sums of group g: once while it is open, in the
\* main token, and negatively once it has ended, in another.
Sign(x, g) ==
    LET b == book[x.user][x.pro] IN
    CASE gIndex[x.user] # g -> 0
      [] gIndex[x.user] = g /\ TermsOf(x).token = 0 ->
            IF b.subNonce <= x.nonce /\ x.nonce < b.nonce THEN 1 ELSE 0
      [] gIndex[x.user] = g /\ TermsOf(x).token # 0 ->
            IF x.nonce < b.subNonce THEN -1 ELSE 0

\* The sum of weights w of the signed orders, each as it counts.
Net(w, g) == SumFunctionOnSet([x \in Signed |-> Sign(x, g) * w[x]], Signed)

SignedPrices == [x \in Signed |-> TermsOf(x).sprice]
SignedSizes  == [x \in Signed |-> TermsOf(x).size]

NetInv == \A g \in GroupIx : /\ groups[g].Price = Net(SignedPrices, g)
                             /\ groups[g].Size = Net(SignedSizes, g)

\* Fields of a signed order.
LEMMA SignedFields ==
    ASSUME NEW x \in Signed
    PROVE  /\ x.user \in Account /\ x.pro \in Account
           /\ x.nonce \in Nonces(x.user, x.pro) /\ x.nonce \in Nat
           /\ TermsOf(x).sprice \in Int /\ TermsOf(x).size \in Nat
           /\ SignedPrices[x] = TermsOf(x).sprice
           /\ SignedSizes[x] = TermsOf(x).size
           /\ x = [user |-> x.user, pro |-> x.pro, nonce |-> x.nonce]
  <1>1. PICK y \in Account \X Account :
            x \in {[user |-> y[1], pro |-> y[2], nonce |-> n] :
                      n \in Nonces(y[1], y[2])}
    BY DEF Signed
  <1>2. PICK n \in Nonces(y[1], y[2]) :
            x = [user |-> y[1], pro |-> y[2], nonce |-> n]
    BY <1>1
  <1>3. /\ x.user \in Account /\ x.pro \in Account
        /\ x.nonce \in Nonces(x.user, x.pro)
        /\ x = [user |-> x.user, pro |-> x.pro, nonce |-> x.nonce]
    BY <1>2
  <1>4. x.nonce \in Nat /\ Terms[x.user][x.pro][x.nonce + 1] \in Order
    BY <1>3, TermsTypes
  <1>5. TermsOf(x) \in Order
    BY <1>4 DEF TermsOf
  <1>6. TermsOf(x).sprice \in Int /\ TermsOf(x).size \in Nat
    BY <1>5, OrderFields
  <1> QED
    BY <1>3, <1>4, <1>6 DEF SignedPrices, SignedSizes

\* Every account has signed finitely many orders.
LEMMA SignedFinite == IsFiniteSet(Signed)
  <1> DEFINE P == Account \X Account
             S(y) == {[user |-> y[1], pro |-> y[2], nonce |-> n] :
                         n \in Nonces(y[1], y[2])}
             f == [y \in P |-> S(y)]
             all == {S(y) : y \in P}
  <1>1. IsFiniteSet(P)
    BY IssuingConstants, FS_Product
  <1>2. ASSUME NEW y \in P PROVE IsFiniteSet(S(y))
    <2> DEFINE N == Nonces(y[1], y[2])
               h == [n \in N |-> [user |-> y[1], pro |-> y[2], nonce |-> n]]
               R == S(y)
    <2>1. IsFiniteSet(N)
      <3>1. Terms[y[1]][y[2]] \in Seq(Order)
        BY RoleAssumption
      <3>2. Len(Terms[y[1]][y[2]]) - 1 \in Int /\ 0 \in Int
        BY <3>1
      <3> QED
        BY <3>2, FS_Interval DEF Nonces
    <2>2. h \in Surjection(N, R)
      BY DEF Surjection
    <2>3. R = S(y)
      OBVIOUS
    <2> HIDE DEF N, h, R
    <2>4. IsFiniteSet(R)
      BY <2>1, <2>2, FS_Surjection
    <2> QED
      BY <2>3, <2>4
  <1>3. f \in Surjection(P, all)
    BY DEF Surjection
  <1>4. \A T \in all : IsFiniteSet(T)
    BY <1>2
  <1>5. Signed = UNION all
    BY DEF Signed
  <1> HIDE DEF P, S, f, all
  <1>6. IsFiniteSet(all)
    BY <1>1, <1>3, FS_Surjection
  <1> QED
    BY <1>4, <1>5, <1>6, FS_UNION

\* Signs are small numbers.
LEMMA SignType ==
    ASSUME NEW x \in Signed, NEW g
    PROVE  Sign(x, g) \in Int /\ Sign(x, g) \in {-1, 0, 1}
  BY DEF Sign

\* One order's sign changes by d, and the sums of its group with it; or none do.
SignStep(z, k, d) ==
    /\ z \in Signed /\ k \in GroupIx
    /\ Sign(z, k)' = Sign(z, k) + d
    /\ \A x \in Signed, g \in GroupIx :
          ~(x = z /\ g = k) => Sign(x, g)' = Sign(x, g)
    /\ \A g \in GroupIx : g # k => /\ groups'[g].Price = groups[g].Price
                                   /\ groups'[g].Size = groups[g].Size
    /\ groups'[k].Price = groups[k].Price + d * TermsOf(z).sprice
    /\ groups'[k].Size = groups[k].Size + d * TermsOf(z).size

SignsKept ==
    /\ \A x \in Signed, g \in GroupIx : Sign(x, g)' = Sign(x, g)
    /\ \A g \in GroupIx : /\ groups'[g].Price = groups[g].Price
                          /\ groups'[g].Size = groups[g].Size

\* An order that is added.
LEMMA AddOrderSigns ==
    ASSUME RoleInv, OrdersTaken,
           NEW u \in Account, NEW p \in Account, NEW n \in Nonces(u, p),
           AddOrder(u, p, n)
    PROVE  SignsKept \/ \E z, k : SignStep(z, k, 1)
  <1>1. /\ gIndex' = gIndex /\ gIndex[u] \in GroupIx
        /\ n \in Nat /\ book[u][p].nonce = n
        /\ book'[u][p].nonce = n + 1
        /\ book'[u][p].subNonce = book[u][p].subNonce
        /\ \A v, r \in Account : ~(v = u /\ r = p) => book'[v][r] = book[v][r]
    BY AddOrderBook
  <1>2. PICK k \in GroupIx : k = gIndex[u]
    BY <1>1
  <1>3. PICK z : z = [user |-> u, pro |-> p, nonce |-> n]
    OBVIOUS
  <1>4. /\ z \in Signed /\ z.user = u /\ z.pro = p /\ z.nonce = n
        /\ TermsOf(z) = Terms[u][p][n + 1]
    <2>1. PICK y \in Account \X Account : y = <<u, p>>
      OBVIOUS
    <2>2. y[1] = u /\ y[2] = p
      BY <2>1
    <2> QED
      BY <1>3, <2>2 DEF Signed, TermsOf
  <1>5. PICK o : o = TermsOf(z)
    OBVIOUS
  <1>6. o.sprice \in Int /\ o.size \in Nat
    BY <1>4, <1>5, SignedFields
  <1>7. book[u][p].subNonce <= n /\ book[u][p].subNonce \in Nat
    BY <1>1 DEF OrdersTaken, RoleInv, MemberTypes, Book
  <1>8. ASSUME NEW x \in Signed, NEW g \in GroupIx, x # z \/ g # k
        PROVE  Sign(x, g)' = Sign(x, g)
    <2>1. /\ x.user \in Account /\ x.pro \in Account /\ x.nonce \in Nat
          /\ x = [user |-> x.user, pro |-> x.pro, nonce |-> x.nonce]
      BY SignedFields
    <2>2. CASE gIndex[x.user] # g
      BY <1>1, <2>2 DEF Sign
    <2>3. CASE ~(x.user = u /\ x.pro = p)
      <3>1. book'[x.user][x.pro] = book[x.user][x.pro]
        BY <1>1, <2>1, <2>3
      <3> QED
        BY <1>1, <3>1 DEF Sign, TermsOf
    <2>4. CASE x.user = u /\ x.pro = p /\ gIndex[x.user] = g
      <3>1. x.nonce # n
        BY <1>2, <1>3, <1>8, <2>1, <2>4
      <3>2. x.nonce < n + 1 <=> x.nonce < n
        BY <1>1, <2>1, <3>1
      <3> QED
        BY <1>1, <2>4, <3>2 DEF Sign, TermsOf
    <2> QED
      BY <2>2, <2>3, <2>4
  <1>9. CASE o.token = 0
    <2>1. Sign(z, k) = 0
      <3>1. ~(n < n)
        BY <1>1
      <3> QED
        BY <1>1, <1>2, <1>4, <1>5, <1>9, <3>1 DEF Sign
    <2>2. Sign(z, k)' = 1
      <3>1. n < n + 1
        BY <1>1
      <3> QED
        BY <1>1, <1>2, <1>4, <1>5, <1>7, <1>9, <3>1 DEF Sign, TermsOf
    <2>3. groups' = [groups EXCEPT ![k].Size = @ + o.size,
                                   ![k].Price = @ + o.sprice]
      BY <1>2, <1>4, <1>5, <1>9 DEF AddOrder
    <2> DEFINE new == [groups[k] EXCEPT !.Size = @ + o.size, !.Price = @ + o.sprice]
    <2>4. groups \in [GroupIx -> Group] /\ groups[k] \in Group
      BY DEF RoleInv, MemberTypes
    <2>5. groups' = [groups EXCEPT ![k] = new]
      BY <2>3, <2>4 DEF Group
    <2>6. /\ new.Size = groups[k].Size + o.size
          /\ new.Price = groups[k].Price + o.sprice
      BY <2>4 DEF Group
    <2> HIDE DEF new
    <2>7. /\ groups'[k].Size = groups[k].Size + o.size
          /\ groups'[k].Price = groups[k].Price + o.sprice
          /\ \A g \in GroupIx : g # k => groups'[g] = groups[g]
      BY <2>4, <2>5, <2>6
    <2>8. 1 * o.size = o.size /\ 1 * o.sprice = o.sprice
      BY <1>6
    <2>9. Sign(z, k)' = Sign(z, k) + 1
      BY <2>1, <2>2
    <2>10. SignStep(z, k, 1)
      BY <1>4, <1>5, <1>8, <2>7, <2>8, <2>9 DEF SignStep
    <2> QED
      BY <2>10
  <1>10. CASE o.token # 0
    <2>1. groups' = groups
      BY <1>4, <1>5, <1>10 DEF AddOrder
    <2>2. Sign(z, k)' = Sign(z, k)
      BY <1>1, <1>2, <1>4, <1>5, <1>10 DEF Sign, TermsOf
    <2> QED
      BY <1>8, <2>1, <2>2 DEF SignsKept
  <1> QED
    BY <1>9, <1>10

\* An order that ends.
LEMMA SubOrderSigns ==
    ASSUME RoleInv, OrdersTaken,
           NEW u \in Account, NEW p \in Account, NEW n \in Nonces(u, p),
           SubOrder(u, p, n)
    PROVE  \E z, k : SignStep(z, k, -1)
  <1>1. /\ gIndex' = gIndex /\ gIndex[u] \in GroupIx
        /\ n \in Nat /\ book[u][p].subNonce = n /\ n < book[u][p].nonce
        /\ book'[u][p].nonce = book[u][p].nonce
        /\ book'[u][p].subNonce = n + 1
        /\ \A v, r \in Account : ~(v = u /\ r = p) => book'[v][r] = book[v][r]
    BY SubOrderBook
  <1>2. PICK k \in GroupIx : k = gIndex[u]
    BY <1>1
  <1>3. PICK z : z = [user |-> u, pro |-> p, nonce |-> n]
    OBVIOUS
  <1>4. /\ z \in Signed /\ z.user = u /\ z.pro = p /\ z.nonce = n
        /\ TermsOf(z) = Terms[u][p][n + 1]
    <2>1. PICK y \in Account \X Account : y = <<u, p>>
      OBVIOUS
    <2>2. y[1] = u /\ y[2] = p
      BY <2>1
    <2> QED
      BY <1>3, <2>2 DEF Signed, TermsOf
  <1>5. PICK o : o = TermsOf(z)
    OBVIOUS
  <1>6. o.sprice \in Int /\ o.size \in Nat
    BY <1>4, <1>5, SignedFields
  <1>7. book[u][p].nonce \in Nat
    BY DEF RoleInv, MemberTypes, Book
  <1>8. ASSUME NEW x \in Signed, NEW g \in GroupIx, x # z \/ g # k
        PROVE  Sign(x, g)' = Sign(x, g)
    <2>1. /\ x.user \in Account /\ x.pro \in Account /\ x.nonce \in Nat
          /\ x = [user |-> x.user, pro |-> x.pro, nonce |-> x.nonce]
      BY SignedFields
    <2>2. CASE gIndex[x.user] # g
      BY <1>1, <2>2 DEF Sign
    <2>3. CASE ~(x.user = u /\ x.pro = p)
      <3>1. book'[x.user][x.pro] = book[x.user][x.pro]
        BY <1>1, <2>1, <2>3
      <3> QED
        BY <1>1, <3>1 DEF Sign, TermsOf
    <2>4. CASE x.user = u /\ x.pro = p /\ gIndex[x.user] = g
      <3>1. x.nonce # n
        BY <1>2, <1>3, <1>8, <2>1, <2>4
      <3>2. /\ x.nonce < n + 1 <=> x.nonce < n
            /\ n + 1 <= x.nonce <=> n <= x.nonce
        BY <1>1, <2>1, <3>1
      <3> QED
        BY <1>1, <2>4, <3>2 DEF Sign, TermsOf
    <2> QED
      BY <2>2, <2>3, <2>4
  <1>9. Sign(z, k)' = Sign(z, k) - 1
    <2>1. ~(n < n) /\ n <= n /\ n < n + 1 /\ ~(n + 1 <= n)
      BY <1>1
    <2>2. CASE o.token = 0
      <3>1. Sign(z, k) = 1
        BY <1>1, <1>2, <1>4, <1>5, <2>1, <2>2 DEF Sign
      <3>2. Sign(z, k)' = 0
        BY <1>1, <1>2, <1>4, <1>5, <2>1, <2>2 DEF Sign, TermsOf
      <3> QED
        BY <3>1, <3>2
    <2>3. CASE o.token # 0
      <3>1. Sign(z, k) = 0
        BY <1>1, <1>2, <1>4, <1>5, <2>1, <2>3 DEF Sign
      <3>2. Sign(z, k)' = -1
        BY <1>1, <1>2, <1>4, <1>5, <2>1, <2>3 DEF Sign, TermsOf
      <3> QED
        BY <3>1, <3>2
    <2> QED
      BY <2>2, <2>3
  <1>10. groups' = [groups EXCEPT ![k] = Without(groups[k], o)]
    BY <1>2, <1>4, <1>5 DEF SubOrder
  <1> DEFINE new == Without(groups[k], o)
  <1>11. groups \in [GroupIx -> Group] /\ groups[k] \in Group
    BY DEF RoleInv, MemberTypes
  <1>12. /\ new.Size = groups[k].Size - o.size
         /\ new.Price = groups[k].Price - o.sprice
         /\ groups[k].Size \in Int /\ groups[k].Price \in Int
    BY <1>11 DEF Group, Without
  <1>13. groups' = [groups EXCEPT ![k] = new]
    BY <1>10
  <1> HIDE DEF new
  <1>14. /\ groups'[k].Size = groups[k].Size - o.size
         /\ groups'[k].Price = groups[k].Price - o.sprice
         /\ \A g \in GroupIx : g # k => groups'[g] = groups[g]
    BY <1>11, <1>12, <1>13
  <1>15. /\ groups[k].Size - o.size = groups[k].Size + (-1) * o.size
         /\ groups[k].Price - o.sprice = groups[k].Price + (-1) * o.sprice
    BY <1>6, <1>12
  <1>16. Sign(z, k)' = Sign(z, k) + (-1)
    BY <1>4, <1>9, SignType
  <1>17. SignStep(z, k, -1)
    BY <1>4, <1>5, <1>8, <1>14, <1>15, <1>16 DEF SignStep
  <1> QED
    BY <1>17

\* Every step.
LEMMA NextSigns ==
    ASSUME RoleInv, OrdersTaken, [Next]_vars
    PROVE  SignsKept \/ \E z, k : SignStep(z, k, 1) \/ SignStep(z, k, -1)
  <1>1. CASE \E u, p \in Account : \E n \in Nonces(u, p) :
                AddOrder(u, p, n) \/ SubOrder(u, p, n)
    <2>1. PICK u \in Account, p \in Account : \E n \in Nonces(u, p) :
                AddOrder(u, p, n) \/ SubOrder(u, p, n)
      BY <1>1
    <2>2. PICK n \in Nonces(u, p) : AddOrder(u, p, n) \/ SubOrder(u, p, n)
      BY <2>1
    <2> QED
      BY <2>2, AddOrderSigns, SubOrderSigns
  <1>2. CASE /\ book' = book
             /\ \A a \in Account : gIndex'[a] = gIndex[a] \/ roleType[a] # "user"
             /\ \A g \in GroupIx : /\ groups'[g].Price = groups[g].Price
                                   /\ groups'[g].Size = groups[g].Size
    <2>1. ASSUME NEW x \in Signed, NEW g \in GroupIx
          PROVE  Sign(x, g)' = Sign(x, g)
      <3>1. x.user \in Account /\ x.pro \in Account /\ x.nonce \in Nat
        BY SignedFields
      <3>2. CASE gIndex'[x.user] = gIndex[x.user]
        BY <1>2, <3>2 DEF Sign, TermsOf
      <3>3. CASE roleType[x.user] # "user"
        <4>1. book[x.user][x.pro] \in Book
          BY <3>1 DEF RoleInv, MemberTypes
        <4>2. book[x.user][x.pro].nonce = 0 /\ book[x.user][x.pro].subNonce = 0
          BY <3>1, <3>3, <4>1 DEF OrdersTaken, Book
        <4>3. ~(x.nonce < 0)
          BY <3>1
        <4> QED
          BY <1>2, <4>2, <4>3 DEF Sign, TermsOf
      <3> QED
        BY <1>2, <3>1, <3>2, <3>3
    <2> QED
      BY <1>2, <2>1 DEF SignsKept
  <1> QED
    BY <1>1, <1>2, OtherSteps

\* A sum changes by the weight of the order whose sign does.
LEMMA NetStep ==
    ASSUME NEW w, \A x \in Signed : w[x] \in Int,
           NEW g \in GroupIx, NEW z \in Signed, NEW d \in Int,
           Sign(z, g)' = Sign(z, g) + d,
           \A x \in Signed : x # z => Sign(x, g)' = Sign(x, g)
    PROVE  SumFunctionOnSet([x \in Signed |-> Sign(x, g)' * w[x]], Signed)
             = Net(w, g) + d * w[z]
  <1> DEFINE a == [x \in Signed |-> Sign(x, g) * w[x]]
             b == [x \in Signed |-> Sign(x, g)' * w[x]]
  <1>1. ASSUME NEW x \in Signed
        PROVE  /\ Sign(x, g) \in Int /\ Sign(x, g)' \in Int
               /\ a[x] \in Int /\ b[x] \in Int
    <2>1. Sign(x, g) \in Int
      BY SignType
    <2>2. Sign(x, g)' \in Int
      BY <2>1
    <2>3. \A s \in Int : s * w[x] \in Int
      BY SMT
    <2> QED
      BY <2>1, <2>2, <2>3
  <1>2. \A x \in Signed \ {z} : b[x] = a[x]
    OBVIOUS
  <1>3. b[z] = a[z] + d * w[z]
    <2>1. PICK s \in Int : s = Sign(z, g)
      BY <1>1
    <2>2. PICK v \in Int : v = w[z]
      OBVIOUS
    <2>3. (s + d) * v = s * v + d * v
      BY SMT
    <2> QED
      BY <2>1, <2>2, <2>3
  <1>4. Net(w, g) = SumFunctionOnSet(a, Signed)
    BY DEF Net
  <1>5. d * w[z] \in Int
    BY SMT
  <1>6. \A x \in Signed : a[x] \in Int /\ b[x] \in Int
    BY <1>1
  <1> HIDE DEF a
  <1>7. SumFunctionOnSet(b, Signed) = SumFunctionOnSet(a, Signed) + (b[z] - a[z])
    <2> HIDE DEF b
    <2> QED
      BY <1>2, <1>6, SignedFinite, SumUpdate
  <1>8. SumFunctionOnSet(a, Signed) \in Int
    BY <1>6, SignedFinite, SumType
  <1>9. b[z] - a[z] = d * w[z]
    <2> HIDE DEF b
    <2> QED
      BY <1>3, <1>5, <1>6
  <1> QED
    BY <1>4, <1>7, <1>8, <1>9

\* Signs that stay leave the sum.
LEMMA NetKept ==
    ASSUME NEW w, NEW g \in GroupIx,
           \A x \in Signed : Sign(x, g)' = Sign(x, g)
    PROVE  SumFunctionOnSet([x \in Signed |-> Sign(x, g)' * w[x]], Signed)
             = Net(w, g)
  <1> DEFINE a == [x \in Signed |-> Sign(x, g) * w[x]]
             b == [x \in Signed |-> Sign(x, g)' * w[x]]
  <1>1. a = b
    OBVIOUS
  <1> QED
    BY <1>1 DEF Net

\* The next sum is that of the next signs.
LEMMA NetNext ==
    ASSUME NEW g
    PROVE  /\ Net(SignedPrices, g)' =
                SumFunctionOnSet([x \in Signed |-> Sign(x, g)' * SignedPrices[x]],
                                 Signed)
           /\ Net(SignedSizes, g)' =
                SumFunctionOnSet([x \in Signed |-> Sign(x, g)' * SignedSizes[x]],
                                 Signed)
  BY DEF Net, SignedPrices, SignedSizes, TermsOf, Signed, Nonces

\* The groups' sums follow.
LEMMA NetKeeps ==
    ASSUME RoleInv, OrdersTaken, NetInv, [Next]_vars
    PROVE  NetInv'
  <1>1. \A x \in Signed : SignedPrices[x] \in Int /\ SignedSizes[x] \in Int
    BY SignedFields
  <1>2. CASE SignsKept
    <2> SUFFICES ASSUME NEW g \in GroupIx
                 PROVE  /\ groups'[g].Price = Net(SignedPrices, g)'
                        /\ groups'[g].Size = Net(SignedSizes, g)'
      BY DEF NetInv
    <2>1. \A x \in Signed : Sign(x, g)' = Sign(x, g)
      BY <1>2 DEF SignsKept
    <2>2. /\ Net(SignedPrices, g)' = Net(SignedPrices, g)
          /\ Net(SignedSizes, g)' = Net(SignedSizes, g)
      BY <2>1, NetKept, NetNext
    <2> QED
      BY <1>2, <2>2 DEF NetInv, SignsKept
  <1>3. ASSUME NEW z, NEW k, NEW d \in Int, SignStep(z, k, d)
        PROVE  NetInv'
    <2> SUFFICES ASSUME NEW g \in GroupIx
                 PROVE  /\ groups'[g].Price = Net(SignedPrices, g)'
                        /\ groups'[g].Size = Net(SignedSizes, g)'
      BY DEF NetInv
    <2>1. CASE g # k
      <3>1. \A x \in Signed : Sign(x, g)' = Sign(x, g)
        BY <1>3, <2>1 DEF SignStep
      <3>2. /\ Net(SignedPrices, g)' = Net(SignedPrices, g)
            /\ Net(SignedSizes, g)' = Net(SignedSizes, g)
        BY <3>1, NetKept, NetNext
      <3> QED
        BY <1>3, <2>1, <3>2 DEF NetInv, SignStep
    <2>2. CASE g = k
      <3>1. /\ z \in Signed
            /\ Sign(z, g)' = Sign(z, g) + d
            /\ \A x \in Signed : x # z => Sign(x, g)' = Sign(x, g)
            /\ groups'[g].Price = groups[g].Price + d * TermsOf(z).sprice
            /\ groups'[g].Size = groups[g].Size + d * TermsOf(z).size
        BY <1>3, <2>2 DEF SignStep
      <3>2. /\ Net(SignedPrices, g)' = Net(SignedPrices, g) + d * SignedPrices[z]
            /\ Net(SignedSizes, g)' = Net(SignedSizes, g) + d * SignedSizes[z]
        BY ZenonT(30), <1>1, <3>1, NetStep, NetNext
      <3>3. SignedPrices[z] = TermsOf(z).sprice /\ SignedSizes[z] = TermsOf(z).size
        BY <3>1, SignedFields
      <3> QED
        BY <3>1, <3>2, <3>3 DEF NetInv
    <2> QED
      BY <2>1, <2>2
  <1>4. 1 \in Int /\ -1 \in Int
    OBVIOUS
  <1> QED
    BY <1>2, <1>3, <1>4, NextSigns

\* The sum over the signs is that over the open orders less that over those
\* that ended.
LEMMA NetIs ==
    ASSUME RoleInv, NEW w, \A x \in Signed : w[x] \in Int, NEW g
    PROVE  Net(w, g) = SumFunctionOnSet(w, OpenMain(g))
                          - SumFunctionOnSet(w, EndedOther(g))
  <1> DEFINE A == OpenMain(g)
             B == EndedOther(g)
             n == [x \in Signed |-> Sign(x, g) * w[x]]
             a == [x \in Signed |-> IF x \in A THEN w[x] ELSE 0]
             b == [x \in Signed |-> IF x \in B THEN w[x] ELSE 0]
             c == [x \in Signed |-> (-1) * b[x]]
  <1>1. A \in SUBSET Signed /\ B \in SUBSET Signed
    BY DEF OpenMain, EndedOther
  <1>2. ASSUME NEW x \in Signed
        PROVE  /\ a[x] \in Int /\ b[x] \in Int /\ c[x] \in Int
               /\ n[x] = a[x] + c[x]
    <2>1. /\ x.user \in Account /\ x.pro \in Account
          /\ x.nonce \in Nonces(x.user, x.pro)
      BY SignedFields
    <2>2. PICK v \in Int : v = w[x]
      OBVIOUS
    <2>3. /\ x \in A <=> /\ gIndex[x.user] = g /\ TermsOf(x).token = 0
                         /\ book[x.user][x.pro].subNonce <= x.nonce
                         /\ x.nonce < book[x.user][x.pro].nonce
          /\ x \in B <=> /\ gIndex[x.user] = g /\ TermsOf(x).token # 0
                         /\ x.nonce < book[x.user][x.pro].subNonce
      BY <2>1 DEF OpenMain, EndedOther, OpenOrders, EndedOrders
    <2>4. Sign(x, g) = IF x \in A THEN 1 ELSE IF x \in B THEN -1 ELSE 0
      <3> HIDE DEF A, B
      <3> QED
        BY <2>3 DEF Sign
    <2>5. /\ a[x] = (IF x \in A THEN v ELSE 0)
          /\ b[x] = (IF x \in B THEN v ELSE 0)
          /\ c[x] = (-1) * b[x]
          /\ n[x] = Sign(x, g) * v
      BY <2>2
    <2>6. 1 * v = v /\ 0 * v = 0 /\ (-1) * 0 = 0 /\ (-1) * v \in Int
      BY <2>2
    <2>7. ~(x \in A /\ x \in B)
      <3> HIDE DEF A, B
      <3> QED
        BY <2>3
    <2> HIDE DEF A, B, a, b, c, n
    <2> QED
      BY <2>2, <2>4, <2>5, <2>6, <2>7
  <1>3. /\ \A x \in A : a[x] = w[x]
        /\ \A x \in Signed \ A : a[x] = 0
        /\ \A x \in B : b[x] = w[x]
        /\ \A x \in Signed \ B : b[x] = 0
    BY <1>1
  <1>4. /\ \A x \in Signed : n[x] = a[x] + c[x] /\ a[x] \in Int /\ c[x] \in Int
        /\ \A x \in Signed : b[x] \in Int
        /\ \A x \in Signed : c[x] = (-1) * b[x]
    BY <1>2
  <1>5. Net(w, g) = SumFunctionOnSet(n, Signed)
    BY DEF Net
  <1>6. A = OpenMain(g) /\ B = EndedOther(g)
    OBVIOUS
  <1> HIDE DEF A, B, a, b, c, n
  <1>7. IsFiniteSet(Signed) /\ IsFiniteSet(A) /\ IsFiniteSet(B)
    BY <1>1, SignedFinite, FS_Subset
  <1>8. SumFunctionOnSet(n, Signed)
           = SumFunctionOnSet(a, Signed) + SumFunctionOnSet(c, Signed)
    BY <1>4, <1>7, SumOfSums
  <1>9. SumFunctionOnSet(c, Signed) = (-1) * SumFunctionOnSet(b, Signed)
    <2>1. -1 \in Int
      OBVIOUS
    <2> QED
      BY <1>4, <1>7, <2>1, SumScaled
  <1>10. SumFunctionOnSet(a, Signed) = SumFunctionOnSet(a, A)
    BY <1>1, <1>3, <1>4, <1>7, SumRestrict
  <1>11. SumFunctionOnSet(b, Signed) = SumFunctionOnSet(b, B)
    BY <1>1, <1>3, <1>4, <1>7, SumRestrict
  <1>12. SumFunctionOnSet(w, A) = SumFunctionOnSet(a, A)
    <2>1. \A x \in A : a[x] \in Int /\ w[x] = a[x]
      BY <1>1, <1>3, <1>4
    <2> QED
      BY <1>7, <2>1, SumSame
  <1>13. SumFunctionOnSet(w, B) = SumFunctionOnSet(b, B)
    <2>1. \A x \in B : b[x] \in Int /\ w[x] = b[x]
      BY <1>1, <1>3, <1>4
    <2> QED
      BY <1>7, <2>1, SumSame
  <1>14. SumFunctionOnSet(a, Signed) \in Int /\ SumFunctionOnSet(b, Signed) \in Int
    BY <1>4, <1>7, SumType
  <1> QED
    BY <1>5, <1>6, <1>8, <1>9, <1>10, <1>11, <1>12, <1>13, <1>14

\* In every instance, a group's size and price are those of its open main-token
\* orders, less those of the orders in other tokens that have ended, which
\* SubOrder takes off and AddOrder never added.
THEOREM RoleGroupSums == Spec => []GroupSums
  <1>1. Init => NetInv
    <2> SUFFICES ASSUME Init, NEW g \in GroupIx
                 PROVE  /\ groups[g].Price = Net(SignedPrices, g)
                        /\ groups[g].Size = Net(SignedSizes, g)
      BY DEF NetInv
    <2>1. groups[g].Price = 0 /\ groups[g].Size = 0
      BY DEF Init, NewGroup
    <2>2. ASSUME NEW w, \A x \in Signed : w[x] \in Int PROVE Net(w, g) = 0
      <3> DEFINE n == [x \in Signed |-> Sign(x, g) * w[x]]
      <3>1. ASSUME NEW x \in Signed PROVE n[x] = 0
        <4>1. x.user \in Account /\ x.pro \in Account /\ x.nonce \in Nat
          BY SignedFields
        <4>2. /\ book[x.user][x.pro].nonce = 0 /\ book[x.user][x.pro].subNonce = 0
          BY <4>1 DEF Init
        <4>3. ~(x.nonce < 0)
          BY <4>1
        <4>4. Sign(x, g) = 0
          BY <4>2, <4>3 DEF Sign
        <4>5. 0 * w[x] = 0
          BY <2>2
        <4> QED
          BY <4>4, <4>5
      <3>2. Net(w, g) = SumFunctionOnSet(n, Signed)
        BY DEF Net
      <3> HIDE DEF n
      <3> QED
        BY <3>1, <3>2, SignedFinite, SumZero
    <2> QED
      BY <2>1, <2>2, SignedFields
  <1>2. RoleInv /\ OrdersTaken /\ NetInv /\ [Next]_vars => NetInv'
    BY NetKeeps
  <1>3. RoleInv /\ NetInv => GroupSums
    <2> SUFFICES ASSUME RoleInv, NetInv, NEW g \in GroupIx
                 PROVE  /\ groups[g].Price
                              = SumFunctionOnSet(SignedPrices, OpenMain(g))
                                  - SumFunctionOnSet(SignedPrices, EndedOther(g))
                        /\ groups[g].Size
                              = SumFunctionOnSet(SignedSizes, OpenMain(g))
                                  - SumFunctionOnSet(SignedSizes, EndedOther(g))
      BY DEF GroupSums, SignedPrices, SignedSizes
    <2>1. \A x \in Signed : SignedPrices[x] \in Int /\ SignedSizes[x] \in Int
      BY SignedFields
    <2> QED
      BY <2>1, NetIs DEF NetInv
  <1> QED
    BY <1>1, <1>2, <1>3, TakenInvariant, PTL DEF Spec
=============================================================================
