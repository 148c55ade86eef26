------------------------------ MODULE Issuance ------------------------------
(***************************************************************************)
(* The sums by which the role manager (server/contract/role.go) issues the *)
(* main token: each main-token order adds to them, pays out what the       *)
(* orders before it have cost since the last time, and moves the time up   *)
(* to which everything is paid.  Pure operators on one record, so that the *)
(* role manager's actions can apply them to its state.                     *)
(*                                                                         *)
(* The maps from an end time to what ends there are total functions on the *)
(* day boundaries: a missing entry is not subtracted, as a zero.  Amounts  *)
(* are big.Int in the code, so Int here.                                   *)
(***************************************************************************)
EXTENDS Integers, Sequences

CONSTANTS
    Day,      \* 86400 in the code
    Days,     \* bound: the last day boundary an order can end at
    Levels    \* Levels[i + 1]: entry i of the table of ratios

Boundaries == {d * Day : d \in 0 .. Days}
Level      == [Ratio : Nat, Size : Nat \ {0}, Duration : Nat]

ASSUME IssuanceAssumption ==
    /\ Day \in Nat \ {0} /\ Days \in Nat
    /\ Levels \in Seq(Level) /\ Levels # <<>>

Mint == [size : Int, price : Int, spaceTime : Int, mintLevel : Nat,
         lastMint : Nat, totalPaid : Int, totalPay : Int,
         subPMap : [Boundaries -> Int], subSMap : [Boundaries -> Int]]

NewMint ==
    [size |-> 0, price |-> 0, spaceTime |-> 0, mintLevel |-> 0,
     lastMint |-> 0, totalPaid |-> 0, totalPay |-> 0,
     subPMap |-> [b \in Boundaries |-> 0],
     subSMap |-> [b \in Boundaries |-> 0]]

Pay(o)       == o.sprice * (o.end - o.start)
SpaceTime(o) == o.size * (o.end - o.start)

\* The order's price and size are to be taken off at its end.
Scheduled(m, o) == [m EXCEPT !.subPMap[o.end] = @ + o.sprice,
                             !.subSMap[o.end] = @ + o.size]

\* Faulty variant: a day is caught up however little of it has passed.
CatchUpDay(m, now) == m.lastMint + Day

\* One call catches up a day at most.
CatchUp(m, now) == IF now - m.lastMint > Day THEN m.lastMint + Day ELSE now

LastBoundary(t) == (t \div Day) * Day
Crosses(m, t)   == m.lastMint \div Day < t \div Day

\* Faulty variant: orders that end are paid for up to the call.
AccruedToCall(m, t) == m.price * (t - m.lastMint)

\* What the orders have cost since lastMint; those that ended at the boundary
\* just crossed are paid up to it.
Accrued(m, t) ==
    m.price * (t - m.lastMint)
      - (IF Crosses(m, t)
         THEN m.subPMap[LastBoundary(t)] * (t - LastBoundary(t)) ELSE 0)

\* Faulty variant: the size of the orders that ended stays.
ExpiredPriceOnly(m, t) ==
    IF Crosses(m, t) THEN [m EXCEPT !.price = @ - m.subPMap[LastBoundary(t)]]
    ELSE m

Expired(m, t) ==
    IF Crosses(m, t)
    THEN [m EXCEPT !.price = @ - m.subPMap[LastBoundary(t)],
                   !.size  = @ - m.subSMap[LastBoundary(t)]]
    ELSE m

\* The order joins the running ones.
Joined(m, o) == [m EXCEPT !.spaceTime = @ + SpaceTime(o),
                          !.totalPay = @ + Pay(o),
                          !.size = @ + o.size,
                          !.price = @ + o.sprice]

\* Space a level is measured by: its own, or what is stored if that is more.
LevelSize(m, i) == IF Levels[i + 1].Size < m.size THEN m.size
                   ELSE Levels[i + 1].Size

\* Faulty variant: the duration of the level before is asked for.
LastsBefore(i, q) == q >= Levels[i].Duration

Lasts(i, q) == q >= Levels[i + 1].Duration

\* The loop over the levels: the level looked at next and what is left of the
\* sum.  big.Int.Div stores the quotient in its receiver, so every level looked
\* at divides the sum itself.
Climbing == [next : Nat, spaceTime : Int]

Climbed(m) ==
    LET climb[c \in Climbing] ==
          IF c.next >= Len(Levels) THEN c
          ELSE LET lasting == c.spaceTime \div LevelSize(m, c.next)
               IN  IF Lasts(c.next, lasting)
                   THEN climb[[next |-> c.next + 1, spaceTime |-> lasting]]
                   ELSE [next |-> c.next, spaceTime |-> lasting]
        top == climb[[next |-> m.mintLevel + 1, spaceTime |-> m.spaceTime]]
    IN  [m EXCEPT !.mintLevel = top.next - 1, !.spaceTime = top.spaceTime]

\* The sums after order o, before the reward is sent and lastMint moves.
Issued(m, o, t) ==
    LET s    == Scheduled(m, o)
        paid == Accrued(s, t)
        j    == Joined([Expired(s, t) EXCEPT !.totalPaid = @ + paid], o)
    IN  IF paid <= 0 THEN j ELSE Climbed(j)

\* What the pledge pool is sent for order o, if that is positive.
Reward(m, o, t) ==
    (Accrued(Scheduled(m, o), t) * Levels[Issued(m, o, t).mintLevel + 1].Ratio)
        \div 100
=============================================================================
