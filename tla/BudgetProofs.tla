---------------------------- MODULE BudgetProofs ----------------------------
(***************************************************************************)
(* What the budget promises for every number of workers, reservations and  *)
(* months, and for every price.  The inductive invariant follows each      *)
(* reservation from its worker: it is the worker's alone, its amount is    *)
(* the worst case of the calls still to come, and the provider's bill is   *)
(* the usage reported so far.  A second one follows the books: the totals  *)
(* of a month are sums over its rows, and a reservation without a holder   *)
(* is accounted for by a crash or a store error.  The last section is      *)
(* about the external reviewer, which keeps a budget of its own.           *)
(***************************************************************************)
EXTENDS Budget, FiniteSetTheorems, TLAPS

Holding == {"call", "settle", "settle_none", "settle_uncertain"}

Types ==
  /\ month \in 1..Months
  /\ reserved \in [1..Months -> Int]
  /\ spent \in [1..Months -> Nat]
  /\ row \in [Reservations -> Row]
  /\ pc \in [Workers -> Holding \cup {"idle", "reserve"}]
  /\ me \in [Workers -> Local]
  /\ billed \in [Reservations -> Nat]

\* The most that one call of a plan may cost, in usage units.
PerCall(m) == m.cap * Unit

\* A worker and the reservation it holds.
Held(w) ==
  LET m == me[w]
      x == row[m.res]
      bill == billed[m.res] IN
  pc[w] \in Holding =>
    /\ m.res \in Reservations
    /\ x.amount = AmountOf(m)
    /\ x.month = m.month
    /\ m.done <= m.calls
    /\ pc[w] \in {"call", "settle_uncertain"} => m.done < m.calls
    /\ pc[w] = "settle" => m.done = m.calls
    /\ pc[w] # "settle_none" => x.status = "reserved"
    /\ pc[w] = "settle_none" => x.status # "none"
    /\ pc[w] \in {"call", "settle"} => bill = m.used
    /\ m.month \in Capped => m.used <= m.done * PerCall(m)
    /\ m.month \in Capped /\ pc[w] = "settle_uncertain" => bill <= m.used + PerCall(m)
    /\ m.month \in Capped /\ x.status = "reserved" => bill <= m.calls * PerCall(m)

Planned(w) == pc[w] = "reserve" => me[w].month \in 1..Months /\ me[w].used = 0 /\ me[w].done = 0
                                   /\ me[w].calls \in Nat \ {0}

\* No two workers hold one reservation.
Apart ==
  \A v, w \in Workers :
    v # w /\ pc[v] \in Holding /\ pc[w] \in Holding => me[v].res # me[w].res

RowInv ==
  \A r \in Reservations :
    /\ row[r].status = "none" => billed[r] = 0
    /\ row[r].status = "reserved" => row[r].month \in 1..Months

Workflow == \A w \in Workers : Held(w) /\ Planned(w)

IInv == Types /\ RowInv /\ Workflow /\ Apart /\ WithinMonthly /\ BillIsCovered

-----------------------------------------------------------------------------
(* Arithmetic *)

\* A call more stays within the worst case of the plan.
LEMMA OneCallMore ==
  ASSUME NEW d \in Nat, NEW c \in Nat, NEW k \in Nat, d < c
  PROVE  /\ d * k + k = (d + 1) * k
         /\ (d + 1) * k <= c * k
<1>1. d * k + k = (d + 1) * k
  OBVIOUS
<1>2. PICK e \in Nat : c = d + 1 + e
  <2> WITNESS c - d - 1 \in Nat
  <2> QED
    OBVIOUS
<1>3. c * k = (d + 1) * k + e * k /\ e * k \in Nat
  BY <1>2
<1> QED
  BY <1>1, <1>3

\* Rounding up covers the usage, and never exceeds a whole bound on it.
LEMMA ChargeCovers ==
  ASSUME NEW u \in Nat
  PROVE  /\ Charge(u) \in Nat
         /\ u <= Charge(u) * Unit
         /\ \A k \in Nat : u <= k * Unit => Charge(u) <= k
<1> DEFINE n == u + Unit - 1
<1> DEFINE q == n \div Unit
<1>1. Unit \in Nat \ {0} /\ n \in Nat
  BY BudgetAssumption
<1>2. q \in Nat /\ Unit * q <= n /\ n < Unit * q + Unit
  <2> HIDE DEF n
  <2> QED
    BY <1>1
<1>3. u <= q * Unit
  BY <1>1, <1>2
<1>4. ASSUME NEW k \in Nat, u <= k * Unit, ~ (q <= k)
      PROVE  FALSE
  <2>1. k < q /\ (k + 1) * Unit <= q * Unit
    BY <1>1, <1>2, <1>4, OneCallMore
  <2>2. k * Unit + Unit <= q * Unit
    BY <1>1, <1>4, <2>1
  <2>3. q * Unit <= n
    BY <1>1, <1>2
  <2> QED
    BY <1>1, <1>2, <1>4, <2>2, <2>3
<1> QED
  BY <1>2, <1>3, <1>4 DEF Charge

\* A plan's amount in units is the worst case of its calls.
LEMMA AmountInUnits ==
  ASSUME NEW m \in Local
  PROVE  /\ AmountOf(m) \in Nat
         /\ PerCall(m) \in Nat
         /\ AmountOf(m) * Unit = m.calls * PerCall(m)
  BY BudgetAssumption DEF Local, AmountOf, PerCall
-----------------------------------------------------------------------------
(* The steps *)

\* Closing a reservation: the row is final and its month's total shrinks by what
\* was reserved beyond the charge.
LEMMA CloseEffect ==
  ASSUME Types, RowInv, WithinMonthly,
         NEW r \in Reservations, NEW status \in {"settled", "uncertain"}, NEW charge \in Nat,
         Close(r, status, charge),
         row[r].month \in Capped /\ row[r].status = "reserved" => charge <= row[r].amount
  PROVE  /\ reserved' \in [1..Months -> Int] /\ spent' \in [1..Months -> Nat]
         /\ row' \in [Reservations -> Row]
         /\ WithinMonthly'
         /\ \A s \in Reservations : s # r \/ row[s].status # "reserved" => row'[s] = row[s]
         /\ row[r].status = "reserved" =>
              row'[r].status = status /\ row'[r].observed = charge
         /\ row'[r].amount = row[r].amount /\ row'[r].month = row[r].month
         /\ row[r].status # "none" => row'[r].status \in {"settled", "uncertain"}
<1>1. CASE row[r].status # "reserved"
  <2>1. UNCHANGED <<row, reserved, spent>>
    BY <1>1 DEF Close
  <2> QED
    BY <2>1, <1>1 DEF Types, WithinMonthly, Row, Status
<1>2. CASE row[r].status = "reserved"
  <2> DEFINE m == row[r].month
  <2>1. /\ row' = [row EXCEPT ![r].status = status, ![r].observed = charge]
        /\ reserved' = [reserved EXCEPT ![m] = @ - row[r].amount]
        /\ spent' = [spent EXCEPT ![m] = @ + charge]
    BY <1>2 DEF Close
  <2>2. m \in 1..Months /\ row[r] \in Row
    BY <1>2 DEF RowInv, Types
  <2>3. /\ row'[r] = [row[r] EXCEPT !.status = status, !.observed = charge]
        /\ row'[r] \in Row /\ row'[r].status = status /\ row'[r].observed = charge
        /\ row'[r].amount = row[r].amount /\ row'[r].month = row[r].month
        /\ \A s \in Reservations : s # r => row'[s] = row[s]
    BY <2>1, <2>2 DEF Types, Row, Status
  <2>4. row' \in [Reservations -> Row]
    BY <2>1, <2>3 DEF Types
  <2>5. reserved' \in [1..Months -> Int] /\ spent' \in [1..Months -> Nat]
    BY <2>1, <2>2 DEF Types, Row
  <2>6. ASSUME NEW k \in Capped
        PROVE  reserved'[k] + spent'[k] <= Monthly
    <3>1. k \in 1..Months /\ reserved[k] \in Int /\ spent[k] \in Nat /\ row[r].amount \in Nat /\ Monthly \in Nat
      BY <2>2, BudgetAssumption DEF Types, Row
    <3>2. reserved[k] + spent[k] <= Monthly
      BY <2>6 DEF WithinMonthly
    <3>3. CASE k = m
      <4>1. reserved'[k] = reserved[k] - row[r].amount /\ spent'[k] = spent[k] + charge
        BY <2>1, <3>1, <3>3 DEF Types
      <4>2. charge <= row[r].amount
        BY <2>6, <3>3, <1>2
      <4> QED
        BY <3>1, <3>2, <4>1, <4>2
    <3>4. CASE k # m
      <4>1. reserved'[k] = reserved[k] /\ spent'[k] = spent[k]
        BY <2>1, <3>1, <3>4 DEF Types
      <4> QED
        BY <3>2, <4>1
    <3> QED
      BY <3>3, <3>4
  <2>7. WithinMonthly'
    BY <2>6 DEF WithinMonthly
  <2> QED
    BY <2>3, <2>4, <2>5, <2>7, <1>2
<1> QED
  BY <1>1, <1>2

\* A worker that is idle afterwards promises nothing.
LEMMA IdleKeeps ==
  ASSUME NEW w \in Workers, pc'[w] = "idle"
  PROVE  Held(w)' /\ Planned(w)'
BY DEF Held, Planned, Holding

\* Locals change for w alone.
LEMMA LeaveEffect ==
  ASSUME Types, NEW w \in Workers, Leave(w)
  PROVE  /\ pc' \in [Workers -> Holding \cup {"idle", "reserve"}]
         /\ me' \in [Workers -> Local]
         /\ pc'[w] = "idle"
         /\ \A v \in Workers : v # w => pc'[v] = pc[v] /\ me'[v] = me[v]
<1>1. Fresh \in Local
  BY BudgetAssumption DEF Fresh, Local
<1> QED
  BY <1>1 DEF Leave, Goto, Types

LEMMA GotoEffect ==
  ASSUME Types, NEW w \in Workers, NEW p \in Holding \cup {"idle", "reserve"}, Goto(w, p)
  PROVE  /\ pc' \in [Workers -> Holding \cup {"idle", "reserve"}]
         /\ pc'[w] = p
         /\ \A v \in Workers : v # w => pc'[v] = pc[v]
BY DEF Goto, Types

\* A settlement by w, up to where w goes next: it covers the bill, and does not
\* touch what the other workers hold.
LEMMA Settling ==
  ASSUME IInv, NEW w \in Workers, pc[w] \in Holding,
         NEW status \in {"settled", "uncertain"}, NEW charge \in Nat,
         Close(me[w].res, status, charge),
         LET x == row[me[w].res] IN
           x.status = "reserved" =>
             /\ x.month \in Capped => charge <= x.amount
             /\ status = "settled" \/ x.month \in Capped => billed[me[w].res] <= charge * Unit,
         UNCHANGED <<month, billed>>
  PROVE  /\ reserved' \in [1..Months -> Int] /\ spent' \in [1..Months -> Nat]
         /\ row' \in [Reservations -> Row]
         /\ RowInv' /\ WithinMonthly' /\ BillIsCovered'
         /\ row'[me[w].res].status \in {"settled", "uncertain"}
         /\ row'[me[w].res].amount = row[me[w].res].amount
         /\ row'[me[w].res].month = row[me[w].res].month
         /\ \A v \in Workers :
              v # w /\ pc'[v] = pc[v] /\ me'[v] = me[v] => Held(v)' /\ Planned(v)'
<1> DEFINE r == me[w].res
<1>1. r \in Reservations /\ row[r].status # "none"
  BY DEF IInv, Workflow, Held, Holding
<1>2. /\ reserved' \in [1..Months -> Int] /\ spent' \in [1..Months -> Nat]
      /\ row' \in [Reservations -> Row]
      /\ WithinMonthly'
      /\ \A s \in Reservations : s # r \/ row[s].status # "reserved" => row'[s] = row[s]
      /\ row[r].status = "reserved" =>
           row'[r].status = status /\ row'[r].observed = charge
      /\ row'[r].amount = row[r].amount /\ row'[r].month = row[r].month
      /\ row'[r].status \in {"settled", "uncertain"}
  BY <1>1, CloseEffect DEF IInv
<1>3. RowInv'
  BY <1>1, <1>2 DEF IInv, RowInv
<1>4. BillIsCovered'
  BY <1>1, <1>2 DEF IInv, BillIsCovered
<1>5. ASSUME NEW v \in Workers, v # w, pc'[v] = pc[v], me'[v] = me[v]
      PROVE  Held(v)' /\ Planned(v)'
  <2>1. CASE pc[v] \in Holding
    <3>1. me[v].res # r /\ me[v].res \in Reservations
      BY <1>5, <2>1 DEF IInv, Apart, Workflow, Held
    <3>2. row'[me[v].res] = row[me[v].res] /\ billed'[me[v].res] = billed[me[v].res]
      BY <1>2, <3>1
    <3> QED
      BY <1>5, <3>2 DEF IInv, Workflow, Held, Planned, AmountOf, PerCall
  <2>2. CASE pc[v] \notin Holding
    BY <1>5, <2>2 DEF IInv, Workflow, Held, Planned
  <2> QED
    BY <2>1, <2>2
<1> QED
  BY <1>2, <1>3, <1>4, <1>5

\* A worker that leaves after a settlement.
LEMMA SettlingAndLeaving ==
  ASSUME IInv, NEW w \in Workers, pc[w] \in Holding,
         NEW status \in {"settled", "uncertain"}, NEW charge \in Nat,
         Close(me[w].res, status, charge),
         LET x == row[me[w].res] IN
           x.status = "reserved" =>
             /\ x.month \in Capped => charge <= x.amount
             /\ status = "settled" \/ x.month \in Capped => billed[me[w].res] <= charge * Unit,
         UNCHANGED <<month, billed>>,
         Leave(w)
  PROVE  IInv'
<1>1. /\ reserved' \in [1..Months -> Int] /\ spent' \in [1..Months -> Nat]
      /\ row' \in [Reservations -> Row]
      /\ RowInv' /\ WithinMonthly' /\ BillIsCovered'
      /\ \A v \in Workers :
           v # w /\ pc'[v] = pc[v] /\ me'[v] = me[v] => Held(v)' /\ Planned(v)'
  BY Settling
<1>2. /\ pc' \in [Workers -> Holding \cup {"idle", "reserve"}]
      /\ me' \in [Workers -> Local]
      /\ pc'[w] = "idle"
      /\ \A v \in Workers : v # w => pc'[v] = pc[v] /\ me'[v] = me[v]
  BY LeaveEffect DEF IInv
<1>3. Types'
  BY <1>1, <1>2 DEF IInv, Types
<1>4. Workflow'
  BY <1>1, <1>2, IdleKeeps DEF Workflow
<1>5. Apart'
  BY <1>2 DEF IInv, Apart, Holding
<1> QED
  BY <1>1, <1>3, <1>4, <1>5 DEF IInv

LEMMA SettleNoneInv ==
  ASSUME IInv, NEW w \in Workers, SettleNone(w)
  PROVE  IInv'
<1> DEFINE r == me[w].res
<1>1. /\ pc[w] \in Holding /\ Close(r, "uncertain", row[r].amount)
      /\ Leave(w) /\ UNCHANGED <<month, billed>>
  BY DEF SettleNone, Holding
<1>2. /\ r \in Reservations /\ row[r] \in Row /\ me[w] \in Local
      /\ row[r].amount = AmountOf(me[w]) /\ row[r].month = me[w].month
  BY <1>1 DEF IInv, Types, Workflow, Held
<1>3. row[r].amount \in Nat
  BY <1>2 DEF Row
<1>4. row[r].month \in Capped /\ row[r].status = "reserved" => billed[r] <= row[r].amount * Unit
  BY <1>1, <1>2, AmountInUnits DEF IInv, Workflow, Held
<1> QED
  BY <1>1, <1>3, <1>4, SettlingAndLeaving, SMTT(30)

LEMMA SettleUncertainInv ==
  ASSUME IInv, NEW w \in Workers, SettleUncertain(w)
  PROVE  IInv'
<1> DEFINE m == me[w]
<1> DEFINE r == m.res
<1> DEFINE K == PerCall(m)
<1> DEFINE c == Charge(m.used) + m.cap
<1> DEFINE least == Least(row[r].amount, c)
<1>1. /\ pc[w] \in Holding /\ Close(r, "uncertain", least)
      /\ Leave(w) /\ UNCHANGED <<month, billed>> /\ pc[w] = "settle_uncertain"
  BY DEF SettleUncertain, Holding
<1>2. /\ r \in Reservations /\ row[r] \in Row /\ m \in Local
      /\ row[r].amount = AmountOf(m) /\ row[r].month = m.month /\ row[r].status = "reserved"
      /\ billed[r] \in Nat
      /\ m.month \in Capped => billed[r] <= m.used + K /\ billed[r] <= m.calls * K
  BY <1>1 DEF IInv, Types, Workflow, Held
<1>3. m.used \in Nat /\ m.cap \in Nat /\ Unit \in Nat /\ K \in Nat /\ K = m.cap * Unit
      /\ row[r].amount \in Nat
  BY <1>2, BudgetAssumption DEF Local, Row, PerCall
<1>4. Charge(m.used) \in Nat /\ m.used <= Charge(m.used) * Unit
  BY <1>3, ChargeCovers
<1>5. c \in Nat /\ m.used + K <= c * Unit
  BY <1>3, <1>4
<1>6. row[r].amount * Unit = m.calls * K
  BY <1>2, AmountInUnits
<1>7. least \in Nat /\ least <= row[r].amount
  BY <1>3, <1>5 DEF Least
<1>8. row[r].month \in Capped => billed[r] <= least * Unit
  <2> HIDE DEF c, K, r, m
  <2>1. CASE least = c
    BY <1>2, <1>3, <1>5, <2>1
  <2>2. CASE least = row[r].amount
    BY <1>2, <1>3, <1>6, <2>2
  <2> QED
    BY <2>1, <2>2 DEF Least
<1> HIDE DEF least
<1> QED
  BY <1>1, <1>7, <1>8, SettlingAndLeaving

LEMMA SettleInv ==
  ASSUME IInv, NEW w \in Workers, Settle(w)
  PROVE  IInv'
<1> DEFINE m == me[w]
<1> DEFINE r == m.res
<1> DEFINE c == Charge(m.used)
<1>1. /\ pc[w] = "settle" /\ pc[w] \in Holding /\ Close(r, "settled", c)
      /\ UNCHANGED <<month, billed>>
      /\ IF c > row[r].amount THEN Goto(w, "settle_none") /\ UNCHANGED me ELSE Leave(w)
  BY DEF Settle, Holding
<1>2. /\ r \in Reservations /\ row[r] \in Row /\ m \in Local
      /\ row[r].amount = AmountOf(m) /\ m.done = m.calls /\ billed[r] = m.used
      /\ row[r].month = m.month
      /\ m.month \in Capped => m.used <= m.done * PerCall(m)
  BY <1>1 DEF IInv, Types, Workflow, Held
<1>3. m.used \in Nat /\ row[r].amount \in Nat
  BY <1>2 DEF Local, Row
<1>4. /\ c \in Nat /\ m.used <= c * Unit
      /\ m.used <= row[r].amount * Unit => c <= row[r].amount
  BY <1>3, ChargeCovers
<1>5. /\ row[r].month \in Capped => c <= row[r].amount
      /\ billed[r] <= c * Unit
  BY <1>2, <1>4, AmountInUnits
<1> HIDE DEF c
<1>6. CASE Leave(w)
  BY <1>1, <1>4, <1>5, <1>6, SettlingAndLeaving
<1>7. CASE Goto(w, "settle_none") /\ UNCHANGED me
  <2>1. /\ reserved' \in [1..Months -> Int] /\ spent' \in [1..Months -> Nat]
        /\ row' \in [Reservations -> Row]
        /\ RowInv' /\ WithinMonthly' /\ BillIsCovered'
        /\ row'[r].status \in {"settled", "uncertain"}
        /\ row'[r].amount = row[r].amount /\ row'[r].month = row[r].month
        /\ \A v \in Workers :
             v # w /\ pc'[v] = pc[v] /\ me'[v] = me[v] => Held(v)' /\ Planned(v)'
    BY <1>1, <1>4, <1>5, Settling
  <2>2. /\ pc' \in [Workers -> Holding \cup {"idle", "reserve"}]
        /\ pc'[w] = "settle_none" /\ me' = me
        /\ \A v \in Workers : v # w => pc'[v] = pc[v]
    BY <1>7, GotoEffect DEF IInv, Holding
  <2>3. Types'
    BY <1>1, <2>1, <2>2 DEF IInv, Types
  <2>4. Held(w)' /\ Planned(w)'
    BY <1>1, <1>2, <2>1, <2>2 DEF IInv, Workflow, Held, Planned, AmountOf, PerCall
  <2>5. Workflow'
    BY <2>1, <2>2, <2>4 DEF Workflow
  <2>6. Apart'
    BY <1>1, <2>2 DEF IInv, Apart, Holding
  <2> QED
    BY <2>1, <2>3, <2>5, <2>6 DEF IInv
<1> QED
  BY <1>1, <1>6, <1>7

\* Steps of w that change nothing but w's control and locals.
LEMMA LocalStep ==
  ASSUME IInv, UNCHANGED <<month, reserved, spent, row, billed>>,
         NEW w \in Workers,
         pc' \in [Workers -> Holding \cup {"idle", "reserve"}], me' \in [Workers -> Local],
         \A v \in Workers : v # w => pc'[v] = pc[v] /\ me'[v] = me[v],
         pc'[w] \in Holding => pc[w] \in Holding /\ me'[w].res = me[w].res,
         Held(w)' /\ Planned(w)'
  PROVE  IInv'
<1>1. Types' /\ RowInv' /\ WithinMonthly' /\ BillIsCovered'
  BY DEF IInv, Types, RowInv, WithinMonthly, BillIsCovered
<1>2. Workflow'
  <2>1. ASSUME NEW v \in Workers, v # w
        PROVE  Held(v)' /\ Planned(v)'
    BY <2>1 DEF IInv, Workflow, Held, Planned, AmountOf, PerCall
  <2> QED
    BY <2>1 DEF Workflow
<1>3. Apart'
  BY DEF IInv, Apart
<1> QED
  BY <1>1, <1>2, <1>3 DEF IInv

LEMMA StoreFailsInv ==
  ASSUME IInv, NEW w \in Workers, StoreFails(w)
  PROVE  IInv'
<1>1. UNCHANGED <<month, reserved, spent, row, billed>>
  BY DEF StoreFails
<1>2. CASE Leave(w)
  BY <1>1, <1>2, LeaveEffect, IdleKeeps, LocalStep DEF IInv, Holding
<1>3. CASE pc[w] = "settle" /\ Goto(w, "settle_none") /\ UNCHANGED me
  <2>1. /\ pc' \in [Workers -> Holding \cup {"idle", "reserve"}]
        /\ pc'[w] = "settle_none"
        /\ \A v \in Workers : v # w => pc'[v] = pc[v]
    BY <1>3, GotoEffect DEF IInv, Holding
  <2>2. me' \in [Workers -> Local]
    BY <1>3 DEF IInv, Types
  <2>3. Held(w)' /\ Planned(w)'
    BY <1>1, <1>3, <2>1 DEF IInv, Workflow, Held, Planned, Holding, AmountOf, PerCall
  <2>4. pc[w] \in Holding
    BY <1>3 DEF Holding
  <2> QED
    BY <1>1, <1>3, <2>1, <2>2, <2>3, <2>4, LocalStep
<1> QED
  BY <1>2, <1>3 DEF StoreFails

LEMMA PlanInv ==
  ASSUME IInv, NEW w \in Workers, Plan(w)
  PROVE  IInv'
<1>1. PICK n \in {1} \cup 3..MaxCalls :
        LET c == IF n = 1 THEN DirectCap ELSE CallCap IN
        me' = [me EXCEPT ![w] = [res |-> NoReservation, month |-> month,
                                 calls |-> n, cap |-> c, done |-> 0, used |-> 0]]
  BY DEF Plan
<1>2. UNCHANGED <<month, reserved, spent, row, billed>> /\ Goto(w, "reserve")
  BY DEF Plan
<1>3. /\ pc' \in [Workers -> Holding \cup {"idle", "reserve"}]
      /\ pc'[w] = "reserve"
      /\ \A v \in Workers : v # w => pc'[v] = pc[v]
  BY <1>2, GotoEffect DEF IInv
<1>4. month \in 1..Months /\ n \in Nat \ {0} /\ me \in [Workers -> Local]
  BY BudgetAssumption DEF IInv, Types
<1>5. /\ me' \in [Workers -> Local]
      /\ me'[w].month = month /\ me'[w].used = 0 /\ me'[w].done = 0 /\ me'[w].calls = n
      /\ \A v \in Workers : v # w => me'[v] = me[v]
  <2> DEFINE c == IF n = 1 THEN DirectCap ELSE CallCap
  <2> DEFINE rec == [res |-> NoReservation, month |-> month, calls |-> n, cap |-> c,
                    done |-> 0, used |-> 0]
  <2>2. c \in Nat
    BY BudgetAssumption
  <2>3. rec \in Local
    BY <1>4, <2>2, BudgetAssumption DEF Local
  <2>4. me' = [me EXCEPT ![w] = rec]
    BY <1>1
  <2>5. rec.month = month /\ rec.used = 0 /\ rec.done = 0 /\ rec.calls = n
    OBVIOUS
  <2> HIDE DEF rec
  <2> QED
    BY <1>4, <2>3, <2>4, <2>5
<1>6. Held(w)' /\ Planned(w)'
  BY <1>2, <1>3, <1>4, <1>5 DEF Held, Planned, Holding
<1> QED
  BY <1>2, <1>3, <1>5, <1>6, LocalStep DEF Holding

LEMMA ReserveInv ==
  ASSUME IInv, NEW w \in Workers, Reserve(w)
  PROVE  IInv'
<1> DEFINE m == me[w].month
<1> DEFINE a == AmountOf(me[w])
<1>1. /\ pc[w] = "reserve" /\ me[w] \in Local /\ a \in Nat /\ m \in 1..Months
      /\ me[w].used = 0 /\ me[w].done = 0 /\ me[w].calls \in Nat \ {0}
      /\ UNCHANGED <<month, spent, billed>>
  BY AmountInUnits DEF Reserve, IInv, Types, Workflow, Planned
<1>2. CASE Leave(w) /\ UNCHANGED <<row, reserved>>
  BY <1>1, <1>2, LeaveEffect, IdleKeeps, LocalStep DEF IInv, Holding
<1>3. ASSUME reserved[m] + spent[m] + a <= Monthly,
             NEW r \in Reservations, row[r] = NoRow,
             row' = [row EXCEPT ![r] =
               [status |-> "reserved", month |-> m, amount |-> a, observed |-> 0]],
             reserved' = [reserved EXCEPT ![m] = @ + a],
             me' = [me EXCEPT ![w].res = r],
             Goto(w, "call")
      PROVE  IInv'
  <2>1. /\ pc' \in [Workers -> Holding \cup {"idle", "reserve"}]
        /\ pc'[w] = "call"
        /\ \A v \in Workers : v # w => pc'[v] = pc[v]
    BY <1>3, GotoEffect DEF IInv, Holding
  <2>2. /\ me' \in [Workers -> Local] /\ me'[w].res = r
        /\ me'[w].used = 0 /\ me'[w].done = 0 /\ me'[w].cap = me[w].cap
        /\ me'[w].calls = me[w].calls /\ me'[w].month = m
        /\ \A v \in Workers : v # w => me'[v] = me[v]
    BY <1>1, <1>3 DEF IInv, Types, Local
  <2>3. /\ row'[r].status = "reserved" /\ row'[r].month = m /\ row'[r].amount = a
        /\ row'[r] \in Row
        /\ \A s \in Reservations : s # r => row'[s] = row[s]
    BY <1>1, <1>3 DEF IInv, Types, Row, Status
  <2>4. Types'
    BY <1>1, <1>3, <2>1, <2>2, <2>3 DEF IInv, Types
  <2>5. row[r].status = "none" /\ billed[r] = 0
    BY <1>3 DEF NoRow, IInv, RowInv
  <2>6. RowInv' /\ BillIsCovered'
    BY <1>1, <2>3 DEF IInv, RowInv, BillIsCovered
  <2>7. WithinMonthly'
    BY <1>1, <1>3 DEF IInv, Types, WithinMonthly
  <2>8. \A v \in Workers : v # w /\ pc[v] \in Holding => me[v].res # r
    BY <2>5 DEF IInv, Workflow, Held, Holding
  <2>9. Held(w)' /\ Planned(w)'
    <3>1. 0 * PerCall(me[w])' = 0 /\ me'[w].calls * PerCall(me[w])' \in Nat
      BY <2>4, BudgetAssumption DEF Types, Local, PerCall
    <3>2. a = AmountOf(me[w])'
      BY <2>2 DEF AmountOf
    <3>3. billed'[r] = 0
      BY <1>1, <2>5
    <3> QED
      BY <1>1, <2>1, <2>2, <2>3, <3>1, <3>2, <3>3 DEF Held, Planned
  <2>10. ASSUME NEW v \in Workers, v # w
         PROVE  Held(v)' /\ Planned(v)'
    <3>1. pc[v] \in Holding => row'[me[v].res] = row[me[v].res]
      BY <2>3, <2>8, <2>10 DEF IInv, Workflow, Held
    <3> QED
      BY <1>1, <2>1, <2>2, <2>10, <3>1
      DEF IInv, Workflow, Held, Planned, AmountOf, PerCall
  <2>11. Workflow'
    BY <2>9, <2>10 DEF Workflow
  <2>12. Apart'
    BY <2>1, <2>2, <2>8 DEF IInv, Apart
  <2> QED
    BY <2>4, <2>6, <2>7, <2>11, <2>12 DEF IInv
<1> QED
  BY <1>1, <1>2, <1>3 DEF Reserve

LEMMA CallInv ==
  ASSUME IInv, NEW w \in Workers, Call(w)
  PROVE  IInv'
<1> DEFINE m == me[w]
<1> DEFINE r == m.res
<1> DEFINE K == PerCall(m)
<1>1. /\ pc[w] = "call" /\ pc[w] \in Holding
      /\ UNCHANGED <<month, reserved, spent, row>>
  BY DEF Call, Holding
<1>2. /\ r \in Reservations /\ m \in Local /\ m.done < m.calls
      /\ row[r].status = "reserved" /\ row[r].amount = AmountOf(m) /\ billed[r] = m.used
      /\ row[r].month = m.month
      /\ m.month \in Capped => m.used <= m.done * K
      /\ m.month \in Capped => billed[r] <= m.calls * K
  BY <1>1 DEF IInv, Types, Workflow, Held
<1>3. K \in Nat /\ m.used \in Nat /\ m.done \in Nat /\ m.calls \in Nat /\ m.done * K \in Nat
  BY <1>2, AmountInUnits DEF Local
<1>4. m.done * K + K = (m.done + 1) * K /\ (m.done + 1) * K <= m.calls * K
  BY <1>2, <1>3, OneCallMore
<1>5. ASSUME NEW u \in Costs(m)
      PROVE  u \in Nat /\ (m.month \in Capped => u <= K)
  BY <1>5, BudgetAssumption DEF Costs, PerCall
\* A call bills w's own reservation alone.
<1>6. ASSUME NEW u \in Costs(m), billed' = [billed EXCEPT ![r] = @ + u],
             \A v \in Workers : v # w => pc'[v] = pc[v] /\ me'[v] = me[v]
      PROVE  /\ billed' \in [Reservations -> Nat] /\ billed'[r] = m.used + u
             /\ RowInv' /\ WithinMonthly' /\ BillIsCovered'
             /\ \A v \in Workers : v # w => Held(v)' /\ Planned(v)'
  <2>1. /\ billed' \in [Reservations -> Nat] /\ billed'[r] = m.used + u
        /\ \A s \in Reservations : s # r => billed'[s] = billed[s]
    BY <1>2, <1>5, <1>6 DEF IInv, Types
  <2>2. RowInv' /\ WithinMonthly' /\ BillIsCovered'
    BY <1>1, <1>2, <2>1 DEF IInv, RowInv, WithinMonthly, BillIsCovered
  <2>3. ASSUME NEW v \in Workers, v # w
        PROVE  Held(v)' /\ Planned(v)'
    <3>1. pc[v] \in Holding => billed'[me[v].res] = billed[me[v].res]
      BY <1>1, <2>1, <2>3 DEF IInv, Apart, Workflow, Held
    <3> QED
      BY <1>1, <1>6, <2>3, <3>1 DEF IInv, Workflow, Held, Planned, AmountOf, PerCall
  <2> QED
    BY <2>1, <2>2, <2>3
<1>7. ASSUME NEW u \in Costs(m), billed' = [billed EXCEPT ![r] = @ + u],
             me' = [me EXCEPT ![w].done = @ + 1, ![w].used = @ + u],
             Goto(w, IF m.done + 1 = m.calls THEN "settle" ELSE "call")
      PROVE  IInv'
  <2>1. /\ pc' \in [Workers -> Holding \cup {"idle", "reserve"}]
        /\ pc'[w] = IF m.done + 1 = m.calls THEN "settle" ELSE "call"
        /\ \A v \in Workers : v # w => pc'[v] = pc[v]
    BY <1>7, GotoEffect DEF IInv, Holding
  <2>2. /\ me' \in [Workers -> Local] /\ me'[w].res = r
        /\ me'[w].used = m.used + u /\ me'[w].done = m.done + 1
        /\ me'[w].cap = m.cap /\ me'[w].calls = m.calls /\ me'[w].month = m.month
        /\ \A v \in Workers : v # w => me'[v] = me[v]
    <3> DEFINE rec == [m EXCEPT !.done = @ + 1, !.used = @ + u]
    <3>1. me' = [me EXCEPT ![w] = rec] /\ me \in [Workers -> Local]
      BY <1>7 DEF IInv, Types
    <3>2. rec \in Local /\ rec.res = r /\ rec.used = m.used + u /\ rec.done = m.done + 1
          /\ rec.cap = m.cap /\ rec.calls = m.calls /\ rec.month = m.month
      <4>1. m.done + 1 \in Nat /\ m.used + u \in Nat
        BY <1>3, <1>5
      <4> HIDE DEF m
      <4> QED
        BY <1>2, <4>1 DEF Local
    <3> HIDE DEF rec
    <3> QED
      BY <3>1, <3>2
  <2>3. /\ billed' \in [Reservations -> Nat] /\ billed'[r] = m.used + u
        /\ RowInv' /\ WithinMonthly' /\ BillIsCovered'
        /\ \A v \in Workers : v # w => Held(v)' /\ Planned(v)'
    BY <1>6, <1>7, <2>1, <2>2
  <2>4. Types'
    BY <1>1, <2>1, <2>2, <2>3 DEF IInv, Types
  <2>5. Held(w)' /\ Planned(w)'
    <3>1. PerCall(me[w])' = K /\ AmountOf(me[w])' = AmountOf(m)
      BY <2>2 DEF PerCall, AmountOf
    <3>2. m.month \in Capped => m.used + u <= (m.done + 1) * K /\ m.used + u <= m.calls * K
      <4> HIDE DEF K
      <4> QED
        BY <1>2, <1>3, <1>4, <1>5
    <3> HIDE DEF K, m, r
    <3> QED
      BY <1>1, <1>2, <1>3, <2>1, <2>2, <2>3, <3>1, <3>2 DEF Held, Planned, r
  <2>6. Workflow'
    BY <2>3, <2>5 DEF Workflow
  <2>7. Apart'
    BY <1>1, <2>1, <2>2 DEF IInv, Apart
  <2> QED
    BY <2>3, <2>4, <2>6, <2>7 DEF IInv
<1>8. ASSUME NEW u \in Costs(m), billed' = [billed EXCEPT ![r] = @ + u],
             Goto(w, "settle_uncertain"), UNCHANGED me
      PROVE  IInv'
  <2>1. /\ pc' \in [Workers -> Holding \cup {"idle", "reserve"}]
        /\ pc'[w] = "settle_uncertain" /\ me' = me
        /\ \A v \in Workers : v # w => pc'[v] = pc[v]
    BY <1>8, GotoEffect DEF IInv, Holding
  <2>2. /\ billed' \in [Reservations -> Nat] /\ billed'[r] = m.used + u
        /\ RowInv' /\ WithinMonthly' /\ BillIsCovered'
        /\ \A v \in Workers : v # w => Held(v)' /\ Planned(v)'
    BY <1>6, <1>8, <2>1
  <2>3. Types'
    BY <1>1, <2>1, <2>2 DEF IInv, Types
  <2>4. Held(w)' /\ Planned(w)'
    <3>1. PerCall(me[w])' = K /\ AmountOf(me[w])' = AmountOf(m)
      BY <2>1 DEF PerCall, AmountOf
    <3>2. m.month \in Capped => m.used + u <= m.used + K /\ m.used + u <= m.calls * K
      <4> HIDE DEF K
      <4> QED
        BY <1>2, <1>3, <1>4, <1>5
    <3> QED
      BY <1>1, <1>2, <1>3, <2>1, <2>2, <3>1, <3>2 DEF Held, Planned
  <2>5. Workflow'
    BY <2>2, <2>4 DEF Workflow
  <2>6. Apart'
    BY <1>1, <2>1 DEF IInv, Apart
  <2> QED
    BY <2>2, <2>3, <2>5, <2>6 DEF IInv
<1>9. CASE Goto(w, "settle_none") /\ UNCHANGED <<billed, me>>
  <2>1. /\ pc' \in [Workers -> Holding \cup {"idle", "reserve"}]
        /\ pc'[w] = "settle_none"
        /\ \A v \in Workers : v # w => pc'[v] = pc[v]
    BY <1>9, GotoEffect DEF IInv, Holding
  <2>2. me' \in [Workers -> Local] /\ me' = me
    BY <1>9 DEF IInv, Types
  <2>3. Held(w)' /\ Planned(w)'
    BY <1>1, <1>9, <2>1, <2>2 DEF IInv, Workflow, Held, Planned, AmountOf, PerCall
  <2> QED
    BY <1>1, <1>9, <2>1, <2>2, <2>3, LocalStep
<1> QED
  BY <1>7, <1>8, <1>9 DEF Call

LEMMA CrashInv ==
  ASSUME IInv, Crash
  PROVE  IInv'
<1>1. Fresh \in Local
  BY BudgetAssumption DEF Fresh, Local
<1>2. /\ UNCHANGED <<month, reserved, spent, row, billed>>
      /\ \A w \in Workers : pc'[w] = "idle"
      /\ pc' \in [Workers -> Holding \cup {"idle", "reserve"}]
      /\ me' \in [Workers -> Local]
  BY <1>1 DEF Crash
<1>3. Types' /\ RowInv' /\ WithinMonthly' /\ BillIsCovered'
  BY <1>2 DEF IInv, Types, RowInv, WithinMonthly, BillIsCovered
<1>4. Workflow'
  BY <1>2, IdleKeeps DEF Workflow
<1>5. Apart'
  BY <1>2 DEF Apart, Holding
<1> QED
  BY <1>3, <1>4, <1>5 DEF IInv

LEMMA NextMonthInv ==
  ASSUME IInv, NextMonth
  PROVE  IInv'
<1>1. month' \in 1..Months /\ UNCHANGED <<reserved, spent, row, pc, me, billed>>
  BY BudgetAssumption DEF NextMonth, IInv, Types
<1> QED
  BY <1>1 DEF IInv, Types, RowInv, Workflow, Held, Planned, Apart, WithinMonthly,
              BillIsCovered, AmountOf, PerCall

LEMMA InitInv == Init => IInv
<1> SUFFICES ASSUME Init PROVE IInv
  OBVIOUS
<1>1. Fresh \in Local /\ NoRow \in Row /\ NoRow.status = "none"
  BY BudgetAssumption DEF Fresh, Local, NoRow, Row, Status
<1>2. Types
  BY <1>1, BudgetAssumption DEF Init, Types
<1>3. RowInv /\ BillIsCovered
  BY <1>1 DEF Init, RowInv, BillIsCovered
<1>4. Workflow /\ Apart
  BY DEF Init, Workflow, Held, Planned, Apart, Holding
<1>5. WithinMonthly
  BY BudgetAssumption DEF Init, WithinMonthly
<1> QED
  BY <1>2, <1>3, <1>4, <1>5 DEF IInv

LEMMA StepInv == IInv /\ [Next]_vars => IInv'
<1> SUFFICES ASSUME IInv, [Next]_vars PROVE IInv'
  OBVIOUS
<1>1. CASE UNCHANGED vars
  BY <1>1 DEF vars, IInv, Types, RowInv, Workflow, Held, Planned, Apart, WithinMonthly,
              BillIsCovered, AmountOf, PerCall
<1>2. ASSUME NEW w \in Workers,
             Plan(w) \/ Reserve(w) \/ Call(w) \/ Settle(w) \/ SettleNone(w)
               \/ SettleUncertain(w) \/ StoreFails(w)
      PROVE  IInv'
  BY <1>2, PlanInv, ReserveInv, CallInv, SettleInv, SettleNoneInv, SettleUncertainInv,
     StoreFailsInv
<1>3. CASE Crash \/ NextMonth
  BY <1>3, CrashInv, NextMonthInv
<1> QED
  BY <1>1, <1>2, <1>3 DEF Next

-----------------------------------------------------------------------------
(* Sums                                                                    *)
(*                                                                         *)
(* A sum of naturals over a finite set is the size of a heap: f[x] pebbles *)
(* for each x.  Heaps do not depend on the order in which a sum is taken.  *)

Heap(f, X) == {p \in X \X Nat : p[2] < f[p[1]]}

\* Induction over the subsets of a finite set, with the set of those that have the
\* property for the property.
LEMMA FiniteInduction ==
  ASSUME NEW X, IsFiniteSet(X), NEW G, {} \in G,
         \A s \in SUBSET X : s # {} /\ (\A x \in s : s \ {x} \in G) => s \in G
  PROVE  \A s \in SUBSET X : s \in G
<1> SUFFICES ASSUME (SUBSET X) \ G # {} PROVE FALSE
  OBVIOUS
<1> DEFINE bad == (SUBSET X) \ G
<1>1. FiniteSubsetsOf(X) = SUBSET X /\ bad \subseteq FiniteSubsetsOf(X) /\ bad # {}
  BY FS_FiniteSubsetsOfFinite
<1> HIDE DEF bad
<1>2. PICK s \in bad : \A t \in bad : ~ (<<t, s>> \in StrictSubsetOrdering(X))
  BY <1>1, FS_StrictSubsetOrderingWellFounded, WFMin
<1> USE DEF bad
<1>3. s \in SUBSET X /\ s # {} /\ s \notin G
  BY <1>2
<1>4. ASSUME NEW x \in s PROVE s \ {x} \in G
  <2>1. s \ {x} \in SUBSET X /\ <<s \ {x}, s>> \in StrictSubsetOrdering(X)
    BY <1>3 DEF StrictSubsetOrdering
  <2> QED
    BY <1>2, <2>1
<1> QED
  BY <1>3, <1>4

\* An element more.
LEMMA HeapAdd ==
  ASSUME NEW f, NEW X, NEW x, x \notin X, f[x] \in Nat, IsFiniteSet(Heap(f, X))
  PROVE  /\ IsFiniteSet(Heap(f, X \cup {x}))
         /\ Cardinality(Heap(f, X \cup {x})) = Cardinality(Heap(f, X)) + f[x]
<1>1. /\ IsFiniteSet(0..(f[x] - 1)) /\ Cardinality(0..(f[x] - 1)) = f[x]
  <2> DEFINE b == f[x] - 1
  <2>1. b \in Int /\ 0 \in Int /\ ((0 > b) <=> (f[x] = 0)) /\ b - 0 + 1 = f[x]
    OBVIOUS
  <2> HIDE DEF b
  <2>2. IsFiniteSet(0..b) /\ Cardinality(0..b) = IF 0 > b THEN 0 ELSE b - 0 + 1
    BY <2>1, FS_Interval
  <2>3. Cardinality(0..b) = f[x]
    BY <2>1, <2>2
  <2> QED
    BY <2>2, <2>3 DEF b
<1>2. /\ IsFiniteSet({x}) /\ Cardinality({x}) = 1
  BY FS_Singleton
<1> DEFINE one == {x} \X (0..(f[x] - 1))
<1>3. IsFiniteSet(one) /\ Cardinality(one) = f[x]
  <2> DEFINE a == {x}
  <2> DEFINE b == 0..(f[x] - 1)
  <2>1. one = a \X b /\ Cardinality(a) = 1 /\ Cardinality(b) = f[x]
    BY <1>1, <1>2
  <2>2. IsFiniteSet(a) /\ IsFiniteSet(b)
    BY <1>1, <1>2
  <2> HIDE DEF one, a, b
  <2>3. IsFiniteSet(a \X b) /\ Cardinality(a \X b) = Cardinality(a) * Cardinality(b)
    BY <2>2, FS_Product
  <2> QED
    BY <2>1, <2>3
<1>4. Heap(f, X \cup {x}) = Heap(f, X) \cup one /\ Heap(f, X) \cap one = {}
  BY DEF Heap
<1> HIDE DEF one
<1>5. Cardinality(Heap(f, X)) \in Nat /\ Cardinality({}) = 0
  BY FS_CardinalityType, FS_EmptySet
<1> DEFINE old == Heap(f, X)
<1>6. IsFiniteSet(old) /\ old \cap one = {} /\ Cardinality(old) \in Nat
  BY <1>4, <1>5
<1> HIDE DEF old
<1>7. /\ IsFiniteSet(old \cup one)
      /\ Cardinality(old \cup one) = Cardinality(old) + Cardinality(one) - Cardinality(old \cap one)
  BY <1>3, <1>6, FS_Union
<1> DEFINE both == old \cap one
<1>8. both = {}
  BY <1>6
<1>9. Cardinality(old \cup one) = Cardinality(old) + Cardinality(one) - Cardinality(both)
  BY <1>7
<1> HIDE DEF both
<1>10. Cardinality(both) = 0
  BY <1>5, <1>8
<1>11. Cardinality(old \cup one) = Cardinality(old) + f[x]
  BY <1>3, <1>6, <1>9, <1>10
<1> QED
  BY <1>4, <1>7, <1>11 DEF old

LEMMA HeapFinite ==
  ASSUME NEW f, NEW X, IsFiniteSet(X), \A x \in X : f[x] \in Nat
  PROVE  \A s \in SUBSET X : IsFiniteSet(Heap(f, s)) /\ Cardinality(Heap(f, s)) \in Nat
<1> DEFINE G == {s \in SUBSET X : IsFiniteSet(Heap(f, s))}
<1>1. {} \in G
  <2>1. Heap(f, {}) = {}
    BY DEF Heap
  <2> QED
    BY <2>1, FS_EmptySet
<1>2. ASSUME NEW s \in SUBSET X, NEW x \in s, s \ {x} \in G
      PROVE  s \in G
  <2>1. s = (s \ {x}) \cup {x} /\ x \notin s \ {x} /\ f[x] \in Nat
    OBVIOUS
  <2>2. IsFiniteSet(Heap(f, (s \ {x}) \cup {x}))
    BY <1>2, <2>1, HeapAdd
  <2> QED
    BY <2>1, <2>2
<1>3. \A s \in SUBSET X : s \in G
  <2> HIDE DEF G
  <2>1. \A s \in SUBSET X : s # {} /\ (\A x \in s : s \ {x} \in G) => s \in G
    BY <1>2
  <2> QED
    BY <1>1, <2>1, FiniteInduction
<1> QED
  BY <1>3, FS_CardinalityType

\* The recursion by which the library sums: an element at a time, as CHOOSE has it.
Sums(f, X, g) ==
  g = [s \in SUBSET X |-> IF s = {} THEN 0
                          ELSE LET x == CHOOSE x \in s : TRUE IN f[x] + g[s \ {x}]]

LEMMA HeapsSum ==
  ASSUME NEW f, NEW X, IsFiniteSet(X), \A x \in X : f[x] \in Nat
  PROVE  Sums(f, X, [s \in SUBSET X |-> Cardinality(Heap(f, s))])
<1> DEFINE h == [s \in SUBSET X |-> Cardinality(Heap(f, s))]
<1>1. ASSUME NEW s \in SUBSET X
      PROVE  h[s] = IF s = {} THEN 0
                    ELSE LET x == CHOOSE x \in s : TRUE IN f[x] + h[s \ {x}]
  <2>1. CASE s = {}
    <3>1. Heap(f, {}) = {}
      BY DEF Heap
    <3> QED
      BY <2>1, <3>1, FS_EmptySet
  <2>2. CASE s # {}
    <3> DEFINE x == CHOOSE x \in s : TRUE
    <3>1. x \in s
      BY <2>2
    <3> HIDE DEF x
    <3> DEFINE t == s \ {x}
    <3>2. s = t \cup {x} /\ x \notin t /\ f[x] \in Nat /\ t \in SUBSET X
      BY <3>1
    <3>5. h[s] = Cardinality(Heap(f, s)) /\ h[t] = Cardinality(Heap(f, t))
      BY <3>2
    <3> HIDE DEF t
    <3>3. /\ IsFiniteSet(Heap(f, t)) /\ Cardinality(Heap(f, t)) \in Nat
      BY <3>2, HeapFinite
    <3>4. Cardinality(Heap(f, t \cup {x})) = Cardinality(Heap(f, t)) + f[x]
      BY <3>2, <3>3, HeapAdd
    <3>6. Cardinality(Heap(f, s)) = f[x] + Cardinality(Heap(f, t))
      BY <3>2, <3>3, <3>4
    <3>7. h[s] = f[x] + h[s \ {x}]
      BY <3>5, <3>6 DEF t
    <3> QED
      BY <2>2, <3>7 DEF x
  <2> QED
    BY <2>1, <2>2
<1> QED
  BY <1>1 DEF Sums

LEMMA SumsAreHeaps ==
  ASSUME NEW f, NEW X, IsFiniteSet(X), \A x \in X : f[x] \in Nat, NEW g, Sums(f, X, g)
  PROVE  g[X] = Cardinality(Heap(f, X))
<1> DEFINE h == [s \in SUBSET X |-> Cardinality(Heap(f, s))]
<1> DEFINE G == {s \in SUBSET X : g[s] = h[s]}
<1>0. h[X] = Cardinality(Heap(f, X))
  OBVIOUS
<1>a. Sums(f, X, h)
  BY HeapsSum
<1> HIDE DEF h
<1>1. /\ g = [s \in SUBSET X |-> IF s = {} THEN 0
                 ELSE LET x == CHOOSE x \in s : TRUE IN f[x] + g[s \ {x}]]
      /\ h = [s \in SUBSET X |-> IF s = {} THEN 0
                 ELSE LET x == CHOOSE x \in s : TRUE IN f[x] + h[s \ {x}]]
  BY <1>a DEF Sums
<1>2. {} \in G
  BY <1>1
<1>3. ASSUME NEW s \in SUBSET X, \A x \in s : s \ {x} \in G
      PROVE  s \in G
  <2>1. CASE s # {}
    <3> DEFINE x == CHOOSE x \in s : TRUE
    <3>1. x \in s
      BY <2>1
    <3>2. g[s] = f[x] + g[s \ {x}] /\ h[s] = f[x] + h[s \ {x}]
      BY <1>1, <2>1
    <3> QED
      BY <1>3, <3>1, <3>2
  <2> QED
    BY <1>2, <2>1
<1>4. \A s \in SUBSET X : s \in G
  <2>1. \A s \in SUBSET X : s # {} /\ (\A x \in s : s \ {x} \in G) => s \in G
    <3> HIDE DEF G
    <3> QED
      BY <1>3
  <2> HIDE DEF G
  <2> QED
    BY <1>2, <2>1, FiniteInduction
<1> QED
  BY <1>0, <1>4

LEMMA SumIsHeap ==
  ASSUME NEW f, NEW X, IsFiniteSet(X), \A x \in X : f[x] \in Nat
  PROVE  SumFunctionOnSet(f, X) = Cardinality(Heap(f, X))
<1> DEFINE g == CHOOSE g : Sums(f, X, g)
<1>1. Sums(f, X, g)
  <2>1. \E h : Sums(f, X, h)
    BY HeapsSum
  <2> QED
    BY <2>1
<1>2. SumFunctionOnSet(f, X) = g[X]
  BY DEF SumFunctionOnSet, FoldFunctionOnSet, MapThenFoldSet, Sums
<1> HIDE DEF g
<1> QED
  BY <1>1, <1>2, SumsAreHeaps

LEMMA SumEmpty == ASSUME NEW f PROVE SumFunctionOnSet(f, {}) = 0
<1>1. Heap(f, {}) = {}
  BY DEF Heap
<1>2. IsFiniteSet({}) /\ Cardinality({}) = 0
  BY FS_EmptySet
<1> QED
  BY <1>1, <1>2, SumIsHeap

LEMMA SumNat ==
  ASSUME NEW f, NEW X, IsFiniteSet(X), \A x \in X : f[x] \in Nat
  PROVE  SumFunctionOnSet(f, X) \in Nat
<1>1. Cardinality(Heap(f, X)) \in Nat
  BY HeapFinite
<1> QED
  BY <1>1, SumIsHeap

\* A sum depends on the values over its set only.
LEMMA SumSame ==
  ASSUME NEW f, NEW g, NEW X, IsFiniteSet(X), \A x \in X : f[x] \in Nat /\ f[x] = g[x]
  PROVE  SumFunctionOnSet(f, X) = SumFunctionOnSet(g, X)
<1>1. Heap(f, X) = Heap(g, X)
  BY DEF Heap
<1> QED
  BY <1>1, SumIsHeap

\* An element enters a sum.
LEMMA SumIn ==
  \A f, g, X, r :
    /\ IsFiniteSet(X) /\ r \notin X /\ g[r] \in Nat
    /\ \A x \in X : f[x] \in Nat /\ f[x] = g[x]
    => SumFunctionOnSet(g, X \cup {r}) = SumFunctionOnSet(f, X) + g[r]
<1> TAKE f, g, X, r
<1> HAVE /\ IsFiniteSet(X) /\ r \notin X /\ g[r] \in Nat
         /\ \A x \in X : f[x] \in Nat /\ f[x] = g[x]
<1>1. IsFiniteSet(Heap(g, X))
  BY HeapFinite
<1> DEFINE Y == X \cup {r}
<1>2. IsFiniteSet(Y) /\ \A x \in Y : g[x] \in Nat
  BY FS_AddElement
<1> HIDE DEF Y
<1>3. SumFunctionOnSet(g, Y) = Cardinality(Heap(g, Y))
  BY <1>2, SumIsHeap
<1>4. Cardinality(Heap(g, Y)) = Cardinality(Heap(g, X)) + g[r]
  BY <1>1, HeapAdd DEF Y
<1>5. SumFunctionOnSet(f, X) = Cardinality(Heap(g, X))
  <2>1. SumFunctionOnSet(g, X) = Cardinality(Heap(g, X))
    BY SumIsHeap
  <2> QED
    BY <2>1, SumSame
<1>6. SumFunctionOnSet(g, Y) = SumFunctionOnSet(f, X) + g[r]
  BY <1>3, <1>4, <1>5
<1> QED
  BY <1>6 DEF Y
-----------------------------------------------------------------------------
(* The books                                                               *)
(*                                                                         *)
(* Only finitely many rows have ever been used, so the sums are sums.  A   *)
(* worker that holds nothing names no reservation, so a worker that comes  *)
(* or goes loses no more than the one it held.                             *)

Used == {r \in Reservations : row[r].status # "none"}
EmptyHanded == \A w \in Workers : pc[w] \in {"idle", "reserve"} => me[w].res = NoReservation

BooksInv ==
  /\ IsFiniteSet(Used) /\ BooksBalance
  /\ EmptyHanded /\ faults \in Nat /\ crashes \in Nat /\ LossesAreFailures

Open(m) == RowsOf(m, {"reserved"})
Closed(m) == RowsOf(m, {"settled", "uncertain"})

LEMMA FiniteRows ==
  ASSUME Types, IsFiniteSet(Used), NEW m
  PROVE  /\ IsFiniteSet(Open(m)) /\ IsFiniteSet(Closed(m))
         /\ \A r \in Reservations : Amounts[r] \in Nat /\ Charges[r] \in Nat
         /\ \A r \in Reservations : Amounts[r] = row[r].amount /\ Charges[r] = row[r].observed
<1>1. Open(m) \subseteq Used /\ Closed(m) \subseteq Used
  BY DEF Open, Closed, RowsOf, Used
<1>2. IsFiniteSet(Open(m)) /\ IsFiniteSet(Closed(m))
  BY <1>1, FS_Subset
<1> QED
  BY <1>2 DEF Types, Row, Amounts, Charges

LEMMA BalanceStays ==
  ASSUME BooksBalance, UNCHANGED <<reserved, spent, row>>
  PROVE  BooksBalance'
BY DEF BooksBalance, RowsOf, Amounts, Charges

\* A new reservation enters the sum of its month.
LEMMA ReserveBalances ==
  ASSUME Types, Types', IsFiniteSet(Used), BooksBalance,
         NEW r \in Reservations, row[r].status = "none", NEW m \in 1..Months,
         row'[r].status = "reserved", row'[r].month = m,
         \A s \in Reservations : s # r => row'[s] = row[s],
         reserved' = [reserved EXCEPT ![m] = @ + row'[r].amount],
         UNCHANGED spent
  PROVE  BooksBalance'
<1> SUFFICES ASSUME NEW n \in 1..Months
             PROVE  /\ reserved'[n] = SumFunctionOnSet(Amounts', Open(n)')
                    /\ spent'[n] = SumFunctionOnSet(Charges', Closed(n)')
  BY DEF BooksBalance, Open, Closed
<1> DEFINE A == Amounts
<1> DEFINE B == Amounts'
<1> DEFINE C == Charges
<1> DEFINE D == Charges'
<1> DEFINE X == Open(n)
<1> DEFINE Y == Closed(n)
<1>1. /\ IsFiniteSet(X) /\ IsFiniteSet(Y)
      /\ \A s \in X : A[s] \in Nat /\ A[s] = B[s] /\ r # s
      /\ \A s \in Y : C[s] \in Nat /\ C[s] = D[s]
      /\ B[r] \in Nat /\ B[r] = row'[r].amount /\ r \notin X
  <2>1. /\ IsFiniteSet(Open(n)) /\ IsFiniteSet(Closed(n))
        /\ \A s \in Reservations : Amounts[s] \in Nat /\ Charges[s] \in Nat
    BY FiniteRows
  <2>2. r \notin X /\ r \notin Y /\ X \subseteq Reservations /\ Y \subseteq Reservations
    BY DEF Open, Closed, RowsOf
  <2>3. \A s \in Reservations : s # r => A[s] = B[s] /\ C[s] = D[s]
    BY DEF Amounts, Charges
  <2>4. B[r] = row'[r].amount /\ B[r] \in Nat
    BY DEF Amounts, Types, Row
  <2> HIDE DEF A, B, C, D, X, Y
  <2> QED
    BY <2>1, <2>2, <2>3, <2>4 DEF A, C, X, Y
<1>2. reserved[n] = SumFunctionOnSet(A, X) /\ spent[n] = SumFunctionOnSet(C, Y)
  BY DEF BooksBalance, Open, Closed
<1>3. Closed(n)' = Y
  BY DEF Closed, RowsOf
<1>4. Open(n)' = IF n = m THEN X \cup {r} ELSE X
  BY DEF Open, RowsOf
<1>5. reserved'[n] = IF n = m THEN reserved[n] + B[r] ELSE reserved[n]
  BY <1>1 DEF Types
<1> HIDE DEF A, B, C, D, X, Y
<1>6. SumFunctionOnSet(C, Y) = SumFunctionOnSet(D, Y)
  BY ONLY <1>1, SumSame
<1>7. SumFunctionOnSet(A, X) = SumFunctionOnSet(B, X)
  BY ONLY <1>1, SumSame
<1>8. SumFunctionOnSet(B, X \cup {r}) = SumFunctionOnSet(A, X) + B[r]
  <2>1. IsFiniteSet(X) /\ r \notin X /\ B[r] \in Nat
    BY <1>1
  <2>2. \A s \in X : A[s] \in Nat /\ A[s] = B[s]
    BY <1>1
  <2>3. \A f, g, Z :
          /\ IsFiniteSet(Z) /\ r \notin Z /\ g[r] \in Nat
          /\ \A s \in Z : f[s] \in Nat /\ f[s] = g[s]
          => SumFunctionOnSet(g, Z \cup {r}) = SumFunctionOnSet(f, Z) + g[r]
    BY SumIn
  <2> QED
    BY ONLY <2>1, <2>2, <2>3
<1>9. spent'[n] = SumFunctionOnSet(D, Closed(n)')
  BY <1>2, <1>3, <1>6
<1>10. reserved'[n] = SumFunctionOnSet(B, Open(n)')
  BY <1>2, <1>4, <1>5, <1>7, <1>8
<1> QED
  BY <1>9, <1>10 DEF B, D

\* A closed reservation passes from the one sum of its month to the other.
LEMMA CloseBalances ==
  ASSUME Types, RowInv, IsFiniteSet(Used), BooksBalance,
         NEW r \in Reservations, NEW status \in {"settled", "uncertain"}, NEW charge \in Nat,
         Close(r, status, charge)
  PROVE  BooksBalance'
<1>1. CASE row[r].status # "reserved"
  BY <1>1, BalanceStays DEF Close
<1>2. CASE row[r].status = "reserved"
  <2> DEFINE m == row[r].month
  <2>1. /\ m \in 1..Months /\ row[r].amount \in Nat
        /\ row' = [row EXCEPT ![r].status = status, ![r].observed = charge]
        /\ reserved' = [reserved EXCEPT ![m] = @ - row[r].amount]
        /\ spent' = [spent EXCEPT ![m] = @ + charge]
    BY <1>2 DEF Close, Types, RowInv, Row
  <2>2. /\ row'[r].status = status /\ row'[r].observed = charge
        /\ row'[r].amount = row[r].amount /\ row'[r].month = m
        /\ \A s \in Reservations : s # r => row'[s] = row[s]
    BY <2>1 DEF Types, Row
  <2> HIDE DEF m
  <2> SUFFICES ASSUME NEW n \in 1..Months
               PROVE  /\ reserved'[n] = SumFunctionOnSet(Amounts', Open(n)')
                      /\ spent'[n] = SumFunctionOnSet(Charges', Closed(n)')
    BY DEF BooksBalance, Open, Closed
  <2> DEFINE A == Amounts
  <2> DEFINE B == Amounts'
  <2> DEFINE C == Charges
  <2> DEFINE D == Charges'
  <2> DEFINE X == Open(n)
  <2> DEFINE Y == Closed(n)
  <2>3. /\ A[r] = row[r].amount /\ D[r] = charge
        /\ \A s \in Reservations : A[s] = B[s]
        /\ \A s \in Reservations : s # r => C[s] = D[s]
    BY <2>2 DEF Amounts, Charges
  <2>4. /\ r \notin Y /\ X \subseteq Reservations /\ Y \subseteq Reservations
        /\ (r \in X <=> n = m)
    BY <1>2 DEF Open, Closed, RowsOf, m
  <2>5. /\ IsFiniteSet(X) /\ IsFiniteSet(Y)
        /\ \A s \in Reservations : A[s] \in Nat /\ C[s] \in Nat
    BY FiniteRows
  <2>6. Open(n)' = X \ {r}
    BY <2>2 DEF Open, RowsOf
  <2>7. Closed(n)' = IF n = m THEN Y \cup {r} ELSE Y
    BY <2>2, <2>4 DEF Closed, RowsOf
  <2>8. reserved[n] = SumFunctionOnSet(A, X) /\ spent[n] = SumFunctionOnSet(C, Y)
    BY DEF BooksBalance, Open, Closed
  <2>9. /\ reserved'[n] = IF n = m THEN reserved[n] - A[r] ELSE reserved[n]
        /\ spent'[n] = IF n = m THEN spent[n] + D[r] ELSE spent[n]
    BY <2>1, <2>3 DEF Types
  <2> HIDE DEF A, B, C, D, X, Y
  <2>10. /\ \A s \in X : A[s] \in Nat /\ A[s] = B[s]
         /\ \A s \in Y : C[s] \in Nat /\ C[s] = D[s]
         /\ D[r] \in Nat
    BY <2>3, <2>4, <2>5
  <2>11. SumFunctionOnSet(A, X) = SumFunctionOnSet(B, X)
    BY ONLY <2>5, <2>10, SumSame
  <2>12. SumFunctionOnSet(C, Y) = SumFunctionOnSet(D, Y)
    BY ONLY <2>5, <2>10, SumSame
  <2>13. SumFunctionOnSet(D, Y \cup {r}) = SumFunctionOnSet(C, Y) + D[r]
    BY ONLY <2>4, <2>5, <2>10, SumIn
  <2>14. ASSUME n = m
         PROVE  SumFunctionOnSet(B, X \ {r}) = SumFunctionOnSet(A, X) - A[r]
    <3> DEFINE Z == X \ {r}
    <3>1. IsFiniteSet(Z)
      BY <2>5, FS_RemoveElement
    <3>2. X = Z \cup {r} /\ r \notin Z /\ A[r] \in Nat
      BY <2>4, <2>10, <2>14
    <3>3. \A s \in Z : B[s] \in Nat /\ B[s] = A[s]
      BY <2>10
    <3> HIDE DEF Z
    <3>4. SumFunctionOnSet(A, Z \cup {r}) = SumFunctionOnSet(B, Z) + A[r]
      <4>1. \A f, g, Q :
              /\ IsFiniteSet(Q) /\ r \notin Q /\ g[r] \in Nat
              /\ \A s \in Q : f[s] \in Nat /\ f[s] = g[s]
              => SumFunctionOnSet(g, Q \cup {r}) = SumFunctionOnSet(f, Q) + g[r]
        BY SumIn
      <4> QED
        BY ONLY <3>1, <3>2, <3>3, <4>1
    <3>5. SumFunctionOnSet(B, Z) \in Nat
      BY ONLY <3>1, <3>3, SumNat
    <3>6. SumFunctionOnSet(B, Z) = SumFunctionOnSet(A, X) - A[r]
      BY <3>2, <3>4, <3>5
    <3> QED
      BY <3>6 DEF Z
  <2>15. n # m => X \ {r} = X
    BY <2>4
  <2>16. reserved'[n] = SumFunctionOnSet(B, Open(n)')
    BY <2>6, <2>8, <2>9, <2>11, <2>14, <2>15
  <2>17. spent'[n] = SumFunctionOnSet(D, Closed(n)')
    BY <2>7, <2>8, <2>9, <2>12, <2>13
  <2> QED
    BY <2>16, <2>17 DEF B, D
<1> QED
  BY <1>1, <1>2

\* What is lost in a step is counted.
LEMMA LostAtMost ==
  ASSUME Types, IsFiniteSet(Used), NEW E, IsFiniteSet(E),
         LostReservations' \subseteq LostReservations \cup E
  PROVE  /\ Cardinality(LostReservations) \in Nat /\ Cardinality(E) \in Nat
         /\ Cardinality(LostReservations') \in Nat
         /\ Cardinality(LostReservations') <= Cardinality(LostReservations) + Cardinality(E)
<1> DEFINE L == LostReservations
<1> DEFINE M == LostReservations'
<1>1. L \subseteq Used
  BY DEF LostReservations, Used
<1>2. IsFiniteSet(L) /\ M \subseteq L \cup E
  BY <1>1, FS_Subset
<1> HIDE DEF L, M
<1>3. /\ IsFiniteSet(L \cup E)
      /\ Cardinality(L \cup E) = Cardinality(L) + Cardinality(E) - Cardinality(L \cap E)
  BY <1>2, FS_Union
<1>4. IsFiniteSet(M) /\ Cardinality(M) <= Cardinality(L \cup E)
  BY <1>2, <1>3, FS_Subset
<1>5. IsFiniteSet(L \cap E)
  BY <1>2, FS_Subset
<1>6. /\ Cardinality(M) \in Nat /\ Cardinality(L) \in Nat /\ Cardinality(E) \in Nat
      /\ Cardinality(L \cap E) \in Nat /\ Cardinality(L \cup E) \in Nat
  BY <1>2, <1>3, <1>4, <1>5, FS_CardinalityType
<1>7. Cardinality(M) <= Cardinality(L) + Cardinality(E)
  BY <1>3, <1>4, <1>6
<1> QED
  BY <1>6, <1>7 DEF L, M

\* What the workers hold is at most one reservation each.
LEMMA HeldAtMost ==
  LET E == {me[w].res : w \in Workers} IN
    IsFiniteSet(E) /\ Cardinality(E) <= Cardinality(Workers)
<1> DEFINE E == {me[w].res : w \in Workers}
<1> DEFINE f == [w \in Workers |-> me[w].res]
<1>1. f \in Surjection(Workers, E)
  BY DEF Surjection
<1> HIDE DEF f, E
<1>2. IsFiniteSet(E) /\ Cardinality(E) <= Cardinality(Workers)
  BY <1>1, BudgetAssumption, FS_Surjection
<1> QED
  BY <1>2 DEF E

\* A step that opens no reservation and keeps its holder.
LEMMA NothingLost ==
  ASSUME \A r \in Reservations : row'[r].status = "reserved" =>
           \/ row[r].status = "reserved" /\ \A w \in Workers : me[w].res = r => me'[w].res = r
           \/ \E w \in Workers : me'[w].res = r
  PROVE  LostReservations' \subseteq LostReservations
BY DEF LostReservations

LEMMA CountStays ==
  ASSUME IsFiniteSet(Used), LossesAreFailures, faults \in Nat, crashes \in Nat,
         UNCHANGED <<faults, crashes>>,
         LostReservations' \subseteq LostReservations
  PROVE  LossesAreFailures'
<1>1. LostReservations \subseteq Used
  BY DEF LostReservations, Used
<1>2. IsFiniteSet(LostReservations)
  BY <1>1, FS_Subset
<1>3. /\ IsFiniteSet(LostReservations')
      /\ Cardinality(LostReservations') <= Cardinality(LostReservations)
  BY <1>2, FS_Subset
<1>4. /\ Cardinality(LostReservations') \in Nat /\ Cardinality(LostReservations) \in Nat
  BY <1>2, <1>3, FS_CardinalityType
<1> DEFINE bound == faults + crashes * Cardinality(Workers)
<1>5. Cardinality(LostReservations) <= bound /\ bound' = bound /\ bound \in Nat
  BY BudgetAssumption, FS_CardinalityType DEF LossesAreFailures
<1>6. Cardinality(LostReservations') <= bound'
  <2> HIDE DEF bound
  <2> QED
    BY <1>3, <1>4, <1>5
<1> QED
  BY <1>6 DEF LossesAreFailures

\* The steps that write no row and drop nobody's reservation.
LEMMA LocalBooks ==
  ASSUME IInv, BooksInv, UNCHANGED <<reserved, spent, row, faults, crashes>>,
         \A w \in Workers : me'[w].res = me[w].res,
         EmptyHanded'
  PROVE  BooksInv'
<1>1. Used' = Used
  BY DEF Used
<1>2. LostReservations' \subseteq LostReservations
  BY DEF LostReservations
<1> QED
  BY <1>1, <1>2, BalanceStays, CountStays DEF BooksInv, IInv

LEMMA PlanBooks ==
  ASSUME IInv, BooksInv, NEW w \in Workers, Plan(w)
  PROVE  BooksInv'
<1>1. /\ pc[w] = "idle" /\ Goto(w, "reserve")
      /\ \E x : x.res = NoReservation /\ me' = [me EXCEPT ![w] = x]
      /\ UNCHANGED <<reserved, spent, row, faults, crashes>>
  BY DEF Plan
<1>2. /\ me[w].res = NoReservation /\ me'[w].res = NoReservation
      /\ \A v \in Workers : v # w => me'[v] = me[v] /\ pc'[v] = pc[v]
  BY <1>1 DEF BooksInv, EmptyHanded, IInv, Types, Goto
<1>3. EmptyHanded'
  BY <1>2 DEF BooksInv, EmptyHanded
<1> QED
  BY <1>1, <1>2, <1>3, LocalBooks

LEMMA ReserveBooks ==
  ASSUME IInv, BooksInv, NEW w \in Workers, Reserve(w)
  PROVE  BooksInv'
<1>1. /\ pc[w] = "reserve" /\ me[w] \in Local /\ me[w].res = NoReservation
      /\ me[w].month \in 1..Months /\ AmountOf(me[w]) \in Nat
      /\ UNCHANGED <<spent, faults, crashes>>
  BY AmountInUnits DEF Reserve, IInv, Types, Workflow, Planned, BooksInv, EmptyHanded
<1>2. CASE Leave(w) /\ UNCHANGED <<row, reserved>>
  <2>1. /\ me'[w].res = NoReservation
        /\ \A v \in Workers : v # w => me'[v] = me[v] /\ pc'[v] = pc[v]
    BY <1>2 DEF Leave, Goto, Fresh, IInv, Types
  <2>2. EmptyHanded'
    BY <2>1 DEF BooksInv, EmptyHanded
  <2> QED
    BY <1>1, <1>2, <2>1, <2>2, LocalBooks
<1>3. ASSUME NEW r \in Reservations, row[r] = NoRow,
             row' = [row EXCEPT ![r] =
               [status |-> "reserved", month |-> me[w].month, amount |-> AmountOf(me[w]),
                observed |-> 0]],
             reserved' = [reserved EXCEPT ![me[w].month] = @ + AmountOf(me[w])],
             me' = [me EXCEPT ![w].res = r],
             Goto(w, "call")
      PROVE  BooksInv'
  <2>1. /\ row[r].status = "none"
        /\ row'[r].status = "reserved" /\ row'[r].month = me[w].month
        /\ row'[r].amount = AmountOf(me[w])
        /\ \A s \in Reservations : s # r => row'[s] = row[s]
    BY <1>3 DEF IInv, Types, NoRow
  <2>2. Types'
    BY ReserveInv DEF IInv
  <2>3. BooksBalance'
    BY <1>1, <1>3, <2>1, <2>2, ReserveBalances DEF IInv, BooksInv
  <2>4. Used' = Used \cup {r}
    BY <2>1 DEF Used
  <2>5. IsFiniteSet(Used')
    BY <2>4, FS_AddElement DEF BooksInv
  <2>6. /\ me'[w].res = r /\ pc'[w] = "call"
        /\ \A v \in Workers : v # w => me'[v] = me[v] /\ pc'[v] = pc[v]
    BY <1>1, <1>3 DEF Goto, IInv, Types, Local
  <2>7. EmptyHanded'
    BY <2>6 DEF BooksInv, EmptyHanded
  <2>8. \A s \in Reservations : row'[s].status = "reserved" =>
           \/ row[s].status = "reserved" /\ \A v \in Workers : me[v].res = s => me'[v].res = s
           \/ \E v \in Workers : me'[v].res = s
    BY <1>1, <2>1, <2>6, BudgetAssumption
  <2>9. LostReservations' \subseteq LostReservations
    BY <2>8, NothingLost
  <2> QED
    BY <1>1, <2>3, <2>5, <2>7, <2>9, CountStays DEF IInv, BooksInv
<1> QED
  BY <1>2, <1>3 DEF Reserve

LEMMA CallBooks ==
  ASSUME IInv, BooksInv, NEW w \in Workers, Call(w)
  PROVE  BooksInv'
<1>1. /\ pc[w] = "call" /\ UNCHANGED <<reserved, spent, row, faults, crashes>>
      /\ \E p \in Holding : Goto(w, p)
  BY DEF Call, Holding
<1>2. pc'[w] \in Holding /\ \A v \in Workers : v # w => pc'[v] = pc[v]
  BY <1>1 DEF Goto, IInv, Types
<1>3. \A v \in Workers : me'[v].res = me[v].res
  <2>1. \/ UNCHANGED me
        \/ \E u : me' = [me EXCEPT ![w].done = @ + 1, ![w].used = @ + u]
    BY DEF Call
  <2>2. ASSUME NEW u, me' = [me EXCEPT ![w].done = @ + 1, ![w].used = @ + u], NEW v \in Workers
        PROVE  me'[v].res = me[v].res
    <3>1. me \in [Workers -> Local]
      BY DEF IInv, Types
    <3>2. CASE v = w
      BY <2>2, <3>1, <3>2 DEF Local
    <3> QED
      BY <2>2, <3>1, <3>2
  <2> QED
    BY <2>1, <2>2
<1>4. EmptyHanded'
  BY <1>2, <1>3 DEF BooksInv, EmptyHanded, Holding
<1> QED
  BY <1>1, <1>3, <1>4, LocalBooks

\* A settlement: its reservation is open no more, so nobody need hold it.
LEMMA SettlingBooks ==
  ASSUME IInv, BooksInv, NEW w \in Workers, pc[w] \in Holding,
         NEW status \in {"settled", "uncertain"}, NEW charge \in Nat,
         Close(me[w].res, status, charge),
         Leave(w) \/ (Goto(w, "settle_none") /\ UNCHANGED me),
         UNCHANGED <<faults, crashes>>
  PROVE  BooksInv'
<1> DEFINE r == me[w].res
<1>1. r \in Reservations /\ row[r].status # "none" /\ Types /\ RowInv
  BY DEF IInv, Workflow, Held, Holding
<1>2. /\ \A s \in Reservations : s # r => row'[s] = row[s]
      /\ row'[r].status \notin {"reserved", "none"}
  BY <1>1 DEF Close, Types, Row, Status
<1>3. BooksBalance'
  BY <1>1, CloseBalances DEF BooksInv
<1>4. Used' = Used
  BY <1>1, <1>2 DEF Used
<1>5. /\ \A v \in Workers : v # w => me'[v] = me[v] /\ pc'[v] = pc[v]
      /\ pc'[w] \in {"idle", "reserve"} => me'[w].res = NoReservation
  BY DEF Leave, Goto, Fresh, IInv, Types
<1>6. EmptyHanded'
  BY <1>5 DEF BooksInv, EmptyHanded
<1>7. \A s \in Reservations : row'[s].status = "reserved" =>
        row[s].status = "reserved" /\ \A v \in Workers : me[v].res = s => me'[v].res = s
  BY <1>2, <1>5
<1>8. LostReservations' \subseteq LostReservations
  BY <1>7, NothingLost
<1> QED
  BY <1>1, <1>3, <1>4, <1>6, <1>8, CountStays DEF BooksInv

LEMMA SettleStepsBooks ==
  ASSUME IInv, BooksInv, NEW w \in Workers,
         Settle(w) \/ SettleNone(w) \/ SettleUncertain(w)
  PROVE  BooksInv'
<1>1. /\ pc[w] \in Holding /\ me[w] \in Local /\ row[me[w].res].amount \in Nat
  <2>1. pc[w] \in Holding
    BY DEF Settle, SettleNone, SettleUncertain, Holding
  <2>2. me[w].res \in Reservations
    BY <2>1 DEF IInv, Workflow, Held
  <2> QED
    BY <2>1, <2>2 DEF IInv, Types, Row
<1>2. /\ Charge(me[w].used) \in Nat /\ Charge(me[w].used) + me[w].cap \in Nat
  BY <1>1, ChargeCovers DEF Local
<1> DEFINE least == Least(row[me[w].res].amount, Charge(me[w].used) + me[w].cap)
<1>3. least \in Nat
  BY <1>1, <1>2 DEF Least
<1>4. CASE Settle(w)
  BY <1>1, <1>2, <1>4, SettlingBooks DEF Settle
<1>5. CASE SettleNone(w)
  BY <1>1, <1>5, SettlingBooks DEF SettleNone
<1>6. CASE SettleUncertain(w)
  <2>1. /\ Close(me[w].res, "uncertain", least) /\ Leave(w) /\ UNCHANGED <<faults, crashes>>
    BY <1>6 DEF SettleUncertain
  <2> HIDE DEF least
  <2> QED
    BY <1>1, <1>3, <2>1, SettlingBooks
<1> QED
  BY <1>4, <1>5, <1>6

\* A store error loses at most the reservation of its worker.
LEMMA StoreFailsBooks ==
  ASSUME IInv, BooksInv, NEW w \in Workers, StoreFails(w)
  PROVE  BooksInv'
<1>1. /\ faults' = faults + 1 /\ UNCHANGED <<reserved, spent, row, crashes>>
      /\ Leave(w) \/ (Goto(w, "settle_none") /\ UNCHANGED me)
  BY DEF StoreFails
<1>2. /\ \A v \in Workers : v # w => me'[v] = me[v] /\ pc'[v] = pc[v]
      /\ pc'[w] \in {"idle", "reserve"} => me'[w].res = NoReservation
  BY <1>1 DEF Leave, Goto, Fresh, IInv, Types
<1>3. EmptyHanded'
  BY <1>2 DEF BooksInv, EmptyHanded
<1>4. Used' = Used /\ BooksBalance'
  BY <1>1, BalanceStays DEF Used, BooksInv
<1> DEFINE E == {me[w].res}
<1>5. LostReservations' \subseteq LostReservations \cup E
  BY <1>1, <1>2 DEF LostReservations
<1>6. IsFiniteSet(E) /\ Cardinality(E) = 1
  BY FS_Singleton
<1> HIDE DEF E
<1>7. /\ Cardinality(LostReservations') <= Cardinality(LostReservations) + 1
      /\ Cardinality(LostReservations) \in Nat /\ Cardinality(LostReservations') \in Nat
  BY <1>5, <1>6, LostAtMost DEF IInv, BooksInv
<1> DEFINE k == crashes * Cardinality(Workers)
<1>8. /\ Cardinality(LostReservations) <= faults + k /\ k \in Nat /\ faults \in Nat
      /\ crashes' * Cardinality(Workers) = k
  BY <1>1, BudgetAssumption, FS_CardinalityType DEF BooksInv, LossesAreFailures
<1> HIDE DEF k
<1>9. Cardinality(LostReservations') <= faults' + k
  BY <1>1, <1>7, <1>8
<1>10. LossesAreFailures'
  BY <1>8, <1>9 DEF LossesAreFailures
<1> QED
  BY <1>1, <1>3, <1>4, <1>10 DEF BooksInv

\* A crash loses at most one reservation of each worker.
LEMMA CrashBooks ==
  ASSUME IInv, BooksInv, Crash
  PROVE  BooksInv'
<1>1. /\ crashes' = crashes + 1 /\ UNCHANGED <<reserved, spent, row, faults>>
      /\ me' = [w \in Workers |-> Fresh]
  BY DEF Crash
<1>2. EmptyHanded'
  BY <1>1 DEF EmptyHanded, Fresh
<1>3. Used' = Used /\ BooksBalance'
  BY <1>1, BalanceStays DEF Used, BooksInv
<1> DEFINE E == {me[w].res : w \in Workers}
<1> DEFINE n == Cardinality(Workers)
<1>4. LostReservations' \subseteq LostReservations \cup E
  BY <1>1 DEF LostReservations
<1>5. IsFiniteSet(E) /\ Cardinality(E) <= n /\ n \in Nat
  BY HeldAtMost, BudgetAssumption, FS_CardinalityType
<1> HIDE DEF E
<1>6. /\ Cardinality(LostReservations') <= Cardinality(LostReservations) + Cardinality(E)
      /\ Cardinality(LostReservations) \in Nat /\ Cardinality(LostReservations') \in Nat
      /\ Cardinality(E) \in Nat
  BY <1>4, <1>5, LostAtMost DEF IInv, BooksInv
<1>7. Cardinality(LostReservations) <= faults + crashes * n
  BY DEF BooksInv, LossesAreFailures
<1> HIDE DEF n
<1>8. /\ crashes' * n = crashes * n + n /\ crashes * n \in Nat /\ faults \in Nat
  BY <1>1, <1>5 DEF BooksInv
<1> DEFINE k == crashes * n
<1> DEFINE l == crashes' * n
<1>9. l = k + n /\ k \in Nat /\ Cardinality(LostReservations) <= faults + k
  BY <1>7, <1>8
<1> HIDE DEF k, l
<1>10. Cardinality(LostReservations') <= faults' + l
  BY <1>1, <1>5, <1>6, <1>8, <1>9
<1>11. LossesAreFailures'
  BY <1>10 DEF LossesAreFailures, l, n
<1> QED
  BY <1>1, <1>2, <1>3, <1>11 DEF BooksInv

LEMMA BooksStep == IInv /\ BooksInv /\ [Next]_vars => BooksInv'
<1> SUFFICES ASSUME IInv, BooksInv, [Next]_vars PROVE BooksInv'
  OBVIOUS
<1>1. CASE UNCHANGED <<reserved, spent, row, pc, me, faults, crashes>>
  BY <1>1, LocalBooks DEF BooksInv, EmptyHanded
<1>2. ASSUME NEW w \in Workers,
             Plan(w) \/ Reserve(w) \/ Call(w) \/ Settle(w) \/ SettleNone(w)
               \/ SettleUncertain(w) \/ StoreFails(w)
      PROVE  BooksInv'
  BY <1>2, PlanBooks, ReserveBooks, CallBooks, SettleStepsBooks, StoreFailsBooks
<1> QED
  BY <1>1, <1>2, CrashBooks DEF Next, NextMonth, vars

LEMMA BooksInit == Init => BooksInv
<1> SUFFICES ASSUME Init PROVE BooksInv
  OBVIOUS
<1>1. Used = {} /\ LostReservations = {} /\ \A m : Open(m) = {} /\ Closed(m) = {}
  BY DEF Init, NoRow, Used, LostReservations, Open, Closed, RowsOf
<1>2. IsFiniteSet(Used) /\ Cardinality(LostReservations) = 0
  BY <1>1, FS_EmptySet
<1>3. BooksBalance
  BY <1>1, SumEmpty DEF Init, BooksBalance, Open, Closed
<1>4. EmptyHanded /\ faults = 0 /\ crashes = 0
  BY DEF Init, EmptyHanded, Fresh
<1>5. LossesAreFailures
  BY <1>2, <1>4, BudgetAssumption, FS_CardinalityType DEF LossesAreFailures
<1> QED
  BY <1>2, <1>3, <1>4, <1>5 DEF BooksInv

-----------------------------------------------------------------------------
(* Theorems *)

\* Each open reservation is one worker's own, for the worst case of its calls.
THEOREM BudgetInvariant == Spec => []IInv
<1> QED
  BY InitInv, StepInv, PTL DEF Spec

\* While the provider keeps to the caps, no month is ever overspent.
THEOREM NeverOverBudget == Spec => []WithinMonthly
<1>1. IInv => WithinMonthly
  BY DEF IInv
<1> QED
  BY <1>1, BudgetInvariant, PTL

\* The books cover what the provider billed.
THEOREM BooksCoverTheBill == Spec => []BillIsCovered
<1>1. IInv => BillIsCovered
  BY DEF IInv
<1> QED
  BY <1>1, BudgetInvariant, PTL

\* A closed reservation stays as it is: only Reserve and Close write a row, the
\* one a free row, the other an active one.
THEOREM ClosedStaysClosed == Spec => ClosedIsFinal
<1> DEFINE Final == \A r \in Reservations :
                      row[r].status \in {"settled", "uncertain"} => row'[r] = row[r]
<1>1. ASSUME IInv, [Next]_vars
      PROVE  Final
  <2>1. ASSUME NEW r \in Reservations, NEW status, NEW charge, Close(r, status, charge)
        PROVE  Final
    BY <1>1, <2>1 DEF Close, IInv, Types
  <2>2. CASE UNCHANGED row
    BY <2>2
  <2>3. ASSUME NEW w \in Workers, Reserve(w)
        PROVE  Final
    <3>1. CASE UNCHANGED row
      BY <3>1
    <3>2. ASSUME NEW r \in Reservations, row[r] = NoRow,
                 NEW x, row' = [row EXCEPT ![r] = x]
          PROVE  Final
      BY <1>1, <3>2 DEF NoRow, IInv, Types
    <3> QED
      BY <2>3, <3>1, <3>2 DEF Reserve
  <2>4. ASSUME NEW w \in Workers, Settle(w) \/ SettleNone(w) \/ SettleUncertain(w)
        PROVE  Final
    <3>1. me[w].res \in Reservations
      BY <1>1, <2>4 DEF IInv, Workflow, Held, Holding, Settle, SettleNone, SettleUncertain
    <3> QED
      BY <2>1, <2>4, <3>1 DEF Settle, SettleNone, SettleUncertain
  <2> QED
    BY <1>1, <2>2, <2>3, <2>4
    DEF Next, Plan, Call, StoreFails, Crash, NextMonth, vars
<1> QED
  BY <1>1, BudgetInvariant, PTL DEF Spec, ClosedIsFinal

\* The two totals of a month are the sums over its rows, and no reservation is lost
\* without a crash or a store error to account for it, for any number of workers,
\* reservations and months.
THEOREM BooksCanBeTrusted == Spec => []BooksAreHonest
<1>1. BooksInv => BooksAreHonest
  BY DEF BooksInv, BooksAreHonest
<1> QED
  BY <1>1, BooksInit, BooksStep, BudgetInvariant, PTL DEF Spec

\* The totals are sums, so they never go negative, and the CHECK constraints on them
\* never refuse a settlement.
THEOREM TypeCorrect == Spec => []TypeOK
<1>1. IInv /\ BooksInv => TypeOK
  <2> SUFFICES ASSUME IInv, BooksInv PROVE TypeOK
    OBVIOUS
  <2>1. ASSUME NEW m \in 1..Months
        PROVE  reserved[m] \in Nat
    <3> DEFINE X == Open(m)
    <3>1. reserved[m] = SumFunctionOnSet(Amounts, X)
      BY DEF BooksInv, BooksBalance, Open
    <3>2. IsFiniteSet(X) /\ X \subseteq Reservations
      BY FiniteRows DEF IInv, BooksInv, Open, RowsOf
    <3>3. \A r \in Reservations : Amounts[r] \in Nat
      BY FiniteRows DEF IInv, BooksInv
    <3> HIDE DEF X
    <3>4. \A r \in X : Amounts[r] \in Nat
      BY <3>2, <3>3
    <3>5. SumFunctionOnSet(Amounts, X) \in Nat
      BY ONLY <3>2, <3>4, SumNat
    <3> QED
      BY <3>1, <3>5
  <2>2. Types /\ faults \in Nat /\ crashes \in Nat
    BY DEF IInv, BooksInv
  <2> QED
    BY <2>1, <2>2 DEF Types, TypeOK, Holding
<1> QED
  BY <1>1, BooksInit, BooksStep, BudgetInvariant, PTL DEF Spec

-----------------------------------------------------------------------------
(* The external reviewer *)

CONSTANTS Reviews, Paths, Base, Stages, Preference, MakerModel, Risks, Limit, Nothing,
          MaxMoves, MaxStops
VARIABLES staged, policy, lock, owner, rows, torn, disk, review, validation, answers,
          overtaken, moved, stops
External == INSTANCE ExternalReview

Ends == {"idle", "UNVERIFIED", "UNAVAILABLE", "PASSED", "FINDINGS", "dead"}
Writing == {"prompt", "report", "metadata"}
Under == External!InLock \cup {"files", "diff", "tree", "head", "lock", "break", "call"} \cup Writing

\* A review under way is a record of these fields, whatever they hold.
Whole(x) ==
  x = [pc |-> x.pc, risk |-> x.risk, policy |-> x.policy, todo |-> x.todo, files |-> x.files,
       diff |-> x.diff, tree |-> x.tree, head |-> x.head, failed |-> x.failed, answer |-> x.answer]

\* An answer was given on a text, by a model that may serve the risk.
Answered(said, text, answer, risk) ==
  /\ \E a \in said : a.diff = text /\ a.of = answer
  /\ answer.status \in External!Verdicts
  /\ External!Eligible(answer.model, risk)

Reviewing(said, x) ==
  /\ x.pc \in Ends \cup Under
  /\ x.pc \in Under => Whole(x)
  /\ x.pc \in Writing => Answered(said, x.diff, x.answer, x.risk)
ReviewInv == review = [r \in Reviews |-> review[r]] /\ \A r \in Reviews : Reviewing(answers, review[r])

\* As long as no live holder has lost the lock, who is inside owns it; and then there is
\* room in the month for the row that comes next, if the month turns too.
LockInv ==
  /\ rows \in [1..Months -> Nat] /\ month \in 1..Months
  /\ \A m \in 1..Months : m > month => rows[m] = 0
  /\ ~overtaken =>
       /\ \A m \in 1..Months : rows[m] <= Limit
       /\ \A r \in Reviews : review[r].pc \in External!InLock => owner = r /\ lock # "free"
       /\ \A r \in Reviews : review[r].pc = "append" => rows[month] < Limit

\* What is on the disk as metadata was answered, for its risk.
DiskInv ==
  /\ disk = [t \in DOMAIN disk |-> disk[t]]
  /\ \A t \in DOMAIN disk :
       /\ disk[t] = [prompt |-> disk[t].prompt, report |-> disk[t].report,
                     metadata |-> disk[t].metadata]
       /\ disk[t].metadata # Nothing =>
            Answered(answers, disk[t].metadata.diff, disk[t].metadata.answer, disk[t].metadata.risk)

\* While the index stands still what a validation has compared stays compared.
Comparing == {"tree", "head", "files", "diff", "prompt", "report", "verdict", "valid"}
ValidInv ==
  /\ moved \in Nat /\ validation.pc \in {"idle", "refused"} \cup Comparing
  /\ validation.pc \in Comparing =>
       LET v == validation IN
       /\ v = [pc |-> v.pc, risk |-> v.risk, metadata |-> v.metadata, tree |-> v.tree, since |-> v.since]
       /\ Answered(answers, v.metadata.diff, v.metadata.answer, v.risk)
       /\ v.since \in Nat /\ v.since <= moved
       /\ v.since = moved /\ v.pc \in {"diff", "prompt", "report", "verdict", "valid"} =>
            v.metadata.files = External!Changed(staged)
       /\ v.since = moved /\ v.pc \in {"prompt", "report", "verdict", "valid"} =>
            v.metadata.diff = External!Diff(staged, v.metadata.files)

ExternalInv == ReviewInv /\ LockInv /\ DiskInv /\ ValidInv

LEMMA MoreSaid ==
  ASSUME NEW said, NEW more, said \subseteq more, NEW text, NEW answer, NEW risk,
         Answered(said, text, answer, risk)
  PROVE  Answered(more, text, answer, risk)
  BY DEF Answered

\* What other reviews, the disk and a validation hold is left alone by a step of one review.
LEMMA OneReview ==
  ASSUME ReviewInv, NEW r \in Reviews, NEW x, review' = [review EXCEPT ![r] = x],
         answers \subseteq answers', Reviewing(answers', x)
  PROVE  ReviewInv' /\ review'[r] = x /\ \A j \in Reviews \ {r} : review'[j] = review[j]
<1>1. /\ review' = [j \in Reviews |-> review'[j]] /\ review'[r] = x
      /\ \A j \in Reviews \ {r} : review'[j] = review[j]
  BY DEF ReviewInv
<1>2. \A j \in Reviews \ {r} : Reviewing(answers', review'[j])
  BY <1>1, MoreSaid DEF ReviewInv, Reviewing
<1> QED
  BY <1>1, <1>2 DEF ReviewInv

LEMMA DiskKept ==
  ASSUME DiskInv, UNCHANGED disk, answers \subseteq answers' PROVE DiskInv'
  BY MoreSaid DEF DiskInv

LEMMA ValidKept ==
  ASSUME ValidInv, UNCHANGED <<validation, moved, staged>>, answers \subseteq answers'
  PROVE  ValidInv'
  BY MoreSaid DEF ValidInv, External!Changed, External!Diff

LEMMA OutOfLock ==
  ASSUME ExternalInv, NEW r \in Reviews, NEW x, review' = [review EXCEPT ![r] = x],
         x.pc \notin External!InLock, UNCHANGED <<External!budget, month>>
  PROVE  LockInv'
<1>1. review'[r] = x /\ \A j \in Reviews \ {r} : review'[j] = review[j]
  BY DEF ExternalInv, ReviewInv
<1> QED
  BY <1>1 DEF ExternalInv, LockInv, External!budget, External!InLock

LEMMA Advances ==
  ASSUME NEW y, Whole(y), NEW next
  PROVE  LET x == [y EXCEPT !.pc = next] IN
           Whole(x) /\ x.pc = next /\ x.diff = y.diff /\ x.answer = y.answer /\ x.risk = y.risk
  BY DEF Whole

\* A provider that fails: the review ends, or waits for the lock again.
LEMMA FailedReviews ==
  ASSUME NEW r \in Reviews, ReviewInv, review[r].pc \in Under, NEW status, External!Failed(r, status)
  PROVE  \E x : /\ review' = [review EXCEPT ![r] = x] /\ Reviewing(answers', x)
                /\ x.pc \in Ends \cup {"lock"}
<1> DEFINE y == review[r]
           failed == y.failed \cup {status}
<1>1. Whole(y)
  BY DEF ReviewInv, Reviewing
<1>2. CASE External!End(r, IF "UNVERIFIED" \in failed THEN "UNVERIFIED" ELSE "UNAVAILABLE")
  <2> DEFINE x == [pc |-> IF "UNVERIFIED" \in failed THEN "UNVERIFIED" ELSE "UNAVAILABLE"]
  <2>1. review' = [review EXCEPT ![r] = x]
    BY <1>2 DEF External!End
  <2>2. x.pc \in Ends /\ x.pc \notin Under /\ x.pc \notin Writing
    BY DEF Ends, Under, Writing, External!InLock
  <2> HIDE DEF x
  <2> QED
    BY <2>1, <2>2 DEF Reviewing
<1>3. CASE review' = [review EXCEPT ![r].pc = "lock", ![r].todo = External!Tail(@), ![r].failed = failed]
  <2> DEFINE x == [y EXCEPT !.pc = "lock", !.todo = External!Tail(@), !.failed = failed]
  <2>1. review' = [review EXCEPT ![r] = x]
    BY <1>3
  <2>2. Whole(x) /\ x.pc = "lock"
    <3> DEFINE rest == External!Tail(y.todo)
    <3>1. x = [y EXCEPT !.pc = "lock", !.todo = rest, !.failed = failed]
      OBVIOUS
    <3> HIDE DEF rest, failed, y, x
    <3> QED
      BY <1>1, <3>1 DEF Whole
  <2> HIDE DEF x
  <2> QED
    BY <2>1, <2>2 DEF Reviewing, Under, Writing, External!InLock
<1> QED
  BY <1>2, <1>3 DEF External!Failed

LEMMA BuildingStep ==
  ASSUME ExternalInv, NEW r \in Reviews,
         \/ External!Start(r) \/ External!ReadFiles(r) \/ External!ReadDiff(r)
         \/ External!ReadTree(r) \/ External!ReadHead(r)
  PROVE  ExternalInv'
<1> DEFINE y == review[r]
<1>1. /\ y.pc \in {"idle", "files", "diff", "tree", "head"}
      /\ UNCHANGED <<External!world, External!budget, disk, validation, answers, moved>>
  BY DEF External!Start, External!ReadFiles, External!ReadDiff, External!ReadTree,
         External!ReadHead, External!Building, External!At
<1>2. y.pc # "idle" => Whole(y)
  BY <1>1 DEF ExternalInv, ReviewInv, Reviewing, Under
<1>3. ASSUME NEW x, review' = [review EXCEPT ![r] = x], Reviewing(answers, x),
             x.pc \notin External!InLock
      PROVE  ExternalInv'
  BY <1>1, <1>3, OneReview, OutOfLock, DiskKept, ValidKept DEF ExternalInv, External!world
<1>4. ASSUME NEW x, review' = [review EXCEPT ![r] = x], Whole(x),
             x.pc \in {"files", "diff", "tree", "head", "lock"}
      PROVE  ExternalInv'
  BY <1>3, <1>4 DEF Reviewing, Under, Writing, External!InLock
<1>5. ASSUME External!End(r, "UNVERIFIED") PROVE ExternalInv'
  BY <1>3, <1>5 DEF External!End, Reviewing, Ends, Under, Writing, External!InLock
<1>6. CASE External!Start(r)
  <2>1. PICK risk \in Risks :
          review' = [review EXCEPT ![r] =
            [pc |-> "files", risk |-> risk, policy |-> Nothing, todo |-> External!Route(risk),
             files |-> {}, diff |-> Nothing, tree |-> Nothing, head |-> Nothing, failed |-> {},
             answer |-> Nothing]]
    BY <1>6 DEF External!Start
  <2> QED
    BY <1>4, <2>1 DEF Whole
<1>7. CASE External!ReadFiles(r)
  <2>1. CASE External!End(r, "UNVERIFIED")
    BY <1>5, <2>1
  <2>2. CASE review' = [review EXCEPT ![r].pc = "diff", ![r].files = External!Changed(staged)]
    <3> DEFINE x == [y EXCEPT !.pc = "diff", !.files = External!Changed(staged)]
    <3>1. Whole(y)
      BY <1>2, <1>7 DEF External!ReadFiles, External!Building, External!At
    <3>2. Whole(x) /\ x.pc = "diff"
      <4>1. x = [y EXCEPT !.pc = "diff", !.files = External!Changed(staged)]
        OBVIOUS
      <4> HIDE DEF x, y
      <4> QED
        BY <3>1, <4>1 DEF Whole
    <3> QED
      BY <1>4, <2>2, <3>2
  <2> QED
    BY <1>7, <2>1, <2>2 DEF External!ReadFiles
<1>8. CASE External!ReadDiff(r)
  <2> DEFINE text == External!Diff(staged, review[r].files)
  <2>1. CASE External!End(r, "UNVERIFIED")
    BY <1>5, <2>1
  <2>2. CASE review' = [review EXCEPT ![r].pc = "tree", ![r].diff = text]
    <3> HIDE DEF text
    <3> DEFINE x == [y EXCEPT !.pc = "tree", !.diff = text]
    <3>1. Whole(y)
      BY <1>2, <1>8 DEF External!ReadDiff, External!Building, External!At
    <3>2. Whole(x) /\ x.pc = "tree"
      <4>1. x = [y EXCEPT !.pc = "tree", !.diff = text]
        OBVIOUS
      <4> HIDE DEF x, y
      <4> QED
        BY <3>1, <4>1 DEF Whole
    <3> QED
      BY <1>4, <2>2, <3>2
  <2> QED
    BY <1>8, <2>1, <2>2 DEF External!ReadDiff
<1>9. CASE External!ReadTree(r)
  <2> DEFINE x == [y EXCEPT !.pc = "head", !.tree = staged.tree]
  <2>1. Whole(y) /\ review' = [review EXCEPT ![r] = x]
    BY <1>2, <1>9 DEF External!ReadTree, External!Building, External!At
  <2>2. Whole(x) /\ x.pc = "head"
    <3>1. x = [y EXCEPT !.pc = "head", !.tree = staged.tree]
      OBVIOUS
    <3> HIDE DEF x, y
    <3> QED
      BY <2>1, <3>1 DEF Whole
  <2> QED
    BY <1>4, <2>1, <2>2
<1>10. CASE External!ReadHead(r)
  <2> DEFINE x == [y EXCEPT !.pc = "lock", !.head = staged.head]
  <2>1. Whole(y) /\ review' = [review EXCEPT ![r] = x]
    BY <1>2, <1>10 DEF External!ReadHead, External!Building, External!At
  <2>2. Whole(x) /\ x.pc = "lock"
    <3>1. x = [y EXCEPT !.pc = "lock", !.head = staged.head]
      OBVIOUS
    <3> HIDE DEF x, y
    <3> QED
      BY <2>1, <3>1 DEF Whole
  <2> QED
    BY <1>4, <2>1, <2>2
<1> QED
  BY <1>6, <1>7, <1>8, <1>9, <1>10

LEMMA LockingStep ==
  ASSUME External!ReviewerAssumption, ExternalInv, NEW r \in Reviews,
         \/ External!Lock(r) \/ External!SeesStale(r) \/ External!TimesOut(r) \/ External!Break(r)
         \/ External!Spend(r) \/ External!Reserve(r) \/ External!Unlock(r)
  PROVE  ExternalInv'
<1> DEFINE y == review[r]
<1>1. /\ y.pc \in {"lock", "break"} \cup External!InLock
      /\ UNCHANGED <<External!world, disk, validation, answers, moved>>
  BY DEF External!Lock, External!SeesStale, External!TimesOut, External!Break, External!Spend,
         External!Reserve, External!Unlock, External!Reserving, External!At, External!InLock
<1>2. Whole(y) /\ y.pc \in Under /\ UNCHANGED <<month, staged>>
  BY <1>1 DEF ExternalInv, ReviewInv, Reviewing, Under, External!world
<1>3. ASSUME NEW x, review' = [review EXCEPT ![r] = x], Reviewing(answers, x), LockInv'
      PROVE  ExternalInv'
  BY <1>1, <1>2, <1>3, OneReview, DiskKept, ValidKept DEF ExternalInv
<1>4. ASSUME NEW next \in {"lock", "break"} \cup External!InLock \cup {"call"},
             External!Goto(r, next)
      PROVE  /\ review'[r].pc = next
             /\ \A j \in Reviews \ {r} : review'[j] = review[j]
             /\ LockInv' => ExternalInv'
  <2> DEFINE x == [y EXCEPT !.pc = next]
  <2>1. Whole(x) /\ x.pc = next /\ review' = [review EXCEPT ![r] = x]
    BY <1>2, <1>4, Advances DEF External!Goto
  <2> HIDE DEF x
  <2>2. Reviewing(answers, x)
    BY <2>1 DEF Reviewing, Under, Writing, External!InLock
  <2> QED
    BY <1>1, <1>3, <2>1, <2>2, OneReview DEF ExternalInv
<1>5. LockInv /\ ReviewInv
  BY DEF ExternalInv
\* Removing the directory of a holder who lives is remembered.
<1>6. ASSUME External!Removed(r), UNCHANGED rows,
             \A j \in Reviews \ {r} : review'[j] = review[j],
             review'[r].pc \notin External!InLock
      PROVE  LockInv'
  <2> SUFFICES ASSUME ~overtaken', NEW j \in Reviews, review'[j].pc \in External!InLock PROVE FALSE
    BY <1>2, <1>5, <1>6 DEF LockInv, External!Removed, External!InLock
  <2>1. j # r /\ review[j].pc \in External!InLock /\ ~overtaken
    BY <1>6 DEF External!Removed
  <2>2. owner = j /\ owner \notin {r, Nothing}
    BY <1>5, <2>1 DEF LockInv, External!ReviewerAssumption
  <2> QED
    BY <1>6, <2>1, <2>2 DEF External!Removed
<1>a. ASSUME NEW next \in {"lock", "break"} \cup External!InLock \cup {"call"},
             External!Goto(r, next), UNCHANGED <<lock, owner, rows, overtaken>>,
             next \in External!InLock => y.pc \in External!InLock,
             next = "append" => rows[month] < Limit
      PROVE  ExternalInv'
  <2>1. /\ review'[r].pc = next
        /\ \A j \in Reviews \ {r} : review'[j] = review[j]
    BY <1>4, <1>a
  <2>2. LockInv'
    BY <1>2, <1>5, <1>a, <2>1 DEF LockInv
  <2> QED
    BY <1>4, <1>a, <2>2
<1>7. CASE External!Lock(r)
  <2>1. External!Goto(r, "spend") /\ lock = "free" /\ lock' = "held" /\ owner' = r
        /\ UNCHANGED <<rows, overtaken>>
    BY <1>7 DEF External!Lock, External!Reserving
  <2>2. LockInv'
    BY <1>2, <1>4, <1>5, <2>1 DEF LockInv, External!InLock
  <2> QED
    BY <1>4, <2>1, <2>2 DEF External!InLock
<1>8. CASE External!SeesStale(r)
  <2>1. External!Goto(r, "break") /\ UNCHANGED <<lock, owner, rows, overtaken>>
    BY <1>8 DEF External!SeesStale, External!budget
  <2> QED
    BY <1>a, <2>1 DEF External!InLock
<1>9. CASE External!TimesOut(r)
  <2>1. External!Failed(r, "UNAVAILABLE") /\ UNCHANGED External!budget
    BY <1>9 DEF External!TimesOut
  <2>2. PICK x : /\ review' = [review EXCEPT ![r] = x] /\ Reviewing(answers', x)
                 /\ x.pc \in Ends \cup {"lock"}
    BY <1>2, <1>5, <2>1, FailedReviews
  <2>3. LockInv'
    BY <1>2, <2>1, <2>2, OutOfLock DEF Ends, External!InLock
  <2> QED
    BY <1>1, <1>3, <2>2, <2>3
<1>10. CASE External!Break(r)
  <2>1. External!Goto(r, "lock") /\ External!Removed(r) /\ UNCHANGED rows
    BY <1>10 DEF External!Break
  <2>2. /\ review'[r].pc = "lock"
        /\ \A j \in Reviews \ {r} : review'[j] = review[j]
    BY <1>4, <2>1
  <2>3. LockInv'
    BY <1>6, <2>1, <2>2 DEF External!InLock
  <2> QED
    BY <1>4, <2>1, <2>3
<1>11. CASE External!Spend(r)
  <2>1. y.pc = "spend" /\ UNCHANGED <<lock, owner, rows, overtaken>>
    BY <1>11 DEF External!Spend, External!Reserving, External!At, External!budget
  <2>2. CASE External!Goto(r, "over budget")
    BY <1>a, <2>1, <2>2 DEF External!InLock
  <2>3. CASE External!Goto(r, "append") /\ ~(rows[month] >= Limit)
    <3>1. rows[month] < Limit
      BY <1>5, <2>3 DEF LockInv, External!ReviewerAssumption
    <3> QED
      BY <1>a, <2>1, <2>3, <3>1 DEF External!InLock
  <2> QED
    BY <1>11, <2>2, <2>3 DEF External!Spend
<1>12. CASE External!Reserve(r)
  <2>1. /\ y.pc = "append" /\ External!Goto(r, "unlock") /\ rows' = [rows EXCEPT ![month] = @ + 1]
        /\ UNCHANGED <<lock, owner, overtaken>>
    BY <1>12 DEF External!Reserve, External!Reserving, External!At
  <2>2. /\ rows' \in [1..Months -> Nat] /\ rows'[month] = rows[month] + 1
        /\ \A m \in 1..Months : m # month => rows'[m] = rows[m]
    BY <1>5, <2>1 DEF LockInv
  <2>a. /\ review'[r].pc = "unlock" /\ r \in Reviews
        /\ \A j \in Reviews \ {r} : review'[j] = review[j]
    BY <1>4, <2>1 DEF External!InLock
  <2>3. ASSUME ~overtaken
        PROVE  /\ \A m \in 1..Months : rows'[m] <= Limit
               /\ \A j \in Reviews : review'[j].pc # "append"
    <3>1. rows[month] < Limit /\ \A m \in 1..Months : rows[m] <= Limit
      BY <1>5, <2>1, <2>3 DEF LockInv
    <3>2. owner = r
      BY <1>1, <1>5, <2>1, <2>3 DEF LockInv, External!InLock
    <3>3. \A j \in Reviews \ {r} : review[j].pc \notin External!InLock
      BY <1>5, <2>3, <3>2 DEF LockInv
    <3>4. \A j \in Reviews : review'[j].pc # "append"
      BY <2>a, <3>3 DEF External!InLock
    <3>5. \A m \in 1..Months : rows'[m] <= Limit
      BY <1>5, <2>2, <3>1 DEF LockInv, External!ReviewerAssumption
    <3> QED
      BY <3>4, <3>5
  <2>b. \A m \in 1..Months : m > month => rows'[m] = 0
    BY <1>5, <2>2 DEF LockInv
  <2>c. ASSUME ~overtaken, NEW j \in Reviews, review'[j].pc \in External!InLock
        PROVE  owner = j /\ lock # "free"
    BY <1>1, <1>5, <2>1, <2>a, <2>c DEF LockInv, External!InLock
  <2>4. LockInv'
    BY <1>2, <1>5, <2>1, <2>2, <2>3, <2>b, <2>c DEF LockInv
  <2> QED
    BY <1>4, <2>1, <2>4 DEF External!InLock
<1>13. CASE External!Unlock(r)
  <2>1. External!Removed(r) /\ UNCHANGED rows
    BY <1>13 DEF External!Unlock
  <2>2. CASE External!Goto(r, "call")
    <3>1. /\ review'[r].pc = "call"
          /\ \A j \in Reviews \ {r} : review'[j] = review[j]
      BY <1>4, <2>2
    <3>2. LockInv'
      BY <1>6, <2>1, <3>1 DEF External!InLock
    <3> QED
      BY <1>4, <2>2, <3>2
  <2>3. CASE External!Failed(r, "UNVERIFIED")
    <3>1. PICK x : /\ review' = [review EXCEPT ![r] = x] /\ Reviewing(answers', x)
                   /\ x.pc \in Ends \cup {"lock"}
      BY <1>2, <1>5, <2>3, FailedReviews
    <3>2. LockInv'
      BY <1>1, <1>5, <1>6, <2>1, <3>1, OneReview DEF Ends, External!InLock
    <3> QED
      BY <1>1, <1>3, <3>1, <3>2
  <2> QED
    BY <1>13, <2>2, <2>3 DEF External!Unlock
<1> QED
  BY <1>7, <1>8, <1>9, <1>10, <1>11, <1>12, <1>13

LEMMA CallStep ==
  ASSUME ExternalInv, NEW r \in Reviews, External!Call(r)
  PROVE  ExternalInv'
<1> DEFINE y == review[r]
<1>1. /\ y.pc = "call"
      /\ UNCHANGED <<month, staged, External!budget, disk, validation, moved>>
  BY DEF External!Call, External!At, External!world
<1>2. y.pc \in Under /\ Whole(y) /\ ReviewInv
  BY <1>1 DEF ExternalInv, ReviewInv, Reviewing, Under
<1>3. ASSUME NEW x, review' = [review EXCEPT ![r] = x], answers \subseteq answers',
             Reviewing(answers', x), x.pc \notin External!InLock
      PROVE  ExternalInv'
  BY <1>1, <1>3, OneReview, OutOfLock, DiskKept, ValidKept DEF ExternalInv
<1>4. ASSUME NEW status, External!Failed(r, status), UNCHANGED answers PROVE ExternalInv'
  <2>1. PICK x : /\ review' = [review EXCEPT ![r] = x] /\ Reviewing(answers', x)
                 /\ x.pc \in Ends \cup {"lock"}
    BY <1>2, <1>4, FailedReviews
  <2> QED
    BY <1>3, <1>4, <2>1 DEF Ends, External!InLock
<1>5. ASSUME NEW answer \in External!Answers(r), External!Eligible(answer.model, y.risk),
             review' = [review EXCEPT ![r].pc = "prompt", ![r].answer = answer],
             answers' = answers \cup {[diff |-> y.diff, of |-> answer]}
      PROVE  ExternalInv'
  <2> DEFINE x == [y EXCEPT !.pc = "prompt", !.answer = answer]
  <2>1. review' = [review EXCEPT ![r] = x]
    BY <1>5
  <2>2. Whole(x) /\ x.pc = "prompt" /\ x.answer = answer /\ x.diff = y.diff /\ x.risk = y.risk
    <3>1. x = [y EXCEPT !.pc = "prompt", !.answer = answer]
      OBVIOUS
    <3> HIDE DEF x, y
    <3> QED
      BY <1>2, <3>1 DEF Whole
  <2>3. answer.status \in External!Verdicts
    BY <1>5 DEF External!Answers
  <2>4. \E a \in answers' : a.diff = y.diff /\ a.of = answer
    <3> DEFINE said == [diff |-> y.diff, of |-> answer]
    <3>1. said.diff = y.diff /\ said.of = answer
      OBVIOUS
    <3> QED
      BY <1>5, <3>1
  <2> HIDE DEF x
  <2>5. Reviewing(answers', x)
    BY <1>5, <2>2, <2>3, <2>4 DEF Reviewing, Answered, Under, Writing
  <2> QED
    BY <1>3, <1>5, <2>1, <2>2, <2>5 DEF External!InLock
<1> QED
  BY <1>4, <1>5 DEF External!Call

LEMMA WritingStep ==
  ASSUME ExternalInv, NEW r \in Reviews,
         External!WritePrompt(r) \/ External!WriteReport(r) \/ External!WriteMetadata(r)
  PROVE  ExternalInv'
<1> DEFINE y == review[r]
<1>1. /\ y.pc \in Writing
      /\ UNCHANGED <<month, staged, External!budget, validation, answers, moved>>
  BY DEF External!WritePrompt, External!WriteReport, External!WriteMetadata, External!Writing,
         External!At, External!world, Writing
<1>2. Whole(y) /\ Answered(answers, y.diff, y.answer, y.risk)
  BY <1>1 DEF ExternalInv, ReviewInv, Reviewing, Under
<1>3. ASSUME NEW x, review' = [review EXCEPT ![r] = x], Reviewing(answers, x),
             x.pc \notin External!InLock, DiskInv'
      PROVE  ExternalInv'
  BY <1>1, <1>3, OneReview, OutOfLock, ValidKept DEF ExternalInv
<1>4. ASSUME NEW x, review' = [review EXCEPT ![r] = x], Whole(x), x.pc \in Writing,
             x.diff = y.diff, x.answer = y.answer, x.risk = y.risk, DiskInv'
      PROVE  ExternalInv'
  BY <1>2, <1>3, <1>4 DEF Reviewing, Under, Writing, External!InLock
\* What is written beside the metadata leaves the metadata alone.
<1>5. ASSUME NEW u, NEW v,
             \/ disk' = [disk EXCEPT ![u].prompt = v]
             \/ disk' = [disk EXCEPT ![u].report = v]
      PROVE  DiskInv'
  <2>1. disk' = [t \in DOMAIN disk |-> disk'[t]] /\ DOMAIN disk' = DOMAIN disk
    BY <1>5 DEF ExternalInv, DiskInv
  <2>2. ASSUME NEW t \in DOMAIN disk
        PROVE  /\ disk'[t].metadata = disk[t].metadata
               /\ disk'[t] = [prompt |-> disk'[t].prompt, report |-> disk'[t].report,
                              metadata |-> disk'[t].metadata]
    <3> DEFINE d == disk[t]
    <3>1. d = [prompt |-> d.prompt, report |-> d.report, metadata |-> d.metadata]
      BY DEF ExternalInv, DiskInv
    <3>2. disk'[t] = d \/ disk'[t] = [d EXCEPT !.prompt = v] \/ disk'[t] = [d EXCEPT !.report = v]
      BY <1>5 DEF ExternalInv, DiskInv
    <3> DEFINE e == disk'[t]
    <3>3. e = d \/ e = [d EXCEPT !.prompt = v] \/ e = [d EXCEPT !.report = v]
      BY <3>2
    <3> HIDE DEF d, e
    <3>4. e.metadata = d.metadata /\ e = [prompt |-> e.prompt, report |-> e.report, metadata |-> e.metadata]
      BY <3>1, <3>3
    <3> QED
      BY <3>4 DEF d, e
  <2> QED
    BY <1>1, <2>1, <2>2 DEF ExternalInv, DiskInv
<1>6. CASE External!WritePrompt(r)
  <2> DEFINE x == [y EXCEPT !.pc = "report", !.policy = policy]
  <2>1. review' = [review EXCEPT ![r] = x] /\ DiskInv'
    BY <1>5, <1>6 DEF External!WritePrompt
  <2>2. Whole(x) /\ x.pc = "report" /\ x.diff = y.diff /\ x.answer = y.answer /\ x.risk = y.risk
    <3>1. x = [y EXCEPT !.pc = "report", !.policy = policy]
      OBVIOUS
    <3> HIDE DEF x, y
    <3> QED
      BY <1>2, <3>1 DEF Whole
  <2> QED
    BY <1>4, <2>1, <2>2 DEF Writing
<1>7. CASE External!WriteReport(r)
  <2> DEFINE x == [y EXCEPT !.pc = "metadata"]
  <2>1. review' = [review EXCEPT ![r] = x] /\ DiskInv'
    BY <1>5, <1>7 DEF External!WriteReport, External!Goto
  <2>2. Whole(x) /\ x.pc = "metadata" /\ x.diff = y.diff /\ x.answer = y.answer /\ x.risk = y.risk
    BY <1>2, Advances
  <2> QED
    BY <1>4, <2>1, <2>2 DEF Writing
<1>8. CASE External!WriteMetadata(r)
  <2> DEFINE new == External!Metadata(r)
  <2>1. new.diff = y.diff /\ new.answer = y.answer /\ new.risk = y.risk
    BY DEF External!Metadata
  <2> HIDE DEF new
  <2>2. disk' = [disk EXCEPT ![review[r].tree].metadata = new] /\ External!End(r, y.answer.status)
    BY <1>8 DEF External!WriteMetadata, new
  <2>3. DiskInv'
    <3>1. disk' = [t \in DOMAIN disk |-> disk'[t]] /\ DOMAIN disk' = DOMAIN disk
      BY <2>2 DEF ExternalInv, DiskInv
    <3>2. ASSUME NEW t \in DOMAIN disk
          PROVE  /\ disk'[t].metadata \in {disk[t].metadata, new}
                 /\ disk'[t] = [prompt |-> disk'[t].prompt, report |-> disk'[t].report,
                                metadata |-> disk'[t].metadata]
      <4> DEFINE d == disk[t]
      <4>1. d = [prompt |-> d.prompt, report |-> d.report, metadata |-> d.metadata]
        BY DEF ExternalInv, DiskInv
      <4> DEFINE e == disk'[t]
      <4>2. e = d \/ e = [d EXCEPT !.metadata = new]
        BY <2>2 DEF ExternalInv, DiskInv
      <4> HIDE DEF d, e
      <4>3. /\ e.metadata \in {d.metadata, new}
            /\ e = [prompt |-> e.prompt, report |-> e.report, metadata |-> e.metadata]
        BY <4>1, <4>2
      <4> QED
        BY <4>3 DEF d, e
    <3> QED
      BY <1>1, <1>2, <2>1, <3>1, <3>2 DEF ExternalInv, DiskInv
  <2>4. review' = [review EXCEPT ![r] = [pc |-> y.answer.status]] /\ y.answer.status \in {"PASSED", "FINDINGS"}
    BY <1>2, <2>2 DEF External!End, Answered, External!Verdicts
  <2> DEFINE x == [pc |-> y.answer.status]
  <2>5. x.pc \in {"PASSED", "FINDINGS"} /\ review' = [review EXCEPT ![r] = x]
    BY <2>4
  <2> HIDE DEF x
  <2>6. Reviewing(answers, x) /\ x.pc \notin External!InLock
    BY <2>5 DEF Reviewing, Ends, Under, Writing, External!InLock
  <2> QED
    BY <1>3, <2>3, <2>5, <2>6
<1> QED
  BY <1>6, <1>7, <1>8

LEMMA DeathStep ==
  ASSUME ExternalInv, NEW r \in Reviews, External!Dies(r)
  PROVE  ExternalInv'
<1> DEFINE x == [pc |-> "dead"]
<1>1. /\ review' = [review EXCEPT ![r] = x]
      /\ UNCHANGED <<month, staged, lock, owner, rows, overtaken, disk, validation, answers, moved>>
  BY DEF External!Dies, External!End, External!world
<1>2. x.pc = "dead"
  OBVIOUS
<1> HIDE DEF x
<1>3. Reviewing(answers, x)
  BY <1>2 DEF Reviewing, Ends, Under, Writing, External!InLock
<1>4. ReviewInv' /\ review'[r] = x /\ \A j \in Reviews \ {r} : review'[j] = review[j]
  BY <1>1, <1>3, OneReview DEF ExternalInv
<1>5. LockInv'
  BY <1>1, <1>2, <1>4 DEF ExternalInv, LockInv, External!InLock
<1> QED
  BY <1>1, <1>4, <1>5, DiskKept, ValidKept DEF ExternalInv

LEMMA WorldStep ==
  ASSUME External!ReviewerAssumption, ExternalInv,
         External!StageMoves \/ External!MonthTurns \/ External!LockAges
  PROVE  ExternalInv'
<1>1. UNCHANGED <<disk, review, validation, answers, rows, owner, overtaken>>
  BY DEF External!StageMoves, External!MonthTurns, External!LockAges, External!budget
<1>2. ReviewInv' /\ DiskInv'
  BY <1>1 DEF ExternalInv, ReviewInv, DiskInv
<1>3. CASE External!StageMoves
  <2>1. moved' = moved + 1 /\ UNCHANGED <<month, lock>>
    BY <1>3 DEF External!StageMoves, External!budget
  <2>2. LockInv'
    BY <1>1, <2>1 DEF ExternalInv, LockInv
  <2>3. ValidInv'
    BY <1>1, <2>1 DEF ExternalInv, ValidInv
  <2> QED
    BY <1>2, <2>2, <2>3 DEF ExternalInv
<1>4. CASE External!MonthTurns
  <2>1. month' = month + 1 /\ month < Months /\ UNCHANGED <<moved, staged, lock>>
    BY <1>4 DEF External!MonthTurns, External!budget
  <2>2. rows'[month'] = 0 /\ month' \in 1..Months
    BY <1>1, <2>1 DEF ExternalInv, LockInv, External!ReviewerAssumption
  <2>3. LockInv'
    <3>1. ASSUME ~overtaken, NEW j \in Reviews, review[j].pc = "append" PROVE 0 < Limit
      BY <3>1 DEF ExternalInv, LockInv, External!ReviewerAssumption
    <3> QED
      BY <1>1, <2>1, <2>2, <3>1 DEF ExternalInv, LockInv
  <2>4. ValidInv'
    BY <1>1, <2>1, ValidKept DEF ExternalInv
  <2> QED
    BY <1>2, <2>3, <2>4 DEF ExternalInv
<1>5. CASE External!LockAges
  <2>1. lock' = "old" /\ UNCHANGED <<month, moved, staged>>
    BY <1>5 DEF External!LockAges, External!world
  <2>2. LockInv'
    BY <1>1, <2>1 DEF ExternalInv, LockInv
  <2>3. ValidInv'
    BY <1>1, <2>1, ValidKept DEF ExternalInv
  <2> QED
    BY <1>2, <2>2, <2>3 DEF ExternalInv
<1> QED
  BY <1>3, <1>4, <1>5

LEMMA ValidationStep ==
  ASSUME ExternalInv, External!ValidateStep
  PROVE  ExternalInv'
<1>1. UNCHANGED <<staged, month, lock, owner, rows, overtaken, disk, review, answers, moved>>
  BY DEF External!ValidateStep, External!ReadMetadata, External!CompareTree, External!CompareHead,
         External!CompareFiles, External!CompareDiff, External!ComparePrompt,
         External!CompareReport, External!CompareVerdict, External!ValidationAt, External!world,
         External!budget
<1>2. ASSUME ValidInv' PROVE ExternalInv'
  BY <1>1, <1>2 DEF ExternalInv, ReviewInv, LockInv, DiskInv
<1>3. ASSUME validation' = [pc |-> "refused"] PROVE ExternalInv'
  <2>1. validation'.pc = "refused"
    BY <1>3
  <2> QED
    BY <1>1, <1>2, <2>1 DEF ExternalInv, ValidInv, Comparing
<1>4. CASE External!ReadMetadata
  <2>1. PICK t \in DOMAIN disk, risk \in Risks :
          /\ disk[t].metadata # Nothing
          /\ validation' =
               IF disk[t].metadata.risk = risk /\ disk[t].metadata.policy = policy
               THEN [pc |-> "tree", risk |-> risk, metadata |-> disk[t].metadata,
                     tree |-> Nothing, since |-> moved]
               ELSE [pc |-> "refused"]
    BY <1>4 DEF External!ReadMetadata
  <2>2. CASE disk[t].metadata.risk = risk /\ disk[t].metadata.policy = policy
    <3>1. Answered(answers, disk[t].metadata.diff, disk[t].metadata.answer, risk)
      BY <2>1, <2>2 DEF ExternalInv, DiskInv
    <3> DEFINE kept == disk[t].metadata
    <3>2. validation' = [pc |-> "tree", risk |-> risk, metadata |-> kept, tree |-> Nothing, since |-> moved]
      BY <2>1, <2>2
    <3>3. Answered(answers, kept.diff, kept.answer, risk)
      BY <3>1
    <3> HIDE DEF kept
    <3> QED
      BY <1>1, <1>2, <3>2, <3>3 DEF ExternalInv, ValidInv, Comparing
  <2> QED
    BY <1>3, <2>1, <2>2
<1> DEFINE v == validation
\* A comparison that succeeds changes nothing but the step and the tree.
<1>5. ASSUME v.pc \in Comparing, NEW w, NEW next \in Comparing \ {"tree"}, NEW tree,
             w = [v EXCEPT !.pc = next] \/ w = [v EXCEPT !.pc = next, !.tree = tree]
      PROVE  /\ w = [pc |-> w.pc, risk |-> w.risk, metadata |-> w.metadata, tree |-> w.tree,
                     since |-> w.since]
             /\ w.pc = next /\ w.risk = v.risk /\ w.metadata = v.metadata /\ w.since = v.since
  <2>1. v = [pc |-> v.pc, risk |-> v.risk, metadata |-> v.metadata, tree |-> v.tree, since |-> v.since]
    BY <1>5 DEF ExternalInv, ValidInv
  <2> HIDE DEF v
  <2> QED
    BY <1>5, <2>1
<1>6. ASSUME v.pc \in Comparing, NEW next \in Comparing \ {"tree"}, NEW tree,
             \/ validation' = [v EXCEPT !.pc = next]
             \/ validation' = [v EXCEPT !.pc = next, !.tree = tree],
             next \in {"diff", "prompt", "report", "verdict", "valid"} =>
               \/ v.pc \in {"diff", "prompt", "report", "verdict", "valid"}
               \/ v.metadata.files = External!Changed(staged),
             next \in {"prompt", "report", "verdict", "valid"} =>
               \/ v.pc \in {"prompt", "report", "verdict", "valid"}
               \/ v.metadata.diff = External!Diff(staged, v.metadata.files)
      PROVE  ExternalInv'
  <2> DEFINE w == validation'
  <2>1. /\ w = [pc |-> w.pc, risk |-> w.risk, metadata |-> w.metadata, tree |-> w.tree,
                since |-> w.since]
        /\ w.pc = next /\ w.risk = v.risk /\ w.metadata = v.metadata /\ w.since = v.since
    <3> HIDE DEF w
    <3>1. w = [v EXCEPT !.pc = next] \/ w = [v EXCEPT !.pc = next, !.tree = tree]
      BY <1>6 DEF w
    <3>2. v.pc \in Comparing /\ next \in Comparing \ {"tree"}
      BY <1>6
    <3> HIDE DEF v
    <3> QED
      BY ONLY <1>5, <3>1, <3>2
  <2>2. External!Changed(staged)' = External!Changed(staged)
    BY <1>1 DEF External!Changed
  <2>3. External!Diff(staged, v.metadata.files)' = External!Diff(staged', validation'.metadata.files)
    OBVIOUS
  <2>4. External!Diff(staged', validation'.metadata.files) = External!Diff(staged, v.metadata.files)
    BY <1>1, <2>1
  <2>5. ValidInv'
    BY <1>1, <1>6, <2>1, <2>2, <2>4 DEF ExternalInv, ValidInv, Comparing
  <2> QED
    BY <1>2, <2>5
<1>7. CASE External!CompareTree
  <2>1. v.pc = "tree"
    BY <1>7 DEF External!CompareTree, External!ValidationAt
  <2> QED
    BY <1>3, <1>6, <1>7, <2>1 DEF External!CompareTree, Comparing
<1>8. CASE External!CompareHead
  BY <1>3, <1>6, <1>8 DEF External!CompareHead, External!ValidationAt, External!Require, Comparing
<1>9. CASE External!CompareFiles
  BY <1>3, <1>6, <1>9
     DEF External!CompareFiles, External!ValidationAt, External!Require, External!Meta, Comparing
<1>10. CASE External!CompareDiff
  BY <1>3, <1>6, <1>10
     DEF External!CompareDiff, External!ValidationAt, External!Require, External!Meta, Comparing
<1>11. CASE External!ComparePrompt
  BY <1>3, <1>6, <1>11 DEF External!ComparePrompt, External!ValidationAt, External!Require, Comparing
<1>12. CASE External!CompareReport
  BY <1>3, <1>6, <1>12 DEF External!CompareReport, External!ValidationAt, External!Require, Comparing
<1>13. CASE External!CompareVerdict
  BY <1>3, <1>6, <1>13 DEF External!CompareVerdict, External!ValidationAt, External!Require, Comparing
<1> QED
  BY <1>4, <1>7, <1>8, <1>9, <1>10, <1>11, <1>12, <1>13 DEF External!ValidateStep

\* For any number of reviews, months and stages: the reservations of a month stay within its
\* limit unless a live process lost its lock, and metadata validated while the index stood
\* still is a verdict, by a model that may serve the risk, on exactly what is staged.
THEOREM ReviewsAreBound ==
  ASSUME External!ReviewerAssumption PROVE External!Spec => []External!ReviewIsBound
<1>1. External!Init => ExternalInv
  <2> SUFFICES ASSUME External!Init PROVE ExternalInv
    OBVIOUS
  <2>1. ReviewInv
    <3>1. /\ review = [r \in Reviews |-> External!Idle] /\ External!Idle.pc = "idle"
      BY DEF External!Init, External!Idle
    <3> QED
      BY <3>1 DEF ReviewInv, Reviewing, Ends, Under, Writing, External!InLock
  <2>2. LockInv
    <3>1. /\ month = 1 /\ month \in 1..Months
          /\ rows \in [1..Months -> Nat] /\ \A m \in 1..Months : rows[m] = 0
      BY DEF External!Init, External!ReviewerAssumption
    <3>2. \A r \in Reviews : review[r].pc = "idle"
      BY DEF External!Init, External!Idle
    <3>3. \A m \in 1..Months : rows[m] <= Limit
      BY <3>1 DEF External!ReviewerAssumption
    <3>4. \A r \in Reviews : review[r].pc \notin External!InLock /\ review[r].pc # "append"
      BY <3>2 DEF External!InLock
    <3> QED
      BY <3>1, <3>3, <3>4 DEF LockInv
  <2>3. DiskInv
    <3> DEFINE D == {s.tree : s \in Stages}
    <3>1. disk = [t \in D |-> External!Empty]
      BY DEF External!Init
    <3> HIDE DEF D
    <3> QED
      BY <3>1 DEF DiskInv, External!Empty
  <2>4. ValidInv
    BY DEF External!Init, External!Idle, ValidInv, Comparing
  <2> QED
    BY <2>1, <2>2, <2>3, <2>4 DEF ExternalInv
<1>2. ExternalInv /\ [External!Next]_(External!vars) => ExternalInv'
  <2>1. ExternalInv /\ UNCHANGED External!vars => ExternalInv'
    BY DEF External!vars, ExternalInv, ReviewInv, LockInv, DiskInv, ValidInv, External!Changed,
           External!Diff
  <2>2. ExternalInv /\ External!Next => ExternalInv'
    BY BuildingStep, LockingStep, CallStep, WritingStep, DeathStep, ValidationStep, WorldStep
       DEF External!Next, External!ReviewStep
  <2> QED
    BY <2>1, <2>2
<1>3. ExternalInv => External!ReviewIsBound
  <2> SUFFICES ASSUME ExternalInv PROVE External!ReviewIsBound
    OBVIOUS
  <2>1. External!BudgetHolds
    BY DEF ExternalInv, LockInv, External!BudgetHolds
  <2>2. External!EvidenceIsCurrent
    <3> SUFFICES ASSUME validation.pc = "valid", validation.since = moved
                 PROVE  \E a \in answers :
                          /\ a.diff = External!Diff(staged, External!Changed(staged))
                          /\ a.of.status = External!Meta.answer.status
                          /\ External!Eligible(a.of.model, validation.risk)
      BY DEF External!EvidenceIsCurrent
    <3>1. /\ Answered(answers, validation.metadata.diff, validation.metadata.answer, validation.risk)
          /\ validation.metadata.diff = External!Diff(staged, External!Changed(staged))
      BY DEF ExternalInv, ValidInv, Comparing
    <3> QED
      BY <3>1 DEF Answered, External!Meta
  <2> QED
    BY <2>1, <2>2 DEF External!ReviewIsBound
<1> QED
  BY <1>1, <1>2, <1>3, PTL DEF External!Spec
=============================================================================
