------------------------------- MODULE Budget -------------------------------
(***************************************************************************)
(* The monthly budget of paid reviews.                                     *)
(*                                                                         *)
(* Before its first call to the provider a worker reserves the worst case  *)
(* of the whole review; afterwards it settles the reservation at the       *)
(* reported usage, or at a cautious charge when some call's outcome is     *)
(* unknown.  The store holds one row per reservation and two totals per    *)
(* month; each store method is one transaction, a call to the provider     *)
(* lies between two of them, and the process may die at any point.         *)
(*                                                                         *)
(* Amounts are whole microdollars.  Usage is counted in fractions of a     *)
(* microdollar, Unit to one, as token prices are.                          *)
(***************************************************************************)
EXTENDS Integers, FiniteSets, Functions

CONSTANTS
  Workers,       \* threads that run process with a paid review requested
  Reservations,  \* reservation ids (random, never reused)
  Months,        \* bound: last calendar month of a behaviour
  Monthly,       \* budget.monthlyMicrousd
  DirectCap,     \* budget.reservationMicrousd, the cap of a single-call review
  CallCap,       \* the reviewer's hierarchicalCallReservationMicrousd
  MaxCalls,      \* budget.maxHierarchicalProviderCalls
  Unit,          \* usage units in a microdollar
  MaxUsage,      \* bound: units a single call costs
  Capped,        \* months in which no call costs more than its cap (prices change)
  NoReservation,
  MaxFaults,     \* bound: store errors in a behaviour
  MaxCrashes     \* bound: process crashes

ASSUME BudgetAssumption ==
  /\ Months \in Nat \ {0} /\ Monthly \in Nat
  /\ IsFiniteSet(Workers)
  /\ DirectCap \in Nat \ {0} /\ CallCap \in Nat \ {0}
  /\ MaxCalls \in Nat \ {0} /\ Unit \in Nat \ {0} /\ MaxUsage \in Nat
  /\ Capped \subseteq 1..Months
  /\ NoReservation \notin Reservations
  /\ MaxFaults \in Nat /\ MaxCrashes \in Nat

VARIABLES
  month,     \* the calendar month
  reserved,  \* budget_v2.reserved_microusd of each month
  spent,     \* budget_v2.spent_microusd of each month
  row,       \* reservations_v2
  pc, me,    \* each worker's next step and locals
  billed,    \* the provider's side: units billed under each reservation
  faults, crashes

vars == <<month, reserved, spent, row, pc, me, billed, faults, crashes>>

NoRow == [status |-> "none", month |-> 0, amount |-> 0, observed |-> 0]
\* Locals: the reservation, the month read for it, the planned calls, the cap
\* of each, how many have been answered, and the usage they reported.
Fresh == [res |-> NoReservation, month |-> 0, calls |-> 0, cap |-> 0,
          done |-> 0, used |-> 0]

Init ==
  /\ month = 1
  /\ reserved = [m \in 1..Months |-> 0]
  /\ spent = [m \in 1..Months |-> 0]
  /\ row = [r \in Reservations |-> NoRow]
  /\ pc = [w \in Workers |-> "idle"]
  /\ me = [w \in Workers |-> Fresh]
  /\ billed = [r \in Reservations |-> 0]
  /\ faults = 0 /\ crashes = 0

Goto(w, p) == pc' = [pc EXCEPT ![w] = p]
Leave(w) == Goto(w, "idle") /\ me' = [me EXCEPT ![w] = Fresh]

\* Decimal usage to integer microdollars, ROUND_CEILING.
Charge(u) == (u + Unit - 1) \div Unit

AmountOf(m) == m.calls * m.cap

-----------------------------------------------------------------------------
(* reserve *)

\* reservation_microusd: the worst case of n calls: a direct review, or two or
\* more units and the integration call.
Plan(w) ==
  /\ pc[w] = "idle"
  /\ \E n \in {1} \cup 3..MaxCalls :
       LET c == IF n = 1 THEN DirectCap ELSE CallCap IN
       /\ n = 1 \/ n * c <= Monthly
       /\ me' = [me EXCEPT ![w] = [res |-> NoReservation, month |-> month,
                                    calls |-> n, cap |-> c, done |-> 0, used |-> 0]]
  /\ Goto(w, "reserve")
  /\ UNCHANGED <<month, reserved, spent, row, billed, faults, crashes>>

\* Mutant: active reservations do not count against the month.
ReserveOverSpent(w) ==
  LET m == me[w].month
      a == AmountOf(me[w]) IN
  /\ pc[w] = "reserve"
  /\ IF spent[m] + a <= Monthly
     THEN \E r \in Reservations :
            /\ row[r] = NoRow
            /\ row' = [row EXCEPT ![r] =
                 [status |-> "reserved", month |-> m, amount |-> a, observed |-> 0]]
            /\ reserved' = [reserved EXCEPT ![m] = @ + a]
            /\ me' = [me EXCEPT ![w].res = r]
            /\ Goto(w, "call")
     ELSE Leave(w) /\ UNCHANGED <<row, reserved>>
  /\ UNCHANGED <<month, spent, billed, faults, crashes>>

\* reserve, one transaction, on the month read before it waited for the lock.
Reserve(w) ==
  LET m == me[w].month
      a == AmountOf(me[w]) IN
  /\ pc[w] = "reserve"
  /\ IF reserved[m] + spent[m] + a <= Monthly
     THEN \E r \in Reservations :
            /\ row[r] = NoRow
            /\ row' = [row EXCEPT ![r] =
                 [status |-> "reserved", month |-> m, amount |-> a, observed |-> 0]]
            /\ reserved' = [reserved EXCEPT ![m] = @ + a]
            /\ me' = [me EXCEPT ![w].res = r]
            /\ Goto(w, "call")
     ELSE Leave(w) /\ UNCHANGED <<row, reserved>>
  /\ UNCHANGED <<month, spent, billed, faults, crashes>>

-----------------------------------------------------------------------------
(* ReviewerAdapter.review *)

Costs(m) == {u \in 0..MaxUsage : m.month \in Capped => u <= m.cap * Unit}

\* Mutant: a refused request leaves process with its reservation open.
CallForgets(w) ==
  LET m == me[w] IN
  /\ pc[w] = "call"
  /\ \/ \E u \in Costs(m) :
          /\ billed' = [billed EXCEPT ![m.res] = @ + u]
          /\ me' = [me EXCEPT ![w].done = @ + 1, ![w].used = @ + u]
          /\ Goto(w, IF m.done + 1 = m.calls THEN "settle" ELSE "call")
     \/ \E u \in Costs(m) :
          /\ billed' = [billed EXCEPT ![m.res] = @ + u]
          /\ Goto(w, "settle_uncertain") /\ UNCHANGED me
     \/ Leave(w) /\ UNCHANGED billed
  /\ UNCHANGED <<month, reserved, spent, row, faults, crashes>>

\* _dispatch of the next unit, or of the integration call: a valid answer with
\* its usage; an ambiguous one, billed or not (ReviewerRunError); or a request
\* that is refused before it is sent (any other BrokerError).
Call(w) ==
  LET m == me[w] IN
  /\ pc[w] = "call"
  /\ \/ \E u \in Costs(m) :
          /\ billed' = [billed EXCEPT ![m.res] = @ + u]
          /\ me' = [me EXCEPT ![w].done = @ + 1, ![w].used = @ + u]
          /\ Goto(w, IF m.done + 1 = m.calls THEN "settle" ELSE "call")
     \/ \E u \in Costs(m) :
          /\ billed' = [billed EXCEPT ![m.res] = @ + u]
          /\ Goto(w, "settle_uncertain") /\ UNCHANGED me
     \/ Goto(w, "settle_none") /\ UNCHANGED <<billed, me>>
  /\ UNCHANGED <<month, reserved, spent, row, faults, crashes>>

-----------------------------------------------------------------------------
(* settle and settle_uncertain *)

\* Mutant: the settlement is booked on the current month.
CloseThisMonth(r, status, charge) ==
  LET x == row[r] IN
  IF x.status = "reserved"
  THEN /\ row' = [row EXCEPT ![r].status = status, ![r].observed = charge]
       /\ reserved' = [reserved EXCEPT ![month] = @ - x.amount]
       /\ spent' = [spent EXCEPT ![month] = @ + charge]
  ELSE UNCHANGED <<row, reserved, spent>>

\* Mutant: a reservation that is closed already is closed again.
CloseAgain(r, status, charge) ==
  LET x == row[r] IN
  /\ row' = [row EXCEPT ![r].status = status, ![r].observed = charge]
  /\ reserved' = [reserved EXCEPT ![x.month] = @ - x.amount]
  /\ spent' = [spent EXCEPT ![x.month] = @ + charge]

\* The transaction both share: the reservation must be active.
Close(r, status, charge) ==
  LET x == row[r] IN
  IF x.status = "reserved"
  THEN /\ row' = [row EXCEPT ![r].status = status, ![r].observed = charge]
       /\ reserved' = [reserved EXCEPT ![x.month] = @ - x.amount]
       /\ spent' = [spent EXCEPT ![x.month] = @ + charge]
  ELSE UNCHANGED <<row, reserved, spent>>

Least(a, b) == IF a <= b THEN a ELSE b

\* Mutant: a cost above the reservation is cut down to it.
SettleCapped(w) ==
  LET m == me[w]
      c == Charge(m.used) IN
  /\ pc[w] = "settle"
  /\ Close(m.res, "settled", Least(row[m.res].amount, c))
  /\ IF c > row[m.res].amount THEN Goto(w, "settle_none") /\ UNCHANGED me ELSE Leave(w)
  /\ UNCHANGED <<month, billed, faults, crashes>>

\* settle(usage).  A cost above the reservation is recorded and then raised,
\* and the handler's settle(None) finds the reservation closed.
Settle(w) ==
  LET m == me[w]
      c == Charge(m.used) IN
  /\ pc[w] = "settle"
  /\ Close(m.res, "settled", c)
  /\ IF c > row[m.res].amount THEN Goto(w, "settle_none") /\ UNCHANGED me ELSE Leave(w)
  /\ UNCHANGED <<month, billed, faults, crashes>>

\* settle(None): the whole reservation is charged.
SettleNone(w) ==
  /\ pc[w] = "settle_none"
  /\ Close(me[w].res, "uncertain", row[me[w].res].amount)
  /\ Leave(w)
  /\ UNCHANGED <<month, billed, faults, crashes>>

\* Mutant: the ambiguous call is taken to be free.
SettleObserved(w) ==
  LET m == me[w]
      c == Charge(m.used) IN
  /\ pc[w] = "settle_uncertain"
  /\ Close(m.res, "uncertain", Least(row[m.res].amount, c))
  /\ Leave(w)
  /\ UNCHANGED <<month, billed, faults, crashes>>

\* settle_uncertain: the usage observed so far and one ambiguous call's cap, up
\* to the reservation.
SettleUncertain(w) ==
  LET m == me[w]
      c == Charge(m.used) + m.cap IN
  /\ pc[w] = "settle_uncertain"
  /\ Close(m.res, "uncertain", Least(row[m.res].amount, c))
  /\ Leave(w)
  /\ UNCHANGED <<month, billed, faults, crashes>>

\* sqlite3.Error is no BrokerError.  From settle(usage) it leads to settle(None);
\* from the handlers' own settlements it leaves process, and the reservation
\* stays active.
StoreFails(w) ==
  /\ faults < MaxFaults
  /\ faults' = faults + 1
  /\ \/ pc[w] = "settle" /\ Goto(w, "settle_none") /\ UNCHANGED me
     \/ pc[w] \in {"reserve", "settle_none", "settle_uncertain"} /\ Leave(w)
  /\ UNCHANGED <<month, reserved, spent, row, billed, crashes>>

Crash ==
  /\ crashes < MaxCrashes
  /\ crashes' = crashes + 1
  /\ pc' = [w \in Workers |-> "idle"]
  /\ me' = [w \in Workers |-> Fresh]
  /\ UNCHANGED <<month, reserved, spent, row, billed, faults>>

NextMonth ==
  /\ month < Months
  /\ month' = month + 1
  /\ UNCHANGED <<reserved, spent, row, pc, me, billed, faults, crashes>>

Next ==
  \/ \E w \in Workers :
       \/ Plan(w) \/ Reserve(w) \/ Call(w)
       \/ Settle(w) \/ SettleNone(w) \/ SettleUncertain(w) \/ StoreFails(w)
  \/ Crash \/ NextMonth

Spec == Init /\ [][Next]_vars

-----------------------------------------------------------------------------
(* Properties *)

Status == {"none", "reserved", "settled", "uncertain"}
Row == [status : Status, month : 0..Months, amount : Nat, observed : Nat]
Local == [res : Reservations \cup {NoReservation}, month : 0..Months,
          calls : Nat, cap : Nat, done : Nat, used : Nat]

\* Every variable has its type; the totals of a month never go negative, so that
\* their CHECK constraints never refuse a settlement.
TypeOK ==
  /\ month \in Nat
  /\ reserved \in [1..Months -> Nat]
  /\ spent \in [1..Months -> Nat]
  /\ row \in [Reservations -> Row]
  /\ pc \in [Workers -> {"idle", "reserve", "call", "settle", "settle_none",
                         "settle_uncertain"}]
  /\ me \in [Workers -> Local]
  /\ billed \in [Reservations -> Nat]
  /\ faults \in Nat /\ crashes \in Nat

Amounts == [r \in Reservations |-> row[r].amount]
Charges == [r \in Reservations |-> row[r].observed]
RowsOf(m, s) == {r \in Reservations : row[r].month = m /\ row[r].status \in s}

\* The two totals of a month are always the sums over its rows, so that
\* budget_v2 can be audited against reservations_v2, across month ends and
\* crashes.
BooksBalance ==
  \A m \in 1..Months :
    /\ reserved[m] = SumFunctionOnSet(Amounts, RowsOf(m, {"reserved"}))
    /\ spent[m] = SumFunctionOnSet(Charges, RowsOf(m, {"settled", "uncertain"}))

\* In a month in which the provider keeps to the caps the spending, worst cases of
\* the reviews in flight included, stays within the budget: neither rounding, nor
\* an ambiguous call, nor two workers, nor a crash, nor an overspent month next to
\* it can exceed it.
WithinMonthly ==
  \A m \in Capped : reserved[m] + spent[m] <= Monthly

\* The books never show less than the provider billed: a closed reservation
\* covers every unit, an answered or ambiguous call's alike.
BillIsCovered ==
  \A r \in Reservations :
    row[r].status = "settled" \/ (row[r].month \in Capped /\ row[r].status = "uncertain")
      => billed[r] <= row[r].observed * Unit

\* A closed reservation is final, whatever handler settles it once more.
ClosedIsFinal ==
  [][\A r \in Reservations :
       row[r].status \in {"settled", "uncertain"} => row'[r] = row[r]]_vars

\* A reservation is lost (active for good, its month's budget with it) only by
\* a crash or a store error, one for each worker or error.
LostReservations ==
  {r \in Reservations : row[r].status = "reserved" /\ \A w \in Workers : me[w].res # r}
LossesAreFailures ==
  Cardinality(LostReservations) <= faults + crashes * Cardinality(Workers)

\* The books can be trusted: the totals are the sums, and nothing is lost without a
\* failure that explains it.
BooksAreHonest == BooksBalance /\ LossesAreFailures
=============================================================================
