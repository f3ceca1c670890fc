---------------------------- MODULE BalanceLedger ---------------------------
(***************************************************************************)
(* BalanceService.Deduct and Refund on the rows of one user in table       *)
(* leave_balances.  Nothing in src/ calls them yet: whoever will is        *)
(* modelled as calls that run side by side, each of them one Deduct and,   *)
(* when that succeeded, at most one Refund.  Deduct reads the row of the   *)
(* compensatory days in one statement and charges a row in the next one.   *)
(***************************************************************************)
EXTENDS Naturals, FiniteSets, Functions

CONSTANTS
  Calls,
  TypeOf, Days,   \* the leave type and the working days of each call
  Rows,           \* the rows there are: pairs of a year and a leave type
  Total, Used,    \* total_days, and used_days at the start, of each row
  Years           \* bound: the years the clock goes through

ASSUME BalanceAssumption ==
  /\ Days \in [Calls -> Nat \ {0}]
  /\ Total \in [Rows -> Nat] /\ Used \in [Rows -> Nat]
  /\ \A r \in Rows : Used[r] <= Total[r]
  /\ Years \subseteq Nat /\ Years # {}

VARIABLES
  used,        \* used_days
  year,        \* time.Now().Year()
  pc,          \* how far each call has got
  paying,      \* the row Deduct charges
  repaid,      \* the row Refund credits
  overtaken    \* ghost: calls whose row was charged since they chose it

vars == <<used, year, pc, paying, repaid, overtaken>>

Types == {TypeOf[c] : c \in Calls} \cup {"compensatory"}
Keys == Years \X Types

TypeOK ==
  /\ used \in [Rows -> Nat]
  /\ year \in Years
  /\ pc \in [Calls -> {"idle", "waived", "chosen", "charged", "unheard",
                       "refused", "failed", "refunded"}]
  /\ paying \in [Calls -> Keys]
  /\ repaid \in [Calls -> Keys]
  /\ overtaken \subseteq Calls

\* The row of a leave type in the current year.
Now(type) == <<year, type>>

Init ==
  /\ used = Used
  /\ year \in Years /\ \A y \in Years : year <= y
  /\ pc = [c \in Calls |-> "idle"]
  /\ paying = [c \in Calls |-> Now(TypeOf[c])]
  /\ repaid = paying
  /\ overtaken = {}

Goto(c, next) == pc' = [pc EXCEPT ![c] = next]

\* A row that is not there has nothing to give.
Holds(r, days) == r \in Rows /\ used[r] + days <= Total[r]

\* Mutant: what has been used is not subtracted.
EnoughInTotal(c) ==
  Now("compensatory") \in Rows /\ Total[Now("compensatory")] >= Days[c]

EnoughCompensatory(c) == Holds(Now("compensatory"), Days[c])

Waive(c) ==
  /\ pc[c] = "idle" /\ TypeOf[c] = "compassion"
  /\ Goto(c, "waived")
  /\ UNCHANGED <<used, year, paying, repaid, overtaken>>

\* The year is read once; an annual leave prefers compensatory days, if they are
\* enough for all of it.  When the query fails, it falls back without a word.
Choose(c) ==
  /\ pc[c] = "idle" /\ TypeOf[c] # "compassion"
  /\ \E type \in {TypeOf[c], "compensatory"} :
       /\ type # TypeOf[c] => TypeOf[c] = "annual" /\ EnoughCompensatory(c)
       /\ paying' = [paying EXCEPT ![c] = Now(type)]
  /\ Goto(c, "chosen")
  /\ UNCHANGED <<used, year, repaid, overtaken>>

Charge(c) ==
  /\ used' = [used EXCEPT ![paying[c]] = @ + Days[c]]
  /\ overtaken' = overtaken \cup {k \in Calls \ {c} : /\ pc[k] = "chosen"
                                                      /\ paying[k] = paying[c]}
  /\ UNCHANGED <<year, paying, repaid>>

\* Mutant: the UPDATE has no condition on what is left.
DeductUnconditional(c) ==
  /\ pc[c] = "chosen" /\ paying[c] \in Rows
  /\ Charge(c)
  /\ Goto(c, "charged")

\* The UPDATE is conditional on what is left when it is executed.
Deduct(c) ==
  /\ pc[c] = "chosen" /\ Holds(paying[c], Days[c])
  /\ Charge(c)
  /\ Goto(c, "charged")

\* The row is charged, but its caller gets an error.
DeductUnheard(c) ==
  /\ pc[c] = "chosen" /\ Holds(paying[c], Days[c])
  /\ Charge(c)
  /\ Goto(c, "unheard")

\* Mutant: the number of rows affected is not looked at.
DeductUnchecked(c) ==
  /\ pc[c] = "chosen" /\ ~ Holds(paying[c], Days[c])
  /\ Goto(c, "charged")
  /\ UNCHANGED <<used, year, paying, repaid, overtaken>>

\* No row was affected.
DeductRefused(c) ==
  /\ pc[c] = "chosen" /\ ~ Holds(paying[c], Days[c])
  /\ Goto(c, "refused")
  /\ UNCHANGED <<used, year, paying, repaid, overtaken>>

DeductFails(c) ==
  /\ pc[c] = "chosen"
  /\ Goto(c, "failed")
  /\ UNCHANGED <<used, year, paying, repaid, overtaken>>

\* Mutant: without GREATEST.
CreditedBelow(r, days) == used[r] - days

\* GREATEST(0, used - days).
Credited(r, days) == IF used[r] > days THEN used[r] - days ELSE 0

\* The row of the leave's own type, in the year that is now.  A row that is not
\* there is no error.
Refund(c) ==
  /\ pc[c] = "charged"
  /\ repaid' = [repaid EXCEPT ![c] = Now(TypeOf[c])]
  /\ used' = [r \in Rows |-> IF r = Now(TypeOf[c])
                             THEN Credited(r, Days[c]) ELSE used[r]]
  /\ Goto(c, "refunded")
  /\ UNCHANGED <<year, paying, overtaken>>

NewYear ==
  /\ year + 1 \in Years
  /\ year' = year + 1
  /\ UNCHANGED <<used, pc, paying, repaid, overtaken>>

Next ==
  \/ \E c \in Calls : \/ Waive(c) \/ Choose(c) \/ Refund(c)
                      \/ Deduct(c) \/ DeductUnheard(c)
                      \/ DeductRefused(c) \/ DeductFails(c)
  \/ NewYear

Spec == Init /\ [][Next]_vars

-----------------------------------------------------------------------------
\* No row is charged beyond its total, although two calls may both have found
\* the same compensatory days before either takes them.
NoOverdraw == \A r \in Rows : used[r] <= Total[r]

\* The calls a row has paid for and not been paid back.  A refund that credits
\* another row than the one that paid has gone astray: compensatory days spent
\* on an annual leave, and days spent before the new year.
Astray == {c \in Calls : pc[c] = "refunded" /\ repaid[c] # paying[c]}
Owed(r) ==
  {c \in Calls : /\ pc[c] \in {"charged", "unheard"} \/ c \in Astray
                 /\ paying[c] = r}
Sum(calls) == SumFunctionOnSet(Days, calls)

Balanced(r) ==
  /\ used[r] <= Used[r] + Sum(Owed(r))
  /\ (\A c \in Astray : repaid[c] # r) => used[r] = Used[r] + Sum(Owed(r))

\* The books balance: a row's used days are those of the calls it paid for and
\* was not paid back, neither more nor fewer, however calls overlap; only a
\* refund that has gone astray makes them fewer.
BooksBalance == \A r \in Rows : Balanced(r)

\* Preferring compensatory days costs nobody a leave they have the annual days
\* for, unless another call overtook the caller between its two statements.
RefusedForCause ==
  [][\A c \in Calls :
       pc[c] # "refused" /\ pc'[c] = "refused"
         => c \in overtaken \/ paying[c][2] = TypeOf[c]]_vars

\* Why: the compensatory days a call has chosen are there until it is overtaken.
ChosenHolds ==
  \A c \in Calls :
    pc[c] = "chosen" /\ paying[c][2] # TypeOf[c]
      => c \in overtaken \/ Holds(paying[c], Days[c])

\* Calls without end may come, but only so many have begun.
Begun == {c \in Calls : pc[c] # "idle"}

IInv == /\ TypeOK /\ NoOverdraw /\ ChosenHolds
        /\ BooksBalance /\ IsFiniteSet(Begun)

=============================================================================
