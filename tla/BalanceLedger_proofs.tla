------------------------- MODULE BalanceLedger_proofs ------------------------
(***************************************************************************)
(* Proofs that no row of leave_balances is overdrawn, that its used days   *)
(* are those of the calls it paid for, and that preferring compensatory    *)
(* days refuses nobody without cause, for any calls and rows.              *)
(***************************************************************************)
EXTENDS BalanceLedger, SumLemmas

USE BalanceAssumption

\* First the invariant about rows and choices, then the one about the books.
RowsInv == TypeOK /\ NoOverdraw /\ ChosenHolds

LEMMA InitRows == Init => RowsInv
<1>1. ASSUME Init PROVE TypeOK
  <2>1. paying \in [Calls -> Keys]
    BY <1>1 DEF Init, Now, Keys, Types
  <2>2. QED
    BY <1>1, <2>1 DEF Init, TypeOK
<1>2. ASSUME Init PROVE NoOverdraw /\ ChosenHolds
  BY <1>2 DEF Init, NoOverdraw, ChosenHolds
<1>3. QED
  BY <1>1, <1>2 DEF RowsInv

-----------------------------------------------------------------------------
\* A step that leaves the rows alone, and chooses only what is there.
LEMMA ChoosingStep ==
  ASSUME RowsInv, NEW c \in Calls, Waive(c) \/ Choose(c)
  PROVE  RowsInv'
<1> USE DEF RowsInv
<1>1. TypeOK'
  <2>1. CASE Waive(c)
    BY <2>1 DEF Waive, Goto, TypeOK
  <2>2. CASE Choose(c)
    <3>1. \A type \in {TypeOf[c], "compensatory"} : Now(type) \in Keys
      BY DEF Now, Keys, Types, TypeOK
    <3>2. QED
      BY <2>2, <3>1 DEF Choose, Goto, TypeOK
  <2>3. QED
    BY <2>1, <2>2
<1>2. NoOverdraw'
  BY DEF Waive, Choose, NoOverdraw
<1>3. ChosenHolds'
  <2>1. CASE Waive(c)
    BY <2>1 DEF Waive, Goto, ChosenHolds, Holds, TypeOK
  <2>2. CASE Choose(c)
    <3> SUFFICES ASSUME NEW k \in Calls, pc'[k] = "chosen",
                        paying'[k][2] # TypeOf[k]
                 PROVE  k \in overtaken \/ Holds(paying'[k], Days[k])
      BY <2>2 DEF Choose, ChosenHolds, Holds
    <3>1. CASE k = c
      <4>1. PICK type \in {TypeOf[c], "compensatory"} :
              /\ type # TypeOf[c] => EnoughCompensatory(c)
              /\ paying' = [paying EXCEPT ![c] = Now(type)]
        BY <2>2 DEF Choose
      <4>2. paying'[c] = Now(type) /\ type # TypeOf[c]
        BY <3>1, <4>1 DEF TypeOK, Now
      <4>3. QED
        BY <3>1, <4>1, <4>2 DEF EnoughCompensatory
    <3>2. CASE k # c
      BY <2>2, <3>2 DEF Choose, Goto, ChosenHolds, TypeOK
    <3>3. QED
      BY <3>1, <3>2
  <2>3. QED
    BY <2>1, <2>2
<1>4. QED
  BY <1>1, <1>2, <1>3

\* A row is charged only with what it holds, and whoever chose it is overtaken.
LEMMA ChargingStep ==
  ASSUME RowsInv, NEW c \in Calls, Deduct(c) \/ DeductUnheard(c)
  PROVE  RowsInv'
<1> USE DEF RowsInv
<1>1. /\ pc[c] = "chosen" /\ Holds(paying[c], Days[c]) /\ Charge(c)
      /\ \E next \in {"charged", "unheard"} : Goto(c, next)
  BY DEF Deduct, DeductUnheard
<1>2. paying[c] \in Rows /\ used[paying[c]] + Days[c] <= Total[paying[c]]
  BY <1>1 DEF Holds
<1>3. TypeOK'
  BY <1>1, <1>2 DEF Charge, Goto, TypeOK
<1>4. NoOverdraw'
  BY <1>1, <1>2 DEF Charge, NoOverdraw, TypeOK
<1>5. ChosenHolds'
  <2> SUFFICES ASSUME NEW k \in Calls, pc'[k] = "chosen",
                      paying[k][2] # TypeOf[k], k \notin overtaken'
               PROVE  Holds(paying[k], Days[k])'
    BY <1>1 DEF ChosenHolds, Charge, Holds
  <2>1. k # c /\ pc[k] = "chosen"
    BY <1>1 DEF Goto, TypeOK
  <2>2. Holds(paying[k], Days[k])
    BY <1>1, <2>1 DEF ChosenHolds, Charge
  <2>3. paying[k] # paying[c]
    BY <1>1, <2>1 DEF Charge
  <2>4. used'[paying[k]] = used[paying[k]]
    BY <1>1, <2>2, <2>3 DEF Charge, Holds, TypeOK
  <2>5. QED
    BY <1>1, <2>2, <2>4 DEF Holds, Charge
<1>6. QED
  BY <1>3, <1>4, <1>5

\* What is paid back never exceeds what was used.
LEMMA RefundStep ==
  ASSUME RowsInv, NEW c \in Calls, Refund(c)
  PROVE  RowsInv'
<1> USE DEF RowsInv
<1>1. \A r \in Rows : Credited(r, Days[c]) \in Nat /\ Credited(r, Days[c]) <= used[r]
  BY DEF Credited, TypeOK
<1>2. /\ used' \in [Rows -> Nat]
      /\ \A r \in Rows : used'[r] <= used[r]
  BY <1>1 DEF Refund, TypeOK
<1>3. TypeOK'
  <2>1. Now(TypeOf[c]) \in Keys
    BY DEF Now, Keys, Types, TypeOK
  <2>2. QED
    BY <1>2, <2>1 DEF Refund, Goto, TypeOK
<1>4. NoOverdraw'
  BY <1>2 DEF NoOverdraw, TypeOK
<1>5. ChosenHolds'
  BY <1>2 DEF Refund, Goto, ChosenHolds, Holds, TypeOK
<1>6. QED
  BY <1>3, <1>4, <1>5

LEMMA NextRows == RowsInv /\ [Next]_vars => RowsInv'
<1> SUFFICES ASSUME RowsInv, [Next]_vars PROVE RowsInv'
  OBVIOUS
<1>1. ASSUME NEW c \in Calls, DeductRefused(c) \/ DeductFails(c) PROVE RowsInv'
  BY <1>1 DEF DeductRefused, DeductFails, Goto, RowsInv, TypeOK, NoOverdraw,
              ChosenHolds, Holds
<1>2. CASE NewYear
  BY <1>2 DEF NewYear, RowsInv, TypeOK, NoOverdraw, ChosenHolds, Holds
<1>3. CASE UNCHANGED vars
  BY <1>3 DEF vars, RowsInv, TypeOK, NoOverdraw, ChosenHolds, Holds
<1>4. QED
  BY <1>1, <1>2, <1>3, ChoosingStep, ChargingStep, RefundStep DEF Next

-----------------------------------------------------------------------------
\* The books: the calls a row is owed for are among those that have begun, so
\* that there are only so many of them.

LEMMA OwedFinite ==
  ASSUME IsFiniteSet(Begun), NEW r
  PROVE  Owed(r) \in SUBSET Calls /\ IsFiniteSet(Owed(r))
<1>1. Owed(r) \in SUBSET Begun
  BY DEF Owed, Begun, Astray
<1> QED
  BY <1>1, FS_Subset DEF Begun

LEMMA InitBooks == Init => BooksBalance /\ IsFiniteSet(Begun)
<1> SUFFICES ASSUME Init PROVE BooksBalance /\ IsFiniteSet(Begun)
  OBVIOUS
<1>1. Begun = {}
  BY DEF Init, Begun
<1>2. ASSUME NEW r \in Rows PROVE Balanced(r)
  <2>1. Owed(r) = {}
    BY DEF Init, Owed, Astray
  <2>2. Sum(Owed(r)) = 0
    BY <2>1, SumOfNone DEF Sum
  <2>3. used[r] = Used[r] /\ Used[r] \in Nat
    BY DEF Init
  <2> QED
    BY <2>2, <2>3 DEF Balanced
<1> QED
  BY <1>1, <1>2, FS_EmptySet DEF BooksBalance

\* A step is one call's, so that one more has begun at most.
LEMMA BegunFinite ==
  ASSUME RowsInv, IsFiniteSet(Begun), [Next]_vars
  PROVE  IsFiniteSet(Begun')
<1>1. ASSUME NEW c \in Calls, NEW next, Goto(c, next) PROVE IsFiniteSet(Begun')
  <2>1. Begun' \in SUBSET (Begun \cup {c})
    BY <1>1 DEF Goto, Begun, RowsInv, TypeOK
  <2>2. IsFiniteSet(Begun \cup {c})
    BY FS_AddElement
  <2> QED
    BY <2>1, <2>2, FS_Subset
<1>2. ASSUME UNCHANGED pc PROVE IsFiniteSet(Begun')
  BY <1>2 DEF Begun
<1> QED
  BY <1>1, <1>2 DEF Next, vars, Waive, Choose, Deduct, DeductUnheard,
                    DeductRefused, DeductFails, Refund, NewYear

\* What the steps that touch no row leave as it is.
LEMMA BooksUntouched ==
  ASSUME BooksBalance, used' = used, Astray' = Astray, UNCHANGED repaid,
         \A r \in Rows : Owed(r)' = Owed(r)
  PROVE  BooksBalance'
<1> SUFFICES ASSUME NEW r \in Rows PROVE Balanced(r)'
  BY DEF BooksBalance
<1>1. Sum(Owed(r))' = Sum(Owed(r))
  BY DEF Sum
<1>2. Balanced(r)
  BY DEF BooksBalance
<1> QED
  BY <1>1, <1>2 DEF Balanced

LEMMA QuietStepBooks ==
  ASSUME RowsInv, BooksBalance, NEW c \in Calls,
         \/ Waive(c) \/ Choose(c) \/ DeductRefused(c) \/ DeductFails(c)
  PROVE  BooksBalance'
<1>1. /\ pc[c] \in {"idle", "chosen"} /\ UNCHANGED <<used, repaid>>
      /\ \E next \in {"waived", "chosen", "refused", "failed"} : Goto(c, next)
      /\ \A k \in Calls \ {c} : paying'[k] = paying[k]
  BY DEF Waive, Choose, DeductRefused, DeductFails, RowsInv, TypeOK
<1>2. pc = [k \in Calls |-> pc[k]]
  BY DEF RowsInv, TypeOK
<1>3. Astray' = Astray
  BY <1>1, <1>2 DEF Astray, Goto
<1>4. ASSUME NEW r \in Rows PROVE Owed(r)' = Owed(r)
  BY <1>1, <1>2, <1>3 DEF Owed, Astray, Goto
<1> QED
  BY <1>1, <1>3, <1>4, BooksUntouched

\* A row that is charged is owed for one more call.
LEMMA ChargingBooks ==
  ASSUME RowsInv, BooksBalance, IsFiniteSet(Begun),
         NEW c \in Calls, Deduct(c) \/ DeductUnheard(c)
  PROVE  BooksBalance'
<1>1. /\ pc[c] = "chosen" /\ Holds(paying[c], Days[c]) /\ Charge(c)
      /\ \E next \in {"charged", "unheard"} : Goto(c, next)
  BY DEF Deduct, DeductUnheard
<1>2. /\ pc = [k \in Calls |-> pc[k]] /\ used \in [Rows -> Nat]
      /\ UNCHANGED <<paying, repaid>>
  BY <1>1 DEF Charge, RowsInv, TypeOK
<1>3. Astray' = Astray
  BY <1>1, <1>2 DEF Astray, Goto
<1> SUFFICES ASSUME NEW r \in Rows PROVE Balanced(r)'
  BY DEF BooksBalance
<1>4. Balanced(r) /\ Sum(Owed(r)) \in Nat /\ Used[r] \in Nat
  BY OwedFinite, SumIsNat DEF BooksBalance, Sum
<1>5. CASE r = paying[c]
  <2>1. Owed(r)' = Owed(r) \cup {c} /\ c \notin Owed(r)
    BY <1>1, <1>2, <1>3, <1>5 DEF Owed, Astray, Goto
  <2>2. Sum(Owed(r))' = Sum(Owed(r)) + Days[c]
    BY <2>1, OwedFinite, SumWith DEF Sum
  <2>3. used'[r] = used[r] + Days[c] /\ used[r] \in Nat /\ Days[c] \in Nat
    BY <1>1, <1>2, <1>5 DEF Charge
  <2> QED
    BY <1>2, <1>3, <1>4, <2>2, <2>3 DEF Balanced
<1>6. CASE r # paying[c]
  <2>1. Owed(r)' = Owed(r)
    BY <1>1, <1>2, <1>3, <1>6 DEF Owed, Astray, Goto
  <2>2. Sum(Owed(r))' = Sum(Owed(r))
    BY <2>1 DEF Sum
  <2>3. used'[r] = used[r]
    BY <1>1, <1>2, <1>6 DEF Charge
  <2> QED
    BY <1>2, <1>3, <1>4, <2>2, <2>3 DEF Balanced
<1> QED
  BY <1>5, <1>6

\* A row that is paid back by the call it paid for is owed for one fewer; one
\* that another row's call is paid back to has fewer days used than it owes.
LEMMA RefundBooks ==
  ASSUME RowsInv, BooksBalance, IsFiniteSet(Begun), NEW c \in Calls, Refund(c)
  PROVE  BooksBalance'
<1> DEFINE q == Now(TypeOf[c])
<1>1. /\ pc[c] = "charged" /\ pc' = [pc EXCEPT ![c] = "refunded"]
      /\ repaid' = [repaid EXCEPT ![c] = q] /\ UNCHANGED paying
      /\ used' = [r \in Rows |-> IF r = q THEN Credited(r, Days[c]) ELSE used[r]]
  BY DEF Refund, Goto
<1>2. /\ pc = [k \in Calls |-> pc[k]] /\ used \in [Rows -> Nat]
      /\ repaid \in [Calls -> Keys]
  BY DEF RowsInv, TypeOK
<1> HIDE DEF q
<1>3. c \notin Astray /\ Astray \subseteq Calls /\ repaid'[c] = q
      /\ \A k \in Calls \ {c} : pc'[k] = pc[k] /\ repaid'[k] = repaid[k]
  BY <1>1, <1>2 DEF Astray
<1>4. Astray' = IF q = paying[c] THEN Astray ELSE Astray \cup {c}
  BY <1>1, <1>2, <1>3 DEF Astray
<1> SUFFICES ASSUME NEW r \in Rows PROVE Balanced(r)'
  BY DEF BooksBalance
<1>5. Balanced(r) /\ Sum(Owed(r)) \in Nat /\ Used[r] \in Nat
  BY OwedFinite, SumIsNat DEF BooksBalance, Sum
<1>6. used[r] \in Nat /\ Days[c] \in Nat
  BY <1>2
<1>7. CASE q = paying[c] /\ r = q
  <2>1. c \in Owed(r) /\ Owed(r)' = Owed(r) \ {c}
    BY <1>1, <1>2, <1>4, <1>7 DEF Owed, Astray
  <2>2. Sum(Owed(r)) = Days[c] + Sum(Owed(r)')
    BY <2>1, OwedFinite, SumWithout DEF Sum
  <2>3. Sum(Owed(r)') \in Nat
    <3>1. Owed(r)' \in SUBSET Calls /\ IsFiniteSet(Owed(r)')
      BY <2>1, OwedFinite, FS_Subset
    <3> QED
      BY <3>1, SumIsNat DEF Sum
  <2>4. used'[r] = IF used[r] > Days[c] THEN used[r] - Days[c] ELSE 0
    BY <1>1, <1>7 DEF Credited
  <2>5. (\A k \in Astray' : repaid'[k] # r) => \A k \in Astray : repaid[k] # r
    BY <1>3, <1>4, <1>7
  <2>6. used'[r] <= Used[r] + Sum(Owed(r)')
    BY <1>5, <1>6, <2>2, <2>3, <2>4 DEF Balanced
  <2>7. ASSUME \A k \in Astray : repaid[k] # r
        PROVE  used'[r] = Used[r] + Sum(Owed(r)')
    BY <1>5, <1>6, <2>2, <2>3, <2>4, <2>7 DEF Balanced
  <2> QED
    BY <2>5, <2>6, <2>7 DEF Balanced, Sum
<1>8. CASE q # paying[c] \/ r # q
  <2>1. Owed(r)' = Owed(r)
    BY <1>1, <1>2, <1>4, <1>8 DEF Owed, Astray
  <2>2. Sum(Owed(r))' = Sum(Owed(r))
    BY <2>1 DEF Sum
  <2>3. CASE r # q
    <3>1. used'[r] = used[r]
      BY <1>1, <2>3
    <3>2. (\A k \in Astray' : repaid'[k] # r) => \A k \in Astray : repaid[k] # r
      BY <1>3, <1>4
    <3> QED
      BY <1>5, <2>2, <3>1, <3>2 DEF Balanced
  <2>4. CASE r = q
    <3>1. c \in Astray' /\ repaid'[c] = r
      BY <1>3, <1>4, <1>8, <2>4
    <3>2. used'[r] <= used[r]
      BY <1>1, <1>6, <2>4 DEF Credited
    <3>3. used'[r] \in Nat
      BY <1>1, <1>6, <2>4 DEF Credited
    <3> QED
      BY <1>5, <1>6, <2>2, <3>1, <3>2, <3>3 DEF Balanced
  <2> QED
    BY <2>3, <2>4
<1> QED
  BY <1>7, <1>8

LEMMA NextBooks ==
  RowsInv /\ BooksBalance /\ IsFiniteSet(Begun) /\ [Next]_vars
    => BooksBalance' /\ IsFiniteSet(Begun)'
<1> SUFFICES ASSUME RowsInv, BooksBalance, IsFiniteSet(Begun), [Next]_vars
             PROVE  BooksBalance'
  BY BegunFinite
<1>1. CASE NewYear \/ UNCHANGED vars
  <2>1. UNCHANGED <<used, pc, paying, repaid>>
    BY <1>1 DEF NewYear, vars
  <2>2. Astray' = Astray
    BY <2>1 DEF Astray
  <2>3. ASSUME NEW r \in Rows PROVE Owed(r)' = Owed(r)
    BY <2>1, <2>2 DEF Owed
  <2> QED
    BY <2>1, <2>2, <2>3, BooksUntouched
<1> QED
  BY <1>1, QuietStepBooks, ChargingBooks, RefundBooks DEF Next

-----------------------------------------------------------------------------
\* The inductive invariant holds in every reachable state.
LEMMA Invariance == Spec => []IInv
<1>1. Init => IInv
  BY InitRows, InitBooks DEF RowsInv, IInv
<1>2. IInv /\ [Next]_vars => IInv'
  BY NextRows, NextBooks DEF RowsInv, IInv
<1> QED
  BY <1>1, <1>2, PTL DEF Spec

\* Used days are a number for every row: Refund never takes them below zero.
THEOREM TypeCorrect == Spec => []TypeOK
<1>1. IInv => TypeOK
  BY DEF IInv
<1>2. QED
  BY <1>1, Invariance, PTL

\* No interleaving of Deduct and Refund overdraws a row.
THEOREM NeverOverdrawn == Spec => []NoOverdraw
<1>1. IInv => NoOverdraw
  BY DEF IInv
<1>2. QED
  BY <1>1, Invariance, PTL

\* Whatever overlaps, and however many calls there are, a row's used days are
\* those of the calls it has paid for and was not paid back.
THEOREM BooksAreKept == Spec => []BooksBalance
<1>1. IInv => BooksBalance
  BY DEF IInv
<1>2. QED
  BY <1>1, Invariance, PTL

\* A Deduct that nobody overtook is refused only by the row of its own type.
THEOREM RefusalsHaveACause == Spec => RefusedForCause
<1>1. ASSUME IInv, [Next]_vars, NEW c \in Calls,
             pc[c] # "refused", pc'[c] = "refused"
      PROVE  c \in overtaken \/ paying[c][2] = TypeOf[c]
  <2>1. DeductRefused(c)
    BY <1>1 DEF Next, vars, Waive, Choose, Deduct, DeductUnheard, DeductRefused,
                DeductFails, Refund, NewYear, Goto, Charge, IInv, TypeOK
  <2>2. QED
    BY <1>1, <2>1 DEF DeductRefused, IInv, ChosenHolds
<1>2. IInv /\ [Next]_vars
        => [\A c \in Calls : pc[c] # "refused" /\ pc'[c] = "refused"
              => c \in overtaken \/ paying[c][2] = TypeOf[c]]_vars
  BY <1>1
<1>3. QED
  BY <1>2, Invariance, PTL DEF Spec, RefusedForCause

=============================================================================
