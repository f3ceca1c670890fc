--------------------------- MODULE MCBalanceLedger --------------------------
(***************************************************************************)
(* BalanceLedger for TLC: two annual leaves that race for the compensatory *)
(* days, a leave that is paid with those, and one that needs no balance.   *)
(***************************************************************************)
EXTENDS BalanceLedger, TLC

MCTypeOf == ("a1" :> "annual") @@ ("a2" :> "annual")
            @@ ("comp" :> "compensatory") @@ ("free" :> "compassion")
MCDays == ("a1" :> 2) @@ ("a2" :> 1) @@ ("comp" :> 1) @@ ("free" :> 3)

\* Nobody has filled in the compensatory days of the second year yet.
MCTotal == (<<1, "annual">> :> 3) @@ (<<1, "compensatory">> :> 3)
           @@ (<<2, "annual">> :> 3)
MCUsed == (<<1, "annual">> :> 1) @@ (<<1, "compensatory">> :> 1)
          @@ (<<2, "annual">> :> 0)
MCRows == DOMAIN MCTotal

=============================================================================
