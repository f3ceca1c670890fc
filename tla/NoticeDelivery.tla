---------------------------- MODULE NoticeDelivery --------------------------
(***************************************************************************)
(* What the notification worker promises, told without batches, ages,      *)
(* goroutines or processes: stored notices are sent one at a time; a       *)
(* notice that was confirmed is not touched again; one whose confirmation  *)
(* was lost may be sent again; and none is tried after MaxRetries failures *)
(* that were counted.                                                      *)
(***************************************************************************)
EXTENDS Naturals

CONSTANTS Notices, MaxRetries

VARIABLES phase,      \* where each notice stands
          failures    \* how many failures of each were counted

delivery == <<phase, failures>>

Init ==
  /\ phase = [n \in Notices |-> "none"]
  /\ failures = [n \in Notices |-> 0]

Move(n, from, to) ==
  /\ phase[n] \in from
  /\ phase' = [phase EXCEPT ![n] = to]
  /\ UNCHANGED failures

InHand == {n \in Notices : phase[n] = "sent"}
MayBeTried(n) ==
  /\ InHand = {}
  /\ phase[n] \in {"waiting", "unconfirmed"}
  /\ failures[n] < MaxRetries

Store(n) == Move(n, {"none"}, "waiting")
Send(n) == MayBeTried(n) /\ Move(n, {"waiting", "unconfirmed"}, "sent")
Confirm(n) == Move(n, {"sent"}, "confirmed")
LoseConfirmation(n) == Move(n, {"sent"}, "unconfirmed")

Fail(n) ==
  /\ MayBeTried(n)
  /\ failures' = [failures EXCEPT ![n] = @ + 1]
  /\ UNCHANGED phase

Next ==
  \E n \in Notices :
    Store(n) \/ Send(n) \/ Confirm(n) \/ LoseConfirmation(n) \/ Fail(n)

Spec == Init /\ [][Next]_delivery

=============================================================================
