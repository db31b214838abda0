----------------------------- MODULE StockLedger -----------------------------
(***************************************************************************)
(* What the stock workflow promises its users: a record settles at most    *)
(* once, in one step with the movement of its quantity, only while it is   *)
(* pending, and nothing leaves that is not there.                          *)
(***************************************************************************)
EXTENDS Integers

CONSTANTS Items, Kind, Records, Rec, InitStock

VARIABLES status, onHand

ledgerVars == <<status, onHand>>

Delta(r) ==
  CASE Rec[r].op \in {"in", "increase"} -> Rec[r].qty
    [] Rec[r].op \in {"out", "decrease"} -> -Rec[r].qty
    [] Rec[r].op = "transfer" -> 0

\* Every movement is exact but a decrease, which writes off what is left; of a
\* product it writes off what its warehouse holds, in one of them or in none.
AfterSettling(r, quantity) ==
  CASE Rec[r].op # "decrease" -> {quantity + Delta(r)}
    [] Rec[r].op = "decrease" /\ Kind[Rec[r].item] # "product" ->
         {IF quantity + Delta(r) < 0 THEN 0 ELSE quantity + Delta(r)}
    [] OTHER -> {n \in 0..quantity : n >= quantity + Delta(r)}

Settle(r) ==
  LET i == Rec[r].item
  IN /\ status[r] = "Pending"
     /\ Rec[r].op \in {"out", "transfer"} => onHand[i] >= Rec[r].qty
     /\ status' = [status EXCEPT ![r] = "Done"]
     /\ \E n \in AfterSettling(r, onHand[i]) : onHand' = [onHand EXCEPT ![i] = n]

Withdraw(r) ==
  /\ status[r] # "Removed"
  /\ \E s \in {"Cancelled", "Removed"} : status' = [status EXCEPT ![r] = s]
  /\ UNCHANGED onHand

Init ==
  /\ status = [r \in Records |-> "Pending"]
  /\ onHand = [i \in Items |-> InitStock[i].qty]

Next == \E r \in Records : Settle(r) \/ Withdraw(r)

Spec == Init /\ [][Next]_ledgerVars
=============================================================================
