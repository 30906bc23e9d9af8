--------------------------- MODULE CreditController ---------------------------
(***************************************************************************)
(* The sender's view of one credit window: class CreditController of       *)
(* rpc-transport-nats/src/flow-control.ts, as operators on a record.       *)
(*                                                                         *)
(*   credit     DataFrames the sender may still publish                    *)
(*   waiters    acquire() promises parked at credit 0                      *)
(*   cancelled  set once by cancel(); acquire() then never parks           *)
(*                                                                         *)
(* A parked promise is not a state of its own: the caller that acquired is *)
(* suspended while waiters > 0 and may resume as soon as it is 0 (a call   *)
(* has one producer, which awaits each acquire() before the next).         *)
(***************************************************************************)
EXTENDS Naturals

Controller == [credit : Nat, waiters : Nat, cancelled : BOOLEAN]

NewController(initialCredit) ==
  [credit |-> initialCredit, waiters |-> 0, cancelled |-> FALSE]

Parked(c) == c.waiters > 0

\* Mutant of Acquire: a sender publishes on at credit 0.
AcquireNeverParks(c) ==
  IF ~c.cancelled /\ c.credit > 0 THEN [c EXCEPT !.credit = @ - 1] ELSE c

Acquire(c) ==
  CASE c.cancelled -> c
    [] ~c.cancelled /\ c.credit > 0 -> [c EXCEPT !.credit = @ - 1]
    [] OTHER -> [c EXCEPT !.waiters = @ + 1]

\* How many parked senders the while loop of grant() wakes.
Woken(c, n) == IF c.waiters <= c.credit + n THEN c.waiters ELSE c.credit + n

\* Mutant of Grant: a woken sender does not consume the credit it resumes on.
GrantFreeWake(c, n) ==
  IF c.cancelled THEN c ELSE [c EXCEPT !.credit = @ + n, !.waiters = 0]

Grant(c, n) ==
  IF c.cancelled \/ n <= 0 THEN c
  ELSE [c EXCEPT !.credit  = @ + n - Woken(c, n),
                 !.waiters = @ - Woken(c, n)]

\* Mutant of Cancel: a parked sender is not released.
CancelKeepsParked(c) == [c EXCEPT !.cancelled = TRUE]

Cancel(c) == [c EXCEPT !.waiters = 0, !.cancelled = TRUE]
===============================================================================
