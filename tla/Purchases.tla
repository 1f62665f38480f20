----------------------------- MODULE Purchases -----------------------------
(***************************************************************************)
(* What enrolment promises about money: one payment transaction buys at    *)
(* most one purchase, by one student, of one or several courses, and a     *)
(* course is sold to a student at most once.                               *)
(***************************************************************************)
CONSTANTS Students, Courses, Txs

VARIABLE sold       \* the (student, course) pairs each transaction bought

Init == sold = [t \in Txs |-> {}]

Buy(t, s, courses) ==
  /\ sold[t] = {}
  /\ \A u \in Txs, c \in courses : <<s, c>> \notin sold[u]
  /\ sold' = [sold EXCEPT ![t] = {s} \X courses]

Next == \E t \in Txs, s \in Students : \E courses \in SUBSET Courses : Buy(t, s, courses)

Spec == Init /\ [][Next]_sold
=============================================================================
