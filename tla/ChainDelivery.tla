--------------------------- MODULE ChainDelivery ---------------------------
(***************************************************************************)
(* What the event poller promises to the handlers behind it: a handler is  *)
(* started only for an event the contract has emitted, and at most once    *)
(* for each event, whatever crashes, re-reads and retries happen in        *)
(* between.  An event may remain without a handler forever.                *)
(***************************************************************************)
EXTENDS Naturals

CONSTANT Events

VARIABLES
  emitted,      \* events recorded on the chain
  runs          \* how often the handler of each event was started

Init ==
  /\ emitted = {}
  /\ runs = [e \in Events |-> 0]

Emit ==
  /\ \E new \in SUBSET (Events \ emitted) : emitted' = emitted \union new
  /\ UNCHANGED runs

Deliver(e) ==
  /\ e \in emitted
  /\ runs[e] = 0
  /\ runs' = [runs EXCEPT ![e] = 1]
  /\ UNCHANGED emitted

Next == Emit \/ \E e \in Events : Deliver(e)

Spec == Init /\ [][Next]_<<emitted, runs>>
=============================================================================
