------------------------- MODULE EventPollerProofs -------------------------
(***************************************************************************)
(* Proofs about EventPoller, for every chain length, page size, lookback,  *)
(* retention and number of faults; and, at the end, about the jobs that    *)
(* MCEventPoller runs beside it: CronMonitor and DataExport, and           *)
(* QuizSessions, whose own proofs it cites.                                *)
(***************************************************************************)
EXTENDS MCEventPoller, FiniteSetTheorems, TLAPS

LEMMA LargerType ==
  ASSUME NEW a \in Nat, NEW b \in Nat
  PROVE  /\ Larger(a, b) \in Nat
         /\ Larger(a, b) >= a
         /\ Larger(a, b) >= b
         /\ Larger(a, b) \in {a, b}
  BY DEF Larger

LEMMA ColdStartType ==
  ASSUME NEW t \in Nat
  PROVE  ColdStart(t) \in Position
  BY ConstantsAssumption DEF ColdStart, Position, Larger, NoLedger, NoCursor

LEMMA MovedPosition ==
  ASSUME NEW p \in Position, NEW l \in Nat, NEW c \in 0..MaxEvents
  PROVE  [ledger |-> Larger(p.ledger, l + 1), cursor |-> c] \in Position
<1>1. p.ledger \in Nat /\ l + 1 \in Nat
  BY DEF Position
<1>2. Larger(p.ledger, l + 1) \in Nat
  BY <1>1, LargerType
<1> QED
  BY <1>2 DEF Position

LEMMA DrainedToType ==
  ASSUME pos \in Position, NEW l \in Nat
  PROVE  DrainedTo(l) \in Position
<1>1. NoCursor \in 0..MaxEvents
  BY ConstantsAssumption DEF NoCursor
<1> QED
  BY <1>1, MovedPosition DEF DrainedTo

\* Every variable keeps its type, whatever the environment does.
THEOREM TypeCorrect == Spec => []TypeOK
<1>1. Init => TypeOK
  <2> SUFFICES ASSUME Init PROVE TypeOK
    OBVIOUS
  <2>1. ckpt \in Position
    BY ConstantsAssumption DEF Init, Position, NoPosition, ForeignCheckpoints, NoLedger, NoCursor
  <2>2. pos \in Position
    BY ConstantsAssumption DEF Init, Position, NoPosition, NoLedger, NoCursor
  <2>3. /\ ledgerOf \in [Events -> Nat]
        /\ rows \in [Events -> RowStates]
        /\ runs \in [Events -> Nat]
    BY DEF Init, NoLedger, RowStates
  <2>4. pc \in Steps /\ (pc \in CurSteps => cur \in Events)
    BY DEF Init, Steps, CurSteps
  <2>5. emitted \in 0..MaxEvents /\ cur \in 0..MaxEvents
    BY ConstantsAssumption DEF Init, NoCursor
  <2> QED
    BY <2>1, <2>2, <2>3, <2>4, <2>5 DEF Init, TypeOK, NoLedger
<1>2. TypeOK /\ [Next]_vars => TypeOK'
  <2> SUFFICES ASSUME TypeOK, [Next]_vars PROVE TypeOK'
    OBVIOUS
  <2> USE DEF TypeOK, chainVars, dbVars, pollVars, NoLedger, NoCursor, CurSteps, Steps,
              PersistPoints
  <2>1. CASE CloseLedger
    BY <2>1, ConstantsAssumption DEF CloseLedger, Events
  <2>2. CASE PruneLedger
    BY <2>2 DEF PruneLedger
  <2>3. CASE LoadCheckpoint
    BY <2>3, ConstantsAssumption DEF LoadCheckpoint, Fault, NoPosition, Position
  <2>4. CASE InitCheckpoint
    <3>1. PICK tipRead \in {tip, NoLedger} :
            /\ \/ pos' = ColdStart(tipRead) /\ abandoned' \subseteq Events
               \/ UNCHANGED <<pos, abandoned>>
            /\ pc' \in {"coldPersist", "idle"}
            /\ faults' \in Nat
      BY <2>4 DEF InitCheckpoint, JumpTo, Fault
    <3>2. pos' \in Position /\ abandoned' \subseteq Events
      BY <3>1, ColdStartType
    <3> QED
      BY <2>4, <3>1, <3>2 DEF InitCheckpoint
  <2>5. CASE StartPoll
    BY <2>5 DEF StartPoll, Fault, vars
  <2>6. CASE FetchPage
    <3>1. PICK es \in SUBSET Available(pos) :
            /\ page' = es
            /\ pageFull' = (Cardinality(es) = PageLimit)
            /\ pageLatest' = tip
            /\ \/ pos' = DrainedTo(tip) /\ pc' = "finally"
               \/ pc' = "save" /\ UNCHANGED pos
      BY <2>6 DEF FetchPage
    <3>2. page' \subseteq Events
      BY <3>1 DEF Available
    <3>3. pos' \in Position
      BY <3>1, DrainedToType
    <3> QED
      BY <2>6, <3>1, <3>2, <3>3 DEF FetchPage
  <2>7. CASE FetchOutOfRange
    <3>1. pos' \in Position
      BY <2>7, ColdStartType DEF FetchOutOfRange, JumpTo
    <3> QED
      BY <2>7, <3>1 DEF FetchOutOfRange, JumpTo
  <2>8. CASE FetchFails
    BY <2>8 DEF FetchFails, Fault
  <2>9. CASE SaveRawEvent
    <3>1. PICK e \in page :
            /\ cur' = e
            /\ rows' = rows \/ rows' = [rows EXCEPT ![e] = "stored"]
            /\ isNew' = TRUE \/ isNew' = FALSE
            /\ pc' = "handle" \/ pc' = "advance"
            /\ UNCHANGED faults \/ faults' = faults + 1
            /\ UNCHANGED refused \/ refused' = refused \union {e}
      BY <2>9 DEF SaveRawEvent, Fault
    <3>2. cur' \in Events /\ cur' \in 0..MaxEvents
      BY <3>1 DEF Events
    <3>3. rows' \in [Events -> RowStates]
      BY <3>1 DEF RowStates
    <3>4. UNCHANGED <<tip, oldest, emitted, ledgerOf, ckpt, pos, latest, page, pageFull,
                      pageLatest, writeFailures, runs, abandoned>>
      BY <2>9 DEF SaveRawEvent
    <3>5. pc' \in Steps
      BY <3>1
    <3>6. isNew' \in BOOLEAN
      BY <3>1, Zenon
    <3>7. faults' \in Nat /\ refused' \subseteq Events
      BY <3>1
    <3> QED
      BY <3>2, <3>3, <3>4, <3>5, <3>6, <3>7
  <2>10. CASE RunHandler
    BY <2>10 DEF RunHandler, Fault
  <2>11. CASE MarkEventProcessed
    BY <2>11 DEF MarkEventProcessed, Fault, RowStates
  <2>12. CASE AdvancePastEvent
    <3>1. cur \in Events /\ ledgerOf[cur] \in Nat
      BY <2>12 DEF AdvancePastEvent
    <3>2. pos' = PastEvent(cur)
      BY <2>12 DEF AdvancePastEvent
    <3>3. pos' \in Position
      BY <3>1, <3>2, MovedPosition DEF PastEvent
    <3> QED
      BY <2>12, <3>3 DEF AdvancePastEvent
  <2>13. CASE NoAdvancingToken
    <3>1. pos' \in Position /\ abandoned' \subseteq Events
      <4>1. cur \in Events /\ ledgerOf[cur] + 1 \in Nat /\ pos.ledger \in Nat
        BY <2>13 DEF NoAdvancingToken, Position
      <4>2. [pos EXCEPT !.ledger = Larger(@, ledgerOf[cur] + 1)] \in Position
        BY <4>1, LargerType DEF Position
      <4> QED
        BY <2>13, <4>2 DEF NoAdvancingToken, JumpTo
    <3> QED
      BY <2>13, <3>1 DEF NoAdvancingToken, Fault
  <2>14. CASE PersistCheckpoint
    <3>1. DrainedTo(pageLatest) \in Position
      BY DrainedToType
    <3>2. pos' \in Position /\ pc' \in {"idle", "finally", "save", "fetch"}
      BY <2>14, <3>1 DEF PersistCheckpoint, AfterEvent
    <3>3. ckpt' \in Position /\ writeFailures' \in Nat /\ faults' \in Nat
      BY <2>14 DEF PersistCheckpoint, WriteCheckpoint, Fault
    <3> QED
      BY <2>14, <3>2, <3>3 DEF PersistCheckpoint
  <2>15. CASE Crash
    <3>1. pos' \in Position /\ cur' \in 0..MaxEvents
      BY <2>15, ConstantsAssumption DEF Crash, NoPosition, Position
    <3>2. pc' = "down" /\ latest' = 0 /\ page' = {} /\ pageFull' = FALSE /\ pageLatest' = 0
          /\ isNew' = FALSE /\ writeFailures' = 0 /\ faults' \in Nat
      BY <2>15 DEF Crash, Fault
    <3>3. UNCHANGED <<tip, oldest, emitted, ledgerOf, rows, ckpt, runs, abandoned, refused>>
      BY <2>15 DEF Crash
    <3> QED
      BY <3>1, <3>2, <3>3
  <2>16. CASE UNCHANGED vars
    BY <2>16 DEF vars
  <2> QED
    BY <2>1, <2>2, <2>3, <2>4, <2>5, <2>6, <2>7, <2>8, <2>9, <2>10, <2>11, <2>12,
       <2>13, <2>14, <2>15, <2>16 DEF Next, Poller
<1> QED
  BY <1>1, <1>2, PTL DEF Spec

-----------------------------------------------------------------------------
(***************************************************************************)
(* At most one handler run per event.  The row is what remembers it: a     *)
(* handler is about to run only for a row inserted by this very poll, and  *)
(* an event whose handler ran has its row.                                 *)
(***************************************************************************)
RowRemembersRun ==
  /\ \A e \in Events : runs[e] # 0 => rows[e] # "absent"
  /\ \A e \in Events : rows[e] # "absent" => ledgerOf[e] # NoLedger
  /\ \A e \in page : ledgerOf[e] # NoLedger
  /\ pc = "handle" => rows[cur] = "stored" /\ runs[cur] = 0
  /\ pc \in CurSteps => ledgerOf[cur] # NoLedger

AtMostOnceInv == TypeOK /\ HandledAtMostOnce /\ RowRemembersRun

LEMMA AtMostOnceInductive ==
  ASSUME TypeOK, TypeOK', HandledAtMostOnce, RowRemembersRun, [Next]_vars
  PROVE  HandledAtMostOnce' /\ RowRemembersRun'
<1> USE DEF HandledAtMostOnce, RowRemembersRun, CurSteps, chainVars, dbVars, pollVars
<1>1. CASE CloseLedger
  <2>1. \A e \in Events : ledgerOf[e] # NoLedger => ledgerOf'[e] # NoLedger
    BY <1>1 DEF CloseLedger, TypeOK, NoLedger
  <2> QED
    BY <1>1, <2>1 DEF CloseLedger, TypeOK
<1>2. CASE PruneLedger
  BY <1>2 DEF PruneLedger
<1>3. CASE LoadCheckpoint
  BY <1>3 DEF LoadCheckpoint
<1>4. CASE InitCheckpoint
  BY <1>4 DEF InitCheckpoint
<1>5. CASE StartPoll
  BY <1>5 DEF StartPoll
<1>6. CASE FetchPage
  <2>1. \A e \in page' : ledgerOf'[e] # NoLedger
    BY <1>6 DEF FetchPage, Available
  <2> QED
    BY <1>6, <2>1 DEF FetchPage
<1>7. CASE FetchOutOfRange
  BY <1>7 DEF FetchOutOfRange
<1>8. CASE FetchFails
  BY <1>8 DEF FetchFails
<1>9. CASE SaveRawEvent
  <2>1. PICK e \in page :
          /\ cur' = e
          /\ \/ ~IsDuplicate(e) /\ rows' = [rows EXCEPT ![e] = "stored"] /\ pc' = "handle"
             \/ rows' = rows /\ pc' = "advance"
    BY <1>9 DEF SaveRawEvent
  <2>2. UNCHANGED <<ledgerOf, page, runs>>
    BY <1>9 DEF SaveRawEvent
  <2>3. e \in Events /\ ledgerOf[e] # NoLedger
    BY <2>1 DEF TypeOK
  <2> QED
    BY <2>1, <2>2, <2>3 DEF IsDuplicate, TypeOK
<1>10. CASE RunHandler
  BY <1>10 DEF RunHandler, TypeOK
<1>11. CASE MarkEventProcessed
  BY <1>11 DEF MarkEventProcessed, TypeOK
<1>12. CASE AdvancePastEvent
  BY <1>12 DEF AdvancePastEvent
<1>13. CASE NoAdvancingToken
  BY <1>13 DEF NoAdvancingToken
<1>14. CASE PersistCheckpoint
  BY <1>14 DEF PersistCheckpoint, AfterEvent, PersistPoints
<1>15. CASE Crash
  BY <1>15 DEF Crash
<1>16. CASE UNCHANGED vars
  BY <1>16 DEF vars
<1> QED
  BY <1>1, <1>2, <1>3, <1>4, <1>5, <1>6, <1>7, <1>8, <1>9, <1>10, <1>11, <1>12,
     <1>13, <1>14, <1>15, <1>16 DEF Next, Poller

LEMMA AtMostOnceInvariant == Spec => []AtMostOnceInv
<1>1. Init => HandledAtMostOnce /\ RowRemembersRun
  BY DEF Init, HandledAtMostOnce, RowRemembersRun, CurSteps
<1> QED
  BY <1>1, TypeCorrect, AtMostOnceInductive, PTL DEF Spec, AtMostOnceInv

\* The handler of an event is started at most once, however the process
\* crashes, the checkpoint is lost or pages are read again.
THEOREM AtMostOnce == Spec => []HandledAtMostOnce
BY AtMostOnceInvariant, PTL DEF AtMostOnceInv

\* The poller implements ChainDelivery: its steps start a handler only for an
\* event that is on the chain and had none, or leave the handlers alone.
THEOREM Implements == Spec => ImplementsDelivery
<1>1. Init => Delivery!Init
  BY DEF Init, Delivery!Init
<1>2. AtMostOnceInv /\ [Next]_vars =>
        [Delivery!Next]_<<{e \in Events : ledgerOf[e] # NoLedger}, runs>>
  <2> SUFFICES ASSUME AtMostOnceInv, [Next]_vars
               PROVE  \/ Delivery!Next
                      \/ UNCHANGED <<{e \in Events : ledgerOf[e] # NoLedger}, runs>>
    OBVIOUS
  <2>1. CASE CloseLedger
    <3>1. \A e \in Events : ledgerOf[e] # NoLedger => ledgerOf'[e] # NoLedger
      BY <2>1 DEF CloseLedger, AtMostOnceInv, TypeOK, NoLedger
    <3> DEFINE new == {e \in Events : ledgerOf[e] = NoLedger /\ ledgerOf'[e] # NoLedger}
               on  == {e \in Events : ledgerOf[e] # NoLedger}
    <3>2. on' = on \union new /\ new \subseteq Events \ on
      BY <3>1
    <3>3. runs' = runs
      BY <2>1 DEF CloseLedger
    <3>4. new \in SUBSET (Events \ on)
      BY <3>2
    <3> HIDE DEF new
    <3>5. Delivery!Emit
      BY <3>2, <3>3, <3>4 DEF Delivery!Emit
    <3> QED
      BY <3>5 DEF Delivery!Next
  <2>2. CASE RunHandler
    <3>1. cur \in Events /\ ledgerOf[cur] # NoLedger /\ runs[cur] = 0
      BY <2>2 DEF RunHandler, AtMostOnceInv, RowRemembersRun, TypeOK, CurSteps
    <3>2. runs' = [runs EXCEPT ![cur] = 1] /\ ledgerOf' = ledgerOf
      BY <2>2, <3>1 DEF RunHandler, chainVars, AtMostOnceInv, TypeOK
    <3>3. Delivery!Deliver(cur)
      BY <3>1, <3>2 DEF Delivery!Deliver
    <3> QED
      BY <3>1, <3>3 DEF Delivery!Next
  <2>3. ~CloseLedger /\ ~RunHandler => UNCHANGED <<ledgerOf, runs>>
    BY DEF Next, Poller, vars, chainVars, PruneLedger, LoadCheckpoint, InitCheckpoint,
           StartPoll, FetchPage, FetchOutOfRange, FetchFails, SaveRawEvent,
           MarkEventProcessed, AdvancePastEvent, NoAdvancingToken, PersistCheckpoint, Crash
  <2> QED
    BY <2>1, <2>2, <2>3
<1> QED
  BY <1>1, <1>2, AtMostOnceInvariant, PTL DEF Spec, ImplementsDelivery, Delivery!Spec

-----------------------------------------------------------------------------
(***************************************************************************)
(* No event is skipped.  The invariant follows the page through the poll:  *)
(* what lies before an event of the page is accounted for or still in the  *)
(* page, and a page that was not full held everything up to the ledger it  *)
(* was read at.  A checkpoint from another network is ahead of every       *)
(* ledger of this chain, so that no page is ever fetched from it.          *)
(***************************************************************************)
PageSteps == CurSteps \union {"save", "eventPersist"}

ChainOK ==
  /\ tip >= 1 /\ tip <= MaxLedger
  /\ latest <= tip /\ pageLatest <= tip
  /\ \A e \in Events : ledgerOf[e] <= tip
  /\ \A e \in Events : ledgerOf[e] # NoLedger <=> e <= emitted
  /\ pos \in ForeignCheckpoints \/ pos.ledger <= tip + 1
  /\ ckpt \in ForeignCheckpoints \/ ckpt.ledger <= tip + 1

PageOK ==
  /\ pc \in PageSteps => pos.ledger <= pageLatest + 1
  /\ pc \in PageSteps =>
       \A f \in page : \A e \in Events : e <= f => e \in page \/ Accounted(e)
  /\ pc \in PageSteps /\ ~pageFull =>
       \A e \in Events : ledgerOf[e] # NoLedger /\ ledgerOf[e] <= pageLatest
                           => e \in page \/ Accounted(e)
  /\ pc \in CurSteps =>
       /\ cur \in page /\ Accounted(cur)
       /\ ledgerOf[cur] <= pageLatest
       /\ \A f \in page : cur <= f
  /\ \A e \in page : ledgerOf[e] # NoLedger /\ ledgerOf[e] <= pageLatest

SkipInv == ChainOK /\ PageOK /\ NoEventSkipped

LEMMA ForeignIsAhead ==
  ASSUME NEW p \in ForeignCheckpoints
  PROVE  p.cursor = NoCursor /\ p.ledger = MaxLedger + 2 /\ p.ledger \in Nat
  BY ConstantsAssumption DEF ForeignCheckpoints, NoCursor

LEMMA ColdStartOnChain ==
  ASSUME tip \in Nat, tip >= 1, NEW t \in Nat, t <= tip
  PROVE  ColdStart(t).ledger <= tip + 1
  BY ConstantsAssumption DEF ColdStart, Larger, NoLedger

LEMMA NoPositionSkipsNothing ==
  ASSUME TypeOK, NEW e \in Events
  PROVE  ~Behind(NoPosition, e)
  BY DEF Behind, NoPosition, NoCursor, NoLedger, TypeOK

\* An event once accounted for stays so: rows are never deleted.
LEMMA AccountedStays ==
  ASSUME TypeOK, [Next]_vars, NEW e \in Events, Accounted(e)
  PROVE  Accounted(e)'
<1> USE DEF Accounted, dbVars
<1>1. CASE CloseLedger
  BY <1>1 DEF CloseLedger
<1>2. CASE PruneLedger
  BY <1>2 DEF PruneLedger
<1>3. CASE LoadCheckpoint
  BY <1>3 DEF LoadCheckpoint
<1>4. CASE InitCheckpoint
  BY <1>4 DEF InitCheckpoint, JumpTo
<1>5. CASE StartPoll
  BY <1>5 DEF StartPoll
<1>6. CASE FetchPage
  BY <1>6 DEF FetchPage
<1>7. CASE FetchOutOfRange
  BY <1>7 DEF FetchOutOfRange, JumpTo
<1>8. CASE FetchFails
  BY <1>8 DEF FetchFails
<1>9. CASE SaveRawEvent
  <2>1. abandoned' = abandoned /\ refused \subseteq refused'
    BY <1>9 DEF SaveRawEvent
  <2>2. rows' = rows \/ \E f \in page : rows' = [rows EXCEPT ![f] = "stored"]
    BY <1>9 DEF SaveRawEvent
  <2> QED
    BY <2>1, <2>2 DEF TypeOK
<1>10. CASE RunHandler
  BY <1>10 DEF RunHandler
<1>11. CASE MarkEventProcessed
  BY <1>11 DEF MarkEventProcessed, TypeOK
<1>12. CASE AdvancePastEvent
  BY <1>12 DEF AdvancePastEvent
<1>13. CASE NoAdvancingToken
  BY <1>13 DEF NoAdvancingToken, JumpTo
<1>14. CASE PersistCheckpoint
  BY <1>14 DEF PersistCheckpoint
<1>15. CASE Crash
  BY <1>15 DEF Crash
<1>16. CASE UNCHANGED vars
  BY <1>16 DEF vars
<1> QED
  BY <1>1, <1>2, <1>3, <1>4, <1>5, <1>6, <1>7, <1>8, <1>9, <1>10, <1>11, <1>12,
     <1>13, <1>14, <1>15, <1>16 DEF Next, Poller

LEMMA SkipInvInit ==
  ASSUME Init
  PROVE  SkipInv
<1>1. pos = NoPosition /\ (ckpt = NoPosition \/ ckpt \in ForeignCheckpoints)
  BY DEF Init
<1>2. ChainOK
  BY <1>1, ConstantsAssumption DEF Init, ChainOK, NoPosition, NoLedger, Events
<1>3. PageOK
  BY DEF Init, PageOK, PageSteps, CurSteps
<1>4. NoEventSkipped
  BY <1>1 DEF Init, NoEventSkipped, Behind, NoPosition, NoCursor, NoLedger
<1> QED
  BY <1>2, <1>3, <1>4 DEF SkipInv

LEMMA SkipInvInductive ==
  ASSUME TypeOK, TypeOK', SkipInv, [Next]_vars
  PROVE  SkipInv'
<1> USE DEF SkipInv, CurSteps, PageSteps, chainVars, dbVars, pollVars
<1>a. \A e \in Events : Accounted(e) => Accounted(e)'
  BY AccountedStays
<1>1. CASE CloseLedger
  <2>1. PICK n \in emitted..MaxEvents :
          /\ emitted' = n
          /\ ledgerOf' = [e \in Events |->
                IF emitted < e /\ e <= n THEN tip + 1 ELSE ledgerOf[e]]
    BY <1>1 DEF CloseLedger
  <2>2. tip' = tip + 1 /\ tip < MaxLedger
    BY <1>1 DEF CloseLedger
  <2>3. UNCHANGED <<rows, ckpt, pc, pos, latest, page, pageFull, pageLatest, cur, abandoned, refused>>
    BY <1>1 DEF CloseLedger
  <2>4. \A e \in Events : \/ ledgerOf'[e] = ledgerOf[e]
                          \/ ledgerOf[e] = NoLedger /\ ledgerOf'[e] = tip + 1
    <3> SUFFICES ASSUME NEW e \in Events
                 PROVE  \/ ledgerOf'[e] = ledgerOf[e]
                        \/ ledgerOf[e] = NoLedger /\ ledgerOf'[e] = tip + 1
      OBVIOUS
    <3>1. emitted < e => ~(e <= emitted)
      BY ConstantsAssumption DEF TypeOK, Events
    <3>2. ledgerOf'[e] = IF emitted < e /\ e <= n THEN tip + 1 ELSE ledgerOf[e]
      BY <2>1
    <3>3. ledgerOf[e] # NoLedger <=> e <= emitted
      BY DEF ChainOK
    <3>4. CASE emitted < e /\ e <= n
      BY <3>1, <3>2, <3>3, <3>4
    <3>5. CASE ~(emitted < e /\ e <= n)
      BY <3>2, <3>5
    <3> QED
      BY <3>4, <3>5
  <2>5. \A e \in Events : ledgerOf'[e] # NoLedger <=> e <= emitted'
    BY <2>1 DEF ChainOK, Events, TypeOK, NoLedger
  <2>6. ChainOK'
    <3>1. tip \in Nat /\ latest \in Nat /\ pageLatest \in Nat
          /\ pos.ledger \in Nat /\ ckpt.ledger \in Nat
      BY DEF TypeOK, Position
    <3>2. \A e \in Events : ledgerOf'[e] <= tip'
      BY <2>2, <2>4, <3>1 DEF ChainOK, TypeOK
    <3>3. /\ tip' >= 1 /\ tip' <= MaxLedger /\ latest' <= tip' /\ pageLatest' <= tip'
          /\ pos' \in ForeignCheckpoints \/ pos'.ledger <= tip' + 1
          /\ ckpt' \in ForeignCheckpoints \/ ckpt'.ledger <= tip' + 1
      BY <2>2, <2>3, <3>1, ConstantsAssumption DEF ChainOK
    <3> QED
      BY <2>5, <3>2, <3>3 DEF ChainOK
  <2>7. \A e \in Events : Accounted(e)' <=> Accounted(e)
    BY <2>3 DEF Accounted
  <2>8. PageOK'
    <3>1. \A e \in Events : ledgerOf'[e] # NoLedger /\ ledgerOf'[e] <= pageLatest
                            => ledgerOf'[e] = ledgerOf[e]
      BY <2>4 DEF ChainOK, TypeOK
    <3>2. \A e \in Events : ledgerOf[e] # NoLedger => ledgerOf'[e] = ledgerOf[e]
      BY <2>4
    <3>3. \A e \in page : ledgerOf'[e] = ledgerOf[e]
      <4> SUFFICES ASSUME NEW e \in page PROVE ledgerOf'[e] = ledgerOf[e]
        OBVIOUS
      <4> QED
        BY <3>2 DEF PageOK, TypeOK
    <3> QED
      BY <2>3, <2>7, <3>1, <3>3 DEF PageOK, TypeOK
  <2>9. \A p \in {ckpt, pos} \ ForeignCheckpoints : \A e \in Events :
          Behind(p, e)' => Accounted(e)
    <3> SUFFICES ASSUME NEW p \in {ckpt, pos} \ ForeignCheckpoints, NEW e \in Events, Behind(p, e)'
                 PROVE  Behind(p, e)
      BY DEF NoEventSkipped
    <3>1. p.ledger <= tip + 1 /\ p.ledger \in Nat /\ tip \in Nat
      BY DEF ChainOK, TypeOK, Position
    <3> QED
      BY <2>4, <3>1 DEF Behind, TypeOK, NoLedger
  <2> QED
    BY <2>3, <2>6, <2>7, <2>8, <2>9 DEF NoEventSkipped, Behind
<1>2. CASE PruneLedger
  BY <1>2 DEF PruneLedger, ChainOK, PageOK, NoEventSkipped, Accounted, Behind
<1>3. CASE LoadCheckpoint
  <2>1. pos' = ckpt \/ pos' = NoPosition
    BY <1>3 DEF LoadCheckpoint
  <2>2. pc' = "init"
    BY <1>3 DEF LoadCheckpoint
  <2>3. UNCHANGED <<tip, emitted, ledgerOf, rows, ckpt, latest, page, pageFull, pageLatest, cur,
                    abandoned, refused>>
    BY <1>3 DEF LoadCheckpoint
  <2>4. ChainOK'
    BY <2>1, <2>3 DEF ChainOK, NoPosition, NoLedger, TypeOK
  <2>5. PageOK'
    BY <2>2, <2>3 DEF PageOK
  <2>6. NoEventSkipped'
    BY <2>1, <2>3, NoPositionSkipsNothing DEF NoEventSkipped, Accounted, Behind
  <2> QED
    BY <2>4, <2>5, <2>6
<1>4. CASE InitCheckpoint
  <2>1. PICK t \in {tip, NoLedger} : JumpTo(ColdStart(t)) \/ UNCHANGED <<pos, abandoned>>
    BY <1>4 DEF InitCheckpoint
  <2>2. pc' \in {"coldPersist", "idle"}
    BY <1>4 DEF InitCheckpoint
  <2>3. UNCHANGED <<tip, emitted, ledgerOf, rows, ckpt, latest, page, pageFull, pageLatest, cur>>
    BY <1>4 DEF InitCheckpoint
  <2>4. t \in Nat /\ t <= tip
    BY <2>1 DEF TypeOK, NoLedger
  <2>5. pos' \in ForeignCheckpoints \/ pos'.ledger <= tip + 1
    BY <2>1, <2>4, ColdStartOnChain DEF ChainOK, JumpTo, TypeOK
  <2>6. ChainOK'
    BY <2>3, <2>5 DEF ChainOK
  <2>7. PageOK'
    BY <2>2, <2>3 DEF PageOK
  <2>8. pos' \notin ForeignCheckpoints => \A e \in Events : Behind(pos, e)' => Accounted(e)'
    BY <1>a, <2>1, <2>3 DEF NoEventSkipped, Accounted, Behind, JumpTo
  <2>9. ckpt \notin ForeignCheckpoints => \A e \in Events : Behind(ckpt, e)' => Accounted(e)'
    BY <1>a, <2>3 DEF NoEventSkipped, Behind
  <2> QED
    BY <2>3, <2>6, <2>7, <2>8, <2>9 DEF NoEventSkipped, Behind
<1>5. CASE StartPoll
  <2>1. latest' <= tip
    BY <1>5 DEF StartPoll, TypeOK, NoLedger
  <2>2. pc' \in {"finally", "fetch"}
    BY <1>5 DEF StartPoll
  <2>3. UNCHANGED <<tip, emitted, ledgerOf, rows, ckpt, pos, page, pageFull, pageLatest, cur,
                    abandoned, refused>>
    BY <1>5 DEF StartPoll
  <2> QED
    BY <2>1, <2>2, <2>3 DEF ChainOK, PageOK, NoEventSkipped, Accounted, Behind
<1>6. CASE FetchPage
  <2>1. PICK es \in SUBSET Available(pos) :
          /\ IsPage(es, Available(pos))
          /\ page' = es
          /\ pageFull' = (Cardinality(es) = PageLimit)
          /\ pageLatest' = tip
          /\ \/ es = {} /\ pos' = DrainedTo(tip) /\ pc' = "finally"
             \/ es # {} /\ pc' = "save" /\ UNCHANGED pos
    BY <1>6 DEF FetchPage
  <2>2. UNCHANGED <<tip, emitted, ledgerOf, rows, ckpt, latest, cur, abandoned, refused>>
    BY <1>6 DEF FetchPage
  <2>f. pos \notin ForeignCheckpoints
    <3>1. pos.cursor = NoCursor => pos.ledger <= tip
      BY <1>6 DEF FetchPage, InRange
    <3> QED
      BY <3>1, ForeignIsAhead, ConstantsAssumption DEF ChainOK, TypeOK
  <2>3. \A e \in Events : ledgerOf[e] # NoLedger => e \in Available(pos) \/ Accounted(e)
    <3> SUFFICES ASSUME NEW e \in Events, ledgerOf[e] # NoLedger
                 PROVE  e \in Available(pos) \/ Behind(pos, e)
      BY <2>f DEF NoEventSkipped
    <3>1. /\ ledgerOf[e] \in Nat /\ e \in Nat
          /\ pos.cursor \in Nat /\ pos.ledger \in Nat
      BY ConstantsAssumption DEF TypeOK, Position, Events
    <3> QED
      BY <3>1 DEF Available, Behind
  <2>4. \A e \in Events : Accounted(e)' <=> Accounted(e)
    BY <2>2 DEF Accounted
  <2>5. pos.ledger \in Nat /\ tip \in Nat /\ pos.ledger <= tip + 1
    BY <2>f DEF ChainOK, TypeOK, Position
  <2>6. CASE es = {}
    <3>1. Available(pos) = {}
      BY <2>1, <2>6, FS_EmptySet, ConstantsAssumption DEF IsPage
    <3>2. pos'.ledger = tip + 1 /\ pos'.cursor = NoCursor
      BY <2>1, <2>5, <2>6 DEF DrainedTo, Larger
    <3>3. \A e \in Events : Behind(pos, e)' => Accounted(e)
      BY <2>2, <2>3, <3>1, <3>2 DEF Behind
    <3>4. ChainOK'
      BY <2>1, <2>2, <3>2, <2>5 DEF ChainOK
    <3>5. PageOK'
      BY <2>1, <2>6 DEF PageOK
    <3>6. NoEventSkipped'
      BY <3>3, <2>2, <2>4 DEF NoEventSkipped, Behind
    <3> QED
      BY <3>4, <3>5, <3>6
  <2>7. CASE es # {}
    <3>1. pos' = pos /\ pc' = "save"
      BY <2>1, <2>7
    <3>2. ChainOK'
      BY <2>1, <2>2, <2>5, <3>1 DEF ChainOK
    <3>3. \A f \in es : f \in Events /\ ledgerOf[f] # NoLedger
      BY <2>1 DEF Available
    <3>4. \A f \in es : \A e \in Events : e <= f => e \in es \/ Accounted(e)
      <4>1. SUFFICES ASSUME NEW f \in es, NEW e \in Events, e <= f PROVE e \in es \/ Accounted(e)
        OBVIOUS
      <4>2. ledgerOf[e] # NoLedger
        <5>1. f \in Events /\ f <= emitted
          BY <3>3 DEF ChainOK
        <5>2. e <= emitted
          BY <4>1, <5>1, ConstantsAssumption DEF TypeOK, Events
        <5> QED
          BY <5>2 DEF ChainOK
      <4> QED
        BY <2>1, <2>3, <4>1, <4>2 DEF IsPage
    <3>5. Cardinality(es) # PageLimit =>
            \A e \in Events : ledgerOf[e] # NoLedger => e \in es \/ Accounted(e)
      BY <2>1, <2>3 DEF IsPage
    <3>6. \A f \in es : ledgerOf[f] # NoLedger /\ ledgerOf[f] <= tip
      BY <3>3 DEF ChainOK
    <3>7. PageOK'
      BY <2>1, <2>2, <2>4, <2>5, <3>1, <3>4, <3>5, <3>6 DEF PageOK
    <3>8. NoEventSkipped'
      BY <2>2, <2>4, <3>1 DEF NoEventSkipped, Behind
    <3> QED
      BY <3>2, <3>7, <3>8
  <2> QED
    BY <2>6, <2>7
<1>7. CASE FetchOutOfRange
  <2>1. JumpTo(ColdStart(latest)) /\ pc' = "jumpPersist"
    BY <1>7 DEF FetchOutOfRange
  <2>2. UNCHANGED <<tip, emitted, ledgerOf, rows, ckpt, latest, page, pageFull, pageLatest, cur>>
    BY <1>7 DEF FetchOutOfRange
  <2>3. pos'.ledger <= tip + 1
    BY <2>1, ColdStartOnChain DEF ChainOK, JumpTo, TypeOK
  <2>4. ChainOK' /\ PageOK'
    BY <2>1, <2>2, <2>3 DEF ChainOK, PageOK
  <2>5. \A e \in Events : Behind(pos, e)' => Accounted(e)'
    BY <2>1, <2>2 DEF Accounted, Behind, JumpTo
  <2>6. ckpt \notin ForeignCheckpoints => \A e \in Events : Behind(ckpt, e)' => Accounted(e)'
    BY <1>a, <2>2 DEF NoEventSkipped, Behind
  <2> QED
    BY <2>4, <2>2, <2>5, <2>6 DEF NoEventSkipped, Behind
<1>8. CASE FetchFails
  BY <1>8 DEF FetchFails, ChainOK, PageOK, NoEventSkipped, Accounted, Behind
<1>9. CASE SaveRawEvent
  <2>1. PICK e \in page :
          /\ IsNext(e)
          /\ cur' = e
          /\ \/ rows' = [rows EXCEPT ![e] = "stored"] /\ pc' = "handle"
             \/ Accounted(e)' /\ rows' = rows /\ pc' = "advance"
    BY <1>9 DEF SaveRawEvent, Accounted
  <2>2. UNCHANGED <<tip, emitted, ledgerOf, ckpt, pos, latest, page, pageFull, pageLatest>>
    BY <1>9 DEF SaveRawEvent
  <2>3. e \in Events /\ Accounted(e)'
    BY <2>1 DEF TypeOK, Accounted
  <2>4. pc = "save"
    BY <1>9 DEF SaveRawEvent
  <2>5. ChainOK'
    BY <2>2 DEF ChainOK
  <2>6. PageOK'
    BY <1>a, <2>1, <2>2, <2>3, <2>4 DEF PageOK, IsNext
  <2>7. NoEventSkipped'
    BY <1>a, <2>2 DEF NoEventSkipped, Behind
  <2> QED
    BY <2>5, <2>6, <2>7
<1>10. CASE RunHandler
  BY <1>10 DEF RunHandler, ChainOK, PageOK, NoEventSkipped, Accounted, Behind
<1>11. CASE MarkEventProcessed
  <2>1. rows' = rows \/ rows' = [rows EXCEPT ![cur] = IF pc = "markOk" THEN "processed" ELSE "failed"]
    BY <1>11 DEF MarkEventProcessed
  <2>2. pc \in {"markOk", "markFailed"} /\ pc' = "advance"
    BY <1>11 DEF MarkEventProcessed
  <2>3. UNCHANGED <<tip, emitted, ledgerOf, ckpt, pos, latest, page, pageFull, pageLatest, cur,
                    abandoned, refused>>
    BY <1>11 DEF MarkEventProcessed
  <2>4. cur \in Events /\ Accounted(cur)'
    BY <1>a, <2>2, <2>3 DEF PageOK, TypeOK, Accounted
  <2>5. ChainOK'
    BY <2>3 DEF ChainOK
  <2>6. PageOK'
    BY <1>a, <2>2, <2>3, <2>4 DEF PageOK
  <2>7. NoEventSkipped'
    BY <1>a, <2>3 DEF NoEventSkipped, Behind
  <2> QED
    BY <2>5, <2>6, <2>7
<1>12. CASE AdvancePastEvent
  <2>1. pc = "advance" /\ pos' = PastEvent(cur) /\ page' = page \ {cur} /\ pc' = "eventPersist"
    BY <1>12 DEF AdvancePastEvent
  <2>2. UNCHANGED <<tip, emitted, ledgerOf, rows, ckpt, latest, pageFull, pageLatest, cur,
                    abandoned, refused>>
    BY <1>12 DEF AdvancePastEvent
  <2>3. /\ cur \in Events /\ cur \in page /\ Accounted(cur)
        /\ ledgerOf[cur] <= pageLatest /\ \A f \in page : cur <= f
    BY <2>1 DEF PageOK, TypeOK
  <2>4. /\ pos'.cursor = cur
        /\ pos'.ledger <= pageLatest + 1
    BY <2>1, <2>3 DEF PageOK, PastEvent, Larger, TypeOK, Position
  <2>5. \A e \in Events : e <= cur => Accounted(e)
    <3> SUFFICES ASSUME NEW e \in Events, e <= cur PROVE Accounted(e)
      OBVIOUS
    <3>1. e \in page \/ Accounted(e)
      BY <2>1, <2>3 DEF PageOK
    <3>2. e \in page => e = cur
      BY <2>3, ConstantsAssumption DEF Events
    <3> QED
      BY <2>3, <3>1, <3>2
  <2>6. \A e \in Events : Accounted(e)' <=> Accounted(e)
    BY <2>2 DEF Accounted
  <2>7. ChainOK'
    BY <2>2, <2>4 DEF ChainOK, TypeOK, Position
  <2>8. PageOK'
    BY <2>1, <2>2, <2>3, <2>4, <2>6 DEF PageOK
  <2>9. \A e \in Events : Behind(pos, e)' => Accounted(e)
    BY <2>3, <2>4, <2>5 DEF Behind, Events, NoCursor
  <2> QED
    BY <2>2, <2>6, <2>7, <2>8, <2>9 DEF NoEventSkipped, Behind
<1>13. CASE NoAdvancingToken
  <2>1. \/ JumpTo([pos EXCEPT !.ledger = Larger(@, ledgerOf[cur] + 1)])
        \/ UNCHANGED <<pos, abandoned>>
    BY <1>13 DEF NoAdvancingToken
  <2>2. pc = "advance" /\ pc' = "finally"
    BY <1>13 DEF NoAdvancingToken
  <2>3. UNCHANGED <<tip, emitted, ledgerOf, rows, ckpt, latest, page, pageFull, pageLatest, cur,
                    refused>>
    BY <1>13 DEF NoAdvancingToken
  <2>4. pos'.ledger <= tip + 1
    <3>1. pos.ledger <= tip + 1 /\ ledgerOf[cur] + 1 <= tip + 1
      BY <2>2 DEF ChainOK, PageOK, TypeOK, Position
    <3> QED
      BY <2>1, <3>1 DEF JumpTo, Larger, TypeOK, Position
  <2>5. ChainOK'
    BY <2>3, <2>4 DEF ChainOK
  <2>6. PageOK'
    BY <1>a, <2>2, <2>3 DEF PageOK
  <2>7. pos \notin ForeignCheckpoints
    <3>1. pos.ledger <= pageLatest + 1 /\ pageLatest <= tip /\ tip <= MaxLedger
      BY <2>2 DEF ChainOK, PageOK
    <3>2. pos.ledger \in Nat /\ pageLatest \in Nat /\ tip \in Nat /\ MaxLedger \in Nat
      BY ConstantsAssumption DEF TypeOK, Position
    <3> QED
      BY <3>1, <3>2, ForeignIsAhead
  <2>8. \A e \in Events : Behind(pos, e)' => Accounted(e)'
    <3>1. CASE UNCHANGED <<pos, abandoned>>
      BY <1>a, <2>3, <2>7, <3>1 DEF NoEventSkipped, Behind
    <3>2. CASE JumpTo([pos EXCEPT !.ledger = Larger(@, ledgerOf[cur] + 1)])
      BY <2>3, <3>2 DEF JumpTo, Accounted, Behind
    <3> QED
      BY <2>1, <3>1, <3>2
  <2>9. ckpt \notin ForeignCheckpoints => \A e \in Events : Behind(ckpt, e)' => Accounted(e)'
    BY <1>a, <2>3 DEF NoEventSkipped, Behind
  <2> QED
    BY <2>3, <2>5, <2>6, <2>8, <2>9 DEF NoEventSkipped
<1>14. CASE PersistCheckpoint
  <2>1. ckpt' = pos \/ ckpt' = ckpt
    BY <1>14 DEF PersistCheckpoint, WriteCheckpoint
  <2>2. UNCHANGED <<tip, emitted, ledgerOf, rows, latest, page, pageFull, pageLatest, cur,
                    abandoned, refused>>
    BY <1>14 DEF PersistCheckpoint
  <2>3. \/ UNCHANGED pos /\ pc' \in {"idle", "finally", "fetch"}
        \/ pc = "eventPersist" /\ UNCHANGED pos /\ pc' = "save"
        \/ /\ pc = "eventPersist" /\ page = {} /\ ~pageFull
           /\ pos' = DrainedTo(pageLatest) /\ pc' = "finally"
    BY <1>14 DEF PersistCheckpoint, AfterEvent
  <2>4. pos' \in ForeignCheckpoints \/ pos'.ledger <= tip + 1
    <3>1. CASE UNCHANGED pos
      BY <3>1 DEF ChainOK
    <3>2. CASE pc = "eventPersist" /\ pos' = DrainedTo(pageLatest)
      BY <3>2 DEF ChainOK, PageOK, DrainedTo, Larger, TypeOK, Position
    <3> QED
      BY <2>3, <3>1, <3>2
  <2>5. ChainOK'
    BY <2>1, <2>2, <2>4 DEF ChainOK
  <2>6. \A e \in Events : Accounted(e)' <=> Accounted(e)
    BY <2>2 DEF Accounted
  <2>7. PageOK'
    BY <2>2, <2>3, <2>6 DEF PageOK
  <2>8. pos' \notin ForeignCheckpoints => \A e \in Events : Behind(pos, e)' => Accounted(e)
    <3>1. CASE UNCHANGED pos
      BY <2>2, <3>1 DEF NoEventSkipped, Behind
    <3>2. CASE /\ pc = "eventPersist" /\ page = {} /\ ~pageFull
               /\ pos' = DrainedTo(pageLatest)
      <4>1. pos'.ledger = pageLatest + 1 /\ pos'.cursor = NoCursor
        BY <3>2 DEF PageOK, DrainedTo, Larger, TypeOK, Position
      <4> QED
        BY <2>2, <3>2, <4>1 DEF Behind, PageOK, TypeOK
    <3> QED
      BY <2>3, <3>1, <3>2
  <2>9. ckpt' \notin ForeignCheckpoints => \A e \in Events : Behind(ckpt, e)' => Accounted(e)
    BY <2>1, <2>2 DEF NoEventSkipped, Behind
  <2> QED
    BY <2>5, <2>6, <2>7, <2>8, <2>9 DEF NoEventSkipped
<1>15. CASE Crash
  <2>1. pos' = NoPosition /\ pc' = "down" /\ latest' = NoLedger /\ pageLatest' = NoLedger
        /\ page' = {}
    BY <1>15 DEF Crash
  <2>2. UNCHANGED <<tip, emitted, ledgerOf, rows, ckpt, abandoned, refused>>
    BY <1>15 DEF Crash
  <2>3. ChainOK'
    <3>1. tip \in Nat /\ tip >= 1
      BY DEF TypeOK, ChainOK
    <3>2. latest' = 0 /\ pageLatest' = 0 /\ pos'.ledger = 0
      BY <2>1 DEF NoPosition, NoLedger
    <3> QED
      BY <2>2, <3>1, <3>2 DEF ChainOK
  <2>4. PageOK'
    BY <2>1 DEF PageOK
  <2>5. NoEventSkipped'
    BY <2>1, <2>2, NoPositionSkipsNothing DEF NoEventSkipped, Accounted, Behind
  <2> QED
    BY <2>3, <2>4, <2>5
<1>16. CASE UNCHANGED vars
  BY <1>16 DEF vars, ChainOK, PageOK, NoEventSkipped, Accounted, Behind
<1> QED
  BY <1>1, <1>2, <1>3, <1>4, <1>5, <1>6, <1>7, <1>8, <1>9, <1>10, <1>11, <1>12,
     <1>13, <1>14, <1>15, <1>16 DEF Next, Poller

LEMMA SkipInvariant == Spec => []SkipInv
<1>1. Init => SkipInv
  BY SkipInvInit
<1>2. TypeOK /\ TypeOK' /\ SkipInv /\ [Next]_vars => SkipInv'
  BY SkipInvInductive
<1> QED
  BY <1>1, <1>2, TypeCorrect, PTL DEF Spec

\* No crash, failed read or write, lost checkpoint, repeated page or page
\* boundary makes the poller pass over an event silently: what lies behind its
\* position was read, or was jumped over by a restart near the tip.
THEOREM NoSkip == Spec => []NoEventSkipped
BY SkipInvariant, PTL DEF SkipInv

-----------------------------------------------------------------------------
(***************************************************************************)
(* What health reports.  A process that booted holds the position of the   *)
(* checkpoint row or none; the only move of the position that is not       *)
(* followed by a write is the one away from another network's checkpoint.  *)
(***************************************************************************)
BootInv == pc = "init" => pos = ckpt \/ pos = NoPosition

LEMMA HealthyInductive ==
  ASSUME TypeOK, ChainOK, BootInv, HealthyMeansPersisted, [Next]_vars
  PROVE  BootInv' /\ HealthyMeansPersisted'
<1> USE DEF BootInv, HealthyMeansPersisted, chainVars, dbVars, pollVars
<1>0. ForeignCheckpoints' = ForeignCheckpoints
  BY DEF ForeignCheckpoints, NoCursor
<1>1. CASE UNCHANGED <<pc, pos, ckpt, writeFailures>>
  BY <1>0, <1>1
<1>2. CASE LoadCheckpoint
  BY <1>0, <1>2 DEF LoadCheckpoint
<1>3. CASE InitCheckpoint
  <2>1. PICK tipRead \in {tip, NoLedger} :
          \/ pc' = "coldPersist"
          \/ pos.ledger # NoLedger /\ AheadOfTip(tipRead)
          \/ pos.ledger # NoLedger /\ pos' = pos
    BY <1>3 DEF InitCheckpoint
  <2>2. pc = "init" /\ pc' \in {"coldPersist", "idle"} /\ UNCHANGED <<ckpt, writeFailures>>
    BY <1>3 DEF InitCheckpoint
  <2>3. CASE pos.ledger # NoLedger
    <3>1. pos = ckpt
      BY <2>2, <2>3 DEF NoPosition
    <3>2. AheadOfTip(tipRead) => ckpt \in ForeignCheckpoints
      BY <3>1 DEF AheadOfTip, ChainOK, TypeOK, Position, NoLedger
    <3> QED
      BY <1>0, <2>1, <2>2, <3>1, <3>2
  <2> QED
    BY <1>0, <2>1, <2>2, <2>3
<1>4. CASE PersistCheckpoint
  <2>1. pc' # "init"
    BY <1>4 DEF PersistCheckpoint, AfterEvent
  <2>2. ASSUME pc' = "idle" PROVE UNCHANGED pos
    BY <1>4, <2>2 DEF PersistCheckpoint, AfterEvent
  <2>3. ckpt' = pos \/ writeFailures' # 0
    BY <1>4 DEF PersistCheckpoint, WriteCheckpoint, TypeOK
  <2> QED
    BY <1>0, <2>1, <2>2, <2>3
<1>5. ASSUME pc' \notin {"init", "idle"} PROVE BootInv' /\ HealthyMeansPersisted'
  BY <1>5
<1>6. CASE CloseLedger \/ PruneLedger \/ UNCHANGED vars
  BY <1>1, <1>6 DEF CloseLedger, PruneLedger, vars
<1>7. StartPoll \/ FetchPage \/ FetchOutOfRange \/ FetchFails => pc' \notin {"init", "idle"}
  BY DEF StartPoll, FetchPage, FetchOutOfRange, FetchFails
<1>8. SaveRawEvent \/ RunHandler \/ MarkEventProcessed \/ AdvancePastEvent
        \/ NoAdvancingToken \/ Crash => pc' \notin {"init", "idle"}
  BY DEF SaveRawEvent, RunHandler, MarkEventProcessed, AdvancePastEvent, NoAdvancingToken, Crash
<1> QED
  BY <1>2, <1>3, <1>4, <1>5, <1>6, <1>7, <1>8 DEF Next, Poller

\* Whenever health reports no failed write and no poll is running, a restart
\* would resume from the position in memory, through all crashes, failed loads,
\* cold starts and jumps; a checkpoint of another network is the exception.
THEOREM HealthIsTruthful == Spec => []HealthyMeansPersisted
<1>1. Init => BootInv /\ HealthyMeansPersisted
  BY DEF Init, BootInv, HealthyMeansPersisted
<1>2. TypeOK /\ SkipInv /\ BootInv /\ HealthyMeansPersisted /\ [Next]_vars
        => BootInv' /\ HealthyMeansPersisted'
  BY HealthyInductive DEF SkipInv
<1> QED
  BY <1>1, <1>2, TypeCorrect, SkipInvariant, PTL DEF Spec

-----------------------------------------------------------------------------
(***************************************************************************)
(* Handlers in chain order.  While nothing was jumped over or refused, the *)
(* rows are a prefix of the chain: the event whose handler is about to run *)
(* is the last that has a row, and an event without a row was not handled. *)
(***************************************************************************)
NothingGivenUp == abandoned \union refused = {}

StoredInOrder ==
  NothingGivenUp =>
    /\ \A e, f \in Events : rows[f] # "absent" /\ e <= f => rows[e] # "absent"
    /\ pc = "handle" => \A f \in Events : f > cur => rows[f] = "absent"

\* What was given up is never taken back.
LEMMA GivenUpStays == ASSUME TypeOK, [Next]_vars, NothingGivenUp' PROVE NothingGivenUp
<1> USE DEF NothingGivenUp
<1>1. abandoned \subseteq abandoned' /\ refused \subseteq refused'
  BY DEF Next, Poller, vars, CloseLedger, PruneLedger, LoadCheckpoint, InitCheckpoint, JumpTo,
         StartPoll, FetchPage, FetchOutOfRange, FetchFails, SaveRawEvent, RunHandler,
         MarkEventProcessed, AdvancePastEvent, NoAdvancingToken, PersistCheckpoint, Crash
<1> QED
  BY <1>1

LEMMA StoredInOrderInductive ==
  ASSUME TypeOK, PageOK, StoredInOrder, [Next]_vars
  PROVE  StoredInOrder'
<1> SUFFICES ASSUME NothingGivenUp, NothingGivenUp' PROVE StoredInOrder'
  BY GivenUpStays DEF StoredInOrder
<1> USE DEF StoredInOrder, chainVars, dbVars, pollVars
<1>1. CASE SaveRawEvent
  <2>1. PICK e \in page : IsNext(e) /\ cur' = e
          /\ \/ ~IsDuplicate(e) /\ rows' = [rows EXCEPT ![e] = "stored"]
             \/ rows' = rows /\ pc' = "advance"
    BY <1>1 DEF SaveRawEvent
  <2>2. e \in Events /\ rows \in [Events -> RowStates]
    BY DEF TypeOK
  <2>3. CASE rows' = rows /\ pc' = "advance"
    BY <2>3
  <2>4. CASE ~IsDuplicate(e) /\ rows' = [rows EXCEPT ![e] = "stored"]
    <3>1. rows[e] = "absent"
      BY <2>2, <2>4 DEF IsDuplicate
    <3>2. \A f \in Events : f > e => rows[f] = "absent"
      BY <2>2, <3>1 DEF Events
    <3>3. \A d \in Events : d < e => rows[d] # "absent"
      <4> SUFFICES ASSUME NEW d \in Events, d < e PROVE rows[d] # "absent"
        OBVIOUS
      <4>1. d \notin page
        BY <2>1, <2>2 DEF IsNext, Events
      <4>2. pc = "save"
        BY <1>1 DEF SaveRawEvent
      <4>3. Accounted(d)
        BY <2>1, <2>2, <4>1, <4>2 DEF PageOK, PageSteps, Events
      <4> QED
        BY <4>3 DEF Accounted, NothingGivenUp
    <3>4. \A f \in Events : f # e => rows'[f] = rows[f]
      BY <2>2, <2>4
    <3>5. rows'[e] # "absent"
      BY <2>2, <2>4
    <3>6. \A d, f \in Events : rows'[f] # "absent" /\ d <= f => rows'[d] # "absent"
      BY <2>2, <3>2, <3>3, <3>4, <3>5 DEF Events
    <3>7. \A f \in Events : f > cur' => rows'[f] = "absent"
      BY <2>1, <2>2, <3>2, <3>4 DEF Events
    <3> QED
      BY <3>6, <3>7
  <2> QED
    BY <2>1, <2>3, <2>4
<1>2. CASE MarkEventProcessed
  <2>1. pc' # "handle" /\ cur \in Events /\ rows \in [Events -> RowStates]
    BY <1>2 DEF MarkEventProcessed, TypeOK, CurSteps
  <2>2. \A e \in Events : rows[e] # "absent" => rows'[e] # "absent"
    BY <1>2, <2>1 DEF MarkEventProcessed
  <2>3. \A e \in Events : e # cur => rows'[e] = rows[e]
    BY <1>2, <2>1 DEF MarkEventProcessed
  <2>4. rows[cur] # "absent"
    BY <1>2 DEF MarkEventProcessed, PageOK, Accounted, CurSteps, NothingGivenUp
  <2> QED
    BY <2>1, <2>2, <2>3, <2>4
<1>3. CASE UNCHANGED rows /\ pc' # "handle"
  BY <1>3
<1>4. CASE CloseLedger \/ PruneLedger \/ UNCHANGED vars
  BY <1>4 DEF CloseLedger, PruneLedger, vars
<1>5. LoadCheckpoint \/ InitCheckpoint \/ StartPoll \/ FetchPage \/ FetchOutOfRange \/ FetchFails
        => UNCHANGED rows /\ pc' # "handle"
  BY DEF LoadCheckpoint, InitCheckpoint, StartPoll, FetchPage, FetchOutOfRange, FetchFails
<1>6. RunHandler \/ AdvancePastEvent \/ NoAdvancingToken \/ PersistCheckpoint \/ Crash
        => UNCHANGED rows /\ pc' # "handle"
  BY DEF RunHandler, AdvancePastEvent, NoAdvancingToken, PersistCheckpoint, AfterEvent, Crash
<1> QED
  BY <1>1, <1>2, <1>3, <1>4, <1>5, <1>6 DEF Next, Poller

\* Handlers start in chain order as long as no event was jumped over or refused
\* by the database: no crash, lost checkpoint, repeated page or late answer
\* starts the handler of an event after that of a later one.
THEOREM InChainOrder == Spec => HandledInOrder
<1>1. Init => StoredInOrder
  BY DEF Init, StoredInOrder
<1>2. TypeOK /\ SkipInv /\ StoredInOrder /\ [Next]_vars => StoredInOrder'
  BY StoredInOrderInductive DEF SkipInv
<1>3. AtMostOnceInv /\ StoredInOrder /\ [Next]_vars =>
        [\A e, f \in Events :
           runs'[e] # runs[e] /\ f > e /\ abandoned \union refused = {} => runs[f] = 0]_vars
  <2> SUFFICES ASSUME AtMostOnceInv, StoredInOrder, Next, NothingGivenUp,
                      NEW e \in Events, NEW f \in Events, runs'[e] # runs[e], f > e
               PROVE  runs[f] = 0
    BY DEF NothingGivenUp
  <2>1. RunHandler
    BY DEF Next, Poller, CloseLedger, PruneLedger, LoadCheckpoint, InitCheckpoint,
           StartPoll, FetchPage, FetchOutOfRange, FetchFails, SaveRawEvent,
           MarkEventProcessed, AdvancePastEvent, NoAdvancingToken, PersistCheckpoint, Crash
  <2>2. pc = "handle" /\ cur = e
    BY <2>1 DEF RunHandler, AtMostOnceInv, TypeOK
  <2>3. rows[f] = "absent"
    BY <2>2 DEF StoredInOrder
  <2> QED
    BY <2>3 DEF AtMostOnceInv, RowRemembersRun
<1> QED
  BY <1>1, <1>2, <1>3, TypeCorrect, SkipInvariant, AtMostOnceInvariant, PTL DEF Spec, HandledInOrder

-----------------------------------------------------------------------------
(***************************************************************************)
(* The jobs beside the poller, as MCEventPoller joins them.  What a run    *)
(* wrote when its job ended is what became of the job.                     *)
(***************************************************************************)
RowsTold ==
  /\ Monitor!TypeOK /\ Monitor!RowTellsOutcome
  /\ \A r \in CronRuns : runAt[r] = "finish" => outcome[r] \in {"SUCCESS", "FAILED", "SKIPPED"}

\* An export under way, or of the day: as long as requests do not overlap there is one.
Ongoing(e) ==
  \/ exportStatus[e] \in {"PENDING", "PROCESSING"}
  \/ exportStatus[e] # "none" /\ requested[e] = day

\* A job is on the queue, or with a worker, on the day of its row's request only.
QueueOfToday ==
  /\ \A e \in Exports : tries[e] > 0 => exportStatus[e] # "none" /\ requested[e] = day
  /\ \A e \in working : tries[e] > 0 /\ exportStatus[e] = "PROCESSING"
  /\ \A c \in Clients : request[c].pc = "enqueue" =>
       /\ request[c].export \in Exports
       /\ exportStatus[request[c].export] # "none" /\ requested[request[c].export] = day

OneByOne ==
  /\ \A c, d \in Clients : request[c].pc # "idle" /\ request[d].pc # "idle" => c = d
  /\ \A c \in Clients : request[c].pc = "create" => \A e \in Exports : ~Ongoing(e)
  /\ \A e, f \in Exports : Ongoing(e) /\ Ongoing(f) => e = f

RequestType ==
  [pc : {"idle", "create", "enqueue"}, export : Exports \union {Export!Idle.export}]

ExportTypes ==
  /\ Export!TypeOK /\ request \in [Clients -> RequestType]
  /\ requested \in [Exports -> Int] /\ (\A e \in Exports : requested[e] <= day)
  /\ expires \in [Exports -> Int] /\ day \in Nat

ExportInv ==
  /\ ExportTypes /\ QueueOfToday
  /\ raced = FALSE => OneByOne
  /\ \A e \in Exports \ again : exportStatus[e] = "COMPLETED" <=> e \in payload

(***************************************************************************)
(* CronMonitorService                                                      *)
(***************************************************************************)
LEMMA RowsInitially == Monitor!Init => RowsTold
BY DEF Monitor!Init, RowsTold, Monitor!TypeOK, Monitor!RowTellsOutcome, Monitor!Settled

LEMMA RowsInductive == RowsTold /\ [Monitor!Next]_(Monitor!vars) => RowsTold'
<1> SUFFICES ASSUME RowsTold, [Monitor!Next]_(Monitor!vars) PROVE RowsTold'
  OBVIOUS
<1> USE DEF RowsTold, Monitor!TypeOK, Monitor!RowTellsOutcome, Monitor!Settled
<1>1. ASSUME NEW r \in CronRuns, Monitor!Start(r) PROVE RowsTold'
  <2>1. PICK skip \in BOOLEAN :
          /\ runAt' = [runAt EXCEPT ![r] = IF skip THEN "finish" ELSE "callback"]
          /\ outcome' = [outcome EXCEPT ![r] = IF skip THEN "SKIPPED" ELSE "none"]
    BY <1>1 DEF Monitor!Start
  <2>2. runStatus' = [runStatus EXCEPT ![r] = "RUNNING"] /\ UNCHANGED <<stale, found, overtaken>>
    BY <1>1 DEF Monitor!Start
  <2>3. CASE skip
    BY <2>1, <2>2, <2>3
  <2>4. CASE ~skip
    BY <2>1, <2>2, <2>4
  <2> QED BY <2>3, <2>4
<1>2. ASSUME NEW r \in CronRuns, Monitor!Callback(r) PROVE RowsTold'
  BY <1>2 DEF Monitor!Callback
<1>3. ASSUME NEW r \in CronRuns, Monitor!FinishRun(r) PROVE RowsTold'
  BY <1>3 DEF Monitor!FinishRun, Monitor!Recorded
<1>4. ASSUME NEW r \in CronRuns, Monitor!FinishFails(r) PROVE RowsTold'
  BY <1>4 DEF Monitor!FinishFails
<1>5. ASSUME NEW r \in CronRuns, Monitor!Crash(r) PROVE RowsTold'
  BY <1>5 DEF Monitor!Crash
<1>6. ASSUME NEW r \in CronRuns, Monitor!PassThreshold(r) PROVE RowsTold'
  BY <1>6 DEF Monitor!PassThreshold
<1>7. ASSUME NEW r \in CronRuns, Monitor!Purge(r) PROVE RowsTold'
  BY <1>7 DEF Monitor!Purge
<1>8. ASSUME NEW c \in Cleaners, Monitor!FindStaleRuns(c) PROVE RowsTold'
  BY <1>8 DEF Monitor!FindStaleRuns, Monitor!StaleRuns
<1>9. ASSUME NEW c \in Cleaners, Monitor!MarkStaleRuns(c) PROVE RowsTold'
  BY <1>9 DEF Monitor!MarkStaleRuns
<1>10. CASE UNCHANGED Monitor!vars
  BY <1>10 DEF Monitor!vars
<1> QED BY <1>1, <1>2, <1>3, <1>4, <1>5, <1>6, <1>7, <1>8, <1>9, <1>10 DEF Monitor!Next

(***************************************************************************)
(* DataExportService                                                       *)
(***************************************************************************)
OnlyClient(c) == \A d \in Clients : d # c => request'[d] = request[d]

LEMMA ClientMoves ==
  ASSUME ExportTypes, NEW c \in Clients, NEW new \in RequestType, request' = [request EXCEPT ![c] = new]
  PROVE  /\ request' \in [Clients -> RequestType]
         /\ OnlyClient(c) /\ request'[c] = new
BY DEF ExportTypes, OnlyClient

LEMMA IdleClient == Export!Idle \in RequestType /\ Export!Idle.pc = "idle"
<1>1. \E x : Export!Idle = [pc |-> "idle", export |-> x]
  BY DEF Export!Idle
<1> QED BY <1>1 DEF RequestType

LEMMA ClientEnds ==
  ASSUME ExportTypes, NEW c \in Clients, request' = [request EXCEPT ![c] = Export!Idle]
  PROVE  /\ request' \in [Clients -> RequestType]
         /\ OnlyClient(c) /\ request'[c].pc = "idle"
BY IdleClient, ClientMoves

LEMMA RequestBegins ==
  ASSUME ExportTypes, NEW c \in Clients, Export!CheckRequest(c)
  PROVE  /\ request' \in [Clients -> RequestType]
         /\ OnlyClient(c) /\ request'[c].pc = "create" /\ request[c].pc = "idle"
<1> DEFINE new == [request[c] EXCEPT !.pc = "create"]
<1>1. request[c] = Export!Idle /\ request' = [request EXCEPT ![c] = new]
  BY DEF Export!CheckRequest, ExportTypes
<1>2. new \in RequestType /\ new.pc = "create"
  BY DEF ExportTypes, RequestType
<1> HIDE DEF new
<1> QED BY <1>1, <1>2, IdleClient, ClientMoves

LEMMA ExportInitially == Export!Init => ExportInv
<1> SUFFICES ASSUME Export!Init PROVE ExportInv
  OBVIOUS
<1>1. \A c \in Clients : request[c].pc = "idle"
  BY IdleClient DEF Export!Init
<1>2. request \in [Clients -> RequestType]
  BY IdleClient DEF Export!Init
<1>3. /\ exportStatus = [e \in Exports |-> "none"] /\ payload = {} /\ day = 0
      /\ requested = [e \in Exports |-> 0] /\ expires = [e \in Exports |-> 0]
      /\ tries = [e \in Exports |-> 0] /\ working = {} /\ died = {}
      /\ raced = FALSE /\ lost = {} /\ again = {}
  BY DEF Export!Init
<1>4. ExportTypes
  <2>1. MaxTries \in Nat /\ MaxDay \in Nat
    BY JobsAssumption DEF Export!ConstantsAssumption
  <2>2. Export!TypeOK
    <3>1. exportStatus \in [Exports -> Export!Settled \union {"none", "PENDING", "PROCESSING"}]
      BY <1>3
    <3>2. tries \in [Exports -> 0 .. MaxTries] /\ day \in 0 .. MaxDay
      BY <1>3, <2>1
    <3> QED BY <1>1, <1>3, <3>1, <3>2 DEF Export!TypeOK
  <2>3. requested \in [Exports -> Int] /\ expires \in [Exports -> Int] /\ day \in Nat
    BY <1>3
  <2>4. \A e \in Exports : requested[e] <= day
    BY <1>3
  <2> QED BY <1>2, <2>2, <2>3, <2>4 DEF ExportTypes
<1>5. QueueOfToday
  BY <1>1, <1>3 DEF QueueOfToday
<1>6. OneByOne
  BY <1>1, <1>3 DEF OneByOne, Ongoing
<1>7. \A e \in Exports \ again : exportStatus[e] = "COMPLETED" <=> e \in payload
  BY <1>3
<1> QED BY <1>4, <1>5, <1>6, <1>7 DEF ExportInv

\* The steps of a request.
LEMMA RequestSteps ==
  ASSUME ExportInv, NEW c \in Clients,
         \/ Export!CheckRequest(c) \/ Export!Enqueue(c) \/ Export!RequestFails(c)
         \/ \E e \in Exports : Export!CreateRow(c, e)
  PROVE  ExportInv'
<1> USE DEF Export!times, Export!queue, Export!history, Export!Settled
<1>0. /\ ExportTypes /\ QueueOfToday /\ (raced = FALSE => OneByOne)
      /\ (\A e \in Exports \ again : exportStatus[e] = "COMPLETED" <=> e \in payload)
      /\ request \in [Clients -> RequestType] /\ requested \in [Exports -> Int] /\ day \in Nat
  BY DEF ExportInv, ExportTypes
<1>1. CASE Export!CheckRequest(c)
  <2>1. /\ UNCHANGED <<exportStatus, payload, lost, again, day, requested, expires, tries,
                       working, died>>
        /\ Export!InFlight = {} /\ \A e \in Exports : exportStatus[e] # "none" => requested[e] < day
        /\ raced' = (raced \/ \E o \in Clients : request[o] # Export!Idle)
    BY <1>1 DEF Export!CheckRequest
  <2>2. /\ request' \in [Clients -> RequestType] /\ OnlyClient(c)
        /\ request'[c].pc = "create" /\ request[c].pc = "idle"
    BY <1>0, <1>1, RequestBegins
  <2>3. raced \in BOOLEAN /\ raced' \in BOOLEAN
    BY <1>0, <2>1, Zenon DEF ExportTypes, Export!TypeOK
  <2>4. ASSUME raced' = FALSE PROVE OneByOne'
    <3>1. raced = FALSE /\ \A o \in Clients : request[o] = Export!Idle
      BY <2>1, <2>3, <2>4, Zenon
    <3>2. \A d \in Clients : d # c => request'[d].pc = "idle"
      BY <2>2, <3>1, IdleClient DEF OnlyClient
    <3>3. \A e \in Exports : ~Ongoing(e)
      BY <1>0, <2>1 DEF Export!InFlight, Export!InFlightStatuses, Ongoing
    <3>4. \A e \in Exports : Ongoing(e)' = Ongoing(e)
      BY <2>1 DEF Ongoing
    <3> QED BY <2>2, <3>2, <3>3, <3>4 DEF OneByOne
  <2>5. ExportTypes'
    BY <1>0, <2>1, <2>2, <2>3 DEF ExportTypes, Export!TypeOK, RequestType
  <2>6. QueueOfToday'
    BY <1>0, <2>1, <2>2 DEF QueueOfToday, OnlyClient
  <2> QED BY <1>0, <2>1, <2>4, <2>5, <2>6 DEF ExportInv
<1>2. ASSUME NEW e \in Exports, Export!CreateRow(c, e) PROVE ExportInv'
  <2> DEFINE new == [pc |-> "enqueue", export |-> e]
  <2>1. /\ UNCHANGED <<payload, day, expires, tries, working, died, raced, lost, again>>
        /\ request[c].pc = "create" /\ exportStatus[e] = "none"
        /\ exportStatus' = [exportStatus EXCEPT ![e] = "PENDING"]
        /\ requested' = [requested EXCEPT ![e] = day]
        /\ request' = [request EXCEPT ![c] = new]
    BY <1>2 DEF Export!CreateRow
  <2>2. new \in RequestType /\ new.pc = "enqueue" /\ new.export = e
    BY DEF RequestType
  <2> HIDE DEF new
  <2>3. request' \in [Clients -> RequestType] /\ OnlyClient(c) /\ request'[c] = new
    BY <1>0, <2>1, <2>2, ClientMoves
  <2>4. exportStatus \in [Exports -> Export!Settled \union {"none", "PENDING", "PROCESSING"}]
    BY <1>0 DEF ExportTypes, Export!TypeOK
  <2>5. /\ exportStatus' \in [Exports -> Export!Settled \union {"none", "PENDING", "PROCESSING"}]
        /\ exportStatus'[e] = "PENDING" /\ \A f \in Exports : f # e => exportStatus'[f] = exportStatus[f]
    BY <2>1, <2>4
  <2>6. /\ requested' \in [Exports -> Int] /\ requested'[e] = day
        /\ \A f \in Exports : f # e => requested'[f] = requested[f]
    BY <1>0, <2>1
  <2>7. ExportTypes'
    <3>1. \A f \in Exports : requested'[f] <= day
      BY <1>0, <2>6 DEF ExportTypes
    <3>2. \A d \in Clients : request'[d].pc \in {"idle", "create", "enqueue"}
      BY <2>3 DEF RequestType
    <3> QED BY <1>0, <2>1, <2>3, <2>5, <2>6, <3>1, <3>2 DEF ExportTypes, Export!TypeOK
  <2>8. e \notin working /\ ~(tries[e] > 0)
    BY <1>0, <2>1 DEF QueueOfToday
  <2>9. QueueOfToday'
    <3>1. \A f \in Exports : tries'[f] > 0 => exportStatus'[f] # "none" /\ requested'[f] = day'
      BY <1>0, <2>1, <2>5, <2>6 DEF QueueOfToday
    <3>2. \A f \in working' : tries'[f] > 0 /\ exportStatus'[f] = "PROCESSING"
      BY <1>0, <2>1, <2>5, <2>8 DEF QueueOfToday, ExportTypes, Export!TypeOK
    <3>3. ASSUME NEW d \in Clients, request'[d].pc = "enqueue"
          PROVE  /\ request'[d].export \in Exports
                 /\ exportStatus'[request'[d].export] # "none"
                 /\ requested'[request'[d].export] = day'
      BY <1>0, <2>1, <2>2, <2>3, <2>5, <2>6, <3>3 DEF QueueOfToday, OnlyClient
    <3> QED BY <3>1, <3>2, <3>3 DEF QueueOfToday
  <2>10. ASSUME raced = FALSE PROVE OneByOne'
    <3>1. \A f \in Exports : ~Ongoing(f)
      BY <1>0, <2>1, <2>10 DEF OneByOne
    <3>2. \A f \in Exports : f # e => ~Ongoing(f)'
      BY <2>1, <2>5, <2>6, <3>1 DEF Ongoing
    <3>3. \A d \in Clients : d # c => request'[d].pc = "idle"
      BY <1>0, <2>1, <2>3, <2>10 DEF OneByOne, OnlyClient
    <3> QED BY <2>2, <2>3, <3>2, <3>3 DEF OneByOne
  <2>11. \A f \in Exports \ again' : exportStatus'[f] = "COMPLETED" <=> f \in payload'
    BY <1>0, <2>1, <2>5
  <2> QED BY <2>1, <2>7, <2>9, <2>10, <2>11 DEF ExportInv
<1>3. CASE Export!Enqueue(c)
  <2> DEFINE e == request[c].export
  <2>1. /\ UNCHANGED <<exportStatus, payload, working, died, day, requested, expires, raced, lost, again>>
        /\ request[c].pc = "enqueue" /\ tries' = [tries EXCEPT ![e] = MaxTries]
        /\ request' = [request EXCEPT ![c] = Export!Idle]
    BY <1>3 DEF Export!Enqueue
  <2>2. e \in Exports /\ exportStatus[e] # "none" /\ requested[e] = day
    BY <1>0, <2>1 DEF QueueOfToday
  <2> HIDE DEF e
  <2>3. request' \in [Clients -> RequestType] /\ OnlyClient(c) /\ request'[c].pc = "idle"
    BY <1>0, <2>1, ClientEnds
  <2>4. MaxTries \in Nat /\ MaxTries > 0
    BY JobsAssumption DEF Export!ConstantsAssumption
  <2>5. /\ tries' \in [Exports -> 0 .. MaxTries] /\ tries'[e] > 0
        /\ \A f \in Exports : f # e => tries'[f] = tries[f]
    BY <1>0, <2>1, <2>2, <2>4 DEF ExportTypes, Export!TypeOK
  <2>6. ExportTypes'
    BY <1>0, <2>1, <2>3, <2>5 DEF ExportTypes, Export!TypeOK, RequestType
  <2>7. QueueOfToday'
    BY <1>0, <2>1, <2>2, <2>3, <2>5 DEF QueueOfToday, OnlyClient, ExportTypes, Export!TypeOK
  <2>8. ASSUME raced = FALSE PROVE OneByOne'
    <3>1. \A f \in Exports : Ongoing(f)' = Ongoing(f)
      BY <2>1 DEF Ongoing
    <3> QED BY <1>0, <2>3, <2>8, <3>1 DEF OneByOne, OnlyClient
  <2> QED BY <1>0, <2>1, <2>6, <2>7, <2>8 DEF ExportInv
<1>4. CASE Export!RequestFails(c)
  <2>1. /\ UNCHANGED <<exportStatus, payload, raced, again, day, requested, expires, tries, working, died>>
        /\ request' = [request EXCEPT ![c] = Export!Idle]
        /\ lost' = IF request[c].pc = "enqueue" THEN lost \union {request[c].export} ELSE lost
    BY <1>4 DEF Export!RequestFails
  <2>2. request' \in [Clients -> RequestType] /\ OnlyClient(c) /\ request'[c].pc = "idle"
    BY <1>0, <2>1, ClientEnds
  <2>3. lost' \subseteq Exports
    BY <1>0, <2>1 DEF ExportTypes, Export!TypeOK, QueueOfToday
  <2>4. ExportTypes'
    BY <1>0, <2>1, <2>2, <2>3 DEF ExportTypes, Export!TypeOK, RequestType
  <2>5. QueueOfToday'
    BY <1>0, <2>1, <2>2 DEF QueueOfToday, OnlyClient
  <2>6. ASSUME raced = FALSE PROVE OneByOne'
    <3>1. \A f \in Exports : Ongoing(f)' = Ongoing(f)
      BY <2>1 DEF Ongoing
    <3> QED BY <1>0, <2>2, <2>6, <3>1 DEF OneByOne, OnlyClient
  <2> QED BY <1>0, <2>1, <2>4, <2>5, <2>6 DEF ExportInv
<1> QED BY <1>1, <1>2, <1>3, <1>4

\* The steps of the queue and of the clean-up leave the requests alone, and make no row
\* one of those under way that was not.
LEMMA NothingNew ==
  ASSUME ExportInv, UNCHANGED <<request, raced>>, \A e \in Exports : Ongoing(e)' => Ongoing(e)
  PROVE  raced' = FALSE => OneByOne'
BY DEF ExportInv, OneByOne

LEMMA QueueSteps ==
  ASSUME ExportInv, NEW e \in Exports,
         \/ Export!StartProcessing(e) \/ Export!CompleteExport(e)
         \/ Export!FailExport(e) \/ Export!StartFails(e) \/ Export!WorkerDies(e)
  PROVE  ExportInv'
<1> USE DEF Export!times, Export!queue, Export!history, Export!Settled
<1>0. /\ ExportTypes /\ QueueOfToday
      /\ (\A f \in Exports \ again : exportStatus[f] = "COMPLETED" <=> f \in payload)
      /\ exportStatus \in [Exports -> Export!Settled \union {"none", "PENDING", "PROCESSING"}]
      /\ tries \in [Exports -> 0 .. MaxTries] /\ expires \in [Exports -> Int]
      /\ day \in Nat /\ MaxTries \in Nat /\ working \subseteq Exports
  BY JobsAssumption DEF ExportInv, ExportTypes, Export!TypeOK, Export!ConstantsAssumption
<1>1. /\ UNCHANGED <<day, requested, request, raced>>
      /\ e \in working \/ tries[e] > 0
  BY DEF Export!StartProcessing, Export!CompleteExport, Export!FailExport, Export!StartFails,
         Export!WorkerDies
<1>2. exportStatus[e] # "none" /\ requested[e] = day /\ tries[e] > 0
  BY <1>0, <1>1 DEF QueueOfToday
<1>3. ASSUME \A f \in Exports : f # e => exportStatus'[f] = exportStatus[f]
      PROVE  raced' = FALSE => OneByOne'
  <2>1. \A f \in Exports : Ongoing(f)' => Ongoing(f)
    BY <1>1, <1>2, <1>3 DEF Ongoing
  <2> QED BY <1>1, <2>1, NothingNew
<1>4. CASE Export!StartProcessing(e)
  <2>1. /\ exportStatus' = [exportStatus EXCEPT ![e] = "PROCESSING"]
        /\ again' = IF exportStatus[e] \in {"COMPLETED", "EXPIRED"} THEN again \union {e} ELSE again
        /\ working' = working \union {e} /\ UNCHANGED <<payload, tries, died, lost, expires>>
    BY <1>4 DEF Export!StartProcessing
  <2>2. ExportTypes'
    BY <1>0, <1>1, <2>1 DEF ExportTypes, Export!TypeOK
  <2>3. QueueOfToday'
    BY <1>0, <1>1, <1>2, <2>1 DEF QueueOfToday
  <2>4. \A f \in Exports : f # e => exportStatus'[f] = exportStatus[f]
    BY <1>0, <2>1
  <2>5. \A f \in Exports \ again' : exportStatus'[f] = "COMPLETED" <=> f \in payload'
    BY <1>0, <1>2, <2>1
  <2> QED BY <1>3, <2>2, <2>3, <2>4, <2>5 DEF ExportInv
<1>5. CASE \/ Export!CompleteExport(e)
           \/ Export!WorkerDies(e) /\ exportStatus' = [exportStatus EXCEPT ![e] = "COMPLETED"]
                /\ payload' = payload \union {e}
  <2>1. /\ e \in working /\ working' = working \ {e} /\ again' = again
        /\ exportStatus' = [exportStatus EXCEPT ![e] = "COMPLETED"] /\ payload' = payload \union {e}
    BY <1>5 DEF Export!CompleteExport, Export!WorkerDies
  <2>2. tries' = [tries EXCEPT ![e] = 0] \/ tries' = tries
    BY <1>0, <1>5 DEF Export!CompleteExport, Export!WorkerDies
  <2>3. /\ tries' \in [Exports -> 0 .. MaxTries] /\ tries'[e] <= tries[e]
        /\ \A f \in Exports : f # e => tries'[f] = tries[f]
    BY <1>0, <2>2
  <2>4. lost' \subseteq Exports /\ died' \subseteq Exports
    BY <1>0, <1>5 DEF Export!CompleteExport, Export!WorkerDies, ExportTypes, Export!TypeOK
  <2>5. expires' \in [Exports -> Int]
    <3>1. KeptDays \in Nat
      BY JobsAssumption DEF Export!ConstantsAssumption
    <3>2. expires' = [expires EXCEPT ![e] = day + KeptDays] \/ expires' = expires
      BY <1>5 DEF Export!CompleteExport, Export!WorkerDies
    <3> QED BY <1>0, <3>1, <3>2
  <2>6. ExportTypes'
    BY <1>0, <1>1, <2>1, <2>3, <2>4, <2>5 DEF ExportTypes, Export!TypeOK
  <2>7. QueueOfToday'
    BY <1>0, <1>1, <1>2, <2>1, <2>3 DEF QueueOfToday
  <2>8. \A f \in Exports : f # e => exportStatus'[f] = exportStatus[f]
    BY <1>0, <2>1
  <2>9. \A f \in Exports \ again' : exportStatus'[f] = "COMPLETED" <=> f \in payload'
    BY <1>0, <2>1
  <2> QED BY <1>3, <2>6, <2>7, <2>8, <2>9 DEF ExportInv
<1>6. CASE Export!FailExport(e) \/ Export!StartFails(e)
  <2>1. /\ working' = working \ {e} /\ tries' = [tries EXCEPT ![e] = @ - 1]
        /\ UNCHANGED <<payload, died, expires, again>>
    BY <1>0, <1>6 DEF Export!FailExport, Export!StartFails
  <2>2. /\ tries' \in [Exports -> 0 .. MaxTries]
        /\ \A f \in Exports : f # e => tries'[f] = tries[f]
    BY <1>0, <1>2, <2>1
  <2>3. /\ exportStatus' \in [Exports -> Export!Settled \union {"none", "PENDING", "PROCESSING"}]
        /\ \A f \in Exports : f # e => exportStatus'[f] = exportStatus[f]
        /\ exportStatus'[e] # "none"
        /\ exportStatus'[e] = exportStatus[e] \/ (e \in working /\ exportStatus'[e] = "FAILED")
    <3>1. \/ exportStatus' = exportStatus
          \/ e \in working /\ exportStatus' = [exportStatus EXCEPT ![e] = "FAILED"]
      BY <1>6 DEF Export!FailExport, Export!StartFails, Export!AfterError
    <3> QED BY <1>0, <1>2, <3>1
  <2>4. lost' \subseteq Exports
    BY <1>0, <1>6 DEF Export!FailExport, Export!StartFails, Export!Untold, ExportTypes, Export!TypeOK
  <2>5. ExportTypes'
    BY <1>0, <1>1, <2>1, <2>2, <2>3, <2>4 DEF ExportTypes, Export!TypeOK
  <2>6. QueueOfToday'
    BY <1>0, <1>1, <1>2, <2>1, <2>2, <2>3 DEF QueueOfToday
  <2>7. \A f \in Exports \ again' : exportStatus'[f] = "COMPLETED" <=> f \in payload'
    BY <1>0, <2>1, <2>3 DEF QueueOfToday
  <2> QED BY <1>3, <2>3, <2>5, <2>6, <2>7 DEF ExportInv
<1>7. CASE Export!WorkerDies(e) /\ UNCHANGED <<exportStatus, payload, expires>>
  <2>1. /\ e \in working /\ working' = working \ {e} /\ again' = again
        /\ died' = died \union {e} /\ UNCHANGED <<exportStatus, payload, expires>>
        /\ lost' = IF e \in died THEN lost \union {e} ELSE lost
        /\ tries' = [tries EXCEPT ![e] = IF e \in died THEN 0 ELSE @]
    BY <1>7 DEF Export!WorkerDies
  <2>2. tries' \in [Exports -> 0 .. MaxTries] /\ \A f \in Exports : f # e => tries'[f] = tries[f]
    BY <1>0, <2>1
  <2>3. ExportTypes'
    BY <1>0, <1>1, <2>1, <2>2 DEF ExportTypes, Export!TypeOK
  <2>4. QueueOfToday'
    BY <1>0, <1>1, <1>2, <2>1, <2>2 DEF QueueOfToday
  <2>5. \A f \in Exports \ again' : exportStatus'[f] = "COMPLETED" <=> f \in payload'
    BY <1>0, <2>1
  <2> QED BY <1>3, <2>1, <2>3, <2>4, <2>5 DEF ExportInv
<1> QED BY <1>4, <1>5, <1>6, <1>7 DEF Export!WorkerDies

LEMMA ExpirySteps ==
  ASSUME ExportInv, NEW gone, Export!Expire(gone)
  PROVE  ExportInv'
<1> USE DEF Export!times, Export!queue, Export!history, Export!Settled
<1>1. /\ exportStatus' = [e \in Exports |-> IF e \in gone THEN "EXPIRED" ELSE exportStatus[e]]
      /\ payload' = payload \ gone
      /\ UNCHANGED <<request, day, requested, expires, tries, working, died, raced, lost, again>>
  BY DEF Export!Expire, Export!WithoutData
<1>2. \A e \in gone : e \in Exports /\ exportStatus[e] = "COMPLETED"
  BY DEF Export!Expire, Export!Overdue
<1>3. /\ ExportTypes /\ QueueOfToday
      /\ (\A f \in Exports \ again : exportStatus[f] = "COMPLETED" <=> f \in payload)
      /\ exportStatus \in [Exports -> Export!Settled \union {"none", "PENDING", "PROCESSING"}]
      /\ working \subseteq Exports
  BY DEF ExportInv, ExportTypes, Export!TypeOK
<1>4. ExportTypes'
  BY <1>1, <1>3 DEF ExportTypes, Export!TypeOK
<1>5. QueueOfToday'
  BY <1>1, <1>2, <1>3 DEF QueueOfToday
<1>6. raced' = FALSE => OneByOne'
  <2>1. \A e \in Exports : Ongoing(e)' => Ongoing(e)
    BY <1>1, <1>2 DEF Ongoing
  <2> QED BY <1>1, <2>1, NothingNew
<1>7. \A f \in Exports \ again' : exportStatus'[f] = "COMPLETED" <=> f \in payload'
  BY <1>1, <1>3
<1> QED BY <1>4, <1>5, <1>6, <1>7 DEF ExportInv

LEMMA DayStep == ASSUME ExportInv, Export!NextDay PROVE ExportInv'
<1> USE DEF Export!times, Export!queue, Export!history, Export!Settled
<1>1. /\ day' = day + 1 /\ day < MaxDay /\ (\A e \in Exports : tries[e] = 0)
      /\ \A c \in Clients : request[c].pc = "idle"
      /\ UNCHANGED <<exportStatus, payload, requested, expires, request, tries, working, died,
                     raced, lost, again>>
  BY IdleClient DEF Export!NextDay
<1>2. ExportTypes /\ QueueOfToday /\ day \in Nat /\ MaxDay \in Nat /\ requested \in [Exports -> Int]
  BY JobsAssumption DEF ExportInv, ExportTypes, Export!ConstantsAssumption
<1>3. ExportTypes'
  <2>1. day' \in 0 .. MaxDay /\ day' \in Nat
    BY <1>1, <1>2
  <2>2. \A e \in Exports : requested[e] <= day'
    BY <1>1, <1>2 DEF ExportTypes
  <2> QED BY <1>1, <1>2, <2>1, <2>2 DEF ExportTypes, Export!TypeOK
<1>4. QueueOfToday'
  BY <1>1, <1>2 DEF QueueOfToday, ExportTypes, Export!TypeOK
<1>5. raced' = FALSE => OneByOne'
  <2>1. \A e \in Exports : Ongoing(e)' => Ongoing(e)
    <3>1. \A e \in Exports : requested[e] # day'
      BY <1>1, <1>2 DEF ExportTypes
    <3> QED BY <1>1, <3>1 DEF Ongoing
  <2> QED BY <1>1, <2>1, NothingNew
<1> QED BY <1>1, <1>3, <1>4, <1>5 DEF ExportInv

LEMMA ExportInductive == ExportInv /\ [Export!Next]_(Export!vars) => ExportInv'
<1> SUFFICES ASSUME ExportInv, [Export!Next]_(Export!vars) PROVE ExportInv'
  OBVIOUS
<1>1. CASE UNCHANGED Export!vars
  <2>1. UNCHANGED <<exportStatus, payload, day, requested, expires, tries, working, died, request,
                    raced, lost, again>>
    BY <1>1 DEF Export!vars
  <2>2. (\A e \in Exports : Ongoing(e)' => Ongoing(e)) /\ ExportTypes' /\ QueueOfToday'
    BY <2>1 DEF Ongoing, ExportInv, ExportTypes, Export!TypeOK, QueueOfToday
  <2> QED BY <2>1, <2>2, NothingNew DEF ExportInv
<1>2. CASE Export!Next
  BY <1>2, RequestSteps, QueueSteps, ExpirySteps, DayStep DEF Export!Next, Export!Process
<1> QED BY <1>1, <1>2

LEMMA ExportMeans == ExportInv => Export!TypeOK /\ Export!ExportsSound
<1> SUFFICES ASSUME ExportInv PROVE Export!ExportsSound
  BY DEF ExportInv, ExportTypes
<1>1. ~raced => raced = FALSE
  BY Zenon DEF ExportInv, ExportTypes, Export!TypeOK
<1>2. ~raced => \A e, f \in Exports :
        {exportStatus[e], exportStatus[f]} \subseteq {"PENDING", "PROCESSING"} => e = f
  BY <1>1 DEF ExportInv, OneByOne, Ongoing
<1> QED BY <1>2, Zenon DEF Export!ExportsSound, ExportInv

-----------------------------------------------------------------------------
JobsStep == PollerStep \/ QuizStep \/ MonitorStep \/ ExportStep

\* A step of the run is a step of one of the four and none of the others.
LEMMA StepOfEach ==
  [JobsStep]_allVars =>
    [Next]_vars /\ [Quiz!Next]_(Quiz!vars) /\ [Monitor!Next]_(Monitor!vars) /\ [Export!Next]_(Export!vars)
<1>1. /\ UNCHANGED quizVars => UNCHANGED Quiz!vars
      /\ UNCHANGED monitorVars => UNCHANGED Monitor!vars
      /\ UNCHANGED exportVars => UNCHANGED Export!vars
  BY DEF quizVars, Quiz!vars, monitorVars, Monitor!vars, exportVars, Export!vars
<1>2. CASE PollerStep
  BY <1>1, <1>2 DEF PollerStep
<1>3. CASE QuizStep
  BY <1>1, <1>3 DEF QuizStep
<1>4. CASE MonitorStep
  BY <1>1, <1>4 DEF MonitorStep
<1>5. CASE ExportStep
  BY <1>1, <1>5 DEF ExportStep
<1>6. CASE UNCHANGED allVars
  BY <1>1, <1>6 DEF allVars
<1> QED BY <1>2, <1>3, <1>4, <1>5, <1>6 DEF JobsStep

\* Whatever the number of executions, exports, requests and cron runs: a row of the cron
\* monitor that nothing else wrote says how its job ended; unless two requests overlapped
\* a user has one export in flight, and an export that can be downloaded has its data; the
\* variables of the quiz sessions keep their types.
THEOREM JobsAlwaysSound == SpecOne => []JobsSound
<1>1. InitOne => Quiz!QuizInv /\ RowsTold /\ ExportInv
  BY JobsAssumption, Quiz!QuizInitially, RowsInitially, ExportInitially DEF InitOne
<1>2. Quiz!QuizInv /\ RowsTold /\ ExportInv /\ [JobsStep]_allVars => (Quiz!QuizInv /\ RowsTold /\ ExportInv)'
  BY JobsAssumption, StepOfEach, Quiz!QuizInductive, RowsInductive, ExportInductive
<1>3. Quiz!QuizInv /\ RowsTold /\ ExportInv => JobsSound
  BY Quiz!QuizMeans, ExportMeans DEF RowsTold, JobsSound
<1> QED BY <1>1, <1>2, <1>3, PTL DEF SpecOne, JobsStep

\* Beside these jobs the poller behaves as it does alone: what is proved of Spec holds here.
THEOREM PollerWithin == SpecOne => Spec
<1>1. InitOne => Init
  BY DEF InitOne
<1> QED BY <1>1, StepOfEach, PTL DEF SpecOne, Spec, JobsStep

=============================================================================
