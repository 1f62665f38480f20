---------------------------- MODULE EventPoller ----------------------------
(***************************************************************************)
(* EventsService: the background job that reads the Hamplard contract's    *)
(* events from Stellar RPC page by page, stores each one as a ChainEvent   *)
(* row, runs its handler, and keeps its place in a checkpoint row so that  *)
(* a restarted process resumes where the last one stopped.                 *)
(*                                                                         *)
(* An event is its position on the chain, which is also its paging token.  *)
(* One pc names the await the poll is suspended at; the process may crash  *)
(* at every one of them.  A tick that finds a poll running does nothing    *)
(* (isPolling), so pc = "idle" is the only state a poll starts from.       *)
(***************************************************************************)
EXTENDS Integers, FiniteSets

CONSTANTS
  MaxEvents,    \* bound: events the chain emits
  MaxLedger,    \* bound: ledgers the chain closes
  PageLimit,    \* CONTRACT_EVENT_PAGE_LIMIT
  Lookback,     \* COLD_START_LOOKBACK
  TxOf,         \* transaction that emits each event
  NoCourse,     \* events whose first payload field names no courses row
  Retention,    \* ledgers an RPC node keeps at least
  Faults,       \* kinds of faults the environment may show
  MaxFaults     \* bound: faults per behaviour

FaultKinds == {"crash", "load", "tip", "rpc", "save", "handler", "mark",
               "persist", "token", "foreign"}

ASSUME ConstantsAssumption ==
  /\ MaxEvents \in Nat
  /\ MaxLedger \in Nat \ {0}
  /\ PageLimit \in Nat \ {0}
  /\ Lookback \in Nat
  /\ Retention \in Nat /\ Retention >= Lookback
  /\ TxOf \in [1..MaxEvents -> Nat]
  /\ NoCourse \subseteq 1..MaxEvents
  /\ Faults \subseteq FaultKinds
  /\ MaxFaults \in Nat

Events == 1..MaxEvents
NoCursor == 0
NoLedger == 0
Position == [ledger : Nat, cursor : 0..MaxEvents]
NoPosition == [ledger |-> NoLedger, cursor |-> NoCursor]
RowStates == {"absent", "stored", "processed", "failed"}
PersistPoints == {"coldPersist", "jumpPersist", "eventPersist", "finally"}
Steps == PersistPoints \union
         {"down", "init", "idle", "fetch", "save", "handle", "markOk",
          "markFailed", "advance"}

CurSteps == {"handle", "markOk", "markFailed", "advance"}

VARIABLES
  \* the chain, as an RPC node shows it
  tip,          \* latest closed ledger
  oldest,       \* first ledger the RPC node still serves
  emitted,      \* number of events emitted so far
  ledgerOf,     \* ledger of each event, NoLedger until it is emitted
  \* the database
  rows,         \* ChainEvent rows
  ckpt,         \* EventPollerCheckpoint row, NoPosition until first written
  \* the process
  pc,
  pos,          \* lastProcessedLedger and lastProcessedCursor
  latest,       \* latestLedger as read when the poll started
  page,         \* events of the fetched page not yet processed
  pageFull,     \* the page held PageLimit events
  pageLatest,   \* latestLedger of the page
  cur,          \* event being processed
  isNew,        \* processEvent's result for cur
  writeFailures,\* consecutiveWriteFailures
  \* history
  runs,         \* how often the handler of each event was started
  abandoned,    \* events the position was moved past without reading them
  refused,      \* events read whose row was not inserted
  faults        \* faults so far

chainVars == <<tip, oldest, emitted, ledgerOf>>
dbVars == <<rows, ckpt>>
pollVars == <<latest, page, pageFull, pageLatest, cur, isNew>>
vars == <<chainVars, dbVars, pollVars, pc, pos, writeFailures, runs,
          abandoned, refused, faults>>

Larger(a, b) == IF a >= b THEN a ELSE b

Fault(kind) ==
  /\ kind \in Faults
  /\ faults < MaxFaults
  /\ faults' = faults + 1

(***************************************************************************)
(* Positions                                                               *)
(***************************************************************************)

\* (mutant) the lower bound of one forgotten
ColdStartUnclamped(tipRead) ==
  [ledger |-> IF tipRead = NoLedger THEN 1 ELSE tipRead - Lookback, cursor |-> NoCursor]

\* Where polling starts when there is no usable checkpoint, or the RPC node
\* no longer has the ledger asked for.
ColdStart(tipRead) ==
  [ledger |-> IF tipRead = NoLedger THEN 1 ELSE Larger(1, tipRead - Lookback),
   cursor |-> NoCursor]

Behind(p, e) ==
  IF p.cursor # NoCursor
    THEN e <= p.cursor
    ELSE ledgerOf[e] # NoLedger /\ ledgerOf[e] < p.ledger

\* The position moves to p without having read what lies before it.
JumpTo(p) ==
  /\ pos' = p
  /\ abandoned' = abandoned \union
                    {e \in Events : Behind(p, e) /\ rows[e] = "absent"}

DrainedTo(ledger) == [ledger |-> Larger(pos.ledger, ledger + 1), cursor |-> NoCursor]

(***************************************************************************)
(* The RPC node (external)                                                 *)
(***************************************************************************)
CloseLedger ==
  /\ tip < MaxLedger
  /\ tip' = tip + 1
  /\ \E n \in emitted..MaxEvents :
       /\ \A e \in 1..n, f \in (n + 1)..MaxEvents : TxOf[e] # TxOf[f]
       /\ emitted' = n
       /\ ledgerOf' = [e \in Events |->
            IF emitted < e /\ e <= n THEN tip + 1 ELSE ledgerOf[e]]
  /\ UNCHANGED <<oldest, dbVars, pollVars, pc, pos, writeFailures, runs, abandoned, refused, faults>>

PruneLedger ==
  /\ tip - oldest > Retention
  /\ oldest' = oldest + 1
  /\ UNCHANGED <<tip, emitted, ledgerOf, dbVars, pollVars, pc, pos, writeFailures,
                 runs, abandoned, refused, faults>>

Available(p) ==
  {e \in Events : ledgerOf[e] # NoLedger /\
     IF p.cursor # NoCursor THEN e > p.cursor ELSE ledgerOf[e] >= p.ledger}

InRange(p) ==
  IF p.cursor # NoCursor
    THEN ledgerOf[p.cursor] >= oldest
    ELSE oldest <= p.ledger /\ p.ledger <= tip

\* A page is the front of what is available: full, or all of it.
IsPage(es, available) ==
  /\ \A e \in es, f \in available : f <= e => f \in es
  /\ Cardinality(es) <= PageLimit
  /\ Cardinality(es) = PageLimit \/ es = available

(***************************************************************************)
(* onModuleInit                                                            *)
(***************************************************************************)
LoadCheckpoint ==
  /\ pc = "down"
  /\ pc' = "init"
  /\ \/ pos' = ckpt /\ UNCHANGED faults
     \/ Fault("load") /\ pos' = NoPosition
  /\ UNCHANGED <<chainVars, dbVars, pollVars, writeFailures, runs, abandoned, refused>>

AheadOfTip(tipRead) == tipRead # NoLedger /\ pos.ledger > tipRead + 1

InitCheckpoint ==
  /\ pc = "init"
  /\ \E tipRead \in {tip, NoLedger} :
       /\ \/ tipRead = tip /\ UNCHANGED faults
          \/ tipRead = NoLedger /\ Fault("tip")
       /\ \/ /\ pos.ledger = NoLedger
             /\ JumpTo(ColdStart(tipRead))
             /\ pc' = "coldPersist"
          \/ /\ pos.ledger # NoLedger /\ AheadOfTip(tipRead)
             /\ JumpTo(ColdStart(tipRead))
             /\ pc' = "idle"
          \/ /\ pos.ledger # NoLedger /\ ~AheadOfTip(tipRead)
             /\ pc' = "idle"
             /\ UNCHANGED <<pos, abandoned>>
  /\ UNCHANGED <<chainVars, dbVars, pollVars, writeFailures, runs, refused>>

(***************************************************************************)
(* pollEvents                                                              *)
(***************************************************************************)
\* (mutant) an off-by-one: the tip ledger itself counts as done
NothingToPollLax(tipRead) == pos.cursor = NoCursor /\ tipRead # NoLedger /\ pos.ledger >= tipRead

NothingToPoll(tipRead) == pos.cursor = NoCursor /\ tipRead # NoLedger /\ pos.ledger > tipRead

StartPoll ==
  /\ pc = "idle"
  /\ \/ latest' = tip /\ UNCHANGED faults
     \/ latest' = NoLedger /\ Fault("tip")
  /\ pc' = IF NothingToPoll(latest') THEN "finally" ELSE "fetch"
  /\ UNCHANGED <<chainVars, dbVars, pos, page, pageFull, pageLatest, cur, isNew,
                 writeFailures, runs, abandoned, refused>>

FetchPage ==
  /\ pc = "fetch"
  /\ InRange(pos)
  /\ \E es \in SUBSET Available(pos) :
       /\ IsPage(es, Available(pos))
       /\ page' = es
       /\ pageFull' = (Cardinality(es) = PageLimit)
       /\ pageLatest' = tip
       /\ \/ /\ es = {}
             /\ pos' = DrainedTo(tip)
             /\ pc' = "finally"
          \/ /\ es # {}
             /\ pc' = "save"
             /\ UNCHANGED pos
  /\ UNCHANGED <<chainVars, dbVars, latest, cur, isNew, writeFailures, runs,
                 abandoned, refused, faults>>

\* "start ledger out of range": restart near the tip read at the start of
\* this poll, and leave the rest to the next tick.
FetchOutOfRange ==
  /\ pc = "fetch"
  /\ ~InRange(pos)
  /\ JumpTo(ColdStart(latest))
  /\ pc' = "jumpPersist"
  /\ UNCHANGED <<chainVars, dbVars, pollVars, writeFailures, runs, refused, faults>>

FetchFails ==
  /\ pc = "fetch"
  /\ Fault("rpc")
  /\ pc' = "finally"
  /\ UNCHANGED <<chainVars, dbVars, pollVars, pos, writeFailures, runs, abandoned, refused>>

(***************************************************************************)
(* processEvent                                                            *)
(***************************************************************************)
\* (mutant) the unique index on eventId dropped
InsertsTwice(e) == FALSE

\* The insert answers P2002: eventId and (txHash, eventIndex) are unique, and
\* the index read from an RPC event is 0 unless its paging token is a number
\* (extractEventIndex), which leaves one row per transaction.
IsDuplicate(e) == \E f \in Events : TxOf[f] = TxOf[e] /\ rows[f] # "absent"

\* (mutant) a page processed from its end
IsLast(e) == \A f \in page : f <= e

IsNext(e) == \A f \in page : e <= f

SaveRawEvent ==
  /\ pc = "save"
  /\ \E e \in page :
       /\ IsNext(e)
       /\ cur' = e
       /\ \/ /\ ~IsDuplicate(e) /\ e \notin NoCourse
             /\ rows' = [rows EXCEPT ![e] = "stored"]
             /\ isNew' = TRUE
             /\ pc' = "handle"
             /\ UNCHANGED <<refused, faults>>
          \/ /\ IsDuplicate(e)
             /\ refused' = IF rows[e] = "absent" THEN refused \union {e} ELSE refused
             /\ isNew' = FALSE
             /\ pc' = "advance"
             /\ UNCHANGED <<rows, faults>>
          \/ /\ ~IsDuplicate(e)    \* any other database error: logged, null
             /\ \/ e \in NoCourse /\ UNCHANGED faults    \* courseId is a foreign key
                \/ Fault("save")
             /\ refused' = refused \union {e}
             /\ isNew' = FALSE
             /\ pc' = "advance"
             /\ UNCHANGED rows
  /\ UNCHANGED <<chainVars, ckpt, pos, latest, page, pageFull, pageLatest,
                 writeFailures, runs, abandoned>>

RunHandler ==
  /\ pc = "handle"
  /\ runs' = [runs EXCEPT ![cur] = @ + 1]
  /\ \/ pc' = "markOk" /\ UNCHANGED faults
     \/ Fault("handler") /\ pc' = "markFailed"
  /\ UNCHANGED <<chainVars, dbVars, pollVars, pos, writeFailures, abandoned, refused>>

MarkEventProcessed ==
  /\ pc \in {"markOk", "markFailed"}
  /\ \/ /\ rows' = [rows EXCEPT ![cur] = IF pc = "markOk" THEN "processed" ELSE "failed"]
        /\ UNCHANGED faults
     \/ Fault("mark") /\ UNCHANGED rows
  /\ pc' = "advance"
  /\ UNCHANGED <<chainVars, ckpt, pollVars, pos, writeFailures, runs, abandoned, refused>>

\* (mutant) progress kept by ledger only
PastEventNoCursor(e) == [pos EXCEPT !.ledger = Larger(@, ledgerOf[e] + 1)]

PastEvent(e) == [ledger |-> Larger(pos.ledger, ledgerOf[e] + 1), cursor |-> e]

AdvancePastEvent ==
  /\ pc = "advance"
  /\ pos' = PastEvent(cur)
  /\ page' = page \ {cur}
  /\ pc' = "eventPersist"
  /\ UNCHANGED <<chainVars, dbVars, latest, pageFull, pageLatest, cur, isNew,
                 writeFailures, runs, abandoned, refused, faults>>

\* The event came without a usable paging token: the poll gives up, with the
\* ledger already moved when the event was new.
NoAdvancingToken ==
  /\ pc = "advance"
  /\ Fault("token")
  /\ \/ isNew /\ JumpTo([pos EXCEPT !.ledger = Larger(@, ledgerOf[cur] + 1)])
     \/ ~isNew /\ UNCHANGED <<pos, abandoned>>
  /\ pc' = "finally"
  /\ UNCHANGED <<chainVars, dbVars, pollVars, writeFailures, runs, refused>>

(***************************************************************************)
(* persistCheckpoint, at each of its four call sites, with what the poll   *)
(* does next up to its following await                                     *)
(***************************************************************************)
\* (mutant) a failed write not counted
WriteCheckpointUncounted ==
  \/ ckpt' = pos /\ writeFailures' = 0 /\ UNCHANGED faults
  \/ Fault("persist") /\ UNCHANGED <<ckpt, writeFailures>>

WriteCheckpoint ==
  \/ ckpt' = pos /\ writeFailures' = 0 /\ UNCHANGED faults
  \/ Fault("persist") /\ writeFailures' = writeFailures + 1 /\ UNCHANGED ckpt

AfterEvent ==
  \/ page # {} /\ pc' = "save" /\ UNCHANGED pos
  \/ page = {} /\ pageFull /\ pc' = "fetch" /\ UNCHANGED pos
  \/ page = {} /\ ~pageFull /\ pc' = "finally" /\ pos' = DrainedTo(pageLatest)

PersistCheckpoint ==
  /\ pc \in PersistPoints
  /\ WriteCheckpoint
  /\ \/ pc = "coldPersist" /\ pc' = "idle" /\ UNCHANGED pos
     \/ pc = "jumpPersist" /\ pc' = "finally" /\ UNCHANGED pos
     \/ pc = "eventPersist" /\ AfterEvent
     \/ pc = "finally" /\ pc' = "idle" /\ UNCHANGED pos
  /\ UNCHANGED <<chainVars, rows, pollVars, runs, abandoned, refused>>

Crash ==
  /\ pc # "down"
  /\ Fault("crash")
  /\ pc' = "down"
  /\ pos' = NoPosition
  /\ latest' = NoLedger
  /\ page' = {}
  /\ pageFull' = FALSE
  /\ pageLatest' = NoLedger
  /\ cur' = NoCursor
  /\ isNew' = FALSE
  /\ writeFailures' = 0
  /\ UNCHANGED <<chainVars, dbVars, runs, abandoned, refused>>

-----------------------------------------------------------------------------
\* A checkpoint row copied from another network may lie ahead of the tip.
ForeignCheckpoints ==
  IF "foreign" \in Faults
    THEN {[ledger |-> MaxLedger + 2, cursor |-> NoCursor]}
    ELSE {}

Init ==
  /\ tip = 1 /\ oldest = 1 /\ emitted = 0
  /\ ledgerOf = [e \in Events |-> NoLedger]
  /\ rows = [e \in Events |-> "absent"]
  /\ ckpt \in {NoPosition} \union ForeignCheckpoints
  /\ pc = "down" /\ pos = NoPosition
  /\ latest = NoLedger /\ page = {} /\ pageFull = FALSE /\ pageLatest = NoLedger
  /\ cur = NoCursor /\ isNew = FALSE /\ writeFailures = 0
  /\ runs = [e \in Events |-> 0]
  /\ abandoned = {} /\ refused = {}
  /\ faults = 0

Poller ==
  \/ LoadCheckpoint \/ InitCheckpoint
  \/ StartPoll \/ FetchPage \/ FetchOutOfRange \/ FetchFails
  \/ SaveRawEvent \/ RunHandler \/ MarkEventProcessed
  \/ AdvancePastEvent \/ NoAdvancingToken \/ PersistCheckpoint

Next == CloseLedger \/ PruneLedger \/ Poller \/ Crash

Spec == Init /\ [][Next]_vars

\* setInterval keeps starting polls and a restarted process boots, so the
\* poller never stops for good; nothing is assumed of the chain or of faults.
FairSpec == Spec /\ WF_vars(Poller)

-----------------------------------------------------------------------------
(***************************************************************************)
(* Properties                                                              *)
(***************************************************************************)

TypeOK ==
  /\ tip \in Nat /\ oldest \in Nat
  /\ emitted \in 0..MaxEvents
  /\ ledgerOf \in [Events -> Nat]
  /\ rows \in [Events -> RowStates]
  /\ ckpt \in Position /\ pos \in Position
  /\ pc \in Steps
  /\ latest \in Nat /\ pageLatest \in Nat
  /\ page \subseteq Events
  /\ pageFull \in BOOLEAN /\ isNew \in BOOLEAN
  /\ cur \in 0..MaxEvents
  /\ pc \in CurSteps => cur \in Events
  /\ writeFailures \in Nat /\ faults \in Nat
  /\ runs \in [Events -> Nat]
  /\ abandoned \subseteq Events /\ refused \subseteq Events

\* The handler of an event is started at most once over all restarts,
\* re-reads and retries: the insert into chain_events decides who runs it.
HandledAtMostOnce == \A e \in Events : runs[e] <= 1

Accounted(e) == rows[e] # "absent" \/ e \in abandoned \union refused

\* Neither the position in memory nor the one in the database is ever past an
\* event that was not read: every event behind it has its row, was refused by
\* the database, or was jumped over by a restart near the tip.  (pollEvents: a
\* crash in the middle of a page must not skip the rest of a ledger.)
NoEventSkipped ==
  \A p \in {ckpt, pos} \ ForeignCheckpoints, e \in Events : Behind(p, e) => Accounted(e)

\* When the health endpoint reports no write failure and no poll is running,
\* the checkpoint row is the position a restart should resume from.
HealthyMeansPersisted ==
  pc = "idle" /\ writeFailures = 0 /\ ckpt \notin ForeignCheckpoints => ckpt = pos

\* Handlers are started in chain order while no event was jumped over or
\* refused: a course is never approved after the enrolment that the chain
\* recorded later, whatever was crashed, re-read or answered late.
HandledInOrder ==
  [][\A e, f \in Events :
       runs'[e] # runs[e] /\ f > e /\ abandoned \union refused = {} => runs[f] = 0]_vars

\* Every event the contract emits gets a row in the end, unless the database
\* refused it or a jump gave it up: no state the poller can reach, by any
\* order of restarts, failed reads and jumps, is one it stays stuck in.
EventuallyIngested ==
  \A e \in Events : (ledgerOf[e] # NoLedger) ~> Accounted(e)

\* The poller implements the delivery its handlers rely on.
Delivery == INSTANCE ChainDelivery WITH
  emitted <- {e \in Events : ledgerOf[e] # NoLedger}, runs <- runs

ImplementsDelivery == Delivery!Spec
=============================================================================
