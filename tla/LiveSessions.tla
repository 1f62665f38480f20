----------------------------- MODULE LiveSessions -----------------------------
(***************************************************************************)
(* LiveSessionsService and LiveSessionRemindersService: the sessions of    *)
(* one instructor, their times, reminders and places.  A request reads the *)
(* sessions in one await and writes in a later one; an update writes every *)
(* column back from the row it read.                                       *)
(***************************************************************************)
EXTENDS Integers, FiniteSets

CONSTANTS
  Sessions,
  Starts, Lengths, Capacities,   \* bounds: times, durations and places that are asked for
  Students,          \* enrolled in the sessions' course
  Requests,
  Crons              \* ticks of the reminder cron

ConstantsAssumption ==
  /\ Starts \subseteq Nat /\ Lengths \subseteq Nat /\ Capacities \subseteq Nat
  /\ IsFiniteSet(Students)

VARIABLES
  session,           \* per session its row, or NoSession
  now,
  reminded,          \* history: per session how often its students were reminded, up to 2
  unchecked,         \* history: a time was written without the check, or two checks overlapped
  again,             \* history: a reminder was cut short or overlapped another
  task, tick,
  places,            \* pairs of a session and a student: the RSVPs
  taking,            \* per student the session whose RSVP was let through
  squeezed           \* history: sessions with overlapping RSVPs, or whose capacity fell

seatVars == <<places, taking, squeezed>>
vars == <<session, now, reminded, unchecked, again, task, tick, seatVars>>

NoSession == [status |-> "none", start |-> 0, length |-> 0, capacity |-> 0, sent |-> FALSE]
Idle ==
  [pc |-> "idle", session |-> CHOOSE s \in Sessions : TRUE, row |-> NoSession]
Asleep == [pc |-> "idle", todo |-> {}, session |-> Idle.session]
Attendees(s) == {u \in Students : <<s, u>> \in places}

\* (mutant) a session that was moved no longer blocks its new time
OnlyScheduled == {"SCHEDULED"}

ActiveStatuses == {"SCHEDULED", "RESCHEDULED"}

\* validateInstructorAvailability: start < sessEnd and end > sessStart
Overlap(a, b) == a.start < b.start + b.length /\ a.start + a.length > b.start
Available(row, except) ==
  \A o \in Sessions \ except : session[o].status \in ActiveStatuses => ~Overlap(row, session[o])

Go(r, pc, s, row) == task' = [task EXCEPT ![r] = [pc |-> pc, session |-> s, row |-> row]]
Finish(r) == task' = [task EXCEPT ![r] = Idle]
Busy(r, pcs) == \E o \in Requests \ {r} : task[o].pc \in pcs

\* scheduleSession: reads, then creates.
CheckSchedule(r, s) ==
  /\ task[r] = Idle /\ session[s] = NoSession
  /\ \A o \in Requests : task[o] = Idle \/ task[o].session # s
  /\ \E start \in Starts, length \in Lengths, capacity \in Capacities :
       LET row == [status |-> "SCHEDULED", start |-> start, length |-> length,
                   capacity |-> capacity, sent |-> FALSE]
       IN Available(row, {s}) /\ Go(r, "create", s, row)
  /\ unchecked' = (unchecked \/ Busy(r, {"create", "update"}))
  /\ UNCHANGED <<session, now, reminded, again, tick>> /\ UNCHANGED seatVars

\* updateSession: only a new start is checked, and changes the status; a status, a length
\* or a capacity alone is written as it comes.
CheckMove(r, s) ==
  /\ task[r] = Idle /\ session[s] # NoSession
  /\ \E start \in Starts, length \in Lengths \union {session[s].length},
        capacity \in Capacities \union {session[s].capacity} :
       LET row == [session[s] EXCEPT !.start = start, !.length = length, !.capacity = capacity,
                                     !.status = IF start # session[s].start THEN "RESCHEDULED"
                                                ELSE session[s].status]
       IN Available(row, {s}) /\ Go(r, "update", s, row)
  /\ unchecked' = (unchecked \/ Busy(r, {"create", "update"}))
  /\ UNCHANGED <<session, now, reminded, again, tick>> /\ UNCHANGED seatVars

ReadForEdit(r, s) ==
  /\ task[r] = Idle /\ session[s] # NoSession
  /\ \E length \in Lengths, status \in {"SCHEDULED", "CANCELLED", session[s].status},
        capacity \in Capacities :
       /\ Go(r, "update", s, [session[s] EXCEPT !.length = length, !.status = status,
                                                !.capacity = capacity])
       /\ unchecked' = (\/ unchecked \/ Busy(r, {"create", "update"})
                        \/ /\ status \in ActiveStatuses
                           /\ <<length, status>> # <<session[s].length, session[s].status>>)
  /\ UNCHANGED <<session, now, reminded, again, tick>> /\ UNCHANGED seatVars

WriteSession(r) ==
  /\ task[r].pc \in {"create", "update"}
  /\ session' = [session EXCEPT ![task[r].session] =
       [task[r].row EXCEPT !.sent = session[task[r].session].sent]]
  /\ squeezed' = squeezed \union
       {s \in Sessions : session'[s].capacity < session[s].capacity}
  /\ Finish(r)
  /\ UNCHANGED <<now, reminded, unchecked, again, tick, places, taking>>

Abort(r) ==
  /\ task[r] # Idle /\ Finish(r)
  /\ UNCHANGED <<session, now, reminded, unchecked, again, tick>> /\ UNCHANGED seatVars

\* handleUpcomingSessionReminders: the sessions of the next hour, one by one; their
\* students are notified first and the row is written after.
Due == {s \in Sessions : session[s].status \in ActiveStatuses /\ ~session[s].sent
                           /\ session[s].start \in now..now + 1}

FindDue(c) ==
  /\ tick[c] = Asleep /\ Due # {}
  /\ tick' = [tick EXCEPT ![c] = [Asleep EXCEPT !.pc = "notify", !.todo = Due]]
  /\ again' = (again \/ \E o \in Crons \ {c} : tick[o] # Asleep)
  /\ UNCHANGED <<session, now, reminded, unchecked, task>> /\ UNCHANGED seatVars

NotifyStudents(c, s) ==
  /\ tick[c].pc = "notify" /\ s \in tick[c].todo
  /\ reminded' = [reminded EXCEPT ![s] = IF @ < 2 THEN @ + 1 ELSE @]
  /\ tick' = [tick EXCEPT ![c].pc = "mark", ![c].session = s]
  /\ UNCHANGED <<session, now, unchecked, again, task>> /\ UNCHANGED seatVars

MarkSent(c) ==
  LET s == tick[c].session
      left == tick[c].todo \ {s}
  IN
  /\ tick[c].pc = "mark"
  /\ session' = [session EXCEPT ![s].sent = TRUE]
  /\ tick' = [tick EXCEPT ![c] =
       IF left = {} THEN Asleep ELSE [Asleep EXCEPT !.pc = "notify", !.todo = left]]
  /\ UNCHANGED <<now, reminded, unchecked, again, task>> /\ UNCHANGED seatVars

CrashCron(c) ==
  /\ tick[c] # Asleep /\ tick' = [tick EXCEPT ![c] = Asleep]
  /\ again' = TRUE
  /\ UNCHANGED <<session, now, reminded, unchecked, task>> /\ UNCHANGED seatVars

Clock ==
  /\ \E t \in Starts : now < t /\ now' = now + 1
  /\ UNCHANGED <<session, reminded, unchecked, again, task, tick>> /\ UNCHANGED seatVars

\* (mutant) one more than there are places
OneMore(s) ==
  Cardinality(Attendees(s)) <= session[s].capacity

HasRoom(s) ==
  Cardinality(Attendees(s)) < session[s].capacity

\* rsvpToSession asks neither for the status nor for the time of the session.
CheckRoom(u, s) ==
  /\ taking[u] = {} /\ session[s] # NoSession /\ HasRoom(s)
  /\ taking' = [taking EXCEPT ![u] = {s}]
  /\ squeezed' = squeezed \union (IF \E v \in Students : s \in taking[v] THEN {s} ELSE {})
  /\ UNCHANGED <<session, now, reminded, unchecked, again, task, tick, places>>

\* The pair is unique: a second RSVP fails.
TakePlace(u, s) ==
  /\ s \in taking[u]
  /\ places' = places \union {<<s, u>>} /\ taking' = [taking EXCEPT ![u] = {}]
  /\ UNCHANGED <<session, now, reminded, unchecked, again, task, tick, squeezed>>

CancelRsvp(u, s) ==
  /\ <<s, u>> \in places /\ places' = places \ {<<s, u>>}
  /\ UNCHANGED <<session, now, reminded, unchecked, again, task, tick, taking, squeezed>>

Init ==
  /\ session = [s \in Sessions |-> NoSession] /\ now = 0
  /\ reminded = [s \in Sessions |-> 0]
  /\ unchecked = FALSE /\ again = FALSE
  /\ task = [r \in Requests |-> Idle] /\ tick = [c \in Crons |-> Asleep]
  /\ places = {} /\ taking = [u \in Students |-> {}] /\ squeezed = {}

ScheduleStep ==
  \/ \E r \in Requests :
       \/ \E s \in Sessions : CheckSchedule(r, s) \/ CheckMove(r, s) \/ ReadForEdit(r, s)
       \/ WriteSession(r) \/ Abort(r)
  \/ \E c \in Crons :
       \/ FindDue(c) \/ MarkSent(c) \/ CrashCron(c)
       \/ \E s \in Sessions : NotifyStudents(c, s)
  \/ Clock

SeatStep ==
  \E u \in Students, s \in Sessions : CheckRoom(u, s) \/ TakePlace(u, s) \/ CancelRsvp(u, s)

Next == ScheduleStep \/ SeatStep

Spec == Init /\ [][Next]_vars

------------------------------------------------------------------------------

TypeOK ==
  /\ \A s \in Sessions :
       /\ session[s].status \in {"none", "SCHEDULED", "RESCHEDULED", "CANCELLED"}
       /\ session[s].start \in Starts \union {0}
       /\ session[s].capacity \in Capacities \union {0} /\ reminded[s] \in Nat
  /\ {unchecked, again} \subseteq BOOLEAN
  /\ \A r \in Requests : task[r].pc \in {"idle", "create", "update"}
  /\ places \subseteq Sessions \X Students /\ taking \in [Students -> SUBSET Sessions]
  /\ squeezed \subseteq Sessions

NoneOverlap ==
  \A s, o \in Sessions :
    s # o /\ {session[s].status, session[o].status} \subseteq {"SCHEDULED", "RESCHEDULED"} =>
      ~Overlap(session[s], session[o])

\* Scheduling and moving sessions one request at a time never makes two of an
\* instructor's sessions overlap (live-sessions.service.ts:45, 107); a session's students
\* are reminded once, unless a tick of the cron died or overlapped another
\* (live-session-reminders.service.ts:28-92); and no more attend than it has places, unless
\* RSVPs overlapped or the capacity was lowered (:169-181, 123).
SessionsSound ==
  /\ ~unchecked => NoneOverlap
  /\ ~again => \A s \in Sessions : reminded[s] <= 1
  /\ \A s \in Sessions \ squeezed : Cardinality(Attendees(s)) <= session[s].capacity
==============================================================================
