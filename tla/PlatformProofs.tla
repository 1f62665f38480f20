--------------------------- MODULE PlatformProofs ----------------------------
(***************************************************************************)
(* What the services of the catalogue keep, as AccountProofs says it of    *)
(* the others, and at the end the theorems about all of them, for any      *)
(* values of the constants that MCPlatform assumes.                        *)
(***************************************************************************)
EXTENDS AccountProofs

------------------------------------------------------------------------------
(***************************************************************************)
(* CourseLifecycle: x1 is the status, x2 the indexed document, x3 the      *)
(* cached list, x4 and x5 the reports, x6 and x7 say whether the index or  *)
(* the list was disturbed, x8 are the handlers.  What a handler at the     *)
(* index holds is the status of now, and if the index does not tell it, a  *)
(* handler is on its way there; a list that is cached or about to be shows *)
(* the status of now, or a handler will drop it.                           *)
(***************************************************************************)
ToIndex == {"readDoc", "index", "remove"}
ToSettle == {"readDoc", "index", "remove", "invalidate"}
CourseTypes ==
  /\ x1 \in Course!Statuses \union {"none"} /\ x2 \in Course!Statuses \union {"none"}
  /\ x3 \in {"none", "shown", "hidden"} /\ x4 \in [Users -> 0 .. MaxReports] /\ x5 \subseteq Users
  /\ x6 \in BOOLEAN /\ x7 \in BOOLEAN
  /\ x8 \in [Requests -> Course!TaskType]
  /\ \A r \in Requests :
       /\ x8[r].pc = "write" => x8[r].to # "none"
       /\ x8[r].pc = "file" => x8[r].by \in Users
       /\ x1 = "none" => x8[r].pc \notin ToIndex
CourseIndexed ==
  /\ \A r \in Requests :
       /\ x8[r].pc = "index" => x8[r].doc = x1
       /\ x8[r].pc = "remove" => x1 # "ACTIVE"
  /\ (x2 = "ACTIVE" <=> x1 = "ACTIVE") \/ \E r \in Requests : x8[r].pc \in ToIndex
CourseListed ==
  \/ \E r \in Requests : x8[r].pc \in ToSettle
  \/ /\ x3 # "none" => x3 = Course!Listed(x1)
     /\ \A r \in Requests : x8[r].pc = "fill" => Course!Listed(x8[r].doc) = Course!Listed(x1)
CourseReports ==
  /\ \A w \in Users : x4[w] > 0 => w \in x5
  /\ \A r \in Requests : x8[r].pc = "check" => Cardinality(x5) >= Threshold
CourseInv ==
  /\ CourseTypes /\ (x6 = FALSE => CourseIndexed) /\ (x7 = FALSE => CourseListed)
  /\ CourseReports

LEMMA CourseBounds == IsFiniteSet(Users) /\ Threshold \in Nat /\ MaxReports \in Nat
<1>1. Course!IsFiniteSet(Users) => IsFiniteSet(Users)
  BY Zenon DEF Course!IsFiniteSet, IsFiniteSet
<1> QED BY <1>1, PlatformAssumption DEF Course!ConstantsAssumption

LEMMA CourseCardinality == \A S : Course!Cardinality(S) = Cardinality(S)
BY Zenon DEF Course!Cardinality, Cardinality

LEMMA CourseIdle ==
  /\ Course!Idle \in Course!TaskType /\ Course!Idle.pc = "idle" /\ Course!Idle.to = "none"
  /\ Course!Idle.doc = "none"
BY DEF Course!Idle, Course!TaskType

CourseSteps ==
  {"readDoc", "index", "remove", "invalidate", "fetch", "count", "check"}

LEMMA CourseGoto ==
  ASSUME NEW r \in Requests, NEW pc \in CourseSteps, Course!Goto(r, pc)
  PROVE  \E new \in Course!TaskType : x8' = [x8 EXCEPT ![r] = new] /\ new.pc = pc
<1> DEFINE new == [Course!Idle EXCEPT !.pc = pc]
<1>1. new \in Course!TaskType /\ new.pc = pc
  BY DEF Course!Idle, Course!TaskType, CourseSteps
<1> HIDE DEF new
<1> QED BY <1>1 DEF Course!Goto, new

LEMMA CourseWriteNext ==
  ASSUME NEW r \in Requests, NEW to \in Course!Statuses \union {"same"}, Course!WriteNext(r, to)
  PROVE  \E new \in Course!TaskType :
           x8' = [x8 EXCEPT ![r] = new] /\ new.pc = "write" /\ new.to # "none"
<1> DEFINE new == [Course!Idle EXCEPT !.pc = "write", !.to = to]
<1>1. new \in Course!TaskType /\ new.pc = "write" /\ new.to # "none"
  <2> DEFINE n1 == [Course!Idle EXCEPT !.pc = "write"]
             n2 == [n1 EXCEPT !.to = to]
  <2>1. n1 \in Course!TaskType /\ n1.pc = "write"
    BY DEF Course!Idle, Course!TaskType
  <2>2. new = n2
    BY Zenon
  <2> HIDE DEF n1
  <2>3. n2 \in Course!TaskType /\ n2.pc = "write" /\ n2.to = to
    BY <2>1 DEF Course!TaskType
  <2>4. to # "none"
    BY DEF Course!Statuses
  <2> HIDE DEF n2, new
  <2> QED BY <2>2, <2>3, <2>4
<1> HIDE DEF new
<1> QED BY <1>1 DEF Course!WriteNext, new

LEMMA CourseInitially == Course!Init => CourseInv
<1> SUFFICES ASSUME Course!Init PROVE CourseInv
  OBVIOUS
<1>1. /\ x1 = "none" /\ x2 = "none" /\ x3 = "none" /\ x4 = [w \in Users |-> 0] /\ x5 = {}
      /\ x6 = FALSE /\ x7 = FALSE /\ x8 = [r \in Requests |-> Course!Idle]
  BY Zenon DEF Course!Init
<1>2. \A r \in Requests : x8[r].pc = "idle"
  BY <1>1, CourseIdle
<1>3. CourseTypes
  <2>1. x4 \in [Users -> 0 .. MaxReports]
    BY <1>1, CourseBounds
  <2>2. x8 \in [Requests -> Course!TaskType]
    BY <1>1, CourseIdle
  <2>3. \A r \in Requests :
          /\ x8[r].pc = "write" => x8[r].to # "none"
          /\ x8[r].pc = "file" => x8[r].by \in Users
          /\ x1 = "none" => x8[r].pc \notin ToIndex
    BY <1>2 DEF ToIndex
  <2>4. x6 \in BOOLEAN /\ x7 \in BOOLEAN
    BY <1>1, Zenon
  <2>5. /\ x1 \in Course!Statuses \union {"none"} /\ x2 \in Course!Statuses \union {"none"}
        /\ x3 \in {"none", "shown", "hidden"} /\ x5 \subseteq Users
    BY <1>1
  <2> QED BY <2>1, <2>2, <2>3, <2>4, <2>5, Zenon DEF CourseTypes
<1>4. CourseIndexed
  BY <1>1, <1>2 DEF CourseIndexed
<1>5. CourseListed
  BY <1>1, <1>2 DEF CourseListed
<1>6. CourseReports
  BY <1>1, <1>2 DEF CourseReports
<1> QED BY <1>3, <1>4, <1>5, <1>6 DEF CourseInv

LEMMA CourseTyped ==
  ASSUME CourseTypes, NEW r \in Requests, NEW new \in Course!TaskType,
         x8' = [x8 EXCEPT ![r] = new],
         x1' \in Course!Statuses \union {"none"}, x2' \in Course!Statuses \union {"none"},
         x3' \in {"none", "shown", "hidden"}, x4' \in [Users -> 0 .. MaxReports], x5' \subseteq Users,
         x6' \in BOOLEAN, x7' \in BOOLEAN,
         new.pc = "write" => new.to # "none", new.pc = "file" => new.by \in Users,
         x1' = "none" => x1 = "none" /\ new.pc \notin ToIndex
  PROVE  CourseTypes' /\ x8'[r] = new /\ \A o \in Requests : o # r => x8'[o] = x8[o]
<1>1. x8' \in [Requests -> Course!TaskType]
  BY DEF CourseTypes
<1>2. x8'[r] = new /\ \A o \in Requests : o # r => x8'[o] = x8[o]
  BY DEF CourseTypes
<1>3. \A o \in Requests :
        /\ x8'[o].pc = "write" => x8'[o].to # "none"
        /\ x8'[o].pc = "file" => x8'[o].by \in Users
        /\ x1' = "none" => x8'[o].pc \notin ToIndex
  BY <1>2 DEF CourseTypes
<1>4. CourseTypes'
  BY <1>1, <1>3, Zenon DEF CourseTypes
<1> QED BY <1>2, <1>4

\* A step of one handler that writes neither the course, the index nor the list.
LEMMA CourseMoves ==
  ASSUME CourseInv, NEW r \in Requests, NEW new \in Course!TaskType,
         x8' = [x8 EXCEPT ![r] = new], x1' = x1, x2' = x2, x3' = x3, x4' = x4, x5' = x5,
         x6' \in BOOLEAN, x7' \in BOOLEAN,
         new.pc = "write" => new.to # "none", new.pc = "file" => new.by \in Users,
         x1 = "none" => new.pc \notin ToIndex,
         new.pc = "check" => Cardinality(x5) >= Threshold,
         x6' = FALSE => /\ x6 = FALSE /\ (x8[r].pc \in ToIndex => new.pc \in ToIndex)
                        /\ new.pc = "index" => new.doc = x1
                        /\ new.pc # "remove",
         x7' = FALSE => /\ x7 = FALSE /\ (x8[r].pc \in ToSettle => new.pc \in ToSettle)
                        /\ new.pc = "fill" => new.doc = x1
  PROVE  CourseInv'
<1>0. CourseTypes /\ CourseReports
  BY DEF CourseInv
<1>1. CourseTypes' /\ x8'[r] = new /\ \A o \in Requests : o # r => x8'[o] = x8[o]
  <2>1. /\ x1' \in Course!Statuses \union {"none"} /\ x2' \in Course!Statuses \union {"none"}
        /\ x3' \in {"none", "shown", "hidden"} /\ x4' \in [Users -> 0 .. MaxReports] /\ x5' \subseteq Users
    BY <1>0 DEF CourseTypes
  <2> QED BY <1>0, <2>1, CourseTyped
<1>2. ASSUME x6' = FALSE PROVE CourseIndexed'
  <2>1. CourseIndexed
    BY <1>2 DEF CourseInv
  <2> QED BY <1>1, <1>2, <2>1 DEF CourseIndexed
<1>3. ASSUME x7' = FALSE PROVE CourseListed'
  <2>1. CourseListed
    BY <1>3 DEF CourseInv
  <2> QED BY <1>1, <1>3, <2>1 DEF CourseListed
<1>4. CourseReports'
  BY <1>0, <1>1 DEF CourseReports
<1> QED BY <1>1, <1>2, <1>3, <1>4 DEF CourseInv

LEMMA CourseReadsKeep ==
  ASSUME CourseInv, NEW r \in Requests,
         \/ Course!ReadCourse(r) \/ Course!HandleChainEvent(r) \/ Course!Miss(r)
         \/ Course!AutoUnpublish(r) \/ Course!CountReporters(r)
  PROVE  CourseInv'
<1>1. /\ x1' = x1 /\ x2' = x2 /\ x3' = x3 /\ x4' = x4 /\ x5' = x5 /\ x6' = x6 /\ x7' = x7
      /\ x8[r].pc \in {"idle", "check", "count"}
  BY CourseIdle DEF Course!ReadCourse, Course!HandleChainEvent, Course!Miss, Course!AutoUnpublish,
     Course!CountReporters, Course!catalogue, Course!reporting, Course!At
<1>2. x6' \in BOOLEAN /\ x7' \in BOOLEAN
  BY <1>1 DEF CourseInv, CourseTypes
<1>3. \/ \E to \in Course!Statuses \union {"same"} : Course!WriteNext(r, to)
      \/ Course!Goto(r, "fetch")
      \/ Course!Goto(r, "check") /\ Cardinality(x5) >= Threshold
      \/ Course!Finish(r)
  <2>1. CASE Course!CountReporters(r)
    <3>1. {w \in Users : x4[w] > 0} \in SUBSET x5 /\ IsFiniteSet(x5)
      BY CourseBounds, FS_Subset DEF CourseInv, CourseReports, CourseTypes
    <3>2. /\ Cardinality({w \in Users : x4[w] > 0}) <= Cardinality(x5)
          /\ Cardinality(x5) \in Nat /\ Cardinality({w \in Users : x4[w] > 0}) \in Nat
      BY <3>1, FS_Subset, FS_CardinalityType
    <3>3. Course!PendingCount >= Threshold => Cardinality(x5) >= Threshold
      <4>1. Course!PendingCount = Cardinality({w \in Users : x4[w] > 0})
        BY CourseCardinality DEF Course!PendingCount
      <4> QED BY <3>2, <4>1, CourseBounds
    <3> QED BY <2>1, <3>3 DEF Course!CountReporters
  <2>2. CASE Course!ReadCourse(r) \/ Course!HandleChainEvent(r) \/ Course!AutoUnpublish(r)
    BY <2>2 DEF Course!ReadCourse, Course!HandleChainEvent, Course!AutoUnpublish, Course!Statuses
  <2>3. CASE Course!Miss(r)
    BY <2>3 DEF Course!Miss
  <2> QED BY <2>1, <2>2, <2>3
<1>4. PICK new \in Course!TaskType :
        /\ x8' = [x8 EXCEPT ![r] = new] /\ new.pc \in {"write", "fetch", "check", "idle"}
        /\ new.pc = "write" => new.to # "none"
        /\ new.pc = "check" => Cardinality(x5) >= Threshold
  <2>1. CASE \E to \in Course!Statuses \union {"same"} : Course!WriteNext(r, to)
    <3>1. PICK new \in Course!TaskType :
            x8' = [x8 EXCEPT ![r] = new] /\ new.pc = "write" /\ new.to # "none"
      BY <2>1, CourseWriteNext
    <3> QED BY <3>1
  <2>2. CASE Course!Goto(r, "fetch")
    <3>1. PICK new \in Course!TaskType : x8' = [x8 EXCEPT ![r] = new] /\ new.pc = "fetch"
      BY <2>2, CourseGoto DEF CourseSteps
    <3> QED BY <3>1
  <2>3. CASE Course!Goto(r, "check") /\ Cardinality(x5) >= Threshold
    <3>1. PICK new \in Course!TaskType : x8' = [x8 EXCEPT ![r] = new] /\ new.pc = "check"
      BY <2>3, CourseGoto DEF CourseSteps
    <3> QED BY <2>3, <3>1
  <2>4. CASE Course!Finish(r)
    BY <2>4, CourseIdle DEF Course!Finish
  <2> QED BY <1>3, <2>1, <2>2, <2>3, <2>4
<1>5. /\ new.pc \notin ToIndex /\ x8[r].pc \notin ToSettle /\ x8[r].pc \notin ToIndex
      /\ new.pc # "file" /\ new.pc # "index" /\ new.pc # "remove" /\ new.pc # "fill"
  BY <1>1, <1>4 DEF ToIndex, ToSettle
<1> QED BY <1>1, <1>2, <1>4, <1>5, CourseMoves

LEMMA CourseLooksKeep ==
  ASSUME CourseInv, NEW r \in Requests,
         Course!ReadDocument(r) \/ Course!FetchList(r) \/ \E w \in Users : Course!StartReport(r, w)
  PROVE  CourseInv'
<1>0. x8[r] \in Course!TaskType /\ x1 \in Course!Statuses \union {"none"}
  BY DEF CourseInv, CourseTypes
<1>1. x1' = x1 /\ x2' = x2 /\ x3' = x3 /\ x4' = x4 /\ x5' = x5 /\ x6' = x6 /\ x7' = x7
  BY DEF Course!ReadDocument, Course!FetchList, Course!StartReport, Course!catalogue, Course!reporting
<1>2. x6' \in BOOLEAN /\ x7' \in BOOLEAN
  BY <1>1 DEF CourseInv, CourseTypes
<1>3. ASSUME NEW pc \in {"index", "fill"}, x8' = [x8 EXCEPT ![r].pc = pc, ![r].doc = x1]
      PROVE  \E new \in Course!TaskType : x8' = [x8 EXCEPT ![r] = new] /\ new.pc = pc /\ new.doc = x1
  <2> DEFINE n1 == [x8[r] EXCEPT !.pc = pc]
             n2 == [n1 EXCEPT !.doc = x1]
  <2>1. x8' = [x8 EXCEPT ![r] = n2]
    BY <1>3 DEF CourseInv, CourseTypes
  <2>2. n1 \in Course!TaskType /\ n1.pc = pc
    BY <1>0 DEF Course!TaskType
  <2> HIDE DEF n1
  <2>3. n2 \in Course!TaskType /\ n2.pc = pc /\ n2.doc = x1
    BY <1>0, <2>2 DEF Course!TaskType
  <2> HIDE DEF n2
  <2> QED BY <2>1, <2>3
<1>4. CASE Course!ReadDocument(r)
  <2>1. x8[r].pc = "readDoc" /\ x8' = [x8 EXCEPT ![r].pc = "index", ![r].doc = x1]
    BY <1>4 DEF Course!ReadDocument, Course!At
  <2>2. PICK new \in Course!TaskType :
          x8' = [x8 EXCEPT ![r] = new] /\ new.pc = "index" /\ new.doc = x1
    BY <1>3, <2>1
  <2>3. /\ new.pc \in ToIndex /\ new.pc \in ToSettle /\ x1 # "none"
        /\ new.pc # "write" /\ new.pc # "file" /\ new.pc # "remove" /\ new.pc # "fill" /\ new.pc # "check"
    BY <2>1, <2>2 DEF ToIndex, ToSettle, CourseInv, CourseTypes
  <2> QED BY <1>1, <1>2, <2>2, <2>3, CourseMoves
<1>5. CASE Course!FetchList(r)
  <2>1. x8[r].pc = "fetch" /\ x8' = [x8 EXCEPT ![r].pc = "fill", ![r].doc = x1]
    BY <1>5 DEF Course!FetchList, Course!At
  <2>2. PICK new \in Course!TaskType :
          x8' = [x8 EXCEPT ![r] = new] /\ new.pc = "fill" /\ new.doc = x1
    BY <1>3, <2>1
  <2>3. /\ new.pc \notin ToIndex /\ x8[r].pc \notin ToIndex /\ x8[r].pc \notin ToSettle
        /\ new.pc # "write" /\ new.pc # "file" /\ new.pc # "remove" /\ new.pc # "index" /\ new.pc # "check"
    BY <2>1, <2>2 DEF ToIndex, ToSettle
  <2> QED BY <1>1, <1>2, <2>2, <2>3, CourseMoves
<1>6. ASSUME NEW w \in Users, Course!StartReport(r, w) PROVE CourseInv'
  <2>1. x8[r].pc = "idle" /\ x8' = [x8 EXCEPT ![r].pc = "file", ![r].by = w]
    BY <1>6, CourseIdle DEF Course!StartReport
  <2> DEFINE n1 == [x8[r] EXCEPT !.pc = "file"]
             n2 == [n1 EXCEPT !.by = w]
  <2>2. x8' = [x8 EXCEPT ![r] = n2]
    BY <2>1 DEF CourseInv, CourseTypes
  <2>3. n1 \in Course!TaskType /\ n1.pc = "file"
    BY <1>0 DEF Course!TaskType
  <2> HIDE DEF n1
  <2>4. n2 \in Course!TaskType /\ n2.pc = "file" /\ n2.by = w
    BY <2>3 DEF Course!TaskType
  <2> HIDE DEF n2
  <2>5. PICK new \in Course!TaskType :
          x8' = [x8 EXCEPT ![r] = new] /\ new.pc = "file" /\ new.by \in Users
    BY <2>2, <2>4
  <2>6. /\ new.pc \notin ToIndex /\ x8[r].pc \notin ToIndex /\ x8[r].pc \notin ToSettle
        /\ new.pc # "write" /\ new.pc # "fill" /\ new.pc # "remove" /\ new.pc # "index" /\ new.pc # "check"
    BY <2>1, <2>5 DEF ToIndex, ToSettle
  <2> QED BY <1>1, <1>2, <2>5, <2>6, CourseMoves
<1> QED BY <1>4, <1>5, <1>6

\* The search service fails, or the process dies: what is half way stays behind.
LEMMA CourseFailuresKeep ==
  ASSUME CourseInv, NEW r \in Requests, Course!SearchFails(r) \/ Course!Crash(r)
  PROVE  CourseInv'
<1>0. x6 \in BOOLEAN /\ x7 \in BOOLEAN
  BY DEF CourseInv, CourseTypes
<1>1. x1' = x1 /\ x2' = x2 /\ x3' = x3 /\ x4' = x4 /\ x5' = x5
  BY DEF Course!SearchFails, Course!Crash, Course!catalogue, Course!reporting
<1>2. CASE Course!SearchFails(r)
  <2>1. x6' = TRUE /\ x7' = x7 /\ Course!Goto(r, "invalidate")
    BY <1>2 DEF Course!SearchFails
  <2>2. PICK new \in Course!TaskType : x8' = [x8 EXCEPT ![r] = new] /\ new.pc = "invalidate"
    BY <2>1, CourseGoto DEF CourseSteps
  <2>3. /\ new.pc \in ToSettle /\ new.pc \notin ToIndex /\ x6' \in BOOLEAN /\ x7' \in BOOLEAN
        /\ x6' # FALSE
    BY <1>0, <2>1, <2>2 DEF ToSettle, ToIndex
  <2>4. new.pc # "write" /\ new.pc # "file" /\ new.pc # "check" /\ new.pc # "fill"
    BY <2>2
  <2> QED BY <1>1, <2>1, <2>2, <2>3, <2>4, CourseMoves
<1>3. CASE Course!Crash(r)
  <2>1. /\ x6' \in BOOLEAN /\ x7' \in BOOLEAN
        /\ x6' = FALSE => x6 = FALSE /\ x8[r].pc \notin {"readDoc", "index", "remove"}
        /\ x7' = FALSE => x7 = FALSE /\ x8[r].pc \notin {"readDoc", "index", "remove", "invalidate"}
    BY <1>0, <1>3, Zenon DEF Course!Crash
  <2>2. PICK new \in Course!TaskType : x8' = [x8 EXCEPT ![r] = new] /\ new.pc = "idle"
    BY <1>3, CourseIdle DEF Course!Crash, Course!Finish
  <2>3. /\ new.pc \notin ToSettle /\ new.pc \notin ToIndex
        /\ new.pc # "write" /\ new.pc # "file" /\ new.pc # "check" /\ new.pc # "fill"
        /\ new.pc # "index" /\ new.pc # "remove"
    BY <2>2 DEF ToSettle, ToIndex
  <2>4. /\ x6' = FALSE => x8[r].pc \notin ToIndex
        /\ x7' = FALSE => x8[r].pc \notin ToSettle
    BY <2>1 DEF ToSettle, ToIndex
  <2> QED BY <1>1, <2>1, <2>2, <2>3, <2>4, CourseMoves
<1> QED BY <1>2, <1>3

LEMMA CreateKeeps == ASSUME CourseInv, NEW r \in Requests, Course!Create(r) PROVE CourseInv'
<1>1. /\ x1 = "none" /\ x1' = "DRAFT" /\ x2' = x2 /\ x3' = x3 /\ x4' = x4 /\ x5' = x5
      /\ x6' = x6 /\ x7' = x7 /\ Course!Goto(r, "invalidate")
  BY DEF Course!Create, Course!reporting
<1>2. PICK new \in Course!TaskType : x8' = [x8 EXCEPT ![r] = new] /\ new.pc = "invalidate"
  BY <1>1, CourseGoto DEF CourseSteps
<1>3. CourseTypes /\ CourseReports /\ new.pc \notin ToIndex /\ new.pc \in ToSettle
  BY <1>2 DEF CourseInv, ToIndex, ToSettle
<1>4. CourseTypes' /\ x8'[r] = new /\ \A o \in Requests : o # r => x8'[o] = x8[o]
  <2>1. /\ x1' \in Course!Statuses \union {"none"} /\ x2' \in Course!Statuses \union {"none"}
        /\ x3' \in {"none", "shown", "hidden"} /\ x4' \in [Users -> 0 .. MaxReports] /\ x5' \subseteq Users
        /\ x6' \in BOOLEAN /\ x7' \in BOOLEAN
    BY <1>1, <1>3 DEF CourseTypes, Course!Statuses
  <2>2. new.pc # "write" /\ new.pc # "file" /\ x1' # "none"
    BY <1>1, <1>2
  <2> QED BY <1>2, <1>3, <2>1, <2>2, CourseTyped
<1>5. \A o \in Requests : x8[o].pc \notin ToIndex
  BY <1>1, <1>3 DEF CourseTypes
<1>6. ASSUME x6' = FALSE PROVE CourseIndexed'
  <2>1. CourseIndexed
    BY <1>1, <1>6 DEF CourseInv
  <2>2. \A o \in Requests : x8'[o].pc # "index" /\ x8'[o].pc # "remove"
    BY <1>2, <1>4, <1>5 DEF ToIndex
  <2> QED BY <1>1, <1>5, <2>1, <2>2 DEF CourseIndexed
<1>7. CourseListed'
  BY <1>3, <1>4 DEF CourseListed
<1>8. CourseReports'
  BY <1>1, <1>2, <1>3, <1>4 DEF CourseReports
<1> QED BY <1>4, <1>6, <1>7, <1>8 DEF CourseInv

LEMMA WriteStatusKeeps == ASSUME CourseInv, NEW r \in Requests, Course!WriteStatus(r) PROVE CourseInv'
<1> DEFINE to == x8[r].to
<1>0. /\ x1 \in Course!Statuses \union {"none"} /\ x6 \in BOOLEAN /\ x7 \in BOOLEAN
      /\ to \in Course!Statuses \union {"same"} /\ x8[r].pc = "write"
  BY DEF CourseInv, CourseTypes, Course!WriteStatus, Course!At, Course!TaskType
<1>1. /\ x2' = x2 /\ x3' = x3 /\ x4' = x4 /\ x5' = x5
      /\ x1' = IF to = "same" THEN x1 ELSE to
  BY DEF Course!WriteStatus, Course!reporting
<1>2. /\ x6' \in BOOLEAN /\ x7' \in BOOLEAN
      /\ x6' = FALSE => /\ x6 = FALSE /\ ~Course!Unread(to)
                        /\ x1' = x1 \/ \A o \in Requests : ~Course!Indexing(o)
      /\ x7' = FALSE => x7 = FALSE /\ ~Course!Unread(to)
  <2> HIDE DEF to
  <2>1. /\ x6' = (x6 \/ Course!Unread(to) \/ (x1' # x1 /\ \E o \in Requests : Course!Indexing(o)))
        /\ x7' = (x7 \/ Course!Unread(to))
    BY Zenon DEF Course!WriteStatus, to
  <2>2. Course!Unread(to) \in BOOLEAN
    BY Zenon DEF Course!Unread
  <2> QED BY <1>0, <2>1, <2>2, Zenon
<1>3. /\ to = "PENDING" => Course!Finish(r)
      /\ to = "same" => Course!Goto(r, IF x1 = "ACTIVE" THEN "readDoc" ELSE "invalidate")
      /\ to \notin {"PENDING", "same"} => Course!Goto(r, Course!Follow(to))
  BY DEF Course!WriteStatus
<1>4. PICK new \in Course!TaskType :
        /\ x8' = [x8 EXCEPT ![r] = new] /\ new.pc \in {"idle", "readDoc", "remove", "invalidate"}
        /\ to = "PENDING" => new.pc = "idle"
        /\ to = "same" => new.pc = IF x1 = "ACTIVE" THEN "readDoc" ELSE "invalidate"
        /\ to = "ACTIVE" => new.pc = "readDoc"
        /\ to \in {"PAUSED", "ARCHIVED"} => new.pc = "remove"
        /\ to = "DRAFT" => new.pc = "invalidate"
  <2>1. CASE to = "PENDING"
    <3>1. x8' = [x8 EXCEPT ![r] = Course!Idle]
      BY <1>3, <2>1 DEF Course!Finish
    <3> QED BY <2>1, <3>1, CourseIdle
  <2>2. CASE to = "same"
    <3>1. PICK pc \in {"readDoc", "invalidate"} :
            pc = (IF x1 = "ACTIVE" THEN "readDoc" ELSE "invalidate") /\ Course!Goto(r, pc)
      BY <1>3, <2>2
    <3>2. PICK new \in Course!TaskType : x8' = [x8 EXCEPT ![r] = new] /\ new.pc = pc
      BY <3>1, CourseGoto DEF CourseSteps
    <3> QED BY <2>2, <3>1, <3>2
  <2>3. CASE to \notin {"PENDING", "same"}
    <3>1. PICK pc \in {"readDoc", "remove", "invalidate"} : pc = Course!Follow(to) /\ Course!Goto(r, pc)
      BY <1>3, <2>3 DEF Course!Follow
    <3>2. PICK new \in Course!TaskType : x8' = [x8 EXCEPT ![r] = new] /\ new.pc = pc
      BY <3>1, CourseGoto DEF CourseSteps
    <3>3. /\ to = "ACTIVE" => pc = "readDoc"
          /\ to \in {"PAUSED", "ARCHIVED"} => pc = "remove"
          /\ to = "DRAFT" => pc = "invalidate"
      BY <3>1 DEF Course!Follow
    <3> QED BY <2>3, <3>2, <3>3
  <2> QED BY <2>1, <2>2, <2>3
<1>5. CourseTypes /\ CourseReports
  BY DEF CourseInv
<1>6. CourseTypes' /\ x8'[r] = new /\ \A o \in Requests : o # r => x8'[o] = x8[o]
  <2>1. x1' \in Course!Statuses \union {"none"}
    BY <1>0, <1>1
  <2>2. /\ x2' \in Course!Statuses \union {"none"}
        /\ x3' \in {"none", "shown", "hidden"} /\ x4' \in [Users -> 0 .. MaxReports] /\ x5' \subseteq Users
    BY <1>1, <1>5 DEF CourseTypes
  <2>3. x1' = "none" => x1 = "none" /\ new.pc \notin ToIndex
    BY <1>0, <1>1, <1>4 DEF ToIndex, Course!Statuses
  <2>4. new.pc # "write" /\ new.pc # "file"
    BY <1>4
  <2> QED BY <1>2, <1>4, <1>5, <2>1, <2>2, <2>3, <2>4, CourseTyped
<1>7. ASSUME x6' = FALSE PROVE CourseIndexed'
  <2>1. CourseIndexed /\ ~Course!Unread(to)
    BY <1>2, <1>7 DEF CourseInv
  <2>2. x1' = x1 \/ \A o \in Requests : x8[o].pc # "index" /\ x8[o].pc # "remove"
    BY <1>2, <1>7 DEF Course!Indexing
  <2>3. new.pc = "remove" => x1' # "ACTIVE"
    BY <1>0, <1>1, <1>4 DEF Course!Statuses
  <2>4. \A o \in Requests :
          /\ x8'[o].pc = "index" => x8'[o].doc = x1'
          /\ x8'[o].pc = "remove" => x1' # "ACTIVE"
    <3> SUFFICES ASSUME NEW o \in Requests
                 PROVE  /\ x8'[o].pc = "index" => x8'[o].doc = x1'
                        /\ x8'[o].pc = "remove" => x1' # "ACTIVE"
      OBVIOUS
    <3>1. CASE o = r
      BY <1>4, <1>6, <2>3, <3>1
    <3>2. CASE o # r
      BY <1>6, <2>1, <2>2, <3>2 DEF CourseIndexed
    <3> QED BY <3>1, <3>2
  <2>5. CASE new.pc \in ToIndex
    BY <1>6, <2>4, <2>5 DEF CourseIndexed
  <2>6. CASE new.pc \notin ToIndex
    <3>1. x1' = "ACTIVE" <=> x1 = "ACTIVE"
      <4>1. x1' = x1 \/ to \in {"PENDING", "DRAFT"}
        BY <1>0, <1>1, <1>4, <2>6 DEF Course!Statuses, ToIndex
      <4>2. CASE x1' = x1
        BY <4>2
      <4>3. CASE to \in {"PENDING", "DRAFT"}
        BY <1>1, <2>1, <4>3 DEF Course!Unread
      <4> QED BY <4>1, <4>2, <4>3
    <3>2. ASSUME NEW o \in Requests, x8[o].pc \in ToIndex PROVE x8'[o].pc \in ToIndex
      <4>1. o # r
        BY <1>0, <3>2 DEF ToIndex
      <4> QED BY <1>6, <3>2, <4>1
    <3> QED BY <1>1, <2>1, <2>4, <3>1, <3>2 DEF CourseIndexed
  <2> QED BY <2>5, <2>6
<1>8. ASSUME x7' = FALSE PROVE CourseListed'
  <2>1. CourseListed /\ ~Course!Unread(to)
    BY <1>2, <1>8 DEF CourseInv
  <2>2. CASE new.pc \in ToSettle
    BY <1>6, <2>2 DEF CourseListed
  <2>3. CASE new.pc \notin ToSettle
    <3>1. to = "PENDING" /\ x1 # "ACTIVE" /\ x1' = "PENDING"
      BY <1>0, <1>1, <1>4, <2>1, <2>3 DEF Course!Statuses, Course!Unread, ToSettle
    <3>2. Course!Listed(x1') = Course!Listed(x1) /\ new.pc = "idle"
      BY <1>4, <3>1 DEF Course!Listed
    <3>3. ASSUME NEW o \in Requests, x8[o].pc \in ToSettle PROVE x8'[o].pc \in ToSettle
      <4>1. o # r
        BY <1>0, <3>3 DEF ToSettle
      <4> QED BY <1>6, <3>3, <4>1
    <3> QED BY <1>1, <1>6, <2>1, <3>2, <3>3 DEF CourseListed
  <2> QED BY <2>2, <2>3
<1>9. CourseReports'
  BY <1>1, <1>4, <1>5, <1>6 DEF CourseReports
<1> QED BY <1>6, <1>7, <1>8, <1>9 DEF CourseInv

LEMMA IndexesKeep ==
  ASSUME CourseInv, NEW r \in Requests, Course!IndexCourse(r) \/ Course!RemoveCourse(r)
  PROVE  CourseInv'
<1>1. /\ x1' = x1 /\ x3' = x3 /\ x4' = x4 /\ x5' = x5 /\ x6' = x6 /\ x7' = x7
      /\ Course!Goto(r, "invalidate")
      /\ \/ x8[r].pc = "index" /\ x2' = x8[r].doc
         \/ x8[r].pc = "remove" /\ x2' = "none"
  BY DEF Course!IndexCourse, Course!RemoveCourse, Course!reporting, Course!At
<1>2. PICK new \in Course!TaskType : x8' = [x8 EXCEPT ![r] = new] /\ new.pc = "invalidate"
  BY <1>1, CourseGoto DEF CourseSteps
<1>3. CourseTypes /\ CourseReports /\ new.pc \notin ToIndex /\ new.pc \in ToSettle
  BY <1>2 DEF CourseInv, ToIndex, ToSettle
<1>4. CourseTypes' /\ x8'[r] = new /\ \A o \in Requests : o # r => x8'[o] = x8[o]
  <2>1. x2' \in Course!Statuses \union {"none"}
    BY <1>1, <1>3 DEF CourseTypes, Course!TaskType
  <2>2. /\ x1' \in Course!Statuses \union {"none"}
        /\ x3' \in {"none", "shown", "hidden"} /\ x4' \in [Users -> 0 .. MaxReports] /\ x5' \subseteq Users
        /\ x6' \in BOOLEAN /\ x7' \in BOOLEAN
    BY <1>1, <1>3 DEF CourseTypes
  <2>3. new.pc # "write" /\ new.pc # "file"
    BY <1>2
  <2> QED BY <1>1, <1>2, <1>3, <2>1, <2>2, <2>3, CourseTyped
<1>5. ASSUME x6' = FALSE PROVE CourseIndexed'
  <2>1. CourseIndexed
    BY <1>1, <1>5 DEF CourseInv
  <2>2. x2' = "ACTIVE" <=> x1' = "ACTIVE"
    BY <1>1, <2>1 DEF CourseIndexed
  <2> QED BY <1>1, <1>2, <1>4, <2>1, <2>2 DEF CourseIndexed
<1>6. CourseListed'
  BY <1>3, <1>4 DEF CourseListed
<1>7. CourseReports'
  BY <1>1, <1>2, <1>3, <1>4 DEF CourseReports
<1> QED BY <1>4, <1>5, <1>6, <1>7 DEF CourseInv

LEMMA ListsKeep ==
  ASSUME CourseInv, NEW r \in Requests, Course!InvalidateCourseCaches(r) \/ Course!FillCache(r)
  PROVE  CourseInv'
<1>0. CourseTypes /\ CourseReports
  BY DEF CourseInv
<1>1. /\ x1' = x1 /\ x2' = x2 /\ x4' = x4 /\ x5' = x5 /\ x6' = x6
      /\ x8[r].pc \in {"invalidate", "fill"} /\ x8' = [x8 EXCEPT ![r] = Course!Idle]
  BY DEF Course!InvalidateCourseCaches, Course!FillCache, Course!reporting, Course!At, Course!Finish
<1>2. /\ x7' \in BOOLEAN
      /\ \/ /\ x8[r].pc = "invalidate" /\ x3' = "none"
            /\ x7' = FALSE => x7 = FALSE /\ \A o \in Requests :
                 x8[o].pc = "fill" => Course!Listed(x8[o].doc) = Course!Listed(x1)
         \/ x8[r].pc = "fill" /\ x3' = Course!Listed(x8[r].doc) /\ x7' = x7
  <2>1. x7 \in BOOLEAN
    BY <1>0 DEF CourseTypes
  <2>2. CASE Course!FillCache(r)
    BY <2>1, <2>2 DEF Course!FillCache, Course!At
  <2>3. CASE Course!InvalidateCourseCaches(r)
    <3>1. x8[r].pc = "invalidate" /\ x3' = "none"
      BY <2>3 DEF Course!InvalidateCourseCaches, Course!At
    <3>2. /\ x7' \in BOOLEAN
          /\ x7' = FALSE => x7 = FALSE /\ \A o \in Requests :
                 x8[o].pc = "fill" => Course!Listed(x8[o].doc) = Course!Listed(x1)
      BY <2>1, <2>3, Zenon DEF Course!InvalidateCourseCaches, Course!At
    <3> QED BY <3>1, <3>2
  <2> QED BY <2>2, <2>3
<1>3. CourseTypes' /\ x8'[r] = Course!Idle /\ \A o \in Requests : o # r => x8'[o] = x8[o]
  <2>1. /\ x1' \in Course!Statuses \union {"none"} /\ x2' \in Course!Statuses \union {"none"}
        /\ x4' \in [Users -> 0 .. MaxReports] /\ x5' \subseteq Users /\ x6' \in BOOLEAN
    BY <1>0, <1>1 DEF CourseTypes
  <2>2. x3' \in {"none", "shown", "hidden"}
    BY <1>2 DEF Course!Listed
  <2>3. PICK new \in Course!TaskType :
          x8' = [x8 EXCEPT ![r] = new] /\ new.pc = "idle" /\ new = Course!Idle
    BY <1>1, CourseIdle
  <2>4. new.pc # "write" /\ new.pc # "file" /\ new.pc \notin ToIndex
    BY <2>3 DEF ToIndex
  <2>5. x1' = "none" => x1 = "none" /\ new.pc \notin ToIndex
    BY <1>1, <2>4
  <2>6. x7' \in BOOLEAN
    BY <1>2
  <2> QED BY <1>0, <2>1, <2>2, <2>3, <2>4, <2>5, <2>6, CourseTyped
<1>4. x8[r].pc \notin ToIndex /\ x8'[r].pc = "idle"
  BY <1>1, <1>3, CourseIdle DEF ToIndex
<1>5. ASSUME x6' = FALSE PROVE CourseIndexed'
  <2>1. CourseIndexed
    BY <1>1, <1>5 DEF CourseInv
  <2> QED BY <1>1, <1>3, <1>4, <2>1 DEF CourseIndexed
<1>6. ASSUME x7' = FALSE PROVE CourseListed'
  <2>1. CourseListed
    BY <1>2, <1>6 DEF CourseInv
  <2>2. CASE x8[r].pc = "invalidate"
    BY <1>1, <1>2, <1>3, <1>4, <1>6, <2>2 DEF CourseListed
  <2>3. CASE x8[r].pc = "fill"
    <3>1. x3' = Course!Listed(x8[r].doc) /\ x8[r].pc \notin ToSettle
      BY <1>2, <2>3 DEF ToSettle
    <3> QED BY <1>1, <1>3, <1>4, <2>1, <2>3, <3>1 DEF CourseListed
  <2> QED BY <1>1, <2>2, <2>3
<1>7. CourseReports'
  BY <1>0, <1>1, <1>3, <1>4 DEF CourseReports
<1> QED BY <1>3, <1>5, <1>6, <1>7 DEF CourseInv

LEMMA FileReportKeeps == ASSUME CourseInv, NEW r \in Requests, Course!FileReport(r) PROVE CourseInv'
<1>0. CourseTypes /\ CourseReports
  BY DEF CourseInv
<1>1. PICK who \in Users : who = x8[r].by
  BY <1>0 DEF Course!FileReport, Course!At, CourseTypes
<1>2. /\ x1' = x1 /\ x2' = x2 /\ x3' = x3 /\ x6' = x6 /\ x7' = x7 /\ x8[r].pc = "file"
      /\ x4[who] < MaxReports /\ x4' = [x4 EXCEPT ![who] = x4[who] + 1] /\ x5' = x5 \union {who}
      /\ Course!Goto(r, "count")
  BY <1>1 DEF Course!FileReport, Course!At, Course!catalogue
<1>3. PICK new \in Course!TaskType : x8' = [x8 EXCEPT ![r] = new] /\ new.pc = "count"
  BY <1>2, CourseGoto DEF CourseSteps
<1>4. x4 \in [Users -> 0 .. MaxReports] /\ x4[who] + 1 \in 0 .. MaxReports
  BY <1>0, <1>2, CourseBounds DEF CourseTypes
<1>5. CourseTypes' /\ x8'[r] = new /\ \A o \in Requests : o # r => x8'[o] = x8[o]
  <2>1. /\ x1' \in Course!Statuses \union {"none"} /\ x2' \in Course!Statuses \union {"none"}
        /\ x3' \in {"none", "shown", "hidden"} /\ x6' \in BOOLEAN /\ x7' \in BOOLEAN
    BY <1>0, <1>2 DEF CourseTypes
  <2>2. x4' \in [Users -> 0 .. MaxReports] /\ x5' \subseteq Users
    BY <1>0, <1>2, <1>4 DEF CourseTypes
  <2>3. new.pc # "write" /\ new.pc # "file" /\ new.pc \notin ToIndex
    BY <1>3 DEF ToIndex
  <2> QED BY <1>0, <1>2, <1>3, <2>1, <2>2, <2>3, CourseTyped
<1>6. /\ x8[r].pc \notin ToIndex /\ x8[r].pc \notin ToSettle /\ new.pc \notin ToIndex
      /\ new.pc \notin ToSettle /\ new.pc # "fill"
  BY <1>2, <1>3 DEF ToIndex, ToSettle
<1>7. ASSUME x6' = FALSE PROVE CourseIndexed'
  <2>1. CourseIndexed
    BY <1>2, <1>7 DEF CourseInv
  <2> QED BY <1>2, <1>3, <1>5, <1>6, <2>1 DEF CourseIndexed
<1>8. ASSUME x7' = FALSE PROVE CourseListed'
  <2>1. CourseListed
    BY <1>2, <1>8 DEF CourseInv
  <2> QED BY <1>2, <1>5, <1>6, <2>1 DEF CourseListed
<1>9. CourseReports'
  <2>1. IsFiniteSet(x5) /\ Cardinality(x5) \in Nat
    BY <1>0, CourseBounds, FS_Subset, FS_CardinalityType DEF CourseTypes
  <2>2. Cardinality(x5') \in Nat /\ Cardinality(x5') >= Cardinality(x5)
    <3>1. IsFiniteSet(x5')
      BY <1>2, <2>1, FS_AddElement
    <3>2. x5 \in SUBSET x5'
      BY <1>2
    <3> QED BY <2>1, <3>1, <3>2, FS_Subset, FS_CardinalityType
  <2>3. \A o \in Requests : x8'[o].pc = "check" => x8[o].pc = "check"
    BY <1>3, <1>5
  <2>4. \A o \in Requests : x8'[o].pc = "check" => Cardinality(x5') >= Threshold
    BY <1>0, <2>1, <2>2, <2>3, CourseBounds DEF CourseReports
  <2>5. \A w \in Users : x4'[w] > 0 => w \in x5'
    BY <1>0, <1>2, <1>4 DEF CourseReports
  <2> QED BY <2>4, <2>5 DEF CourseReports
<1> QED BY <1>5, <1>7, <1>8, <1>9 DEF CourseInv

\* A list lapses; a report is resolved.
LEMMA LapsesKeep ==
  ASSUME CourseInv, Course!Expire \/ \E w \in Users : Course!ResolveFlag(w)
  PROVE  CourseInv'
<1>0. CourseTypes /\ CourseReports
  BY DEF CourseInv
<1>1. /\ x1' = x1 /\ x2' = x2 /\ x5' = x5 /\ x6' = x6 /\ x7' = x7 /\ x8' = x8
      /\ x3' = x3 \/ x3' = "none"
  BY DEF Course!Expire, Course!ResolveFlag, Course!catalogue, Course!reporting
<1>2. x4' \in [Users -> 0 .. MaxReports] /\ \A w \in Users : x4'[w] > 0 => x4[w] > 0
  <2>1. CASE Course!Expire
    BY <1>0, <2>1 DEF Course!Expire, Course!reporting, CourseTypes
  <2>2. CASE \E w \in Users : Course!ResolveFlag(w)
    <3>1. PICK w \in Users : x4[w] > 0 /\ x4' = [x4 EXCEPT ![w] = x4[w] - 1]
      BY <2>2 DEF Course!ResolveFlag
    <3>2. x4 \in [Users -> 0 .. MaxReports] /\ x4[w] - 1 \in 0 .. MaxReports
      BY <1>0, <3>1, CourseBounds DEF CourseTypes
    <3> QED BY <3>1, <3>2
  <2> QED BY <2>1, <2>2
<1>3. CourseTypes'
  BY <1>0, <1>1, <1>2 DEF CourseTypes
<1>4. x6' = FALSE => CourseIndexed'
  BY <1>1 DEF CourseInv, CourseIndexed
<1>5. x7' = FALSE => CourseListed'
  BY <1>1 DEF CourseInv, CourseListed
<1>6. CourseReports'
  BY <1>0, <1>1, <1>2 DEF CourseReports
<1> QED BY <1>3, <1>4, <1>5, <1>6 DEF CourseInv

LEMMA CourseInductive == CourseInv /\ [Course!Next]_(Course!vars) => CourseInv'
<1> SUFFICES ASSUME CourseInv, [Course!Next]_(Course!vars) PROVE CourseInv'
  OBVIOUS
<1>1. CASE UNCHANGED Course!vars
  BY <1>1 DEF Course!vars, Course!catalogue, Course!reporting, CourseInv, CourseTypes, CourseIndexed,
     CourseListed, CourseReports
<1>2. ASSUME NEW r \in Requests, Course!Step(r) PROVE CourseInv'
  BY <1>2, CreateKeeps, CourseReadsKeep, WriteStatusKeeps, CourseLooksKeep, IndexesKeep,
     CourseFailuresKeep, ListsKeep, FileReportKeeps DEF Course!Step
<1>3. ASSUME NEW r \in Requests, NEW w \in Users, Course!StartReport(r, w) PROVE CourseInv'
  BY <1>3, CourseLooksKeep
<1>4. CASE Course!Expire \/ \E w \in Users : Course!ResolveFlag(w)
  BY <1>4, LapsesKeep
<1> QED BY <1>1, <1>2, <1>3, <1>4 DEF Course!Next

LEMMA CourseMeans ==
  CourseInv => Course!TypeOK /\ Course!CatalogueInStep /\ Course!PausedByMany
<1> SUFFICES ASSUME CourseInv PROVE Course!TypeOK /\ Course!CatalogueInStep /\ Course!PausedByMany
  OBVIOUS
<1>1. Course!TypeOK
  BY Zenon DEF CourseInv, CourseTypes, Course!TypeOK
<1>2. Course!CatalogueInStep
  <2>1. x6 \in BOOLEAN /\ x7 \in BOOLEAN
    BY DEF CourseInv, CourseTypes
  <2>2. ASSUME \A r \in Requests : ~Course!Settling(r)
        PROVE  \A r \in Requests : x8[r].pc \notin ToSettle /\ x8[r].pc \notin ToIndex
    BY <2>2 DEF Course!Settling, ToSettle, ToIndex
  <2>3. ASSUME \A r \in Requests : ~Course!Settling(r), x6 = FALSE
        PROVE  x2 = "ACTIVE" <=> x1 = "ACTIVE"
    BY <2>2, <2>3 DEF CourseInv, CourseIndexed
  <2>4. ASSUME \A r \in Requests : ~Course!Settling(r), x7 = FALSE, x3 # "none"
        PROVE  x3 = Course!Listed(x1)
    BY <2>2, <2>4 DEF CourseInv, CourseListed
  <2> QED BY <2>1, <2>3, <2>4, Zenon DEF Course!CatalogueInStep
<1>3. Course!PausedByMany
  BY CourseCardinality DEF CourseInv, CourseReports, Course!PausedByMany, Course!At
<1> QED BY <1>1, <1>2, <1>3

------------------------------------------------------------------------------
(***************************************************************************)
(* Discussions: x1 is the enrolment, x2 says the lesson is free, x3 that   *)
(* the question is stored, x4 and x5 are the answers and the best of them, *)
(* x6 is the comment, x7 says it was judged, x8 that markings overlapped,  *)
(* x9 are the requests.  A request that is let in holds what let it in,    *)
(* and while no two markings overlap, one at most has cleared the marks:   *)
(* what is left is its own answer.                                         *)
(***************************************************************************)
CommentType == [there : BOOLEAN, flagged : BOOLEAN, hidden : BOOLEAN, review : Talk!Review]
TalkTypes ==
  /\ x1 \in {"none", "ACTIVE", "REFUNDED"} /\ x2 \in BOOLEAN /\ x3 \in BOOLEAN
  /\ x5 \subseteq x4 /\ x4 \subseteq Answers
  /\ x6 \in CommentType /\ x7 \in BOOLEAN /\ x8 \in BOOLEAN
  /\ x9 \in [Requests -> Talk!TaskType]
TalkPosts ==
  /\ (x3 = TRUE \/ x4 # {}) /\ x2 = FALSE => x1 # "none"
  /\ \A r \in Requests :
       /\ x9[r].pc = "ask" => x1 # "none" \/ x2 = TRUE
       /\ x9[r].pc = "answer" => x1 # "none" \/ x2 = TRUE
TalkMarks ==
  /\ \A r \in Requests :
       /\ x9[r].pc \in {"clearOthers", "clearAll", "set"} => \E q \in x4 : x9[r].of = {q}
       /\ x9[r].pc \in {"idle", "ask", "answer", "comment", "clearOthers", "clearAll", "hide"}
            => x9[r].cleared = {}
TalkBest ==
  /\ \E q \in x4 \union {None} : x5 \subseteq {q}
  /\ \A r \in Requests :
       x9[r].pc = "set" => /\ x5 \ x9[r].cleared \subseteq x9[r].of
                           /\ \A o \in Requests : x9[o].pc = "set" => o = r
TalkJudged == x6.flagged = TRUE /\ x7 = FALSE => x6.hidden = TRUE
TalkInv ==
  TalkTypes /\ TalkPosts /\ TalkMarks /\ (x8 = FALSE => TalkBest) /\ TalkJudged

LEMMA TalkCardinality == \A S : Talk!Cardinality(S) = Cardinality(S)
BY Zenon DEF Talk!Cardinality, Cardinality

LEMMA TalkIdle ==
  /\ Talk!Idle \in Talk!TaskType /\ Talk!Idle.pc = "idle" /\ Talk!Idle.cleared = {}
BY DEF Talk!Idle, Talk!TaskType

TalkSteps == {"ask", "answer", "comment", "clearOthers", "clearAll", "hide"}

LEMMA TalkGo ==
  ASSUME NEW r \in Requests, NEW pc \in TalkSteps, NEW of \in SUBSET Answers, Talk!Go(r, pc, of)
  PROVE  \E new \in Talk!TaskType :
           x9' = [x9 EXCEPT ![r] = new] /\ new.pc = pc /\ new.of = of /\ new.cleared = {}
<1> DEFINE n1 == [Talk!Idle EXCEPT !.pc = pc]
           n2 == [n1 EXCEPT !.of = of]
<1>1. n1 \in Talk!TaskType /\ n1.pc = pc /\ n1.cleared = {}
  BY DEF Talk!Idle, Talk!TaskType, TalkSteps
<1>2. x9' = [x9 EXCEPT ![r] = n2]
  BY Zenon DEF Talk!Go
<1> HIDE DEF n1
<1>3. n2 \in Talk!TaskType /\ n2.pc = pc /\ n2.of = of /\ n2.cleared = {}
  BY <1>1 DEF Talk!TaskType
<1> HIDE DEF n2
<1> QED BY <1>2, <1>3

LEMMA TalkInitially == Talk!Init => TalkInv
<1> SUFFICES ASSUME Talk!Init PROVE TalkInv
  OBVIOUS
<1>1. /\ x1 = "none" /\ x2 \in BOOLEAN /\ x3 = FALSE /\ x4 = {} /\ x5 = {}
      /\ x6 = Talk!NoComment /\ x7 = FALSE /\ x8 = FALSE /\ x9 = [r \in Requests |-> Talk!Idle]
  BY Zenon DEF Talk!Init
<1>2. \A r \in Requests : x9[r].pc = "idle" /\ x9[r].cleared = {}
  BY <1>1, TalkIdle
<1>3. x6 \in CommentType /\ x6.flagged = FALSE
  BY <1>1 DEF Talk!NoComment, CommentType, Talk!Review
<1>4. x3 # TRUE /\ x6.flagged # TRUE
  BY <1>1, <1>3
<1>5. TalkTypes
  <2>1. x9 \in [Requests -> Talk!TaskType]
    BY <1>1, TalkIdle
  <2>2. x3 \in BOOLEAN /\ x7 \in BOOLEAN /\ x8 \in BOOLEAN
    BY <1>1, Zenon
  <2>3. x1 \in {"none", "ACTIVE", "REFUNDED"} /\ x5 \subseteq x4 /\ x4 \subseteq Answers
    BY <1>1
  <2> QED BY <1>1, <1>3, <2>1, <2>2, <2>3, Zenon DEF TalkTypes
<1>6. TalkPosts
  BY <1>1, <1>2, <1>4 DEF TalkPosts
<1>7. TalkMarks
  BY <1>2 DEF TalkMarks
<1>8. TalkBest
  BY <1>1, <1>2 DEF TalkBest
<1>9. TalkJudged
  BY <1>4 DEF TalkJudged
<1> QED BY <1>5, <1>6, <1>7, <1>8, <1>9 DEF TalkInv

\* A step of one request that marks no answer.
LEMMA TalkMoves ==
  ASSUME TalkInv, NEW r \in Requests, NEW new \in Talk!TaskType,
         x9' = [x9 EXCEPT ![r] = new], x1' = x1, x2' = x2, x3' \in BOOLEAN,
         x4 \subseteq x4', x4' \subseteq Answers, x5' = x5, x8' = x8,
         x3' = x3 \/ x1 # "none" \/ x2 = TRUE, x4' = x4 \/ x1 # "none" \/ x2 = TRUE,
         new.pc \in TalkSteps \union {"idle"}, new.cleared = {},
         new.pc = "ask" => x1 # "none" \/ x2 = TRUE,
         new.pc = "answer" => x1 # "none" \/ x2 = TRUE,
         new.pc \in {"clearOthers", "clearAll"} => \E q \in x4 : new.of = {q},
         x6' \in CommentType, x7' = x7, TalkJudged'
  PROVE  TalkInv'
<1>0. TalkTypes /\ TalkPosts /\ TalkMarks
  BY DEF TalkInv
<1>1. x9'[r] = new /\ (\A o \in Requests : o # r => x9'[o] = x9[o]) /\ x9' \in [Requests -> Talk!TaskType]
  BY <1>0 DEF TalkTypes
<1>2. TalkTypes'
  <2>1. x1' \in {"none", "ACTIVE", "REFUNDED"} /\ x5' \subseteq x4'
    BY <1>0 DEF TalkTypes
  <2>2. x2' \in BOOLEAN /\ x7' \in BOOLEAN /\ x8' \in BOOLEAN
    BY <1>0, Zenon DEF TalkTypes
  <2> QED BY <1>1, <2>1, <2>2, Zenon DEF TalkTypes
<1>3. TalkPosts'
  <2>1. (x3' = TRUE \/ x4' # {}) /\ x2' = FALSE => x1' # "none"
    BY <1>0 DEF TalkPosts
  <2>2. \A o \in Requests : /\ x9'[o].pc = "ask" => x1' # "none" \/ x2' = TRUE
                            /\ x9'[o].pc = "answer" => x1' # "none" \/ x2' = TRUE
    BY <1>0, <1>1 DEF TalkPosts
  <2> QED BY <2>1, <2>2, Zenon DEF TalkPosts
<1>4. TalkMarks'
  BY <1>0, <1>1 DEF TalkMarks, TalkSteps
<1>5. ASSUME x8' = FALSE PROVE TalkBest'
  <2>1. TalkBest
    BY <1>5 DEF TalkInv
  <2>2. new.pc # "set"
    BY DEF TalkSteps
  <2> QED BY <1>1, <2>1, <2>2 DEF TalkBest
<1> QED BY <1>2, <1>3, <1>4, <1>5 DEF TalkInv

LEMMA TalkStartsKeep ==
  ASSUME TalkInv, NEW r \in Requests,
         \/ Talk!StartAskAnywhere(r) \/ Talk!StartAsk(r) \/ Talk!StartAnswer(r)
         \/ Talk!StartMark(r) \/ Talk!StartComment(r) \/ Talk!StartHide(r) \/ Talk!Abort(r)
  PROVE  TalkInv'
<1>1. /\ x1' = x1 /\ x2' = x2 /\ x3' = x3 /\ x4' = x4 /\ x5' = x5 /\ x6' = x6 /\ x7' = x7
      /\ x8' = x8
  BY DEF Talk!StartAskAnywhere, Talk!StartAsk, Talk!StartAnswer, Talk!StartMark,
     Talk!StartComment, Talk!StartHide, Talk!Abort, Talk!discussion
<1>0. TalkTypes
  BY DEF TalkInv
<1>2. PICK new \in Talk!TaskType :
        /\ x9' = [x9 EXCEPT ![r] = new] /\ new.pc \in TalkSteps \union {"idle"} /\ new.cleared = {}
        /\ new.pc = "ask" => x1 # "none" \/ x2 = TRUE
        /\ new.pc = "answer" => x1 # "none" \/ x2 = TRUE
        /\ new.pc \in {"clearOthers", "clearAll"} => \E q \in x4 : new.of = {q}
  <2>1. CASE Talk!StartAskAnywhere(r) \/ Talk!StartAsk(r)
    <3>1. (x1 # "none" \/ x2 = TRUE) /\ Talk!Go(r, "ask", {})
      <4>1. (x1 # "none" \/ x2) /\ Talk!Go(r, "ask", {})
        BY <2>1 DEF Talk!StartAskAnywhere, Talk!StartAsk, Talk!MayPost
      <4> QED BY <1>0, <4>1, Zenon DEF TalkTypes
    <3>2. PICK new \in Talk!TaskType : x9' = [x9 EXCEPT ![r] = new] /\ new.pc = "ask" /\ new.cleared = {}
      BY <3>1, TalkGo DEF TalkSteps
    <3> QED BY <3>1, <3>2 DEF TalkSteps
  <2>2. CASE Talk!StartAnswer(r)
    <3>1. PICK q \in Answers : Talk!Go(r, "answer", {q})
      BY <2>2 DEF Talk!StartAnswer
    <3>3. x1 # "none" \/ x2 = TRUE
      <4>1. x1 # "none" \/ x2
        BY <2>2 DEF Talk!StartAnswer, Talk!MayPost
      <4> QED BY <1>0, <4>1, Zenon DEF TalkTypes
    <3>2. PICK new \in Talk!TaskType : x9' = [x9 EXCEPT ![r] = new] /\ new.pc = "answer" /\ new.cleared = {}
      BY <3>1, TalkGo DEF TalkSteps
    <3> QED BY <3>2, <3>3 DEF TalkSteps
  <2>3. CASE Talk!StartMark(r)
    <3>1. PICK q \in x4, pc \in {"clearOthers", "clearAll"} : Talk!Go(r, pc, {q})
      BY <2>3 DEF Talk!StartMark
    <3>2. {q} \in SUBSET Answers /\ pc \in TalkSteps
      BY <1>0 DEF TalkTypes, TalkSteps
    <3>3. PICK new \in Talk!TaskType :
            x9' = [x9 EXCEPT ![r] = new] /\ new.pc = pc /\ new.of = {q} /\ new.cleared = {}
      BY <3>1, <3>2, TalkGo
    <3> QED BY <3>1, <3>2, <3>3
  <2>4. CASE Talk!StartComment(r)
    <3>1. PICK new \in Talk!TaskType : x9' = [x9 EXCEPT ![r] = new] /\ new.pc = "comment" /\ new.cleared = {}
      BY <2>4, TalkGo DEF TalkSteps, Talk!StartComment
    <3> QED BY <3>1 DEF TalkSteps
  <2>5. CASE Talk!StartHide(r)
    <3>1. PICK new \in Talk!TaskType : x9' = [x9 EXCEPT ![r] = new] /\ new.pc = "hide" /\ new.cleared = {}
      BY <2>5, TalkGo DEF TalkSteps, Talk!StartHide
    <3> QED BY <3>1 DEF TalkSteps
  <2>6. CASE Talk!Abort(r)
    BY <2>6, TalkIdle DEF Talk!Abort, Talk!Finish
  <2> QED BY <2>1, <2>2, <2>3, <2>4, <2>5, <2>6
<1>3. x3' \in BOOLEAN /\ x6' \in CommentType
  BY <1>0, <1>1 DEF TalkTypes
<1>4. TalkJudged'
  BY <1>1 DEF TalkInv, TalkJudged
<1>5. x4 \subseteq x4' /\ x4' \subseteq Answers
  BY <1>0, <1>1 DEF TalkTypes
<1> QED BY <1>1, <1>2, <1>3, <1>4, <1>5, TalkMoves

LEMMA TalkPostsKeep ==
  ASSUME TalkInv, NEW r \in Requests, Talk!CreateQuestion(r) \/ Talk!CreateAnswer(r)
  PROVE  TalkInv'
<1>0. TalkTypes /\ TalkPosts
  BY DEF TalkInv
<1>1. /\ x1' = x1 /\ x2' = x2 /\ x5' = x5 /\ x6' = x6 /\ x7' = x7 /\ x8' = x8
      /\ x9' = [x9 EXCEPT ![r] = Talk!Idle]
  BY DEF Talk!CreateQuestion, Talk!CreateAnswer, Talk!Finish
<1>2. x3' \in BOOLEAN /\ (x3' = x3 \/ x9[r].pc = "ask")
  BY <1>0, Zenon DEF Talk!CreateQuestion, Talk!CreateAnswer, TalkTypes
<1>3. (x4' = x4 \/ x9[r].pc = "answer") /\ x4 \subseteq x4' /\ x4' \subseteq Answers
  BY <1>0 DEF Talk!CreateQuestion, Talk!CreateAnswer, TalkTypes, Talk!TaskType
<1>4. (x3' = x3 \/ x1 # "none" \/ x2 = TRUE) /\ (x4' = x4 \/ x1 # "none" \/ x2 = TRUE)
  BY <1>0, <1>2, <1>3 DEF TalkPosts
<1>5. x6' \in CommentType
  BY <1>0, <1>1 DEF TalkTypes
<1>6. TalkJudged'
  BY <1>1 DEF TalkInv, TalkJudged
<1>7. Talk!Idle.pc \in TalkSteps \union {"idle"} /\ Talk!Idle.pc = "idle"
  BY TalkIdle
<1>8. PICK new \in Talk!TaskType :
        x9' = [x9 EXCEPT ![r] = new] /\ new.pc = "idle" /\ new.cleared = {}
  BY <1>1, TalkIdle
<1> QED BY <1>1, <1>2, <1>3, <1>4, <1>5, <1>6, <1>8, TalkMoves

LEMMA TalkCommentsKeep ==
  ASSUME TalkInv, NEW r \in Requests, Talk!CreateComment(r) \/ Talk!HideComment(r)
  PROVE  TalkInv'
<1>0. TalkTypes
  BY DEF TalkInv
<1>1. /\ x1' = x1 /\ x2' = x2 /\ x3' = x3 /\ x4' = x4 /\ x5' = x5 /\ x7' = x7 /\ x8' = x8
      /\ x9' = [x9 EXCEPT ![r] = Talk!Idle]
  BY DEF Talk!CreateComment, Talk!HideComment, Talk!Finish
<1>2. x6' \in CommentType /\ (x6'.flagged = TRUE => x6'.hidden = TRUE)
  <2>1. CASE Talk!CreateComment(r)
    <3>1. PICK flagged \in BOOLEAN :
            x6' = [there |-> TRUE, flagged |-> flagged, hidden |-> flagged,
                   review |-> IF flagged THEN "PENDING" ELSE "APPROVED"]
      BY <2>1 DEF Talk!CreateComment, Talk!HiddenAtFirst
    <3>2. (IF flagged THEN "PENDING" ELSE "APPROVED") \in Talk!Review
      BY DEF Talk!Review
    <3> QED BY <3>1, <3>2, Zenon DEF CommentType
  <2>2. CASE Talk!HideComment(r)
    <3>1. x6' = [x6 EXCEPT !.hidden = TRUE]
      BY <2>2 DEF Talk!HideComment
    <3> QED BY <1>0, <3>1 DEF TalkTypes, CommentType
  <2> QED BY <2>1, <2>2
<1>3. TalkJudged'
  BY <1>2 DEF TalkJudged
<1>4. x3' \in BOOLEAN /\ x4 \subseteq x4' /\ x4' \subseteq Answers
  BY <1>0, <1>1 DEF TalkTypes
<1>5. PICK new \in Talk!TaskType :
        x9' = [x9 EXCEPT ![r] = new] /\ new.pc = "idle" /\ new.cleared = {}
  BY <1>1, TalkIdle
<1> QED BY <1>1, <1>2, <1>3, <1>4, <1>5, TalkMoves

LEMMA ClearBestKeeps == ASSUME TalkInv, NEW r \in Requests, Talk!ClearBest(r) PROVE TalkInv'
<1>0. TalkTypes /\ TalkPosts /\ TalkMarks
  BY DEF TalkInv
<1>1. /\ x1' = x1 /\ x2' = x2 /\ x3' = x3 /\ x4' = x4 /\ x5' = x5 /\ x6' = x6 /\ x7' = x7
      /\ x9[r].pc \in {"clearOthers", "clearAll"}
      /\ x9' = [x9 EXCEPT ![r].pc = "set", ![r].cleared = Talk!Cleared(r)]
  BY DEF Talk!ClearBest, Talk!discussion
<1>2. /\ x8' \in BOOLEAN
      /\ x8' = FALSE => x8 = FALSE /\ \A o \in Requests : x9[o].pc # "set"
  BY <1>0, Zenon DEF Talk!ClearBest, TalkTypes
<1>3. Talk!Cleared(r) \subseteq Answers /\ x5 \ Talk!Cleared(r) \subseteq x9[r].of
  BY <1>0 DEF Talk!Cleared, TalkTypes
<1>4. PICK new \in Talk!TaskType :
        /\ x9' = [x9 EXCEPT ![r] = new] /\ new.pc = "set" /\ new.of = x9[r].of
        /\ new.cleared = Talk!Cleared(r)
  <2> DEFINE n1 == [x9[r] EXCEPT !.pc = "set"]
             n2 == [n1 EXCEPT !.cleared = Talk!Cleared(r)]
  <2>0. x9[r] \in Talk!TaskType
    BY <1>0 DEF TalkTypes
  <2>1. x9' = [x9 EXCEPT ![r] = n2]
    BY <1>0, <1>1 DEF TalkTypes
  <2>2. n1 \in Talk!TaskType /\ n1.pc = "set" /\ n1.of = x9[r].of
    BY <2>0 DEF Talk!TaskType
  <2> HIDE DEF n1
  <2>3. /\ n2 \in Talk!TaskType /\ n2.pc = "set" /\ n2.of = x9[r].of
        /\ n2.cleared = Talk!Cleared(r)
    BY <2>2, <1>3 DEF Talk!TaskType
  <2> HIDE DEF n2
  <2> QED BY <2>1, <2>3
<1>5. x9'[r] = new /\ (\A o \in Requests : o # r => x9'[o] = x9[o]) /\ x9' \in [Requests -> Talk!TaskType]
  BY <1>0, <1>4 DEF TalkTypes
<1>6. TalkTypes'
  BY <1>0, <1>1, <1>2, <1>5 DEF TalkTypes
<1>7. TalkPosts'
  BY <1>0, <1>1, <1>4, <1>5 DEF TalkPosts
<1>8. TalkMarks'
  <2>1. \E q \in x4 : new.of = {q}
    BY <1>0, <1>1, <1>4 DEF TalkMarks
  <2> QED BY <1>0, <1>1, <1>4, <1>5, <2>1 DEF TalkMarks
<1>9. ASSUME x8' = FALSE PROVE TalkBest'
  <2>1. TalkBest
    BY <1>2, <1>9 DEF TalkInv
  <2>2. \A o \in Requests : x9'[o].pc = "set" => o = r
    BY <1>2, <1>5, <1>9
  <2>3. x5 \ new.cleared \subseteq new.of
    BY <1>3, <1>4
  <2> QED BY <1>1, <1>5, <2>1, <2>2, <2>3 DEF TalkBest
<1>10. TalkJudged'
  BY <1>1 DEF TalkInv, TalkJudged
<1> QED BY <1>6, <1>7, <1>8, <1>9, <1>10 DEF TalkInv

LEMMA SetBestKeeps == ASSUME TalkInv, NEW r \in Requests, Talk!SetBest(r) PROVE TalkInv'
<1>0. TalkTypes /\ TalkPosts /\ TalkMarks
  BY DEF TalkInv
<1>1. /\ x1' = x1 /\ x2' = x2 /\ x3' = x3 /\ x4' = x4 /\ x6' = x6 /\ x7' = x7 /\ x8' = x8
      /\ x9[r].pc = "set" /\ x5' = (x5 \ x9[r].cleared) \union x9[r].of
      /\ x9' = [x9 EXCEPT ![r] = Talk!Idle]
  BY DEF Talk!SetBest, Talk!Finish
<1>2. PICK q \in x4 : x9[r].of = {q}
  BY <1>0, <1>1 DEF TalkMarks
<1>5. /\ x9'[r] = Talk!Idle /\ (\A o \in Requests : o # r => x9'[o] = x9[o])
      /\ x9' \in [Requests -> Talk!TaskType]
  BY <1>0, <1>1, TalkIdle DEF TalkTypes
<1>6. TalkTypes'
  <2>1. x5' \subseteq x4'
    BY <1>0, <1>1, <1>2 DEF TalkTypes
  <2> QED BY <1>0, <1>1, <1>5, <2>1 DEF TalkTypes
<1>7. TalkPosts'
  BY <1>0, <1>1, <1>5, TalkIdle DEF TalkPosts
<1>8. TalkMarks'
  BY <1>0, <1>1, <1>5, TalkIdle DEF TalkMarks
<1>9. ASSUME x8' = FALSE PROVE TalkBest'
  <2>1. TalkBest
    BY <1>1, <1>9 DEF TalkInv
  <2>2. x5' \subseteq {q}
    BY <1>1, <1>2, <2>1 DEF TalkBest
  <2>3. \A o \in Requests : x9'[o].pc # "set"
    BY <1>1, <1>5, <2>1, TalkIdle DEF TalkBest
  <2> QED BY <1>1, <2>2, <2>3 DEF TalkBest
<1>10. TalkJudged'
  BY <1>1 DEF TalkInv, TalkJudged
<1> QED BY <1>6, <1>7, <1>8, <1>9, <1>10 DEF TalkInv

LEMMA TalkOthersKeep ==
  ASSUME TalkInv, Talk!ModerateComment \/ Talk!Enroll \/ Talk!Refund
  PROVE  TalkInv'
<1>0. TalkTypes /\ TalkPosts /\ TalkMarks
  BY DEF TalkInv
<1>1. x2' = x2 /\ x3' = x3 /\ x4' = x4 /\ x5' = x5 /\ x8' = x8 /\ x9' = x9
  BY DEF Talk!ModerateComment, Talk!Enroll, Talk!Refund
<1>2. x1' \in {"none", "ACTIVE", "REFUNDED"} /\ (x1 # "none" => x1' # "none")
  BY <1>0 DEF Talk!ModerateComment, Talk!Enroll, Talk!Refund, TalkTypes
<1>3. (x6' = x6 /\ x7' = x7) \/ (x6' \in CommentType /\ x7' = TRUE)
  <2>1. CASE Talk!ModerateComment
    <3>1. PICK verdict \in Talk!Review, told \in {"no", "hide", "show"} :
            x6' = [x6 EXCEPT !.review = verdict,
                     !.hidden = IF told = "no" THEN verdict = "REJECTED" ELSE told = "hide"]
      BY <2>1 DEF Talk!ModerateComment
    <3> DEFINE hid == IF told = "no" THEN verdict = "REJECTED" ELSE told = "hide"
               n1 == [x6 EXCEPT !.review = verdict]
               n2 == [n1 EXCEPT !.hidden = hid]
    <3>2. x6' = n2
      BY <3>1, Zenon
    <3>3. hid \in BOOLEAN
      OBVIOUS
    <3> HIDE DEF hid
    <3>4. n1 \in CommentType
      BY <1>0 DEF TalkTypes, CommentType
    <3> HIDE DEF n1
    <3>5. n2 \in CommentType
      BY <3>3, <3>4 DEF CommentType
    <3>6. x7' = TRUE
      BY <2>1, Zenon DEF Talk!ModerateComment
    <3> QED BY <3>2, <3>5, <3>6
  <2>2. CASE Talk!Enroll \/ Talk!Refund
    BY <2>2 DEF Talk!Enroll, Talk!Refund
  <2> QED BY <2>1, <2>2
<1>4. TalkTypes'
  <2>1. x7' \in BOOLEAN /\ x6' \in CommentType
    BY <1>0, <1>3, Zenon DEF TalkTypes
  <2> QED BY <1>0, <1>1, <1>2, <2>1 DEF TalkTypes
<1>5. TalkPosts'
  BY <1>0, <1>1, <1>2 DEF TalkPosts
<1>6. TalkMarks'
  BY <1>0, <1>1 DEF TalkMarks
<1>7. ASSUME x8' = FALSE PROVE TalkBest'
  <2>1. TalkBest
    BY <1>1, <1>7 DEF TalkInv
  <2> QED BY <1>1, <2>1 DEF TalkBest
<1>8. TalkJudged'
  BY <1>3 DEF TalkInv, TalkJudged
<1> QED BY <1>4, <1>5, <1>6, <1>7, <1>8 DEF TalkInv

LEMMA TalkInductive == TalkInv /\ [Talk!Next]_(Talk!vars) => TalkInv'
<1> SUFFICES ASSUME TalkInv, [Talk!Next]_(Talk!vars) PROVE TalkInv'
  OBVIOUS
<1>1. CASE UNCHANGED Talk!vars
  <2>1. /\ x1' = x1 /\ x2' = x2 /\ x3' = x3 /\ x4' = x4 /\ x5' = x5 /\ x6' = x6 /\ x7' = x7
        /\ x8' = x8 /\ x9' = x9
    BY <1>1 DEF Talk!vars, Talk!discussion
  <2> QED BY <2>1 DEF TalkInv, TalkTypes, TalkPosts, TalkMarks, TalkBest, TalkJudged
<1>2. ASSUME NEW r \in Requests,
             \/ Talk!StartAskAnywhere(r) \/ Talk!StartAsk(r) \/ Talk!CreateQuestion(r)
             \/ Talk!StartAnswer(r) \/ Talk!CreateAnswer(r)
             \/ Talk!StartMark(r) \/ Talk!ClearBest(r) \/ Talk!SetBest(r)
             \/ Talk!StartComment(r) \/ Talk!CreateComment(r) \/ Talk!StartHide(r)
             \/ Talk!HideComment(r) \/ Talk!Abort(r)
      PROVE  TalkInv'
  BY <1>2, TalkStartsKeep, TalkPostsKeep, TalkCommentsKeep, ClearBestKeeps, SetBestKeeps
<1> QED BY <1>1, <1>2, TalkOthersKeep DEF Talk!Next

LEMMA TalkMeans == TalkInv => Talk!TypeOK /\ Talk!DiscussionSound
<1> SUFFICES ASSUME TalkInv PROVE Talk!TypeOK /\ Talk!DiscussionSound
  OBVIOUS
<1>0. TalkTypes /\ TalkPosts
  BY DEF TalkInv
<1>1. Talk!TypeOK
  BY <1>0, Zenon DEF TalkTypes, Talk!TypeOK, CommentType
<1>2. (x3 \/ x4 # {}) /\ ~x2 => x1 # "none"
  <2>1. (x3 => x3 = TRUE) /\ (~x2 => x2 = FALSE)
    BY <1>0, Zenon DEF TalkTypes
  <2> QED BY <1>0, <2>1, Zenon DEF TalkPosts
<1>3. ~x8 => Talk!Cardinality(x5) <= 1
  <2> SUFFICES ASSUME ~x8 PROVE Cardinality(x5) <= 1
    BY TalkCardinality
  <2>1. x8 = FALSE
    BY <1>0, Zenon DEF TalkTypes
  <2>2. PICK q : x5 \subseteq {q}
    BY <2>1 DEF TalkInv, TalkBest
  <2>3. x5 = {} \/ x5 = {q}
    BY <2>2
  <2>4. Cardinality({}) = 0 /\ Cardinality({q}) = 1
    BY FS_EmptySet, FS_Singleton
  <2> QED BY <2>3, <2>4
<1>4. Talk!Visible /\ x6.flagged => x7
  <2> SUFFICES ASSUME Talk!Visible, x6.flagged, ~x7 PROVE FALSE
    OBVIOUS
  <2>1. x6.flagged \in BOOLEAN /\ x6.hidden \in BOOLEAN
    BY <1>0 DEF TalkTypes, CommentType
  <2>2. x6.flagged = TRUE /\ x7 = FALSE
    BY <1>0, <2>1, Zenon DEF TalkTypes
  <2>3. x6.hidden = TRUE
    BY <2>2 DEF TalkInv, TalkJudged
  <2> QED BY <2>3, Zenon DEF Talk!Visible
<1> QED BY <1>1, <1>2, <1>3, <1>4, Zenon DEF Talk!DiscussionSound

------------------------------------------------------------------------------
(***************************************************************************)
(* CourseBackups: x1 and x2 are the course, x3 counts its edits, x4 are    *)
(* the backups, x5 the exports, x6 says that two overlapped.  Otherwise at *)
(* most one export is under way, and what it read is not older than any    *)
(* backup.                                                                 *)
(***************************************************************************)
SnapshotType == [parts : Backup!Structures, age : 0 .. MaxEdits, complete : BOOLEAN]
ExportType ==
  [pc : {"idle", "version", "insert"}, parts : Backup!Structures, age : 0 .. MaxEdits,
   next : 0 .. MaxVersions + 1]
BackupTypes ==
  /\ x2 \in Backup!Structures /\ x3 \in 0 .. MaxEdits
  /\ x4 \in Seq(SnapshotType) /\ Len(x4) <= MaxVersions
  /\ x5 \in [Requests -> ExportType] /\ x6 \in BOOLEAN
BackupAges ==
  /\ \A i \in 1 .. Len(x4) : x4[i].age <= x3
  /\ \A r \in Requests : x5[r].age <= x3
BackupTrue == \A i \in 1 .. Len(x4) : x4[i].complete = TRUE => Backup!Restorable(x4[i].parts)
BackupSorted ==
  /\ \A i, k \in 1 .. Len(x4) : i < k => x4[i].age <= x4[k].age
  /\ \A r \in Requests :
       x5[r].pc # "idle" => /\ \A i \in 1 .. Len(x4) : x4[i].age <= x5[r].age
                            /\ \A o \in Requests : x5[o].pc # "idle" => o = r
BackupInv == BackupTypes /\ BackupAges /\ BackupTrue /\ (x6 = FALSE => BackupSorted)

LEMMA BackupBounds == MaxEdits \in Nat /\ MaxVersions \in Nat
BY PlatformAssumption DEF Backup!ConstantsAssumption

LEMMA NoStructure == [p \in Parts |-> "-"] \in Backup!Structures
BY DEF Backup!Structures

LEMMA BackupIdle ==
  Backup!Idle \in ExportType /\ Backup!Idle.pc = "idle" /\ Backup!Idle.age = 0
<1>1. 0 \in 0 .. MaxEdits /\ 0 \in 0 .. MaxVersions + 1
  BY BackupBounds
<1> QED BY <1>1, NoStructure DEF Backup!Idle, ExportType

LEMMA BackupInitially == Backup!Init => BackupInv
<1> SUFFICES ASSUME Backup!Init PROVE BackupInv
  OBVIOUS
<1>1. /\ x2 = [p \in Parts |-> "-"] /\ x3 = 0 /\ x4 = <<>> /\ x6 = FALSE
      /\ x5 = [r \in Requests |-> Backup!Idle]
  BY Zenon DEF Backup!Init
<1>2. x4 \in Seq(SnapshotType) /\ Len(x4) = 0
  BY <1>1
<1>3. BackupTypes
  <2>1. x6 \in BOOLEAN
    BY <1>1, Zenon
  <2>2. x5 \in [Requests -> ExportType]
    BY <1>1, BackupIdle
  <2>3. x3 \in 0 .. MaxEdits /\ Len(x4) <= MaxVersions
    BY <1>1, <1>2, BackupBounds
  <2>4. x2 \in Backup!Structures
    BY <1>1, NoStructure
  <2> QED BY <1>2, <2>1, <2>2, <2>3, <2>4, Zenon DEF BackupTypes
<1>4. \A r \in Requests : x5[r].pc = "idle" /\ x5[r].age = 0
  BY <1>1, BackupIdle
<1>5. 1 .. Len(x4) = {}
  BY <1>2
<1>6. BackupAges
  BY <1>1, <1>4, <1>5 DEF BackupAges
<1>7. BackupTrue /\ BackupSorted
  BY <1>4, <1>5 DEF BackupTrue, BackupSorted
<1> QED BY <1>3, <1>6, <1>7 DEF BackupInv

\* A step of one export that inserts nothing.
LEMMA BackupMoves ==
  ASSUME BackupInv, NEW r \in Requests, NEW new \in ExportType,
         x5' = [x5 EXCEPT ![r] = new], x2' = x2, x3' = x3, x4' = x4, x6' \in BOOLEAN,
         new.age <= x3,
         x6' = FALSE =>
           /\ x6 = FALSE
           /\ new.pc # "idle" =>
                /\ \A o \in Requests : x5[o].pc # "idle" => o = r
                /\ \A i \in 1 .. Len(x4) : x4[i].age <= new.age
  PROVE  BackupInv'
<1>0. BackupTypes /\ BackupAges /\ BackupTrue
  BY DEF BackupInv
<1>1. x5'[r] = new /\ (\A o \in Requests : o # r => x5'[o] = x5[o]) /\ x5' \in [Requests -> ExportType]
  BY <1>0 DEF BackupTypes
<1>2. BackupTypes'
  BY <1>0, <1>1 DEF BackupTypes
<1>3. BackupAges'
  BY <1>0, <1>1 DEF BackupAges
<1>4. BackupTrue'
  BY <1>0, Zenon DEF BackupTrue, Backup!Restorable, Backup!PartsOf
<1>5. ASSUME x6' = FALSE PROVE BackupSorted'
  <2>1. BackupSorted
    BY <1>5 DEF BackupInv
  <2>2. \A i, k \in 1 .. Len(x4') : i < k => x4'[i].age <= x4'[k].age
    BY <2>1 DEF BackupSorted
  <2>3. ASSUME NEW q \in Requests, x5'[q].pc # "idle"
        PROVE  /\ \A i \in 1 .. Len(x4') : x4'[i].age <= x5'[q].age
               /\ \A o \in Requests : x5'[o].pc # "idle" => o = q
    <3>1. CASE q = r
      BY <1>1, <1>5, <2>3, <3>1
    <3>2. CASE q # r
      BY <1>1, <1>5, <2>1, <2>3, <3>2 DEF BackupSorted
    <3> QED BY <3>1, <3>2
  <2> QED BY <2>2, <2>3 DEF BackupSorted
<1> QED BY <1>2, <1>3, <1>4, <1>5 DEF BackupInv

LEMMA StartExportKeeps == ASSUME BackupInv, NEW r \in Requests, Backup!StartExport(r) PROVE BackupInv'
<1>0. BackupTypes /\ BackupAges
  BY DEF BackupInv
<1>1. /\ x2' = x2 /\ x3' = x3 /\ x4' = x4
      /\ x5' = [x5 EXCEPT ![r] =
                 [Backup!Idle EXCEPT !.pc = "version", !.parts = x2, !.age = x3]]
  BY DEF Backup!StartExport
<1>2. /\ x6' \in BOOLEAN
      /\ x6' = FALSE => x6 = FALSE /\ \A o \in Requests \ {r} : x5[o] = Backup!Idle
  BY <1>0, Zenon DEF Backup!StartExport, BackupTypes
<1> DEFINE n1 == [Backup!Idle EXCEPT !.pc = "version"]
           n2 == [n1 EXCEPT !.parts = x2]
           n3 == [n2 EXCEPT !.age = x3]
<1>3. x5' = [x5 EXCEPT ![r] = n3]
  BY <1>1, Zenon
<1>4. n1 \in ExportType /\ n1.pc = "version"
  BY BackupIdle DEF ExportType
<1> HIDE DEF n1
<1>5. n2 \in ExportType /\ n2.pc = "version"
  BY <1>0, <1>4 DEF ExportType, BackupTypes
<1> HIDE DEF n2
<1>6. n3 \in ExportType /\ n3.pc = "version" /\ n3.age = x3
  BY <1>0, <1>5 DEF ExportType, BackupTypes
<1> HIDE DEF n3
<1>7. n3.age <= x3
  BY <1>0, <1>6 DEF BackupTypes
<1>8. ASSUME x6' = FALSE
      PROVE  /\ \A o \in Requests : x5[o].pc # "idle" => o = r
             /\ \A i \in 1 .. Len(x4) : x4[i].age <= n3.age
  <2>1. \A o \in Requests : x5[o].pc # "idle" => o = r
    BY <1>2, <1>8, BackupIdle
  <2>2. \A i \in 1 .. Len(x4) : x4[i].age <= n3.age
    BY <1>0, <1>6 DEF BackupAges
  <2> QED BY <2>1, <2>2
<1> QED BY <1>1, <1>2, <1>3, <1>6, <1>7, <1>8, BackupMoves

LEMMA BackupReadsKeep ==
  ASSUME BackupInv, NEW r \in Requests, Backup!ReadLatestVersion(r) \/ Backup!ExportFails(r)
  PROVE  BackupInv'
<1>0. BackupTypes /\ BackupAges /\ x5[r] \in ExportType
  BY DEF BackupInv, BackupTypes
<1>1. x2' = x2 /\ x3' = x3 /\ x4' = x4 /\ x6' = x6
  BY DEF Backup!ReadLatestVersion, Backup!ExportFails
<1>2. PICK new \in ExportType :
        /\ x5' = [x5 EXCEPT ![r] = new] /\ new.age <= x3
        /\ new.pc # "idle" => x5[r].pc # "idle" /\ new.age = x5[r].age
  <2>1. CASE Backup!ReadLatestVersion(r)
    <3> DEFINE n1 == [x5[r] EXCEPT !.pc = "insert"]
               n2 == [n1 EXCEPT !.next = Len(x4) + 1]
    <3>1. x5[r].pc = "version" /\ x5' = [x5 EXCEPT ![r] = n2]
      BY <1>0, <2>1 DEF Backup!ReadLatestVersion, BackupTypes
    <3>2. n1 \in ExportType /\ n1.age = x5[r].age
      BY <1>0 DEF ExportType
    <3> HIDE DEF n1
    <3>3. Len(x4) + 1 \in 0 .. MaxVersions + 1
      <4>1. Len(x4) \in Nat /\ Len(x4) <= MaxVersions
        BY <1>0 DEF BackupTypes
      <4> QED BY <4>1, BackupBounds
    <3>4. n2 \in ExportType /\ n2.age = x5[r].age
      BY <3>2, <3>3 DEF ExportType
    <3> HIDE DEF n2
    <3>5. n2.age <= x3
      BY <1>0, <3>4 DEF BackupAges
    <3> QED BY <3>1, <3>4, <3>5
  <2>2. CASE Backup!ExportFails(r)
    <3>1. x5' = [x5 EXCEPT ![r] = Backup!Idle]
      BY <2>2 DEF Backup!ExportFails
    <3>2. Backup!Idle.age <= x3
      BY <1>0, BackupIdle DEF BackupTypes
    <3> QED BY <3>1, <3>2, BackupIdle
  <2> QED BY <2>1, <2>2
<1>3. x6' \in BOOLEAN
  BY <1>0, <1>1 DEF BackupTypes
<1>4. ASSUME x6' = FALSE, new.pc # "idle"
      PROVE  /\ \A o \in Requests : x5[o].pc # "idle" => o = r
             /\ \A i \in 1 .. Len(x4) : x4[i].age <= new.age
  <2>1. BackupSorted
    BY <1>1, <1>4 DEF BackupInv
  <2> QED BY <1>2, <1>4, <2>1 DEF BackupSorted
<1> QED BY <1>1, <1>2, <1>3, <1>4, BackupMoves

LEMMA EditKeeps == ASSUME BackupInv, Backup!EditCourse PROVE BackupInv'
<1>0. BackupTypes /\ BackupAges /\ BackupTrue
  BY DEF BackupInv
<1>1. /\ x3 < MaxEdits /\ x3' = x3 + 1 /\ x4' = x4 /\ x5' = x5 /\ x6' = x6
      /\ x2' \in Backup!Structures
  BY DEF Backup!EditCourse
<1>2. x3' \in 0 .. MaxEdits /\ x3 <= x3' /\ x3 \in Int
  BY <1>0, <1>1, BackupBounds DEF BackupTypes
<1>3. BackupTypes'
  BY <1>0, <1>1, <1>2 DEF BackupTypes
<1>4. BackupAges'
  <2>1. ASSUME NEW i \in 1 .. Len(x4) PROVE x4[i].age \in Int
    <3>1. x4[i] \in SnapshotType
      BY <1>0 DEF BackupTypes
    <3> QED BY <3>1 DEF SnapshotType
  <2>2. \A r \in Requests : x5[r].age \in Int
    BY <1>0 DEF BackupTypes, ExportType
  <2> QED BY <1>0, <1>1, <1>2, <2>1, <2>2 DEF BackupAges
<1>5. BackupTrue'
  BY <1>0, <1>1, Zenon DEF BackupTrue, Backup!Restorable, Backup!PartsOf
<1>6. ASSUME x6' = FALSE PROVE BackupSorted'
  <2>1. BackupSorted
    BY <1>1, <1>6 DEF BackupInv
  <2> QED BY <1>1, <2>1 DEF BackupSorted
<1> QED BY <1>3, <1>4, <1>5, <1>6 DEF BackupInv

LEMMA CompleteRestorable ==
  ASSUME NEW s, Backup!Complete(s) PROVE Backup!Restorable(s)
BY DEF Backup!Complete, Backup!Restorable

LEMMA InsertKeeps == ASSUME BackupInv, NEW r \in Requests, Backup!InsertBackup(r) PROVE BackupInv'
<1>0. BackupTypes /\ BackupAges /\ BackupTrue /\ x5[r] \in ExportType
  BY DEF BackupInv, BackupTypes
<1>1. /\ x5[r].pc = "insert" /\ Len(x4) < MaxVersions
      /\ x2' = x2 /\ x3' = x3 /\ x6' = x6
      /\ x5' = [x5 EXCEPT ![r] = Backup!Idle]
      /\ x4' = x4 \/ x4' = Append(x4, Backup!Snapshot(r))
  BY DEF Backup!InsertBackup
<1>2. CASE x4' = x4
  <2>1. Backup!Idle.age <= x3
    BY <1>0, BackupIdle DEF BackupTypes
  <2>2. x6' \in BOOLEAN
    BY <1>0, <1>1 DEF BackupTypes
  <2>3. PICK new \in ExportType : x5' = [x5 EXCEPT ![r] = new] /\ new.pc = "idle" /\ new.age <= x3
    BY <1>1, <2>1, BackupIdle
  <2>4. x6' = FALSE => x6 = FALSE
    BY <1>1
  <2> QED BY <1>1, <1>2, <2>2, <2>3, <2>4, BackupMoves
<1>3. CASE x4' = Append(x4, Backup!Snapshot(r))
  <2> DEFINE snap == Backup!Snapshot(r)
  <2>1. /\ snap \in SnapshotType /\ snap.age = x5[r].age /\ snap.parts = x5[r].parts
        /\ snap.complete = Backup!Complete(x5[r].parts)
    <3>1. Backup!Complete(x5[r].parts) \in BOOLEAN
      BY Zenon DEF Backup!Complete
    <3> HIDE DEF snap
    <3>2. snap = [parts |-> x5[r].parts, age |-> x5[r].age, complete |-> Backup!Complete(x5[r].parts)]
      BY Zenon DEF snap, Backup!Snapshot
    <3>3. x5[r].parts \in Backup!Structures /\ x5[r].age \in 0 .. MaxEdits
      BY <1>0 DEF ExportType
    <3>4. snap \in SnapshotType
      BY <3>1, <3>2, <3>3, Zenon DEF SnapshotType
    <3>5. /\ snap.age = x5[r].age /\ snap.parts = x5[r].parts
          /\ snap.complete = Backup!Complete(x5[r].parts)
      BY <3>2
    <3> QED BY <3>4, <3>5
  <2> HIDE DEF snap
  <2>2. snap.complete = TRUE => Backup!Restorable(snap.parts)
    BY <2>1, CompleteRestorable
  <2>3. /\ x4' \in Seq(SnapshotType) /\ Len(x4') = Len(x4) + 1 /\ Len(x4) \in Nat
        /\ x4'[Len(x4) + 1] = snap /\ \A i \in 1 .. Len(x4) : x4'[i] = x4[i]
    BY <1>0, <1>3, <2>1 DEF BackupTypes, snap
  <2>4. \A i \in 1 .. Len(x4') : i \in 1 .. Len(x4) \/ (i = Len(x4) + 1 /\ x4'[i] = snap)
    BY <2>3
  <2>5. x5'[r] = Backup!Idle /\ (\A o \in Requests : o # r => x5'[o] = x5[o])
        /\ x5' \in [Requests -> ExportType]
    BY <1>0, <1>1, BackupIdle DEF BackupTypes
  <2>6. BackupTypes'
    <3>1. Len(x4') <= MaxVersions
      BY <1>1, <2>3, BackupBounds
    <3> QED BY <1>0, <1>1, <2>3, <2>5, <3>1 DEF BackupTypes
  <2>7. BackupAges'
    <3>1. \A i \in 1 .. Len(x4') : x4'[i].age <= x3
      BY <1>0, <2>1, <2>3, <2>4 DEF BackupAges
    <3>2. \A o \in Requests : x5'[o].age <= x3
      BY <1>0, <2>5, BackupIdle DEF BackupAges, BackupTypes
    <3> QED BY <1>1, <3>1, <3>2 DEF BackupAges
  <2>8. BackupTrue'
    <3>1. \A i \in 1 .. Len(x4') : x4'[i].complete = TRUE => Backup!Restorable(x4'[i].parts)
      BY <1>0, <2>2, <2>3, <2>4 DEF BackupTrue
    <3> QED BY <3>1, Zenon DEF BackupTrue, Backup!Restorable, Backup!PartsOf
  <2>9. ASSUME x6' = FALSE PROVE BackupSorted'
    <3>1. BackupSorted
      BY <1>1, <2>9 DEF BackupInv
    <3>2. \A o \in Requests : x5'[o].pc = "idle"
      BY <1>1, <2>5, <3>1, BackupIdle DEF BackupSorted
    <3>3. ASSUME NEW i \in 1 .. Len(x4'), NEW k \in 1 .. Len(x4'), i < k
          PROVE  x4'[i].age <= x4'[k].age
      <4>1. i \in 1 .. Len(x4)
        BY <2>3, <3>3
      <4>2. CASE k \in 1 .. Len(x4)
        BY <2>3, <3>1, <3>3, <4>1, <4>2 DEF BackupSorted
      <4>3. CASE k = Len(x4) + 1
        BY <1>1, <2>1, <2>3, <3>1, <4>1, <4>3 DEF BackupSorted
      <4> QED BY <2>4, <4>2, <4>3
    <3> QED BY <3>2, <3>3 DEF BackupSorted
  <2> QED BY <2>6, <2>7, <2>8, <2>9 DEF BackupInv
<1> QED BY <1>1, <1>2, <1>3

LEMMA BackupInductive == BackupInv /\ [Backup!Next]_(Backup!vars) => BackupInv'
<1> SUFFICES ASSUME BackupInv, [Backup!Next]_(Backup!vars) PROVE BackupInv'
  OBVIOUS
<1>1. CASE UNCHANGED Backup!vars
  <2>1. x2' = x2 /\ x3' = x3 /\ x4' = x4 /\ x5' = x5 /\ x6' = x6
    BY <1>1 DEF Backup!vars
  <2>2. BackupTrue'
    BY <2>1, Zenon DEF BackupInv, BackupTrue, Backup!Restorable, Backup!PartsOf
  <2> QED BY <2>1, <2>2 DEF BackupInv, BackupTypes, BackupAges, BackupSorted
<1>2. ASSUME NEW r \in Requests,
             \/ Backup!StartExport(r) \/ Backup!ScheduledExport(r)
             \/ Backup!ReadLatestVersion(r) \/ Backup!InsertBackup(r) \/ Backup!ExportFails(r)
      PROVE  BackupInv'
  BY <1>2, StartExportKeeps, BackupReadsKeep, InsertKeeps DEF Backup!ScheduledExport
<1> QED BY <1>1, <1>2, EditKeeps DEF Backup!Next

LEMMA BackupMeans == BackupInv => Backup!TypeOK /\ Backup!VersionsSound
<1> SUFFICES ASSUME BackupInv PROVE Backup!TypeOK /\ Backup!VersionsSound
  OBVIOUS
<1>0. BackupTypes /\ BackupTrue
  BY DEF BackupInv
<1>1. Backup!TypeOK
  BY <1>0 DEF BackupTypes, Backup!TypeOK, ExportType
<1>2. DOMAIN x4 = 1 .. Len(x4)
  BY <1>0 DEF BackupTypes
<1>3. ~x6 => \A i, k \in DOMAIN x4 : i < k => x4[i].age <= x4[k].age
  <2> SUFFICES ASSUME ~x6 PROVE \A i, k \in DOMAIN x4 : i < k => x4[i].age <= x4[k].age
    OBVIOUS
  <2>1. x6 = FALSE
    BY <1>0, Zenon DEF BackupTypes
  <2> QED BY <1>2, <2>1 DEF BackupInv, BackupSorted
<1>4. \A i \in DOMAIN x4 : x4[i].complete => Backup!Restorable(x4[i].parts)
  <2>1. ASSUME NEW i \in DOMAIN x4 PROVE x4[i].complete \in BOOLEAN
    <3>1. x4[i] \in SnapshotType
      BY <1>0, <1>2 DEF BackupTypes
    <3> QED BY <3>1 DEF SnapshotType
  <2> QED BY <1>0, <1>2, <2>1, Zenon DEF BackupTrue
<1> QED BY <1>1, <1>3, <1>4, Zenon DEF Backup!VersionsSound

------------------------------------------------------------------------------
(***************************************************************************)
(* CourseRestores: x1 and x2 are the courses and their parts, x3 the jobs, *)
(* x4 the executions, x5 the jobs executed twice, x6 what each job wrote.  *)
(* A job executed once has one runner, whose tally is what the job wrote;  *)
(* the courses of the job are those still to do and those tallied.         *)
(***************************************************************************)
JobStatuses == {"none", "PENDING", "SCHEDULED", "IN_PROGRESS", "COMPLETED", "FAILED"}
JobType ==
  [status : JobStatuses, payload : Restored!Payloads \union {{}},
   overwrite : BOOLEAN, runs : Nat]
RunType ==
  [pc : {"idle", "begin", "next", "clear", "write"}, job : Jobs \union {Restored!NoRun.job},
   todo : SUBSET Courses, course : Courses \union {Restored!NoRun.course}, exists : BOOLEAN,
   cleared : SUBSET Parts, restored : SUBSET Courses, skipped : SUBSET Courses,
   failed : SUBSET Courses]

\* An execution t and the row of its job.
RunOf(t, row) ==
  /\ row.status # "none"
  /\ t.pc # "begin" =>
       t.todo \union t.restored \union t.skipped \union t.failed = DOMAIN row.payload
  /\ \A c \in t.skipped : c \notin Known \/ row.overwrite = FALSE
  /\ t.pc \in {"clear", "write"} => t.course \in t.todo
  /\ t.pc = "begin" => t.restored = {} /\ t.skipped = {} /\ t.failed = {}

\* A job executed once, the execution it is in, and the courses written.
RunAlone(t, row, w) ==
  /\ t.pc = "begin" => row.status \in {"PENDING", "SCHEDULED"}
  /\ t.pc # "begin" => row.status = "IN_PROGRESS" /\ w = t.restored
JobAlone(row, w) ==
  /\ row.status \in {"none", "PENDING", "SCHEDULED", "FAILED"} => w = {}
  /\ row.status = "COMPLETED" =>
       w # {} \/ \E c \in DOMAIN row.payload : c \notin Known \/ row.overwrite = FALSE

RestoreTypes ==
  /\ x1 \subseteq Courses /\ x2 \in [Courses -> SUBSET Parts]
  /\ x3 \in [Jobs -> JobType] /\ x4 \in [Requests -> RunType]
  /\ x5 \subseteq Jobs /\ x6 \in [Jobs -> SUBSET Courses]
RestoreRuns ==
  /\ \A j \in Jobs : x3[j].status # "none" => x3[j].payload \in Restored!Payloads
  /\ \A k \in Requests :
       x4[k].pc # "idle" => x4[k].job \in Jobs /\ RunOf(x4[k], x3[x4[k].job])
RestoreAlone ==
  /\ \A j \in Jobs \ x5 : JobAlone(x3[j], x6[j])
  /\ \A k \in Requests :
       x4[k].pc # "idle" /\ x4[k].job \notin x5 =>
         /\ RunAlone(x4[k], x3[x4[k].job], x6[x4[k].job])
         /\ \A o \in Requests : x4[o].pc # "idle" /\ x4[o].job = x4[k].job => o = k
RestoreInv == RestoreTypes /\ RestoreRuns /\ RestoreAlone

LEMMA PayloadMeans ==
  ASSUME NEW p \in Restored!Payloads
  PROVE  DOMAIN p \subseteq Courses /\ DOMAIN p # {} /\ \A c \in DOMAIN p : p[c] \subseteq Parts
<1>1. PICK C \in (SUBSET Courses) \ {{}} : p \in [C -> SUBSET Parts]
  BY DEF Restored!Payloads
<1> QED BY <1>1

LEMMA NoRunIs ==
  /\ Restored!NoRun \in RunType /\ Restored!NoRun.pc = "idle"
  /\ Restored!NoRun.restored = {} /\ Restored!NoRun.skipped = {} /\ Restored!NoRun.failed = {}
BY DEF Restored!NoRun, RunType

LEMMA NoJobIs ==
  /\ Restored!NoJob \in JobType /\ Restored!NoJob.status = "none"
BY DEF Restored!NoJob, JobType, JobStatuses

LEMMA RestoreInitially == Restored!Init => RestoreInv
<1> SUFFICES ASSUME Restored!Init PROVE RestoreInv
  OBVIOUS
<1>1. /\ x1 \in SUBSET Courses /\ x2 = [c \in Courses |-> {}]
      /\ x3 = [j \in Jobs |-> Restored!NoJob] /\ x4 = [k \in Requests |-> Restored!NoRun]
      /\ x5 = {} /\ x6 = [j \in Jobs |-> {}]
  BY DEF Restored!Init
<1>2. RestoreTypes
  BY <1>1, NoRunIs, NoJobIs DEF RestoreTypes
<1>3. \A k \in Requests : x4[k].pc = "idle"
  BY <1>1, NoRunIs
<1>4. \A j \in Jobs : x3[j].status = "none" /\ x6[j] = {}
  BY <1>1, NoJobIs
<1>5. RestoreRuns
  BY <1>3, <1>4 DEF RestoreRuns
<1>6. \A j \in Jobs \ x5 : JobAlone(x3[j], x6[j])
  BY <1>4 DEF JobAlone
<1>7. RestoreAlone
  BY <1>3, <1>6, Zenon DEF RestoreAlone
<1> QED BY <1>2, <1>5, <1>7 DEF RestoreInv

\* A step of one runner, in the job it has or takes.
LEMMA RestoreMoves ==
  ASSUME RestoreInv, NEW k \in Requests, NEW new \in RunType, NEW j \in Jobs,
         NEW row \in JobType, NEW w \in SUBSET Courses,
         x4' = [x4 EXCEPT ![k] = new], x3' = [x3 EXCEPT ![j] = row],
         x6' = [x6 EXCEPT ![j] = w], x1' \subseteq Courses, x2' \in [Courses -> SUBSET Parts],
         x5 \subseteq x5', x5' \subseteq Jobs,
         \/ row.payload = x3[j].payload /\ row.overwrite = x3[j].overwrite
         \/ x3[j].status = "none" /\ row.payload \in Restored!Payloads,
         row.status = "none" => x3[j].status = "none",
         x3[j].status = "none" => row.status = "none" \/ row.payload \in Restored!Payloads,
         x4[k].pc # "idle" => x4[k].job = j,
         new.pc # "idle" => new.job = j /\ RunOf(new, row),
         j \notin x5' => /\ JobAlone(row, w)
                         /\ new.pc # "idle" => RunAlone(new, row, w)
                         /\ \A o \in Requests \ {k} : x4[o].pc # "idle" => x4[o].job # j
  PROVE  RestoreInv'
<1>0. RestoreTypes /\ RestoreRuns /\ RestoreAlone
  BY DEF RestoreInv
<1>1. x4'[k] = new /\ (\A o \in Requests : o # k => x4'[o] = x4[o]) /\ x4' \in [Requests -> RunType]
  BY <1>0 DEF RestoreTypes
<1>2. x3'[j] = row /\ (\A i \in Jobs : i # j => x3'[i] = x3[i]) /\ x3' \in [Jobs -> JobType]
  BY <1>0 DEF RestoreTypes
<1>3. x6'[j] = w /\ (\A i \in Jobs : i # j => x6'[i] = x6[i]) /\ x6' \in [Jobs -> SUBSET Courses]
  BY <1>0 DEF RestoreTypes
<1>4. RestoreTypes'
  BY <1>1, <1>2, <1>3 DEF RestoreTypes
<1>5. RestoreRuns'
  <2>1. ASSUME NEW i \in Jobs, x3'[i].status # "none" PROVE x3'[i].payload \in Restored!Payloads
    <3>1. CASE i = j
      BY <1>0, <1>2, <2>1, <3>1 DEF RestoreRuns
    <3>2. CASE i # j
      BY <1>0, <1>2, <2>1, <3>2 DEF RestoreRuns
    <3> QED BY <3>1, <3>2
  <2>2. ASSUME NEW o \in Requests, x4'[o].pc # "idle"
        PROVE  x4'[o].job \in Jobs /\ RunOf(x4'[o], x3'[x4'[o].job])
    <3>1. CASE o = k
      BY <1>1, <1>2, <2>2, <3>1, Zenon
    <3>2. CASE o # k
      <4>1. x4'[o] = x4[o] /\ x4[o].job \in Jobs /\ RunOf(x4[o], x3[x4[o].job])
        BY <1>0, <1>1, <2>2, <3>2 DEF RestoreRuns
      <4>2. CASE x4[o].job # j
        BY <1>2, <4>1, <4>2
      <4>3. CASE x4[o].job = j
        <5>1. x3[j].status # "none"
          BY <4>1, <4>3 DEF RunOf
        <5>2. RunOf(x4[o], row)
          BY <4>1, <4>3, <5>1 DEF RunOf
        <5> QED BY <1>2, <4>1, <4>3, <5>2
      <4> QED BY <4>2, <4>3
    <3> QED BY <3>1, <3>2
  <2>3. (\A i \in Jobs : x3[i].status # "none" => x3[i].payload \in Restored!Payloads)'
    BY <2>1, Zenon DEF Restored!Payloads
  <2> QED BY <2>2, <2>3, Zenon DEF RestoreRuns
<1>6. RestoreAlone'
  <2>1. ASSUME NEW i \in Jobs \ x5' PROVE JobAlone(x3'[i], x6'[i])
    <3>1. CASE i = j
      BY <1>2, <1>3, <2>1, <3>1, Zenon
    <3>2. CASE i # j
      BY <1>0, <1>2, <1>3, <2>1, <3>2 DEF RestoreAlone
    <3> QED BY <3>1, <3>2
  <2>2. ASSUME NEW q \in Requests, x4'[q].pc # "idle", x4'[q].job \notin x5'
        PROVE  /\ RunAlone(x4'[q], x3'[x4'[q].job], x6'[x4'[q].job])
               /\ \A o \in Requests : x4'[o].pc # "idle" /\ x4'[o].job = x4'[q].job => o = q
    <3>1. CASE q = k
      <4>1. x4'[q] = new /\ new.job = j /\ j \notin x5' /\ new.pc # "idle"
        BY <1>1, <2>2, <3>1
      <4>2. RunAlone(x4'[q], x3'[x4'[q].job], x6'[x4'[q].job])
        BY <1>2, <1>3, <4>1
      <4>3. \A o \in Requests : x4'[o].pc # "idle" /\ x4'[o].job = x4'[q].job => o = q
        BY <1>1, <3>1, <4>1
      <4> QED BY <4>2, <4>3
    <3>2. CASE q # k
      <4>1. x4'[q] = x4[q] /\ x4[q].pc # "idle" /\ x4[q].job \notin x5 /\ x4[q].job \notin x5'
        BY <1>1, <2>2, <3>2
      <4>2. /\ RunAlone(x4[q], x3[x4[q].job], x6[x4[q].job]) /\ x4[q].job \in Jobs
            /\ \A o \in Requests : x4[o].pc # "idle" /\ x4[o].job = x4[q].job => o = q
        BY <1>0, <4>1, Zenon DEF RestoreAlone, RestoreRuns
      <4>3. x4[q].job # j
        BY <3>2, <4>1
      <4>4. RunAlone(x4'[q], x3'[x4'[q].job], x6'[x4'[q].job])
        BY <1>2, <1>3, <4>1, <4>2, <4>3
      <4>5. \A o \in Requests : x4'[o].pc # "idle" /\ x4'[o].job = x4'[q].job => o = q
        BY <1>1, <3>2, <4>1, <4>2, <4>3
      <4> QED BY <4>4, <4>5
    <3> QED BY <3>1, <3>2
  <2> QED BY <2>1, <2>2, Zenon DEF RestoreAlone
<1> QED BY <1>4, <1>5, <1>6 DEF RestoreInv

\* The rows a request may ask for.
LEMMA RequestedRow ==
  ASSUME NEW status \in {"PENDING", "SCHEDULED"}, NEW row \in Restored!Requested(status)
  PROVE  row \in JobType /\ row.status = status /\ row.payload \in Restored!Payloads
<1>1. (status = "SCHEDULED") \in BOOLEAN /\ 0 \in Nat /\ status \in JobStatuses
  BY DEF JobStatuses
<1> QED BY <1>1 DEF Restored!Requested, JobType

\* Who takes a job up.
LEMMA TakenRun ==
  ASSUME NEW j \in Jobs
  PROVE  LET t == [Restored!NoRun EXCEPT !.pc = "begin", !.job = j]
         IN  /\ t \in RunType /\ t.pc = "begin" /\ t.job = j
             /\ t.restored = {} /\ t.skipped = {} /\ t.failed = {}
<1> DEFINE n1 == [Restored!NoRun EXCEPT !.pc = "begin"]
           n2 == [n1 EXCEPT !.job = j]
<1>1. /\ n1 \in RunType /\ n1.pc = "begin" /\ n1.restored = {} /\ n1.skipped = {} /\ n1.failed = {}
  BY NoRunIs DEF RunType
<1> HIDE DEF n1
<1>2. /\ n2 \in RunType /\ n2.pc = "begin" /\ n2.job = j /\ n2.restored = {} /\ n2.skipped = {}
      /\ n2.failed = {}
  BY <1>1 DEF RunType
<1> QED BY <1>2, Zenon DEF n1

LEMMA RequestRestoreKeeps ==
  ASSUME RestoreInv, NEW k \in Requests, NEW j \in Jobs, Restored!RequestRestore(k, j)
  PROVE  RestoreInv'
<1>0. RestoreTypes /\ RestoreRuns /\ RestoreAlone
  BY DEF RestoreInv
<1>1. /\ x3[j] = Restored!NoJob /\ x4[k] = Restored!NoRun /\ x1' = x1 /\ x2' = x2 /\ x5' = x5
      /\ x6' = x6
      /\ x4' = [x4 EXCEPT ![k] = [Restored!NoRun EXCEPT !.pc = "begin", !.job = j]]
  BY DEF Restored!RequestRestore
<1>2. PICK row \in Restored!Requested("PENDING") : x3' = [x3 EXCEPT ![j] = row]
  BY DEF Restored!RequestRestore
<1>3. row \in JobType /\ row.status = "PENDING" /\ row.payload \in Restored!Payloads
  BY RequestedRow
<1>4. PICK new \in RunType :
        /\ x4' = [x4 EXCEPT ![k] = new] /\ new.pc = "begin" /\ new.job = j /\ new.restored = {}
        /\ new.skipped = {} /\ new.failed = {}
  BY <1>1, TakenRun
<1>5. x3[j].status = "none" /\ x4[k].pc = "idle"
  BY <1>1, NoJobIs, NoRunIs
<1>6. RunOf(new, row)
  BY <1>3, <1>4 DEF RunOf
<1>7. \A o \in Requests : x4[o].pc # "idle" => x4[o].job # j
  BY <1>0, <1>5 DEF RestoreRuns, RunOf
<1>8. x6[j] \in SUBSET Courses /\ x6' = [x6 EXCEPT ![j] = x6[j]]
  BY <1>0, <1>1 DEF RestoreTypes
<1>9. ASSUME j \notin x5' PROVE JobAlone(row, x6[j]) /\ RunAlone(new, row, x6[j])
  <2>1. JobAlone(x3[j], x6[j])
    BY <1>0, <1>1, <1>9 DEF RestoreAlone
  <2>2. x6[j] = {}
    BY <1>5, <2>1 DEF JobAlone
  <2> QED BY <1>3, <1>4, <2>2 DEF JobAlone, RunAlone
<1>10. x1' \subseteq Courses /\ x2' \in [Courses -> SUBSET Parts] /\ x5 \subseteq x5' /\ x5' \subseteq Jobs
  BY <1>0, <1>1 DEF RestoreTypes
<1>11. row.status # "none"
  BY <1>3
<1> QED BY <1>2, <1>3, <1>4, <1>5, <1>6, <1>7, <1>8, <1>9, <1>10, <1>11, RestoreMoves

LEMMA ReadJobKeeps ==
  ASSUME RestoreInv, NEW k \in Requests, NEW j \in Jobs, Restored!ReadJob(k, j)
  PROVE  RestoreInv'
<1>0. RestoreTypes /\ RestoreRuns /\ RestoreAlone
  BY DEF RestoreInv
<1>1. /\ x4[k] = Restored!NoRun /\ x1' = x1 /\ x2' = x2 /\ x3' = x3 /\ x6' = x6
      /\ x3[j].status \in {"PENDING", "SCHEDULED", "FAILED"}
      /\ x4' = [x4 EXCEPT ![k] = [Restored!NoRun EXCEPT !.pc = "begin", !.job = j]]
  BY DEF Restored!ReadJob, Restored!MayRun
<1>2. /\ x5 \subseteq x5' /\ x5' \subseteq Jobs
      /\ j \notin x5' => /\ x3[j].status # "FAILED"
                         /\ \A o \in Requests : x4[o] = Restored!NoRun \/ x4[o].job # j
  BY <1>0 DEF Restored!ReadJob, RestoreTypes
<1>3. PICK row \in JobType : row = x3[j]
  BY <1>0 DEF RestoreTypes
<1>4. PICK new \in RunType :
        /\ x4' = [x4 EXCEPT ![k] = new] /\ new.pc = "begin" /\ new.job = j /\ new.restored = {}
        /\ new.skipped = {} /\ new.failed = {}
  BY <1>1, TakenRun
<1>5. x4[k].pc = "idle"
  BY <1>1, NoRunIs
<1>6. RunOf(new, row) /\ row.status # "none"
  BY <1>1, <1>3, <1>4 DEF RunOf
<1>7. x6[j] \in SUBSET Courses /\ x6' = [x6 EXCEPT ![j] = x6[j]]
  BY <1>0, <1>1 DEF RestoreTypes
<1>8. x3' = [x3 EXCEPT ![j] = row]
  BY <1>0, <1>1, <1>3 DEF RestoreTypes
<1>9. ASSUME j \notin x5'
      PROVE  /\ JobAlone(row, x6[j]) /\ RunAlone(new, row, x6[j])
             /\ \A o \in Requests \ {k} : x4[o].pc # "idle" => x4[o].job # j
  <2>1. JobAlone(row, x6[j])
    BY <1>0, <1>2, <1>3, <1>9 DEF RestoreAlone
  <2>2. RunAlone(new, row, x6[j])
    BY <1>1, <1>2, <1>3, <1>4, <1>9 DEF RunAlone
  <2>3. \A o \in Requests : x4[o].pc # "idle" => x4[o].job # j
    BY <1>2, <1>9, NoRunIs
  <2> QED BY <2>1, <2>2, <2>3
<1>10. x1' \subseteq Courses /\ x2' \in [Courses -> SUBSET Parts]
  BY <1>0, <1>1 DEF RestoreTypes
<1>11. row.payload = x3[j].payload /\ row.overwrite = x3[j].overwrite /\ x3[j].status # "none"
  BY <1>1, <1>3
<1> QED BY <1>2, <1>4, <1>5, <1>6, <1>7, <1>8, <1>9, <1>10, <1>11, RestoreMoves

LEMMA BeginJobKeeps ==
  ASSUME RestoreInv, NEW k \in Requests, Restored!BeginJob(k) PROVE RestoreInv'
<1> DEFINE j == x4[k].job
<1>0. RestoreTypes /\ RestoreRuns /\ RestoreAlone
  BY DEF RestoreInv
<1>1. /\ x4[k].pc = "begin" /\ x1' = x1 /\ x2' = x2 /\ x5' = x5 /\ x6' = x6
      /\ x3' = [x3 EXCEPT ![j].status = "IN_PROGRESS", ![j].runs = @ + 1]
      /\ x4' = [x4 EXCEPT ![k].pc = "next", ![k].todo = DOMAIN x3[j].payload]
  BY DEF Restored!BeginJob
<1>2. j \in Jobs /\ RunOf(x4[k], x3[j]) /\ x4[k] \in RunType /\ x3[j] \in JobType
  BY <1>0, <1>1 DEF RestoreRuns, RestoreTypes
<1>3. x3[j].status # "none" /\ x3[j].payload \in Restored!Payloads
  BY <1>0, <1>2 DEF RestoreRuns, RunOf
<1>4. DOMAIN x3[j].payload \subseteq Courses /\ DOMAIN x3[j].payload # {}
  BY <1>3, PayloadMeans
<1> HIDE DEF j
<1>5. PICK new \in RunType :
        /\ x4' = [x4 EXCEPT ![k] = new] /\ new.pc = "next" /\ new.job = j
        /\ new.todo = DOMAIN x3[j].payload
        /\ new.restored = x4[k].restored /\ new.skipped = x4[k].skipped /\ new.failed = x4[k].failed
  <2> DEFINE n1 == [x4[k] EXCEPT !.pc = "next"]
             n2 == [n1 EXCEPT !.todo = DOMAIN x3[j].payload]
  <2>1. x4' = [x4 EXCEPT ![k] = n2]
    BY <1>0, <1>1 DEF RestoreTypes
  <2>2. /\ n1 \in RunType /\ n1.pc = "next" /\ n1.job = j
        /\ n1.restored = x4[k].restored /\ n1.skipped = x4[k].skipped /\ n1.failed = x4[k].failed
    BY <1>2 DEF RunType, j
  <2> HIDE DEF n1
  <2>3. /\ n2 \in RunType /\ n2.pc = "next" /\ n2.job = j /\ n2.todo = DOMAIN x3[j].payload
        /\ n2.restored = x4[k].restored /\ n2.skipped = x4[k].skipped /\ n2.failed = x4[k].failed
    BY <1>4, <2>2 DEF RunType
  <2> HIDE DEF n2
  <2> QED BY <2>1, <2>3
<1>6. PICK row \in JobType :
        /\ x3' = [x3 EXCEPT ![j] = row] /\ row.status = "IN_PROGRESS"
        /\ row.payload = x3[j].payload /\ row.overwrite = x3[j].overwrite
  <2> DEFINE n1 == [x3[j] EXCEPT !.status = "IN_PROGRESS"]
             n2 == [n1 EXCEPT !.runs = x3[j].runs + 1]
  <2>1. x3' = [x3 EXCEPT ![j] = n2]
    BY <1>0, <1>1, <1>2 DEF RestoreTypes
  <2>2. /\ n1 \in JobType /\ n1.status = "IN_PROGRESS"
        /\ n1.payload = x3[j].payload /\ n1.overwrite = x3[j].overwrite
    BY <1>2 DEF JobType, JobStatuses
  <2> HIDE DEF n1
  <2>3. x3[j].runs + 1 \in Nat
    BY <1>2 DEF JobType
  <2>4. /\ n2 \in JobType /\ n2.status = "IN_PROGRESS"
        /\ n2.payload = x3[j].payload /\ n2.overwrite = x3[j].overwrite
    BY <2>2, <2>3 DEF JobType
  <2> HIDE DEF n2
  <2> QED BY <2>1, <2>4
<1>7. x6[j] \in SUBSET Courses /\ x6' = [x6 EXCEPT ![j] = x6[j]]
  BY <1>0, <1>1, <1>2 DEF RestoreTypes
<1>8. RunOf(new, row)
  <2>1. x4[k].restored = {} /\ x4[k].skipped = {} /\ x4[k].failed = {}
    BY <1>1, <1>2 DEF RunOf
  <2>2. new.todo \union new.restored \union new.skipped \union new.failed = DOMAIN row.payload
    BY <1>5, <1>6, <2>1
  <2>3. \A c \in new.skipped : c \notin Known \/ row.overwrite = FALSE
    BY <1>5, <1>6, <2>1
  <2> QED BY <1>5, <1>6, <2>1, <2>2, <2>3 DEF RunOf
<1>10. ASSUME j \notin x5'
       PROVE  /\ JobAlone(row, x6[j]) /\ RunAlone(new, row, x6[j])
              /\ \A o \in Requests \ {k} : x4[o].pc # "idle" => x4[o].job # j
  <2>1. /\ RunAlone(x4[k], x3[j], x6[j])
        /\ \A o \in Requests : x4[o].pc # "idle" /\ x4[o].job = j => o = k
    BY <1>0, <1>1, <1>10, Zenon DEF RestoreAlone, j
  <2>2. JobAlone(x3[j], x6[j])
    BY <1>0, <1>1, <1>2, <1>10 DEF RestoreAlone
  <2>3. x6[j] = {} /\ x4[k].restored = {}
    BY <1>1, <1>2, <2>1, <2>2 DEF RunAlone, JobAlone, RunOf
  <2> QED BY <1>5, <1>6, <2>1, <2>3 DEF JobAlone, RunAlone
<1>11. x1' \subseteq Courses /\ x2' \in [Courses -> SUBSET Parts] /\ x5 \subseteq x5' /\ x5' \subseteq Jobs
  BY <1>0, <1>1 DEF RestoreTypes
<1>12. row.status # "none" /\ x4[k].job = j
  BY <1>6 DEF j
<1> QED BY <1>2, <1>3, <1>5, <1>6, <1>7, <1>8, <1>10, <1>11, <1>12, RestoreMoves

\* A step in an execution that leaves the row of the job alone.
LEMMA RestoreGoesOn ==
  ASSUME RestoreInv, NEW k \in Requests, NEW new \in RunType, NEW w \in SUBSET Courses,
         x4[k].pc \in {"next", "clear", "write"}, new.pc \in {"next", "clear", "write"},
         x4' = [x4 EXCEPT ![k] = new], new.job = x4[k].job, x3' = x3, x5' = x5,
         x6' = [x6 EXCEPT ![new.job] = w],
         x1' \subseteq Courses, x2' \in [Courses -> SUBSET Parts],
         RunOf(x4[k], x3[new.job]) => RunOf(new, x3[new.job]),
         x6[new.job] = x4[k].restored => w = new.restored
  PROVE  RestoreInv'
<1> DEFINE j == x4[k].job
<1>0. RestoreTypes /\ RestoreRuns /\ RestoreAlone
  BY DEF RestoreInv
<1>1. j \in Jobs /\ RunOf(x4[k], x3[j]) /\ x4[k] \in RunType /\ x3[j] \in JobType /\ x4[k].pc # "idle"
  BY <1>0 DEF RestoreRuns, RestoreTypes
<1> HIDE DEF j
<1>2. new.job = j /\ x4[k].job = j /\ RunOf(new, x3[j])
  BY <1>1 DEF j
<1>3. PICK row \in JobType : row = x3[j]
  BY <1>1
<1>4. x3' = [x3 EXCEPT ![j] = row]
  BY <1>0, <1>1, <1>3 DEF RestoreTypes
<1>5. ASSUME j \notin x5'
      PROVE  /\ JobAlone(row, w) /\ RunAlone(new, row, w)
             /\ \A o \in Requests \ {k} : x4[o].pc # "idle" => x4[o].job # j
  <2>1. /\ RunAlone(x4[k], x3[j], x6[j])
        /\ \A o \in Requests : x4[o].pc # "idle" /\ x4[o].job = j => o = k
    BY <1>0, <1>1, <1>2, <1>5, Zenon DEF RestoreAlone
  <2>2. row.status = "IN_PROGRESS" /\ x6[j] = x4[k].restored
    BY <1>3, <2>1 DEF RunAlone
  <2> QED BY <1>2, <2>1, <2>2 DEF JobAlone, RunAlone
<1>6. row.payload = x3[j].payload /\ row.overwrite = x3[j].overwrite /\ row.status # "none"
      /\ x3[j].status # "none"
  BY <1>1, <1>3 DEF RunOf
<1>7. x5 \subseteq x5' /\ x5' \subseteq Jobs /\ x6' = [x6 EXCEPT ![j] = w] /\ RunOf(new, row)
  BY <1>0, <1>2, <1>3 DEF RestoreTypes
<1> QED BY <1>1, <1>2, <1>4, <1>5, <1>6, <1>7, RestoreMoves

LEMMA LookUpKeeps ==
  ASSUME RestoreInv, NEW k \in Requests, NEW c \in Courses, Restored!LookUpCourse(k, c)
  PROVE  RestoreInv'
<1> DEFINE j == x4[k].job
           skip == c \notin Known \/ (c \in x1 /\ ~x3[j].overwrite)
<1>0. RestoreTypes /\ RestoreRuns
  BY DEF RestoreInv
<1>1. /\ x4[k].pc = "next" /\ c \in x4[k].todo
      /\ x1' = x1 /\ x2' = x2 /\ x3' = x3 /\ x5' = x5 /\ x6' = x6
      /\ x4' = [x4 EXCEPT ![k] =
            IF skip THEN [x4[k] EXCEPT !.todo = @ \ {c}, !.skipped = @ \union {c}]
            ELSE [x4[k] EXCEPT !.pc = "clear", !.course = c, !.exists = c \in x1]]
  BY Zenon DEF Restored!LookUpCourse
<1>2. j \in Jobs /\ x4[k] \in RunType /\ x3[j] \in JobType
  BY <1>0, <1>1 DEF RestoreRuns, RestoreTypes
<1>3. skip => c \notin Known \/ x3[j].overwrite = FALSE
  <2>1. x3[j].overwrite \in BOOLEAN
    BY <1>2 DEF JobType
  <2> QED BY <2>1, Zenon
<1> HIDE DEF skip, j
<1>4. PICK new \in RunType :
        /\ x4' = [x4 EXCEPT ![k] = new] /\ new.job = j /\ new.pc \in {"next", "clear"}
        /\ new.restored = x4[k].restored /\ new.failed = x4[k].failed
        /\ \/ /\ skip /\ new.pc = "next" /\ new.todo = x4[k].todo \ {c}
              /\ new.skipped = x4[k].skipped \union {c}
           \/ /\ new.pc = "clear" /\ new.course = c /\ new.todo = x4[k].todo
              /\ new.skipped = x4[k].skipped
  <2>1. CASE skip
    <3> DEFINE n1 == [x4[k] EXCEPT !.todo = x4[k].todo \ {c}]
               n2 == [n1 EXCEPT !.skipped = x4[k].skipped \union {c}]
    <3>1. x4' = [x4 EXCEPT ![k] = [x4[k] EXCEPT !.todo = @ \ {c}, !.skipped = @ \union {c}]]
      BY <1>1, <2>1
    <3>2. [x4[k] EXCEPT !.todo = @ \ {c}, !.skipped = @ \union {c}] = n2
      BY <1>2 DEF RunType
    <3>3. /\ n1 \in RunType /\ n1.job = j /\ n1.pc = "next" /\ n1.todo = x4[k].todo \ {c}
          /\ n1.restored = x4[k].restored /\ n1.failed = x4[k].failed
      BY <1>1, <1>2 DEF RunType, j
    <3>4. x4[k].skipped \union {c} \in SUBSET Courses
      BY <1>2 DEF RunType
    <3> HIDE DEF n1
    <3>5. /\ n2 \in RunType /\ n2.job = j /\ n2.pc = "next" /\ n2.todo = x4[k].todo \ {c}
          /\ n2.restored = x4[k].restored /\ n2.failed = x4[k].failed
          /\ n2.skipped = x4[k].skipped \union {c}
      BY <3>3, <3>4 DEF RunType
    <3> HIDE DEF n2
    <3> QED BY <2>1, <3>1, <3>2, <3>5
  <2>2. CASE ~skip
    <3> DEFINE n1 == [x4[k] EXCEPT !.pc = "clear"]
               n2 == [n1 EXCEPT !.course = c]
               n3 == [n2 EXCEPT !.exists = c \in x1]
    <3>1. x4' = [x4 EXCEPT ![k] = [x4[k] EXCEPT !.pc = "clear", !.course = c, !.exists = c \in x1]]
      BY <1>1, <2>2
    <3>2. [x4[k] EXCEPT !.pc = "clear", !.course = c, !.exists = c \in x1] = n3
      BY Zenon
    <3>3. /\ n1 \in RunType /\ n1.job = j /\ n1.pc = "clear" /\ n1.todo = x4[k].todo
          /\ n1.restored = x4[k].restored /\ n1.failed = x4[k].failed /\ n1.skipped = x4[k].skipped
      BY <1>1, <1>2 DEF RunType, j
    <3> HIDE DEF n1
    <3>4. /\ n2 \in RunType /\ n2.job = j /\ n2.pc = "clear" /\ n2.todo = x4[k].todo
          /\ n2.restored = x4[k].restored /\ n2.failed = x4[k].failed /\ n2.skipped = x4[k].skipped
          /\ n2.course = c
      BY <3>3 DEF RunType
    <3> HIDE DEF n2
    <3>5. (c \in x1) \in BOOLEAN
      OBVIOUS
    <3>6. /\ n3 \in RunType /\ n3.job = j /\ n3.pc = "clear" /\ n3.todo = x4[k].todo
          /\ n3.restored = x4[k].restored /\ n3.failed = x4[k].failed /\ n3.skipped = x4[k].skipped
          /\ n3.course = c
      BY <3>4, <3>5 DEF RunType
    <3> HIDE DEF n3
    <3> QED BY <3>1, <3>2, <3>6
  <2> QED BY <2>1, <2>2
<1>5. RunOf(x4[k], x3[j]) => RunOf(new, x3[j])
  <2> SUFFICES ASSUME RunOf(x4[k], x3[j]) PROVE RunOf(new, x3[j])
    OBVIOUS
  <2>1. new.todo \union new.restored \union new.skipped \union new.failed = DOMAIN x3[j].payload
    <3>1. x4[k].todo \union x4[k].restored \union x4[k].skipped \union x4[k].failed
            = DOMAIN x3[j].payload
      BY <1>1 DEF RunOf
    <3>2. new.todo \union new.skipped = x4[k].todo \union x4[k].skipped
      BY <1>1, <1>4
    <3> QED BY <1>4, <3>1, <3>2
  <2>2. \A q \in new.skipped : q \notin Known \/ x3[j].overwrite = FALSE
    BY <1>3, <1>4 DEF RunOf
  <2>3. new.pc \in {"clear", "write"} => new.course \in new.todo
    BY <1>1, <1>4
  <2> QED BY <1>4, <2>1, <2>2, <2>3 DEF RunOf
<1>6. PICK w \in SUBSET Courses : w = x6[j] /\ x6' = [x6 EXCEPT ![j] = w]
  BY <1>0, <1>1, <1>2 DEF RestoreTypes
<1>7. x1' \subseteq Courses /\ x2' \in [Courses -> SUBSET Parts] /\ x4[k].job = j
  BY <1>0, <1>1 DEF RestoreTypes, j
<1>8. x6[new.job] = x4[k].restored => w = new.restored
  BY <1>4, <1>6
<1>9. new.pc \in {"next", "clear", "write"} /\ x4[k].pc \in {"next", "clear", "write"}
  BY <1>1, <1>4
<1>10. /\ new.job = x4[k].job /\ x6' = [x6 EXCEPT ![new.job] = w]
       /\ RunOf(x4[k], x3[new.job]) => RunOf(new, x3[new.job])
  BY <1>4, <1>5, <1>6, <1>7
<1>11. x3' = x3 /\ x5' = x5 /\ x4' = [x4 EXCEPT ![k] = new]
  BY <1>1, <1>4
<1> QED BY <1>7, <1>8, <1>9, <1>10, <1>11, RestoreGoesOn

LEMMA ClearCourseKeeps ==
  ASSUME RestoreInv, NEW k \in Requests, Restored!ClearCourse(k) PROVE RestoreInv'
<1> DEFINE gone == IF x4[k].exists THEN x2[x4[k].course] ELSE {}
<1>0. RestoreTypes /\ RestoreRuns
  BY DEF RestoreInv
<1>1. /\ x4[k].pc = "clear"
      /\ x1' = x1 /\ x2' = x2 /\ x3' = x3 /\ x5' = x5 /\ x6' = x6
      /\ x4' = [x4 EXCEPT ![k].pc = "write", ![k].cleared = gone]
  BY DEF Restored!ClearCourse
<1>2. x4[k].job \in Jobs /\ x4[k] \in RunType /\ RunOf(x4[k], x3[x4[k].job])
  BY <1>0, <1>1 DEF RestoreRuns, RestoreTypes
<1>3. gone \in SUBSET Parts
  <2>1. x4[k].course \in Courses
    BY <1>1, <1>2 DEF RunOf, RunType
  <2> QED BY <1>0, <2>1 DEF RestoreTypes
<1> HIDE DEF gone
<1>4. PICK new \in RunType :
        /\ x4' = [x4 EXCEPT ![k] = new] /\ new.job = x4[k].job /\ new.pc = "write"
        /\ new.todo = x4[k].todo /\ new.restored = x4[k].restored /\ new.skipped = x4[k].skipped
        /\ new.failed = x4[k].failed /\ new.course = x4[k].course
  <2> DEFINE n1 == [x4[k] EXCEPT !.pc = "write"]
             n2 == [n1 EXCEPT !.cleared = gone]
  <2>1. x4' = [x4 EXCEPT ![k] = n2]
    BY <1>0, <1>1 DEF RestoreTypes
  <2>2. /\ n1 \in RunType /\ n1.job = x4[k].job /\ n1.pc = "write"
        /\ n1.todo = x4[k].todo /\ n1.restored = x4[k].restored /\ n1.skipped = x4[k].skipped
        /\ n1.failed = x4[k].failed /\ n1.course = x4[k].course
    BY <1>2 DEF RunType
  <2> HIDE DEF n1
  <2>3. /\ n2 \in RunType /\ n2.job = x4[k].job /\ n2.pc = "write"
        /\ n2.todo = x4[k].todo /\ n2.restored = x4[k].restored /\ n2.skipped = x4[k].skipped
        /\ n2.failed = x4[k].failed /\ n2.course = x4[k].course
    BY <1>3, <2>2 DEF RunType
  <2> HIDE DEF n2
  <2> QED BY <2>1, <2>3
<1>5. RunOf(x4[k], x3[new.job]) => RunOf(new, x3[new.job])
  BY <1>1, <1>4 DEF RunOf
<1>6. PICK w \in SUBSET Courses : w = x6[new.job] /\ x6' = [x6 EXCEPT ![new.job] = w]
  BY <1>0, <1>1, <1>2, <1>4 DEF RestoreTypes
<1>7. x1' \subseteq Courses /\ x2' \in [Courses -> SUBSET Parts]
  BY <1>0, <1>1 DEF RestoreTypes
<1>8. x6[new.job] = x4[k].restored => w = new.restored
  BY <1>4, <1>6
<1>9. new.pc \in {"next", "clear", "write"} /\ x4[k].pc \in {"next", "clear", "write"}
  BY <1>1, <1>4
<1> QED BY <1>1, <1>4, <1>5, <1>6, <1>7, <1>8, <1>9, RestoreGoesOn

\* The course at hand is tallied.
LEMMA NextCourseIs ==
  ASSUME RestoreInv, NEW k \in Requests, NEW written \in BOOLEAN, NEW failed \in BOOLEAN,
         Restored!NextCourse(k, written, failed), x4[k].pc \in {"clear", "write"}
  PROVE  \E new \in RunType :
           /\ x4' = [x4 EXCEPT ![k] = new] /\ new.job = x4[k].job /\ new.pc = "next"
           /\ new.todo = x4[k].todo \ {x4[k].course} /\ new.skipped = x4[k].skipped
           /\ x4[k].course \in x4[k].todo
           /\ new.restored = Restored!Counted(x4[k].restored, written, x4[k].course)
           /\ new.failed = Restored!Counted(x4[k].failed, failed, x4[k].course)
<1> DEFINE c == x4[k].course
           n1 == Restored!Tallied(x4[k], written, failed)
           n2 == [n1 EXCEPT !.pc = "next"]
           n3 == [n2 EXCEPT !.todo = x4[k].todo \ {c}]
           n4 == [n3 EXCEPT !.cleared = {}]
<1>0. RestoreTypes /\ RestoreRuns
  BY DEF RestoreInv
<1>1. x4[k] \in RunType /\ c \in x4[k].todo /\ c \in Courses
  BY <1>0 DEF RestoreRuns, RestoreTypes, RunOf, RunType
<1>2. /\ n1 \in RunType /\ n1.job = x4[k].job /\ n1.todo = x4[k].todo /\ n1.skipped = x4[k].skipped
      /\ n1.restored = Restored!Counted(x4[k].restored, written, c)
      /\ n1.failed = Restored!Counted(x4[k].failed, failed, c)
  <2> DEFINE u == Restored!Counted(x4[k].restored, written, c)
             v == Restored!Counted(x4[k].failed, failed, c)
             m == [x4[k] EXCEPT !.restored = u]
  <2>1. u \in SUBSET Courses /\ v \in SUBSET Courses
    BY <1>1 DEF RunType, Restored!Counted
  <2>2. n1 = [m EXCEPT !.failed = v]
    BY <1>1 DEF Restored!Tallied, RunType
  <2> HIDE DEF u, v
  <2>3. /\ m \in RunType /\ m.job = x4[k].job /\ m.todo = x4[k].todo
        /\ m.skipped = x4[k].skipped /\ m.restored = u
    BY <1>1, <2>1 DEF RunType
  <2> HIDE DEF m, n1
  <2>4. /\ n1 \in RunType /\ n1.job = x4[k].job /\ n1.todo = x4[k].todo
        /\ n1.skipped = x4[k].skipped /\ n1.restored = u /\ n1.failed = v
    BY <2>1, <2>2, <2>3 DEF RunType
  <2> QED BY <2>4 DEF u, v
<1>3. x4' = [x4 EXCEPT ![k] = [n1 EXCEPT !.pc = "next", !.todo = @ \ {c}, !.cleared = {}]]
  BY DEF Restored!NextCourse
<1> HIDE DEF n1
<1>4. [n1 EXCEPT !.pc = "next", !.todo = @ \ {c}, !.cleared = {}] = n4
  BY <1>2 DEF RunType
<1>5. /\ n2 \in RunType /\ n2.job = n1.job /\ n2.pc = "next" /\ n2.todo = n1.todo
      /\ n2.skipped = n1.skipped /\ n2.restored = n1.restored /\ n2.failed = n1.failed
  BY <1>2 DEF RunType
<1> HIDE DEF n2, c
<1>6. x4[k].todo \ {c} \in SUBSET Courses
  BY <1>1 DEF RunType
<1>7. /\ n3 \in RunType /\ n3.job = n1.job /\ n3.pc = "next" /\ n3.todo = x4[k].todo \ {c}
      /\ n3.skipped = n1.skipped /\ n3.restored = n1.restored /\ n3.failed = n1.failed
  BY <1>5, <1>6 DEF RunType
<1> HIDE DEF n3
<1>8. /\ n4 \in RunType /\ n4.job = n1.job /\ n4.pc = "next" /\ n4.todo = x4[k].todo \ {c}
      /\ n4.skipped = n1.skipped /\ n4.restored = n1.restored /\ n4.failed = n1.failed
  BY <1>7 DEF RunType
<1> HIDE DEF n4
<1>9. x4' = [x4 EXCEPT ![k] = n4]
  BY <1>3, <1>4
<1> QED BY <1>1, <1>2, <1>8, <1>9 DEF c

LEMMA TalliedRunOf ==
  ASSUME NEW t \in RunType, NEW new \in RunType, NEW row, RunOf(t, row),
         NEW written \in BOOLEAN, NEW failed \in BOOLEAN, written = TRUE \/ failed = TRUE,
         t.pc \in {"clear", "write"}, new.pc = "next", new.todo = t.todo \ {t.course},
         new.skipped = t.skipped,
         new.restored = Restored!Counted(t.restored, written, t.course),
         new.failed = Restored!Counted(t.failed, failed, t.course)
  PROVE  RunOf(new, row)
<1>1. new.todo \union new.restored \union new.skipped \union new.failed = DOMAIN row.payload
  <2>1. t.todo \union t.restored \union t.skipped \union t.failed = DOMAIN row.payload
    BY DEF RunOf
  <2>2. t.course \in t.todo
    BY DEF RunOf
  <2>3. new.restored \union new.failed = t.restored \union t.failed \union {t.course}
    BY DEF Restored!Counted
  <2>4. new.todo \union new.restored \union new.failed = t.todo \union t.restored \union t.failed
    BY <2>2, <2>3
  <2> QED BY <2>1, <2>4
<1> QED BY <1>1 DEF RunOf

LEMMA WriteCourseKeeps ==
  ASSUME RestoreInv, NEW k \in Requests, Restored!WriteCourse(k) PROVE RestoreInv'
<1> DEFINE c == x4[k].course
           j == x4[k].job
<1>0. RestoreTypes /\ RestoreRuns
  BY DEF RestoreInv
<1>1. /\ x4[k].pc = "write" /\ x3' = x3 /\ x5' = x5
      /\ x1' = x1 \union {c} /\ x6' = [x6 EXCEPT ![j] = @ \union {c}]
      /\ x2' = [x2 EXCEPT ![c] = (@ \ x4[k].cleared) \union x3[j].payload[c]]
  BY DEF Restored!WriteCourse
<1>12. PICK failed \in BOOLEAN : Restored!NextCourse(k, TRUE, failed)
  BY DEF Restored!WriteCourse
<1>2. j \in Jobs /\ x4[k] \in RunType /\ RunOf(x4[k], x3[j])
  BY <1>0, <1>1 DEF RestoreRuns, RestoreTypes
<1>3. PICK new \in RunType :
        /\ x4' = [x4 EXCEPT ![k] = new] /\ new.job = j /\ new.pc = "next"
        /\ new.todo = x4[k].todo \ {c} /\ new.skipped = x4[k].skipped /\ c \in x4[k].todo
        /\ new.restored = x4[k].restored \union {c}
        /\ new.failed = Restored!Counted(x4[k].failed, failed, c)
  BY <1>1, <1>12, NextCourseIs DEF Restored!Counted
<1>4. c \in Courses /\ c \in DOMAIN x3[j].payload /\ x3[j].payload \in Restored!Payloads
  <2>1. c \in DOMAIN x3[j].payload
    BY <1>1, <1>2, <1>3 DEF RunOf
  <2>2. x3[j].payload \in Restored!Payloads
    BY <1>0, <1>2 DEF RestoreRuns, RunOf
  <2> QED BY <2>1, <2>2, PayloadMeans
<1>5. x3[j].payload[c] \subseteq Parts
  BY <1>4, PayloadMeans
<1> HIDE DEF c, j
<1>6. PICK w \in SUBSET Courses : w = x6[j] \union {c} /\ x6' = [x6 EXCEPT ![j] = w]
  BY <1>0, <1>1, <1>2, <1>4 DEF RestoreTypes
<1>7. x1' \subseteq Courses /\ x2' \in [Courses -> SUBSET Parts]
  BY <1>0, <1>1, <1>4, <1>5 DEF RestoreTypes
<1>8. RunOf(new, x3[j])
  <2>1. /\ new.restored = Restored!Counted(x4[k].restored, TRUE, x4[k].course)
        /\ new.failed = Restored!Counted(x4[k].failed, failed, x4[k].course)
    BY <1>3 DEF c, Restored!Counted
  <2>2. new.todo = x4[k].todo \ {x4[k].course} /\ x4[k].pc \in {"clear", "write"}
    BY <1>1, <1>3 DEF c
  <2> QED BY <1>2, <1>3, <2>1, <2>2, TalliedRunOf
<1>9. x6[new.job] = x4[k].restored => w = new.restored
  BY <1>3, <1>6
<1>10. new.pc \in {"next", "clear", "write"} /\ x4[k].pc \in {"next", "clear", "write"}
  BY <1>1, <1>3
<1>11. new.job = x4[k].job /\ x6' = [x6 EXCEPT ![new.job] = w] /\ RunOf(new, x3[new.job])
  BY <1>3, <1>6, <1>8 DEF j
<1> QED BY <1>1, <1>3, <1>7, <1>9, <1>10, <1>11, RestoreGoesOn

LEMMA WriteFailsKeeps ==
  ASSUME RestoreInv, NEW k \in Requests, Restored!WriteFails(k) PROVE RestoreInv'
<1> DEFINE j == x4[k].job
<1>0. RestoreTypes /\ RestoreRuns
  BY DEF RestoreInv
<1>1. /\ x4[k].pc \in {"clear", "write"} /\ x1' = x1 /\ x2' = x2 /\ x3' = x3 /\ x5' = x5
      /\ x6' = x6 /\ Restored!NextCourse(k, FALSE, TRUE)
  BY DEF Restored!WriteFails
<1>2. j \in Jobs /\ x4[k] \in RunType /\ RunOf(x4[k], x3[j])
  BY <1>0, <1>1 DEF RestoreRuns, RestoreTypes
<1>3. PICK new \in RunType :
        /\ x4' = [x4 EXCEPT ![k] = new] /\ new.job = j /\ new.pc = "next"
        /\ new.todo = x4[k].todo \ {x4[k].course} /\ new.skipped = x4[k].skipped
        /\ new.restored = x4[k].restored /\ new.failed = x4[k].failed \union {x4[k].course}
  BY <1>1, NextCourseIs DEF Restored!Counted
<1>4. RunOf(new, x3[j])
  <2>1. /\ new.restored = Restored!Counted(x4[k].restored, FALSE, x4[k].course)
        /\ new.failed = Restored!Counted(x4[k].failed, TRUE, x4[k].course)
    BY <1>3 DEF Restored!Counted
  <2> QED BY <1>1, <1>2, <1>3, <2>1, TalliedRunOf
<1>5. PICK w \in SUBSET Courses : w = x6[j] /\ x6' = [x6 EXCEPT ![j] = w]
  BY <1>0, <1>1, <1>2 DEF RestoreTypes
<1>6. x1' \subseteq Courses /\ x2' \in [Courses -> SUBSET Parts]
  BY <1>0, <1>1 DEF RestoreTypes
<1>7. x6[new.job] = x4[k].restored => w = new.restored
  BY <1>3, <1>5
<1>8. new.pc \in {"next", "clear", "write"} /\ x4[k].pc \in {"next", "clear", "write"}
  BY <1>1, <1>3
<1>9. new.job = x4[k].job /\ x6' = [x6 EXCEPT ![new.job] = w] /\ RunOf(new, x3[new.job])
  BY <1>3, <1>4, <1>5
<1> QED BY <1>1, <1>3, <1>6, <1>7, <1>8, <1>9, RestoreGoesOn

LEMMA FinishJobKeeps ==
  ASSUME RestoreInv, NEW k \in Requests, Restored!FinishJob(k) PROVE RestoreInv'
<1> DEFINE j == x4[k].job
<1>0. RestoreTypes /\ RestoreRuns /\ RestoreAlone
  BY DEF RestoreInv
<1>1. /\ x4[k].pc = "next" /\ x4[k].todo = {} /\ x1' = x1 /\ x2' = x2 /\ x5' = x5 /\ x6' = x6
      /\ x3' = [x3 EXCEPT ![j].status = Restored!Outcome(x4[k])]
      /\ x4' = [x4 EXCEPT ![k] = Restored!NoRun]
  BY DEF Restored!FinishJob
<1>2. j \in Jobs /\ x4[k] \in RunType /\ RunOf(x4[k], x3[j]) /\ x3[j] \in JobType
  BY <1>0, <1>1 DEF RestoreRuns, RestoreTypes
<1> HIDE DEF j
<1>3. Restored!Outcome(x4[k]) \in {"FAILED", "COMPLETED"}
  BY DEF Restored!Outcome
<1>4. PICK row \in JobType :
        /\ x3' = [x3 EXCEPT ![j] = row] /\ row.status = Restored!Outcome(x4[k])
        /\ row.payload = x3[j].payload /\ row.overwrite = x3[j].overwrite
  <2> DEFINE n1 == [x3[j] EXCEPT !.status = Restored!Outcome(x4[k])]
  <2>1. x3' = [x3 EXCEPT ![j] = n1]
    BY <1>0, <1>1, <1>2 DEF RestoreTypes
  <2>2. /\ n1 \in JobType /\ n1.status = Restored!Outcome(x4[k])
        /\ n1.payload = x3[j].payload /\ n1.overwrite = x3[j].overwrite
    BY <1>2, <1>3 DEF JobType, JobStatuses
  <2> HIDE DEF n1
  <2> QED BY <2>1, <2>2
<1>5. x3[j].status # "none" /\ x3[j].payload \in Restored!Payloads
  BY <1>0, <1>2 DEF RestoreRuns, RunOf
<1>6. DOMAIN x3[j].payload # {}
  BY <1>5, PayloadMeans
<1>7. PICK w \in SUBSET Courses : w = x6[j] /\ x6' = [x6 EXCEPT ![j] = w]
  BY <1>0, <1>1, <1>2 DEF RestoreTypes
<1>8. PICK new \in RunType : x4' = [x4 EXCEPT ![k] = new] /\ new.pc = "idle"
  BY <1>1, NoRunIs
<1>9. ASSUME j \notin x5'
      PROVE  /\ JobAlone(row, w)
             /\ \A o \in Requests \ {k} : x4[o].pc # "idle" => x4[o].job # j
  <2>1. /\ RunAlone(x4[k], x3[j], x6[j])
        /\ \A o \in Requests : x4[o].pc # "idle" /\ x4[o].job = j => o = k
    BY <1>0, <1>1, <1>9, Zenon DEF RestoreAlone, j
  <2>2. x6[j] = x4[k].restored
    BY <1>1, <2>1 DEF RunAlone
  <2>3. x4[k].restored \union x4[k].skipped \union x4[k].failed = DOMAIN x3[j].payload
    BY <1>1, <1>2 DEF RunOf
  <2>4. row.status = "FAILED" => w = {}
    BY <1>4, <1>7, <2>2 DEF Restored!Outcome
  <2>5. row.status = "COMPLETED" =>
          w # {} \/ \E c \in DOMAIN row.payload : c \notin Known \/ row.overwrite = FALSE
    <3>1. CASE x4[k].restored # {}
      BY <1>7, <2>2, <3>1
    <3>2. CASE x4[k].skipped # {}
      <4>1. PICK c \in x4[k].skipped : c \in DOMAIN x3[j].payload
        BY <2>3, <3>2
      <4>2. c \notin Known \/ x3[j].overwrite = FALSE
        BY <1>2, <4>1 DEF RunOf
      <4> QED BY <1>4, <4>1, <4>2
    <3>3. CASE x4[k].restored = {} /\ x4[k].skipped = {}
      <4>1. x4[k].failed # {}
        BY <1>6, <2>3, <3>3
      <4> QED BY <1>4, <3>3, <4>1 DEF Restored!Outcome
    <3> QED BY <3>1, <3>2, <3>3
  <2>6. JobAlone(row, w)
    BY <1>3, <1>4, <2>4, <2>5 DEF JobAlone
  <2> QED BY <2>1, <2>6
<1>10. x1' \subseteq Courses /\ x2' \in [Courses -> SUBSET Parts] /\ x5 \subseteq x5' /\ x5' \subseteq Jobs
  BY <1>0, <1>1 DEF RestoreTypes
<1>11. row.status # "none" /\ x4[k].job = j
  BY <1>3, <1>4 DEF j
<1> QED BY <1>2, <1>4, <1>5, <1>7, <1>8, <1>9, <1>10, <1>11, RestoreMoves

LEMMA CrashRunKeeps ==
  ASSUME RestoreInv, NEW k \in Requests, Restored!CrashRun(k) PROVE RestoreInv'
<1> DEFINE j == x4[k].job
<1>0. RestoreTypes /\ RestoreRuns /\ RestoreAlone
  BY DEF RestoreInv
<1>1. /\ x1' = x1 /\ x2' = x2 /\ x3' = x3 /\ x5' = x5 /\ x6' = x6
      /\ x4' = [x4 EXCEPT ![k] = Restored!NoRun]
  BY DEF Restored!CrashRun
<1>2. x4'[k] = Restored!NoRun /\ (\A o \in Requests : o # k => x4'[o] = x4[o])
      /\ x4' \in [Requests -> RunType]
  BY <1>0, <1>1, NoRunIs DEF RestoreTypes
<1>3. RestoreTypes'
  BY <1>0, <1>1, <1>2 DEF RestoreTypes
<1>4. \A o \in Requests : x4'[o].pc # "idle" => o # k /\ x4'[o] = x4[o]
  BY <1>2, NoRunIs
<1>5. RestoreRuns'
  <2>1. \A o \in Requests : x4'[o].pc # "idle" => x4'[o].job \in Jobs /\ RunOf(x4'[o], x3'[x4'[o].job])
    BY <1>0, <1>1, <1>4 DEF RestoreRuns
  <2>2. (\A i \in Jobs : x3[i].status # "none" => x3[i].payload \in Restored!Payloads)'
    BY <1>0, <1>1, Zenon DEF RestoreRuns, Restored!Payloads
  <2> QED BY <2>1, <2>2, Zenon DEF RestoreRuns
<1>6. RestoreAlone'
  <2>1. \A i \in Jobs \ x5' : JobAlone(x3'[i], x6'[i])
    BY <1>0, <1>1 DEF RestoreAlone
  <2>2. ASSUME NEW q \in Requests, x4'[q].pc # "idle", x4'[q].job \notin x5'
        PROVE  /\ RunAlone(x4'[q], x3'[x4'[q].job], x6'[x4'[q].job])
               /\ \A o \in Requests : x4'[o].pc # "idle" /\ x4'[o].job = x4'[q].job => o = q
    <3>1. x4'[q] = x4[q]
      BY <1>4, <2>2
    <3>2. /\ RunAlone(x4[q], x3[x4[q].job], x6[x4[q].job])
          /\ \A o \in Requests : x4[o].pc # "idle" /\ x4[o].job = x4[q].job => o = q
      <4>1. x4[q].pc # "idle" /\ x4[q].job \notin x5
        BY <1>1, <2>2, <3>1
      <4> QED BY <1>0, <4>1, Zenon DEF RestoreAlone
    <3>3. \A o \in Requests : x4'[o].pc # "idle" /\ x4'[o].job = x4'[q].job => o = q
      BY <1>4, <3>1, <3>2
    <3> QED BY <1>1, <3>1, <3>2, <3>3
  <2> QED BY <2>1, <2>2, Zenon DEF RestoreAlone
<1> QED BY <1>3, <1>5, <1>6 DEF RestoreInv

LEMMA RestoreOthersKeep ==
  ASSUME RestoreInv,
         \/ \E c \in Courses : Restored!EditCourse(c)
         \/ \E j \in Jobs : Restored!ScheduleRestore(j)
  PROVE  RestoreInv'
<1>0. RestoreTypes /\ RestoreRuns /\ RestoreAlone
  BY DEF RestoreInv
<1>1. ASSUME NEW c \in Courses, Restored!EditCourse(c) PROVE RestoreInv'
  <2>1. x1' = x1 /\ x3' = x3 /\ x4' = x4 /\ x5' = x5 /\ x6' = x6
    BY <1>1 DEF Restored!EditCourse
  <2>2. x2' \in [Courses -> SUBSET Parts]
    <3>1. PICK p \in Parts : x2' = [x2 EXCEPT ![c] = IF p \in @ THEN @ \ {p} ELSE @ \union {p}]
      BY <1>1 DEF Restored!EditCourse
    <3> QED BY <1>0, <3>1 DEF RestoreTypes
  <2>3. RestoreTypes'
    BY <1>0, <2>1, <2>2 DEF RestoreTypes
  <2>4. RestoreRuns'
    BY <1>0, <2>1, Zenon DEF RestoreRuns, RunOf, Restored!Payloads
  <2>5. RestoreAlone'
    BY <1>0, <2>1, Zenon DEF RestoreAlone, RunAlone, JobAlone
  <2> QED BY <2>3, <2>4, <2>5 DEF RestoreInv
<1>2. ASSUME NEW j \in Jobs, Restored!ScheduleRestore(j) PROVE RestoreInv'
  <2>1. x1' = x1 /\ x2' = x2 /\ x4' = x4 /\ x5' = x5 /\ x6' = x6 /\ x3[j] = Restored!NoJob
    BY <1>2 DEF Restored!ScheduleRestore
  <2>2. PICK row \in Restored!Requested("SCHEDULED") : x3' = [x3 EXCEPT ![j] = row]
    BY <1>2 DEF Restored!ScheduleRestore
  <2>3. row \in JobType /\ row.status = "SCHEDULED" /\ row.payload \in Restored!Payloads
    BY RequestedRow
  <2>4. x3'[j] = row /\ (\A i \in Jobs : i # j => x3'[i] = x3[i]) /\ x3' \in [Jobs -> JobType]
    BY <1>0, <2>2, <2>3 DEF RestoreTypes
  <2>5. x3[j].status = "none"
    BY <2>1, NoJobIs
  <2>6. \A o \in Requests : x4[o].pc # "idle" => x4[o].job # j /\ x4[o].job \in Jobs
    BY <1>0, <2>5 DEF RestoreRuns, RunOf
  <2>7. RestoreTypes'
    BY <1>0, <2>1, <2>4 DEF RestoreTypes
  <2>8. RestoreRuns'
    <3>1. \A o \in Requests : x4'[o].pc # "idle" => x4'[o].job \in Jobs /\ RunOf(x4'[o], x3'[x4'[o].job])
      BY <1>0, <2>1, <2>4, <2>6 DEF RestoreRuns
    <3>2. \A i \in Jobs : x3'[i].status # "none" => x3'[i].payload \in Restored!Payloads
      BY <1>0, <2>3, <2>4 DEF RestoreRuns
    <3>3. (\A i \in Jobs : x3[i].status # "none" => x3[i].payload \in Restored!Payloads)'
      BY <3>2, Zenon DEF Restored!Payloads
    <3> QED BY <3>1, <3>3, Zenon DEF RestoreRuns
  <2>9. RestoreAlone'
    <3>1. ASSUME NEW i \in Jobs \ x5' PROVE JobAlone(x3'[i], x6'[i])
      <4>1. JobAlone(x3[i], x6[i])
        BY <1>0, <2>1, <3>1 DEF RestoreAlone
      <4>2. CASE i = j
        <5>1. x6[j] = {}
          BY <2>5, <4>1, <4>2 DEF JobAlone
        <5> QED BY <2>1, <2>3, <2>4, <4>2, <5>1 DEF JobAlone
      <4>3. CASE i # j
        BY <2>1, <2>4, <4>1, <4>3
      <4> QED BY <4>2, <4>3
    <3>2. ASSUME NEW q \in Requests, x4'[q].pc # "idle", x4'[q].job \notin x5'
          PROVE  /\ RunAlone(x4'[q], x3'[x4'[q].job], x6'[x4'[q].job])
                 /\ \A o \in Requests : x4'[o].pc # "idle" /\ x4'[o].job = x4'[q].job => o = q
      <4>1. /\ RunAlone(x4[q], x3[x4[q].job], x6[x4[q].job])
            /\ \A o \in Requests : x4[o].pc # "idle" /\ x4[o].job = x4[q].job => o = q
        BY <1>0, <2>1, <3>2, Zenon DEF RestoreAlone
      <4>2. x3'[x4[q].job] = x3[x4[q].job]
        BY <2>1, <2>4, <2>6, <3>2
      <4> QED BY <2>1, <4>1, <4>2
    <3> QED BY <3>1, <3>2, Zenon DEF RestoreAlone
  <2> QED BY <2>7, <2>8, <2>9 DEF RestoreInv
<1> QED BY <1>1, <1>2

LEMMA RestoreInductive == RestoreInv /\ [Restored!Next]_(Restored!vars) => RestoreInv'
<1> SUFFICES ASSUME RestoreInv, [Restored!Next]_(Restored!vars) PROVE RestoreInv'
  OBVIOUS
<1>1. CASE UNCHANGED Restored!vars
  <2>1. x1' = x1 /\ x2' = x2 /\ x3' = x3 /\ x4' = x4 /\ x5' = x5 /\ x6' = x6
    BY <1>1 DEF Restored!vars
  <2>2. RestoreTypes'
    BY <2>1 DEF RestoreInv, RestoreTypes
  <2>3. RestoreRuns'
    BY <2>1, Zenon DEF RestoreInv, RestoreRuns, RunOf, Restored!Payloads
  <2>4. RestoreAlone'
    BY <2>1, Zenon DEF RestoreInv, RestoreAlone, RunAlone, JobAlone
  <2> QED BY <2>2, <2>3, <2>4 DEF RestoreInv
<1>2. CASE \/ \E c \in Courses : Restored!EditCourse(c)
           \/ \E j \in Jobs : Restored!ScheduleRestore(j)
  BY <1>2, RestoreOthersKeep
<1>3. ASSUME NEW k \in Requests,
             \/ \E j \in Jobs : Restored!RequestRestore(k, j) \/ Restored!ReadJob(k, j)
             \/ \E c \in Courses : Restored!LookUpCourse(k, c)
             \/ Restored!BeginJob(k) \/ Restored!ClearCourse(k) \/ Restored!WriteCourse(k)
             \/ Restored!WriteFails(k) \/ Restored!FinishJob(k) \/ Restored!CrashRun(k)
      PROVE  RestoreInv'
  BY <1>3, RequestRestoreKeeps, ReadJobKeeps, LookUpKeeps, BeginJobKeeps, ClearCourseKeeps,
     WriteCourseKeeps, WriteFailsKeeps, FinishJobKeeps, CrashRunKeeps
<1> QED BY <1>1, <1>2, <1>3 DEF Restored!Next

LEMMA RestoreMeans == RestoreInv => Restored!TypeOK /\ Restored!OutcomeIsTrue
<1> SUFFICES ASSUME RestoreInv PROVE Restored!TypeOK /\ Restored!OutcomeIsTrue
  OBVIOUS
<1>0. RestoreTypes /\ RestoreAlone
  BY DEF RestoreInv
<1>1. Restored!TypeOK
  <2>1. \A j \in Jobs : x3[j].status \in JobStatuses
    BY <1>0 DEF RestoreTypes, JobType
  <2>2. \A k \in Requests :
          /\ x4[k].pc \in {"idle", "begin", "next", "clear", "write"}
          /\ x4[k].todo \subseteq Courses /\ x4[k].cleared \subseteq Parts
    BY <1>0 DEF RestoreTypes, RunType
  <2> QED BY <1>0, <2>1, <2>2 DEF Restored!TypeOK, RestoreTypes, JobStatuses
<1>2. ASSUME NEW j \in Jobs \ x5
      PROVE  /\ x3[j].status = "FAILED" => x6[j] = {}
             /\ x3[j].status = "COMPLETED" =>
                  \/ x6[j] # {}
                  \/ \E c \in DOMAIN x3[j].payload : c \notin Known \/ ~x3[j].overwrite
  <2>1. JobAlone(x3[j], x6[j])
    BY <1>0 DEF RestoreAlone
  <2>2. x3[j].overwrite = FALSE => ~x3[j].overwrite
    BY Zenon
  <2>3. x3[j].status = "FAILED" => x6[j] = {}
    BY <2>1 DEF JobAlone
  <2>4. x3[j].status = "COMPLETED" =>
          \/ x6[j] # {}
          \/ \E c \in DOMAIN x3[j].payload : c \notin Known \/ ~x3[j].overwrite
    BY <2>1, <2>2, Zenon DEF JobAlone
  <2> QED BY <2>3, <2>4
<1> QED BY <1>1, <1>2, Zenon DEF Restored!OutcomeIsTrue

------------------------------------------------------------------------------
\* A non-empty set of natural numbers has a least one.
LEMMA Least == ASSUME NEW S \in SUBSET Nat, S # {} PROVE \E x \in S : \A y \in S : x <= y
<1> DEFINE R == {ss \in Nat \X Nat : ss[1] < ss[2]}
<1>1. IsWellFoundedOn(R, Nat)
  BY NatLessThanWellFounded DEF OpToRel
<1>2. \A x, y \in Nat : <<x, y>> \in R <=> x < y
  OBVIOUS
<1> HIDE DEF R
<1>3. PICK x \in S : \A y \in S : ~(<<y, x>> \in R)
  BY <1>1, WFMin
<1>4. \A y \in S : y \in Nat /\ ~(y < x)
  BY <1>2, <1>3
<1>5. x \in Nat
  OBVIOUS
<1>6. \A y \in S : x <= y
  BY <1>4, <1>5
<1> QED BY <1>6

------------------------------------------------------------------------------
(***************************************************************************)
(* LearningPaths: x1 is the status of the path, x2 its list, x3 the active *)
(* courses, x4 the prerequisites, x5 the student's enrolments, x6 the      *)
(* requests, x7 to x10 the history.  If no requests overlapped, the one    *)
(* under way is to write, or to publish, a list that is long enough; no    *)
(* course is its own prerequisite; and a list that was checked is in order *)
(* until prerequisites are added.                                          *)
(***************************************************************************)
PathTask == [pc : {"idle", "create", "validate", "replace", "publish"}, given : Seq(Courses)]
PathTyped ==
  /\ x1 \in {"none", "DRAFT", "PUBLISHED"} /\ x2 \in Seq(Courses)
  /\ x3 \subseteq Courses /\ x4 \subseteq Courses \X Courses
  /\ x5 \in [Courses -> {"none", "ACTIVE", "COMPLETED", "REFUNDED"}]
  /\ x6 \in [Requests -> PathTask]
  /\ x7 \in BOOLEAN /\ x8 \in BOOLEAN /\ x9 \in BOOLEAN /\ x10 \subseteq Requests
PathOrdered ==
  /\ \A c \in Courses : <<c, c>> \notin x4
  /\ x9 = FALSE => Path!InOrder(x2)
PathChecked ==
  \A r \in Requests : \A l \in Seq(Courses) :
    /\ x6[r].pc \in {"create", "replace"} /\ r \notin x10
    /\ l = Path!Unique(x6[r].given)
    => Path!InOrder(l)
PathAlone ==
  /\ \A p, q \in Requests : p # q => x6[p].pc = "idle" \/ x6[q].pc = "idle"
  /\ \A r \in Requests :
       x6[r].pc \in {"validate", "replace"} /\ x1 = "PUBLISHED" => Len(x6[r].given) >= 2
  /\ \A r \in Requests : x6[r].pc = "publish" /\ x1 # "none" /\ x7 = FALSE => Len(x2) >= 2
  /\ x1 = "PUBLISHED" /\ x7 = FALSE => Len(x2) >= 2
PathInv == PathTyped /\ PathOrdered /\ PathChecked /\ (x8 = FALSE => PathAlone)

LEMMA PathIdle == Path!Idle \in PathTask /\ Path!Idle.pc = "idle"
<1>1. <<>> \in Seq(Courses)
  OBVIOUS
<1> QED BY <1>1 DEF Path!Idle, PathTask

LEMMA PathGiven == Lists \subseteq Seq(Courses)
BY PlatformAssumption DEF Path!ConstantsAssumption

LEMMA PathInitially == Path!Init => PathInv
<1> SUFFICES ASSUME Path!Init PROVE PathInv
  OBVIOUS
<1>1. /\ x1 = "none" /\ x2 = <<>> /\ x3 = Courses /\ x4 = {}
      /\ x5 = [c \in Courses |-> "none"] /\ x6 = [r \in Requests |-> Path!Idle]
      /\ x7 = FALSE /\ x8 = FALSE /\ x9 = FALSE /\ x10 = {}
  BY Zenon DEF Path!Init
<1>2. PathTyped
  <2>1. x7 \in BOOLEAN /\ x8 \in BOOLEAN /\ x9 \in BOOLEAN
    BY <1>1, Zenon
  <2>2. x2 \in Seq(Courses) /\ x4 \subseteq Courses \X Courses
    BY <1>1
  <2>3. /\ x5 \in [Courses -> {"none", "ACTIVE", "COMPLETED", "REFUNDED"}]
        /\ x6 \in [Requests -> PathTask]
    BY <1>1, PathIdle
  <2> QED BY <1>1, <2>1, <2>2, <2>3 DEF PathTyped
<1>3. PathOrdered
  BY <1>1 DEF PathOrdered, Path!InOrder
<1>4. PathAlone
  BY <1>1, PathIdle DEF PathAlone
<1>5. PathChecked
  BY <1>1, PathIdle DEF PathChecked
<1> QED BY <1>2, <1>3, <1>4, <1>5 DEF PathInv

------------------------------------------------------------------------------
\* Below i there are as many elements of S as a walk up to i has met: the n-th element
\* of a finite set of positions is where the count passes n.
LEMMA NthExists ==
  ASSUME NEW top \in Nat, NEW S \in SUBSET (1 .. top), NEW n \in 1 .. Cardinality(S)
  PROVE  \E i \in S : Cardinality({j \in S : j < i}) = n - 1
<1> DEFINE Below(i) == {j \in S : j < i}
           f == [i \in Nat |-> Cardinality(Below(i))]
           D == {i \in Nat : f[i] >= n}
<1>1. IsFiniteSet(S) /\ Cardinality(S) \in Nat /\ n \in Nat /\ n >= 1
  <2>1. IsFiniteSet(1 .. top)
    BY FS_Interval
  <2>2. IsFiniteSet(S)
    BY <2>1, FS_Subset
  <2>3. Cardinality(S) \in Nat
    BY <2>2, FS_CardinalityType
  <2> QED BY <2>2, <2>3
<1>2. \A i \in Nat : IsFiniteSet(Below(i)) /\ Cardinality(Below(i)) \in Nat
  <2> TAKE i \in Nat
  <2>1. Below(i) \subseteq S
    OBVIOUS
  <2> HIDE DEF Below
  <2> QED BY <1>1, <2>1, FS_Subset, FS_CardinalityType
<1> DEFINE Here(i) == {j \in S : j = i}
<1>0. \A j \in S : j \in Nat /\ ~(j < 0) /\ j < top + 1
  OBVIOUS
<1>3. Below(0) = {} /\ Below(top + 1) = S
  <2>1. Below(0) = {}
    BY <1>0
  <2>2. \A j \in S : j \in Below(top + 1)
    BY <1>0
  <2> QED BY <2>1, <2>2
<1>4. \A i \in Nat : Below(i + 1) = Below(i) \union Here(i)
  <2> TAKE i \in Nat
  <2>1. \A j \in S : j < i + 1 <=> j < i \/ j = i
    BY <1>0
  <2> QED BY <2>1
<1>5. \A i \in Nat : i \notin Below(i)
  OBVIOUS
<1> HIDE DEF Below
<1>6. \A i \in Nat : f[i] \in Nat /\ f[i] = Cardinality(Below(i))
  BY <1>2
<1>7. \A i \in Nat : f[i + 1] = IF i \in S THEN f[i] + 1 ELSE f[i]
  <2> TAKE i \in Nat
  <2>1. CASE i \in S
    <3>1. Below(i + 1) = Below(i) \union {i}
      <4>1. Here(i) = {i}
        BY <2>1
      <4> QED BY <1>4, <4>1
    <3>2. Cardinality(Below(i) \union {i}) = Cardinality(Below(i)) + 1
      BY <1>2, <1>5, FS_AddElement
    <3>3. i + 1 \in Nat
      OBVIOUS
    <3> QED BY <1>6, <2>1, <3>1, <3>2, <3>3
  <2>2. CASE i \notin S
    <3>1. Below(i + 1) = Below(i)
      <4>1. Here(i) = {}
        BY <2>2
      <4> QED BY <1>4, <4>1
    <3>2. i + 1 \in Nat
      OBVIOUS
    <3> QED BY <1>6, <2>2, <3>1, <3>2
  <2> QED BY <2>1, <2>2
<1>8. f[0] = 0 /\ f[top + 1] = Cardinality(S)
  <2>1. Cardinality({}) = 0
    BY FS_EmptySet
  <2> QED BY <1>3, <1>6, <2>1
<1> HIDE DEF f
<1>9. top + 1 \in D /\ D \in SUBSET Nat
  BY <1>1, <1>8
<1>10. PICK m \in D : \A k \in D : m <= k
  BY <1>9, Least
<1>11. m \in Nat /\ f[m] >= n /\ m # 0
  BY <1>1, <1>8, <1>10
<1>12. m - 1 \in Nat /\ (m - 1) + 1 = m
  BY <1>11
<1>13. ~(f[m - 1] >= n)
  BY <1>10, <1>12
<1>14. f[m] = IF m - 1 \in S THEN f[m - 1] + 1 ELSE f[m - 1]
  BY <1>7, <1>12
<1>15. m - 1 \in S /\ f[m - 1] = n - 1
  BY <1>1, <1>6, <1>11, <1>12, <1>13, <1>14
<1>16. Cardinality(Below(m - 1)) = n - 1
  BY <1>6, <1>12, <1>15
<1> QED BY <1>15, <1>16 DEF Below

\* A list without its doubles is a list of the same courses.
LEMMA UniqueIsList ==
  ASSUME NEW given \in Seq(Courses)
  PROVE  Path!Unique(given) \in Seq(Courses)
<1> DEFINE first == {i \in DOMAIN given : \A j \in DOMAIN given : j < i => given[j] # given[i]}
           Nth(n) == CHOOSE i \in first : Path!Cardinality({j \in first : j < i}) = n - 1
           N == Path!Cardinality(first)
<1>0. \A S : Path!Cardinality(S) = Cardinality(S)
  BY Zenon DEF Path!Cardinality, Cardinality
<1>1. first \subseteq 1 .. Len(given) /\ Len(given) \in Nat
  OBVIOUS
<1>2. N \in Nat
  <2>1. IsFiniteSet(1 .. Len(given))
    BY FS_Interval
  <2>2. IsFiniteSet(first)
    BY <1>1, <2>1, FS_Subset
  <2> HIDE DEF first
  <2> QED BY <1>0, <2>2, FS_CardinalityType
<1>3. \A n \in 1 .. N : Nth(n) \in first
  <2> TAKE n \in 1 .. N
  <2> HIDE DEF first
  <2>1. n \in 1 .. Cardinality(first)
    BY <1>0
  <2>2. PICK i \in first : Cardinality({j \in first : j < i}) = n - 1
    BY <1>1, <2>1, NthExists
  <2>3. Path!Cardinality({j \in first : j < i}) = n - 1
    BY <1>0, <2>2
  <2> QED BY <2>3
<1>4. \A i \in first : given[i] \in Courses
  OBVIOUS
<1>5. Path!Unique(given) = [n \in 1 .. N |-> given[Nth(n)]]
  BY Zenon DEF Path!Unique
<1> HIDE DEF first, Nth, N
<1> QED BY <1>2, <1>3, <1>4, <1>5

------------------------------------------------------------------------------
\* A step of one request that writes nothing of the path.
LEMMA PathMoves ==
  ASSUME PathInv, NEW r \in Requests, NEW new \in PathTask, x6' = [x6 EXCEPT ![r] = new],
         x1' = x1, x2' = x2, x3' = x3, x4' = x4, x5' = x5, x7' = x7, x9' = x9,
         x10' \in {x10, x10 \ {r}}, x8' \in BOOLEAN,
         x8' = FALSE => x8 = FALSE
                        /\ (new.pc = "idle" \/ x6[r].pc # "idle"
                            \/ \A o \in Requests \ {r} : x6[o].pc = "idle"),
         x8' = FALSE /\ new.pc \in {"validate", "replace"} /\ x1 = "PUBLISHED" =>
           Len(new.given) >= 2,
         new.pc = "publish" => Len(x2) >= 2,
         new.pc \in {"create", "replace"} => Path!InOrder(Path!Unique(new.given))
  PROVE  PathInv'
<1>1. PathTyped /\ PathOrdered
  BY DEF PathInv
<1>2. PathTyped'
  <2>1. x10' \subseteq Requests
    BY <1>1 DEF PathTyped
  <2> QED BY <1>1, <2>1 DEF PathTyped
<1>3. PathOrdered'
  BY <1>1 DEF PathOrdered, Path!InOrder
<1>4. x6'[r] = new /\ \A o \in Requests : o # r => x6'[o] = x6[o]
  BY <1>1 DEF PathTyped
<1>5. ASSUME x8' = FALSE PROVE PathAlone'
  <2>1. PathAlone
    BY <1>5 DEF PathInv
  <2>2. \A p, q \in Requests : p # q => x6'[p].pc = "idle" \/ x6'[q].pc = "idle"
    BY <1>4, <1>5, <2>1 DEF PathAlone
  <2>3. \A o \in Requests :
          x6'[o].pc \in {"validate", "replace"} /\ x1' = "PUBLISHED" => Len(x6'[o].given) >= 2
    BY <1>4, <1>5, <2>1 DEF PathAlone
  <2>4. \A o \in Requests : x6'[o].pc = "publish" /\ x1' # "none" /\ x7' = FALSE => Len(x2') >= 2
    BY <1>4, <2>1 DEF PathAlone
  <2>5. x1' = "PUBLISHED" /\ x7' = FALSE => Len(x2') >= 2
    BY <2>1 DEF PathAlone
  <2> QED BY <2>2, <2>3, <2>4, <2>5 DEF PathAlone
<1>6. PathChecked'
  <2> SUFFICES ASSUME NEW o \in Requests, NEW l \in Seq(Courses),
                      x6'[o].pc \in {"create", "replace"}, o \notin x10',
                      l = Path!Unique(x6'[o].given)
               PROVE  Path!InOrder(l)'
    BY DEF PathChecked
  <2>1. Path!InOrder(l)
    <3>1. CASE o = r
      BY <1>4, <3>1
    <3>2. CASE o # r
      BY <1>4, <3>2 DEF PathInv, PathChecked
    <3> QED BY <3>1, <3>2
  <2> QED BY <2>1 DEF Path!InOrder
<1> QED BY <1>2, <1>3, <1>5, <1>6 DEF PathInv

LEMMA PathBegins ==
  ASSUME PathInv, NEW r \in Requests, NEW pc \in {"create", "validate", "publish"},
         NEW given \in Seq(Courses), Path!Begin(r, pc, given),
         pc = "validate" /\ x1 = "PUBLISHED" => Len(given) >= 2,
         pc = "publish" => Len(x2) >= 2,
         pc = "create" => Path!InOrder(Path!Unique(given))
  PROVE  PathInv'
<1>1. x6 \in [Requests -> PathTask] /\ x8 \in BOOLEAN
  BY DEF PathInv, PathTyped
<1>2. PICK new \in PathTask : x6' = [x6 EXCEPT ![r] = new] /\ new.pc = pc /\ new.given = given
  <2> DEFINE n1 == [Path!Idle EXCEPT !.pc = pc]
             n2 == [n1 EXCEPT !.given = given]
  <2>1. x6' = [x6 EXCEPT ![r] = n2]
    BY DEF Path!Begin
  <2>2. n1 \in PathTask /\ n1.pc = pc
    BY PathIdle DEF PathTask
  <2> HIDE DEF n1
  <2>3. n2 \in PathTask /\ n2.pc = pc /\ n2.given = given
    BY <2>2 DEF PathTask
  <2> HIDE DEF n2
  <2> QED BY <2>1, <2>3
<1>3. /\ x8' \in BOOLEAN
      /\ x8' = FALSE => x8 = FALSE /\ ~Path!Overlapping(r)
  BY <1>1, Zenon DEF Path!Begin
<1>4. ~Path!Overlapping(r) => \A o \in Requests \ {r} : x6[o].pc = "idle"
  BY <1>1 DEF Path!Overlapping, PathTask
<1>5. /\ x1' = x1 /\ x2' = x2 /\ x3' = x3 /\ x4' = x4 /\ x5' = x5 /\ x7' = x7 /\ x9' = x9
      /\ x10' \in {x10, x10 \ {r}}
  BY DEF Path!Begin, Path!path, Path!courses
<1>6. new.pc \in {"validate", "replace"} /\ x1 = "PUBLISHED" => Len(new.given) >= 2
  BY <1>2
<1>7. new.pc = "publish" => Len(x2) >= 2
  BY <1>2
<1>8. new.pc \in {"create", "replace"} => Path!InOrder(Path!Unique(new.given))
  BY <1>2
<1> QED BY <1>2, <1>3, <1>4, <1>5, <1>6, <1>7, <1>8, PathMoves

LEMMA PathStarts ==
  ASSUME PathInv, NEW r \in Requests,
         Path!StartCreate(r) \/ Path!StartReplace(r) \/ Path!StartPublish(r)
  PROVE  PathInv'
<1>0. x2 \in Seq(Courses)
  BY DEF PathInv, PathTyped
<1>1. CASE Path!StartCreate(r)
  <2>1. PICK l \in Seq(Courses) : Path!Begin(r, "create", l) /\ Path!Valid(l)
    BY <1>1, PathGiven DEF Path!StartCreate
  <2>2. Path!InOrder(Path!Unique(l))
    BY <2>1 DEF Path!Valid
  <2> QED BY <2>1, <2>2, PathBegins
<1>2. CASE Path!StartReplace(r)
  <2>1. PICK l \in Seq(Courses) :
          Path!Begin(r, "validate", l) /\ (x1 = "DRAFT" \/ (x1 = "PUBLISHED" /\ Len(l) >= 2))
    BY <1>2, PathGiven DEF Path!StartReplace
  <2>2. x1 = "PUBLISHED" => Len(l) >= 2
    BY <2>1
  <2> QED BY <2>1, <2>2, PathBegins
<1>3. CASE Path!StartPublish(r)
  <2>1. Path!Begin(r, "publish", x2) /\ Len(x2) >= 2
    BY <1>3 DEF Path!StartPublish
  <2> QED BY <1>0, <2>1, PathBegins
<1> QED BY <1>1, <1>2, <1>3

LEMMA PathValidates ==
  ASSUME PathInv, NEW r \in Requests, Path!Validate(r) \/ Path!Abort(r)
  PROVE  PathInv'
<1>1. x6 \in [Requests -> PathTask] /\ x6[r] \in PathTask /\ x8 \in BOOLEAN
  BY DEF PathInv, PathTyped
<1>2. /\ x1' = x1 /\ x2' = x2 /\ x3' = x3 /\ x4' = x4 /\ x5' = x5 /\ x7' = x7 /\ x9' = x9
      /\ x8' = x8 /\ x10' \in {x10, x10 \ {r}}
  BY DEF Path!Validate, Path!Abort, Path!path, Path!courses, Path!history
<1>3. CASE Path!Finish(r)
  <2>1. PICK new \in PathTask : x6' = [x6 EXCEPT ![r] = new] /\ new.pc = "idle"
    BY <1>3, PathIdle DEF Path!Finish
  <2>2. new.pc \notin {"validate", "replace"} /\ new.pc # "publish" /\ new.pc # "create"
    BY <2>1
  <2> QED BY <1>1, <1>2, <2>1, <2>2, PathMoves
<1>4. CASE /\ Path!Validate(r) /\ Path!Valid(x6[r].given)
           /\ x6' = [x6 EXCEPT ![r].pc = "replace"]
  <2>1. PICK new \in PathTask :
          x6' = [x6 EXCEPT ![r] = new] /\ new.pc = "replace" /\ new.given = x6[r].given
    <3> DEFINE n1 == [x6[r] EXCEPT !.pc = "replace"]
    <3>1. n1 \in PathTask /\ n1.pc = "replace" /\ n1.given = x6[r].given
      BY <1>1 DEF PathTask
    <3>2. x6' = [x6 EXCEPT ![r] = n1]
      BY <1>4
    <3> QED BY <3>1, <3>2
  <2>2. x6[r].pc = "validate"
    BY <1>4 DEF Path!Validate
  <2>3. x8' = FALSE /\ new.pc \in {"validate", "replace"} /\ x1 = "PUBLISHED" =>
          Len(new.given) >= 2
    BY <1>2, <2>1, <2>2 DEF PathInv, PathAlone
  <2>4. new.pc # "publish" /\ x6[r].pc # "idle"
    BY <2>1, <2>2
  <2>5. Path!InOrder(Path!Unique(new.given))
    BY <1>4, <2>1 DEF Path!Valid
  <2> QED BY <1>1, <1>2, <2>1, <2>3, <2>4, <2>5, PathMoves
<1> QED BY <1>3, <1>4 DEF Path!Validate, Path!Abort

\* The end of a request that writes the status and the list.
LEMMA PathWrites ==
  ASSUME PathInv, NEW r \in Requests, x6[r].pc # "idle", x6' = [x6 EXCEPT ![r] = Path!Idle],
         x1' \in {"none", "DRAFT", "PUBLISHED"}, x2' \in Seq(Courses),
         x3' = x3, x4' = x4, x5' = x5, x7' \in BOOLEAN, x8' = x8, x9' \in BOOLEAN,
         x10' = x10, x9' = FALSE => Path!InOrder(x2'),
         x8 = FALSE /\ x1' = "PUBLISHED" /\ x7' = FALSE => Len(x2') >= 2
  PROVE  PathInv'
<1>1. PathTyped /\ PathOrdered
  BY DEF PathInv
<1>2. x6' \in [Requests -> PathTask]
  BY <1>1, PathIdle DEF PathTyped
<1>3. x6'[r].pc = "idle" /\ \A o \in Requests : o # r => x6'[o] = x6[o]
  BY <1>1, PathIdle DEF PathTyped
<1>4. PathTyped'
  BY <1>1, <1>2 DEF PathTyped
<1>5. PathOrdered'
  BY <1>1 DEF PathOrdered, Path!InOrder
<1>6. ASSUME x8' = FALSE PROVE PathAlone'
  <2>1. PathAlone
    BY <1>6 DEF PathInv
  <2>2. \A o \in Requests : x6'[o].pc = "idle"
    BY <1>3, <2>1 DEF PathAlone
  <2> QED BY <1>6, <2>2 DEF PathAlone
<1>7. PathChecked'
  BY <1>3 DEF PathInv, PathChecked, Path!InOrder
<1> QED BY <1>4, <1>5, <1>6, <1>7 DEF PathInv

LEMMA StoreWrites ==
  ASSUME PathInv, NEW r \in Requests, x6[r].pc \in {"create", "replace"}, Path!Store(r)
  PROVE  /\ x2' \in Seq(Courses) /\ x7' \in BOOLEAN /\ x9' \in BOOLEAN
         /\ x6' = [x6 EXCEPT ![r] = Path!Idle]
         /\ x9' = FALSE => Path!InOrder(x2')
         /\ x7' = FALSE => Len(x2') >= Len(x6[r].given)
<1>1. x6[r].given \in Seq(Courses)
  BY DEF PathInv, PathTyped, PathTask
<1>2. x2' \in Seq(Courses)
  BY <1>1, UniqueIsList DEF Path!Store
<1>3. x7' \in BOOLEAN /\ (x7' = FALSE => ~(Len(x2') < Len(x6[r].given)))
  <2>1. x7' = (Len(x2') < Len(x6[r].given))
    BY DEF Path!Store
  <2>2. x7' \in BOOLEAN
    BY <2>1
  <2>3. ASSUME Len(x2') < Len(x6[r].given) PROVE x7' # FALSE
    BY <2>1, <2>3
  <2> QED BY <2>2, <2>3
<1>4. x9' \in BOOLEAN /\ (x9' = FALSE => Path!InOrder(x2'))
  <2>1. x2' = Path!Unique(x6[r].given) /\ x9' = (r \in x10)
    BY Zenon DEF Path!Store
  <2>2. x9' \in BOOLEAN /\ (x9' = FALSE => r \notin x10)
    <3>1. x9' \in BOOLEAN
      BY <2>1
    <3>2. ASSUME r \in x10 PROVE x9' # FALSE
      BY <2>1, <3>2
    <3> QED BY <3>1, <3>2
  <2>3. r \notin x10 => Path!InOrder(x2')
    <3>1. \A l \in Seq(Courses) :
            r \notin x10 /\ l = Path!Unique(x6[r].given) => Path!InOrder(l)
      BY DEF PathInv, PathChecked
    <3> QED BY <1>2, <2>1, <3>1 DEF Path!InOrder
  <2> QED BY <2>2, <2>3
<1>5. Len(x2') \in Nat /\ Len(x6[r].given) \in Nat
  BY <1>1, <1>2
<1>6. x6' = [x6 EXCEPT ![r] = Path!Idle]
  BY DEF Path!Store, Path!Finish
<1> QED BY <1>2, <1>3, <1>4, <1>5, <1>6

LEMMA CreatePathKeeps == ASSUME PathInv, NEW r \in Requests, Path!CreatePath(r) PROVE PathInv'
<1>1. /\ x6[r].pc = "create" /\ x6[r].pc # "idle" /\ x3' = x3 /\ x4' = x4 /\ x5' = x5 /\ x8' = x8
      /\ x10' = x10
  BY DEF Path!CreatePath, Path!courses
<1>2. PathTyped /\ PathOrdered
  BY DEF PathInv
<1>3. CASE x1 = "none"
  <2>1. x1' = "DRAFT" /\ Path!Store(r)
    BY <1>3 DEF Path!CreatePath
  <2>2. /\ x2' \in Seq(Courses) /\ x7' \in BOOLEAN /\ x9' \in BOOLEAN
        /\ x6' = [x6 EXCEPT ![r] = Path!Idle] /\ (x9' = FALSE => Path!InOrder(x2'))
    BY <1>1, <2>1, StoreWrites
  <2> QED BY <1>1, <2>1, <2>2, PathWrites
<1>4. CASE x1 # "none"
  <2>1. x1' = x1 /\ x2' = x2 /\ x7' = x7 /\ x9' = x9 /\ x6' = [x6 EXCEPT ![r] = Path!Idle]
    BY <1>4 DEF Path!CreatePath, Path!Finish, Path!path
  <2>2. x8 = FALSE /\ x1' = "PUBLISHED" /\ x7' = FALSE => Len(x2') >= 2
    BY <2>1 DEF PathInv, PathAlone
  <2>3. x1' \in {"none", "DRAFT", "PUBLISHED"} /\ x2' \in Seq(Courses)
    BY <1>2, <2>1 DEF PathTyped
  <2>4. x7' \in BOOLEAN /\ x9' \in BOOLEAN
    BY <1>2, <2>1 DEF PathTyped
  <2>5. x9' = FALSE => Path!InOrder(x2')
    BY <1>2, <2>1 DEF PathOrdered
  <2> QED BY <1>1, <2>1, <2>2, <2>3, <2>4, <2>5, PathWrites
<1> QED BY <1>3, <1>4

LEMMA ReplaceCoursesKeeps ==
  ASSUME PathInv, NEW r \in Requests, Path!ReplaceCourses(r) PROVE PathInv'
<1>1. /\ x6[r].pc = "replace" /\ x6[r].pc # "idle" /\ x1' = x1
      /\ x3' = x3 /\ x4' = x4 /\ x5' = x5 /\ x8' = x8
      /\ x10' = x10
  BY DEF Path!ReplaceCourses, Path!courses
<1>2. PathTyped /\ PathOrdered
  BY DEF PathInv
<1>3. x1' \in {"none", "DRAFT", "PUBLISHED"}
  BY <1>1, <1>2 DEF PathTyped
<1>4. CASE x1 = "none"
  <2>1. x2' = x2 /\ x7' = x7 /\ x9' = x9 /\ x6' = [x6 EXCEPT ![r] = Path!Idle]
    BY <1>4 DEF Path!ReplaceCourses, Path!Finish
  <2>2. x8 = FALSE /\ x1' = "PUBLISHED" /\ x7' = FALSE => Len(x2') >= 2
    BY <1>1, <1>4
  <2>3. x2' \in Seq(Courses)
    BY <1>2, <2>1 DEF PathTyped
  <2>4. x7' \in BOOLEAN /\ x9' \in BOOLEAN
    BY <1>2, <2>1 DEF PathTyped
  <2>5. x9' = FALSE => Path!InOrder(x2')
    BY <1>2, <2>1 DEF PathOrdered
  <2> QED BY <1>1, <1>3, <2>1, <2>2, <2>3, <2>4, <2>5, PathWrites
<1>5. CASE x1 # "none"
  <2>1. Path!Store(r)
    BY <1>5 DEF Path!ReplaceCourses
  <2>2. /\ x2' \in Seq(Courses) /\ x7' \in BOOLEAN /\ x9' \in BOOLEAN
        /\ x6' = [x6 EXCEPT ![r] = Path!Idle] /\ (x9' = FALSE => Path!InOrder(x2'))
        /\ (x7' = FALSE => Len(x2') >= Len(x6[r].given))
    BY <1>1, <2>1, StoreWrites
  <2>3. x8 = FALSE /\ x1 = "PUBLISHED" => Len(x6[r].given) >= 2
    BY <1>1 DEF PathInv, PathAlone
  <2>4. Len(x2') \in Nat /\ Len(x6[r].given) \in Nat
    BY <1>2, <2>2 DEF PathTyped, PathTask
  <2>5. x8 = FALSE /\ x1' = "PUBLISHED" /\ x7' = FALSE => Len(x2') >= 2
    BY <1>1, <2>2, <2>3, <2>4
  <2> QED BY <1>1, <1>3, <2>2, <2>5, PathWrites
<1> QED BY <1>4, <1>5

LEMMA PublishKeeps == ASSUME PathInv, NEW r \in Requests, Path!Publish(r) PROVE PathInv'
<1>1. /\ x6[r].pc = "publish" /\ x6[r].pc # "idle" /\ x2' = x2 /\ x7' = x7 /\ x9' = x9
      /\ x3' = x3 /\ x4' = x4 /\ x5' = x5 /\ x8' = x8
      /\ x10' = x10
      /\ x6' = [x6 EXCEPT ![r] = Path!Idle]
      /\ x1' = IF x1 = "none" THEN "none" ELSE "PUBLISHED"
  BY DEF Path!Publish, Path!courses, Path!history, Path!Finish
<1>2. PathTyped /\ PathOrdered
  BY DEF PathInv
<1>3. x1' \in {"none", "DRAFT", "PUBLISHED"} /\ x2' \in Seq(Courses)
  BY <1>1, <1>2 DEF PathTyped
<1>4. x7' \in BOOLEAN /\ x9' \in BOOLEAN
  BY <1>1, <1>2 DEF PathTyped
<1>5. x9' = FALSE => Path!InOrder(x2')
  BY <1>1, <1>2 DEF PathOrdered
<1>6. x8 = FALSE /\ x1' = "PUBLISHED" /\ x7' = FALSE => Len(x2') >= 2
  BY <1>1 DEF PathInv, PathAlone
<1> QED BY <1>1, <1>3, <1>4, <1>5, <1>6, PathWrites

LEMMA PathWithdrawn == ASSUME PathInv, Path!Unpublish \/ Path!RemovePath PROVE PathInv'
<1>1. /\ x3' = x3 /\ x4' = x4 /\ x5' = x5 /\ x6' = x6 /\ x7' = x7 /\ x8' = x8 /\ x9' = x9
      /\ x10' = x10
      /\ (x1' = "DRAFT" /\ x1 = "PUBLISHED" /\ x2' = x2) \/ (x1' = "none" /\ x2' = <<>>)
  BY DEF Path!Unpublish, Path!RemovePath, Path!courses, Path!history
<1>2. PathTyped /\ PathOrdered
  BY DEF PathInv
<1>3. x1' \in {"none", "DRAFT", "PUBLISHED"} /\ x2' \in Seq(Courses)
  <2>1. x2 \in Seq(Courses) /\ <<>> \in Seq(Courses)
    BY <1>2 DEF PathTyped
  <2> QED BY <1>1, <2>1
<1>4. PathTyped'
  BY <1>1, <1>2, <1>3 DEF PathTyped
<1>5. PathOrdered'
  BY <1>1, <1>2 DEF PathOrdered, Path!InOrder
<1>6. ASSUME x8' = FALSE PROVE PathAlone'
  <2>1. PathAlone
    BY <1>1, <1>6 DEF PathInv
  <2> QED BY <1>1, <2>1 DEF PathAlone
<1>7. PathChecked'
  BY <1>1 DEF PathInv, PathChecked, Path!InOrder
<1> QED BY <1>4, <1>5, <1>6, <1>7 DEF PathInv

\* The courses and the student change.
LEMMA PathSurroundings ==
  ASSUME PathInv, NEW c \in Courses,
         \/ \E prerequisites \in SUBSET Courses : Path!SetPrerequisites(c, prerequisites)
         \/ \E p \in Courses : Path!RemovePrerequisite(c, p)
         \/ Path!ToggleActive(c) \/ Path!Enroll(c) \/ Path!Advance(c)
  PROVE  PathInv'
<1>1. x1' = x1 /\ x2' = x2 /\ x6' = x6 /\ x7' = x7 /\ x8' = x8
  BY DEF Path!SetPrerequisites, Path!RemovePrerequisite, Path!ToggleActive, Path!Enroll,
         Path!Advance, Path!path, Path!history
<1>2. PathTyped /\ PathOrdered
  BY DEF PathInv
<1>3. x3' \subseteq Courses
  BY <1>2 DEF PathTyped, Path!SetPrerequisites, Path!RemovePrerequisite, Path!ToggleActive,
              Path!Enroll, Path!Advance, Path!courses
<1>4. x5' \in [Courses -> {"none", "ACTIVE", "COMPLETED", "REFUNDED"}]
  BY <1>2 DEF PathTyped, Path!SetPrerequisites, Path!RemovePrerequisite, Path!ToggleActive,
              Path!Enroll, Path!Advance
<1>5. /\ x4' \subseteq Courses \X Courses /\ x9' \in BOOLEAN
      /\ \A d \in Courses : <<d, d>> \notin x4'
      /\ x9' = FALSE => x9 = FALSE /\ x4' \subseteq x4
      /\ x10' \subseteq Requests
      /\ \A r \in Requests : r \notin x10' => r \notin x10 /\ x4' \subseteq x4
  <2>1. CASE \E prerequisites \in SUBSET Courses : Path!SetPrerequisites(c, prerequisites)
    <3>1. PICK prerequisites \in SUBSET Courses : Path!SetPrerequisites(c, prerequisites)
      BY <2>1
    <3>2. /\ c \notin prerequisites
          /\ x4' = {e \in x4 : e[1] # c} \union {<<c, p>> : p \in prerequisites}
      BY <3>1 DEF Path!SetPrerequisites
    <3>3. \/ x4' \subseteq x4 /\ x9' = x9 /\ x10' = x10
          \/ x9' = TRUE /\ x10' = Requests
      BY <3>1, Zenon DEF Path!SetPrerequisites
    <3>6. x9 \in BOOLEAN /\ x10 \subseteq Requests
      BY <1>2 DEF PathTyped
    <3>4. x4' \subseteq Courses \X Courses
      BY <1>2, <3>2 DEF PathTyped
    <3>5. \A d \in Courses : <<d, d>> \notin x4'
      BY <1>2, <3>2 DEF PathOrdered
    <3> QED BY <3>3, <3>4, <3>5, <3>6
  <2>2. CASE ~\E prerequisites \in SUBSET Courses : Path!SetPrerequisites(c, prerequisites)
    <3>1. x9' = x9 /\ x10' = x10 /\ x4' \subseteq x4
      BY <2>2 DEF Path!RemovePrerequisite, Path!ToggleActive, Path!Enroll, Path!Advance,
                  Path!courses, Path!history
    <3>2. x9' \in BOOLEAN /\ x10' \subseteq Requests
      BY <1>2, <3>1 DEF PathTyped
    <3> QED BY <1>2, <3>1, <3>2 DEF PathTyped, PathOrdered
  <2> QED BY <2>1, <2>2
<1>6. PathTyped'
  BY <1>1, <1>2, <1>3, <1>4, <1>5 DEF PathTyped
<1>7. PathOrdered'
  BY <1>1, <1>2, <1>5 DEF PathOrdered, Path!InOrder
<1>8. ASSUME x8' = FALSE PROVE PathAlone'
  <2>1. PathAlone
    BY <1>1, <1>8 DEF PathInv
  <2> QED BY <1>1, <2>1 DEF PathAlone
<1>9. PathChecked'
  BY <1>1, <1>5 DEF PathInv, PathChecked, Path!InOrder
<1> QED BY <1>6, <1>7, <1>8, <1>9 DEF PathInv

LEMMA PathInductive == PathInv /\ [Path!Next]_(Path!vars) => PathInv'
<1> SUFFICES ASSUME PathInv, [Path!Next]_(Path!vars) PROVE PathInv'
  OBVIOUS
<1>1. CASE UNCHANGED Path!vars
  BY <1>1 DEF Path!vars, PathInv, PathTyped, PathOrdered, PathChecked, PathAlone,
            Path!InOrder
<1>2. ASSUME NEW r \in Requests,
             \/ Path!StartCreate(r) \/ Path!StartReplace(r) \/ Path!StartPublish(r)
             \/ Path!Validate(r) \/ Path!CreatePath(r) \/ Path!ReplaceCourses(r)
             \/ Path!Publish(r) \/ Path!Abort(r)
      PROVE  PathInv'
  BY <1>2, PathStarts, PathValidates, CreatePathKeeps, ReplaceCoursesKeeps, PublishKeeps
<1>3. CASE Path!Unpublish \/ Path!RemovePath
  BY <1>3, PathWithdrawn
<1>4. ASSUME NEW c \in Courses,
             \/ \E prerequisites \in SUBSET Courses : Path!SetPrerequisites(c, prerequisites)
             \/ \E p \in Courses : Path!RemovePrerequisite(c, p)
             \/ Path!ToggleActive(c) \/ Path!Enroll(c) \/ Path!Advance(c)
      PROVE  PathInv'
  BY <1>4, PathSurroundings
<1> QED BY <1>1, <1>2, <1>3, <1>4 DEF Path!Next

------------------------------------------------------------------------------
LEMMA PathMin ==
  ASSUME NEW S \in SUBSET Nat, S # {}
  PROVE  Path!Min(S) \in S /\ \A y \in S : Path!Min(S) <= y
<1>1. \E x \in S : \A y \in S : x <= y
  BY Least
<1> QED BY <1>1 DEF Path!Min

LEMMA PathMeans == PathInv => Path!TypeOK /\ Path!PathLeadsOn
<1> SUFFICES ASSUME PathInv PROVE Path!TypeOK /\ Path!PathLeadsOn
  OBVIOUS
<1>0. PathTyped /\ PathOrdered
  BY DEF PathInv
<1>1. \A s \in Seq(Courses) : Path!ToSet(s) = {s[i] : i \in DOMAIN s} /\ Path!ToSet(s) \subseteq Courses
  BY DEF Path!ToSet
<1>2. Path!TypeOK
  <2>1. Path!ToSet(x2) \subseteq Courses
    BY <1>0, <1>1 DEF PathTyped
  <2>2. \A r \in Requests : x6[r].pc \in {"idle", "create", "validate", "replace", "publish"}
    BY <1>0 DEF PathTyped, PathTask
  <2> QED BY <1>0, <2>1, <2>2, Zenon DEF PathTyped, Path!TypeOK
<1>3. x1 = "PUBLISHED" /\ ~x8 /\ ~x7 => Len(x2) >= 2
  <2>1. x8 = FALSE => (x1 = "PUBLISHED" /\ x7 = FALSE => Len(x2) >= 2)
    BY Zenon DEF PathInv, PathAlone
  <2>2. x7 \in BOOLEAN /\ x8 \in BOOLEAN
    BY <1>0 DEF PathTyped
  <2> QED BY <2>1, <2>2, Zenon
<1>4. ASSUME ~x9, \A e \in x4 : e[1] \in Path!ToSet(x2) => e[2] \in Path!ToSet(x2),
             NEW c \in Path!NextCourse
      PROVE  Path!Missing(c) = {}
  <2> DEFINE open == {i \in DOMAIN x2 : Path!Available(i)}
             left == {i \in DOMAIN x2 : x2[i] \notin Path!Completed}
  <2>0. x2 \in Seq(Courses) /\ DOMAIN x2 = 1 .. Len(x2) /\ Len(x2) \in Nat
        /\ open \in SUBSET Nat /\ left \in SUBSET Nat /\ x4 \subseteq Courses \X Courses
    BY <1>0 DEF PathTyped
  <2>1. Path!InOrder(x2)
    <3>1. x9 \in BOOLEAN
      BY <1>0 DEF PathTyped
    <3>2. x9 = FALSE
      BY <1>4, <3>1, Zenon
    <3> QED BY <1>0, <3>2 DEF PathOrdered
  <2>2. CASE open # {}
    <3>1. c = x2[Path!Min(open)]
      BY <1>4, <2>2, Zenon DEF Path!NextCourse
    <3>2. Path!Min(open) \in open
      BY <2>0, <2>2, PathMin
    <3>3. Path!Available(Path!Min(open))
      BY <3>2
    <3> HIDE DEF open, left
    <3> QED BY <3>1, <3>3 DEF Path!Available
  <2>3. CASE open = {} /\ left # {}
    <3>1. c = x2[Path!Min(left)]
      BY <1>4, <2>3, Zenon DEF Path!NextCourse
    <3>2. PICK m \in left : m = Path!Min(left) /\ \A y \in left : m <= y
      BY <2>0, <2>3, PathMin
    <3>3. c = x2[m] /\ m \in 1 .. Len(x2) /\ c \in Courses
      BY <2>0, <3>1, <3>2
    <3>4. ASSUME NEW p \in Courses, <<c, p>> \in x4, p \notin Path!Completed PROVE FALSE
      <4>1. c \in Path!ToSet(x2)
        BY <1>1, <2>0, <3>3
      <4>2. p \in Path!ToSet(x2)
        BY <1>4, <3>4, <4>1
      <4>3. PICK k \in 1 .. Len(x2) : p = x2[k]
        BY <1>1, <2>0, <4>2
      <4>4. k \in left
        BY <2>0, <3>4, <4>3
      <4>5. m <= k
        BY <3>2, <4>4
      <4>6. m # k
        BY <1>0, <3>3, <3>4, <4>3 DEF PathOrdered
      <4>7. m < k
        BY <3>3, <4>5, <4>6
      <4> HIDE DEF open, left
      <4> QED BY <2>0, <2>1, <3>3, <3>4, <4>3, <4>7 DEF Path!InOrder
    <3> HIDE DEF open, left
    <3> QED BY <3>4 DEF Path!Missing
  <2>4. CASE open = {} /\ left = {}
    <3>1. Path!NextCourse = {}
      BY <2>4, Zenon DEF Path!NextCourse
    <3> QED BY <1>4, <3>1
  <2> QED BY <2>2, <2>3, <2>4
<1>5. Path!PathLeadsOn
  BY <1>3, <1>4, Zenon DEF Path!PathLeadsOn
<1> QED BY <1>2, <1>5

------------------------------------------------------------------------------
(***************************************************************************)
(* CourseEditing, the tags: x1 are their labels, x2 the links, x3 the      *)
(* counts, x4 the requests, x5 says that a link was written between the    *)
(* count of a merge and its commit.  Otherwise the count a merge holds is  *)
(* still the one its commit leads to, unless its tag is gone.              *)
(***************************************************************************)
AttachedIn(L, t) == {c \in TaggedCourses : <<c, t>> \in L}
TagTask ==
  [pc : {"idle", "merge", "commit", "attach", "detach"}, tag : Tags \union {None},
   sources : SUBSET Tags, moved : SUBSET TaggedCourses, count : Nat,
   course : TaggedCourses \union {None}]
TagTypes ==
  /\ x1 \in [Tags -> Slugs \union {None}] /\ x2 \subseteq TaggedCourses \X Tags
  /\ x3 \in [Tags -> Nat] /\ x4 \in [Requests -> TagTask] /\ x5 \in BOOLEAN
TagLinks == \A c \in TaggedCourses, t \in Tags : <<c, t>> \in x2 => x1[t] # None
TagTasks ==
  \A r \in Requests :
    /\ x4[r].pc # "idle" => x4[r].tag \in Tags /\ x4[r].tag \notin x4[r].sources
    /\ x4[r].pc \in {"attach", "detach"} => x4[r].course \in TaggedCourses
TagCounts ==
  /\ \A t \in Tags : x3[t] = Cardinality(AttachedIn(x2, t))
  /\ \A r \in Requests :
       x4[r].pc = "commit" /\ x1[x4[r].tag] # None =>
         x4[r].count = Cardinality(AttachedIn(x2, x4[r].tag) \union x4[r].moved)
TagInv == TagTypes /\ TagLinks /\ TagTasks /\ (x5 = FALSE => TagCounts)

LEMMA EditingBounds ==
  /\ IsFiniteSet(TaggedCourses) /\ MaxSaves \in Nat
  /\ None \notin Slugs /\ None \notin DraftIds /\ None \notin [version : Nat, save : Nat]
<1>1. Editing!IsFiniteSet(TaggedCourses) => IsFiniteSet(TaggedCourses)
  BY Zenon DEF Editing!IsFiniteSet, IsFiniteSet
<1> QED BY <1>1, PlatformAssumption DEF Editing!ConstantsAssumption

LEMMA EditingCardinality == \A S : Editing!Cardinality(S) = Cardinality(S)
BY Zenon DEF Editing!Cardinality, Cardinality

LEMMA AttachedCounted ==
  ASSUME NEW S, S \subseteq TaggedCourses
  PROVE  IsFiniteSet(S) /\ Cardinality(S) \in Nat
BY EditingBounds, FS_Subset, FS_CardinalityType

LEMMA TagNoTask ==
  /\ Editing!NoTask \in TagTask /\ Editing!NoTask.pc = "idle"
BY DEF Editing!NoTask, TagTask

LEMMA TagInitially == Editing!Init => TagInv
<1> SUFFICES ASSUME Editing!Init PROVE TagInv
  OBVIOUS
<1>1. /\ x1 = [t \in Tags |-> None] /\ x2 = {} /\ x3 = [t \in Tags |-> 0]
      /\ x4 = [r \in Requests |-> Editing!NoTask] /\ x5 = FALSE
  BY Zenon DEF Editing!Init
<1>2. TagTypes
  <2>1. x5 \in BOOLEAN
    BY <1>1, Zenon
  <2>2. /\ x1 \in [Tags -> Slugs \union {None}] /\ x2 \subseteq TaggedCourses \X Tags
        /\ x3 \in [Tags -> Nat] /\ x4 \in [Requests -> TagTask]
    BY <1>1, TagNoTask
  <2> QED BY <2>1, <2>2, Zenon DEF TagTypes
<1>3. TagLinks
  BY <1>1 DEF TagLinks
<1>4. \A r \in Requests : x4[r].pc = "idle"
  BY <1>1, TagNoTask
<1>5. TagTasks
  BY <1>4 DEF TagTasks
<1>6. TagCounts
  <2>1. \A t \in Tags : AttachedIn(x2, t) = {}
    BY <1>1 DEF AttachedIn
  <2>2. \A t \in Tags : x3[t] = Cardinality(AttachedIn(x2, t))
    BY <1>1, <2>1, FS_EmptySet
  <2> QED BY <1>4, <2>2 DEF TagCounts
<1> QED BY <1>2, <1>3, <1>5, <1>6 DEF TagInv

\* A step of one request that writes no tag and no link.
LEMMA TagMoves ==
  ASSUME TagInv, NEW r \in Requests, NEW new \in TagTask, x4' = [x4 EXCEPT ![r] = new],
         x1' = x1, x2' = x2, x3' = x3, x5' = x5,
         new.pc # "idle" => new.tag \in Tags /\ new.tag \notin new.sources,
         new.pc \in {"attach", "detach"} => new.course \in TaggedCourses,
         new.pc = "commit" => new.count = Cardinality(AttachedIn(x2, new.tag) \union new.moved)
  PROVE  TagInv'
<1>0. TagTypes /\ TagLinks /\ TagTasks
  BY DEF TagInv
<1>1. x4'[r] = new /\ (\A o \in Requests : o # r => x4'[o] = x4[o]) /\ x4' \in [Requests -> TagTask]
  BY <1>0 DEF TagTypes
<1>2. TagTypes'
  BY <1>0, <1>1 DEF TagTypes
<1>3. TagLinks'
  BY <1>0 DEF TagLinks
<1>4. TagTasks'
  BY <1>0, <1>1 DEF TagTasks
<1>5. ASSUME x5' = FALSE PROVE TagCounts'
  <2>1. TagCounts
    BY <1>5 DEF TagInv
  <2>2. \A t \in Tags : x3'[t] = Cardinality(AttachedIn(x2', t))
    BY <2>1 DEF TagCounts
  <2>3. ASSUME NEW o \in Requests, x4'[o].pc = "commit", x1'[x4'[o].tag] # None
        PROVE  x4'[o].count = Cardinality(AttachedIn(x2', x4'[o].tag) \union x4'[o].moved)
    <3>1. CASE o = r
      BY <1>1, <2>3, <3>1
    <3>2. CASE o # r
      BY <1>1, <2>1, <2>3, <3>2 DEF TagCounts
    <3> QED BY <3>1, <3>2
  <2> QED BY <2>2, <2>3, Zenon DEF TagCounts
<1> QED BY <1>2, <1>3, <1>4, <1>5 DEF TagInv

LEMMA StartMergeKeeps ==
  ASSUME TagInv, NEW r \in Requests, NEW t \in Tags, Editing!StartMerge(r, t)
  PROVE  TagInv'
<1>0. TagTypes
  BY DEF TagInv
<1>1. x1' = x1 /\ x2' = x2 /\ x3' = x3 /\ x5' = x5 /\ x4[r] = Editing!NoTask
  BY DEF Editing!StartMerge
<1>2. PICK sources \in SUBSET (Tags \ {t}) :
        x4' = [x4 EXCEPT ![r] =
                [@ EXCEPT !.pc = "merge", !.tag = t, !.sources = sources,
                          !.moved = UNION {Editing!CoursesOf(s) : s \in sources}]]
  BY DEF Editing!StartMerge
<1> DEFINE moved == UNION {Editing!CoursesOf(s) : s \in sources}
           n1 == [x4[r] EXCEPT !.pc = "merge"]
           n2 == [n1 EXCEPT !.tag = t]
           n3 == [n2 EXCEPT !.sources = sources]
           n4 == [n3 EXCEPT !.moved = moved]
<1>3. moved \in SUBSET TaggedCourses
  BY DEF Editing!CoursesOf
<1> HIDE DEF moved
<1>4. x4' = [x4 EXCEPT ![r] = n4]
  <2>1. x4' = [x4 EXCEPT ![r] = [x4[r] EXCEPT !.pc = "merge", !.tag = t, !.sources = sources,
                                              !.moved = moved]]
    BY <1>0, <1>2 DEF moved, TagTypes
  <2>2. [x4[r] EXCEPT !.pc = "merge", !.tag = t, !.sources = sources, !.moved = moved] = n4
    BY Zenon
  <2> QED BY <2>1, <2>2
<1>5. n1 \in TagTask /\ n1.pc = "merge"
  BY <1>1, TagNoTask DEF TagTask
<1> HIDE DEF n1
<1>6. n2 \in TagTask /\ n2.pc = "merge" /\ n2.tag = t
  BY <1>5 DEF TagTask
<1> HIDE DEF n2
<1>7. n3 \in TagTask /\ n3.pc = "merge" /\ n3.tag = t /\ n3.sources = sources
  BY <1>6 DEF TagTask
<1> HIDE DEF n3
<1>8. n4 \in TagTask /\ n4.pc = "merge" /\ n4.tag = t /\ n4.sources = sources
  BY <1>3, <1>7 DEF TagTask
<1> HIDE DEF n4
<1>9. PICK new \in TagTask :
        /\ x4' = [x4 EXCEPT ![r] = new] /\ new.pc = "merge" /\ new.tag \in Tags
        /\ new.tag \notin new.sources
  BY <1>2, <1>4, <1>8
<1> QED BY <1>1, <1>9, TagMoves

LEMMA StartLinkKeeps ==
  ASSUME TagInv, NEW r \in Requests, NEW pc \in {"attach", "detach"}, NEW c \in TaggedCourses,
         NEW t \in Tags, Editing!StartLink(r, pc, c, t)
  PROVE  TagInv'
<1>0. TagTypes
  BY DEF TagInv
<1>1. /\ x1' = x1 /\ x2' = x2 /\ x3' = x3 /\ x5' = x5 /\ x4[r] = Editing!NoTask
      /\ x4' = [x4 EXCEPT ![r] = [@ EXCEPT !.pc = pc, !.tag = t, !.course = c]]
  BY DEF Editing!StartLink
<1> DEFINE n1 == [x4[r] EXCEPT !.pc = pc]
           n2 == [n1 EXCEPT !.tag = t]
           n3 == [n2 EXCEPT !.course = c]
<1>2. x4' = [x4 EXCEPT ![r] = n3]
  <2>1. x4' = [x4 EXCEPT ![r] = [x4[r] EXCEPT !.pc = pc, !.tag = t, !.course = c]]
    BY <1>0, <1>1 DEF TagTypes
  <2>2. [x4[r] EXCEPT !.pc = pc, !.tag = t, !.course = c] = n3
    BY Zenon
  <2> QED BY <2>1, <2>2
<1>3. n1 \in TagTask /\ n1.pc = pc /\ n1.sources = {}
  BY <1>1, TagNoTask DEF TagTask, Editing!NoTask
<1> HIDE DEF n1
<1>4. n2 \in TagTask /\ n2.pc = pc /\ n2.sources = {} /\ n2.tag = t
  BY <1>3 DEF TagTask
<1> HIDE DEF n2
<1>5. n3 \in TagTask /\ n3.pc = pc /\ n3.sources = {} /\ n3.tag = t /\ n3.course = c
  BY <1>4 DEF TagTask
<1> HIDE DEF n3
<1>6. PICK new \in TagTask :
        /\ x4' = [x4 EXCEPT ![r] = new] /\ new.pc # "commit" /\ new.tag \in Tags
        /\ new.tag \notin new.sources /\ new.course \in TaggedCourses
  BY <1>2, <1>5
<1> QED BY <1>1, <1>6, TagMoves

LEMMA CountLinksKeeps ==
  ASSUME TagInv, NEW r \in Requests, Editing!CountLinks(r) PROVE TagInv'
<1>0. TagTypes /\ TagTasks /\ x4[r] \in TagTask
  BY DEF TagInv, TagTypes
<1>1. /\ x1' = x1 /\ x2' = x2 /\ x3' = x3 /\ x5' = x5 /\ x4[r].pc = "merge"
      /\ \/ x4' = [x4 EXCEPT ![r].pc = "commit", ![r].count = Editing!Counted(r)]
         \/ x4' = [x4 EXCEPT ![r] = Editing!NoTask]
  BY DEF Editing!CountLinks, Editing!Finish
<1>2. x4[r].tag \in Tags /\ x4[r].tag \notin x4[r].sources
  BY <1>0, <1>1 DEF TagTasks
<1>3. CASE x4' = [x4 EXCEPT ![r].pc = "commit", ![r].count = Editing!Counted(r)]
  <2> DEFINE count == Cardinality(AttachedIn(x2, x4[r].tag) \union x4[r].moved)
             n1 == [x4[r] EXCEPT !.pc = "commit"]
             n2 == [n1 EXCEPT !.count = count]
  <2>1. Editing!Counted(r) = count
    <3>1. Editing!CoursesOf(x4[r].tag) = AttachedIn(x2, x4[r].tag)
      BY DEF Editing!CoursesOf, AttachedIn
    <3> QED BY <3>1, EditingCardinality, Zenon DEF Editing!Counted
  <2>2. count \in Nat
    <3>1. AttachedIn(x2, x4[r].tag) \union x4[r].moved \subseteq TaggedCourses
      BY <1>0 DEF AttachedIn, TagTask
    <3> QED BY <3>1, AttachedCounted
  <2> HIDE DEF count
  <2>3. x4' = [x4 EXCEPT ![r] = n2]
    BY <1>0, <1>3, <2>1 DEF TagTypes
  <2>4. /\ n1 \in TagTask /\ n1.pc = "commit" /\ n1.tag = x4[r].tag
        /\ n1.sources = x4[r].sources /\ n1.moved = x4[r].moved
    BY <1>0 DEF TagTask
  <2> HIDE DEF n1
  <2>5. /\ n2 \in TagTask /\ n2.pc = "commit" /\ n2.tag = x4[r].tag
        /\ n2.sources = x4[r].sources /\ n2.moved = x4[r].moved /\ n2.count = count
    BY <2>2, <2>4 DEF TagTask
  <2> HIDE DEF n2
  <2>6. PICK new \in TagTask :
          /\ x4' = [x4 EXCEPT ![r] = new] /\ new.pc = "commit" /\ new.tag \in Tags
          /\ new.tag \notin new.sources
          /\ new.count = Cardinality(AttachedIn(x2, new.tag) \union new.moved)
    BY <1>2, <2>3, <2>5 DEF count
  <2> QED BY <1>1, <2>6, TagMoves
<1>4. CASE x4' = [x4 EXCEPT ![r] = Editing!NoTask]
  <2>1. PICK new \in TagTask : x4' = [x4 EXCEPT ![r] = new] /\ new.pc = "idle"
    BY <1>4, TagNoTask
  <2> QED BY <1>1, <2>1, TagMoves
<1> QED BY <1>1, <1>3, <1>4

\* A step that writes tags or links: what it does to the counts.
LEMMA TagWrites ==
  ASSUME TagInv, x4' = x4 \/ \E r \in Requests : x4' = [x4 EXCEPT ![r] = Editing!NoTask],
         x1' \in [Tags -> Slugs \union {None}], x2' \subseteq TaggedCourses \X Tags,
         x3' \in [Tags -> Nat], x5' \in BOOLEAN, x5' = FALSE => x5 = FALSE, TagLinks',
         TagCounts => \A t \in Tags : x3'[t] = Cardinality(AttachedIn(x2', t)),
         ASSUME NEW o \in Requests, x5' = FALSE, x4'[o].pc = "commit", x4'[o] = x4[o], x4[o].tag \in Tags,
                x1'[x4[o].tag] # None
         PROVE  x1[x4[o].tag] # None /\ AttachedIn(x2', x4[o].tag) = AttachedIn(x2, x4[o].tag)
  PROVE  TagInv'
<1>0. TagTypes /\ TagLinks /\ TagTasks
  BY DEF TagInv
<1>1. x4' \in [Requests -> TagTask] /\ \A o \in Requests : x4'[o] = x4[o] \/ x4'[o] = Editing!NoTask
  BY <1>0, TagNoTask DEF TagTypes
<1>2. TagTypes'
  BY <1>0, <1>1, Zenon DEF TagTypes
<1>3. TagTasks'
  BY <1>0, <1>1, TagNoTask DEF TagTasks
<1>4. ASSUME x5' = FALSE PROVE TagCounts'
  <2>1. TagCounts
    BY <1>4 DEF TagInv
  <2>2. ASSUME NEW o \in Requests, x4'[o].pc = "commit", x1'[x4'[o].tag] # None
        PROVE  x4'[o].count = Cardinality(AttachedIn(x2', x4'[o].tag) \union x4'[o].moved)
    <3>1. x4'[o] = x4[o]
      BY <1>1, <2>2, TagNoTask
    <3>2. x4[o].tag \in Tags
      BY <1>0, <2>2, <3>1 DEF TagTasks
    <3>3. x1[x4[o].tag] # None /\ AttachedIn(x2', x4[o].tag) = AttachedIn(x2, x4[o].tag)
      BY <1>4, <2>2, <3>1, <3>2
    <3>4. x4[o].count = Cardinality(AttachedIn(x2, x4[o].tag) \union x4[o].moved)
      BY <2>1, <2>2, <3>1, <3>3 DEF TagCounts
    <3> QED BY <3>1, <3>3, <3>4
  <2> QED BY <2>1, <2>2, Zenon DEF TagCounts
<1> QED BY <1>2, <1>3, <1>4 DEF TagInv

LEMMA CreateTagKeeps ==
  ASSUME TagInv, NEW t \in Tags, NEW s \in Slugs, Editing!Create(t, s) PROVE TagInv'
<1>0. TagTypes /\ TagLinks /\ TagTasks
  BY DEF TagInv
<1>1. /\ x1[t] = None /\ x2' = x2 /\ x4' = x4 /\ x5' = x5
      /\ \A r \in Requests : x4[r].tag # t
      /\ x1' = [x1 EXCEPT ![t] = s] /\ x3' = [x3 EXCEPT ![t] = 0]
  BY DEF Editing!Create, Editing!Exists
<1>2. x1' \in [Tags -> Slugs \union {None}] /\ x3' \in [Tags -> Nat] /\ x2' \subseteq TaggedCourses \X Tags
  BY <1>0, <1>1 DEF TagTypes
<1>3. x5' \in BOOLEAN /\ (x5' = FALSE => x5 = FALSE)
  BY <1>0, <1>1 DEF TagTypes
<1>4. TagLinks'
  BY <1>0, <1>1 DEF TagLinks, TagTypes
<1>5. ASSUME TagCounts PROVE \A u \in Tags : x3'[u] = Cardinality(AttachedIn(x2', u))
  <2>1. AttachedIn(x2, t) = {}
    BY <1>0, <1>1 DEF TagLinks, AttachedIn
  <2>2. Cardinality({}) = 0
    BY FS_EmptySet
  <2> QED BY <1>0, <1>1, <1>5, <2>1, <2>2 DEF TagCounts, TagTypes
<1>6. ASSUME NEW o \in Requests, x5' = FALSE, x4'[o].pc = "commit", x4'[o] = x4[o], x4[o].tag \in Tags,
             x1'[x4[o].tag] # None
      PROVE  x1[x4[o].tag] # None /\ AttachedIn(x2', x4[o].tag) = AttachedIn(x2, x4[o].tag)
  BY <1>0, <1>1, <1>6 DEF TagTypes
<1> QED BY <1>1, <1>2, <1>3, <1>4, <1>5, <1>6, TagWrites

LEMMA RenameTagKeeps ==
  ASSUME TagInv, NEW t \in Tags, NEW s \in Slugs, Editing!Rename(t, s) PROVE TagInv'
<1>0. TagTypes /\ TagLinks /\ TagTasks
  BY DEF TagInv
<1>1. /\ x1[t] # None /\ x2' = x2 /\ x3' = x3 /\ x4' = x4 /\ x5' = x5
      /\ x1' = [x1 EXCEPT ![t] = s]
  BY DEF Editing!Rename, Editing!Exists
<1>2. x1' \in [Tags -> Slugs \union {None}] /\ x3' \in [Tags -> Nat] /\ x2' \subseteq TaggedCourses \X Tags
  BY <1>0, <1>1 DEF TagTypes
<1>3. x5' \in BOOLEAN /\ (x5' = FALSE => x5 = FALSE)
  BY <1>0, <1>1 DEF TagTypes
<1>4. TagLinks'
  BY <1>0, <1>1, EditingBounds DEF TagLinks, TagTypes
<1>5. ASSUME TagCounts PROVE \A u \in Tags : x3'[u] = Cardinality(AttachedIn(x2', u))
  BY <1>1, <1>5 DEF TagCounts
<1>6. ASSUME NEW o \in Requests, x5' = FALSE, x4'[o].pc = "commit", x4'[o] = x4[o], x4[o].tag \in Tags,
             x1'[x4[o].tag] # None
      PROVE  x1[x4[o].tag] # None /\ AttachedIn(x2', x4[o].tag) = AttachedIn(x2, x4[o].tag)
  BY <1>0, <1>1, <1>6 DEF TagTypes
<1> QED BY <1>1, <1>2, <1>3, <1>4, <1>5, <1>6, TagWrites

LEMMA RemoveTagKeeps ==
  ASSUME TagInv, NEW t \in Tags, Editing!RemoveTag(t) PROVE TagInv'
<1>0. TagTypes /\ TagLinks /\ TagTasks
  BY DEF TagInv
<1>1. /\ x4' = x4 /\ x5' = x5 /\ x2' = {l \in x2 : l[2] # t}
      /\ x1' = [u \in Tags |-> IF u \in {t} THEN None ELSE x1[u]]
      /\ x3' = [u \in Tags |-> IF u \in {t} THEN 0 ELSE x3[u]]
  BY DEF Editing!RemoveTag, Editing!Delete
<1>2. x1' \in [Tags -> Slugs \union {None}] /\ x3' \in [Tags -> Nat] /\ x2' \subseteq TaggedCourses \X Tags
  BY <1>0, <1>1 DEF TagTypes
<1>3. x5' \in BOOLEAN /\ (x5' = FALSE => x5 = FALSE)
  BY <1>0, <1>1 DEF TagTypes
<1>4. \A c \in TaggedCourses, u \in Tags : <<c, u>> \in x2' <=> <<c, u>> \in x2 /\ u # t
  BY <1>1
<1>5. TagLinks'
  BY <1>0, <1>1, <1>4 DEF TagLinks, TagTypes
<1>6. AttachedIn(x2', t) = {} /\ \A u \in Tags \ {t} : AttachedIn(x2', u) = AttachedIn(x2, u)
  BY <1>4 DEF AttachedIn
<1>7. ASSUME TagCounts PROVE \A u \in Tags : x3'[u] = Cardinality(AttachedIn(x2', u))
  <2>1. Cardinality({}) = 0
    BY FS_EmptySet
  <2> QED BY <1>1, <1>6, <1>7, <2>1 DEF TagCounts
<1>8. ASSUME NEW o \in Requests, x5' = FALSE, x4'[o].pc = "commit", x4'[o] = x4[o], x4[o].tag \in Tags,
             x1'[x4[o].tag] # None
      PROVE  x1[x4[o].tag] # None /\ AttachedIn(x2', x4[o].tag) = AttachedIn(x2, x4[o].tag)
  <2>1. x4[o].tag # t
    BY <1>1, <1>8
  <2> QED BY <1>1, <1>6, <1>8, <2>1
<1> QED BY <1>1, <1>2, <1>3, <1>5, <1>7, <1>8, TagWrites

\* What Overlaps says when it says nothing.
LEMMA NoOverlap ==
  ASSUME TagInv, NEW r \in Requests, NEW t \in Tags, Editing!Overlaps(t, r)
  PROVE  /\ x5' \in BOOLEAN
         /\ x5' = FALSE =>
              x5 = FALSE /\ \A o \in Requests \ {r} : x4[o].pc = "commit" => x4[o].tag # t
<1>1. x5 \in BOOLEAN
  BY DEF TagInv, TagTypes
<1>2. x5' = (x5 \/ \E o \in Editing!Counting \ {r} : x4[o].tag = t)
  BY Zenon DEF Editing!Overlaps
<1>3. x5' \in BOOLEAN /\ (x5' = FALSE => x5 = FALSE /\ ~\E o \in Editing!Counting \ {r} : x4[o].tag = t)
  BY <1>1, <1>2, Zenon
<1>4. Editing!Counting = {o \in Requests : x4[o].pc = "commit"}
  BY DEF Editing!Counting
<1> QED BY <1>3, <1>4

LEMMA CommitMergeKeeps ==
  ASSUME TagInv, NEW r \in Requests, Editing!CommitMerge(r) PROVE TagInv'
<1> DEFINE t == x4[r].tag
           gone == x4[r].sources
           moved == x4[r].moved
<1>0. TagTypes /\ TagLinks /\ TagTasks
  BY DEF TagInv
<1>1. /\ x4[r].pc = "commit" /\ x4' = [x4 EXCEPT ![r] = Editing!NoTask] /\ Editing!Overlaps(t, r)
      /\ \/ /\ x1[t] # None
            /\ x1' = [u \in Tags |-> IF u \in gone THEN None ELSE x1[u]]
            /\ x3' = [u \in Tags |-> IF u = t THEN x4[r].count
                                     ELSE IF u \in gone THEN 0 ELSE x3[u]]
            /\ x2' = {l \in x2 : l[2] \notin gone} \union moved \X {t}
         \/ x1' = x1 /\ x2' = x2 /\ x3' = x3
  BY DEF Editing!CommitMerge, Editing!Finish, Editing!Exists
<1>2. /\ t \in Tags /\ t \notin gone /\ moved \subseteq TaggedCourses /\ x4[r].count \in Nat
      /\ x4[r] \in TagTask
  BY <1>0, <1>1 DEF TagTasks, TagTypes, TagTask
<1>3. /\ x5' \in BOOLEAN
      /\ x5' = FALSE =>
           x5 = FALSE /\ \A o \in Requests \ {r} : x4[o].pc = "commit" => x4[o].tag # t
  BY <1>1, <1>2, NoOverlap
<1>4. x4'[r].pc = "idle"
  BY <1>0, <1>1, TagNoTask DEF TagTypes
<1> HIDE DEF t, gone, moved
<1>5. CASE x1' = x1 /\ x2' = x2 /\ x3' = x3
  <2>1. x1' \in [Tags -> Slugs \union {None}] /\ x3' \in [Tags -> Nat] /\ x2' \subseteq TaggedCourses \X Tags
    BY <1>0, <1>5 DEF TagTypes
  <2>2. TagLinks'
    BY <1>0, <1>5 DEF TagLinks
  <2>3. ASSUME TagCounts PROVE \A u \in Tags : x3'[u] = Cardinality(AttachedIn(x2', u))
    BY <1>5, <2>3 DEF TagCounts
  <2>4. ASSUME NEW o \in Requests, x5' = FALSE, x4'[o].pc = "commit", x4'[o] = x4[o], x4[o].tag \in Tags,
               x1'[x4[o].tag] # None
        PROVE  x1[x4[o].tag] # None /\ AttachedIn(x2', x4[o].tag) = AttachedIn(x2, x4[o].tag)
    BY <1>5, <2>4
  <2> QED BY <1>1, <1>3, <2>1, <2>2, <2>3, <2>4, TagWrites
<1>6. CASE /\ x1[t] # None
           /\ x1' = [u \in Tags |-> IF u \in gone THEN None ELSE x1[u]]
           /\ x3' = [u \in Tags |-> IF u = t THEN x4[r].count
                                    ELSE IF u \in gone THEN 0 ELSE x3[u]]
           /\ x2' = {l \in x2 : l[2] \notin gone} \union moved \X {t}
  <2>1. x1' \in [Tags -> Slugs \union {None}] /\ x3' \in [Tags -> Nat]
    BY <1>0, <1>2, <1>6 DEF TagTypes
  <2>2. x2' \subseteq TaggedCourses \X Tags
    BY <1>0, <1>2, <1>6 DEF TagTypes
  <2>3. \A c \in TaggedCourses, u \in Tags :
          <<c, u>> \in x2' <=> (<<c, u>> \in x2 /\ u \notin gone) \/ (u = t /\ c \in moved)
    BY <1>6
  <2>4. TagLinks'
    BY <1>0, <1>2, <1>6, <2>3 DEF TagLinks, TagTypes
  <2>5. /\ AttachedIn(x2', t) = AttachedIn(x2, t) \union moved
        /\ \A u \in gone \cap Tags : AttachedIn(x2', u) = {}
        /\ \A u \in Tags : u # t /\ u \notin gone => AttachedIn(x2', u) = AttachedIn(x2, u)
    BY <1>2, <2>3 DEF AttachedIn
  <2>6. ASSUME TagCounts PROVE \A u \in Tags : x3'[u] = Cardinality(AttachedIn(x2', u))
    <3>1. x4[r].count = Cardinality(AttachedIn(x2, t) \union moved)
      BY <1>1, <1>6, <2>6 DEF TagCounts, t, moved
    <3>2. Cardinality({}) = 0
      BY FS_EmptySet
    <3> QED BY <1>2, <1>6, <2>5, <2>6, <3>1, <3>2 DEF TagCounts
  <2>7. ASSUME NEW o \in Requests, x5' = FALSE, x4'[o].pc = "commit", x4'[o] = x4[o], x4[o].tag \in Tags,
               x1'[x4[o].tag] # None
        PROVE  x1[x4[o].tag] # None /\ AttachedIn(x2', x4[o].tag) = AttachedIn(x2, x4[o].tag)
    <3>1. o # r /\ x4[o].pc = "commit"
      BY <1>4, <2>7
    <3>2. x4[o].tag # t /\ x4[o].tag \notin gone
      BY <1>3, <1>6, <2>7, <3>1
    <3> QED BY <1>6, <2>5, <2>7, <3>2
  <2>8. x5' = FALSE => x5 = FALSE
    BY <1>3
  <2>9. \E q \in Requests : x4' = [x4 EXCEPT ![q] = Editing!NoTask]
    BY <1>1
  <2> QED BY <1>3, <2>1, <2>2, <2>4, <2>6, <2>7, <2>8, <2>9, TagWrites
<1> QED BY <1>1, <1>5, <1>6

\* One link of a tag is written or deleted, and counted.
LEMMA LinkKeeps ==
  ASSUME TagInv, NEW r \in Requests, NEW t \in Tags, NEW c \in TaggedCourses,
         x4[r].pc \in {"attach", "detach"}, x4' = [x4 EXCEPT ![r] = Editing!NoTask], x1' = x1,
         Editing!Overlaps(t, r),
         \/ /\ x1[t] # None /\ <<c, t>> \notin x2 /\ x2' = x2 \union {<<c, t>>}
            /\ x3' = [x3 EXCEPT ![t] = @ + 1]
         \/ /\ <<c, t>> \in x2 /\ x2' = x2 \ {<<c, t>>}
            /\ x3' = [x3 EXCEPT ![t] = IF @ > 0 THEN @ - 1 ELSE 0]
  PROVE  TagInv'
<1>0. TagTypes /\ TagLinks /\ TagTasks
  BY DEF TagInv
<1>1. /\ x5' \in BOOLEAN
      /\ x5' = FALSE =>
           x5 = FALSE /\ \A o \in Requests \ {r} : x4[o].pc = "commit" => x4[o].tag # t
  BY NoOverlap
<1>2. x3[t] \in Nat /\ x3' \in [Tags -> Nat] /\ \A u \in Tags \ {t} : x3'[u] = x3[u]
  BY <1>0 DEF TagTypes
<1>3. x1' \in [Tags -> Slugs \union {None}] /\ x2' \subseteq TaggedCourses \X Tags
  BY <1>0 DEF TagTypes
<1>4. \A u \in Tags : u # t => AttachedIn(x2', u) = AttachedIn(x2, u)
  BY DEF AttachedIn
<1>5. TagLinks'
  BY <1>0 DEF TagLinks
<1>6. ASSUME TagCounts PROVE \A u \in Tags : x3'[u] = Cardinality(AttachedIn(x2', u))
  <2>0. /\ IsFiniteSet(AttachedIn(x2, t)) /\ Cardinality(AttachedIn(x2, t)) \in Nat
        /\ x3[t] = Cardinality(AttachedIn(x2, t))
    <3>1. AttachedIn(x2, t) \subseteq TaggedCourses
      BY DEF AttachedIn
    <3> QED BY <1>6, <3>1, AttachedCounted DEF TagCounts
  <2>1. x3'[t] = Cardinality(AttachedIn(x2', t))
    <3>1. CASE /\ <<c, t>> \notin x2 /\ x2' = x2 \union {<<c, t>>}
               /\ x3' = [x3 EXCEPT ![t] = @ + 1]
      <4>1. AttachedIn(x2', t) = AttachedIn(x2, t) \union {c} /\ c \notin AttachedIn(x2, t)
        BY <3>1 DEF AttachedIn
      <4>2. Cardinality(AttachedIn(x2, t) \union {c}) = Cardinality(AttachedIn(x2, t)) + 1
        BY <2>0, <4>1, FS_AddElement
      <4>3. x3'[t] = x3[t] + 1
        BY <1>0, <3>1 DEF TagTypes
      <4> QED BY <2>0, <4>1, <4>2, <4>3
    <3>2. CASE /\ <<c, t>> \in x2 /\ x2' = x2 \ {<<c, t>>}
               /\ x3' = [x3 EXCEPT ![t] = IF @ > 0 THEN @ - 1 ELSE 0]
      <4>1. AttachedIn(x2', t) = AttachedIn(x2, t) \ {c} /\ c \in AttachedIn(x2, t)
        BY <3>2 DEF AttachedIn
      <4>2. Cardinality(AttachedIn(x2, t) \ {c}) = Cardinality(AttachedIn(x2, t)) - 1
        BY <2>0, <4>1, FS_RemoveElement
      <4>3. Cardinality(AttachedIn(x2, t)) # 0
        BY <2>0, <4>1, FS_EmptySet
      <4>4. x3'[t] = x3[t] - 1
        BY <1>0, <2>0, <3>2, <4>3 DEF TagTypes
      <4> QED BY <2>0, <4>1, <4>2, <4>4
    <3> QED BY <3>1, <3>2
  <2> QED BY <1>2, <1>4, <1>6, <2>1 DEF TagCounts
<1>7. ASSUME NEW o \in Requests, x5' = FALSE, x4'[o].pc = "commit", x4'[o] = x4[o], x4[o].tag \in Tags,
             x1'[x4[o].tag] # None
      PROVE  x1[x4[o].tag] # None /\ AttachedIn(x2', x4[o].tag) = AttachedIn(x2, x4[o].tag)
  <2>1. o # r /\ x4[o].pc = "commit"
    BY <1>7
  <2>2. x4[o].tag # t
    BY <1>1, <1>7, <2>1
  <2> QED BY <1>4, <1>7, <2>2
<1>8. x5' = FALSE => x5 = FALSE
  BY <1>1
<1>9. \E q \in Requests : x4' = [x4 EXCEPT ![q] = Editing!NoTask]
  OBVIOUS
<1> QED BY <1>1, <1>2, <1>3, <1>5, <1>6, <1>7, <1>8, <1>9, TagWrites

LEMMA TagLinksKeep ==
  ASSUME TagInv, NEW r \in Requests, Editing!Attach(r) \/ Editing!Detach(r)
  PROVE  TagInv'
<1> DEFINE t == x4[r].tag
           c == x4[r].course
<1>0. TagTypes /\ TagTasks
  BY DEF TagInv
<1>1. /\ x4[r].pc \in {"attach", "detach"} /\ x4' = [x4 EXCEPT ![r] = Editing!NoTask] /\ x1' = x1
      /\ \/ x2' = x2 /\ x3' = x3 /\ x5' = x5
         \/ /\ Editing!Overlaps(t, r) /\ x1[t] # None /\ <<c, t>> \notin x2
            /\ x2' = x2 \union {<<c, t>>} /\ x3' = [x3 EXCEPT ![t] = @ + 1]
         \/ /\ Editing!Overlaps(t, r) /\ <<c, t>> \in x2 /\ x2' = x2 \ {<<c, t>>}
            /\ x3' = [x3 EXCEPT ![t] = IF @ > 0 THEN @ - 1 ELSE 0]
  BY DEF Editing!Attach, Editing!Detach, Editing!Finish, Editing!Exists
<1>2. t \in Tags /\ c \in TaggedCourses
  BY <1>0, <1>1 DEF TagTasks
<1> HIDE DEF t, c
<1>3. CASE x2' = x2 /\ x3' = x3 /\ x5' = x5
  <2>1. PICK new \in TagTask : x4' = [x4 EXCEPT ![r] = new] /\ new.pc = "idle"
    BY <1>1, TagNoTask
  <2> QED BY <1>1, <1>3, <2>1, TagMoves
<1>4. CASE ~(x2' = x2 /\ x3' = x3 /\ x5' = x5)
  <2>1. /\ Editing!Overlaps(t, r)
        /\ \/ /\ x1[t] # None /\ <<c, t>> \notin x2 /\ x2' = x2 \union {<<c, t>>}
              /\ x3' = [x3 EXCEPT ![t] = @ + 1]
           \/ /\ <<c, t>> \in x2 /\ x2' = x2 \ {<<c, t>>}
              /\ x3' = [x3 EXCEPT ![t] = IF @ > 0 THEN @ - 1 ELSE 0]
    BY <1>1, <1>4, Zenon
  <2> QED BY <1>1, <1>2, <2>1, LinkKeeps, Zenon
<1> QED BY <1>3, <1>4

LEMMA TagStepKeeps == ASSUME TagInv, Editing!TagStep PROVE TagInv'
<1>1. ASSUME NEW t \in Tags, NEW s \in Slugs, Editing!Create(t, s) \/ Editing!Rename(t, s)
      PROVE  TagInv'
  BY <1>1, CreateTagKeeps, RenameTagKeeps
<1>2. ASSUME NEW t \in Tags, Editing!RemoveTag(t) PROVE TagInv'
  BY <1>2, RemoveTagKeeps
<1>3. ASSUME NEW t \in Tags, NEW r \in Requests, Editing!StartMerge(r, t) PROVE TagInv'
  BY <1>3, StartMergeKeeps
<1>4. ASSUME NEW t \in Tags, NEW r \in Requests, NEW c \in TaggedCourses,
             NEW pc \in {"attach", "detach"}, Editing!StartLink(r, pc, c, t)
      PROVE  TagInv'
  BY <1>4, StartLinkKeeps
<1>5. ASSUME NEW r \in Requests,
             \/ Editing!CountLinks(r) \/ Editing!CommitMerge(r)
             \/ Editing!Attach(r) \/ Editing!Detach(r)
      PROVE  TagInv'
  BY <1>5, CountLinksKeeps, CommitMergeKeeps, TagLinksKeep
<1> QED BY <1>1, <1>2, <1>3, <1>4, <1>5 DEF Editing!TagStep

------------------------------------------------------------------------------
(***************************************************************************)
(* CourseEditing, the draft: x6 are its rows, x7 the tabs, x8 the saves,   *)
(* x9, x10 and x11 say that saves overlapped, that one named no version    *)
(* and that the draft was begun again, x12 that a save was replaced        *)
(* unseen.  Otherwise there is one row at most, and a tab that knows the   *)
(* version of the row knows what it holds.                                 *)
(***************************************************************************)
DraftRow == [version : 1 .. MaxSaves, save : 1 .. MaxSaves]
TabType ==
  [version : 0 .. MaxSaves, save : 0 .. MaxSaves, pc : {"idle", "save"},
   row : DraftIds \union {None}, read : 0 .. MaxSaves]
DraftTypes ==
  /\ x6 \in [DraftIds -> DraftRow \union {None}] /\ x7 \in [Users -> TabType]
  /\ x8 \in 0 .. MaxSaves /\ x9 \in BOOLEAN /\ x10 \in BOOLEAN /\ x11 \in BOOLEAN
  /\ x12 \in BOOLEAN
DraftVersions ==
  /\ \A d \in DraftIds : x6[d] # None => x6[d].version <= x8
  /\ \A w \in Users : x7[w].read <= x8
DraftOne ==
  /\ \A d, e \in DraftIds : x6[d] # None /\ x6[e] # None => d = e
  /\ \A v, w \in Users : x7[v].pc = "save" /\ x7[w].pc = "save" => v = w
DraftSeen ==
  \A w \in Users :
    /\ x7[w].version > 0 => \E d \in DraftIds : x6[d] # None
    /\ \A d \in DraftIds :
         x6[d] # None =>
           /\ x7[w].version <= x6[d].version
           /\ x7[w].version = x6[d].version => x7[w].save = x6[d].save
DraftSaving ==
  \A w \in Users :
    x7[w].pc = "save" =>
      \/ x7[w].row = None /\ \A d \in DraftIds : x6[d] = None
      \/ /\ x7[w].row \in DraftIds /\ x6[x7[w].row] # None
         /\ x7[w].read = x6[x7[w].row].version /\ x7[w].version = x7[w].read
DraftInv ==
  /\ DraftTypes /\ DraftVersions
  /\ x9 = FALSE /\ x10 = FALSE /\ x11 = FALSE =>
       x12 = FALSE /\ DraftOne /\ DraftSeen /\ DraftSaving

LEMMA DraftRowIs ==
  ASSUME NEW v \in 1 .. MaxSaves, NEW s \in 1 .. MaxSaves
  PROVE  LET row == [version |-> v, save |-> s]
         IN  row \in DraftRow /\ row # None /\ row.version = v /\ row.save = s
<1> DEFINE row == [version |-> v, save |-> s]
<1>1. row \in DraftRow /\ row.version = v /\ row.save = s
  BY DEF DraftRow
<1>2. v \in Nat /\ s \in Nat
  BY EditingBounds
<1>3. row \in [version : Nat, save : Nat]
  BY <1>2
<1>4. row # None
  <2> HIDE DEF row
  <2> QED BY <1>3, EditingBounds
<1> HIDE DEF row
<1>5. row \in DraftRow /\ row # None /\ row.version = v /\ row.save = s
  BY <1>1, <1>4
<1> QED BY <1>5, Zenon DEF row

LEMMA NoTabIs ==
  /\ Editing!NoTab \in TabType /\ Editing!NoTab.pc = "idle" /\ Editing!NoTab.version = 0
  /\ Editing!NoTab.read = 0 /\ Editing!NoTab.save = 0 /\ Editing!NoTab.row = None
<1>1. 0 \in 0 .. MaxSaves
  BY EditingBounds
<1> QED BY <1>1 DEF Editing!NoTab, TabType

LEMMA DraftInitially == Editing!Init => DraftInv
<1> SUFFICES ASSUME Editing!Init PROVE DraftInv
  OBVIOUS
<1>1. /\ x6 = [d \in DraftIds |-> None] /\ x7 = [w \in Users |-> Editing!NoTab] /\ x8 = 0
      /\ x9 = FALSE /\ x10 = FALSE /\ x11 = FALSE /\ x12 = FALSE
  BY Zenon DEF Editing!Init
<1>2. DraftTypes
  <2>1. x9 \in BOOLEAN /\ x10 \in BOOLEAN /\ x11 \in BOOLEAN /\ x12 \in BOOLEAN
    BY <1>1, Zenon
  <2>2. x6 \in [DraftIds -> DraftRow \union {None}] /\ x7 \in [Users -> TabType]
    BY <1>1, NoTabIs
  <2>3. x8 \in 0 .. MaxSaves
    BY <1>1, EditingBounds
  <2> QED BY <2>1, <2>2, <2>3, Zenon DEF DraftTypes
<1>3. /\ \A d \in DraftIds : x6[d] = None
      /\ \A w \in Users : x7[w].pc = "idle" /\ x7[w].version = 0 /\ x7[w].read = 0
  BY <1>1, NoTabIs
<1>4. DraftVersions /\ DraftOne /\ DraftSeen /\ DraftSaving
  BY <1>1, <1>3 DEF DraftVersions, DraftOne, DraftSeen, DraftSaving
<1> QED BY <1>1, <1>2, <1>4 DEF DraftInv

LEMMA TabMoved ==
  ASSUME DraftTypes, NEW w \in Users, NEW new \in TabType, x7' = [x7 EXCEPT ![w] = new]
  PROVE  x7' \in [Users -> TabType] /\ x7'[w] = new /\ \A v \in Users : v # w => x7'[v] = x7[v]
BY DEF DraftTypes

\* A tab reads a row, or begins to save.
LEMMA OpenKeeps == ASSUME DraftInv, NEW w \in Users, Editing!Open(w) PROVE DraftInv'
<1>0. DraftTypes /\ DraftVersions
  BY DEF DraftInv
<1>1. /\ x7[w].pc = "idle" /\ x6' = x6 /\ x8' = x8 /\ x9' = x9 /\ x10' = x10 /\ x11' = x11
      /\ x12' = x12
  BY DEF Editing!Open
<1>2. PICK d \in DraftIds :
        /\ x6[d] # None
        /\ x7' = [x7 EXCEPT ![w] = [@ EXCEPT !.version = x6[d].version, !.save = x6[d].save]]
  BY DEF Editing!Open, Editing!Rows
<1>3. x6[d] \in DraftRow /\ x7[w] \in TabType
  BY <1>0, <1>2 DEF DraftTypes
<1>4. x6[d].version \in 0 .. MaxSaves /\ x6[d].save \in 0 .. MaxSaves
  BY <1>3, EditingBounds DEF DraftRow
<1>5. PICK new \in TabType :
        /\ x7' = [x7 EXCEPT ![w] = new] /\ new.version = x6[d].version /\ new.save = x6[d].save
        /\ new.pc = "idle" /\ new.read = x7[w].read
  <2> DEFINE n1 == [x7[w] EXCEPT !.version = x6[d].version]
             n2 == [n1 EXCEPT !.save = x6[d].save]
  <2>1. x7' = [x7 EXCEPT ![w] = n2]
    <3>1. [x7[w] EXCEPT !.version = x6[d].version, !.save = x6[d].save] = n2
      BY Zenon
    <3>2. x7' = [x7 EXCEPT ![w] = [x7[w] EXCEPT !.version = x6[d].version, !.save = x6[d].save]]
      BY <1>0, <1>2 DEF DraftTypes
    <3> QED BY <3>1, <3>2
  <2>2. n1 \in TabType /\ n1.version = x6[d].version /\ n1.pc = "idle" /\ n1.read = x7[w].read
    BY <1>1, <1>3, <1>4 DEF TabType
  <2> HIDE DEF n1
  <2>3. /\ n2 \in TabType /\ n2.version = x6[d].version /\ n2.save = x6[d].save
        /\ n2.pc = "idle" /\ n2.read = x7[w].read
    BY <1>4, <2>2 DEF TabType
  <2> HIDE DEF n2
  <2> QED BY <2>1, <2>3
<1>6. x7' \in [Users -> TabType] /\ x7'[w] = new /\ \A v \in Users : v # w => x7'[v] = x7[v]
  BY <1>0, <1>5, TabMoved
<1>7. DraftTypes'
  BY <1>0, <1>1, <1>6, Zenon DEF DraftTypes
<1>8. DraftVersions'
  BY <1>0, <1>1, <1>5, <1>6 DEF DraftVersions
<1>9. ASSUME x9' = FALSE, x10' = FALSE, x11' = FALSE
      PROVE  x12' = FALSE /\ DraftOne' /\ DraftSeen' /\ DraftSaving'
  <2>1. x12 = FALSE /\ DraftOne /\ DraftSeen /\ DraftSaving
    BY <1>1, <1>9 DEF DraftInv
  <2>2. \A e \in DraftIds : x6[e] # None => e = d
    BY <1>2, <2>1 DEF DraftOne
  <2>3. DraftOne'
    BY <1>1, <1>5, <1>6, <2>1 DEF DraftOne
  <2>4. x6[d].version \in Int
    BY <1>4, EditingBounds
  <2>5. DraftSeen'
    <3> SUFFICES ASSUME NEW v \in Users
                 PROVE  /\ x7'[v].version > 0 => \E e \in DraftIds : x6'[e] # None
                        /\ \A e \in DraftIds :
                             x6'[e] # None =>
                               /\ x7'[v].version <= x6'[e].version
                               /\ x7'[v].version = x6'[e].version => x7'[v].save = x6'[e].save
      BY DEF DraftSeen
    <3>1. CASE v = w
      BY <1>1, <1>2, <1>5, <1>6, <2>2, <2>4, <3>1
    <3>2. CASE v # w
      BY <1>1, <1>6, <2>1, <3>2 DEF DraftSeen
    <3> QED BY <3>1, <3>2
  <2>6. DraftSaving'
    BY <1>1, <1>5, <1>6, <2>1 DEF DraftSaving
  <2> QED BY <1>1, <2>1, <2>3, <2>5, <2>6
<1> QED BY <1>7, <1>8, <1>9 DEF DraftInv

LEMMA StartSaveKeeps == ASSUME DraftInv, NEW w \in Users, Editing!StartSave(w) PROVE DraftInv'
<1>0. DraftTypes /\ DraftVersions /\ x7[w] \in TabType
  BY DEF DraftInv, DraftTypes
<1>1. x7[w].pc = "idle" /\ x6' = x6 /\ x8' = x8 /\ x11' = x11 /\ x12' = x12
  BY DEF Editing!StartSave
<1>2. /\ x9' \in BOOLEAN
      /\ x9' = FALSE => x9 = FALSE /\ \A v \in Users \ {w} : x7[v].pc # "save"
  BY <1>0, Zenon DEF Editing!StartSave, DraftTypes
<1>3. /\ x10' \in BOOLEAN /\ (x10' = FALSE => x10 = FALSE)
  BY <1>0, Zenon DEF Editing!StartSave, DraftTypes
<1>4. \/ /\ \A d \in DraftIds : x6[d] = None
         /\ x7' = [x7 EXCEPT ![w] = [@ EXCEPT !.pc = "save", !.row = None]]
      \/ \E d \in DraftIds :
           /\ x6[d] # None /\ (x10' = FALSE => x7[w].version = x6[d].version)
           /\ x7' = [x7 EXCEPT ![w] = [@ EXCEPT !.pc = "save", !.row = d,
                                                !.read = x6[d].version]]
  <2>1. \/ Editing!Rows = {} /\ x7' = [x7 EXCEPT ![w] = [@ EXCEPT !.pc = "save", !.row = None]]
        \/ \E d \in Editing!Rows, given \in BOOLEAN :
             /\ given => Editing!Current(w, d)
             /\ x10' = (x10 \/ ~given)
             /\ x7' = [x7 EXCEPT ![w] = [@ EXCEPT !.pc = "save", !.row = d,
                                                  !.read = x6[d].version]]
    BY Zenon DEF Editing!StartSave
  <2>2. CASE Editing!Rows = {} /\ x7' = [x7 EXCEPT ![w] = [@ EXCEPT !.pc = "save", !.row = None]]
    BY <2>2 DEF Editing!Rows
  <2>3. ASSUME NEW d \in Editing!Rows, NEW given \in BOOLEAN,
               /\ given => Editing!Current(w, d)
               /\ x10' = (x10 \/ ~given)
               /\ x7' = [x7 EXCEPT ![w] = [@ EXCEPT !.pc = "save", !.row = d,
                                                    !.read = x6[d].version]]
        PROVE  \E e \in DraftIds :
                 /\ x6[e] # None /\ (x10' = FALSE => x7[w].version = x6[e].version)
                 /\ x7' = [x7 EXCEPT ![w] = [@ EXCEPT !.pc = "save", !.row = e,
                                                      !.read = x6[e].version]]
    <3>1. x10' = FALSE => given
      BY <1>0, <2>3, Zenon DEF DraftTypes
    <3>2. x10' = FALSE => x7[w].version = x6[d].version
      BY <2>3, <3>1, Zenon DEF Editing!Current
    <3>3. d \in DraftIds /\ x6[d] # None
      BY DEF Editing!Rows
    <3> QED BY <2>3, <3>2, <3>3
  <2> QED BY <2>1, <2>2, <2>3
<1>5. PICK new \in TabType :
        /\ x7' = [x7 EXCEPT ![w] = new] /\ new.pc = "save" /\ new.version = x7[w].version
        /\ new.save = x7[w].save
        /\ \/ /\ new.row = None /\ (\A d \in DraftIds : x6[d] = None) /\ new.read = x7[w].read
           \/ /\ new.row \in DraftIds /\ x6[new.row] # None /\ new.read = x6[new.row].version
              /\ x10' = FALSE => x7[w].version = x6[new.row].version
  <2> DEFINE n1 == [x7[w] EXCEPT !.pc = "save"]
  <2>1. n1 \in TabType /\ n1.pc = "save" /\ n1.version = x7[w].version /\ n1.save = x7[w].save
        /\ n1.read = x7[w].read
    BY <1>0 DEF TabType
  <2>2. CASE /\ \A d \in DraftIds : x6[d] = None
             /\ x7' = [x7 EXCEPT ![w] = [@ EXCEPT !.pc = "save", !.row = None]]
    <3> DEFINE n2 == [n1 EXCEPT !.row = None]
    <3>1. [x7[w] EXCEPT !.pc = "save", !.row = None] = n2
      BY Zenon
    <3>2. x7' = [x7 EXCEPT ![w] = [x7[w] EXCEPT !.pc = "save", !.row = None]]
      BY <1>0, <2>2 DEF DraftTypes
    <3> HIDE DEF n1
    <3>3. /\ n2 \in TabType /\ n2.pc = "save" /\ n2.version = x7[w].version
          /\ n2.save = x7[w].save /\ n2.read = x7[w].read /\ n2.row = None
      BY <2>1 DEF TabType
    <3> HIDE DEF n2
    <3> QED BY <2>2, <3>1, <3>2, <3>3
  <2>3. ASSUME NEW d \in DraftIds,
               /\ x6[d] # None /\ (x10' = FALSE => x7[w].version = x6[d].version)
               /\ x7' = [x7 EXCEPT ![w] = [@ EXCEPT !.pc = "save", !.row = d,
                                                    !.read = x6[d].version]]
        PROVE  \E n \in TabType :
                 /\ x7' = [x7 EXCEPT ![w] = n] /\ n.pc = "save" /\ n.version = x7[w].version
                 /\ n.save = x7[w].save
                 /\ n.row \in DraftIds /\ x6[n.row] # None /\ n.read = x6[n.row].version
                 /\ x10' = FALSE => x7[w].version = x6[n.row].version
    <3> DEFINE n2 == [n1 EXCEPT !.row = d]
               n3 == [n2 EXCEPT !.read = x6[d].version]
    <3>1. [x7[w] EXCEPT !.pc = "save", !.row = d, !.read = x6[d].version] = n3
      BY Zenon
    <3>2. x7' = [x7 EXCEPT ![w] = [x7[w] EXCEPT !.pc = "save", !.row = d,
                                                !.read = x6[d].version]]
      BY <1>0, <2>3 DEF DraftTypes
    <3>3. x6[d].version \in 0 .. MaxSaves
      <4>1. x6[d] \in DraftRow
        BY <1>0, <2>3 DEF DraftTypes
      <4> QED BY <4>1, EditingBounds DEF DraftRow
    <3> HIDE DEF n1
    <3>4. /\ n2 \in TabType /\ n2.pc = "save" /\ n2.version = x7[w].version
          /\ n2.save = x7[w].save /\ n2.row = d
      BY <2>1 DEF TabType
    <3> HIDE DEF n2
    <3>5. /\ n3 \in TabType /\ n3.pc = "save" /\ n3.version = x7[w].version
          /\ n3.save = x7[w].save /\ n3.row = d /\ n3.read = x6[d].version
      BY <3>3, <3>4 DEF TabType
    <3> HIDE DEF n3
    <3> QED BY <2>3, <3>1, <3>2, <3>5
  <2> QED BY <1>4, <2>2, <2>3
<1>6. x7' \in [Users -> TabType] /\ x7'[w] = new /\ \A v \in Users : v # w => x7'[v] = x7[v]
  BY <1>0, <1>5, TabMoved
<1>7. DraftTypes'
  <2>1. x11' \in BOOLEAN /\ x12' \in BOOLEAN
    BY <1>0, <1>1, Zenon DEF DraftTypes
  <2> QED BY <1>0, <1>1, <1>2, <1>3, <1>6, <2>1, Zenon DEF DraftTypes
<1>8. DraftVersions'
  <2>1. new.read <= x8
    BY <1>0, <1>5 DEF DraftVersions
  <2> QED BY <1>0, <1>1, <1>6, <2>1 DEF DraftVersions
<1>9. ASSUME x9' = FALSE, x10' = FALSE, x11' = FALSE
      PROVE  x12' = FALSE /\ DraftOne' /\ DraftSeen' /\ DraftSaving'
  <2>1. x12 = FALSE /\ DraftOne /\ DraftSeen /\ DraftSaving
    BY <1>1, <1>2, <1>3, <1>9 DEF DraftInv
  <2>2. \A v \in Users : x7'[v].pc = "save" => v = w
    BY <1>2, <1>6, <1>9
  <2>3. DraftOne'
    BY <1>1, <2>1, <2>2 DEF DraftOne
  <2>4. DraftSeen'
    BY <1>1, <1>5, <1>6, <2>1 DEF DraftSeen
  <2>5. DraftSaving'
    BY <1>1, <1>5, <1>6, <1>9, <2>2 DEF DraftSaving
  <2> QED BY <1>1, <2>1, <2>3, <2>4, <2>5
<1> QED BY <1>7, <1>8, <1>9 DEF DraftInv

SavedAs(v, s) == [Editing!NoTab EXCEPT !.version = v, !.save = s]

LEMMA SavedTab ==
  ASSUME NEW v \in 0 .. MaxSaves, NEW s \in 0 .. MaxSaves
  PROVE  /\ SavedAs(v, s) \in TabType /\ SavedAs(v, s).version = v /\ SavedAs(v, s).save = s
         /\ SavedAs(v, s).pc = "idle" /\ SavedAs(v, s).read = 0
<1> DEFINE tab == SavedAs(v, s)
           n1 == [Editing!NoTab EXCEPT !.version = v]
           n2 == [n1 EXCEPT !.save = s]
<1>1. n1 \in TabType /\ n1.version = v /\ n1.pc = "idle" /\ n1.read = 0
  BY NoTabIs DEF TabType
<1>2. tab = n2
  BY Zenon DEF SavedAs
<1> HIDE DEF n1
<1>3. n2 \in TabType /\ n2.version = v /\ n2.save = s /\ n2.pc = "idle" /\ n2.read = 0
  BY <1>1 DEF TabType
<1> HIDE DEF n2, tab
<1>4. tab \in TabType /\ tab.version = v /\ tab.save = s /\ tab.pc = "idle" /\ tab.read = 0
  BY <1>2, <1>3
<1> QED BY <1>4, Zenon DEF tab

\* A new version of a row, and the tab that saved it.
LEMMA DraftStored ==
  ASSUME DraftInv, NEW w \in Users, NEW d \in DraftIds, NEW v \in 1 .. MaxSaves,
         NEW row \in DraftRow, NEW new \in TabType,
         row # None, row.version = v, row.save = x8 + 1,
         new.version = v, new.save = x8 + 1, new.pc = "idle", new.read = 0,
         x8 < MaxSaves, v <= x8 + 1, x8' = x8 + 1,
         x6' = [x6 EXCEPT ![d] = row], x7' = [x7 EXCEPT ![w] = new],
         x9' = x9, x10' = x10, x11' = x11, x12' \in BOOLEAN,
         x9 = FALSE /\ x10 = FALSE /\ x11 = FALSE =>
           /\ x12' = FALSE
           /\ x7[w].pc = "save"
           /\ \A e \in DraftIds : x6[e] # None => e = d
           /\ x6[d] # None => v = x6[d].version + 1
  PROVE  DraftInv'
<1>0. DraftTypes /\ DraftVersions
  BY DEF DraftInv
<1>1. x8 \in Nat /\ x8 + 1 \in 1 .. MaxSaves /\ x8 + 1 \in 0 .. MaxSaves /\ v \in 0 .. MaxSaves
  BY <1>0, EditingBounds DEF DraftTypes
<1>2. row # None /\ row.version = v /\ row.save = x8 + 1
  OBVIOUS
<1>3. new.version = v /\ new.save = x8 + 1 /\ new.pc = "idle" /\ new.read = 0
  OBVIOUS
<1>4. x7' \in [Users -> TabType] /\ x7'[w] = new /\ \A u \in Users : u # w => x7'[u] = x7[u]
  BY <1>0, TabMoved
<1>5. /\ x6' \in [DraftIds -> DraftRow \union {None}] /\ x6'[d] = row
      /\ \A e \in DraftIds : e # d => x6'[e] = x6[e]
  BY <1>0, <1>2 DEF DraftTypes
<1>6. DraftTypes'
  <2>1. x9' \in BOOLEAN /\ x10' \in BOOLEAN /\ x11' \in BOOLEAN /\ x12' \in BOOLEAN
    BY <1>0, Zenon DEF DraftTypes
  <2>2. x8' \in 0 .. MaxSaves
    BY <1>1
  <2> QED BY <1>4, <1>5, <2>1, <2>2, Zenon DEF DraftTypes
<1>7. DraftVersions'
  <2>1. ASSUME NEW e \in DraftIds, x6'[e] # None PROVE x6'[e].version <= x8'
    <3>1. CASE e = d
      BY <1>1, <1>2, <1>5, <3>1
    <3>2. CASE e # d
      <4>1. x6[e] \in DraftRow /\ x6[e].version <= x8 /\ x6'[e] = x6[e]
        BY <1>0, <1>5, <2>1, <3>2 DEF DraftTypes, DraftVersions
      <4>2. x6[e].version \in Int
        BY <4>1, EditingBounds DEF DraftRow
      <4> QED BY <1>1, <4>1, <4>2
    <3> QED BY <3>1, <3>2
  <2>2. ASSUME NEW u \in Users PROVE x7'[u].read <= x8'
    <3>1. CASE u = w
      BY <1>1, <1>3, <1>4, <3>1
    <3>2. CASE u # w
      <4>1. x7[u] \in TabType /\ x7[u].read <= x8 /\ x7'[u] = x7[u]
        BY <1>0, <1>4, <3>2 DEF DraftTypes, DraftVersions
      <4>2. x7[u].read \in Int
        BY <4>1, EditingBounds DEF TabType
      <4> QED BY <1>1, <4>1, <4>2
    <3> QED BY <3>1, <3>2
  <2> QED BY <2>1, <2>2 DEF DraftVersions
<1>8. ASSUME x9' = FALSE, x10' = FALSE, x11' = FALSE
      PROVE  x12' = FALSE /\ DraftOne' /\ DraftSeen' /\ DraftSaving'
  <2>1. DraftOne /\ DraftSeen /\ DraftSaving
    BY <1>8 DEF DraftInv
  <2>2. /\ x12' = FALSE /\ x7[w].pc = "save"
        /\ \A e \in DraftIds : x6[e] # None => e = d
        /\ x6[d] # None => v = x6[d].version + 1
    BY <1>8
  <2>3. \A e \in DraftIds : x6'[e] # None => e = d
    BY <1>5, <2>2
  <2>4. \A u \in Users : x7'[u].pc # "save"
    <3>1. \A u \in Users : x7[u].pc = "save" => u = w
      BY <2>1, <2>2 DEF DraftOne
    <3> QED BY <1>3, <1>4, <3>1
  <2>5. DraftOne' /\ DraftSaving'
    BY <2>3, <2>4 DEF DraftOne, DraftSaving
  <2>6. DraftSeen'
    <3> SUFFICES ASSUME NEW u \in Users
                 PROVE  /\ \E e \in DraftIds : x6'[e] # None
                        /\ \A e \in DraftIds :
                             x6'[e] # None =>
                               /\ x7'[u].version <= x6'[e].version
                               /\ x7'[u].version = x6'[e].version => x7'[u].save = x6'[e].save
      BY DEF DraftSeen
    <3>1. x6'[d] # None /\ x6'[d].version = v /\ x6'[d].save = x8 + 1 /\ v \in Int
      BY <1>1, <1>2, <1>5
    <3>2. CASE u = w
      BY <1>3, <1>4, <2>3, <3>1, <3>2
    <3>3. CASE u # w
      <4>1. x7'[u] = x7[u] /\ x7[u] \in TabType
        BY <1>0, <1>4, <3>3 DEF DraftTypes
      <4>2. x7[u].version \in Int /\ x7[u].version >= 0
        BY <4>1, EditingBounds DEF TabType
      <4>3. x7[u].version < v
        <5>1. CASE x6[d] # None
          <6>1. x6[d] \in DraftRow /\ x7[u].version <= x6[d].version /\ v = x6[d].version + 1
            BY <1>0, <2>1, <2>2, <5>1 DEF DraftTypes, DraftSeen
          <6>2. x6[d].version \in Int
            BY <6>1, EditingBounds DEF DraftRow
          <6> QED BY <4>2, <6>1, <6>2
        <5>2. CASE x6[d] = None
          <6>1. \A e \in DraftIds : x6[e] = None
            BY <2>2, <5>2
          <6>2. ~(x7[u].version > 0)
            BY <2>1, <6>1 DEF DraftSeen
          <6> QED BY <4>2, <6>2, EditingBounds
        <5> QED BY <5>1, <5>2
      <4> QED BY <2>3, <3>1, <4>1, <4>2, <4>3
    <3> QED BY <3>2, <3>3
  <2> QED BY <2>2, <2>5, <2>6
<1> QED BY <1>6, <1>7, <1>8 DEF DraftInv

LEMMA SaveKeeps == ASSUME DraftInv, NEW w \in Users, Editing!Save(w) PROVE DraftInv'
<1> DEFINE d == x7[w].row
<1>0. DraftTypes /\ DraftVersions /\ x7[w] \in TabType
  BY DEF DraftInv, DraftTypes
<1>1. /\ x7[w].pc = "save" /\ d # None /\ x8 < MaxSaves /\ x9' = x9 /\ x10' = x10 /\ x11' = x11
  BY DEF Editing!Save
<1>2. d \in DraftIds
  BY <1>0, <1>1 DEF TabType
<1>3. CASE x6[d] # None
  <2>1. /\ x6' = [x6 EXCEPT ![d] = [version |-> x7[w].read + 1, save |-> x8 + 1]]
        /\ x8' = x8 + 1
    BY <1>3 DEF Editing!Save
  <2>2. x7' = [x7 EXCEPT ![w] = [Editing!NoTab EXCEPT !.version = x7[w].read + 1, !.save = x8 + 1]]
    BY <1>3 DEF Editing!Save
  <2>3. x12' = (x12 \/ x6[d].save # x7[w].save)
    BY <1>3, Zenon DEF Editing!Save
  <2>4. x7[w].read \in Nat /\ x7[w].read <= x8 /\ x8 \in Nat
    BY <1>0, EditingBounds DEF DraftVersions, TabType, DraftTypes
  <2>5. PICK v \in 1 .. MaxSaves : v = x7[w].read + 1
    BY <1>1, <2>4, EditingBounds
  <2>6. x12' \in BOOLEAN
    BY <1>0, <2>3, Zenon DEF DraftTypes
  <2>7. ASSUME x9 = FALSE /\ x10 = FALSE /\ x11 = FALSE
        PROVE  /\ x12' = FALSE
               /\ \A e \in DraftIds : x6[e] # None => e = d
               /\ x6[d] # None => v = x6[d].version + 1
    <3>1. x12 = FALSE /\ DraftOne /\ DraftSeen /\ DraftSaving
      BY <2>7 DEF DraftInv
    <3>2. x7[w].read = x6[d].version /\ x7[w].version = x7[w].read
      BY <1>1, <1>2, <3>1 DEF DraftSaving
    <3>3. x7[w].save = x6[d].save
      BY <1>2, <1>3, <3>1, <3>2 DEF DraftSeen
    <3>4. x12' = FALSE
      BY <2>3, <3>1, <3>3, Zenon
    <3>5. \A e \in DraftIds : x6[e] # None => e = d
      BY <1>2, <1>3, <3>1 DEF DraftOne
    <3> QED BY <2>5, <3>2, <3>4, <3>5
  <2>8. v <= x8 + 1
    BY <2>4, <2>5
  <2> DEFINE r == [version |-> v, save |-> x8 + 1]
             n == [Editing!NoTab EXCEPT !.version = v, !.save = x8 + 1]
  <2>9. x6' = [x6 EXCEPT ![d] = r] /\ x7' = [x7 EXCEPT ![w] = n]
    BY <2>1, <2>2, <2>5
  <2>10. x8 + 1 \in 1 .. MaxSaves /\ x8 + 1 \in 0 .. MaxSaves /\ v \in 0 .. MaxSaves
    BY <1>1, <2>4, EditingBounds
  <2>11. r \in DraftRow /\ r # None /\ r.version = v /\ r.save = x8 + 1
    BY <2>10, DraftRowIs, Zenon
  <2>12. n \in TabType /\ n.version = v /\ n.save = x8 + 1 /\ n.pc = "idle" /\ n.read = 0
    <3>1. n = SavedAs(v, x8 + 1)
      BY Zenon DEF SavedAs
    <3> HIDE DEF n
    <3> QED BY <3>1, <2>10, SavedTab
  <2>13. x8' = x8 + 1
    BY <2>1
  <2> HIDE DEF d, r, n
  <2> QED BY <1>1, <1>2, <2>6, <2>7, <2>8, <2>9, <2>11, <2>12, <2>13, DraftStored
<1>4. CASE x6[d] = None
  <2>1. /\ x6' = x6 /\ x8' = x8
        /\ x7' = [x7 EXCEPT ![w] = [@ EXCEPT !.pc = "idle", !.row = None, !.read = 0]]
    BY <1>4 DEF Editing!Save
  <2>2. x12' = x12
    BY <1>4, Zenon DEF Editing!Save
  <2>3. PICK new \in TabType :
          /\ x7' = [x7 EXCEPT ![w] = new] /\ new.version = x7[w].version
          /\ new.save = x7[w].save /\ new.pc = "idle" /\ new.read = 0
    <3> DEFINE n1 == [x7[w] EXCEPT !.pc = "idle"]
               n2 == [n1 EXCEPT !.row = None]
               n3 == [n2 EXCEPT !.read = 0]
    <3>1. [x7[w] EXCEPT !.pc = "idle", !.row = None, !.read = 0] = n3
      BY Zenon
    <3>2. x7' = [x7 EXCEPT ![w] = [x7[w] EXCEPT !.pc = "idle", !.row = None, !.read = 0]]
      BY <1>0, <2>1 DEF DraftTypes
    <3>3. /\ n1 \in TabType /\ n1.version = x7[w].version /\ n1.save = x7[w].save
          /\ n1.pc = "idle"
      BY <1>0 DEF TabType
    <3> HIDE DEF n1
    <3>4. /\ n2 \in TabType /\ n2.version = x7[w].version /\ n2.save = x7[w].save
          /\ n2.pc = "idle"
      BY <3>3 DEF TabType
    <3> HIDE DEF n2
    <3>5. 0 \in 0 .. MaxSaves
      BY EditingBounds
    <3>6. /\ n3 \in TabType /\ n3.version = x7[w].version /\ n3.save = x7[w].save
          /\ n3.pc = "idle" /\ n3.read = 0
      BY <3>4, <3>5 DEF TabType
    <3> HIDE DEF n3
    <3> QED BY <3>1, <3>2, <3>6
  <2>4. x7' \in [Users -> TabType] /\ x7'[w] = new /\ \A u \in Users : u # w => x7'[u] = x7[u]
    BY <1>0, <2>3, TabMoved
  <2>5. DraftTypes'
    BY <1>0, <1>1, <2>1, <2>2, <2>4, Zenon DEF DraftTypes
  <2>6. 0 <= x8
    BY <1>0, EditingBounds DEF DraftTypes
  <2>7. DraftVersions'
    BY <1>0, <2>1, <2>3, <2>4, <2>6 DEF DraftVersions
  <2>8. ASSUME x9' = FALSE, x10' = FALSE, x11' = FALSE
        PROVE  x12' = FALSE /\ DraftOne' /\ DraftSeen' /\ DraftSaving'
    <3>1. x12 = FALSE /\ DraftOne /\ DraftSeen /\ DraftSaving
      BY <1>1, <2>8 DEF DraftInv
    <3>2. DraftOne'
      BY <2>1, <2>3, <2>4, <3>1 DEF DraftOne
    <3>3. DraftSeen'
      BY <2>1, <2>3, <2>4, <3>1 DEF DraftSeen
    <3>4. DraftSaving'
      BY <2>1, <2>3, <2>4, <3>1 DEF DraftSaving
    <3> QED BY <2>2, <3>1, <3>2, <3>3, <3>4
  <2> QED BY <2>5, <2>7, <2>8 DEF DraftInv
<1> QED BY <1>3, <1>4

LEMMA CreateDraftKeeps == ASSUME DraftInv, NEW w \in Users, Editing!CreateDraft(w) PROVE DraftInv'
<1>0. DraftTypes /\ DraftVersions
  BY DEF DraftInv
<1>1. /\ x7[w].pc = "save" /\ x7[w].row = None /\ x8 < MaxSaves /\ x8' = x8 + 1
      /\ x9' = x9 /\ x10' = x10 /\ x11' = x11 /\ x12' = x12
      /\ x7' = [x7 EXCEPT ![w] = [Editing!NoTab EXCEPT !.version = 1, !.save = x8 + 1]]
  BY DEF Editing!CreateDraft
<1>2. PICK d \in DraftIds : x6' = [x6 EXCEPT ![d] = [version |-> 1, save |-> x8 + 1]]
  BY DEF Editing!CreateDraft, Editing!Fresh
<1>3. x8 \in Nat /\ 1 \in 1 .. MaxSaves /\ 1 <= x8 + 1
  BY <1>0, <1>1, EditingBounds DEF DraftTypes
<1>4. x12' \in BOOLEAN
  BY <1>0, <1>1, Zenon DEF DraftTypes
<1>5. ASSUME x9 = FALSE /\ x10 = FALSE /\ x11 = FALSE
      PROVE  x12' = FALSE /\ \A e \in DraftIds : x6[e] = None
  <2>1. x12 = FALSE /\ DraftSaving
    BY <1>5 DEF DraftInv
  <2>2. \A e \in DraftIds : x6[e] = None
    BY <1>1, <2>1, EditingBounds DEF DraftSaving
  <2> QED BY <1>1, <2>1, <2>2
<1>6. x9 = FALSE /\ x10 = FALSE /\ x11 = FALSE =>
        /\ x12' = FALSE
        /\ x7[w].pc = "save"
        /\ \A e \in DraftIds : x6[e] # None => e = d
        /\ x6[d] # None => 1 = x6[d].version + 1
  BY <1>1, <1>5
<1> DEFINE r == [version |-> 1, save |-> x8 + 1]
           n == [Editing!NoTab EXCEPT !.version = 1, !.save = x8 + 1]
<1>7. x6' = [x6 EXCEPT ![d] = r] /\ x7' = [x7 EXCEPT ![w] = n]
  BY <1>1, <1>2
<1>8. x8 + 1 \in 1 .. MaxSaves /\ x8 + 1 \in 0 .. MaxSaves /\ 1 \in 0 .. MaxSaves
  BY <1>1, <1>3, EditingBounds
<1>9. r \in DraftRow /\ r # None /\ r.version = 1 /\ r.save = x8 + 1
  BY <1>3, <1>8, DraftRowIs, Zenon
<1>10. n \in TabType /\ n.version = 1 /\ n.save = x8 + 1 /\ n.pc = "idle" /\ n.read = 0
  <2>1. n = SavedAs(1, x8 + 1)
    BY Zenon DEF SavedAs
  <2> HIDE DEF n
  <2> QED BY <2>1, <1>8, SavedTab
<1>11. x8 < MaxSaves /\ x8' = x8 + 1 /\ x9' = x9 /\ x10' = x10 /\ x11' = x11
  BY <1>1
<1> HIDE DEF r, n
<1> QED BY <1>3, <1>4, <1>6, <1>7, <1>9, <1>10, <1>11, DraftStored

LEMMA DiscardKeeps ==
  ASSUME DraftInv, NEW gone, Editing!Discard(gone) PROVE DraftInv'
<1>0. DraftTypes /\ DraftVersions
  BY DEF DraftInv
<1>1. /\ x7' = x7 /\ x8' = x8 /\ x9' = x9 /\ x10' = x10 /\ x12' = x12
      /\ x6' = [d \in DraftIds |-> IF d \in gone THEN None ELSE x6[d]]
      /\ \E d \in DraftIds : x6[d] # None
  BY DEF Editing!Discard, Editing!Rows
<1>2. x11' \in BOOLEAN /\ (x11' = FALSE => x11 = FALSE /\ \A w \in Users : ~(x7[w].version > 0))
  BY <1>0, Zenon DEF Editing!Discard, DraftTypes
<1>3. x6' \in [DraftIds -> DraftRow \union {None}]
  BY <1>0, <1>1 DEF DraftTypes
<1>4. DraftTypes'
  BY <1>0, <1>1, <1>2, <1>3, Zenon DEF DraftTypes
<1>5. \A d \in DraftIds : x6'[d] # None => x6'[d] = x6[d] /\ x6[d] # None
  BY <1>1
<1>6. DraftVersions'
  BY <1>0, <1>1, <1>5 DEF DraftVersions
<1>7. ASSUME x9' = FALSE, x10' = FALSE, x11' = FALSE
      PROVE  x12' = FALSE /\ DraftOne' /\ DraftSeen' /\ DraftSaving'
  <2>1. x12 = FALSE /\ DraftOne /\ DraftSeen /\ DraftSaving
    BY <1>1, <1>2, <1>7 DEF DraftInv
  <2>2. \A w \in Users : x7[w].version = 0
    <3>1. \A w \in Users : x7[w].version \in Int /\ x7[w].version >= 0
      BY <1>0, EditingBounds DEF DraftTypes, TabType
    <3> QED BY <1>2, <1>7, <3>1
  <2>3. \A w \in Users : x7[w].pc # "save"
    <3>1. ASSUME NEW w \in Users, x7[w].pc = "save" PROVE FALSE
      <4>1. /\ x7[w].row \in DraftIds /\ x6[x7[w].row] # None
            /\ x7[w].read = x6[x7[w].row].version /\ x7[w].version = x7[w].read
        BY <1>1, <2>1, <3>1 DEF DraftSaving
      <4>2. x6[x7[w].row] \in DraftRow
        BY <1>0, <4>1 DEF DraftTypes
      <4>3. x6[x7[w].row].version >= 1 /\ x6[x7[w].row].version \in Int
        BY <4>2, EditingBounds DEF DraftRow
      <4> QED BY <2>2, <4>1, <4>3
    <3> QED BY <3>1
  <2>4. DraftOne' /\ DraftSaving'
    BY <1>1, <1>5, <2>1, <2>3 DEF DraftOne, DraftSaving
  <2>5. DraftSeen'
    BY <1>1, <1>5, <2>1, <2>2 DEF DraftSeen
  <2> QED BY <1>1, <2>1, <2>4, <2>5
<1> QED BY <1>4, <1>6, <1>7 DEF DraftInv

LEMMA DraftStepKeeps == ASSUME DraftInv, Editing!DraftStep PROVE DraftInv'
BY OpenKeeps, StartSaveKeeps, SaveKeeps, CreateDraftKeeps, DiscardKeeps DEF Editing!DraftStep

\* The two halves do not touch each other.
EditingInv == TagInv /\ DraftInv

LEMMA EditingInductive == EditingInv /\ [Editing!Next]_(Editing!vars) => EditingInv'
<1> SUFFICES ASSUME EditingInv, [Editing!Next]_(Editing!vars) PROVE EditingInv'
  OBVIOUS
<1>1. ASSUME UNCHANGED Editing!tagVars PROVE TagInv'
  <2>1. x1' = x1 /\ x2' = x2 /\ x3' = x3 /\ x4' = x4 /\ x5' = x5
    BY <1>1 DEF Editing!tagVars
  <2> QED BY <2>1 DEF EditingInv, TagInv, TagTypes, TagLinks, TagTasks, TagCounts
<1>2. ASSUME UNCHANGED Editing!draftVars PROVE DraftInv'
  <2>1. /\ x6' = x6 /\ x7' = x7 /\ x8' = x8 /\ x9' = x9 /\ x10' = x10 /\ x11' = x11
        /\ x12' = x12
    BY <1>2 DEF Editing!draftVars
  <2> QED BY <2>1 DEF EditingInv, DraftInv, DraftTypes, DraftVersions, DraftOne, DraftSeen, DraftSaving
<1>3. CASE UNCHANGED Editing!vars
  <2>1. UNCHANGED Editing!tagVars /\ UNCHANGED Editing!draftVars
    BY <1>3, Zenon DEF Editing!vars
  <2> QED BY <1>1, <1>2, <2>1 DEF EditingInv
<1>4. CASE Editing!TagStep
  <2>1. UNCHANGED Editing!draftVars
    BY <1>4 DEF Editing!TagStep, Editing!Create, Editing!Rename, Editing!RemoveTag,
       Editing!StartMerge, Editing!StartLink, Editing!CountLinks, Editing!CommitMerge,
       Editing!Attach, Editing!Detach
  <2> QED BY <1>2, <1>4, <2>1, TagStepKeeps DEF EditingInv
<1>5. CASE Editing!DraftStep
  <2>1. UNCHANGED Editing!tagVars
    BY <1>5 DEF Editing!DraftStep, Editing!Open, Editing!StartSave, Editing!Save,
       Editing!CreateDraft, Editing!Discard
  <2> QED BY <1>1, <1>5, <2>1, DraftStepKeeps DEF EditingInv
<1> QED BY <1>3, <1>4, <1>5 DEF Editing!Next

LEMMA EditingInitially == Editing!Init => EditingInv
BY TagInitially, DraftInitially DEF EditingInv

LEMMA EditingMeans == EditingInv => Editing!TypeOK /\ Editing!EditingSound
<1> SUFFICES ASSUME EditingInv PROVE Editing!TypeOK /\ Editing!EditingSound
  OBVIOUS
<1>0. TagTypes /\ DraftTypes
  BY DEF EditingInv, TagInv, DraftInv
<1>1. Editing!TypeOK
  <2>1. \A r \in Requests : x4[r].pc \in {"idle", "merge", "commit", "attach", "detach"}
    BY <1>0 DEF TagTypes, TagTask
  <2>2. \A d \in Editing!Rows : x6[d] \in [version : 1 .. MaxSaves, save : 1 .. MaxSaves]
    BY <1>0 DEF Editing!Rows, DraftTypes, DraftRow
  <2>3. \A w \in Users : x7[w].pc \in {"idle", "save"}
    BY <1>0 DEF DraftTypes, TabType
  <2>4. {x9, x10, x11, x12} \subseteq BOOLEAN
    BY <1>0, Zenon DEF DraftTypes
  <2> QED BY <1>0, <2>1, <2>2, <2>3, <2>4, Zenon DEF Editing!TypeOK, TagTypes, DraftTypes
<1>2. ~x5 => \A t \in Tags : x3[t] = Editing!Cardinality(Editing!CoursesOf(t))
  <2> SUFFICES ASSUME ~x5, NEW t \in Tags PROVE x3[t] = Cardinality(Editing!CoursesOf(t))
    BY EditingCardinality
  <2>1. x5 = FALSE
    BY <1>0, Zenon DEF TagTypes
  <2>2. x3[t] = Cardinality(AttachedIn(x2, t))
    BY <2>1 DEF EditingInv, TagInv, TagCounts
  <2>3. Editing!CoursesOf(t) = AttachedIn(x2, t)
    BY DEF Editing!CoursesOf, AttachedIn
  <2> QED BY <2>2, <2>3
<1>3. ~x9 /\ ~x10 /\ ~x11 => ~x12
  <2> SUFFICES ASSUME ~x9, ~x10, ~x11, x12 PROVE FALSE
    OBVIOUS
  <2>1. x9 = FALSE /\ x10 = FALSE /\ x11 = FALSE
    BY <1>0, Zenon DEF DraftTypes
  <2>2. x12 = FALSE
    BY <2>1 DEF EditingInv, DraftInv
  <2> QED BY <2>2, Zenon
<1> QED BY <1>1, <1>2, <1>3, Zenon DEF Editing!EditingSound

------------------------------------------------------------------------------
(***************************************************************************)
(* The platform.  A behaviour is of the service in focus, whose invariant  *)
(* its own steps preserve; what the others' variables are then is of no    *)
(* concern.                                                                *)
(***************************************************************************)
PlatformInv ==
  /\ focus = "tokens" => TokensInv
  /\ focus = "sign in" => SignInv
  /\ focus = "phone" => OtpInv
  /\ focus = "status" => AccountInv
  /\ focus = "kyc" => KycInv
  /\ focus = "course" => CourseInv
  /\ focus = "discussion" => TalkInv
  /\ focus = "backup" => BackupInv
  /\ focus = "restore" => RestoreInv
  /\ focus = "path" => PathInv
  /\ focus \in {"tags", "drafts"} => EditingInv
  /\ focus = "database" => DumpInv
  /\ focus \in {"live", "seats"} => LiveInv
  /\ focus = "media" => MediaInv
  /\ focus \in {"digest", "push", "sms"} => NotifyInv

LEMMA PlatformInitially == Init => PlatformInv
<1> SUFFICES ASSUME Init PROVE PlatformInv
  OBVIOUS
<1>1. ASSUME focus = "tokens" PROVE TokensInv
  <2>1. Tokens!Init
    BY <1>1, Zenon DEF Init
  <2> QED BY <2>1, TokensInitially
<1>2. ASSUME focus = "sign in" PROVE SignInv
  <2>1. SignIn!Init
    BY <1>2, Zenon DEF Init
  <2> QED BY <2>1, SignInitially
<1>3. ASSUME focus = "phone" PROVE OtpInv
  <2>1. Otp!Init
    BY <1>3, Zenon DEF Init
  <2> QED BY <2>1, OtpInitially
<1>4. ASSUME focus = "status" PROVE AccountInv
  <2>1. Account!Init
    BY <1>4, Zenon DEF Init
  <2> QED BY <2>1, AccountInitially
<1>5. ASSUME focus = "kyc" PROVE KycInv
  <2>1. Kyc!Init
    BY <1>5, Zenon DEF Init
  <2> QED BY <2>1, KycInitially
<1>6. ASSUME focus = "course" PROVE CourseInv
  <2>1. Course!Init
    BY <1>6, Zenon DEF Init
  <2> QED BY <2>1, CourseInitially
<1>7. ASSUME focus = "discussion" PROVE TalkInv
  <2>1. Talk!Init
    BY <1>7, Zenon DEF Init
  <2> QED BY <2>1, TalkInitially
<1>8. ASSUME focus = "backup" PROVE BackupInv
  <2>1. Backup!Init
    BY <1>8, Zenon DEF Init
  <2> QED BY <2>1, BackupInitially
<1>9. ASSUME focus = "restore" PROVE RestoreInv
  <2>1. Restored!Init
    BY <1>9, Zenon DEF Init
  <2> QED BY <2>1, RestoreInitially
<1>10. ASSUME focus = "path" PROVE PathInv
  <2>1. Path!Init
    BY <1>10, Zenon DEF Init
  <2> QED BY <2>1, PathInitially
<1>11. ASSUME focus \in {"tags", "drafts"} PROVE EditingInv
  <2>1. Editing!Init
    BY <1>11, Zenon DEF Init
  <2> QED BY <2>1, EditingInitially
<1>12. ASSUME focus = "database" PROVE DumpInv
  <2>1. Dump!Init
    BY <1>12, Zenon DEF Init
  <2> QED BY <2>1, DumpInitially
<1>13. ASSUME focus \in {"live", "seats"} PROVE LiveInv
  <2>1. Live!Init
    BY <1>13, Zenon DEF Init
  <2> QED BY <2>1, LiveInitially
<1>14. ASSUME focus = "media" PROVE MediaInv
  <2>1. Media!Init
    BY <1>14, Zenon DEF Init
  <2> QED BY <2>1, MediaInitially
<1>15. ASSUME focus \in {"digest", "push", "sms"} PROVE NotifyInv
  <2>1. Notify!Init
    BY <1>15, Zenon DEF Init
  <2> QED BY <2>1, NotifyInitially
<1> QED
  BY <1>1, <1>2, <1>3, <1>4, <1>5, <1>6, <1>7, <1>8, <1>9, <1>10, <1>11, <1>12, <1>13, <1>14, <1>15 DEF PlatformInv

LEMMA PlatformInductive ==
  PlatformInv /\ [Next]_platform => PlatformInv'
<1> SUFFICES ASSUME PlatformInv, [Next]_platform PROVE PlatformInv'
  OBVIOUS
<1>f. focus' = focus
  BY Zenon DEF Next, platform, TokensStep, SignInStep, OtpStep, AccountStep, KycStep,
    CourseStep, TalkStep, BackupStep, RestoredStep, PathStep, TagStep, DraftStep,
    DumpStep, LiveStep, SeatsStep, MediaStep, DigestStep, PushStep, SmsStep
<1>1. ASSUME focus = "tokens" PROVE TokensInv'
  <2>1. CASE Next
    <3>0. TokensStep
      BY <1>1, <2>1, Zenon
      DEF Next, SignInStep, OtpStep, AccountStep, KycStep, CourseStep, TalkStep,
        BackupStep, RestoredStep, PathStep, TagStep, DraftStep, DumpStep, LiveStep,
        SeatsStep, MediaStep, DigestStep, PushStep, SmsStep
    <3>1. Tokens!Next
      BY <3>0, Zenon DEF TokensStep
    <3> QED BY <3>1, <1>1, TokensInductive DEF PlatformInv
  <2>2. CASE UNCHANGED platform
    <3>1. UNCHANGED Tokens!vars
      BY <2>2 DEF platform, Tokens!vars
    <3> QED BY <3>1, <1>1, TokensInductive DEF PlatformInv
  <2> QED BY <2>1, <2>2
<1>2. ASSUME focus = "sign in" PROVE SignInv'
  <2>1. CASE Next
    <3>0. SignInStep
      BY <1>2, <2>1, Zenon
      DEF Next, TokensStep, OtpStep, AccountStep, KycStep, CourseStep, TalkStep,
        BackupStep, RestoredStep, PathStep, TagStep, DraftStep, DumpStep, LiveStep,
        SeatsStep, MediaStep, DigestStep, PushStep, SmsStep
    <3>1. SignIn!Next
      BY <3>0, Zenon DEF SignInStep
    <3> QED BY <3>1, <1>2, SignInductive DEF PlatformInv
  <2>2. CASE UNCHANGED platform
    <3>1. UNCHANGED SignIn!vars
      BY <2>2 DEF platform, SignIn!vars, SignIn!factor
    <3> QED BY <3>1, <1>2, SignInductive DEF PlatformInv
  <2> QED BY <2>1, <2>2
<1>3. ASSUME focus = "phone" PROVE OtpInv'
  <2>1. CASE Next
    <3>0. OtpStep
      BY <1>3, <2>1, Zenon
      DEF Next, TokensStep, SignInStep, AccountStep, KycStep, CourseStep, TalkStep,
        BackupStep, RestoredStep, PathStep, TagStep, DraftStep, DumpStep, LiveStep,
        SeatsStep, MediaStep, DigestStep, PushStep, SmsStep
    <3>1. Otp!Next
      BY <3>0, Zenon DEF OtpStep
    <3> QED BY <3>1, <1>3, OtpInductive DEF PlatformInv
  <2>2. CASE UNCHANGED platform
    <3>1. UNCHANGED Otp!vars
      BY <2>2 DEF platform, Otp!vars
    <3> QED BY <3>1, <1>3, OtpInductive DEF PlatformInv
  <2> QED BY <2>1, <2>2
<1>4. ASSUME focus = "status" PROVE AccountInv'
  <2>1. CASE Next
    <3>0. AccountStep
      BY <1>4, <2>1, Zenon
      DEF Next, TokensStep, SignInStep, OtpStep, KycStep, CourseStep, TalkStep,
        BackupStep, RestoredStep, PathStep, TagStep, DraftStep, DumpStep, LiveStep,
        SeatsStep, MediaStep, DigestStep, PushStep, SmsStep
    <3>1. Account!Next
      BY <3>0, Zenon DEF AccountStep
    <3> QED BY <3>1, <1>4, AccountInductive DEF PlatformInv
  <2>2. CASE UNCHANGED platform
    <3>1. UNCHANGED Account!vars
      BY <2>2 DEF platform, Account!vars, Account!adminVars, Account!cacheVars, Account!account
    <3> QED BY <3>1, <1>4, AccountInductive DEF PlatformInv
  <2> QED BY <2>1, <2>2
<1>5. ASSUME focus = "kyc" PROVE KycInv'
  <2>1. CASE Next
    <3>0. KycStep
      BY <1>5, <2>1, Zenon
      DEF Next, TokensStep, SignInStep, OtpStep, AccountStep, CourseStep, TalkStep,
        BackupStep, RestoredStep, PathStep, TagStep, DraftStep, DumpStep, LiveStep,
        SeatsStep, MediaStep, DigestStep, PushStep, SmsStep
    <3>1. Kyc!Next
      BY <3>0, Zenon DEF KycStep
    <3> QED BY <3>1, <1>5, KycInductive DEF PlatformInv
  <2>2. CASE UNCHANGED platform
    <3>1. UNCHANGED Kyc!vars
      BY <2>2 DEF platform, Kyc!vars
    <3> QED BY <3>1, <1>5, KycInductive DEF PlatformInv
  <2> QED BY <2>1, <2>2
<1>6. ASSUME focus = "course" PROVE CourseInv'
  <2>1. CASE Next
    <3>0. CourseStep
      BY <1>6, <2>1, Zenon
      DEF Next, TokensStep, SignInStep, OtpStep, AccountStep, KycStep, TalkStep,
        BackupStep, RestoredStep, PathStep, TagStep, DraftStep, DumpStep, LiveStep,
        SeatsStep, MediaStep, DigestStep, PushStep, SmsStep
    <3>1. Course!Next
      BY <3>0, Zenon DEF CourseStep
    <3> QED BY <3>1, <1>6, CourseInductive DEF PlatformInv
  <2>2. CASE UNCHANGED platform
    <3>1. UNCHANGED Course!vars
      BY <2>2 DEF platform, Course!vars, Course!catalogue, Course!reporting
    <3> QED BY <3>1, <1>6, CourseInductive DEF PlatformInv
  <2> QED BY <2>1, <2>2
<1>7. ASSUME focus = "discussion" PROVE TalkInv'
  <2>1. CASE Next
    <3>0. TalkStep
      BY <1>7, <2>1, Zenon
      DEF Next, TokensStep, SignInStep, OtpStep, AccountStep, KycStep, CourseStep,
        BackupStep, RestoredStep, PathStep, TagStep, DraftStep, DumpStep, LiveStep,
        SeatsStep, MediaStep, DigestStep, PushStep, SmsStep
    <3>1. Talk!Next
      BY <3>0, Zenon DEF TalkStep
    <3> QED BY <3>1, <1>7, TalkInductive DEF PlatformInv
  <2>2. CASE UNCHANGED platform
    <3>1. UNCHANGED Talk!vars
      BY <2>2 DEF platform, Talk!vars, Talk!discussion
    <3> QED BY <3>1, <1>7, TalkInductive DEF PlatformInv
  <2> QED BY <2>1, <2>2
<1>8. ASSUME focus = "backup" PROVE BackupInv'
  <2>1. CASE Next
    <3>0. BackupStep
      BY <1>8, <2>1, Zenon
      DEF Next, TokensStep, SignInStep, OtpStep, AccountStep, KycStep, CourseStep,
        TalkStep, RestoredStep, PathStep, TagStep, DraftStep, DumpStep, LiveStep,
        SeatsStep, MediaStep, DigestStep, PushStep, SmsStep
    <3>1. Backup!Next
      BY <3>0, Zenon DEF BackupStep
    <3> QED BY <3>1, <1>8, BackupInductive DEF PlatformInv
  <2>2. CASE UNCHANGED platform
    <3>1. UNCHANGED Backup!vars
      BY <2>2 DEF platform, Backup!vars
    <3> QED BY <3>1, <1>8, BackupInductive DEF PlatformInv
  <2> QED BY <2>1, <2>2
<1>9. ASSUME focus = "restore" PROVE RestoreInv'
  <2>1. CASE Next
    <3>0. RestoredStep
      BY <1>9, <2>1, Zenon
      DEF Next, TokensStep, SignInStep, OtpStep, AccountStep, KycStep, CourseStep,
        TalkStep, BackupStep, PathStep, TagStep, DraftStep, DumpStep, LiveStep,
        SeatsStep, MediaStep, DigestStep, PushStep, SmsStep
    <3>1. Restored!Next
      BY <3>0, Zenon DEF RestoredStep
    <3> QED BY <3>1, <1>9, RestoreInductive DEF PlatformInv
  <2>2. CASE UNCHANGED platform
    <3>1. UNCHANGED Restored!vars
      BY <2>2 DEF platform, Restored!vars
    <3> QED BY <3>1, <1>9, RestoreInductive DEF PlatformInv
  <2> QED BY <2>1, <2>2
<1>10. ASSUME focus = "path" PROVE PathInv'
  <2>1. CASE Next
    <3>0. PathStep
      BY <1>10, <2>1, Zenon
      DEF Next, TokensStep, SignInStep, OtpStep, AccountStep, KycStep, CourseStep,
        TalkStep, BackupStep, RestoredStep, TagStep, DraftStep, DumpStep, LiveStep,
        SeatsStep, MediaStep, DigestStep, PushStep, SmsStep
    <3>1. Path!Next
      BY <3>0, Zenon DEF PathStep
    <3> QED BY <3>1, <1>10, PathInductive DEF PlatformInv
  <2>2. CASE UNCHANGED platform
    <3>1. UNCHANGED Path!vars
      BY <2>2 DEF platform, Path!vars
    <3> QED BY <3>1, <1>10, PathInductive DEF PlatformInv
  <2> QED BY <2>1, <2>2
<1>11. ASSUME focus \in {"tags", "drafts"} PROVE EditingInv'
  <2>1. CASE Next
    <3>0. TagStep \/ DraftStep
      BY <1>11, <2>1, Zenon
      DEF Next, TokensStep, SignInStep, OtpStep, AccountStep, KycStep, CourseStep,
        TalkStep, BackupStep, RestoredStep, PathStep, DumpStep, LiveStep, SeatsStep,
        MediaStep, DigestStep, PushStep, SmsStep
    <3>1. Editing!Next
      BY <3>0, Zenon DEF TagStep, DraftStep, Editing!Next
    <3> QED BY <3>1, <1>11, EditingInductive DEF PlatformInv
  <2>2. CASE UNCHANGED platform
    <3>1. UNCHANGED Editing!vars
      BY <2>2 DEF platform, Editing!vars, Editing!tagVars, Editing!draftVars
    <3> QED BY <3>1, <1>11, EditingInductive DEF PlatformInv
  <2> QED BY <2>1, <2>2
<1>12. ASSUME focus = "database" PROVE DumpInv'
  <2>1. CASE Next
    <3>0. DumpStep
      BY <1>12, <2>1, Zenon
      DEF Next, TokensStep, SignInStep, OtpStep, AccountStep, KycStep, CourseStep,
        TalkStep, BackupStep, RestoredStep, PathStep, TagStep, DraftStep, LiveStep,
        SeatsStep, MediaStep, DigestStep, PushStep, SmsStep
    <3>1. Dump!Next
      BY <3>0, Zenon DEF DumpStep
    <3> QED BY <3>1, <1>12, DumpInductive DEF PlatformInv
  <2>2. CASE UNCHANGED platform
    <3>1. UNCHANGED Dump!vars
      BY <2>2 DEF platform, Dump!vars
    <3> QED BY <3>1, <1>12, DumpInductive DEF PlatformInv
  <2> QED BY <2>1, <2>2
<1>13. ASSUME focus \in {"live", "seats"} PROVE LiveInv'
  <2>1. CASE Next
    <3>0. LiveStep \/ SeatsStep
      BY <1>13, <2>1, Zenon
      DEF Next, TokensStep, SignInStep, OtpStep, AccountStep, KycStep, CourseStep,
        TalkStep, BackupStep, RestoredStep, PathStep, TagStep, DraftStep, DumpStep,
        MediaStep, DigestStep, PushStep, SmsStep
    <3>1. Live!Next
      BY <3>0, Zenon DEF LiveStep, SeatsStep, Live!Next
    <3> QED BY <3>1, <1>13, LiveInductive DEF PlatformInv
  <2>2. CASE UNCHANGED platform
    <3>1. UNCHANGED Live!vars
      BY <2>2 DEF platform, Live!vars, Live!seatVars
    <3> QED BY <3>1, <1>13, LiveInductive DEF PlatformInv
  <2> QED BY <2>1, <2>2
<1>14. ASSUME focus = "media" PROVE MediaInv'
  <2>1. CASE Next
    <3>0. MediaStep
      BY <1>14, <2>1, Zenon
      DEF Next, TokensStep, SignInStep, OtpStep, AccountStep, KycStep, CourseStep,
        TalkStep, BackupStep, RestoredStep, PathStep, TagStep, DraftStep, DumpStep,
        LiveStep, SeatsStep, DigestStep, PushStep, SmsStep
    <3>1. Media!Next
      BY <3>0, Zenon DEF MediaStep
    <3> QED BY <3>1, <1>14, MediaInductive DEF PlatformInv
  <2>2. CASE UNCHANGED platform
    <3>1. UNCHANGED Media!vars
      BY <2>2 DEF platform, Media!vars
    <3> QED BY <3>1, <1>14, MediaInductive DEF PlatformInv
  <2> QED BY <2>1, <2>2
<1>15. ASSUME focus \in {"digest", "push", "sms"} PROVE NotifyInv'
  <2>1. CASE Next
    <3>0. DigestStep \/ PushStep \/ SmsStep
      BY <1>15, <2>1, Zenon
      DEF Next, TokensStep, SignInStep, OtpStep, AccountStep, KycStep, CourseStep,
        TalkStep, BackupStep, RestoredStep, PathStep, TagStep, DraftStep, DumpStep,
        LiveStep, SeatsStep, MediaStep
    <3>a. ASSUME NEW A, A /\ UNCHANGED <<focus, rest12>>
          PROVE  A /\ UNCHANGED Notify!texts
      BY <3>a DEF rest12, Notify!texts
    <3>b. DigestStep => Notify!Next
      BY <3>a, Zenon DEF DigestStep, Notify!Next, Notify!NotifyStep
    <3>c. PushStep => Notify!Next
      BY <3>a, Zenon DEF PushStep, Notify!Next, Notify!NotifyStep
    <3>d. SmsStep => Notify!Next
      BY Zenon DEF SmsStep, Notify!Next
    <3>1. Notify!Next
      BY <3>0, <3>b, <3>c, <3>d, Zenon
    <3> QED BY <3>1, <1>15, NotifyInductive DEF PlatformInv
  <2>2. CASE UNCHANGED platform
    <3>1. UNCHANGED Notify!vars
      BY <2>2 DEF platform, Notify!vars, Notify!texts
    <3> QED BY <3>1, <1>15, NotifyInductive DEF PlatformInv
  <2> QED BY <2>1, <2>2
<1> QED
  <2> SUFFICES /\ (focus = "tokens" => TokensInv)'
               /\ (focus = "sign in" => SignInv)'
               /\ (focus = "phone" => OtpInv)'
               /\ (focus = "status" => AccountInv)'
               /\ (focus = "kyc" => KycInv)'
               /\ (focus = "course" => CourseInv)'
               /\ (focus = "discussion" => TalkInv)'
               /\ (focus = "backup" => BackupInv)'
               /\ (focus = "restore" => RestoreInv)'
               /\ (focus = "path" => PathInv)'
               /\ (focus \in {"tags", "drafts"} => EditingInv)'
               /\ (focus = "database" => DumpInv)'
               /\ (focus \in {"live", "seats"} => LiveInv)'
               /\ (focus = "media" => MediaInv)'
               /\ (focus \in {"digest", "push", "sms"} => NotifyInv)'
    BY Zenon DEF PlatformInv
  <2>1. (focus = "tokens" => TokensInv)'
    BY <1>f, <1>1
  <2>2. (focus = "sign in" => SignInv)'
    BY <1>f, <1>2
  <2>3. (focus = "phone" => OtpInv)'
    BY <1>f, <1>3
  <2>4. (focus = "status" => AccountInv)'
    BY <1>f, <1>4
  <2>5. (focus = "kyc" => KycInv)'
    BY <1>f, <1>5
  <2>6. (focus = "course" => CourseInv)'
    BY <1>f, <1>6
  <2>7. (focus = "discussion" => TalkInv)'
    BY <1>f, <1>7
  <2>8. (focus = "backup" => BackupInv)'
    BY <1>f, <1>8
  <2>9. (focus = "restore" => RestoreInv)'
    BY <1>f, <1>9
  <2>10. (focus = "path" => PathInv)'
    BY <1>f, <1>10
  <2>11. (focus \in {"tags", "drafts"} => EditingInv)'
    BY <1>f, <1>11
  <2>12. (focus = "database" => DumpInv)'
    BY <1>f, <1>12
  <2>13. (focus \in {"live", "seats"} => LiveInv)'
    BY <1>f, <1>13
  <2>14. (focus = "media" => MediaInv)'
    BY <1>f, <1>14
  <2>15. (focus \in {"digest", "push", "sms"} => NotifyInv)'
    BY <1>f, <1>15
  <2> QED BY <2>1, <2>2, <2>3, <2>4, <2>5, <2>6, <2>7, <2>8, <2>9, <2>10, <2>11, <2>12, <2>13, <2>14, <2>15

LEMMA PlatformMeans ==
  PlatformInv => TypesOK /\ AccountsSound /\ CatalogueSound /\ OperationsSound
<1> SUFFICES ASSUME PlatformInv
             PROVE  TypesOK /\ AccountsSound /\ CatalogueSound /\ OperationsSound
  OBVIOUS
<1>1. focus = "tokens" => Tokens!TypeOK /\ Tokens!FamilyIsChain
  BY TokensMeans, Zenon DEF PlatformInv
<1>2. focus = "sign in" => SignIn!TypeOK /\ SignIn!FactorUsable
  BY SignMeans, Zenon DEF PlatformInv
<1>3. focus = "phone" => Otp!TypeOK /\ Otp!LimitsHold
  BY OtpMeans, Zenon DEF PlatformInv
<1>4. focus = "status" => Account!TypeOK /\ Account!StatusAgreesWithLog /\ Account!BarredWithinTtl
  BY AccountMeans, Zenon DEF PlatformInv
<1>5. focus = "kyc" => Kyc!TypeOK /\ Kyc!VerifiedByNewest
  BY KycMeans, Zenon DEF PlatformInv
<1>6. focus = "course" => Course!TypeOK /\ Course!CatalogueInStep /\ Course!PausedByMany
  BY CourseMeans, Zenon DEF PlatformInv
<1>7. focus = "discussion" => Talk!TypeOK /\ Talk!DiscussionSound
  BY TalkMeans, Zenon DEF PlatformInv
<1>8. focus = "backup" => Backup!TypeOK /\ Backup!VersionsSound
  BY BackupMeans, Zenon DEF PlatformInv
<1>9. focus = "restore" => Restored!TypeOK /\ Restored!OutcomeIsTrue
  BY RestoreMeans, Zenon DEF PlatformInv
<1>10. focus = "path" => Path!TypeOK /\ Path!PathLeadsOn
  BY PathMeans, Zenon DEF PlatformInv
<1>11. focus \in {"tags", "drafts"} => Editing!TypeOK /\ Editing!EditingSound
  BY EditingMeans, Zenon DEF PlatformInv
<1>12. focus = "database" => Dump!TypeOK /\ Dump!NeverWithoutBackup
  BY DumpMeans, Zenon DEF PlatformInv
<1>13. focus \in {"live", "seats"} => Live!TypeOK /\ Live!SessionsSound
  BY LiveMeans, Zenon DEF PlatformInv
<1>14. focus = "media" => Media!TypeOK /\ Media!MediaSound
  BY MediaMeans, Zenon DEF PlatformInv
<1>15. focus \in {"digest", "push", "sms"} => Notify!TypeOK /\ Notify!NotificationsReach
  BY NotifyMeans, Zenon DEF PlatformInv
<1>a. TypesOK
  <2> SUFFICES /\ focus = "tokens" => Tokens!TypeOK
               /\ focus = "sign in" => SignIn!TypeOK
               /\ focus = "phone" => Otp!TypeOK
               /\ focus = "status" => Account!TypeOK
               /\ focus = "kyc" => Kyc!TypeOK
               /\ focus = "course" => Course!TypeOK
               /\ focus = "discussion" => Talk!TypeOK
               /\ focus = "backup" => Backup!TypeOK
               /\ focus = "restore" => Restored!TypeOK
               /\ focus = "path" => Path!TypeOK
               /\ focus \in {"tags", "drafts"} => Editing!TypeOK
               /\ focus = "database" => Dump!TypeOK
               /\ focus \in {"live", "seats"} => Live!TypeOK
               /\ focus = "media" => Media!TypeOK
               /\ focus \in {"digest", "push", "sms"} => Notify!TypeOK
    BY Zenon DEF TypesOK
  <2>1. /\ focus = "tokens" => Tokens!TypeOK
        /\ focus = "sign in" => SignIn!TypeOK
        /\ focus = "phone" => Otp!TypeOK
        /\ focus = "status" => Account!TypeOK
        /\ focus = "kyc" => Kyc!TypeOK
        /\ focus = "course" => Course!TypeOK
        /\ focus = "discussion" => Talk!TypeOK
        /\ focus = "backup" => Backup!TypeOK
    BY <1>1, <1>2, <1>3, <1>4, <1>5, <1>6, <1>7, <1>8, Zenon
  <2>2. /\ focus = "restore" => Restored!TypeOK
        /\ focus = "path" => Path!TypeOK
        /\ focus \in {"tags", "drafts"} => Editing!TypeOK
        /\ focus = "database" => Dump!TypeOK
        /\ focus \in {"live", "seats"} => Live!TypeOK
        /\ focus = "media" => Media!TypeOK
        /\ focus \in {"digest", "push", "sms"} => Notify!TypeOK
    BY <1>9, <1>10, <1>11, <1>12, <1>13, <1>14, <1>15, Zenon
  <2> QED BY <2>1, <2>2
<1>b. AccountsSound
  BY <1>1, <1>2, <1>3, <1>4, <1>5, Zenon DEF AccountsSound
<1>c. CatalogueSound
  BY <1>6, <1>7, <1>8, <1>9, <1>10, <1>11, Zenon DEF CatalogueSound
<1>d. OperationsSound
  BY <1>12, <1>13, <1>14, <1>15, Zenon DEF OperationsSound
<1> QED BY <1>a, <1>b, <1>c, <1>d

LEMMA PlatformInvariant == Spec => []PlatformInv
<1>1. Init => PlatformInv
  BY PlatformInitially
<1>2. PlatformInv /\ [Next]_platform => PlatformInv'
  BY PlatformInductive
<1> QED BY <1>1, <1>2, PTL DEF Spec

\* Whatever is in focus, its variables keep their types.
THEOREM PlatformTypes == Spec => []TypesOK
BY PlatformInvariant, PlatformMeans, PTL

\* Accounts are sound, for any number of requests, tokens, codes and checks: a family of
\* refresh tokens is a chain with one live end (RefreshTokens); unless changes overlap, an
\* enabled factor has the confirmed secret and no code is good twice (SignIn); sends stay
\* within their window's limit, and guesses do unless verifications overlap (PhoneOtp);
\* unless handlers overlap the account is as its log says, and a cached copy that admits
\* a barred account lapses in time (AccountStatus); unless reviews overlap, the newest
\* submission decides who is verified (Kyc).
THEOREM AccountsAreSound == Spec => []AccountsSound
BY PlatformInvariant, PlatformMeans, PTL

\* The catalogue is sound, for any number of courses, requests and edits: unless they
\* were disturbed, the index and the cached list tell the course's status, and reports
\* pause it only when enough reporters filed one (CourseLifecycle); in a lesson that is not
\* free only students ask and answer, one answer at most is best unless markings overlap,
\* and a visible comment that was flagged was judged (Discussions); unless exports
\* overlap, a higher version holds no older course (CourseBackups); a job executed once
\* says what it wrote (CourseRestores); unless requests overlap a published path has two
\* courses, and unless prerequisites were added since its list was checked it leads to
\* one that can be enrolled in (LearningPaths); unless links are written under a merge tags are counted,
\* and unless saves race no save is overwritten unseen (CourseEditing).
THEOREM CatalogueIsSound == Spec => []CatalogueSound
BY PlatformInvariant, PlatformMeans, PTL

\* Operations are sound, for any number of processes, sessions, files and devices: once
\* a backup of the database is stored there always is one (DatabaseBackup); unless a
\* time was written unchecked sessions do not clash, unless a reminder was cut short
\* each is announced once, and none has more students than places unless it was
\* squeezed (LiveSessions); a stored file was found clean if the limit of scans is one
\* that an attempt meets, and no private file is served without a link (MediaUploads);
\* a notification that did not slip through was in a digest, a live device is not
\* deactivated unless its token was rejected while it was good, and a text the carrier
\* delivered is shown so, with the exceptions Notifications names.
THEOREM OperationsAreSound == Spec => []OperationsSound
BY PlatformInvariant, PlatformMeans, PTL

\* The foci on tags and on drafts, on times and on seats, and on digests, devices and
\* texts take some of the steps of their module.  With all of them, in any order:

\* Tags and drafts edited at once: tags are counted unless links are
\* written under a merge, no save is overwritten unseen unless saves race
\* (tags.service.ts:246-289, course-autosave.service.ts:23-132).
THEOREM EditingByItself == Editing!Spec => [](Editing!TypeOK /\ Editing!EditingSound)
<1>1. Editing!Init => EditingInv
  BY EditingInitially
<1>2. EditingInv /\ [Editing!Next]_(Editing!vars) => EditingInv'
  BY EditingInductive
<1>3. EditingInv => Editing!TypeOK /\ Editing!EditingSound
  BY EditingMeans
<1> QED BY <1>1, <1>2, <1>3, PTL DEF Editing!Spec

\* Sessions are scheduled, moved, announced and booked at once: they do not clash, are
\* announced once and are not overbooked, with the exceptions LiveSessions names
\* (live-sessions.service.ts:142-217, 324-351).
THEOREM LiveByItself == Live!Spec => [](Live!TypeOK /\ Live!SessionsSound)
<1>1. Live!Init => LiveInv
  BY LiveInitially
<1>2. LiveInv /\ [Live!Next]_(Live!vars) => LiveInv'
  BY LiveInductive
<1>3. LiveInv => Live!TypeOK /\ Live!SessionsSound
  BY LiveMeans
<1> QED BY <1>1, <1>2, <1>3, PTL DEF Live!Spec

\* Notifications, digests, devices and texts at once: what was due was in a digest, a
\* live device's token is deactivated only if it was rejected with the message or while
\* it was registered again, and delivered texts are shown so, with the exceptions
\* Notifications names (notifications.service.ts:181-318, 443-448,
\* sms.service.ts:192-215).
THEOREM NotifyByItself == Notify!Spec => [](Notify!TypeOK /\ Notify!NotificationsReach)
<1>1. Notify!Init => NotifyInv
  BY NotifyInitially
<1>2. NotifyInv /\ [Notify!Next]_(Notify!vars) => NotifyInv'
  BY NotifyInductive
<1>3. NotifyInv => Notify!TypeOK /\ Notify!NotificationsReach
  BY NotifyMeans
<1> QED BY <1>1, <1>2, <1>3, PTL DEF Notify!Spec

==============================================================================
