-------------------------- MODULE CertificateTemplates --------------------------
(***************************************************************************)
(* CertificateTemplatesService: branding templates of certificates, at     *)
(* most one active per course category.  Each operation reads the template *)
(* in one await and writes it in a later one.  The service compares        *)
(* categories without regard to case, the partial unique index of the      *)
(* table as stored.                                                        *)
(***************************************************************************)
EXTENDS FiniteSets

CONSTANTS
  Templates,
  Requests,
  Categories,         \* spellings of categories
  Fold(_)             \* the lower-case form of a category

ConstantsAssumption == Templates # {} /\ Categories # {}

VARIABLES
  rows,        \* each template: [there, category, full, active]
  task,
  raced        \* history: two requests on one template overlapped

vars == <<rows, task, raced>>

\* full: no required branding, layout or signature field is missing.
Row == [there : BOOLEAN, category : Categories, full : BOOLEAN, active : BOOLEAN]
Ops == {"idle", "update", "remove", "activate", "deactivate"}
Idle(c) == [op |-> "idle", of |-> CHOOSE t \in Templates : TRUE,
            category |-> c, full |-> FALSE]
NoTask == Idle(CHOOSE c \in Categories : TRUE)

Busy(t) == \E r \in Requests : task[r].op # "idle" /\ task[r].of = t
Begin(r, op, t, category, full) ==
  /\ task[r].op = "idle"
  /\ task' = [task EXCEPT ![r] =
                [op |-> op, of |-> t, category |-> category, full |-> full]]
  /\ raced' = (raced \/ Busy(t))
  /\ UNCHANGED rows
Finish(r) == task' = [task EXCEPT ![r] = NoTask]

\* What the partial unique index accepts.
OneActivePerSpelling(table) ==
  \A t, u \in Templates :
    (/\ t # u /\ table[t].there /\ table[t].active
     /\ table[u].there /\ table[u].active) => table[t].category # table[u].category

Write(r, table) ==
  /\ rows' = IF rows[task[r].of].there /\ OneActivePerSpelling(table) THEN table ELSE rows
  /\ Finish(r)
  /\ UNCHANGED raced

Create(t) ==
  /\ ~rows[t].there
  /\ \E c \in Categories, full \in BOOLEAN :
       rows' = [rows EXCEPT ![t] =
                  [there |-> TRUE, category |-> c, full |-> full, active |-> FALSE]]
  /\ UNCHANGED <<task, raced>>

\* update: an active template must stay complete once the edit is merged.
\* (mutant) only the activation asks for a complete template
AnyEdit(t, full) == TRUE

MayStore(t, full) == rows[t].active => full

StartUpdate(r) ==
  \E t \in Templates, c \in Categories, full \in BOOLEAN :
    /\ rows[t].there /\ MayStore(t, full)
    /\ Begin(r, "update", t, c, full)

Update(r) ==
  /\ task[r].op = "update"
  /\ Write(r, [rows EXCEPT ![task[r].of].category = task[r].category,
                           ![task[r].of].full = task[r].full])

StartRemove(r) ==
  \E t \in Templates :
    rows[t].there /\ ~rows[t].active /\ Begin(r, "remove", t, rows[t].category, FALSE)

Remove(r) ==
  /\ task[r].op = "remove"
  /\ Write(r, [rows EXCEPT ![task[r].of].there = FALSE, ![task[r].of].active = FALSE])

StartActivate(r) ==
  \E t \in Templates :
    rows[t].there /\ rows[t].full /\ Begin(r, "activate", t, rows[t].category, TRUE)

\* One transaction: the others of the category it read are deactivated first.
Activate(r) ==
  /\ task[r].op = "activate"
  /\ Write(r, [t \in Templates |->
       IF t = task[r].of THEN [rows[t] EXCEPT !.active = TRUE]
       ELSE IF Fold(rows[t].category) = Fold(task[r].category)
              THEN [rows[t] EXCEPT !.active = FALSE]
       ELSE rows[t]])

StartDeactivate(r) ==
  \E t \in Templates :
    rows[t].there /\ rows[t].active /\ Begin(r, "deactivate", t, rows[t].category, FALSE)

Deactivate(r) ==
  /\ task[r].op = "deactivate"
  /\ Write(r, [rows EXCEPT ![task[r].of].active = FALSE])

Init ==
  /\ rows = [t \in Templates |-> [there |-> FALSE, category |-> NoTask.category,
                                  full |-> FALSE, active |-> FALSE]]
  /\ task = [r \in Requests |-> NoTask] /\ raced = FALSE

Next ==
  \/ \E t \in Templates : Create(t)
  \/ \E r \in Requests :
       \/ StartUpdate(r) \/ Update(r) \/ StartRemove(r) \/ Remove(r)
       \/ StartActivate(r) \/ Activate(r) \/ StartDeactivate(r) \/ Deactivate(r)

Spec == Init /\ [][Next]_vars

------------------------------------------------------------------------------

TypeOK ==
  /\ rows \in [Templates -> Row]
  /\ task \in [Requests -> [op : Ops, of : Templates, category : Categories,
                            full : BOOLEAN]]
  /\ raced \in BOOLEAN

\* Unless two requests on one template overlapped, the template that
\* getActiveTemplateForCategory finds can be rendered, through any sequence of
\* edits, activations and deactivations (certificate-templates.service.ts:93-223).
ActiveIsComplete ==
  ~raced => \A t \in Templates : rows[t].there /\ rows[t].active => rows[t].full
==============================================================================
