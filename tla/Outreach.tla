------------------------------ MODULE Outreach ------------------------------
(***************************************************************************)
(* What Anjo says first: the message of a reunion, which the daily drift    *)
(* may leave in a file, and the greeting of a first session.  Whoever makes *)
(* the next session (any request may) reads the file, puts the message in   *)
(* the session, deletes the file and appends the message to the history, in *)
(* steps that other requests, the drift, reflections and a crash come       *)
(* between.                                                                 *)
(*                                                                          *)
(* One user, the messages of the file numbered as they are written.  Of the *)
(* core there is what the gates read, and of the copy a task keeps of it    *)
(* what the task will save unchanged; ran is whether the drift ran today.   *)
(* Left out: the copy of the message in the session, which /chat/start      *)
(* hands to the client once, and a file that cannot be decrypted, which     *)
(* reads as none.                                                           *)
(***************************************************************************)
EXTENDS Naturals, Sequences

CONSTANTS
  Creators,    \* requests that may make a session
  Cooldown,    \* _COOLDOWN_DAYS
  MaxMessages, \* messages written (bound)
  MaxOutreachDays, \* days that pass (bound)
  MaxTasks     \* reflections, forgettings and resets (bound)

ASSUME OutreachOK == /\ Cooldown \in Nat /\ MaxMessages \in Nat
                     /\ MaxOutreachDays \in Nat \ {0} /\ MaxTasks \in Nat

VARIABLES
  file,      \* the pending message, or 0
  written,   \* the day each message was written
  core,      \* the core on the disk
  day,       \* the date
  live,      \* is there a session?
  row,       \* is the session persisted?
  spoken,    \* has the history any message?
  told,      \* how often each message was appended to the history
  creator,   \* where each request is
  drift,     \* where the drift of today is
  task,      \* a task that has loaded the core and will save it
  tasks,     \* tasks so far
  raced,     \* was a session ended while a request was making one?
  lost,      \* messages of requests cut short before their append
  forgot     \* was the date of a sending lost: a crash, a core saved over it?

outreachVars == <<file, written, core, day, live, row, spoken, told, creator, drift,
                  task, tasks, raced, lost, forgot>>
sessionVars == <<live, row, spoken, told, creator, raced, lost>>

Never == 0
NoMsg == 0
Hello == MaxMessages + 1
NewMind == [sent |-> Never, ran |-> FALSE, stage |-> "new"]
AtRest == [pc |-> "idle"]

OutreachInit ==
  /\ file = 0 /\ written = <<>> /\ day = 1
  /\ core \in {NewMind, [NewMind EXCEPT !.stage = "friend"]}
  /\ live = FALSE /\ row = FALSE /\ spoken = (core.stage # "new")
  /\ told = [m \in 1..Hello |-> 0]
  /\ creator = [c \in Creators |-> AtRest] /\ drift = AtRest /\ task = AtRest /\ tasks = 0
  /\ raced = FALSE /\ lost = {} /\ forgot = FALSE

-----------------------------------------------------------------------------
\* get_or_create_session.

\* Before the lock: the core, the persisted session, the file, the history.
ReadForSession(c) ==
  /\ creator[c] = AtRest /\ ~live
  /\ creator' = [creator EXCEPT ![c] =
       [pc |-> "read",
        msg |-> IF file # 0 THEN file
                ELSE IF core.stage = "new" /\ ~row /\ ~spoken THEN Hello ELSE NoMsg]]
  /\ UNCHANGED <<file, written, core, day, live, row, spoken, told, drift, task, tasks, raced, lost, forgot>>

AfterMaking(msg) ==
  IF msg = NoMsg THEN AtRest ELSE [pc |-> IF msg = Hello THEN "append" ELSE "unlink", msg |-> msg]

(* Mutant of MakeSession: without the second look. *)
BugMakeSession(c) ==
  /\ creator[c].pc = "read"
  /\ live' = TRUE
  /\ creator' = [creator EXCEPT ![c] = AfterMaking(creator[c].msg)]
  /\ UNCHANGED <<file, written, core, day, row, spoken, told, drift, task, tasks, raced, lost, forgot>>

\* Under the lock: another request may have made the session.
MakeSession(c) ==
  /\ creator[c].pc = "read"
  /\ live' = TRUE
  /\ creator' = [creator EXCEPT ![c] = IF live THEN AtRest ELSE AfterMaking(creator[c].msg)]
  /\ UNCHANGED <<file, written, core, day, row, spoken, told, drift, task, tasks, raced, lost, forgot>>

\* mark_delivered: whatever the file holds.
MarkDelivered(c) ==
  /\ creator[c].pc = "unlink"
  /\ file' = 0
  /\ creator' = [creator EXCEPT ![c].pc = "append"]
  /\ UNCHANGED <<written, core, day, live, row, spoken, told, drift, task, tasks, raced, lost, forgot>>

AppendToHistory(c) ==
  /\ creator[c].pc = "append"
  /\ told' = [told EXCEPT ![creator[c].msg] = @ + 1] /\ spoken' = TRUE
  /\ creator' = [creator EXCEPT ![c] = AtRest]
  /\ UNCHANGED <<file, written, core, day, live, row, drift, task, tasks, raced, lost, forgot>>

\* The append raises: the file is gone already.
AppendRaises(c) ==
  /\ creator[c].pc = "append"
  /\ lost' = lost \cup {creator[c].msg}
  /\ creator' = [creator EXCEPT ![c] = AtRest]
  /\ UNCHANGED <<file, written, core, day, live, row, spoken, told, drift, task, tasks, raced, forgot>>

\* A turn ends: the session is persisted and the history has it.
TakeTurn ==
  /\ live /\ row' = TRUE /\ spoken' = TRUE
  /\ UNCHANGED <<file, written, core, day, live, told, creator, drift, task, tasks, raced, lost, forgot>>

\* delete_session
Evict ==
  /\ live' = FALSE /\ row' = FALSE
  /\ raced' = (raced \/ \E c \in Creators : creator[c] # AtRest)

\* The chat is ended, or the inactivity watcher ends it.
EndSession ==
  /\ live /\ Evict
  /\ UNCHANGED <<file, written, core, day, spoken, told, creator, drift, task, tasks, lost, forgot>>

-----------------------------------------------------------------------------
\* The drift of a day and its outreach, in one thread.

Save(mind) ==
  /\ core' = mind
  /\ forgot' = (forgot \/ mind.sent \notin {core.sent, day})

DriftLoad ==
  /\ drift = AtRest /\ ~live /\ ~core.ran
  /\ drift' = [pc |-> "loaded", sent |-> core.sent, stage |-> core.stage]
  /\ UNCHANGED <<file, written, core, day, task, tasks, forgot, sessionVars>>

\* After a long absence the stage regresses; before a first session nothing does.
DriftSave ==
  /\ drift.pc = "loaded"
  /\ \E stage \in {drift.stage} \cup IF drift.stage = "new" THEN {} ELSE {"distant"} :
       Save([sent |-> drift.sent, ran |-> TRUE, stage |-> stage])
  /\ drift' = IF drift.stage = "new" THEN AtRest ELSE [pc |-> "saved"]
  /\ UNCHANGED <<file, written, day, task, tasks, sessionVars>>

CooldownOver == core.sent = Never \/ day - core.sent >= Cooldown

(* Mutant of MayReachOut: the undelivered message is not looked for. *)
BugMayReachOut == core.stage = "friend" /\ CooldownOver

(* Another mutant of MayReachOut: without the cooldown. *)
BugNoCooldown == file = 0 /\ core.stage = "friend"

\* The gates of maybe_generate_outreach.
MayReachOut == file = 0 /\ core.stage = "friend" /\ CooldownOver

\* The core is loaded again, and the model asked if the gates let it.
AskOutreach ==
  /\ drift.pc = "saved"
  /\ drift' = IF MayReachOut THEN [pc |-> "asked", ran |-> core.ran, stage |-> core.stage] ELSE AtRest
  /\ UNCHANGED <<file, written, core, day, task, tasks, forgot, sessionVars>>

KeepSilent ==
  /\ drift.pc = "asked" /\ drift' = AtRest
  /\ UNCHANGED <<file, written, core, day, task, tasks, forgot, sessionVars>>

SavePending ==
  /\ drift.pc = "asked" /\ Len(written) < MaxMessages
  /\ written' = Append(written, day) /\ file' = Len(written')
  /\ drift' = [drift EXCEPT !.pc = "written"]
  /\ UNCHANGED <<core, day, task, tasks, forgot, sessionVars>>

RecordSent ==
  /\ drift.pc = "written"
  /\ Save([sent |-> day, ran |-> drift.ran, stage |-> drift.stage])
  /\ drift' = AtRest
  /\ UNCHANGED <<file, written, day, task, tasks, sessionVars>>

-----------------------------------------------------------------------------
\* Reflection and forgetting load the core, ask the model and save the core.

BeginTask(kind) ==
  /\ task = AtRest /\ tasks < MaxTasks /\ tasks' = tasks + 1
  /\ task' = [pc |-> kind, sent |-> core.sent, ran |-> core.ran]
  /\ UNCHANGED <<file, written, core, day, drift, forgot, sessionVars>>

SaveTask(stage) ==
  /\ Save([sent |-> task.sent, ran |-> task.ran, stage |-> stage])
  /\ task' = AtRest

SaveReflection ==
  /\ task.pc = "reflect" /\ \E stage \in {"distant", "friend"} : SaveTask(stage)
  /\ UNCHANGED <<file, written, day, drift, tasks, sessionVars>>

\* The greeting may be told again once the history is empty.
Clear ==
  /\ told' = [told EXCEPT ![Hello] = 0] /\ spoken' = FALSE

\* The history goes first; the pending message is not among what is deleted.
ClearHistory ==
  /\ task.pc = "forget" /\ Clear
  /\ task' = [task EXCEPT !.pc = "cleared"]
  /\ UNCHANGED <<file, written, core, day, live, row, creator, drift, tasks, raced, lost, forgot>>

SaveForgotten ==
  /\ task.pc = "cleared" /\ SaveTask("new") /\ Evict
  /\ UNCHANGED <<file, written, day, spoken, told, creator, drift, tasks, lost>>

\* Factory reset, by the user or an admin: it unlinks the core's old file, which
\* is not read any more, and leaves relational_state.json as it is.
Reset ==
  /\ tasks < MaxTasks /\ tasks' = tasks + 1
  /\ Clear /\ Evict
  /\ UNCHANGED <<file, written, core, day, creator, drift, task, lost, forgot>>

\* Persisted sessions are live again at once.
RestartServer ==
  /\ creator' = [c \in Creators |-> AtRest] /\ drift' = AtRest /\ task' = AtRest
  /\ live' = row
  /\ lost' = lost \cup {creator[c].msg : c \in {k \in Creators : creator[k].pc = "append"}}
  /\ forgot' = (forgot \/ drift.pc = "written")
  /\ UNCHANGED <<file, written, core, day, row, spoken, told, tasks, raced>>

\* What ran on a day did not run on the next one; a pass takes less than a day.
DayPasses ==
  /\ drift = AtRest /\ day < MaxOutreachDays
  /\ day' = day + 1
  /\ core' = [core EXCEPT !.ran = FALSE]
  /\ task' = IF task = AtRest THEN task ELSE [task EXCEPT !.ran = FALSE]
  /\ UNCHANGED <<file, written, drift, tasks, forgot, sessionVars>>

OutreachNext ==
  \/ \E c \in Creators : \/ ReadForSession(c) \/ MakeSession(c) \/ MarkDelivered(c)
                         \/ AppendToHistory(c) \/ AppendRaises(c)
  \/ TakeTurn \/ EndSession
  \/ DriftLoad \/ DriftSave \/ AskOutreach \/ KeepSilent \/ SavePending \/ RecordSent
  \/ \E kind \in {"reflect", "forget"} : BeginTask(kind)
  \/ SaveReflection \/ ClearHistory \/ SaveForgotten \/ Reset
  \/ RestartServer \/ DayPasses

OutreachSpec == OutreachInit /\ [][OutreachNext]_outreachVars

-----------------------------------------------------------------------------

OutreachDays == 0..MaxOutreachDays
Stages == {"new", "distant", "friend"}
CreatorStep == {AtRest} \cup [pc : {"read", "unlink", "append"}, msg : 0..Hello]
DriftStep == {AtRest, [pc |-> "saved"]}
             \cup [pc : {"loaded"}, sent : OutreachDays, stage : Stages]
             \cup [pc : {"asked", "written"}, ran : BOOLEAN, stage : Stages]
TaskStep == {AtRest} \cup [pc : {"reflect", "forget", "cleared"}, sent : OutreachDays, ran : BOOLEAN]

OutreachTypeOK ==
  /\ file \in 0..Len(written) /\ written \in Seq(OutreachDays) /\ Len(written) <= MaxMessages
  /\ core \in [sent : OutreachDays, ran : BOOLEAN, stage : Stages] /\ day \in OutreachDays
  /\ live \in BOOLEAN /\ row \in BOOLEAN /\ spoken \in BOOLEAN
  /\ told \in [1..Hello -> Nat] /\ tasks \in 0..MaxTasks
  /\ creator \in [Creators -> CreatorStep] /\ drift \in DriftStep /\ task \in TaskStep
  /\ raced \in BOOLEAN /\ lost \subseteq 1..Hello /\ forgot \in BOOLEAN

(* "Don't overwrite an undelivered message": what was written is told some  *)
(* day.  At any moment a message waits in the file, is in the hands of the  *)
(* request that made the session, or was put in the history, unless that    *)
(* request was cut short before its append, or a session ended while        *)
(* another was being made.                                                  *)
KeptUntilTold ==
  raced \/ \A m \in DOMAIN written :
    \/ file = m \/ told[m] > 0 \/ m \in lost
    \/ \E c \in Creators : creator[c].pc = "append" /\ creator[c].msg = m

(* However many requests find the file, or a user with no history: no       *)
(* message is told twice, and one greeting is told until the history is     *)
(* cleared, unless a session ended while another was being made.            *)
ToldOnce == raced \/ \A m \in 1..Hello : told[m] <= 1

(* The "3-day cooldown": two messages are written at least Cooldown days    *)
(* apart, whatever deleted the first one, unless the date of the sending    *)
(* was lost with a crash or under a core loaded before.                     *)
Spaced ==
  forgot \/ \A i, j \in DOMAIN written : i < j => written[j] - written[i] >= Cooldown
=============================================================================
