---------------------------- MODULE OutreachProofs ----------------------------
(***************************************************************************)
(* Proofs about the outreach: for any number of requests that make a        *)
(* session, of reflections and resets, a pending message is told once and   *)
(* not dropped, and two messages are Cooldown days apart, with the two      *)
(* exceptions the properties name.                                          *)
(*                                                                          *)
(* Two inductive invariants, each relative to the types.  DeliveryInv is    *)
(* about the requests: while no session was ended under one, at most one of *)
(* them holds a message, and it holds the one the file had.  DatedInv is    *)
(* about the core: while no date was lost, the sending it remembers is the  *)
(* day of the last message, or the drift is about to save it.               *)
(***************************************************************************)
EXTENDS Outreach, SequenceTheorems, TLAPS

Minds == [sent : OutreachDays, ran : BOOLEAN, stage : Stages]
Underway == [pc : {"read", "unlink", "append"}, msg : 0..Hello]

\* A request that has taken the message and not put it in the history.
Holds(c) == creator[c].pc \in {"unlink", "append"}

SessionTypes ==
  /\ live \in BOOLEAN /\ row \in BOOLEAN /\ spoken \in BOOLEAN /\ raced \in BOOLEAN
  /\ told \in [1..Hello -> Nat] /\ lost \subseteq 1..Hello
  /\ creator \in [Creators -> {AtRest} \cup Underway]
  /\ \A c \in Creators : Holds(c) => creator[c].msg # NoMsg

MindTypes ==
  /\ file \in 0..Len(written) /\ written \in Seq(OutreachDays) /\ Len(written) <= MaxMessages
  /\ core \in Minds /\ day \in OutreachDays /\ day > 0
  /\ drift \in DriftStep /\ task \in TaskStep
  /\ tasks \in 0..MaxTasks /\ forgot \in BOOLEAN
  /\ drift.pc = "asked" => file = 0

OutreachTypes == SessionTypes /\ MindTypes

LEMMA TypesTyped == OutreachTypes <=> /\ OutreachTypeOK
                                      /\ day > 0
                                      /\ drift.pc = "asked" => file = 0
                                      /\ \A c \in Creators : Holds(c) => creator[c].msg # NoMsg
<1> USE OutreachOK
<1>1. CreatorStep = {AtRest} \cup Underway
  BY DEF CreatorStep, Underway
<1> QED BY <1>1, Zenon DEF OutreachTypes, SessionTypes, MindTypes, OutreachTypeOK, Minds

\* A request at rest, or underway.
LEMMA CreatorKinds ==
  ASSUME NEW s \in {AtRest} \cup Underway
  PROVE  /\ s.pc = "idle" <=> s = AtRest
         /\ s.pc # "idle" => s \in Underway /\ s.msg \in 0..Hello
BY DEF AtRest, Underway

\* One request moves to a new step.
LEMMA CreatorMoves ==
  ASSUME SessionTypes, NEW c \in Creators, NEW s \in {AtRest} \cup Underway,
         creator' = [creator EXCEPT ![c] = s],
         s.pc \in {"unlink", "append"} => s.msg # NoMsg
  PROVE  /\ creator' \in [Creators -> {AtRest} \cup Underway]
         /\ creator'[c] = s
         /\ \A d \in Creators : d # c => creator'[d] = creator[d]
         /\ \A d \in Creators : Holds(d)' => creator'[d].msg # NoMsg
<1>1. /\ creator' \in [Creators -> {AtRest} \cup Underway]
      /\ creator'[c] = s
      /\ \A d \in Creators : d # c => creator'[d] = creator[d]
  BY Zenon DEF SessionTypes
<1>2. ASSUME NEW d \in Creators, Holds(d)' PROVE creator'[d].msg # NoMsg
  <2>1. CASE d = c
    BY <1>1, <1>2, <2>1 DEF Holds
  <2>2. CASE d # c
    BY <1>1, <1>2, <2>2 DEF Holds, SessionTypes
  <2> QED BY <2>1, <2>2
<1> QED BY <1>1, <1>2

\* A message is told once more.
LEMMA ToldGrows ==
  ASSUME told \in [1..Hello -> Nat], NEW m \in 1..Hello, told' = [told EXCEPT ![m] = @ + 1]
  PROVE  /\ told' \in [1..Hello -> Nat]
         /\ told'[m] = told[m] + 1
         /\ \A k \in 1..Hello : k # m => told'[k] = told[k]
<1> DEFINE h == told[m] + 1
<1>1. h \in Nat
  OBVIOUS
<1>2. told' = [told EXCEPT ![m] = h]
  OBVIOUS
<1> HIDE DEF h
<1>3. /\ told' \in [1..Hello -> Nat]
      /\ told'[m] = h
      /\ \A k \in 1..Hello : k # m => told'[k] = told[k]
  BY <1>1, <1>2, Zenon
<1> QED BY <1>3 DEF h

\* What the lock makes of the message of the request.
LEMMA MakingKinds ==
  ASSUME NEW msg \in 0..Hello
  PROVE  /\ AfterMaking(msg) \in {AtRest} \cup Underway
         /\ AfterMaking(msg).pc \in {"idle", "unlink", "append"}
         /\ AfterMaking(msg).pc # "idle" => AfterMaking(msg).msg = msg /\ msg # NoMsg
         /\ AfterMaking(msg).pc = "append" => msg = Hello
         /\ AfterMaking(msg).pc = "unlink" => msg # Hello
BY DEF AfterMaking, AtRest, Underway

LEMMA SessionTypesStep ==
  ASSUME OutreachTypes, [OutreachNext]_outreachVars
  PROVE  SessionTypes'
<1> USE OutreachOK
<1>0. /\ SessionTypes /\ file \in 0..Hello /\ Hello \in Nat /\ Hello \in 1..Hello
      /\ creator \in [Creators -> {AtRest} \cup Underway]
  BY DEF OutreachTypes, MindTypes, SessionTypes, Hello
<1>1. ASSUME NEW c \in Creators, ReadForSession(c) PROVE SessionTypes'
  <2> DEFINE m == IF file # 0 THEN file
                  ELSE IF core.stage = "new" /\ ~row /\ ~spoken THEN Hello ELSE NoMsg
             s == [pc |-> "read", msg |-> m]
  <2>1. m \in 0..Hello
    BY <1>0 DEF NoMsg
  <2>2. s \in {AtRest} \cup Underway /\ s.pc = "read"
    BY <2>1 DEF Underway
  <2>3. creator' = [creator EXCEPT ![c] = s] /\ UNCHANGED <<live, row, spoken, told, raced, lost>>
    BY <1>1 DEF ReadForSession
  <2> HIDE DEF m, s
  <2> QED BY <1>0, <2>2, <2>3, CreatorMoves DEF SessionTypes
<1>2. ASSUME NEW c \in Creators, MakeSession(c) PROVE SessionTypes'
  <2> DEFINE s == IF live THEN AtRest ELSE AfterMaking(creator[c].msg)
  <2>1. creator[c].msg \in 0..Hello
    BY <1>0, <1>2, CreatorKinds DEF MakeSession
  <2>2. s \in {AtRest} \cup Underway /\ (s.pc \in {"unlink", "append"} => s.msg # NoMsg)
    BY <2>1, MakingKinds DEF AtRest
  <2>3. creator' = [creator EXCEPT ![c] = s] /\ live' = TRUE /\ UNCHANGED <<row, spoken, told, raced, lost>>
    BY <1>2 DEF MakeSession
  <2> HIDE DEF s
  <2> QED BY <1>0, <2>2, <2>3, CreatorMoves DEF SessionTypes
<1>3. ASSUME NEW c \in Creators, MarkDelivered(c) PROVE SessionTypes'
  <2> DEFINE s == [creator[c] EXCEPT !.pc = "append"]
  <2>1. creator[c] \in Underway /\ creator[c].msg # NoMsg
    BY <1>0, <1>3, CreatorKinds DEF MarkDelivered, SessionTypes, Holds
  <2>2. s \in Underway /\ s.msg # NoMsg
    BY <2>1 DEF Underway
  <2>3. creator' = [creator EXCEPT ![c] = s] /\ UNCHANGED <<live, row, spoken, told, raced, lost>>
    BY <1>3, <1>0 DEF MarkDelivered
  <2> HIDE DEF s
  <2> QED BY <1>0, <2>2, <2>3, CreatorMoves DEF SessionTypes
<1>4. ASSUME NEW c \in Creators, AppendToHistory(c) \/ AppendRaises(c) PROVE SessionTypes'
  <2>1. creator[c].msg \in 1..Hello
    BY <1>0, <1>4, CreatorKinds DEF AppendToHistory, AppendRaises, SessionTypes, Holds, NoMsg
  <2>2. AtRest \in {AtRest} \cup Underway /\ AtRest.pc = "idle"
    BY DEF AtRest
  <2>3. creator' = [creator EXCEPT ![c] = AtRest] /\ UNCHANGED <<live, row, raced>>
    BY <1>4 DEF AppendToHistory, AppendRaises
  <2>4. told' \in [1..Hello -> Nat]
    <3>1. CASE AppendToHistory(c)
      BY <1>0, <2>1, <3>1, ToldGrows DEF AppendToHistory, SessionTypes
    <3>2. CASE AppendRaises(c)
      BY <1>0, <3>2 DEF AppendRaises, SessionTypes
    <3> QED BY <1>4, <3>1, <3>2
  <2>5. spoken' \in BOOLEAN /\ lost' \subseteq 1..Hello
    BY <1>0, <1>4, <2>1 DEF AppendToHistory, AppendRaises, SessionTypes
  <2> QED BY <1>0, <2>2, <2>3, <2>4, <2>5, CreatorMoves DEF SessionTypes
<1>5. CASE TakeTurn
  BY <1>0, <1>5 DEF TakeTurn, SessionTypes, Holds
<1>6. CASE EndSession
  BY <1>0, <1>6 DEF EndSession, Evict, SessionTypes, Holds
<1>7. CASE UNCHANGED sessionVars
  BY <1>0, <1>7 DEF sessionVars, SessionTypes, Holds
<1>8. ASSUME Clear PROVE told' \in [1..Hello -> Nat] /\ spoken' \in BOOLEAN
  BY <1>0, <1>8 DEF Clear, SessionTypes
<1>9. CASE ClearHistory
  BY <1>0, <1>8, <1>9 DEF ClearHistory, SessionTypes, Holds
<1>10. CASE SaveForgotten
  BY <1>0, <1>10 DEF SaveForgotten, Evict, SessionTypes, Holds
<1>11. CASE Reset
  BY <1>0, <1>8, <1>11 DEF Reset, Evict, SessionTypes, Holds
<1>12. CASE RestartServer
  <2>1. /\ creator' \in [Creators -> {AtRest} \cup Underway]
        /\ \A c \in Creators : creator'[c] = AtRest
    BY <1>12 DEF RestartServer
  <2>2. \A c \in Creators : ~Holds(c)'
    BY <2>1 DEF Holds, AtRest
  <2>3. \A c \in Creators : creator[c].pc = "append" => creator[c].msg \in 1..Hello
    BY <1>0, CreatorKinds DEF SessionTypes, Holds, NoMsg
  <2>4. lost' \subseteq 1..Hello
    BY <1>0, <1>12, <2>3 DEF RestartServer, SessionTypes
  <2> QED BY <1>0, <1>12, <2>1, <2>2, <2>4 DEF RestartServer, SessionTypes
<1>13. DriftLoad \/ DriftSave \/ AskOutreach \/ KeepSilent \/ SavePending \/ RecordSent
       \/ (\E kind \in {"reflect", "forget"} : BeginTask(kind)) \/ SaveReflection \/ DayPasses
       => UNCHANGED sessionVars
  BY DEF DriftLoad, DriftSave, AskOutreach, KeepSilent, SavePending, RecordSent, BeginTask,
         SaveReflection, DayPasses, sessionVars
<1>14. UNCHANGED outreachVars => UNCHANGED sessionVars
  BY DEF outreachVars, sessionVars
<1> QED
  BY <1>1, <1>2, <1>3, <1>4, <1>5, <1>6, <1>7, <1>9, <1>10, <1>11, <1>12, <1>13, <1>14, Zenon
  DEF OutreachNext
\* A core of the day, and the ways to write it.
LEMMA MindKinds ==
  ASSUME MindTypes
  PROVE  /\ core.sent \in OutreachDays /\ core.ran \in BOOLEAN /\ core.stage \in Stages
         /\ NewMind \in Minds
         /\ \A sent \in OutreachDays, ran \in BOOLEAN, stage \in Stages :
              [sent |-> sent, ran |-> ran, stage |-> stage] \in Minds
         /\ [core EXCEPT !.ran = FALSE] \in Minds
         /\ [core EXCEPT !.ran = FALSE].sent = core.sent
<1>1. core \in Minds
  BY DEF MindTypes
<1>2. Never \in OutreachDays /\ "new" \in Stages
  BY OutreachOK DEF Never, OutreachDays, Stages
<1> HIDE DEF OutreachDays, Stages
<1>3. core.sent \in OutreachDays /\ core.ran \in BOOLEAN /\ core.stage \in Stages
  BY <1>1 DEF Minds
<1>4. NewMind \in Minds
  BY <1>2 DEF Minds, NewMind
<1>5. \A sent \in OutreachDays, ran \in BOOLEAN, stage \in Stages :
        [sent |-> sent, ran |-> ran, stage |-> stage] \in Minds
  BY DEF Minds
<1>6. [core EXCEPT !.ran = FALSE] \in Minds /\ [core EXCEPT !.ran = FALSE].sent = core.sent
  BY <1>1 DEF Minds
<1> QED BY <1>3, <1>4, <1>5, <1>6

\* What the drift remembers, by how far it is.
LEMMA DriftKinds ==
  ASSUME drift \in DriftStep
  PROVE  /\ drift.pc = "idle" <=> drift = AtRest
         /\ drift.pc = "loaded" => drift.sent \in OutreachDays /\ drift.stage \in Stages
         /\ drift.pc \in {"asked", "written"} =>
              /\ drift.ran \in BOOLEAN /\ drift.stage \in Stages
              /\ [drift EXCEPT !.pc = "written"] \in DriftStep
              /\ [drift EXCEPT !.pc = "written"].pc = "written"
<1> HIDE DEF OutreachDays, Stages
<1>1. CASE drift = AtRest
  BY <1>1 DEF AtRest
<1>2. CASE drift = [pc |-> "saved"]
  BY <1>2 DEF AtRest
<1>3. CASE drift \in [pc : {"loaded"}, sent : OutreachDays, stage : Stages]
  BY <1>3 DEF AtRest
<1>4. CASE drift \in [pc : {"asked", "written"}, ran : BOOLEAN, stage : Stages]
  <2>1. /\ [drift EXCEPT !.pc = "written"] \in [pc : {"asked", "written"}, ran : BOOLEAN, stage : Stages]
        /\ [drift EXCEPT !.pc = "written"].pc = "written"
    BY <1>4
  <2>2. /\ drift.pc \in {"asked", "written"} /\ drift.ran \in BOOLEAN /\ drift.stage \in Stages
        /\ drift # AtRest
    BY <1>4 DEF AtRest
  <2> QED BY <2>1, <2>2, Zenon DEF DriftStep
<1> QED BY <1>1, <1>2, <1>3, <1>4, Zenon DEF DriftStep

\* What a task remembers.
LEMMA TaskKinds ==
  ASSUME task \in TaskStep
  PROVE  /\ task.pc = "idle" <=> task = AtRest
         /\ task # AtRest =>
              /\ task.sent \in OutreachDays /\ task.ran \in BOOLEAN
              /\ [task EXCEPT !.pc = "cleared"] \in TaskStep
              /\ [task EXCEPT !.pc = "cleared"].sent = task.sent
              /\ [task EXCEPT !.ran = FALSE] \in TaskStep
              /\ [task EXCEPT !.ran = FALSE].sent = task.sent
<1> HIDE DEF OutreachDays
<1>1. CASE task = AtRest
  BY <1>1 DEF AtRest
<1>2. CASE task \in [pc : {"reflect", "forget", "cleared"}, sent : OutreachDays, ran : BOOLEAN]
  <2>1. /\ task.pc # "idle" /\ task # AtRest
        /\ task.sent \in OutreachDays /\ task.ran \in BOOLEAN
        /\ [task EXCEPT !.pc = "cleared"].sent = task.sent
        /\ [task EXCEPT !.ran = FALSE].sent = task.sent
    BY <1>2 DEF AtRest
  <2>2. [task EXCEPT !.pc = "cleared"] \in [pc : {"reflect", "forget", "cleared"}, sent : OutreachDays, ran : BOOLEAN]
    BY <1>2
  <2>3. [task EXCEPT !.ran = FALSE] \in [pc : {"reflect", "forget", "cleared"}, sent : OutreachDays, ran : BOOLEAN]
    BY <1>2
  <2> QED BY <2>1, <2>2, <2>3, Zenon DEF TaskStep
<1> QED BY <1>1, <1>2, Zenon DEF TaskStep

LEMMA SaveTypes ==
  ASSUME MindTypes, NEW mind \in Minds, Save(mind)
  PROVE  core' \in Minds /\ core' = mind /\ forgot' \in BOOLEAN
BY DEF Save, MindTypes

\* The message of today is the last of the messages.
LEMMA WrittenGrows ==
  ASSUME MindTypes, SavePending
  PROVE  /\ written' \in Seq(OutreachDays) /\ Len(written') = Len(written) + 1
         /\ Len(written) \in Nat /\ Len(written) < MaxMessages
         /\ written'[Len(written')] = day
         /\ \A i \in DOMAIN written : i \in 1..Len(written) /\ written'[i] = written[i]
         /\ DOMAIN written' = DOMAIN written \cup {Len(written')}
         /\ file' = Len(written')
<1>1. written \in Seq(OutreachDays) /\ day \in OutreachDays
  BY DEF MindTypes
<1>2. written' = Append(written, day) /\ file' = Len(written') /\ Len(written) < MaxMessages
  BY DEF SavePending
<1> HIDE DEF OutreachDays
<1> QED BY <1>1, <1>2

LEMMA MindTypesStep ==
  ASSUME OutreachTypes, [OutreachNext]_outreachVars
  PROVE  MindTypes'
<1> USE OutreachOK
<1>0. MindTypes
  BY DEF OutreachTypes
<1>1. CASE UNCHANGED <<written, core, day, drift, task, tasks, forgot>> /\ file' \in {file, 0}
  <2>1. file' \in 0..Len(written')
    BY <1>0, <1>1 DEF MindTypes
  <2> QED BY <1>0, <1>1, <2>1 DEF MindTypes
<1>2. (\E c \in Creators : \/ ReadForSession(c) \/ MakeSession(c) \/ MarkDelivered(c)
                           \/ AppendToHistory(c) \/ AppendRaises(c)) \/ TakeTurn \/ EndSession
      \/ UNCHANGED outreachVars
      => UNCHANGED <<written, core, day, drift, task, tasks, forgot>> /\ file' \in {file, 0}
  BY DEF ReadForSession, MakeSession, MarkDelivered, AppendToHistory, AppendRaises, TakeTurn,
         EndSession, outreachVars
<1>3. CASE DriftLoad
  <2>1. drift' \in [pc : {"loaded"}, sent : OutreachDays, stage : Stages]
    BY <1>0, <1>3, MindKinds DEF DriftLoad
  <2>2. drift' \in DriftStep /\ drift'.pc = "loaded"
    BY <2>1 DEF DriftStep
  <2> QED BY <1>0, <1>3, <2>2 DEF DriftLoad, MindTypes
<1>4. CASE DriftSave
  <2>1. drift.pc = "loaded" /\ drift.sent \in OutreachDays /\ drift.stage \in Stages
    BY <1>0, <1>4, DriftKinds DEF DriftSave, MindTypes
  <2>2. PICK stage \in {drift.stage} \cup IF drift.stage = "new" THEN {} ELSE {"distant"} :
          Save([sent |-> drift.sent, ran |-> TRUE, stage |-> stage])
    BY <1>4 DEF DriftSave
  <2>3. stage \in Stages
    BY <2>1 DEF Stages
  <2>4. [sent |-> drift.sent, ran |-> TRUE, stage |-> stage] \in Minds
    BY <1>0, <2>1, <2>3, MindKinds
  <2>5. core' \in Minds /\ forgot' \in BOOLEAN
    BY <1>0, <2>2, <2>4, SaveTypes
  <2>6. drift' \in DriftStep /\ drift'.pc \in {"idle", "saved"}
    BY <1>4 DEF DriftSave, DriftStep, AtRest
  <2> QED BY <1>0, <1>4, <2>5, <2>6 DEF DriftSave, MindTypes
<1>5. CASE AskOutreach
  <2>1. CASE MayReachOut
    <3>1. drift' \in [pc : {"asked", "written"}, ran : BOOLEAN, stage : Stages]
      BY <1>0, <1>5, <2>1, MindKinds DEF AskOutreach
    <3>2. drift' \in DriftStep /\ file' = 0
      BY <1>5, <2>1, <3>1 DEF DriftStep, MayReachOut, AskOutreach
    <3> QED BY <1>0, <1>5, <3>2 DEF AskOutreach, MindTypes
  <2>2. CASE ~MayReachOut
    <3>1. drift' \in DriftStep /\ drift'.pc = "idle"
      BY <1>5, <2>2 DEF AskOutreach, DriftStep, AtRest
    <3> QED BY <1>0, <1>5, <3>1 DEF AskOutreach, MindTypes
  <2> QED BY <2>1, <2>2
<1>6. AtRest \in DriftStep /\ AtRest \in TaskStep /\ AtRest.pc = "idle"
  BY DEF DriftStep, TaskStep, AtRest
<1>7. CASE KeepSilent
  BY <1>0, <1>6, <1>7 DEF KeepSilent, MindTypes
<1>8. CASE SavePending
  <2>1. drift' \in DriftStep /\ drift'.pc = "written"
    BY <1>0, <1>8, DriftKinds DEF SavePending, MindTypes
  <2>2. file' \in 0..Len(written') /\ written' \in Seq(OutreachDays) /\ Len(written') <= MaxMessages
    BY <1>0, <1>8, WrittenGrows
  <2> QED BY <1>0, <1>8, <2>1, <2>2 DEF SavePending, MindTypes
<1>9. CASE RecordSent
  <2>1. drift.pc = "written" /\ drift.ran \in BOOLEAN /\ drift.stage \in Stages
    BY <1>0, <1>9, DriftKinds DEF RecordSent, MindTypes
  <2>2. [sent |-> day, ran |-> drift.ran, stage |-> drift.stage] \in Minds
    BY <1>0, <2>1, MindKinds DEF MindTypes
  <2>3. core' \in Minds /\ forgot' \in BOOLEAN
    BY <1>0, <1>9, <2>2, SaveTypes DEF RecordSent
  <2> QED BY <1>0, <1>6, <1>9, <2>3 DEF RecordSent, MindTypes
<1>10. ASSUME NEW kind \in {"reflect", "forget"}, BeginTask(kind) PROVE MindTypes'
  <2>1. task' \in [pc : {"reflect", "forget", "cleared"}, sent : OutreachDays, ran : BOOLEAN]
    BY <1>0, <1>10, MindKinds DEF BeginTask
  <2>2. task' \in TaskStep
    BY <2>1 DEF TaskStep
  <2>3. tasks' \in 0..MaxTasks
    BY <1>0, <1>10 DEF BeginTask, MindTypes
  <2> QED BY <1>0, <1>10, <2>2, <2>3 DEF BeginTask, MindTypes
<1>11. ASSUME NEW stage \in Stages, task # AtRest, SaveTask(stage)
       PROVE  core' \in Minds /\ forgot' \in BOOLEAN /\ task' \in TaskStep
  <2>1. [sent |-> task.sent, ran |-> task.ran, stage |-> stage] \in Minds
    BY <1>0, <1>11, MindKinds, TaskKinds DEF MindTypes
  <2> QED BY <1>0, <1>6, <1>11, <2>1, SaveTypes DEF SaveTask
<1>12. CASE SaveReflection
  <2>1. task # AtRest /\ \E stage \in Stages : SaveTask(stage)
    BY <1>12 DEF SaveReflection, AtRest, Stages
  <2> QED BY <1>0, <1>11, <1>12, <2>1 DEF SaveReflection, MindTypes
<1>13. CASE ClearHistory
  <2>1. task' \in TaskStep
    BY <1>0, <1>13, TaskKinds DEF ClearHistory, MindTypes, AtRest
  <2> QED BY <1>0, <1>13, <2>1 DEF ClearHistory, MindTypes
<1>14. CASE SaveForgotten
  <2>1. task # AtRest /\ "new" \in Stages /\ SaveTask("new")
    BY <1>14 DEF SaveForgotten, AtRest, Stages
  <2>2. core' \in Minds /\ forgot' \in BOOLEAN /\ task' \in TaskStep
    BY <1>11, <2>1
  <2> QED BY <1>0, <1>14, <2>2 DEF SaveForgotten, MindTypes
<1>15. CASE Reset
  <2>1. tasks' \in 0..MaxTasks
    BY <1>0, <1>15 DEF Reset, MindTypes
  <2> QED BY <1>0, <1>15, <2>1 DEF Reset, MindTypes
<1>16. CASE RestartServer
  <2>1. forgot' \in BOOLEAN
    BY <1>0, <1>16 DEF RestartServer, MindTypes
  <2> QED BY <1>0, <1>6, <1>16, <2>1 DEF RestartServer, MindTypes
<1>17. CASE DayPasses
  <2>1. task' \in TaskStep
    BY <1>0, <1>6, <1>17, TaskKinds DEF DayPasses, MindTypes
  <2>2. core' \in Minds
    BY <1>0, <1>17, MindKinds DEF DayPasses
  <2>3. day' \in OutreachDays /\ day' > 0
    BY <1>0, <1>17 DEF DayPasses, MindTypes, OutreachDays
  <2> QED BY <1>0, <1>17, <2>1, <2>2, <2>3 DEF DayPasses, MindTypes
<1> QED
  BY <1>1, <1>2, <1>3, <1>4, <1>5, <1>7, <1>8, <1>9, <1>10, <1>12, <1>13, <1>14, <1>15, <1>16,
     <1>17, Zenon
  DEF OutreachNext
LEMMA TypesStep == OutreachTypes /\ [OutreachNext]_outreachVars => OutreachTypes'
BY SessionTypesStep, MindTypesStep DEF OutreachTypes

LEMMA TypesInit == OutreachInit => OutreachTypes
<1> SUFFICES ASSUME OutreachInit PROVE OutreachTypes
  OBVIOUS
<1> USE OutreachOK
<1>1. /\ core \in Minds /\ day \in OutreachDays
  <2>1. Never \in OutreachDays /\ 1 \in OutreachDays /\ {"new", "friend"} \subseteq Stages
    BY DEF Never, OutreachDays, Stages
  <2>2. NewMind \in Minds /\ [NewMind EXCEPT !.stage = "friend"] \in Minds
    BY <2>1 DEF NewMind, Minds
  <2> QED BY <2>1, <2>2 DEF OutreachInit
<1>2. \A c \in Creators : creator[c] = AtRest
  BY DEF OutreachInit
<1>3. \A c \in Creators : ~Holds(c)
  <2>1. AtRest.pc = "idle"
    BY DEF AtRest
  <2> QED BY <1>2, <2>1 DEF Holds
<1>4. SessionTypes
  <2>1. told \in [1..Hello -> Nat]
    BY DEF OutreachInit
  <2>2. creator \in [Creators -> {AtRest} \cup Underway]
    BY DEF OutreachInit
  <2>3. spoken = (core.stage # "new")
    BY DEF OutreachInit
  <2>4. spoken \in BOOLEAN
    BY <2>3, Zenon
  <2>5. live \in BOOLEAN /\ row \in BOOLEAN /\ raced \in BOOLEAN /\ lost = {}
    BY DEF OutreachInit
  <2> QED BY <1>3, <2>1, <2>2, <2>4, <2>5 DEF SessionTypes
<1>5. MindTypes
  <2>1. file = 0 /\ written = <<>> /\ tasks = 0 /\ forgot = FALSE /\ day = 1
    BY DEF OutreachInit
  <2>2. drift \in DriftStep /\ task \in TaskStep
    BY Zenon DEF OutreachInit, DriftStep, TaskStep
  <2>3. written \in Seq(OutreachDays) /\ Len(written) = 0
    BY <2>1
  <2>4. file \in 0..Len(written) /\ tasks \in 0..MaxTasks /\ Len(written) <= MaxMessages
    BY <2>1, <2>3
  <2>5. day > 0
    BY <2>1
  <2>6. forgot \in BOOLEAN
    BY <2>1, Zenon
  <2> QED BY <1>1, <2>1, <2>2, <2>3, <2>4, <2>5, <2>6, Zenon DEF MindTypes
<1> QED BY <1>4, <1>5 DEF OutreachTypes

(* Every variable of the outreach has its type at any time, for any number  *)
(* of requests, messages, days and tasks.                                   *)
THEOREM OutreachTypeCorrect == OutreachSpec => []OutreachTypeOK
<1>1. OutreachTypes => OutreachTypeOK
  BY TypesTyped
<1> QED BY <1>1, TypesInit, TypesStep, PTL DEF OutreachSpec

(***************************************************************************)
(* Delivery                                                                *)
(***************************************************************************)

\* In the file, or not written yet.
Undelivered(m) == m = file \/ m > Len(written)

\* At most one request holds a message, and it holds it alone; and what a
\* request has read waits for it as long as no session is made.
Handover ==
  /\ told[Hello] > 0 => spoken
  /\ \A m \in 1..MaxMessages : Undelivered(m) => told[m] = 0
  /\ \A c \in Creators : Holds(c) => live
  /\ \A c, d \in Creators : Holds(c) /\ Holds(d) => c = d
  /\ \A c \in Creators : creator[c].pc = "unlink" => creator[c].msg = file
  /\ \A c \in Creators : creator[c].pc = "append" =>
        /\ creator[c].msg # file /\ told[creator[c].msg] = 0
        /\ creator[c].msg = Hello \/ creator[c].msg <= Len(written)
  /\ \A c \in Creators : creator[c].pc = "read" /\ ~live =>
        creator[c].msg \in {NoMsg, file} \/ (creator[c].msg = Hello /\ told[Hello] = 0)

\* No session was ended while a request was making one.
DeliveryInv == raced \/ (Handover /\ KeptUntilTold /\ ToldOnce)

\* A request is at rest, has read, or holds.
LEMMA HoldsKinds ==
  ASSUME OutreachTypes, NEW c \in Creators
  PROVE  /\ Holds(c) \/ creator[c].pc \in {"idle", "read"}
         /\ Holds(c) => creator[c].msg \in 1..Hello
         /\ creator[c].pc # "idle" => creator[c].msg \in 0..Hello
         /\ creator[c] = AtRest <=> creator[c].pc = "idle"
<1>1. creator[c] \in {AtRest} \cup Underway /\ (Holds(c) => creator[c].msg # NoMsg)
  BY DEF OutreachTypes, SessionTypes
<1>2. /\ creator[c].pc = "idle" <=> creator[c] = AtRest
      /\ creator[c].pc # "idle" => creator[c] \in Underway /\ creator[c].msg \in 0..Hello
  BY <1>1, CreatorKinds
<1>3. creator[c].pc # "idle" => creator[c].pc \in {"read", "unlink", "append"}
  BY <1>2 DEF Underway
<1> QED BY <1>1, <1>2, <1>3, OutreachOK DEF Holds, NoMsg, Hello
\* Nothing of the delivery moves.
LEMMA DeliveryFrame ==
  ASSUME DeliveryInv, UNCHANGED <<file, written, sessionVars>>
  PROVE  DeliveryInv'
BY DEF DeliveryInv, sessionVars, Handover, Undelivered, Holds, KeptUntilTold, ToldOnce

LEMMA DeliveryCreators ==
  ASSUME OutreachTypes, DeliveryInv, ~raced', NEW c \in Creators,
         ReadForSession(c) \/ MakeSession(c) \/ MarkDelivered(c)
           \/ AppendToHistory(c) \/ AppendRaises(c)
  PROVE  Handover' /\ KeptUntilTold' /\ ToldOnce'
<1> USE OutreachOK
<1>0. /\ Handover /\ KeptUntilTold /\ ToldOnce /\ ~raced
      /\ SessionTypes /\ file \in 0..Len(written) /\ Len(written) \in Nat
      /\ Len(written) <= MaxMessages /\ Hello \in Nat /\ Hello > MaxMessages
      /\ DOMAIN written = 1..Len(written)
  <2>1. ~raced
    BY DEF ReadForSession, MakeSession, MarkDelivered, AppendToHistory, AppendRaises
  <2> QED BY <2>1 DEF DeliveryInv, OutreachTypes, MindTypes, Hello
<1>1. CASE ReadForSession(c)
  <2> DEFINE m == IF file # 0 THEN file
                  ELSE IF core.stage = "new" /\ ~row /\ ~spoken THEN Hello ELSE NoMsg
             s == [pc |-> "read", msg |-> m]
  <2>1. m \in {NoMsg, file} \/ (m = Hello /\ ~spoken)
    OBVIOUS
  <2>2. m \in 0..Hello
    BY <1>0 DEF NoMsg
  <2>3. s \in {AtRest} \cup Underway /\ s.pc = "read" /\ s.msg = m
    BY <2>2 DEF Underway
  <2>4. creator' = [creator EXCEPT ![c] = s] /\ creator[c] = AtRest
        /\ UNCHANGED <<file, written, live, spoken, told, lost>>
    BY <1>1 DEF ReadForSession
  <2> HIDE DEF m, s
  <2>5. /\ creator'[c] = s
        /\ \A d \in Creators : d # c => creator'[d] = creator[d]
    BY <1>0, <2>3, <2>4, CreatorMoves
  <2>6. \A d \in Creators : Holds(d)' => Holds(d) /\ d # c
    BY <2>3, <2>5 DEF Holds
  <2>7. told[Hello] \in Nat /\ (~spoken => told[Hello] = 0)
    BY <1>0 DEF SessionTypes, Handover
  <2>8. Handover'
    <3>1. \A d \in Creators : creator'[d].pc = "read" /\ ~live' =>
            creator'[d].msg \in {NoMsg, file} \/ (creator'[d].msg = Hello /\ told[Hello] = 0)
      BY <1>0, <2>1, <2>3, <2>4, <2>5, <2>7 DEF Handover
    <3>2. \A d \in Creators : /\ creator'[d].pc = "unlink" => creator[d].pc = "unlink" /\ creator'[d] = creator[d]
                              /\ creator'[d].pc = "append" => creator[d].pc = "append" /\ creator'[d] = creator[d]
      BY <2>3, <2>5
    <3> QED BY <1>0, <2>4, <2>6, <3>1, <3>2 DEF Handover, Undelivered
  <2>9. KeptUntilTold'
    <3>1. \A d \in Creators : creator[d].pc = "append" => creator'[d] = creator[d]
      BY <2>4, <2>5 DEF AtRest
    <3> QED BY <1>0, <2>4, <3>1 DEF KeptUntilTold
  <2> QED BY <1>0, <2>4, <2>8, <2>9 DEF ToldOnce
<1>2. CASE MakeSession(c)
  <2> DEFINE s == IF live THEN AtRest ELSE AfterMaking(creator[c].msg)
  <2>1. creator[c].msg \in 0..Hello /\ creator[c].pc = "read"
    BY <1>2, HoldsKinds DEF MakeSession
  <2>2. s \in {AtRest} \cup Underway /\ (s.pc \in {"unlink", "append"} => s.msg # NoMsg)
    BY <2>1, MakingKinds DEF AtRest
  <2>3. creator' = [creator EXCEPT ![c] = s] /\ live' = TRUE
        /\ UNCHANGED <<file, written, spoken, told, lost>>
    BY <1>2 DEF MakeSession
  <2>4. /\ s.pc \in {"idle", "unlink", "append"}
        /\ s.pc # "idle" => ~live /\ s.msg = creator[c].msg /\ s.msg # NoMsg
        /\ s.pc = "append" => s.msg = Hello
        /\ s.pc = "unlink" => s.msg # Hello
    BY <2>1, MakingKinds DEF AtRest
  <2> HIDE DEF s
  <2>5. /\ creator'[c] = s
        /\ \A d \in Creators : d # c => creator'[d] = creator[d]
    BY <1>0, <2>2, <2>3, CreatorMoves
  <2>6. s.pc # "idle" => \A d \in Creators : d # c => ~Holds(d)
    BY <1>0, <2>4 DEF Handover
  <2>7. \A d, e \in Creators : Holds(d)' /\ Holds(e)' => d = e
    BY <1>0, <2>4, <2>5, <2>6 DEF Handover, Holds
  <2>8. s.pc # "idle" => s.msg = file \/ (s.msg = Hello /\ told[Hello] = 0)
    BY <1>0, <2>1, <2>4 DEF Handover
  <2>9. Handover'
    <3>1. \A d \in Creators : creator'[d].pc = "unlink" => creator'[d].msg = file
      BY <1>0, <2>4, <2>5, <2>8 DEF Handover
    <3>2. s.pc = "append" => s.msg # file /\ told[s.msg] = 0
      BY <1>0, <2>4, <2>8
    <3>3. \A d \in Creators : creator'[d].pc = "append" =>
            /\ creator'[d].msg # file /\ told[creator'[d].msg] = 0
            /\ creator'[d].msg = Hello \/ creator'[d].msg <= Len(written)
      BY <1>0, <2>4, <2>5, <3>2 DEF Handover
    <3> QED BY <1>0, <2>3, <2>7, <3>1, <3>3 DEF Handover, Undelivered
  <2>10. KeptUntilTold'
    <3>1. \A d \in Creators : creator[d].pc = "append" => creator'[d] = creator[d]
      BY <2>1, <2>5
    <3> QED BY <1>0, <2>3, <3>1 DEF KeptUntilTold
  <2> QED BY <1>0, <2>3, <2>9, <2>10 DEF ToldOnce
<1>3. CASE MarkDelivered(c)
  <2> DEFINE s == [creator[c] EXCEPT !.pc = "append"]
  <2>1. Holds(c) /\ creator[c].pc = "unlink" /\ creator[c].msg \in 1..Hello /\ creator[c] \in Underway
    BY <1>0, <1>3, HoldsKinds, CreatorKinds DEF MarkDelivered, Holds, SessionTypes
  <2>2. s \in Underway /\ s.msg = creator[c].msg /\ s.pc = "append"
    BY <2>1 DEF Underway
  <2>3. creator' = [creator EXCEPT ![c] = s] /\ file' = 0
        /\ UNCHANGED <<written, live, spoken, told, lost>>
    BY <1>0, <1>3 DEF MarkDelivered
  <2> HIDE DEF s
  <2>9. s \in {AtRest} \cup Underway /\ (s.pc \in {"unlink", "append"} => s.msg # NoMsg)
    BY <2>1, <2>2 DEF NoMsg
  <2>4. /\ creator'[c] = s
        /\ \A d \in Creators : d # c => creator'[d] = creator[d]
    BY <1>0, <2>3, <2>9, CreatorMoves
  <2>5. s.msg = file /\ s.msg \in 1..Len(written) /\ told[s.msg] = 0
    BY <1>0, <2>1, <2>2 DEF Handover, Undelivered
  <2>6. \A d \in Creators : Holds(d)' <=> d = c
    BY <1>0, <2>1, <2>2, <2>4 DEF Handover, Holds
  <2>7. Handover'
    <3>1. \A d \in Creators : /\ creator'[d].pc \in {"unlink", "append"} => d = c
      BY <2>6 DEF Holds
    <3>2. live /\ live'
      BY <1>0, <2>1, <2>3 DEF Handover
    <3>3. told'[Hello] > 0 => spoken'
      BY <1>0, <2>3 DEF Handover
    <3>4. \A m \in 1..MaxMessages : Undelivered(m)' => told'[m] = 0
      BY <1>0, <2>3 DEF Handover, Undelivered
    <3> QED BY <2>2, <2>3, <2>4, <2>5, <2>6, <3>1, <3>2, <3>3, <3>4 DEF Handover
  <2>8. KeptUntilTold'
    <3>1. \A d \in Creators : creator[d].pc = "append" => d # c /\ creator'[d] = creator[d]
      BY <2>1, <2>4
    <3> QED BY <1>0, <2>2, <2>3, <2>4, <2>5, <3>1 DEF KeptUntilTold
  <2> QED BY <1>0, <2>3, <2>7, <2>8 DEF ToldOnce
<1>4. CASE AppendToHistory(c) \/ AppendRaises(c)
  <2> DEFINE m == creator[c].msg
  <2>1. Holds(c) /\ creator[c].pc = "append" /\ m \in 1..Hello /\ live
    BY <1>0, <1>4, HoldsKinds DEF AppendToHistory, AppendRaises, Holds, Handover
  <2>2. AtRest.pc = "idle"
    BY DEF AtRest
  <2>3. creator' = [creator EXCEPT ![c] = AtRest] /\ UNCHANGED <<file, written, live>>
    BY <1>4 DEF AppendToHistory, AppendRaises
  <2>4. /\ creator'[c] = AtRest
        /\ \A d \in Creators : d # c => creator'[d] = creator[d]
    BY <1>0, <2>2, <2>3, CreatorMoves
  <2>5. \A d \in Creators : ~Holds(d)'
    BY <1>0, <2>1, <2>2, <2>4 DEF Handover, Holds
  <2>6. m # file /\ told[m] = 0 /\ (m = Hello \/ m <= Len(written))
    BY <1>0, <2>1 DEF Handover
  <2>7. \/ told' = told /\ spoken' = spoken /\ lost' = lost \cup {m}
        \/ told'[m] = 1 /\ spoken' = TRUE /\ lost' = lost
           /\ \A k \in 1..Hello : k # m => told'[k] = told[k]
    <3>1. CASE AppendToHistory(c)
      <4>1. told' = [told EXCEPT ![m] = @ + 1] /\ spoken' = TRUE /\ lost' = lost
        BY <3>1 DEF AppendToHistory
      <4>2. told \in [1..Hello -> Nat]
        BY <1>0 DEF SessionTypes
      <4> HIDE DEF m
      <4> QED BY <2>1, <2>6, <4>1, <4>2, ToldGrows
    <3>2. CASE AppendRaises(c)
      BY <3>2 DEF AppendRaises
    <3> QED BY <1>4, <3>1, <3>2
  <2> HIDE DEF m
  <2>8. Handover'
    <3>1. \A k \in 1..MaxMessages : Undelivered(k)' => told'[k] = 0
      BY <1>0, <2>3, <2>6, <2>7 DEF Handover, Undelivered
    <3>2. told'[Hello] > 0 => spoken'
      BY <1>0, <2>7 DEF Handover
    <3>3. \A d \in Creators : creator'[d].pc \notin {"unlink", "append"}
      BY <2>5 DEF Holds
    <3> QED BY <2>1, <2>3, <2>5, <3>1, <3>2, <3>3 DEF Handover
  <2>9. \A k \in 1..Hello : told[k] \in Nat /\ (told[k] > 0 => told'[k] > 0)
    BY <1>0, <2>1, <2>7 DEF SessionTypes
  <2>10. KeptUntilTold'
    <3>1. told'[m] > 0 \/ m \in lost'
      BY <2>7
    <3>2. \A k \in lost : k \in lost'
      BY <2>7
    <3>3. \A d \in Creators : creator[d].pc = "append" => creator[d].msg = m
      BY <1>0, <2>1 DEF Handover, Holds, m
    <3> QED BY <1>0, <2>3, <2>9, <3>1, <3>2, <3>3 DEF KeptUntilTold
  <2>11. ToldOnce'
    BY <1>0, <2>1, <2>7 DEF ToldOnce
  <2> QED BY <2>8, <2>10, <2>11
<1> QED BY <1>1, <1>2, <1>3, <1>4
LEMMA DeliveryOthers ==
  ASSUME OutreachTypes, DeliveryInv, ~raced',
         \/ TakeTurn \/ EndSession \/ SavePending \/ ClearHistory \/ SaveForgotten \/ Reset
         \/ RestartServer
  PROVE  Handover' /\ KeptUntilTold' /\ ToldOnce'
<1> USE OutreachOK
<1>0. /\ Handover /\ KeptUntilTold /\ ToldOnce /\ ~raced
      /\ SessionTypes /\ file \in 0..Len(written) /\ Len(written) \in Nat
      /\ Len(written) <= MaxMessages /\ Hello \in Nat /\ Hello > MaxMessages
      /\ DOMAIN written = 1..Len(written)
  <2>1. ~raced
    BY DEF TakeTurn, EndSession, Evict, SavePending, sessionVars, ClearHistory, SaveForgotten,
           Reset, RestartServer
  <2> QED BY <2>1 DEF DeliveryInv, OutreachTypes, MindTypes, Hello
<1>1. ASSUME Evict PROVE \A c \in Creators : creator[c].pc = "idle"
  <2>1. AtRest.pc = "idle"
    BY DEF AtRest
  <2> QED BY <1>1, <2>1 DEF Evict
<1>2. CASE TakeTurn
  BY <1>0, <1>2 DEF TakeTurn, Handover, Undelivered, Holds, KeptUntilTold, ToldOnce
<1>3. CASE EndSession
  <2>1. \A c \in Creators : creator'[c].pc = "idle" /\ ~Holds(c)'
    BY <1>1, <1>3 DEF EndSession, Holds
  <2> QED
    BY <1>0, <1>3, <2>1 DEF EndSession, Handover, Undelivered, KeptUntilTold, ToldOnce
<1>4. CASE SavePending
  <2>1. drift.pc = "asked" /\ file = 0 /\ UNCHANGED sessionVars
    BY <1>4 DEF SavePending, OutreachTypes, MindTypes
  <2>2. /\ Len(written') = Len(written) + 1 /\ file' = Len(written')
        /\ DOMAIN written' = DOMAIN written \cup {Len(written')}
    BY <1>4, WrittenGrows DEF OutreachTypes
  <2>3. Handover'
    <3>1. \A c \in Creators : creator[c].pc # "unlink"
      BY <1>0, <2>1, HoldsKinds DEF Handover, Holds
    <3>2. \A c \in Creators : creator[c].pc = "append" =>
            /\ creator[c].msg # file'
            /\ creator[c].msg = Hello \/ creator[c].msg <= Len(written')
      <4>1. ASSUME NEW c \in Creators, creator[c].pc = "append"
            PROVE  /\ creator[c].msg # file'
                   /\ creator[c].msg = Hello \/ creator[c].msg <= Len(written')
        <5>1. /\ creator[c].msg \in 1..Hello
              /\ creator[c].msg = Hello \/ creator[c].msg <= Len(written)
          BY <1>0, <4>1, HoldsKinds DEF Handover, Holds
        <5>2. Len(written') <= MaxMessages
          BY <1>0, <1>4, <2>2 DEF SavePending
        <5> QED BY <1>0, <2>2, <5>1, <5>2
      <4> QED BY <4>1
    <3>3. \A m \in 1..MaxMessages : Undelivered(m)' => Undelivered(m)
      BY <1>0, <2>2 DEF Undelivered
    <3>4. \A c \in Creators : creator[c].pc = "read" /\ ~live =>
            creator[c].msg = NoMsg \/ (creator[c].msg = Hello /\ told[Hello] = 0)
      BY <1>0, <2>1 DEF Handover, NoMsg
    <3> QED BY <1>0, <2>1, <3>1, <3>2, <3>3, <3>4 DEF sessionVars, Handover, Holds
  <2>4. KeptUntilTold'
    BY <1>0, <2>1, <2>2 DEF sessionVars, KeptUntilTold
  <2> QED BY <1>0, <2>1, <2>3, <2>4 DEF sessionVars, ToldOnce
<1>5. ASSUME Clear
      PROVE  /\ told'[Hello] = 0 /\ spoken' = FALSE
             /\ \A m \in 1..MaxMessages : told'[m] = told[m]
             /\ \A m \in 1..Hello : told'[m] \in {0, told[m]}
  BY <1>0, <1>5 DEF Clear, SessionTypes
<1>6. CASE ClearHistory
  <2>1. UNCHANGED <<file, written, live, creator, lost, raced>>
    BY <1>6 DEF ClearHistory
  <2>2. /\ told'[Hello] = 0 /\ \A m \in 1..MaxMessages : told'[m] = told[m]
        /\ \A m \in 1..Hello : told'[m] \in {0, told[m]}
    BY <1>5, <1>6 DEF ClearHistory
  <2>3. \A c \in Creators : creator[c].pc = "append" => told'[creator[c].msg] = 0
    <3>1. ASSUME NEW c \in Creators, creator[c].pc = "append" PROVE told'[creator[c].msg] = 0
      <4>1. creator[c].msg \in 1..Hello /\ told[creator[c].msg] = 0
        BY <1>0, <3>1, HoldsKinds DEF Handover, Holds
      <4> QED BY <2>2, <4>1
    <3> QED BY <3>1
  <2>4. Handover'
    BY <1>0, <2>1, <2>2, <2>3 DEF Handover, Undelivered, Holds
  <2>5. \A m \in DOMAIN written : told'[m] = told[m]
    BY <1>0, <2>2
  <2>6. KeptUntilTold'
    BY <1>0, <2>1, <2>5 DEF KeptUntilTold
  <2>7. ToldOnce'
    BY <1>0, <2>2 DEF ToldOnce
  <2> QED BY <2>4, <2>6, <2>7
<1>7. CASE SaveForgotten
  <2>1. \A c \in Creators : creator'[c].pc = "idle" /\ ~Holds(c)'
    BY <1>1, <1>7 DEF SaveForgotten, Holds
  <2> QED
    BY <1>0, <1>7, <2>1 DEF SaveForgotten, Handover, Undelivered, KeptUntilTold, ToldOnce
<1>8. CASE Reset
  <2>1. (\A c \in Creators : creator[c].pc = "idle" /\ ~Holds(c)') /\ UNCHANGED <<file, written, creator, lost>>
    BY <1>1, <1>8 DEF Reset, Holds
  <2>2. /\ told'[Hello] = 0 /\ \A m \in 1..MaxMessages : told'[m] = told[m]
        /\ \A m \in 1..Hello : told'[m] \in {0, told[m]}
    BY <1>5, <1>8 DEF Reset
  <2>3. Handover'
    BY <1>0, <2>1, <2>2 DEF Handover, Undelivered
  <2>4. \A m \in DOMAIN written : told'[m] = told[m]
    BY <1>0, <2>2
  <2>5. KeptUntilTold'
    BY <1>0, <2>1, <2>4 DEF KeptUntilTold
  <2>6. ToldOnce'
    BY <1>0, <2>2 DEF ToldOnce
  <2> QED BY <2>3, <2>5, <2>6
<1>9. CASE RestartServer
  <2>1. \A c \in Creators : creator'[c].pc = "idle" /\ ~Holds(c)'
    BY <1>9 DEF RestartServer, Holds, AtRest
  <2>2. /\ UNCHANGED <<file, written, spoken, told>> /\ lost \subseteq lost'
        /\ \A c \in Creators : creator[c].pc = "append" => creator[c].msg \in lost'
    BY <1>9 DEF RestartServer
  <2>3. Handover'
    BY <1>0, <2>1, <2>2 DEF Handover, Undelivered
  <2>4. KeptUntilTold'
    BY <1>0, <2>1, <2>2 DEF KeptUntilTold
  <2> QED BY <1>0, <2>2, <2>3, <2>4 DEF ToldOnce
<1> QED BY <1>2, <1>3, <1>4, <1>6, <1>7, <1>8, <1>9

LEMMA DeliveryStep ==
  ASSUME OutreachTypes, DeliveryInv, [OutreachNext]_outreachVars
  PROVE  DeliveryInv'
<1>1. CASE raced'
  BY <1>1, Zenon DEF DeliveryInv
<1>2. CASE ~raced' /\ \E c \in Creators : \/ ReadForSession(c) \/ MakeSession(c)
                                          \/ MarkDelivered(c) \/ AppendToHistory(c)
                                          \/ AppendRaises(c)
  BY <1>2, DeliveryCreators, Zenon DEF DeliveryInv
<1>3. CASE ~raced' /\ (\/ TakeTurn \/ EndSession \/ SavePending \/ ClearHistory
                       \/ SaveForgotten \/ Reset \/ RestartServer)
  BY <1>3, DeliveryOthers, Zenon DEF DeliveryInv
<1>4. DriftLoad \/ DriftSave \/ AskOutreach \/ KeepSilent \/ RecordSent
       \/ (\E kind \in {"reflect", "forget"} : BeginTask(kind)) \/ SaveReflection \/ DayPasses
       \/ UNCHANGED outreachVars
      => UNCHANGED <<file, written, sessionVars>>
  BY DEF DriftLoad, DriftSave, AskOutreach, KeepSilent, RecordSent, BeginTask,
         SaveReflection, DayPasses, sessionVars, outreachVars
<1> QED BY <1>1, <1>2, <1>3, <1>4, DeliveryFrame, Zenon DEF OutreachNext

LEMMA DeliveryInit == OutreachInit => DeliveryInv
<1> SUFFICES ASSUME OutreachInit PROVE Handover /\ KeptUntilTold /\ ToldOnce
  BY DEF DeliveryInv
<1> USE OutreachOK
<1>1. AtRest.pc = "idle"
  BY DEF AtRest
<1>2. \A c \in Creators : creator[c].pc = "idle" /\ ~Holds(c)
  BY <1>1 DEF OutreachInit, Holds
<1>3. /\ \A m \in 1..Hello : told[m] = 0
      /\ Hello \in Nat \ {0} /\ 1..MaxMessages \subseteq 1..Hello
      /\ DOMAIN written = {}
  BY DEF OutreachInit, Hello
<1> QED BY <1>2, <1>3 DEF Handover, KeptUntilTold, ToldOnce

(* Whatever the requests, the drift, the reflections, the resets and the    *)
(* restarts do between the steps of a request that makes a session: unless  *)
(* a session was ended while another was being made, no message is told     *)
(* twice, nor the greeting twice between two clearings of the history.      *)
THEOREM ToldOnceHolds == OutreachSpec => []ToldOnce
<1>1. DeliveryInv => ToldOnce
  BY DEF DeliveryInv, ToldOnce
<1> QED
  BY <1>1, TypesInit, TypesStep, DeliveryInit, DeliveryStep, PTL DEF OutreachSpec

(* A message that was written waits in the file or with the request that    *)
(* holds it until it is told: the drift writes over none, and no request    *)
(* deletes one it does not hold.                                            *)
THEOREM KeptUntilToldHolds == OutreachSpec => []KeptUntilTold
<1>1. DeliveryInv => KeptUntilTold
  BY DEF DeliveryInv, KeptUntilTold
<1> QED
  BY <1>1, TypesInit, TypesStep, DeliveryInit, DeliveryStep, PTL DEF OutreachSpec
(***************************************************************************)
(* Dating                                                                  *)
(***************************************************************************)

\* The day of the last message.
Latest == IF written = <<>> THEN Never ELSE written[Len(written)]

\* The core remembers the last sending, except between its message and its
\* date; no core that someone will save is ahead of the one on the disk; and
\* the gates that let the model be asked are open until it has answered.
Dated ==
  /\ \A i \in DOMAIN written : written[i] \in 1..day
  /\ core.sent <= day
  /\ IF drift.pc = "written" THEN Latest = day ELSE Latest = core.sent
  /\ drift.pc = "asked" => CooldownOver
  /\ drift.pc = "loaded" => drift.sent <= core.sent
  /\ task # AtRest => task.sent <= core.sent

\* No date of a sending was lost.
DatedInv == forgot \/ (Dated /\ Spaced)

\* A core saved is one loaded before: it has the date of the core it is saved
\* over, or a date is lost.
LEMMA SaveKeepsDate ==
  ASSUME OutreachTypes, Dated, NEW mind \in Minds, Save(mind), mind.sent <= core.sent, ~forgot'
  PROVE  core' = mind /\ core'.sent = core.sent
<1>1. core.sent \in Nat /\ mind.sent \in Nat /\ day \in Nat /\ core.sent <= day
  BY OutreachOK DEF OutreachTypes, MindTypes, Minds, OutreachDays, Dated
<1>2. core' = mind /\ mind.sent \in {core.sent, day}
  BY DEF Save
<1> QED BY <1>1, <1>2
\* No message is written, no day passes, and the date stays.
LEMMA DatedFrame ==
  ASSUME Dated, Spaced, ~forgot, UNCHANGED <<written, day>>, core'.sent = core.sent,
         drift' = drift \/ (drift'.pc \in {"idle", "saved"} /\ drift.pc # "written"),
         task' = task \/ task' = AtRest \/ (task'.sent = task.sent /\ task # AtRest)
  PROVE  Dated' /\ Spaced'
<1>1. CooldownOver' <=> CooldownOver
  BY DEF CooldownOver
<1>2. drift'.pc \in {"asked", "written", "loaded"} => drift' = drift
  OBVIOUS
<1>3. drift'.pc = "written" <=> drift.pc = "written"
  BY <1>2
<1>4. Latest' = Latest
  BY DEF Latest
<1>5. Spaced'
  BY DEF Spaced
<1>6. task' # AtRest => task # AtRest /\ task'.sent = task.sent
  OBVIOUS
<1>7. Dated'
  BY <1>1, <1>2, <1>3, <1>4, <1>6 DEF Dated
<1> QED BY <1>5, <1>7

LEMMA DatedStep ==
  ASSUME OutreachTypes, DatedInv, ~forgot', [OutreachNext]_outreachVars
  PROVE  Dated' /\ Spaced'
<1> USE OutreachOK
<1>0. ~forgot
  BY DEF OutreachNext, ReadForSession, MakeSession, MarkDelivered, AppendToHistory, AppendRaises,
         TakeTurn, EndSession, Evict, DriftLoad, DriftSave, AskOutreach, KeepSilent, SavePending,
         RecordSent, BeginTask, SaveReflection, ClearHistory, SaveForgotten, Reset, RestartServer,
         DayPasses, SaveTask, Save, outreachVars
<1>1. Dated /\ Spaced /\ MindTypes
  BY <1>0, Zenon DEF DatedInv, OutreachTypes
<1>2. AtRest.pc = "idle"
  BY DEF AtRest
<1>3. CASE UNCHANGED <<written, day, core>> /\ (drift' = drift \/ KeepSilent) /\ (task' = task \/ ClearHistory)
  <2>1. drift' = drift \/ (drift'.pc \in {"idle", "saved"} /\ drift.pc # "written")
    BY <1>2, <1>3 DEF KeepSilent
  <2>2. task' = task \/ (task'.sent = task.sent /\ task # AtRest)
    BY <1>1, <1>2, <1>3, TaskKinds DEF ClearHistory, MindTypes
  <2> QED BY <1>0, <1>1, <1>3, <2>1, <2>2, DatedFrame
<1>4. \/ \E c \in Creators : \/ ReadForSession(c) \/ MakeSession(c) \/ MarkDelivered(c)
                             \/ AppendToHistory(c) \/ AppendRaises(c)
      \/ TakeTurn \/ EndSession \/ KeepSilent \/ ClearHistory \/ Reset \/ UNCHANGED outreachVars
      => UNCHANGED <<written, day, core>> /\ (drift' = drift \/ KeepSilent) /\ (task' = task \/ ClearHistory)
  BY DEF ReadForSession, MakeSession, MarkDelivered, AppendToHistory, AppendRaises,
         TakeTurn, EndSession, KeepSilent, ClearHistory, Reset, outreachVars
<1>5. CASE DriftLoad
  <2>1. /\ drift'.pc = "loaded" /\ drift'.sent = core.sent /\ drift.pc = "idle"
        /\ UNCHANGED <<written, core, day, task, forgot>>
    BY <1>2, <1>5 DEF DriftLoad
  <2>2. core.sent \in Nat
    BY <1>1, MindKinds DEF OutreachDays
  <2>3. Latest' = Latest /\ Spaced'
    BY <1>0, <1>1, <2>1 DEF Latest, Spaced
  <2> QED BY <1>1, <2>1, <2>2, <2>3 DEF Dated
<1>6. CASE DriftSave
  <2>1. drift.pc = "loaded" /\ drift.sent \in OutreachDays /\ drift.stage \in Stages
        /\ drift.sent <= core.sent
    BY <1>1, <1>6, DriftKinds DEF DriftSave, MindTypes, Dated
  <2>2. PICK stage \in {drift.stage} \cup IF drift.stage = "new" THEN {} ELSE {"distant"} :
          Save([sent |-> drift.sent, ran |-> TRUE, stage |-> stage])
    BY <1>6 DEF DriftSave
  <2>3. stage \in Stages
    BY <2>1 DEF Stages
  <2>4. [sent |-> drift.sent, ran |-> TRUE, stage |-> stage] \in Minds
    BY <1>1, <2>1, <2>3, MindKinds
  <2>5. core'.sent = core.sent
    BY <1>1, <2>1, <2>2, <2>4, SaveKeepsDate
  <2>6. drift'.pc \in {"idle", "saved"} /\ UNCHANGED <<written, day, task>>
    BY <1>2, <1>6 DEF DriftSave
  <2> QED BY <1>0, <1>1, <2>1, <2>5, <2>6, DatedFrame
<1>7. CASE AskOutreach
  <2>1. CASE MayReachOut
    <3>1. /\ drift'.pc = "asked" /\ drift.pc = "saved" /\ CooldownOver
          /\ UNCHANGED <<written, core, day, task, forgot>>
      BY <1>7, <2>1 DEF AskOutreach, MayReachOut
    <3>2. Latest' = Latest /\ Spaced' /\ CooldownOver'
      BY <1>0, <1>1, <3>1 DEF Latest, Spaced, CooldownOver
    <3> QED BY <1>1, <3>1, <3>2 DEF Dated
  <2>2. CASE ~MayReachOut
    <3>1. /\ drift'.pc = "idle" /\ drift.pc = "saved"
          /\ UNCHANGED <<written, core, day, task, forgot>>
      BY <1>2, <1>7, <2>2 DEF AskOutreach
    <3> QED BY <1>0, <1>1, <3>1, DatedFrame
  <2> QED BY <2>1, <2>2
<1>8. CASE SavePending
  <2>1. drift.pc = "asked" /\ UNCHANGED <<core, day, task, forgot>>
    BY <1>8 DEF SavePending
  <2>2. drift'.pc = "written"
    BY <1>1, <1>8, DriftKinds DEF SavePending, MindTypes
  <2>3. /\ Len(written') = Len(written) + 1 /\ Len(written) \in Nat
        /\ written' \in Seq(OutreachDays)
        /\ written'[Len(written')] = day
        /\ \A i \in DOMAIN written : i \in 1..Len(written) /\ written'[i] = written[i]
        /\ DOMAIN written' = DOMAIN written \cup {Len(written')}
    BY <1>1, <1>8, WrittenGrows
  <2>4. /\ day \in Nat /\ day > 0 /\ core.sent \in Nat /\ Cooldown \in Nat
        /\ \A i \in DOMAIN written : written[i] \in 1..day
        /\ Latest = core.sent /\ CooldownOver
    BY <1>1, <2>1, MindKinds DEF MindTypes, OutreachDays, Dated
  <2>5. \A i \in DOMAIN written : day - written[i] >= Cooldown
    <3>1. ASSUME NEW i \in DOMAIN written PROVE day - written[i] >= Cooldown
      <4> DEFINE n == Len(written)
      <4>1. written # <<>> /\ i \in 1..n /\ n \in DOMAIN written
        BY <1>1, <2>3, <3>1 DEF MindTypes
      <4>2. written[n] = core.sent /\ written[n] \in 1..day /\ written[i] \in 1..day
        BY <2>4, <4>1 DEF Latest
      <4>3. day - core.sent >= Cooldown
        BY <2>4, <4>2 DEF CooldownOver, Never
      <4>4. CASE i = n
        BY <4>2, <4>3, <4>4
      <4>5. CASE i < n
        <5>1. written[n] - written[i] >= Cooldown
          BY <1>0, <1>1, <4>1, <4>5 DEF Spaced
        <5> QED BY <2>4, <4>2, <4>3, <5>1
      <4> QED BY <2>3, <4>1, <4>4, <4>5
    <3> QED BY <3>1
  <2>6. Spaced'
    <3>1. ASSUME NEW i \in DOMAIN written', NEW j \in DOMAIN written', i < j
          PROVE  written'[j] - written'[i] >= Cooldown
      <4>1. i \in DOMAIN written
        BY <2>3, <3>1
      <4>2. CASE j \in DOMAIN written
        BY <1>0, <1>1, <2>3, <3>1, <4>1, <4>2 DEF Spaced
      <4>3. CASE j = Len(written')
        BY <2>3, <2>5, <4>1, <4>3
      <4> QED BY <2>3, <3>1, <4>2, <4>3
    <3> QED BY <3>1 DEF Spaced
  <2>7. Latest' = day'
    BY <2>1, <2>3 DEF Latest
  <2>8. \A i \in DOMAIN written' : written'[i] \in 1..day'
    BY <2>1, <2>3, <2>4
  <2> QED BY <1>1, <2>1, <2>2, <2>6, <2>7, <2>8 DEF Dated
<1>9. CASE RecordSent
  <2>1. drift.pc = "written" /\ drift.ran \in BOOLEAN /\ drift.stage \in Stages
    BY <1>1, <1>9, DriftKinds DEF RecordSent, MindTypes
  <2>2. core'.sent = day /\ drift'.pc = "idle" /\ UNCHANGED <<written, day, task>>
    BY <1>2, <1>9 DEF RecordSent, Save
  <2>3. Latest = day /\ Latest' = Latest /\ Spaced'
    BY <1>0, <1>1, <2>1, <2>2 DEF Dated, Latest, Spaced
  <2>4. day \in Nat /\ core.sent \in Nat /\ core.sent <= day
    BY <1>1, MindKinds DEF MindTypes, OutreachDays, Dated
  <2>5. task # AtRest => task.sent \in Nat /\ task.sent <= day
    BY <1>1, <2>4, TaskKinds DEF MindTypes, OutreachDays, Dated
  <2> QED BY <1>1, <2>2, <2>3, <2>4, <2>5 DEF Dated
<1>10. ASSUME NEW kind \in {"reflect", "forget"}, BeginTask(kind) PROVE Dated' /\ Spaced'
  <2>1. task'.sent = core.sent /\ UNCHANGED <<written, core, day, drift, forgot>>
    BY <1>10 DEF BeginTask
  <2>2. core.sent \in Nat
    BY <1>1, MindKinds DEF OutreachDays
  <2>3. Latest' = Latest /\ Spaced' /\ (CooldownOver' <=> CooldownOver)
    BY <1>0, <1>1, <2>1 DEF Latest, Spaced, CooldownOver
  <2> QED BY <1>1, <2>1, <2>2, <2>3 DEF Dated
<1>11. ASSUME NEW stage \in Stages, task # AtRest, SaveTask(stage)
       PROVE  core'.sent = core.sent /\ task' = AtRest
  <2>1. [sent |-> task.sent, ran |-> task.ran, stage |-> stage] \in Minds
    BY <1>1, <1>11, MindKinds, TaskKinds DEF MindTypes
  <2>2. task.sent <= core.sent
    BY <1>1, <1>11 DEF Dated
  <2> QED BY <1>1, <1>11, <2>1, <2>2, SaveKeepsDate DEF SaveTask
<1>12. CASE SaveReflection
  <2>1. task # AtRest /\ (\E stage \in Stages : SaveTask(stage)) /\ UNCHANGED <<written, day, drift>>
    BY <1>12 DEF SaveReflection, AtRest, Stages
  <2> QED BY <1>0, <1>1, <1>11, <2>1, DatedFrame
<1>13. CASE SaveForgotten
  <2>1. task # AtRest /\ "new" \in Stages /\ SaveTask("new") /\ UNCHANGED <<written, day, drift>>
    BY <1>13 DEF SaveForgotten, AtRest, Stages
  <2> QED BY <1>0, <1>1, <1>11, <2>1, DatedFrame
<1>14. CASE RestartServer
  <2>1. drift.pc # "written" /\ drift'.pc = "idle" /\ task' = AtRest /\ UNCHANGED <<written, core, day>>
    BY <1>2, <1>14 DEF RestartServer
  <2> QED BY <1>0, <1>1, <2>1, DatedFrame
<1>15. CASE DayPasses
  <2>1. drift.pc = "idle" /\ drift' = drift /\ day' = day + 1 /\ UNCHANGED <<written, forgot>>
    BY <1>2, <1>15 DEF DayPasses
  <2>2. core'.sent = core.sent
    BY <1>1, <1>15, MindKinds DEF DayPasses
  <2>3. task' # AtRest => task # AtRest /\ task'.sent = task.sent
    BY <1>1, <1>15, TaskKinds DEF DayPasses, MindTypes
  <2>4. Latest' = Latest /\ Spaced'
    BY <1>0, <1>1, <2>1 DEF Latest, Spaced
  <2>5. day \in Nat /\ core.sent \in Nat
    BY <1>1, MindKinds DEF MindTypes, OutreachDays
  <2>6. \A i \in DOMAIN written' : written'[i] \in 1..day'
    BY <1>1, <2>1, <2>5 DEF Dated
  <2> QED BY <1>1, <2>1, <2>2, <2>3, <2>4, <2>5, <2>6 DEF Dated
<1> QED
  BY <1>3, <1>4, <1>5, <1>6, <1>7, <1>8, <1>9, <1>10, <1>12, <1>13, <1>14, <1>15, Zenon
  DEF OutreachNext

LEMMA DatedInit == OutreachInit => DatedInv
<1> SUFFICES ASSUME OutreachInit PROVE Dated /\ Spaced
  BY DEF DatedInv
<1>1. /\ written = <<>> /\ DOMAIN written = {} /\ day = 1 /\ AtRest.pc = "idle"
      /\ drift = AtRest /\ task = AtRest
  BY DEF OutreachInit, AtRest
<1>2. core.sent = 0
  <2>1. NewMind.sent = 0 /\ [NewMind EXCEPT !.stage = "friend"].sent = 0
    BY DEF NewMind, Never
  <2> QED BY <2>1 DEF OutreachInit
<1> QED BY <1>1, <1>2 DEF Dated, Spaced, Latest, Never

(* However the drift, the reflections, the forgettings and the resets save  *)
(* their copies of the core over each other's: unless the date of a sending *)
(* was lost, any two messages were written at least Cooldown days apart.    *)
THEOREM SpacedHolds == OutreachSpec => []Spaced
<1>1. DatedInv => Spaced
  BY DEF DatedInv, Spaced
<1>2. OutreachTypes /\ DatedInv /\ [OutreachNext]_outreachVars => DatedInv'
  BY DatedStep, Zenon DEF DatedInv
<1> QED
  BY <1>1, <1>2, TypesInit, TypesStep, DatedInit, PTL DEF OutreachSpec
===============================================================================
