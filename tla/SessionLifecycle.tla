---------------------------- MODULE SessionLifecycle ----------------------------
(***************************************************************************)
(* The life of one user's chat session on the server: the in-memory        *)
(* session (session_store.py), the streamed chat turn and the end-session   *)
(* handler (chat_routes.py), the inactivity watcher (watchers.py), the      *)
(* pending-transcript queue (transcript_queue.py), and start-up and crash   *)
(* (app.py).  All of this state is keyed by the user, so one user is enough.*)
(*                                                                         *)
(* A message is abstracted to the turn it belongs to, so a history is a     *)
(* sequence of turns: an answered turn contributes two elements, a silent   *)
(* one contributes one.  Time is a counter that advances when a session is  *)
(* created or touched; "idle" says INACTIVITY_SECONDS have passed since.    *)
(*                                                                         *)
(* async handlers and the watcher run on one event loop and interleave only *)
(* at an await; end_session and run_reflection run on threads and           *)
(* interleave with everything.                                             *)
(***************************************************************************)
EXTENDS Integers, Sequences, FiniteSets

CONSTANTS
  Turns,        \* chat messages the user may send, each at most once
  Enders,       \* POST /chat/{id}/end requests, each at most once
  Opener,       \* the assistant's opening message (first message or outreach)
  None,         \* no session, no row, no file, no pending transcript
  SeedN,        \* how many logged messages seed a new session (6)
  MinMsgs,      \* MIN_SESSION_MESSAGES: shorter transcripts are skipped (4)
  Overlap,      \* may turns and the beginnings of end requests overlap?
  MaxSid,       \* bound: sessions created
  MaxCrash,     \* bound: server crashes
  MaxFault,     \* bound: failed writes of active_sessions
  MaxRaise,     \* bound: exceptions out of run_reflection
  MaxOutage,    \* bound: reflections during which every LLM pass fails
  MaxOutreach   \* bound: sessions opened with a pending outreach

ASSUME ConstantsOK ==
  /\ SeedN \in Nat /\ MinMsgs \in Nat /\ MaxSid \in Nat
  /\ Overlap \in BOOLEAN
  /\ {MaxCrash, MaxFault, MaxRaise, MaxOutage, MaxOutreach} \subseteq Nat
  /\ Opener \notin Turns

Watcher == "watcher"
Boot    == "boot"
Runners == Enders \cup {Watcher, Boot}   \* whoever calls run_reflection
ASSUME RunnersOK == Watcher \notin Enders /\ Boot \notin Enders

Sids     == 1 .. MaxSid
Message  == Turns \cup {Opener}
History  == Seq(Message)

VARIABLES
  session,    \* _sessions[user]
  row,        \* the user's row of active_sessions
  file,       \* active_session.json, the fallback of the row
  messages,   \* the messages table
  pending,    \* pending/{session_id}.json, by session id
  claimed,    \* _REFLECTED_SESSIONS
  chat,       \* the chat_message request of each turn
  refl,       \* the reflection each runner is carrying out
  server,     \* "up", "down", or "catchup" while process_all_pending runs
  tried,      \* pending transcripts this start-up has already visited
  sidGen,     \* session ids handed out
  clock,      \* time of the last creation or touch
  spent,      \* how much of each bound is used up
  owed,       \* history: turns answered before any reflection of their session began
  reflected,  \* history: how often each turn has been folded into SelfCore
  analysed,   \* history: turns some LLM pass has really read
  skipped,    \* history: turns handed over in a transcript that is too short
  carried     \* history: turns installed in a session their copy was not taken from

store   == <<session, row, file, sidGen, clock>>
ghosts  == <<owed, reflected, analysed, skipped, carried>>
vars    == <<session, row, file, messages, pending, claimed, chat, refl,
             server, tried, sidGen, clock, spent, owed, reflected, analysed, skipped, carried>>

Costs    == {"crash", "fault", "raise", "outage", "outreach"}
LimitOf  == [crash |-> MaxCrash, fault |-> MaxFault, raise |-> MaxRaise,
             outage |-> MaxOutage, outreach |-> MaxOutreach]
Afford(c) == spent[c] < LimitOf[c]
Spend(c)  == spent' = [spent EXCEPT ![c] = @ + 1]

(***************************************************************************)
(* Transcripts.                                                            *)
(***************************************************************************)

LastN(s, n) == SubSeq(s, IF Len(s) > n THEN Len(s) - n + 1 ELSE 1, Len(s))

BugFresh(hist, seed) == hist            \* mutant: the seeds are not sliced off

\* full_history[seed_len:]
Fresh(hist, seed) == SubSeq(hist, seed + 1, Len(hist))

TurnsIn(tr) == {tr[i] : i \in DOMAIN tr} \cap Turns

(***************************************************************************)
(* The store.                                                              *)
(***************************************************************************)

Persisted == file # None /\ file.hist # <<>>

\* mutant: seed_len is the number of seeds asked for, not found.
BugNewSession(opens) ==
  [sid |-> sidGen + 1, hist |-> LastN(messages, SeedN), seed |-> SeedN,
   la |-> clock + 1, idle |-> FALSE]

\* The session get_or_create_session installs: the fallback file if there is
\* one, else the last SeedN logged messages as seeds; then the outreach or the
\* first message, which moves seed_len behind it.
NewSession(opens) ==
  LET hist == IF Persisted THEN file.hist ELSE LastN(messages, SeedN)
      seed == IF Persisted THEN file.seed ELSE Len(hist)
      full == IF opens THEN Append(hist, Opener) ELSE hist
  IN  [sid  |-> sidGen + 1, hist |-> full,
       seed |-> IF opens THEN Len(full) ELSE seed,
       la   |-> clock + 1, idle |-> FALSE]

\* A never-used account is greeted; otherwise an outreach may be waiting.
FirstMessage == messages = <<>> /\ ~Persisted
MayOpen == IF FirstMessage THEN {TRUE}
           ELSE IF Afford("outreach") THEN BOOLEAN ELSE {FALSE}

\* get_or_create_session: afterwards session' is the user's session, found or
\* made.  The messages table grows by the opening message, and by the messages
\* the caller logs in the same step.
GetOrCreate(logged) ==
  \/ /\ session # None
     /\ messages' = messages \o logged
     /\ UNCHANGED <<session, sidGen, clock, spent>>
  \/ /\ session = None
     /\ sidGen < MaxSid
     /\ \E opens \in MayOpen :
          /\ session' = NewSession(opens)
          /\ messages' = (IF opens THEN Append(messages, Opener) ELSE messages) \o logged
          /\ IF opens /\ ~FirstMessage THEN Spend("outreach") ELSE UNCHANGED spent
     /\ sidGen' = sidGen + 1
     /\ clock' = clock + 1

\* _delete_from_db: whether the database did it, nobody is told.
DropRow == \/ row' = None /\ UNCHANGED spent
           \/ Afford("fault") /\ Spend("fault") /\ UNCHANGED row

(***************************************************************************)
(* Who may move.                                                           *)
(***************************************************************************)

ChatBusy(t)  == chat[t].pc \notin {"new", "acked", "failed"}
NoTurn       == \A t \in Turns : ~ChatBusy(t)

\* An end request is early until it has deleted the session.
EarlyPcs     == {"opened", "snapped", "claimed", "unclaimed",
                 "popped", "unlinked", "dropping", "dropped"}
NoEarly      == \A e \in Enders : refl[e].pc \notin EarlyPcs

\* The clients disable the input while a turn streams; the server itself checks
\* nothing.  A page that is reloaded, or hidden and shown again, starts a session or
\* sends the next message while an end request is still reflecting, and two pages end
\* one session together.  Unless Overlap is TRUE, they neither start nor end a session
\* while a turn streams, as a hidden page does, nor send before the session is deleted.
MayStart     == server = "up" /\ (NoTurn \/ Overlap)
MaySend      == server = "up" /\ NoTurn /\ (NoEarly \/ Overlap)

\* update_session_state .. touch_session, one pass of the watcher's loop body, and
\* check_and_cleanup_session contain no await: nothing else of the event loop runs
\* meanwhile.
LoopFree == /\ \A t \in Turns : chat[t].pc \notin {"installed", "writing"}
            /\ refl[Watcher].pc \notin {"snapped", "dropping", "dropped"}

SetChat(t, r)   == chat' = [chat EXCEPT ![t] = r]
SetPc(r, pc)    == refl' = [refl EXCEPT ![r].pc = pc]
NoChat          == [pc |-> "new", from |-> 0, hist |-> <<>>, seed |-> 0, snap |-> None]
NoRefl          == [pc |-> "idle", sid |-> 0, tr |-> <<>>, la |-> 0]

(***************************************************************************)
(* POST /chat/start                                                        *)
(***************************************************************************)
StartSession ==
  /\ MayStart
  /\ session = None
  /\ GetOrCreate(<<>>)
  /\ UNCHANGED <<row, file, pending, claimed, chat, refl, server, tried, ghosts>>

(***************************************************************************)
(* POST /chat/{id}/message                                                 *)
(***************************************************************************)

\* The request copies the session's state (creating the session if need be) and
\* logs the user's message; from here on it works on the copy.
ChatRequest(t) ==
  /\ MaySend /\ LoopFree
  /\ chat[t].pc = "new"
  /\ GetOrCreate(<<t>>)
  /\ SetChat(t, [pc |-> "thinking", from |-> session'.sid, hist |-> session'.hist,
                 seed |-> session'.seed, snap |-> None])
  /\ UNCHANGED <<row, file, pending, claimed, refl, server, tried, ghosts>>

\* The graph raises, the LLM stream fails, or no token comes for 30 s: an error
\* event, nothing saved.
ChatFail(t) ==
  /\ chat[t].pc = "thinking"
  /\ SetChat(t, [NoChat EXCEPT !.pc = "failed"])
  /\ UNCHANGED <<store, messages, pending, claimed, refl, server, tried, spent, ghosts>>

\* The reply is complete: it joins the copy's history and the messages table.
ChatReply(t) ==
  /\ chat[t].pc = "thinking"
  /\ SetChat(t, [chat[t] EXCEPT !.pc = "answered", !.hist = @ \o <<t, t>>])
  /\ messages' = Append(messages, t)
  /\ UNCHANGED <<store, pending, claimed, refl, server, tried, spent, ghosts>>

\* gate_node decided not to respond: only the user's message was added.
ChatSilent(t) ==
  /\ chat[t].pc = "thinking"
  /\ SetChat(t, [chat[t] EXCEPT !.pc = "answered", !.hist = Append(@, t)])
  /\ UNCHANGED <<store, messages, pending, claimed, refl, server, tried, spent, ghosts>>

\* update_session_state, first half: the copy replaces the state of whatever session
\* is the user's by now.
ChatInstall(t) ==
  /\ chat[t].pc = "answered" /\ LoopFree
  /\ IF session = None
     THEN /\ SetChat(t, [NoChat EXCEPT !.pc = "acked"])
          /\ UNCHANGED <<session, carried>>
     ELSE /\ session' = [session EXCEPT !.hist = chat[t].hist, !.seed = chat[t].seed]
          /\ SetChat(t, [chat[t] EXCEPT !.pc = "installed"])
          /\ carried' = IF chat[t].from = session.sid THEN carried
                        ELSE carried \cup TurnsIn(Fresh(chat[t].hist, chat[t].seed))
  /\ UNCHANGED <<row, file, sidGen, clock, messages, pending, claimed, refl, server,
                 tried, spent, owed, reflected, analysed, skipped>>

\* _persist_to_db, under the lock: what is about to be written.
ChatSnapshot(t) ==
  /\ chat[t].pc = "installed"
  /\ IF session = None
     THEN SetChat(t, [NoChat EXCEPT !.pc = "acked"])
     ELSE SetChat(t, [chat[t] EXCEPT !.pc = "writing", !.snap =
            [sid |-> session.sid, hist |-> session.hist, seed |-> session.seed,
             la |-> session.la]])
  /\ UNCHANGED <<store, messages, pending, claimed, refl, server, tried, spent, ghosts>>

\* Has a reflection of session sid been started?
ReflectionBegun(sid) ==
  \/ sid \in claimed
  \/ refl[Watcher].pc # "idle" /\ refl[Watcher].sid = sid

BugUpsert(snap) == IF row = None THEN snap ELSE row      \* mutant: ON CONFLICT DO NOTHING

\* INSERT .. ON CONFLICT DO UPDATE: an existing row keeps its session_id.
Upsert(snap) == IF row = None THEN snap ELSE [snap EXCEPT !.sid = row.sid]

\* _persist_to_db outside the lock (or, when the database refuses, the file),
\* then touch_session and the done event.
ChatWrite(t) ==
  /\ chat[t].pc = "writing"
  /\ \/ /\ row' = Upsert(chat[t].snap)
        /\ UNCHANGED <<file, spent>>
     \/ /\ Afford("fault") /\ Spend("fault")
        /\ file' = IF session = None THEN file
                   ELSE [hist |-> session.hist, seed |-> session.seed]
        /\ UNCHANGED row
  /\ IF session = None
     THEN UNCHANGED <<session, clock, owed>>
     ELSE /\ session' = [session EXCEPT !.la = clock + 1, !.idle = FALSE]
          /\ clock' = clock + 1
          /\ owed' = IF ReflectionBegun(session.sid) THEN owed ELSE owed \cup {t}
  /\ SetChat(t, [NoChat EXCEPT !.pc = "acked"])
  /\ UNCHANGED <<sidGen, messages, pending, claimed, refl, server, tried,
                 reflected, analysed, skipped, carried>>

(***************************************************************************)
(* run_reflection, whoever calls it.                                       *)
(***************************************************************************)

\* The transcript is read, SelfCore is changed and saved.  A transcript below
\* MinMsgs returns early.  An LLM pass that fails after its retries yields
\* defaults and the pipeline goes on.
ReflectApply(r) ==
  /\ refl[r].pc = "running"
  /\ LET tr == refl[r].tr
     IN  IF Len(tr) < MinMsgs
         THEN /\ skipped' = skipped \cup TurnsIn(tr)
              /\ UNCHANGED <<reflected, analysed, spent>>
         ELSE /\ reflected' = [t \in Turns |->
                                 IF t \in TurnsIn(tr) THEN reflected[t] + 1 ELSE reflected[t]]
              /\ UNCHANGED skipped
              /\ \/ analysed' = analysed \cup TurnsIn(tr) /\ UNCHANGED spent
                 \/ Afford("outage") /\ Spend("outage") /\ UNCHANGED analysed
  /\ SetPc(r, "applied")
  /\ UNCHANGED <<store, messages, pending, claimed, chat, server, tried, owed,
                 carried>>

\* It raises: before SelfCore is saved, or after (memory store, log).
Raises(r) ==
  /\ refl[r].pc \in {"running", "applied"}
  /\ Len(refl[r].tr) >= MinMsgs
  /\ Afford("raise") /\ Spend("raise")

(***************************************************************************)
(* POST /chat/{id}/end                                                     *)
(***************************************************************************)
EndOpen(e) ==
  /\ MayStart
  /\ refl[e].pc = "idle"
  /\ GetOrCreate(<<>>)
  /\ SetPc(e, "opened")
  /\ UNCHANGED <<row, file, pending, claimed, chat, server, tried, ghosts>>

\* Whoever else deletes the session meanwhile leaves nothing to end.
EndSnapshot(e) ==
  /\ refl[e].pc = "opened"
  /\ refl' = [refl EXCEPT ![e] =
       IF session = None THEN [NoRefl EXCEPT !.pc = "done"]
       ELSE [pc |-> "snapped", sid |-> session.sid,
             tr |-> Fresh(session.hist, session.seed), la |-> session.la]]
  /\ UNCHANGED <<store, messages, pending, claimed, chat, server, tried, spent, ghosts>>

BugClaimable(r) == refl[r].tr # <<>>         \* mutant: no deduplication

\* reflection_session_claim
Claimable(r) == refl[r].tr # <<>> /\ refl[r].sid \notin claimed

EndClaim(e) ==
  /\ refl[e].pc = "snapped"
  /\ IF Claimable(e)
     THEN claimed' = claimed \cup {refl[e].sid} /\ SetPc(e, "claimed")
     ELSE UNCHANGED claimed /\ SetPc(e, "unclaimed")
  /\ UNCHANGED <<store, messages, pending, chat, server, tried, spent, ghosts>>

\* delete_session, under the lock.  Until the file is gone, whoever opens a session
\* finds it; until the row is gone, a crash does.
EndPop(e) ==
  /\ refl[e].pc \in {"claimed", "unclaimed"}
  /\ session' = None
  /\ SetPc(e, IF refl[e].pc = "claimed" THEN "popped" ELSE "dropping")
  /\ UNCHANGED <<row, file, sidGen, clock, messages, pending, claimed, chat, server,
                 tried, spent, ghosts>>

\* The watcher's clean-up goes the same way.
Unlink(r) ==
  /\ refl[r].pc \in {"popped", "dropping"}
  /\ file' = None
  /\ SetPc(r, IF refl[r].pc = "popped" THEN "unlinked" ELSE "dropped")
  /\ UNCHANGED <<session, row, sidGen, clock, messages, pending, claimed, chat, server,
                 tried, spent, ghosts>>

EndDelete(e) ==
  /\ refl[e].pc \in {"unlinked", "dropped"}
  /\ DropRow
  /\ SetPc(e, IF refl[e].pc = "unlinked" THEN "deleted" ELSE "closing")
  /\ UNCHANGED <<session, file, sidGen, clock, messages, pending, claimed, chat, server,
                 tried, ghosts>>

\* mutant: the transcript is not queued before the reflection runs.
BugEndSave(e) ==
  /\ refl[e].pc = "deleted"
  /\ SetPc(e, "running")
  /\ UNCHANGED <<store, messages, pending, claimed, chat, server, tried, spent, ghosts>>

EndSave(e) ==
  /\ refl[e].pc = "deleted"
  /\ pending' = [pending EXCEPT ![refl[e].sid] = refl[e].tr]
  /\ SetPc(e, "running")
  /\ UNCHANGED <<store, messages, claimed, chat, server, tried, spent, ghosts>>

EndReflected(e) ==
  /\ refl[e].pc = "applied"
  /\ pending' = [pending EXCEPT ![refl[e].sid] = None]
  /\ SetPc(e, "closing")
  /\ UNCHANGED <<store, messages, claimed, chat, server, tried, spent, ghosts>>

\* mutant: the pending file is removed whether or not the reflection raised.
BugEndRaise(e) ==
  /\ Raises(e)
  /\ pending' = [pending EXCEPT ![refl[e].sid] = None]
  /\ refl' = [refl EXCEPT ![e] = [NoRefl EXCEPT !.pc = "done"]]
  /\ UNCHANGED <<store, messages, claimed, chat, server, tried, ghosts>>

\* The handler answers ok: False and leaves the user without a session.
EndRaise(e) ==
  /\ Raises(e)
  /\ refl' = [refl EXCEPT ![e] = [NoRefl EXCEPT !.pc = "done"]]
  /\ UNCHANGED <<store, messages, pending, claimed, chat, server, tried, ghosts>>

EndReopen(e) ==
  /\ refl[e].pc = "closing"
  /\ GetOrCreate(<<>>)
  /\ refl' = [refl EXCEPT ![e] = [NoRefl EXCEPT !.pc = "done"]]
  /\ UNCHANGED <<row, file, pending, claimed, chat, server, tried, ghosts>>

(***************************************************************************)
(* The inactivity watcher                                                  *)
(***************************************************************************)

BecomeIdle ==
  /\ server = "up" /\ session # None /\ ~session.idle
  /\ session' = [session EXCEPT !.idle = TRUE]
  /\ UNCHANGED <<row, file, sidGen, clock, messages, pending, claimed, chat, refl,
                 server, tried, spent, ghosts>>

\* get_inactive_sessions, and _REFLECTING_LOCK does not hold the user.
WatchSnapshot ==
  /\ server = "up" /\ LoopFree
  /\ refl[Watcher].pc = "idle"
  /\ session # None /\ session.idle
  /\ Len(session.hist) > session.seed
  /\ refl' = [refl EXCEPT ![Watcher] =
       [pc |-> "snapped", sid |-> session.sid,
        tr |-> Fresh(session.hist, session.seed), la |-> session.la]]
  /\ UNCHANGED <<store, messages, pending, claimed, chat, server, tried, spent, ghosts>>

\* save_pending, then the lock and the task.
WatchQueue ==
  /\ refl[Watcher].pc = "snapped"
  /\ pending' = [pending EXCEPT ![refl[Watcher].sid] = refl[Watcher].tr]
  /\ SetPc(Watcher, "queued")
  /\ UNCHANGED <<store, messages, claimed, chat, server, tried, spent, ghosts>>

\* mutant: _REFLECTING_LOCK is never released.
BugWatcherIdle == refl' = [refl EXCEPT ![Watcher] = [NoRefl EXCEPT !.pc = "done"]]

WatcherIdle == refl' = [refl EXCEPT ![Watcher] = NoRefl]

\* The task's thread; when the session was claimed before, the task ends and the
\* pending file it has just written stays.
WatchClaim ==
  /\ refl[Watcher].pc = "queued"
  /\ IF Claimable(Watcher)
     THEN claimed' = claimed \cup {refl[Watcher].sid} /\ SetPc(Watcher, "running")
     ELSE UNCHANGED claimed /\ WatcherIdle
  /\ UNCHANGED <<store, messages, pending, chat, server, tried, spent, ghosts>>

WatchReflected ==
  /\ refl[Watcher].pc = "applied"
  /\ pending' = [pending EXCEPT ![refl[Watcher].sid] = None]
  /\ SetPc(Watcher, "cleanup")
  /\ UNCHANGED <<store, messages, claimed, chat, server, tried, spent, ghosts>>

WatchRaise ==
  /\ Raises(Watcher)
  /\ WatcherIdle
  /\ UNCHANGED <<store, messages, pending, claimed, chat, server, tried, ghosts>>

\* check_and_cleanup_session(user, last_activity of the snapshot)
Stale == session # None /\ session.la <= refl[Watcher].la

WatchPop ==
  /\ refl[Watcher].pc = "cleanup" /\ LoopFree
  /\ IF Stale THEN session' = None /\ SetPc(Watcher, "dropping")
              ELSE UNCHANGED session /\ WatcherIdle
  /\ UNCHANGED <<row, file, sidGen, clock, messages, pending, claimed, chat, server,
                 tried, spent, ghosts>>

WatchCleanup ==
  /\ refl[Watcher].pc = "dropped"
  /\ DropRow
  /\ WatcherIdle
  /\ UNCHANGED <<session, file, sidGen, clock, messages, pending, claimed, chat, server,
                 tried, ghosts>>

(***************************************************************************)
(* Crash and start-up                                                      *)
(***************************************************************************)

\* Where a turn may be found after a crash: in a pending file, the row or the
\* fallback file.
InQueue(t) == \E s \in Sids : pending[s] # None /\ t \in TurnsIn(pending[s])
Stored(rec, t) == rec # None /\ t \in TurnsIn(Fresh(rec.hist, rec.seed))
OnDisk == {t \in Turns : InQueue(t) \/ Stored(row, t) \/ Stored(file, t)}

\* The transcript that end_session has claimed and not queued yet.
Handing == {"claimed", "popped", "unlinked", "deleted"}
Unsaved == UNION {TurnsIn(refl[e].tr) : e \in {x \in Enders : refl[x].pc \in Handing}}

\* The process dies: memory goes, requests in flight go, the disk stays.  Turns in the
\* hand of end_session that the disk has no more stop being owed here, so that this
\* one window is named, not hidden.
Crash ==
  /\ server # "down"
  /\ Afford("crash") /\ Spend("crash")
  /\ server' = "down"
  /\ session' = None
  /\ claimed' = {}
  /\ tried' = {}
  /\ chat' = [t \in Turns |-> IF ChatBusy(t) THEN [NoChat EXCEPT !.pc = "failed"] ELSE chat[t]]
  /\ refl' = [r \in Runners |->
                IF r \in Enders /\ refl[r].pc # "idle" THEN [NoRefl EXCEPT !.pc = "done"]
                ELSE NoRefl]
  /\ owed' = owed \ (Unsaved \ OnDisk)
  /\ UNCHANGED <<row, file, sidGen, clock, messages, pending, reflected, analysed, skipped,
                 carried>>

\* recover_sessions_on_startup, which precedes process_all_pending.
Recover ==
  /\ server = "down"
  /\ session' = IF row = None THEN None
                ELSE [sid |-> row.sid, hist |-> row.hist, seed |-> row.seed,
                      la |-> row.la, idle |-> FALSE]
  /\ server' = "catchup"
  /\ UNCHANGED <<row, file, sidGen, clock, messages, pending, claimed, chat, refl,
                 tried, spent, ghosts>>

Queued == {s \in Sids : pending[s] # None}

CatchUp(s) ==
  /\ server = "catchup" /\ refl[Boot].pc = "idle"
  /\ s \in Queued \ tried
  /\ refl' = [refl EXCEPT ![Boot] = [pc |-> "running", sid |-> s, tr |-> pending[s], la |-> 0]]
  /\ tried' = tried \cup {s}
  /\ UNCHANGED <<store, messages, pending, claimed, chat, server, spent, ghosts>>

CatchUpReflected ==
  /\ refl[Boot].pc = "applied"
  /\ pending' = [pending EXCEPT ![refl[Boot].sid] = None]
  /\ refl' = [refl EXCEPT ![Boot] = NoRefl]
  /\ UNCHANGED <<store, messages, claimed, chat, server, tried, spent, ghosts>>

CatchUpRaise ==
  /\ Raises(Boot)
  /\ refl' = [refl EXCEPT ![Boot] = NoRefl]
  /\ UNCHANGED <<store, messages, pending, claimed, chat, server, tried, ghosts>>

\* The lifespan hook ends; requests and watchers run from here.
Serve ==
  /\ server = "catchup" /\ refl[Boot].pc = "idle"
  /\ Queued \subseteq tried
  /\ server' = "up"
  /\ UNCHANGED <<store, messages, pending, claimed, chat, refl, tried, spent, ghosts>>

(***************************************************************************)
(* The specification                                                       *)
(***************************************************************************)
Init ==
  /\ session = None /\ row = None /\ file = None
  /\ messages = <<>>
  /\ pending = [s \in Sids |-> None]
  /\ claimed = {} /\ tried = {}
  /\ chat = [t \in Turns |-> NoChat]
  /\ refl = [r \in Runners |-> NoRefl]
  /\ server = "up"
  /\ sidGen = 0 /\ clock = 0
  /\ spent = [c \in Costs |-> 0]
  /\ owed = {} /\ analysed = {} /\ skipped = {} /\ carried = {}
  /\ reflected = [t \in Turns |-> 0]

ChatStep(t) ==
  \/ ChatReply(t) \/ ChatSilent(t)
  \/ ChatInstall(t) \/ ChatSnapshot(t) \/ ChatWrite(t)

EndStep(e) ==
  \/ EndSnapshot(e) \/ EndClaim(e) \/ EndPop(e) \/ Unlink(e) \/ EndDelete(e) \/ EndSave(e)
  \/ EndReflected(e) \/ EndReopen(e)

WatchStep ==
  \/ WatchSnapshot \/ WatchQueue \/ WatchClaim
  \/ WatchReflected \/ WatchPop \/ Unlink(Watcher) \/ WatchCleanup

BootStep == Recover \/ (\E s \in Sids : CatchUp(s)) \/ CatchUpReflected \/ Serve

Next ==
  \/ StartSession
  \/ \E t \in Turns : ChatRequest(t) \/ ChatFail(t) \/ ChatStep(t)
  \/ \E e \in Enders : EndOpen(e) \/ EndRaise(e) \/ EndStep(e)
  \/ \E r \in Runners : ReflectApply(r)
  \/ BecomeIdle \/ WatchRaise \/ WatchStep
  \/ Crash \/ CatchUpRaise \/ BootStep

Spec == Init /\ [][Next]_vars

\* What the scheduler guarantees: time passes, the watcher's loop and the threads
\* it and end_session started keep running, and a turn being stored is stored.
\* Nothing obliges the user to act, the model to answer, or anything to fail.
Fairness ==
  /\ WF_vars(BecomeIdle) /\ WF_vars(WatchStep)
  /\ \A r \in Runners : WF_vars(ReflectApply(r))
  /\ \A e \in Enders : WF_vars(EndStep(e))
  /\ \A t \in Turns : WF_vars(ChatInstall(t) \/ ChatSnapshot(t) \/ ChatWrite(t))

FairSpec == Spec /\ Fairness

(***************************************************************************)
(* Properties                                                              *)
(***************************************************************************)
StateRec == [hist : History, seed : Nat]
RowRec   == [sid : Sids, hist : History, seed : Nat, la : Nat]
LiveRec  == [sid : Sids, hist : History, seed : Nat, la : Nat, idle : BOOLEAN]
ReflPcs  == EarlyPcs \cup {"idle", "queued", "deleted", "running", "applied", "cleanup",
                           "closing", "done"}
ChatPcs  == {"new", "thinking", "answered", "installed", "writing", "acked", "failed"}
ChatRec  == [pc : ChatPcs, from : Sids \cup {0}, hist : History, seed : Nat,
             snap : RowRec \cup {None}]
ReflRec  == [pc : ReflPcs, sid : Sids \cup {0}, tr : History, la : Nat]

\* The absence of a session, a row, a file or a transcript is none of these.
ASSUME NoneOK ==
  None \notin LiveRec /\ None \notin RowRec /\ None \notin StateRec /\ None \notin History

\* Types; and wherever a history is kept with its seed_len (the live session, the
\* row, the fallback file, a turn's copy), seed_len points into the history, however
\* the history was put together from file, seeds, opening message and turns.
WellSeeded(rec) == rec # None => rec.seed <= Len(rec.hist)

Types ==
  /\ session \in LiveRec \cup {None}
  /\ row \in RowRec \cup {None}
  /\ file \in StateRec \cup {None}
  /\ messages \in History
  /\ pending \in [Sids -> History \cup {None}]
  /\ claimed \in SUBSET Sids
  /\ chat \in [Turns -> ChatRec]
  /\ refl \in [Runners -> ReflRec]
  /\ server \in {"up", "down", "catchup"}
  /\ tried \in SUBSET Sids
  /\ sidGen \in 0 .. MaxSid /\ clock \in Nat
  /\ spent \in [Costs -> Nat]
  /\ {owed, analysed, skipped, carried} \subseteq SUBSET Turns
  /\ reflected \in [Turns -> Nat]

TypeOK ==
  /\ Types
  /\ WellSeeded(session) /\ WellSeeded(row) /\ WellSeeded(file)
  /\ \A t \in Turns : chat[t].seed <= Len(chat[t].hist) /\ WellSeeded(chat[t].snap)

\* The end handler, the watcher and the start-up pass never reflect on the same
\* session at once: reflection_session_claim and the start-up order exclude it.
Reflecting(r) == refl[r].pc \in Handing \cup {"running", "applied"}
NoConcurrentReflection ==
  \A r1, r2 \in Runners :
    Reflecting(r1) /\ Reflecting(r2) /\ refl[r1].sid = refl[r2].sid => r1 = r2

\* While a reflection runs, its whole transcript is in the pending file that a
\* crash would leave behind, though two writers and one deleter share that file.
RunningIsQueued ==
  \A r \in Runners : refl[r].pc \in {"running", "applied"} =>
    /\ pending[refl[r].sid] # None
    /\ TurnsIn(refl[r].tr) \subseteq TurnsIn(pending[refl[r].sid])

\* Every answered turn whose session was not yet being reflected on survives a
\* crash at any instant: it is in the row, the fallback file or a pending file,
\* or a reflection has dealt with it.  The one exception is the window of
\* end_session between delete_session and save_pending.
Dealt(t)  == reflected[t] > 0 \/ t \in skipped
DurableTurn ==
  \A t \in owed :
    Dealt(t) \/ InQueue(t) \/ Stored(row, t) \/ Stored(file, t) \/ t \in Unsaved

\* The store, the queue and the reflections together implement ReflectionLedger.
\* In every step: what is promised is on the disk, in the hand of end_session or
\* dealt with; only a crash in that hand takes a promise back; end_session takes
\* turns only with empty hands and lays them down on the disk; and a reflection
\* deals with nothing but what is on the disk, and leaves it there.
Ledger == INSTANCE ReflectionLedger WITH
            promised <- owed, disk <- OnDisk, hand <- Unsaved, dealt <- {t \in Turns : Dealt(t)}
LedgerKept == Ledger!Spec

\* The seed slice works: as long as the process has not died and every write of the row
\* succeeds, a turn is folded into SelfCore twice only if it was carried: if the copy of
\* some turn, with all the session held before, was installed in another session than its
\* own.
ReflectedOnce == spent["crash"] = 0 => \A t \in Turns : reflected[t] <= 1 \/ t \in carried

\* "Seed messages are never re-reflected": nothing is folded into SelfCore twice.
NeverReReflected == \A t \in Turns : reflected[t] <= 1

\* A turn answered before any reflection of its session began is eventually dealt
\* with or queued, by the user's own end_session or by the inactivity watcher.
OwedTurnPickedUp == \A t \in Turns : t \in owed ~> (Dealt(t) \/ InQueue(t))

\* "Successful reflection -> pending file deleted; if reflection fails -> file
\* stays": a transcript leaves the queue only once some LLM pass has read it.
FailureStaysQueued ==
  [][\A s \in Sids : pending[s] # None /\ pending'[s] = None =>
       Len(pending[s]) < MinMsgs \/ TurnsIn(pending[s]) \subseteq analysed]_vars

\* A full reflection runs at every session end: no answered turn ends up nowhere.
Held(t) == \/ Stored(session, t) \/ Stored(row, t) \/ InQueue(t)
           \/ \E r \in Runners : refl[r].pc # "unclaimed" /\ t \in TurnsIn(refl[r].tr)
NoTurnForgotten ==
  \A t \in Turns : chat[t].pc = "acked" => Dealt(t) \/ Held(t)

================================================================================
