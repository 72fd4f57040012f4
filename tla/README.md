# TLA+ models of Anjo

Anjo is a companion chat server (Python, FastAPI) with a web page and a mobile
client.  A user's session lives in memory and in a database row while they talk;
when it ends, three LLM passes read the transcript (the *reflection*) and change
Anjo's persistent record of that user, the *SelfCore*.  The hard part is not the
conversation but what surrounds it: who reflects on what, when, how often, what
a crash or an ill-timed request loses, and how the numbers that stand for a
relationship move under many independent rules.

Run from this directory, with TLC and the community modules on the path:

    tlc -config session_crash.cfg MCSessionLifecycle
    tlapm SessionLifecycleProofs.tla

## 1. Inventory

| Component | State | Operations | Properties that make it correct |
|---|---|---|---|
| Session store (`dashboard/session_store.py`) | `_sessions` under a lock; `active_sessions` row; fallback file `active_session.json` | get_or_create, update, touch, delete, check_and_cleanup, recover | `seed_len` separates old messages from new ones; a turn survives a crash |
| Chat turn (`routes/chat_routes.py` chat_message) | a copy of the session's state, the token queue | request, reply, silence, failure, store | a turn goes into one session, once |
| End of session (`routes/chat_routes.py` end_session) | transcript, claim | snapshot, claim, delete, queue, reflect, reopen | never two reflections on one session; nothing lost |
| Inactivity watcher (`watchers.py`) | `_REFLECTING_LOCK`, tasks | snapshot, queue, claim, reflect, clean up | an idle user's turns are reflected on; an active session is not removed |
| Transcript queue (`core/transcript_queue.py`) | `pending/{sid}.json` | save, delete, process_all at start-up | what is being reflected on is on disk |
| Background tasks (`background_tasks.py`) | claimed ids, quick-facts marks, mid-reflect lock, thread pool | claim, quick facts, mid-session reflection | once per session; never over a newer core |
| SelfCore and reflection (`core/self_core.py`, `reflection/engine.py`) | record in `relational_state.json` and `current.json` | load, save, increment_session, regress_stage, ceiling decision, attachment update | stage is earned; ceilings hold; moves are small |
| Safety governor (`core/safety.py`) | rolling window of attachment deltas | check, record | attachment is slowed when high and trust is low |
| Drift (`core/drift.py`) | the record | daily drift, stage regression after 90 days | erosion only |
| Forgetting, reset, deletion (`core/forgetting.py`, `routes/reset_routes.py`, `routes/admin_routes.py`, `dashboard/auth.py`) | every store of a user | negotiate_and_forget, factory_reset, delete_account | nothing that was to go remains |
| Facts (`core/facts.py`) | active and superseded facts, bounded | merge, load, clear | facts of one category in use come from one batch; a superseded fact has a successor |
| Memory graph (`memory/memory_graph.py`) | nodes, contradictions | add, supersede, delete | one active fact node per category; a contradiction speaks of the past |
| Outreach (`core/outreach.py`) | pending file, date of the last message | decide, save, deliver | told once, and some day; cooldown kept |
| Conversation graph (`graph/`, `core/policy.py`, `core/emotion.py`) | the turn's state | perceive, gate, retrieve, appraise, policy | an insult outlasts one answer and no more; memories are the message's own |
| Accounts and tokens (`dashboard/auth.py`) | users, revoked, reset and verification tokens | register, verify, login, logout, change, reset, delete, restart | links work once; an ended session stays ended; only proven addresses count; nobody is locked out |
| Rate limiting (`middleware/rate_limit.py`) | hits per key | check | per-rule budgets on a shared list; a refusal says truly when to come back |
| Chat stream and clients (`routes/chat_routes.py`, `static/chat.html`, `mobile/`) | token queue, client's streaming flag | token, done, error, time-out | the client returns to rest |
| Letter (`routes/story_routes.py`) | letter cache, `_GENERATING_LETTER` | get | one generation at a time; no failure blocks the next |
| Long-term memory, journal | vector collections, `journal.md` | store, query, consolidate | – |
| Database, encryption, LLM, mail, prompts, CLI | – | I/O | – |

Interactions: routes and watcher share `_sessions` and its lock; end_session,
the watcher's tasks and start-up share the claimed ids and the pending files;
everyone who changes the SelfCore loads it, often calls the LLM, and saves the
whole record.  async handlers and the watcher's loop run on one event loop and
interleave only at an `await`; sync routes (`start`, `end`), `asyncio.to_thread`
reflections and the background pool run on threads and interleave with everything.

The behaviours that are hard to test are listed, each at its line, under
`hazards` in `PROJECT.json`.

## 2. Modules and plan

| Module | Models | State |
|---|---|---|
| `ReflectionLedger` | abstract: a turn promised a reflection is on the disk, in the hand of end_session, or dealt with | done |
| `SessionLifecycle` | one user's session: turns, end, watcher, queue, crash, start-up; implements `ReflectionLedger` | done |
| `MCSessionLifecycle` | its instance for TLC | done |
| `SessionLifecycleProofs` | types, mutual exclusion, the queue under a reflection, no reflection twice, no turn lost, the ledger | done |
| `Relationship` | stage, significance, ceiling, hostility, trust, attachment; the two files | done |
| `MCRelationship` | its instance for TLC | done |
| `RelationshipProofs` | every checked property of `Relationship` | done |
| `ChatReply` | abstract: a message is settled once, and what is shown agrees with what is kept | done |
| `ChatStream` | generator, producer thread, queue, stream of events, web page or mobile app; implements `ChatReply` | done |
| `MCChatStream` | its instance for TLC | done |
| `ChatStreamProofs` | types, one reply at a time, every step a step of `ChatReply`; the screen, the record, the session's memory | done |
| `RateLimit`, `RateLimitProofs` | the middleware's lists of admissions; proofs of the budget and of Retry-After | done |
| `Turn`, `TurnProofs` | the graph of a turn, the classifier's and the stance's rules, the emotions that are carried; proofs of its properties | done |
| `Accounts`, `AccountsProofs` | users, tokens, mails, restarts; proofs of its four properties | done |
| `MCService` | the three above as one instance for TLC (`TurnProofs` ends with their composition) | done |
| `Facts` | merges of the table of facts that overlap, its limits | done |
| `MemoryGraph` | supersede, contradict, insert, each with its own commit; deletions, crashes | done |
| `Outreach` | the daily drift's message, its file, the session that tells it, the greeting | done |
| `Letter` | the letter's cache and its claim | done |
| `Forgetting` | the stores and the core behind a marker, beside jobs and turns that do not wait | done |
| `MCMemory`, `MemoryProofs`, `OutreachProofs` | the five above as one instance for TLC; proofs of all that the run checks of them | done |
| `CoreReplicas` | the SelfCore as copies: live session, turn copies, background tasks, drift, both files; who overwrites whom | planned |
| `BackgroundTasks` | the bounded sets and marks of quick facts and mid-session reflection | planned |

Every safety property that a passing run checks is a theorem, with the hypotheses
that sections 3 and 5 name; what is left to TLC is in section 9.  Proofs to come are
those of the two modules still planned.  No module declares a RECURSIVE operator.

Components that share no variable are checked together where their sum is small:
in `MCService` and `MCMemory` a variable `focus`, chosen in the initial state, says
which component moves, and the others stand in one initial state.  The states add
up and do not multiply, and nothing is lost, since no action of one reads the
state of another.

## 3. SessionLifecycle

All of this state is keyed by the user, so one user is modelled.  A message is
represented by the turn it belongs to: an answered turn puts two elements into a
history, a silent one puts one.  A transcript is the part of a history after `seed`.

| TLA+ | Code |
|---|---|
| `session` | `_sessions[user]`: session_id, conversation_history, seed_len, last_activity |
| `row`, `file` | the `active_sessions` row; the fallback `active_session.json` |
| `messages` | the `messages` table, from which a new session is seeded |
| `pending` | `pending/{session_id}.json` |
| `claimed` | `_REFLECTED_SESSIONS` |
| `chat[t]` | the chat_message request of turn `t`: program counter, copied state and the id of the session it was copied from, row snapshot |
| `refl[r]` | the reflection of an end request, of the watcher, of start-up |
| `server`, `tried` | process up, down, or catching up, and the files already visited |
| `owed`, `reflected`, `analysed`, `skipped`, `carried` | history variables, read by properties only; `carried`: turns that a copy brought into another session than its own |

Steps follow the points where the code can be interrupted: a turn is request,
reply (or silence, or failure), installation of its copy, snapshot of the row
under the lock, and the write outside it; end_session is open, snapshot, claim, pop,
unlink, delete row, queue, reflect, close, reopen; the watcher is snapshot, queue,
claim, reflect, pop, unlink, delete row.  Of these only the pop is under the
lock (`EndPop`, `WatchPop`), the row's deletion may fail and nobody is told
(`DropRow`), and starts, turns and a crash come between.  `LoopFree` says what the
event loop keeps together.  `ReflectApply` is run_reflection, for all three callers.

What the store, the queue and the reflections promise together is `ReflectionLedger`:
turns are promised a reflection once they are on the disk, taken into the hand of
end_session, queued, dealt with by reflections that read the disk; rows and files come
and go in between.  `LedgerKept` maps it onto the model: promised is `owed`, the disk is
what row, fallback file and pending files hold (`OnDisk`), the hand is the transcript
between delete_session and save_pending (`Unsaved`), dealt is folded in or skipped.

The server does not check what a client does when.  `Overlap` says how the clients
behave: if it is TRUE, sessions are started and ended while a turn streams, by several
end requests at once, and messages are sent while an end request is anywhere; if it is
FALSE, as with one page that is neither hidden nor closed, nobody starts or ends while
a turn streams, nor sends before the old session is deleted.  A page that is loaded again
may start a session while the end request still reflects in either case.  One message is
sent at a time, always.

Simplifications.  get_or_create_session is one step: its second check under the
lock makes a lost race return the winner's session, and what it reads of the file it
reads at one instant.  The claimed ids are never evicted (bound 2000 in the code).
The SelfCore's content is `Relationship`'s subject.

Known limits of the promises, visible in the definitions: `DurableTurn` makes an
exception (`Unsaved`) for the window of end_session between the claim and
save_pending, in which a crash does lose the transcript; and `session_crash` has
no failing row writes and no `Overlap`: after a failed write a crash recovers the older
row and the newer fallback file is not looked at, and a turn whose session is ended under
it may be stored under a row that the end is about to delete.  `ReflectedOnce` makes an
exception for turns that were carried: `session_overlap` shows what becomes of them.

| Run | Question | Instance | Size |
|---|---|---|---|
| `session_crash` | types, mutual exclusion, durability, the ledger, nothing reflected on twice but what was carried | 3 turns, 1 end request, 3 sessions, 1 crash, 1 raising reflection | 714,988 states |
| `session_fair` | turns owed are picked up | 2 turns, no crash; one failure of a row's write or deletion, exception, outage, outreach | 220,993 states, with fairness |
| `session_overlap` | finding: a turn in flight at the end of its session carries the old turns into the next, which is reflected on again | `Overlap` | |
| `session_outage` | finding: a reflection that read nothing empties the queue | one outage | |
| `session_late` | finding: a turn whose session the watcher's clean-up has deleted under it is in no store, queue or reflection | 3 turns | |

Why these bounds.  Two elements per turn against `MinMsgs` = 4 makes a one-turn
transcript too short, and a two-turn one long enough; `SeedN` = 2 makes seeds
overlap with earlier turns.  Three turns let one be reflected, one arrive
while a reflection runs and one after it.  One crash falls between any two steps of the
three turns; a second one, which interrupts a recovery itself, takes 2,759,604 states and
more minutes than the run is given, and finds no violation either, nor with two turns
(194,164 states).  Three session ids are the original, the reopened and one more.

Deadlock is not checked: every turn, end request and fault is a budget that runs
out, after which the model rightly stops.

Fairness (`FairSpec`): time passes (`BecomeIdle`), the watcher's loop runs, threads
that were started finish, and a finished reply is stored.  The event loop and the
thread pools give this much.  Nothing obliges the user to act, the model to answer,
or anything to fail.

Proved (`SessionLifecycleProofs`), for any sets of turns and end requests and any
bounds; `NoneOK` says that the absence of a record is not a record.

- `TypeOK` and `NoConcurrentReflection`, with no hypothesis.  `TypeOK` is not
  inductive: it does not say that a turn in state "writing" has a snapshot, nor that
  a runner past its snapshot has a session id; `TypeInv` adds both.  Mutual
  exclusion rests on `Exclusive`: each runner is in a state of its own program;
  unless the server is up, only the start-up pass has work, and that only while the
  server catches up; whoever else reflects has its session id in `claimed`.  Two
  runners with the same id would both have added it, which the claim excludes.
- `RunningIsQueued`, if every write and deletion of the row succeeds (`MaxFault` = 0),
  whatever overlaps.  The end handler and the watcher may hold two transcripts of one
  session and write them to one file.  The invariant `Backed` says that the watcher's
  is the longer (`Covers`), because until the watcher has queued it no turn is stored and
  it is all the session has (`Frozen`), and what the end handler holds of a live session
  is part of it (`EndHolds`); what is queued for an unclaimed id is the watcher's own
  (`QueuedOwn`).  So who overwrites the other's file writes no less.  That needs
  histories that only grow (`Growing`), ids that are never given twice (`Numbered`),
  one turn in flight at a time (`Serial`), and that there is no fallback file
  (`NoFile`), which is where the hypothesis comes in: a file may bring an old history
  back under a new id.
- `ReflectedOnce`, under the same hypothesis and whatever overlaps (`session_crash` checks
  it with one page only).  Both of its limits are needed: a crash between core.save and
  the deletion of the pending file does repeat a reflection, and a fallback file brings old
  turns back (section 8).  The invariant `Single`, which holds until the first crash
  (`SingleSoFar`), says that a turn that was not carried is new in one session only: a turn
  not yet answered is nowhere (`Unborn`), a live session, copies and transcripts that
  share such a turn have one id (`OneHome`), what was reflected on has its id claimed
  (`HeldIn`), so to reflect on it again takes a second claim of that id (`Once`).

- `DurableTurn`, if turns and the beginnings of end requests do not overlap either
  (`~Overlap`; without it a turn may be stored under a row that an end is about to
  delete).  The invariant `Lasting` adds four layers to those above.  `Settled`: unless a
  deletion is under way the row is the session's (`RowNames`), and there is none without
  a session (`RowGone`); a turn that stores itself finds the session that holds it
  (`InHand`); a session an end request has deleted does not come back (`Left`); a session
  that is not the watcher's was touched after the watcher looked (`Newer`), so the
  clean-up spares it.  `Shares`: the row holds no less than the session and the watcher's
  transcript (`RowHolds`, `WatchRow`), the end handler's no less than the session it was
  taken from and than the watcher's of the same session (`EndFull`, `Same`).  `Files`: a
  pending file holds no more of a session than the session, its row and every transcript
  that is about to be written over it, so to overwrite it loses nothing; and what is
  about to delete it has dealt with all of it (`RunFile`, `AppliedDealt`).  `Owing`: an
  owed turn is dealt with, queued or in hand (`Safe`), or it is in the row and, while the
  server is up, in the live session, whose id is not claimed, and every transcript of it
  that somebody holds has the turn (`Exposed`): so the claim or the save that makes the
  session expendable is the step that makes the turn safe.
- `LedgerKept`, under the same two hypotheses.  Since an owed turn stays durable, any
  change of row, file and queue is a `Write` of the ledger; what remains is who moves the
  rest: a turn's write promises, `EndClaim` takes, `EndSave` queues, a reflection deals,
  all other steps tidy.

The liveness property is model-checked only.

## 4. Relationship

One user's record as every rule that moves it sees it.  Each handler loads,
changes and saves in one step: overtaking copies are the subject of `CoreReplicas`.

| TLA+ | Code |
|---|---|
| `rel`, `legacy` | `relational_state.json` and `current.json`, both written by SelfCore.save |
| `Core` | SelfCore.load: the first file, else the second, else a new record |
| `Reflect`, `MidReflect` | run_reflection, at the end and in the middle of a session, in its order: stated ceiling, increment_session, decision past the ceiling, hostility, attachment |
| `SetCeiling` | POST /preferences/ceiling |
| `TimePasses`, `Drift` | days since the last session; apply_daily_drift |
| `Forget` | negotiate_and_forget |
| `FactoryReset` | factory_reset and admin_reset_user, with the session they open |

Numbers are whole multiples of units the constants fix.  In the code the stage
floors are 0, 2, 5.5, 13 and 30, a session counts for at most 0.7, attachment moves
by 0.08 at most (0.03 when flagged) with 0.075 of room per session.  The instance
keeps their order and proportions coarsely: a stage is worth two sessions, three
hostile sessions cost one, four sessions pass both of the governor's thresholds.
Mood, personality, residue, desires and notes do not influence what is modelled.

| Run | Question | Size |
|---|---|---|
| `relationship` | ranges, earned stage, ceilings, one stage at a time up and down, pace of attachment | 474,450 states |
| `relationship_reset` | finding: factory reset leaves the file that is read | |
| `relationship_forget` | finding: the cap per session cuts the attachment that forgetting kept | |

`MaxCount` bounds the sessions between two forgettings; it is enough for a user to
climb from stranger to intimate, be held at a ceiling, outgrow it, and fall
again.  `relationship` does not check deadlock for that bound's sake.

Proved (`RelationshipProofs`), for every ascending table of floors at least one
session's cap apart, every cap, threshold and window, and any answers: all seven
properties of the run.  The invariants speak of the record in force; either file
may become that, so `Inv` asks of both that they are in range, that the stage is
earned, and that the last ceiling decision is not in the future.  `ReachedIs` shows
that the code's chain of comparisons always finds a stage, `SessionStage` that a
session moves it by one at most, and `ReflectMoves` composes the five parts of a
reflection; `StepMoves` is the induction step, with one case per handler, and
delivers the invariant and the four action properties together.

## 5. ChatStream and ChatReply

One user's messages, from the moment the client sends them.  `ChatReply` says what
the user may expect: a message is settled once, in the end, as answered, left
unanswered (silence), refused or lost with its connection; only a reply on record
is shown as final; one that was refused or withheld is never on record; a lost
one may be put on record later, to be seen when the history is loaded.
`ChatStream` is how the code does it.

| TLA+ | Code |
|---|---|
| `gen[t]` | where the generator `event_stream` of the request for message `t` is: before the user's row, in the graph, reading the queue, storing the reply, about to install it |
| `copy`, `session` | the request's deep copy of the session, and the session it replaces |
| `prod`, `fullText`, `queue` | the thread `_producer`, the text it collects, the items it hands over |
| `conn`, `wire` | the response as the client's reader sees it, the events under way |
| `client`, `streaming`, `bubble` | web page or mobile app, `isStreaming` / `streaming`, the reply's bubble |
| `log` | the `messages` table |
| `lost` | connections lost: a bound, and a history variable |

Steps follow the awaits of the generator: the user's row (a pool thread), the graph,
each item of the queue or its 30 s time-out, the reply's row (a pool thread), and
then, in one step, installation and done event.  The producer is not told when
the generator gives up.  A client that is gone makes the framework cancel the
generator at an await, or not in time; a row that a pool thread was writing is
written later (`WriteOrphan`).  The clients differ in two places: the app takes the
final text from the done event and writes errors over the bubble, the page keeps
what it has put together.  A request may reach the server after its client is gone.

Abstracted: a piece of text is its number; reasons for refusing (rate limit,
sign-in, empty or long text) are one event; a session is the sequence of its
turns.  Left out: voice, the page's own limit of 28 messages a minute, ending the
session while a reply streams (`SessionLifecycle` has that), mood and orb.

| Run | Question | Size |
|---|---|---|
| `chat_stream` | types; one reply at a time; screen, table and session agree; `ChatReply` is implemented, fairness included | 2 messages, 2 pieces, 2 lost connections, both clients: 182,382 states |
| `chat_late_break` | finding: an error after the done event overwrites a final reply | |

Two messages are enough for a generator, a producer or a row of the first to come
after the second was sent; two pieces for their order to matter; two lost
connections for the second message to be lost as well.  In `chat_stream` a
connection does not break between its last event and its end (`LateBreak`), since
that is the finding.  `LogInOrder` and `Remembered` speak of sessions without
lost connections where they say `lost = 0`: after one, the old generator may run
beside the next turn, and the code lets it install its older copy.
Deadlock is not checked: when all messages are settled nothing is left to do.

Fairness: the event loop runs the generator, whose waits all end (the graph's calls
by their time-outs, the queue's after 30 s), and the client reads what has
arrived or learns that nothing will.  The model and the producer owe nothing: it is
the time-out that brings the client back to rest.

Proved (`ChatStreamProofs`), for any numbers of messages, pieces and lost
connections:

- `TypeOK`, `TextIsReply`, `LogInOrder` and `Remembered`, whether or not connections
  may break after their last event (`LateBreak`).  For the screen, `PipeInv` counts
  pieces along the way: what the generator took from the queue is what the wire has
  and the screen shows, in order, and a done event follows the last of them.  For the
  record, `RecordInv` adds that a generator past its question's row finds it there,
  last as long as no connection was lost: until then only the last message's
  generator is at work (`Smooth`).  For the memory, `MemoryInv` says that while that
  generator works its copy is the live session, so that installing it loses nothing.
- When `LateBreak` is FALSE, `OneInFlight`, and that every step is a step of
  `ChatReply` or changes nothing there.  Both rest on `TurnsOK`: a last event is last
  on its wire, its generator has stopped, and it is a done event exactly when the
  reply is on record; a client at rest with an open connection has nothing left to
  read; a broken connection is one that is waited for; a reply is on record only
  when its generator is about to stop or has stopped.  Without the first the step
  that reads an event could not be matched with the abstract one that settles the
  message.

The liveness half of `KeepsPromise` is model-checked.

## 6. RateLimit, Accounts and Turn (run `service`)

**RateLimit.**  `hits[key]` is the list of a key, as the set of the numbers of the
admissions in it; `log` numbers all admissions and is read by properties (and for
their times); `answer` is the last response.  `Dispatch` is one request through the
middleware: `Fresh` prunes, then `Admit` or `Refuse`, or `PassThrough`.  Time is in
ticks, several to a second, because Retry-After is in whole seconds.  All rules that
count under a key share its list, and each request prunes it before it counts; that
`Budget` survives this is the point.  `RetryHonest` makes one exception: a key that
has more admissions than the refusing rule allows, made under a more generous one,
is told a time that is too early.

**Accounts.**

| TLA+ | Code |
|---|---|
| `users[u]` | the row: name, address, verified, verify_token, reset_token and its expiry, password_changed_at |
| `sending`, `mailbox` | requests awaiting the mail service; mails that have arrived, each with its link and the address it was sent to |
| `issued`, `revoked`, `saved` | session tokens, `_revoked_tokens`, the table of them |
| `Accepts(t)` | verify_token, with its pruning |
| `Register`, `MailSent`, `MailFails`, `ForceVerify` | the register forms before and after the mail |
| `Login`, `Logout`, `Verify`, `AdminVerify`, `UpdateEmail`, `UpdateUsername`, `ChangePassword`, `Delete`, `Forgot`, `Reset` | the handlers of the same names |
| `Restart` | load_revoked_tokens_from_db, which may fail; mails under way are lost |
| `ended`, `proven`, `waived`, `stranded`, `asked`, `resets` | history variables, read by properties only |

Two sign-ins in one second give the same token, and the second in which a password
changes does not end the sessions of that second: the model keeps whole seconds for
that.  The exceptions the properties name are behaviours of the code: a revocation
the table did not take or give back is forgotten at the next restart, and an
account is `stranded` when the server restarts before its registration's mail was
sent, or its address was changed to one whose mail does not come.  `Verify` takes as
`proven` the address that the mail with the link was sent to, not the one the account
has by then: a link that outlived its address would break `VerifiedIsProven`.

**Turn.**

| TLA+ | Code |
|---|---|
| `session` | the session's state: the core, the lengths of history and seed, `emotional_carry` |
| `turn`, `pc` | the copy that chat_message makes, and the node of the graph it is in |
| `Accept`, `Perceive`, `GateInsult` / `GateAnswers` / `GateFails`, `Retrieve`, `Appraise`, `Policy`, `GraphFails` | chat_message up to the graph, and the nodes |
| `Silence`, `Answer`, `StreamFails` | the three ends of the event stream |
| `ReplaceCore`, `Reopen`, `Restore` | mid-session reflection; a session ended and made again from the messages table, or from the row or file, which keeps a `seed_len` of its own |
| `IntentRules`, `StanceRules`, `FirstOf` | classify_intent and decide_stance, rule by rule, the first that holds |
| `Stirred`, `Decayed`, `OfState`, `Felt`, `Moved`, `Resting` | appraise_input, the carry, decay_mood, blend_baseline |
| `calm` | answered turns since the last insult that was answered: read by properties only |

Reals in [0, 1] are integers in ten-thousandths, shares whole per cents; rounding is
downwards where the code has floats, and the thresholds of the rules are exact.  The
three coin tosses of policy.py are hashes of things that stay the same, so they are
fields of the core.  Dominance, the directives and all text are left out.

| Run | Question | Size |
|---|---|---|
| `service` | types; `Budget`, `RetryHonest`; `EndedStaysEnded`, `VerifiedIsProven`, `NotLockedOut`, `LinkOnce`; `HurtLingers`, `HurtFades`, `RecallsItsOwn` | 751,909 states |

Bounds.  RateLimit: an address and a user (two keys), a rule of one admission and one
of two, a window of two seconds of two ticks, and time for three half windows: enough
for a list to be pruned under one rule and counted under another, and for a refused
client to come back at the promised moment.  Accounts: two names and two addresses
so that they can be swapped or taken over, three mailed tokens so that a link is
replaced or outlives an address, four requests, a token's life that ends within
the run.  Turn: three messages are an insult, an answer and the answer after it;
six messages cover every rule order that matters; a new and a close personality, and
one replacement of one by the other.

Proved.  `RateLimitProofs`: types, `Budget` and `RetryHonest`, for any keys, rules,
window.  Inductive is `RLInv`: an admission missing from its key's list is older than
the window; then what `Admit` counts is all of `InWindow`, and one more stays within
the rule.  For the hour of a refusal, `Promise` says that the list is as long as it
was, and that its oldest hit is out of the window by then: one is pruned, and the
rule has room.
`AccountsProofs`: types; `VerifiedIsProven`, where `Addressed` says that every mail with the link an
account waits for, arrived or under way, goes to the address the account has; `EndedStaysEnded`, where the invariant
says why each ended session is refused (revoked and in the table, older than the
password, or its account gone for good, since ids are never given twice); `LinkOnce`,
where it says that a pending link is the user's last and unused; and `NotLockedOut`.
The last one's `DoorInv` says of whoever is not let in that the mail is there or
under way, that no mail under way speaks of another name, and that they have no
session: a change of name, which would keep the register form from finding its row
when the mail fails, needs one.  All rest on `TableOK` (ids and links only grow, nothing is
dated in the future).
`TurnProofs`: types, `RecallsItsOwn`, `HurtLingers`, `HurtFades`, for any messages and
personalities that satisfy `RespectOK`: the standard of respect, which nothing in
the program changes, is high enough for an insult to count a turn later.
`Untouched` is what types need (a silent turn puts back a core the session may
hold), `RecallInv` relates the lengths of history and seed to whether the session has
answered yet, and `HurtInv` says that seven tenths of the carried reproach exceed the
threshold exactly when the last answer was to an insult; `SevenTenths` is the
arithmetic: worn down twice, no reproach does.
The three specifications are components of the run's, and `ServiceIsEach` shows that
each behaviour of it is one of every component: all of this holds of the run, and so
does its `TypeOK`.

## 7. Facts, MemoryGraph, Outreach, Letter and Forgetting (run `memory`)

**Facts.**  `active` and `superseded` are the table; a job (`BeginMerge`,
`LoadTable`, `SaveTable`) reads it whole and writes it back whole, so overlapping
jobs undo each other's work.  `ClearFacts` is forgetting or reset, `FactsCrash` the
end of the process.  Loading escapes a text again, which makes a fact with a quote
look new: `esc` counts how often.  A table that cannot be decrypted loads as an empty
one, and is overwritten (`LoadTable`).  `OneVersion` speaks of two facts of a category and
of two that say the same (`Alike`), but for the case in which the code does repeat a
fact: no category, and a character to escape (`SaidOnce`).  `Succeeded` makes an
exception once one of the limits has dropped a fact (`cut`).

**MemoryGraph.**  run_reflection holds no lock of the user, so several reflections
(`Writers`) add nodes at one time: one in mid-session beside the end handler's or the
watcher's.  `Begin` is the query of add_node, `Retire`, `NoteConflict` and `Insert` its
commits one by one, `FindConflict`, `Check` and `CheckNew` the queries between them;
`DeleteNode` and `BulkDelete` are the routes', `CutShort` a crash or an exception between
two commits.  Exceptions: `overflow`, when a category's facts are more than a query
returns; `crossed`, the pairs of facts of one category whose adds ran at one time, which
leave both active (`OneActive`); and `gone`, the ids deleted or of adds cut short.

**Outreach.**

| TLA+ | Code |
|---|---|
| `file`, `written` | the pending message; the day each was written |
| `core` | of the record: last_outreach_at, last drift, stage; factory reset leaves it as it is, since it deletes `current.json` and load reads `relational_state.json` (section 4) |
| `creator[c]` | a request in get_or_create_session: read, made the session, unlink, append |
| `drift` | the daily drift and the outreach after it, with what each has loaded |
| `task` | a reflection or forgetting that has loaded the record and will save it |
| `raced`, `lost`, `forgot` | history variables for the exceptions below |

The code loses the guarantee in three ways, which the properties name: a session
that ends while another request is making one (`raced`), a crash or an exception
between unlink and append (`lost`), and a record saved over the date of the last
message by a task that had loaded it before (`forgot`).

**Letter.**  `Look`, `Claim`, `KeepLetter` or `LetterFails`, `GiveUpClaim` are
get_letter before the lock, under it, with the model's answer, without one, and its
`finally`; `LetterRestart` empties the set in memory.

**Forgetting.**  A store, or a part of the core (`Parts`), holds data from before the
request ("old"), after it ("new"), both or none.  `Ask` finds a marker or makes one,
`DeleteStore` and `DeletionRaises` go through `Order`, first to complete an earlier request
if there was a marker, then for this one; `SaveMind` saves the core without the counts,
notes and desires (`scaffold`) and without what the model would release of opinion and
residue (`Negotiable`; `kept` is what it would not), and with attachment and personality
(`bond`); `Unmark` ends it; `Interrupted` is a crash at any point.  `Jobs` do not wait for
any of it: a turn on its way to the history, a reflection, a letter, quick facts, the drift.
Each writes what it loaded or was told to the stores it reaches (`Reach`), when the
request runs or when it is over.  Exceptions: `failed`, a deletion that raised and was
logged, and `rewritten`, what a job put old data back into (`AlwaysDeleted`).

| Run | Question | Size |
|---|---|---|
| `memory` | types; `OneVersion`, `Succeeded`; `OneCurrentFact`, `ConflictsArePast`; `KeptUntilTold`, `ToldOnce`, `Spaced`; `OneGeneration`; `ForgottenIsGone` | 1,431,158 states |

Bounds.  Facts: two jobs and three merges, so that one begins after another has
overtaken it; tables of three and two rows, which the batches overfill; facts with and
without a category, with and without a character to escape.  MemoryGraph: two reflections,
queries of two rows and four nodes (two crossed facts, a third that supersedes one of
them, and its contradiction), two contents in a category and one without one.
Outreach: two requests race for the session; two messages within three days against
a cooldown of two; one task.  Letter: two requests, trusts below, at and beyond the
threshold.  Forgetting: the store whose failure ends the request, and one whose failure
does not, stand for the code's history, and log, letter and facts, journal, persona; a turn
that writes to the first, a reflection that writes to the second and saves the core; one
part the model decides of.  Creators, readers and writers are symmetric.

Neither run checks deadlock: every component has budgets that run out.  Neither
states a liveness property: what should happen there in the end (a letter, a
message, a mail) depends on the model, on the user or on the mail service.

Proved (`MemoryProofs`, `OutreachProofs`), every property of the run, for any values
of the constants that their assumptions allow (`Facts`: categories, limits of at
least one row; `Outreach`: at least one day; `Forgetting`: an order in which each
store occurs):

- `OneGeneration`, with the types, is inductive as it stands.
- `ForgottenIsGone`: `ForgetInv` says what a pass through the stores has achieved so
  far: between the first deletion and the last there is a marker, and each store that
  still holds old data, and is not excused, is among those left.  For the core it says
  that no job under way during a request takes what it loaded for new, and that after
  the request whatever such a job began with is as clean as the core (`MindClean`).
- `OneCurrentFact` and `ConflictsArePast`: between the commits of an add, `Retiring`
  says that each active fact of its category is among those it has yet to retire or
  crossed it, if the query saw them all, and that two adds of one category have
  crossed; `ToldKept` that a category someone told a fact of has one or an add of it
  still runs; `Noted` that the old fact of a contradiction is past and is nobody's to
  insert, and the new one is there, coming, or crossed another.
- `OneVersion` and `Succeeded`: `FactsInv` says both of the table and of what each
  loaded job would put in its place, which is why overlapping jobs can only replace one
  consistent table by another.  `MergeKeeps` is the merge; it leans on `PickedFacts`,
  that a list comprehension picks what is at the places asked for and nothing else.
- `ToldOnce` and `KeptUntilTold`: `DeliveryInv`, relative to the types: while no session
  ended under a request that was making one, at most one request holds a message, it
  is the one the file had, and it has not been told.  `Spaced`: `DatedInv`, while
  no date was lost, the record has the day of the last message, or the drift that
  sent it is about to save it.
- `MemoryIsEach`: a behaviour of the run is one of each component, so all of this, and
  the composed `TypeOK`, holds of the run.

`Facts` writes its list comprehension as `Picked`, and not with SelectSeq, which is
recursive and would leave the merge without a proof.  `FactsTypeOK` bounds what a merge
writes; a table of the program's first version is read whatever its length.

## 8. What the findings say

Each is a run that is expected to be violated, stating a sentence of the
repository; `PROJECT.json` quotes them.  A turn streaming while its session is
ended carries the old turns into the next session, and they are reflected on twice
(`session_overlap`).  A reflection whose LLM calls all failed counts as done
(`session_outage`).  The watcher's clean-up deletes a session under a turn that is still
streaming, and the turn is in no store, queue or reflection (`session_late`).  Factory
reset resets nothing of the relationship once the new file exists
(`relationship_reset`).  The attachment kept in negotiated forgetting is lost at
the next session (`relationship_forget`).  A reply the mobile app has shown as
final is overwritten by an error when the connection breaks before the stream's
end (`chat_late_break`).

Each exception that a property names is one that TLC shows to be needed.  Four of them
contradict a sentence of the repository, too, though no run of their own is listed:

- With a row that could not be written, a session started between the pop and the
  unlink of delete_session takes the old turns from the fallback file, under a new id,
  and they are reflected on twice: `session_overlap.cfg` with `Overlap` = FALSE and
  `MaxFault` = 1 violates `NeverReReflected` ("now guarded by this slicing",
  `docs/anjo-technical.md:1072`).
- A fact with a quote in it, and no category, is not recognised as known and stands
  twice: `memory.cfg` with `SaidOnce` ("exact duplicate", `core/facts.py:233`).
- Two reflections that add at one time leave two active facts of one category:
  `memory.cfg` with `OneActive` ("Auto-supersedes", `memory/memory_graph.py:113`).
- A message handed to a pool thread before the user asked to forget is in the history
  when all is deleted: `memory.cfg` with `AlwaysDeleted` ("Always deletes raw data",
  `core/forgetting.py:39`).

Two more, which leave nothing to interleave and so have no run: `docs/anjo-technical.md:1136`
says that revocations live in memory only, while `auth.py` keeps a table of them; the
mail of `core/email.py:34` says that the link expires in 24 hours, while `auth.py`
lets a verification link live until it is used or replaced.

## 9. Left to TLC

- `OwedTurnPickedUp` and the fair half of `KeepsPromise`: liveness under fairness is out
  of the prover's reach, as is anything about ENABLED.
- The six violations of section 8, which are counterexamples.

Of `ReflectedOnce`, `RunningIsQueued`, `DurableTurn` and `LedgerKept` outside the hypotheses of
section 3 neither a run nor a proof says anything.  What a recursive definition computes for every input cannot be proved either; there is
none.

## 10. Not modelled

Component by component, with the reason, in `components` of `PROJECT.json`.  In short:

- text, prompts, directives, encryption, the database, the language model and the mail
  service: data that no property here tells apart.  Their failures appear as
  failing steps of their callers.
- the vectors of long-term memory, and the journal.  Forgetting and factory reset
  mean to delete the vectors, but call `_get_collections()` without its argument
  (`core/forgetting.py:120`, `dashboard/routes/reset_routes.py:23`), which always
  raises and is logged: no vector is ever deleted there, whatever is interleaved,
  although `core/forgetting.py:39` says that embeddings always are.  Account deletion
  passes it.
- the rows of `memory_graph` are not among what forgetting deletes; the opening
  message makes a history odd for good, so that the every-so-many-messages condition
  of `chat_routes.py:240` is never met after one.  Both are arguments about a line
  that leave nothing to interleave.
- the personality, residue, desires and notes of the record, and the record as
  several copies that overwrite each other (planned: `CoreReplicas`).  `Outreach` and
  `Facts` have the overwriting for the part of the state that is theirs.
- a users table that cannot be read, password hashing, formats, CSRF, cookies.
- the command line: one user, nothing concurrent.
