-------------------------------- MODULE Turn --------------------------------
(***************************************************************************)
(* One turn of a conversation: the graph a message goes through before the  *)
(* model is asked for a reply (perceive, gate, retrieve, appraise, policy), *)
(* and what of it is left for the next turn.  The handler runs the graph on *)
(* a copy of the session and installs the copy when the turn ends well.     *)
(*                                                                          *)
(* Emotions, moods and goals are in ten-thousandths, shares in per cent.    *)
(* A message is the set of the signals the classifier finds in it and its   *)
(* sentiment in per cent; dominance reaches the prompt only and is left out.*)
(***************************************************************************)
EXTENDS Integers, Sequences

CONSTANTS
  Messages,   \* messages the user may send: [has, valence]
  Cores,      \* personalities the session may hold: see Core
  MaxTurns,   \* messages sent (bound)
  MaxSwaps    \* replacements of the core by other tasks (bound)

One == 10000

(* Mutant of Share: per cent taken for a factor. *)
BugShare(x, percent) == x * percent

Share(x, percent) == (x * percent) \div 100
Larger(x, y) == IF x >= y THEN x ELSE y
Clamp(x) == IF x > One THEN One ELSE IF x < -One THEN -One ELSE x

Signals == {"abuse", "apology", "neglect", "casual", "challenge", "command",
            "vulnerable", "theory", "questions"}
Intents == {"ABUSE", "APOLOGY", "VULNERABILITY", "CURIOSITY", "CHALLENGE", "NEGLECT", "CASUAL"}
Stances == {"COMFORT", "CHALLENGE", "MIRROR", "DISTANCE", "FOLLOW_UP", "FLIRT", "TEASE",
            "HOLD_SPACE", "ENGAGE"}
Appraised == {"joy", "distress", "admiration", "reproach", "gratitude"}
Emotions == Appraised \cup {"fatigue", "longing", "unease"}
Feelings == [Emotions -> 0..One]
Calm == [e \in Emotions |-> 0]

\* followUp, flirt and tease are the hashes policy.py tosses for coins: each
\* stays what it is as long as the preoccupation or the session count does.
Core == [stage : 1..5, valence : -One..One, arousal : -One..One, baseline : -One..One,
         respect : 0..One, rapport : 0..One, honesty : 0..One, intellectual : 0..One,
         longing : 0..One, trust : 0..One, comfort : 0..One,
         followUp : BOOLEAN, flirt : BOOLEAN, tease : BOOLEAN]

ASSUME MessagesOK == Messages \subseteq [has : SUBSET Signals, valence : 0..100]
ASSUME CoresOK == Cores \subseteq Core /\ Cores # {}
ASSUME TurnBoundsOK == MaxTurns \in Nat /\ MaxSwaps \in Nat

\* The standard of respect is 0.85 and nothing in the program changes it; what
\* the carry needs is that the reproach of an insult still counts a turn later.
ASSUME RespectOK == \A c \in Cores : Share(Share(c.respect, 95), 70) > 5000

VARIABLES
  pc,        \* the node the turn is in
  sent,      \* messages sent so far: the number of the current turn
  session,   \* the session's state
  turn,      \* the turn's copy of it, with the fields of this turn
  swaps,     \* replacements of the core so far
  answered,  \* turns of this session that were answered or met with silence
  calm       \* answered turns since the last insult was answered, -1 if none

turnVars == <<pc, sent, session, turn, swaps, answered, calm>>

\* history and seed are lengths; recalled is the turn whose memories are there.
Session == [core : Cores, history : Nat, seed : Nat, carry : Feelings]
TurnState ==
  [core : Core, history : Nat, seed : Nat, carry : Feelings, msg : Messages,
   intent : Intents \cup {""}, retrieve : BOOLEAN, respond : BOOLEAN, gateOk : BOOLEAN,
   recalled : 0..MaxTurns, emotions : Feelings, stance : Stances \cup {""}]

NoTurn == [core |-> "none"]

Kept(s) == [core |-> s.core, history |-> s.history, seed |-> s.seed, carry |-> s.carry]

FreshSession(core, seed) == [core |-> core, history |-> seed, seed |-> seed, carry |-> Calm]

TurnInit ==
  /\ pc = "idle" /\ sent = 0 /\ swaps = 0 /\ answered = 0 /\ calm = -1
  /\ turn = NoTurn
  /\ session \in {FreshSession(c, n) : c \in Cores, n \in {0, 6}}

------------------------------------------------------------------------------
(* The classifiers.  A list of rules is tried in order. *)

FirstOf(rules) == rules[CHOOSE i \in DOMAIN rules :
                          rules[i][1] /\ \A j \in 1..(i - 1) : ~rules[j][1]][2]

\* The rules of classify_intent: short deflections before challenges, challenges before
\* low sentiment, so that push-back is not taken for vulnerability.
IntentRules(m) == <<
  <<"abuse" \in m.has,                                  "ABUSE">>,
  <<"apology" \in m.has,                                "APOLOGY">>,
  <<"neglect" \in m.has,                                "NEGLECT">>,
  <<"casual" \in m.has,                                 "CASUAL">>,
  <<"challenge" \in m.has,                              "CHALLENGE">>,
  <<"command" \in m.has /\ m.valence < 65,              "CHALLENGE">>,
  <<"vulnerable" \in m.has \/ m.valence < 30,           "VULNERABILITY">>,
  <<"theory" \in m.has,                                 "CURIOSITY">>,
  <<m.valence >= 65,                                    "CURIOSITY">>,
  <<"questions" \in m.has,                              "CURIOSITY">>,
  <<TRUE,                                               "CASUAL">> >>

ClassifyIntent(m) == FirstOf(IntentRules(m))

\* What is left of each emotion a turn later, in per cent.
CarryDecay(e) == CASE e = "reproach" -> 70
                   [] e = "admiration" -> 85
                   [] e = "gratitude" -> 88
                   [] e = "joy" -> 90
                   [] OTHER -> 80

\* An emotion this weak is dropped.
Faint(x) == x <= 500

(* Mutant of Decayed: the carried emotions do not fade. *)
BugDecayed(carry) == carry

Decayed(carry) ==
  [e \in Emotions |-> LET x == Share(carry[e], CarryDecay(e)) IN IF Faint(x) THEN 0 ELSE x]

\* decay_mood, then blend_baseline, which pulls harder the closer the two are.
BaselineWeight == <<0, 20, 40, 60, 70>>
Resting(core) ==
  LET w == BaselineWeight[core.stage]
      valence == Share(core.valence, 80)
      arousal == Share(core.arousal, 80)
  IN [core EXCEPT !.valence = Clamp(Share(valence, 100 - w) + Share(core.baseline, w)),
                  !.arousal = Clamp(Share(arousal, 100 - w))]

\* appraise_input: what an intent does to the mood ...
ValenceDelta(intent) == CASE intent = "ABUSE" -> -3500 [] intent = "APOLOGY" -> 500
                          [] intent = "VULNERABILITY" -> 1500 [] intent = "CURIOSITY" -> 2000
                          [] intent = "CHALLENGE" -> -500 [] intent = "NEGLECT" -> -1000
                          [] OTHER -> 200
ArousalDelta(intent) == CASE intent = "ABUSE" -> -1000 [] intent = "VULNERABILITY" -> 1000
                          [] intent = "CURIOSITY" -> 1500 [] intent = "NEGLECT" -> -500
                          [] OTHER -> 0
Moved(core, intent) ==
  [core EXCEPT !.valence = Clamp(@ + ValenceDelta(intent)),
               !.arousal = Clamp(@ + ArousalDelta(intent))]

\* ... and the emotions it stirs, against her goals.
Stirred(core, intent) ==
  [Calm EXCEPT
     !["reproach"] = IF intent = "ABUSE" THEN Share(core.respect, 95) ELSE 0,
     !["distress"] = CASE intent = "ABUSE" -> Share(core.rapport, 65)
                       [] intent = "CHALLENGE" -> Share(core.rapport, 25)
                       [] intent = "NEGLECT" -> Share(core.rapport, 40)
                       [] OTHER -> 0,
     !["gratitude"] = CASE intent = "APOLOGY" -> Share(core.honesty, 35)
                        [] intent = "VULNERABILITY" -> Share(core.honesty, 70)
                        [] OTHER -> 0,
     !["admiration"] = CASE intent = "CURIOSITY" -> Share(core.intellectual, 75)
                         [] intent = "CHALLENGE" -> Share(core.intellectual, 45)
                         [] OTHER -> 0,
     !["joy"] = CASE intent = "APOLOGY" -> Share(core.rapport, 20)
                  [] intent = "VULNERABILITY" -> Share(core.rapport, 75)
                  [] intent = "CURIOSITY" -> Share(core.rapport, 50)
                  [] intent = "CASUAL" -> 500
                  [] OTHER -> 0]

\* The emotions that come from her state whatever the message.
OfState(core) ==
  [Calm EXCEPT !["fatigue"] = IF core.arousal < 0 THEN -core.arousal ELSE 0,
               !["longing"] = IF core.longing > 3000 THEN core.longing ELSE 0,
               !["unease"] = IF core.valence > -3000 /\ core.valence < 0 THEN -core.valence ELSE 0]

(* Mutant of Felt: what is carried is forgotten. *)
BugFelt(core, intent, carry) ==
  [e \in Emotions |-> Larger(Stirred(core, intent)[e], OfState(core)[e])]

\* The strongest of what is stirred, carried and felt anyway.
Felt(core, intent, carry) ==
  [e \in Emotions |-> Larger(Larger(Stirred(core, intent)[e], Decayed(carry)[e]), OfState(core)[e])]

StanceRules(core, intent, emotions, threads) == <<
  <<intent = "ABUSE",                                                         "DISTANCE">>,
  <<intent = "VULNERABILITY",                                                 "COMFORT">>,
  <<core.valence < -3000 /\ core.arousal < -2000 /\ core.stage >= 3,          "DISTANCE">>,
  <<emotions["reproach"] > 5000,                                              "DISTANCE">>,
  <<intent = "CHALLENGE" /\ core.stage >= 2,                                  "CHALLENGE">>,
  <<intent = "CHALLENGE",                                                     "MIRROR">>,
  <<threads /\ core.stage >= 3 /\ intent \in {"CASUAL", "CURIOSITY"} /\ core.followUp,
                                                                              "FOLLOW_UP">>,
  <<core.stage >= 4 /\ core.trust > 7000 /\ core.valence > 2000
      /\ intent \in {"CASUAL", "CURIOSITY"} /\ core.flirt,                    "FLIRT">>,
  <<core.stage >= 3 /\ core.valence > 1000 /\ intent = "CASUAL"
      /\ core.comfort > 3000 /\ core.tease,                                   "TEASE">>,
  <<intent = "NEGLECT",                                                       "HOLD_SPACE">>,
  <<intent \in {"APOLOGY", "CURIOSITY"} \/ core.arousal > 0,                  "ENGAGE">>,
  <<TRUE,                                                                     "HOLD_SPACE">> >>

DecideStance(core, intent, emotions, threads) ==
  FirstOf(StanceRules(core, intent, emotions, threads))

------------------------------------------------------------------------------
(* The turn. *)

Goto(node) == pc' = node /\ UNCHANGED <<sent, session, swaps, answered, calm>>

(* Mutant of Accept: the memories of the turn before are not cleared. *)
BugAccept(m) ==
  /\ pc = "idle" /\ sent < MaxTurns
  /\ pc' = "perceive"
  /\ sent' = sent + 1
  /\ turn' = [core |-> session.core, history |-> session.history, seed |-> session.seed,
              carry |-> session.carry, msg |-> m, intent |-> "", retrieve |-> FALSE,
              respond |-> TRUE, gateOk |-> FALSE, recalled |-> sent, emotions |-> Calm,
              stance |-> ""]
  /\ UNCHANGED <<session, swaps, answered, calm>>

\* chat_message copies the session and clears what belongs to one turn; the
\* carry stays.
Accept(m) ==
  /\ pc = "idle" /\ sent < MaxTurns
  /\ pc' = "perceive"
  /\ sent' = sent + 1
  /\ turn' = [core |-> session.core, history |-> session.history, seed |-> session.seed,
              carry |-> session.carry, msg |-> m, intent |-> "", retrieve |-> FALSE,
              respond |-> TRUE, gateOk |-> FALSE, recalled |-> 0, emotions |-> Calm,
              stance |-> ""]
  /\ UNCHANGED <<session, swaps, answered, calm>>

Perceive ==
  /\ pc = "perceive"
  /\ turn' = [turn EXCEPT !.history = @ + 1]
  /\ Goto("gate")

\* The first message since the session was made: only the seed is before it.
IsFirst == turn.history = turn.seed + 1

Gated(intent, retrieve, respond, ok) ==
  [turn EXCEPT !.intent = intent, !.retrieve = retrieve \/ (ok /\ IsFirst),
               !.respond = respond, !.gateOk = ok]

\* Silence ends the graph; otherwise memories first, if they are wanted.
AfterGate(t) ==
  IF ~t.respond THEN "silence" ELSE IF t.retrieve THEN "retrieve" ELSE "appraise"

\* Insults are recognised by rule, before the model is asked.
GateInsult ==
  /\ pc = "gate" /\ "abuse" \in turn.msg.has
  /\ turn' = Gated("ABUSE", FALSE, TRUE, FALSE)
  /\ Goto(AfterGate(turn'))

\* The model's answer; an intent it made up is replaced by the rules'.
GateAnswers(answer, retrieve, respond) ==
  /\ pc = "gate" /\ "abuse" \notin turn.msg.has
  /\ turn' = Gated(IF answer \in Intents THEN answer ELSE ClassifyIntent(turn.msg),
                   retrieve, respond, TRUE)
  /\ Goto(AfterGate(turn'))

\* No answer, or none that parses: the rules decide, and nothing is retrieved.
GateFails ==
  /\ pc = "gate" /\ "abuse" \notin turn.msg.has
  /\ turn' = Gated(ClassifyIntent(turn.msg), FALSE, TRUE, FALSE)
  /\ Goto(AfterGate(turn'))

Retrieve ==
  /\ pc = "retrieve"
  /\ turn' = [turn EXCEPT !.recalled = sent]
  /\ Goto("appraise")

\* The mood moves on the turn's copy, and what was carried fades into the new
\* carry, emotions of state included.
Appraise ==
  /\ pc = "appraise"
  /\ LET core == Moved(Resting(turn.core), turn.intent)
         felt == Felt(core, turn.intent, turn.carry)
     IN turn' = [turn EXCEPT !.core = core, !.emotions = felt,
                             !.carry = [e \in Emotions |-> IF Faint(felt[e]) THEN 0 ELSE felt[e]]]
  /\ Goto("policy")

\* A store of threads that cannot be read counts as one without any.
Policy(threads) ==
  /\ pc = "policy"
  /\ turn' = [turn EXCEPT !.stance = DecideStance(turn.core, turn.intent, turn.emotions, threads)]
  /\ Goto("stream")

GraphFails ==
  /\ pc \in {"perceive", "gate", "retrieve", "appraise", "policy"}
  /\ turn' = NoTurn
  /\ Goto("idle")

\* The stream fails or times out: nothing of the turn is kept.
StreamFails ==
  /\ pc = "stream"
  /\ turn' = NoTurn
  /\ Goto("idle")

EndTurn(s) ==
  /\ pc' = "idle"
  /\ turn' = NoTurn
  /\ session' = s
  /\ answered' = answered + 1
  /\ UNCHANGED <<sent, swaps>>

\* The whole copy is installed, the core it started from included.
Silence ==
  /\ pc = "silence"
  /\ EndTurn(Kept(turn))
  /\ UNCHANGED calm

\* The copy is installed with the core that is live by now, which this turn's
\* mood never reached.
Answer ==
  /\ pc = "stream"
  /\ EndTurn([Kept(turn) EXCEPT !.history = @ + 1, !.core = session.core])
  /\ calm' = IF turn.intent = "ABUSE" THEN 0 ELSE IF calm = -1 THEN -1 ELSE calm + 1

\* Another task (mid-session reflection) puts a new core into the session.
ReplaceCore(c) ==
  /\ swaps < MaxSwaps /\ c # session.core
  /\ session' = [session EXCEPT !.core = c]
  /\ swaps' = swaps + 1
  /\ UNCHANGED <<pc, sent, turn, answered, calm>>

\* The session ends between two turns and another one is made, seeded with
\* the last messages: what was carried is gone.
Reopen ==
  /\ pc = "idle" /\ answered > 0
  /\ session' = FreshSession(session.core, 6)
  /\ answered' = 0 /\ calm' = -1
  /\ UNCHANGED <<pc, sent, turn, swaps>>

\* The server stops and the session is made again from the fallback file: its
\* history and its seed are there, what was carried is not.  From its row it
\* comes back as it was, which leaves what a stream that fails leaves.
Restore ==
  /\ answered > 0
  /\ pc' = "idle" /\ turn' = NoTurn
  /\ session' = [session EXCEPT !.carry = Calm] /\ calm' = -1
  /\ UNCHANGED <<sent, swaps, answered>>

GraphStep ==
  \/ Perceive
  \/ GateInsult
  \/ \E a \in Intents \cup {"other"}, retrieve, respond \in BOOLEAN : GateAnswers(a, retrieve, respond)
  \/ GateFails
  \/ Retrieve
  \/ Appraise
  \/ \E threads \in BOOLEAN : Policy(threads)
  \/ GraphFails

TurnNext ==
  \/ \E m \in Messages : Accept(m)
  \/ GraphStep
  \/ Silence
  \/ Answer
  \/ StreamFails
  \/ \E c \in Cores : ReplaceCore(c)
  \/ Reopen \/ Restore

TurnSpec == TurnInit /\ [][TurnNext]_turnVars

------------------------------------------------------------------------------

Nodes == {"idle", "perceive", "gate", "retrieve", "appraise", "policy", "stream", "silence"}

TurnTypeOK ==
  /\ pc \in Nodes
  /\ sent \in 0..MaxTurns /\ swaps \in 0..MaxSwaps
  /\ session \in Session
  /\ IF pc = "idle" THEN turn = NoTurn ELSE turn \in TurnState
  /\ answered \in Nat /\ calm \in Nat \cup {-1}

(* appraise_node promises that "an immediate apology doesn't fully clear"   *)
(* an insult: the next reply is distant, or comforting if the user is hurt, *)
(* whatever was said in between to no answer, failed, or met with silence,  *)
(* and whichever core another task has put into the session.                *)
HurtLingers ==
  pc = "stream" /\ calm = 0 /\ turn.intent # "ABUSE" =>
    turn.stance = IF turn.intent = "VULNERABILITY" THEN "COMFORT" ELSE "DISTANCE"

(* ... and no longer than that: from the second reply after it, reproach    *)
(* is too weak to keep her distant, whatever else was felt and carried, and *)
(* however often the insult was repeated before.                            *)
HurtFades ==
  pc = "stream" /\ calm # 0 /\ turn.intent # "ABUSE" => turn.emotions["reproach"] <= 5000

(* The memories a reply is made with were looked up for its own message,    *)
(* if and only if the gate asked for them; and the first reply of a session *)
(* has them, retries of a failed first turn included, unless the message is *)
(* an insult or the gate failed.  A session restored from its file or its   *)
(* row after an answer goes on: its next reply is not a first one.          *)
RecallsItsOwn ==
  pc = "stream" =>
    /\ turn.recalled = IF turn.retrieve THEN sent ELSE 0
    /\ answered = 0 /\ turn.gateOk => turn.retrieve
==============================================================================
