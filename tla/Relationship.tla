------------------------------ MODULE Relationship ------------------------------
(***************************************************************************)
(* The relationship one user has built up: its stage, the significance that *)
(* earns it, the ceiling the user may put on it, trust, and attachment under *)
(* the safety governor (core/self_core.py, core/safety.py), as moved by the  *)
(* reflection pipeline (reflection/engine.py), daily drift (core/drift.py),  *)
(* the ceiling route, negotiated forgetting and factory reset.              *)
(*                                                                         *)
(* SelfCore.save writes the record twice, to relational_state.json and to    *)
(* the legacy current.json; SelfCore.load prefers the first.                *)
(*                                                                         *)
(* Each handler is one step that loads, changes and saves: how copies of the *)
(* record overtake one another is not this module's subject.  Numbers are    *)
(* whole multiples of a unit the constants fix; trust is counted in          *)
(* twentieths of the unit of significance, consecutive_hostile in halves.    *)
(* Mood, personality, residue, desires and notes have no influence on what   *)
(* is modelled here and are left out.                                       *)
(***************************************************************************)
EXTENDS Integers, Sequences, Functions

CONSTANTS
  Floor,          \* _STAGE_FLOORS, by stage_int
  SigCap,         \* MAX_SIGNIFICANCE_PER_SESSION
  SigHalf,        \* a significance of 0.5, where trust does not move
  TrustOne,       \* a trust score of 1.0
  WeightOne,      \* an attachment weight of 1.0
  PerSession,     \* the weight each session makes room for (0.075)
  MaxDelta,       \* the most a session may move the weight (0.08)
  FlaggedDelta,   \* _FLAGGED_MAX_DELTA
  Velocity,       \* _VELOCITY_THRESHOLD
  Absolute,       \* _ABSOLUTE_THRESHOLD
  Window,         \* _WINDOW_SIZE
  Keep,           \* weight deltas kept: twice the window
  Between,        \* MIN_SESSIONS_BETWEEN_CEILING_CHECKS
  None,           \* no ceiling, no file, no attachment update
  Significances,  \* what the relational pass may answer
  WeightDeltas,   \* what the emotional pass may answer
  Releases,       \* how much weight forgetting may release (0 to 0.5)
  Ceilings,       \* ceilings ever asked for, in conversation or by the route
  LegacyCores,    \* what current.json may hold of a user from before the split
  MaxCount        \* bound: sessions reflected on between two forgettings

Stages == 1 .. 5
Intimate == 5

ASSUME FloorsAscend ==
  /\ Floor \in [Stages -> Nat]
  /\ Floor[1] = 0
  /\ \A k \in 1 .. 4 : Floor[k] <= Floor[k + 1]

\* No session is worth a whole stage (0.7 against 3.5, 7.5 and 17).
ASSUME FloorsSpread == \A k \in 2 .. 4 : Floor[k] + SigCap <= Floor[k + 1]

ASSUME AmountsOK ==
  /\ SigCap \in Nat /\ SigHalf \in Nat /\ TrustOne \in Nat
  /\ WeightOne \in Nat /\ PerSession \in Nat
  /\ FlaggedDelta \in Nat /\ MaxDelta \in Nat /\ FlaggedDelta <= MaxDelta
  /\ Velocity \in Nat /\ Absolute \in Nat
  /\ Window \in Nat /\ Keep \in Nat \ {0} /\ Window <= Keep
  /\ Between \in Nat /\ MaxCount \in Nat

ASSUME AnswersOK ==
  /\ Significances \subseteq Int /\ WeightDeltas \subseteq Int /\ Releases \subseteq Nat
  /\ Ceilings \subseteq 2 .. 5
  /\ None \notin Int

CoreRec == [stage : Stages, sig : Nat, ceiling : Ceilings \cup {None}, checked : Nat,
            hostile : 0 .. 5, count : Nat, trust : 0 .. TrustOne,
            weight : 0 .. WeightOne, deltas : Seq(Int)]

ASSUME NoneOK == None \notin CoreRec

ASSUME LegacyOK ==
  \A c \in LegacyCores :
    c \in CoreRec /\ Floor[c.stage] <= c.sig /\ c.checked <= c.count /\ Len(c.deltas) <= Keep

VARIABLES
  rel,      \* relational_state.json, or None when it is not there
  legacy,   \* current.json, or None
  away      \* days since the last session: 0 up to 30, 1 up to 90, 2 more

vars == <<rel, legacy, away>>

AtLeast(a, x) == IF x < a THEN a ELSE x
AtMost(b, x)  == IF x > b THEN b ELSE x
Clamp(a, b, x) == AtLeast(a, AtMost(b, x))

(***************************************************************************)
(* The record and its files                                                *)
(***************************************************************************)

Fresh == [stage |-> 1, sig |-> 0, ceiling |-> None, checked |-> 0, hostile |-> 0,
          count |-> 0, trust |-> 0, weight |-> 0, deltas |-> <<>>]

\* SelfCore.load: the new format first, then the legacy file, then a new record.
Core == IF rel # None THEN rel ELSE IF legacy # None THEN legacy ELSE Fresh

Save(c) == rel' = c /\ legacy' = c

(***************************************************************************)
(* Stages                                                                  *)
(***************************************************************************)

BugReached(sig, top) ==                         \* mutant: the ceiling is not looked at
  CHOOSE k \in Stages : Floor[k] <= sig /\ \A j \in Stages : Floor[j] <= sig => j <= k

\* The highest stage that the significance earns and the ceiling admits.
Reached(sig, top) ==
  CHOOSE k \in 1 .. top : Floor[k] <= sig /\ \A j \in 1 .. top : Floor[j] <= sig => j <= k

Top(c) == IF c.ceiling = None THEN Intimate ELSE c.ceiling

\* mutant: the significance of a session is not capped.
BugIncrementSession(c, significance) ==
  LET gain == AtLeast(0, significance)
  IN  [c EXCEPT !.count = @ + 1,
                !.sig   = @ + gain,
                !.stage = Reached(c.sig + gain, Top(c)),
                !.trust = Clamp(0, TrustOne, @ + gain - SigHalf)]

\* increment_session
IncrementSession(c, significance) ==
  LET gain == Clamp(0, SigCap, significance)
  IN  [c EXCEPT !.count = @ + 1,
                !.sig   = @ + gain,
                !.stage = Reached(c.sig + gain, Top(c)),
                !.trust = Clamp(0, TrustOne, @ + gain - SigHalf)]

\* mutant: one stage back, with nothing left to climb from.
BugRegressStage(c) == IF c.stage = 1 THEN c ELSE [c EXCEPT !.stage = @ - 1, !.sig = 0]

\* regress_stage
RegressStage(c) ==
  IF c.stage = 1 THEN c ELSE [c EXCEPT !.stage = @ - 1, !.sig = Floor[c.stage - 1]]

\* The relationship has outgrown the ceiling it has been resting on.
Outgrown(before, c) ==
  /\ c.ceiling # None /\ c.ceiling < Intimate
  /\ c.stage = before.stage /\ c.stage = c.ceiling
  /\ c.sig >= Floor[c.ceiling + 1]

MayAsk(c) == c.checked = 0 \/ c.count - c.checked >= Between

\* _maybe_advance_past_ceiling: the call fails, she stays, or she goes on.
Advance(c) == [c EXCEPT !.ceiling = None, !.checked = 0, !.stage = c.ceiling + 1,
                        !.sig = AtLeast(Floor[c.ceiling + 1], @)]
Decisions(before, c) ==
  IF Outgrown(before, c) /\ MayAsk(c) THEN {c, [c EXCEPT !.checked = c.count], Advance(c)}
  ELSE {c}

HostileLimit == 6

\* Hostile tracking: +1, -0.5 or back to zero; at 3 the stage falls.
Feel(c, valence) ==
  LET h == CASE valence = "hostile" -> c.hostile + 2
             [] valence = "cool"    -> AtLeast(0, c.hostile - 1)
             [] valence = "warm"    -> 0
  IN  IF h >= HostileLimit THEN [RegressStage(c) EXCEPT !.hostile = 0]
      ELSE [c EXCEPT !.hostile = h]

(***************************************************************************)
(* Attachment                                                              *)
(***************************************************************************)

\* Positive deltas of the rolling window.
Rise(deltas) ==
  SumFunctionOnSet(deltas, {i \in DOMAIN deltas : i > Len(deltas) - Window /\ deltas[i] > 0})

\* check_attachment_safety
Flagged(c) ==
  /\ 2 * c.trust < TrustOne
  /\ \/ Len(c.deltas) >= Window /\ Rise(c.deltas) > Velocity
     \/ c.weight > Absolute

BugRecord(deltas, d) == Append(deltas, d)       \* mutant: the window never slides

\* record_weight_delta
Record(deltas, d) ==
  IF Len(deltas) < Keep THEN Append(deltas, d)
  ELSE SubSeq(Append(deltas, d), Len(deltas) - Keep + 2, Len(deltas) + 1)

\* mutant: no session cap.
BugAttach(c, wd) ==
  IF wd = None THEN c
  ELSE LET d == Clamp(-MaxDelta, IF Flagged(c) THEN FlaggedDelta ELSE MaxDelta, wd)
       IN  [c EXCEPT !.weight = Clamp(0, WeightOne, @ + d),
                     !.deltas = Record(@, d)]

Attach(c, wd) ==
  IF wd = None THEN c
  ELSE LET d == Clamp(-MaxDelta, IF Flagged(c) THEN FlaggedDelta ELSE MaxDelta, wd)
       IN  [c EXCEPT !.weight = AtLeast(0, AtMost(AtMost(WeightOne, c.count * PerSession), @ + d)),
                     !.deltas = Record(@, d)]

(***************************************************************************)
(* Handlers                                                                *)
(***************************************************************************)

\* A ceiling is only taken up from the conversation up to "close".
Stated(c, ceiling) == IF ceiling = None THEN c ELSE [c EXCEPT !.ceiling = ceiling]
StatedCeilings == (Ceilings \ {Intimate}) \cup {None}

\* run_reflection at the end of a session, in its order.
Reflect(stated, significance, valence, wd) ==
  /\ Core.count < MaxCount
  /\ LET before == Stated(Core, stated)
     IN  \E decided \in Decisions(before, IncrementSession(before, significance)) :
           Save(Attach(Feel(decided, valence), wd))
  /\ away' = 0

\* run_reflection in the middle of a session: no session is counted.
MidReflect(stated) ==
  /\ Save(Stated(Core, stated))
  /\ UNCHANGED away

\* POST /preferences/ceiling
SetCeiling(ceiling) ==
  /\ Save([Core EXCEPT !.ceiling = ceiling])
  /\ UNCHANGED away

TimePasses == away < 2 /\ away' = away + 1 /\ UNCHANGED <<rel, legacy>>

\* The weight loses a hundredth, and is rounded to a neighbouring unit.
Eroded(w) == {(99 * w) \div 100, (99 * w + 99) \div 100}

\* apply_daily_drift: nothing to drift before the first session; after 30 days the
\* weight erodes, after 90 the stage falls, at every run.
Drift ==
  /\ IF Core.count = 0 THEN Save(Core)
     ELSE \E w \in IF away >= 1 THEN Eroded(Core.weight) ELSE {Core.weight} :
            LET c == [Core EXCEPT !.weight = w]
            IN  Save(IF away = 2 THEN RegressStage(c) ELSE c)
  /\ UNCHANGED away

\* mutant: the ceiling check keeps its old session number.
BugForget(release) ==
  /\ Save([Fresh EXCEPT !.weight = AtLeast(0, Core.weight - release), !.deltas = Core.deltas,
                        !.checked = Core.checked])
  /\ away' = 0

\* negotiate_and_forget: the scaffolding goes, the attachment is negotiated, its
\* rolling window stays.
Forget(release) ==
  /\ Save([Fresh EXCEPT !.weight = AtLeast(0, Core.weight - release), !.deltas = Core.deltas])
  /\ away' = 0

\* factory_reset and admin_reset_user: current.json is unlinked; the session that is
\* opened next loads the core again, which makes relational_state.json if need be.
FactoryReset ==
  /\ legacy' = None
  /\ rel' = IF rel = None THEN Fresh ELSE rel
  /\ UNCHANGED away

Init ==
  /\ rel = None /\ legacy \in LegacyCores \cup {None}
  /\ away = 0

Next ==
  \/ \E stated \in StatedCeilings, significance \in Significances,
        valence \in {"hostile", "cool", "warm"}, wd \in WeightDeltas \cup {None} :
       Reflect(stated, significance, valence, wd)
  \/ \E stated \in StatedCeilings : MidReflect(stated)
  \/ \E ceiling \in Ceilings \cup {None} : SetCeiling(ceiling)
  \/ \E release \in Releases : Forget(release)
  \/ TimePasses \/ Drift \/ FactoryReset

Spec == Init /\ [][Next]_vars

(***************************************************************************)
(* Properties                                                              *)
(***************************************************************************)

\* Types and ranges of whatever is on disk.
CoreOK(c) == c \in CoreRec /\ Len(c.deltas) <= Keep
TypeOK ==
  /\ rel # None => CoreOK(rel)
  /\ legacy # None => CoreOK(legacy)
  /\ away \in 0 .. 2

\* The stage is always one the cumulative significance has earned, although the
\* two are lowered by hostility, drift and forgetting and raised by sessions and by
\* the decision to go past a ceiling.
StageEarned == Floor[Core.stage] <= Core.sig

\* The session number of the last ceiling decision never runs ahead of the session
\* count, which would keep her from deciding for that many sessions more.
DecisionNotStuck == Core.checked <= Core.count

\* Only a session raises the stage, and no session leaves it above a ceiling that
\* is still in force.
CeilingHeld ==
  [][/\ Core'.stage > Core.stage => Core'.count > Core.count
     /\ Core'.count > Core.count /\ Core'.ceiling # None => Core'.stage <= Core'.ceiling]_vars

\* Short of forgetting, one event costs one stage at most below what a ceiling
\* allows, even when a hostile session meets a new ceiling or a long absence.
FallsByOne ==
  [][Core'.count = 0 \/ Core'.stage >= AtMost(Top(Core'), Core.stage) - 1]_vars

\* Attachment grows in sessions only, within the room the sessions have made, and at
\* the governor's pace when it is already high and trust is not.
AttachmentPaced ==
  [][Core'.weight > Core.weight =>
       /\ Core'.count > Core.count
       /\ Core'.weight <= Core'.count * PerSession
       /\ Core'.weight - Core.weight <=
            IF Core.weight > Absolute /\ 2 * Core'.trust < TrustOne
            THEN FlaggedDelta ELSE MaxDelta]_vars

\* Factory reset "wipes all persistent state for the current user" and opens a session
\* "with fresh SelfCore defaults".  Nothing else unlinks current.json.
ResetStartsOver == [][legacy # None /\ legacy' = None => Core' = Fresh]_vars

\* "Cap per-session significance to prevent stage-jumping": the stage rises one at a
\* time, unless a ceiling has been holding it below what it had earned.
OneStageAtATime ==
  [][Core'.stage <= Core.stage + 1 \/ Core.stage < Reached(Core.sig, Intimate)]_vars

\* "Emotional state (attachment, residue) survives per negotiation": what she keeps of
\* her attachment, a session moves by MAX_DELTA at most.
AttachmentSurvives ==
  [][Core'.count > Core.count => Core'.weight >= Core.weight - MaxDelta]_vars

================================================================================
