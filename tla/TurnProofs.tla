------------------------------ MODULE TurnProofs ------------------------------
(***************************************************************************)
(* Proofs about a turn: for any messages and personalities, a reply has the *)
(* memories of its own message, and an insult is felt in the next reply and *)
(* no longer.  Then types of the limiter, the accounts and the turn, which  *)
(* are checked together.                                                    *)
(***************************************************************************)
EXTENDS MCService, RateLimitProofs, AccountsProofs, WellFoundedInduction, TLAPS

(***************************************************************************)
(* Arithmetic of feelings                                                  *)
(***************************************************************************)

LEMMA ShareType ==
  ASSUME NEW x \in Int, NEW p \in Int
  PROVE  Share(x, p) \in Int
<1>1. x * p \in Int
  OBVIOUS
<1> QED BY <1>1 DEF Share

LEMMA OneType == One \in Nat /\ -One \in Int /\ 0 \in 0..One /\ 500 \in 0..One
<1>1. One \in Nat /\ 500 <= One
  BY DEF One
<1> QED BY <1>1

LEMMA ShareLess ==
  ASSUME NEW x \in 0..One, NEW p \in 0..100
  PROVE  Share(x, p) \in 0..One
<1>1. x * p \in Int /\ 0 <= x * p /\ x * p <= x * 100
  <2>1. \A m, n \in Nat : m * n \in Nat
    OBVIOUS
  <2>2. x \in Nat /\ p \in Nat /\ 100 - p \in Nat
    BY OneType
  <2>3. x * (100 - p) \in Nat /\ x * p \in Nat
    BY <2>1, <2>2
  <2>4. x * (100 - p) = x * 100 - x * p
    BY <2>2
  <2> QED BY <2>2, <2>3, <2>4
<1>2. \A y \in Int : 0 <= y /\ y <= x * 100 => y \div 100 \in 0..x
  BY OneType
<1> QED BY <1>1, <1>2, OneType DEF Share

\* Seven tenths of a feeling, and seven tenths of that.
LEMMA SevenTenths ==
  ASSUME NEW x \in 0..One
  PROVE  /\ \A y \in 0..One : x <= y => Share(x, 70) <= Share(y, 70)
         /\ Share(Share(x, 70), 70) <= 5000
<1>1. ASSUME NEW y \in 0..One, x <= y PROVE Share(x, 70) <= Share(y, 70)
  BY <1>1 DEF Share, One
<1>2. Share(Share(x, 70), 70) <= 5000
  BY DEF Share, One
<1> QED BY <1>1, <1>2

LEMMA ClampType == ASSUME NEW x \in Int PROVE Clamp(x) \in -One..One
<1>1. Clamp(x) <= One /\ -One <= Clamp(x) /\ Clamp(x) \in Int
  BY DEF Clamp, One
<1> QED BY <1>1, OneType

LEMMA LargerType ==
  ASSUME NEW x \in 0..One, NEW y \in 0..One
  PROVE  Larger(x, y) \in 0..One /\ Larger(x, y) >= x /\ Larger(x, y) >= y
         /\ \A z \in Int : x <= z /\ y <= z => Larger(x, y) <= z
BY DEF Larger, One

(***************************************************************************)
(* What is felt                                                            *)
(***************************************************************************)

LEMMA CalmType == Calm \in Feelings /\ \A e \in Emotions : Calm[e] = 0
BY DEF Calm, Feelings, One

LEMMA StirredType ==
  ASSUME NEW core \in Core, NEW intent
  PROVE  /\ Stirred(core, intent) \in Feelings
         /\ Stirred(core, intent)["reproach"] = IF intent = "ABUSE" THEN Share(core.respect, 95) ELSE 0
<1>1. /\ core.respect \in 0..One /\ core.rapport \in 0..One /\ core.honesty \in 0..One
      /\ core.intellectual \in 0..One
  BY DEF Core
<1>2. 0 \in 0..One /\ 500 \in 0..One
  BY OneType
<1>3. /\ Share(core.respect, 95) \in 0..One
      /\ Share(core.rapport, 65) \in 0..One /\ Share(core.rapport, 25) \in 0..One
      /\ Share(core.rapport, 40) \in 0..One /\ Share(core.honesty, 35) \in 0..One
      /\ Share(core.honesty, 70) \in 0..One /\ Share(core.intellectual, 75) \in 0..One
      /\ Share(core.intellectual, 45) \in 0..One /\ Share(core.rapport, 20) \in 0..One
      /\ Share(core.rapport, 75) \in 0..One /\ Share(core.rapport, 50) \in 0..One
  <2>1. \A x \in 0..One : /\ Share(x, 95) \in 0..One /\ Share(x, 65) \in 0..One
                            /\ Share(x, 25) \in 0..One /\ Share(x, 40) \in 0..One
    BY ShareLess, OneType
  <2>2. \A x \in 0..One : /\ Share(x, 35) \in 0..One /\ Share(x, 70) \in 0..One
                            /\ Share(x, 75) \in 0..One /\ Share(x, 45) \in 0..One
    BY ShareLess, OneType
  <2>3. \A x \in 0..One : Share(x, 20) \in 0..One /\ Share(x, 50) \in 0..One
    BY ShareLess, OneType
  <2>4. Share(core.respect, 95) \in 0..One /\ Share(core.rapport, 65) \in 0..One
    BY <1>1, <2>1, OneType
  <2>5. Share(core.rapport, 25) \in 0..One /\ Share(core.rapport, 40) \in 0..One
    BY <1>1, <2>1, OneType
  <2>6. Share(core.rapport, 75) \in 0..One /\ Share(core.intellectual, 75) \in 0..One
    BY <1>1, <2>2, OneType
  <2>7. Share(core.rapport, 20) \in 0..One /\ Share(core.rapport, 50) \in 0..One
    BY <1>1, <2>3, OneType
  <2>8. Share(core.honesty, 35) \in 0..One /\ Share(core.honesty, 70) \in 0..One
    BY <1>1, <2>2, OneType
  <2>9. Share(core.intellectual, 45) \in 0..One
    BY <1>1, <2>2, OneType
  <2> QED BY <2>4, <2>5, <2>6, <2>7, <2>8, <2>9
<1> DEFINE R == IF intent = "ABUSE" THEN Share(core.respect, 95) ELSE 0
           D == CASE intent = "ABUSE" -> Share(core.rapport, 65)
                  [] intent = "CHALLENGE" -> Share(core.rapport, 25)
                  [] intent = "NEGLECT" -> Share(core.rapport, 40)
                  [] OTHER -> 0
           G == CASE intent = "APOLOGY" -> Share(core.honesty, 35)
                  [] intent = "VULNERABILITY" -> Share(core.honesty, 70)
                  [] OTHER -> 0
           A == CASE intent = "CURIOSITY" -> Share(core.intellectual, 75)
                  [] intent = "CHALLENGE" -> Share(core.intellectual, 45)
                  [] OTHER -> 0
           J == CASE intent = "APOLOGY" -> Share(core.rapport, 20)
                  [] intent = "VULNERABILITY" -> Share(core.rapport, 75)
                  [] intent = "CURIOSITY" -> Share(core.rapport, 50)
                  [] intent = "CASUAL" -> 500
                  [] OTHER -> 0
<1>4. R \in 0..One /\ D \in 0..One /\ G \in 0..One /\ A \in 0..One /\ J \in 0..One
  BY <1>2, <1>3
<1>5. Stirred(core, intent) = [Calm EXCEPT !["reproach"] = R, !["distress"] = D, !["gratitude"] = G,
                                           !["admiration"] = A, !["joy"] = J]
  BY DEF Stirred
<1> HIDE DEF R, D, G, A, J
<1>6. {"reproach", "distress", "gratitude", "admiration", "joy"} \subseteq Emotions
  BY DEF Emotions, Appraised
<1>7. Stirred(core, intent) \in Feelings
  BY <1>4, <1>5, CalmType DEF Feelings
<1>8. Stirred(core, intent)["reproach"] = R
  BY <1>5, <1>6, CalmType DEF Feelings
<1> QED BY <1>7, <1>8 DEF R

LEMMA OfStateType ==
  ASSUME NEW core \in Core
  PROVE  OfState(core) \in Feelings /\ OfState(core)["reproach"] = 0
<1>1. core.arousal \in -One..One /\ core.valence \in -One..One /\ core.longing \in 0..One /\ One \in Nat
  BY OneType DEF Core
<1> DEFINE F == IF core.arousal < 0 THEN -core.arousal ELSE 0
           L == IF core.longing > 3000 THEN core.longing ELSE 0
           U == IF core.valence > -3000 /\ core.valence < 0 THEN -core.valence ELSE 0
<1>2. F \in 0..One /\ L \in 0..One /\ U \in 0..One
  BY <1>1, OneType
<1>3. OfState(core) = [Calm EXCEPT !["fatigue"] = F, !["longing"] = L, !["unease"] = U]
  BY DEF OfState
<1> HIDE DEF F, L, U
<1>4. "reproach" \in Emotions
  BY DEF Emotions, Appraised
<1> QED BY <1>2, <1>3, <1>4, CalmType DEF Feelings

LEMMA DecayedType ==
  ASSUME NEW carry \in Feelings
  PROVE  /\ Decayed(carry) \in Feelings
         /\ Decayed(carry)["reproach"] =
              IF Faint(Share(carry["reproach"], 70)) THEN 0 ELSE Share(carry["reproach"], 70)
<1>1. ASSUME NEW e \in Emotions PROVE Share(carry[e], CarryDecay(e)) \in 0..One
  <2>1. carry[e] \in 0..One
    BY DEF Feelings
  <2>2. CarryDecay(e) \in {70, 85, 88, 90, 80}
    BY DEF CarryDecay
  <2>3. CarryDecay(e) \in 0..100
    BY <2>2
  <2> QED BY <2>1, <2>3, ShareLess, OneType
<1>2. 0 \in 0..One /\ "reproach" \in Emotions
  BY OneType DEF Emotions, Appraised
<1>3. CarryDecay("reproach") = 70
  BY DEF CarryDecay
<1>4. Decayed(carry) \in Feelings
  BY <1>1, <1>2 DEF Decayed, Feelings
<1>5. Decayed(carry)["reproach"] =
        IF Faint(Share(carry["reproach"], CarryDecay("reproach"))) THEN 0
        ELSE Share(carry["reproach"], CarryDecay("reproach"))
  BY <1>2 DEF Decayed
<1> QED BY <1>3, <1>4, <1>5

LEMMA FeltType ==
  ASSUME NEW core \in Core, NEW intent, NEW carry \in Feelings
  PROVE  /\ Felt(core, intent, carry) \in Feelings
         /\ Felt(core, intent, carry)["reproach"] =
              Larger(Larger(Stirred(core, intent)["reproach"], Decayed(carry)["reproach"]), 0)
<1>1. /\ Stirred(core, intent) \in Feelings /\ Decayed(carry) \in Feelings
      /\ OfState(core) \in Feelings /\ OfState(core)["reproach"] = 0
  BY StirredType, DecayedType, OfStateType
<1>2. ASSUME NEW e \in Emotions
      PROVE  Larger(Larger(Stirred(core, intent)[e], Decayed(carry)[e]), OfState(core)[e]) \in 0..One
  <2>1. Stirred(core, intent)[e] \in 0..One /\ Decayed(carry)[e] \in 0..One /\ OfState(core)[e] \in 0..One
    BY <1>1 DEF Feelings
  <2> QED BY <2>1, LargerType
<1>3. "reproach" \in Emotions
  BY DEF Emotions, Appraised
<1> QED BY <1>1, <1>2, <1>3 DEF Felt, Feelings

\* The mood moves, and what the feelings rest on does not.
LEMMA MoodMoves ==
  ASSUME NEW core \in Core, NEW intent
  PROVE  Moved(Resting(core), intent) \in Core /\ Moved(Resting(core), intent).respect = core.respect
<1>0. /\ core.stage \in 1..5 /\ core.valence \in Int /\ core.arousal \in Int /\ core.baseline \in Int
  BY OneType DEF Core
<1> DEFINE w == BaselineWeight[core.stage]
           v == Clamp(Share(Share(core.valence, 80), 100 - w) + Share(core.baseline, w))
           a == Clamp(Share(Share(core.arousal, 80), 100 - w))
<1>1. w \in Int
  BY <1>0 DEF BaselineWeight
<1>2. v \in -One..One /\ a \in -One..One
  <2> HIDE DEF w
  <2>0. 100 - w \in Int
    BY <1>1
  <2>1. Share(core.valence, 80) \in Int /\ Share(core.arousal, 80) \in Int
    <3>1. \A x \in Int : Share(x, 80) \in Int
      BY ShareType
    <3> QED BY <1>0, <3>1
  <2>2. /\ Share(Share(core.valence, 80), 100 - w) \in Int /\ Share(core.baseline, w) \in Int
        /\ Share(Share(core.arousal, 80), 100 - w) \in Int
    BY <1>0, <1>1, <2>0, <2>1, ShareType
  <2> QED BY <2>2, ClampType
<1>3. Resting(core) = [core EXCEPT !.valence = v, !.arousal = a]
  BY DEF Resting
<1> HIDE DEF v, a
<1>4. Resting(core) \in Core /\ Resting(core).respect = core.respect
  BY <1>2, <1>3 DEF Core
<1> DEFINE r == Resting(core)
           x == Clamp(r.valence + ValenceDelta(intent))
           y == Clamp(r.arousal + ArousalDelta(intent))
<1>5. r.valence \in Int /\ r.arousal \in Int
  BY <1>4, OneType DEF Core
<1>6. ValenceDelta(intent) \in Int /\ ArousalDelta(intent) \in Int
  BY DEF ValenceDelta, ArousalDelta
<1>7. x \in -One..One /\ y \in -One..One
  BY <1>5, <1>6, ClampType
<1>8. Moved(r, intent) = [r EXCEPT !.valence = x, !.arousal = y]
  BY DEF Moved
<1> HIDE DEF r, x, y
<1>9. r \in Core /\ r.respect = core.respect
  BY <1>4 DEF r
<1>10. Moved(r, intent) \in Core /\ Moved(r, intent).respect = core.respect
  BY <1>7, <1>8, <1>9 DEF Core
<1> QED BY <1>10 DEF r

\* An insult is felt more than five tenths a turn later, whatever was carried.
LEMMA InsultFelt ==
  ASSUME NEW c \in Cores, NEW core \in Core, core.respect = c.respect, NEW carry \in Feelings
  PROVE  Share(Felt(core, "ABUSE", carry)["reproach"], 70) > 5000
<1> DEFINE s == Stirred(core, "ABUSE")["reproach"]
           d == Decayed(carry)["reproach"]
           f == Felt(core, "ABUSE", carry)["reproach"]
<1>1. s = Share(c.respect, 95) /\ s \in 0..One
  BY StirredType DEF Feelings, Emotions, Appraised
<1>2. d \in 0..One
  BY DecayedType DEF Feelings, Emotions, Appraised
<1>3. f = Larger(Larger(s, d), 0)
  BY FeltType
<1>4. Larger(s, d) \in 0..One /\ Larger(s, d) >= s
  BY <1>1, <1>2, LargerType
<1> HIDE DEF s, d, f
<1>5. f \in 0..One /\ s <= f
  BY <1>1, <1>3, <1>4, OneType DEF Larger
<1>6. Share(s, 70) > 5000
  BY <1>1, RespectOK
<1>7. Share(s, 70) <= Share(f, 70) /\ Share(s, 70) \in Int /\ Share(f, 70) \in Int
  BY <1>1, <1>5, SevenTenths, ShareType, OneType
<1> QED BY <1>6, <1>7 DEF f

\* Anything else stirs no reproach: it is what was carried, a turn weaker.
LEMMA OnlyCarried ==
  ASSUME NEW core \in Core, NEW intent, intent # "ABUSE", NEW carry \in Feelings
  PROVE  Felt(core, intent, carry)["reproach"] =
           IF Faint(Share(carry["reproach"], 70)) THEN 0 ELSE Share(carry["reproach"], 70)
<1>1. Decayed(carry)["reproach"] \in 0..One
  BY DecayedType DEF Feelings, Emotions, Appraised
<1>2. Stirred(core, intent)["reproach"] = 0
  BY StirredType
<1>3. Felt(core, intent, carry)["reproach"] = Decayed(carry)["reproach"]
  BY <1>1, <1>2, FeltType, OneType DEF Larger
<1> QED BY <1>3, DecayedType

(***************************************************************************)
(* The classifiers                                                         *)
(***************************************************************************)

LEMMA LeastNat ==
  ASSUME NEW T \in SUBSET Nat, T # {}
  PROVE  \E n \in T : \A m \in T : n <= m
<1> DEFINE R == OpToRel(<, Nat)
<1>1. \A m, n \in Nat : <<m, n>> \in R <=> m < n
  BY DEF OpToRel
<1>2. IsWellFoundedOn(R, Nat)
  BY NatLessThanWellFounded
<1> HIDE DEF R
<1>3. \E n \in T : \A m \in T : ~(<<m, n>> \in R)
  BY <1>2, WFMin
<1>4. PICK n \in T : \A m \in T : ~(<<m, n>> \in R)
  BY <1>3
<1>5. \A m \in T : ~(m < n)
  BY <1>1, <1>4
<1> QED BY <1>5

\* The first rule that holds gives the answer.
LEMMA FirstRule ==
  ASSUME NEW rules, NEW n \in Nat, DOMAIN rules = 1..n,
         NEW i \in 1..n, rules[i][1], \A j \in 1..(i - 1) : ~rules[j][1]
  PROVE  FirstOf(rules) = rules[i][2]
<1> DEFINE First(k) == rules[k][1] /\ \A j \in 1..(k - 1) : ~rules[j][1]
           k0 == CHOOSE k \in DOMAIN rules : First(k)
<1>1. k0 \in 1..n /\ First(k0)
  OBVIOUS
<1>2. k0 = i
  BY <1>1
<1> QED BY <1>2 DEF FirstOf

\* With a last rule that always holds there is an answer, and it is one of them.
LEMMA SomeRule ==
  ASSUME NEW rules, NEW n \in Nat \ {0}, DOMAIN rules = 1..n, rules[n][1],
         NEW A, \A i \in 1..n : rules[i][2] \in A
  PROVE  FirstOf(rules) \in A
<1> DEFINE T == {i \in 1..n : rules[i][1]}
<1>1. PICK i \in T : \A j \in T : i <= j
  <2>1. T \in SUBSET Nat /\ n \in T
    OBVIOUS
  <2> QED BY <2>1, LeastNat
<1>2. FirstOf(rules) = rules[i][2]
  <2>1. \A j \in 1..(i - 1) : j \in 1..n /\ ~(i <= j)
    OBVIOUS
  <2> QED BY <1>1, <2>1, FirstRule
<1> QED BY <1>2

LEMMA ClassifiedIntent == ASSUME NEW m PROVE ClassifyIntent(m) \in Intents
<1>1. DOMAIN IntentRules(m) = 1..11 /\ IntentRules(m)[11][1] /\ 11 \in Nat \ {0}
  BY DEF IntentRules
<1>2. \A i \in 1..11 : IntentRules(m)[i][2] \in Intents
  BY DEF IntentRules, Intents
<1>3. FirstOf(IntentRules(m)) \in Intents
  BY <1>1, <1>2, SomeRule
<1> QED BY <1>3 DEF ClassifyIntent

LEMMA DecidedStance ==
  ASSUME NEW core, NEW intent, NEW emotions, NEW threads
  PROVE  DecideStance(core, intent, emotions, threads) \in Stances
<1> DEFINE rules == StanceRules(core, intent, emotions, threads)
<1>1. DOMAIN rules = 1..12 /\ rules[12][1] /\ 12 \in Nat \ {0}
  BY DEF StanceRules
<1>2. \A i \in 1..12 : rules[i][2] \in Stances
  BY DEF StanceRules, Stances
<1> HIDE DEF rules
<1>3. FirstOf(rules) \in Stances
  BY <1>1, <1>2, SomeRule
<1> QED BY <1>3 DEF DecideStance, rules

\* The i-th rule is the first of twelve to hold.
LEMMA RuleHolds ==
  ASSUME NEW rules, DOMAIN rules = 1..12, NEW i \in 1..12, rules[i][1],
         \A j \in 1..(i - 1) : ~rules[j][1]
  PROVE  FirstOf(rules) = rules[i][2]
<1>1. 12 \in Nat
  OBVIOUS
<1> QED BY <1>1, FirstRule

LEMMA InsultRule ==
  ASSUME NEW core, NEW intent, NEW emotions, NEW threads
  PROVE  StanceRules(core, intent, emotions, threads)[1][1] <=> intent = "ABUSE"
BY Zenon DEF StanceRules

LEMMA ComfortRule ==
  ASSUME NEW core, NEW intent, NEW emotions, NEW threads
  PROVE  StanceRules(core, intent, emotions, threads)[2][1] <=> intent = "VULNERABILITY"
BY Zenon DEF StanceRules

LEMMA ReproachRule ==
  ASSUME NEW core, NEW intent, NEW emotions, NEW threads
  PROVE  StanceRules(core, intent, emotions, threads)[4][1] <=> (emotions["reproach"] > 5000)
<1> DEFINE strong == emotions["reproach"] > 5000
<1>1. StanceRules(core, intent, emotions, threads)[4][1] = strong
  BY DEF StanceRules
<1> HIDE DEF strong
<1>2. StanceRules(core, intent, emotions, threads)[4][1] <=> strong
  BY Zenon, <1>1
<1> QED BY <1>2 DEF strong

\* Strong reproach makes her distant, and only the hurt are comforted.
LEMMA HurtStance ==
  ASSUME NEW core, NEW intent, intent # "ABUSE", NEW emotions, emotions["reproach"] \in Int,
         emotions["reproach"] > 5000, NEW threads
  PROVE  DecideStance(core, intent, emotions, threads) =
           IF intent = "VULNERABILITY" THEN "COMFORT" ELSE "DISTANCE"
<1> DEFINE rules == StanceRules(core, intent, emotions, threads)
<1>1. DOMAIN rules = 1..12
  BY DEF StanceRules
<1>2. ~rules[1][1]
  BY InsultRule
<1>3. intent = "VULNERABILITY" => rules[2][1]
  BY ComfortRule
<1>4. intent # "VULNERABILITY" => ~rules[2][1]
  BY ComfortRule
<1>5. rules[4][1]
  BY ReproachRule
<1>6. rules[2][2] = "COMFORT" /\ rules[3][2] = "DISTANCE" /\ rules[4][2] = "DISTANCE"
  BY DEF StanceRules
<1>7. FirstOf(rules) = DecideStance(core, intent, emotions, threads)
  BY DEF DecideStance
<1> HIDE DEF rules
<1>8. CASE intent = "VULNERABILITY"
  <2> DEFINE i == 2
  <2>1. i \in 1..12 /\ rules[i][1] /\ \A j \in 1..(i - 1) : ~rules[j][1]
    BY <1>2, <1>3, <1>8
  <2> HIDE DEF i
  <2>2. FirstOf(rules) = rules[i][2]
    BY <1>1, <2>1, RuleHolds
  <2> QED BY <1>6, <1>7, <1>8, <2>2 DEF i
<1>9. CASE intent # "VULNERABILITY" /\ rules[3][1]
  <2> DEFINE i == 3
  <2>1. i \in 1..12 /\ rules[i][1] /\ \A j \in 1..(i - 1) : ~rules[j][1]
    BY <1>2, <1>4, <1>9
  <2> HIDE DEF i
  <2>2. FirstOf(rules) = rules[i][2]
    BY <1>1, <2>1, RuleHolds
  <2> QED BY <1>6, <1>7, <1>9, <2>2 DEF i
<1>10. CASE intent # "VULNERABILITY" /\ ~rules[3][1]
  <2> DEFINE i == 4
  <2>1. i \in 1..12 /\ rules[i][1] /\ \A j \in 1..(i - 1) : ~rules[j][1]
    BY <1>2, <1>4, <1>5, <1>10
  <2> HIDE DEF i
  <2>2. FirstOf(rules) = rules[i][2]
    BY <1>1, <2>1, RuleHolds
  <2> QED BY <1>6, <1>7, <1>10, <2>2 DEF i
<1> QED BY <1>8, <1>9, <1>10
(***************************************************************************)
(* Types                                                                   *)
(***************************************************************************)

LEMMA FreshType ==
  ASSUME NEW c \in Cores, NEW n \in Nat
  PROVE  FreshSession(c, n) \in Session
BY CalmType DEF FreshSession, Session

LEMMA TypeInit == TurnInit => TurnTypeOK
<1> SUFFICES ASSUME TurnInit PROVE TurnTypeOK
  OBVIOUS
<1>1. 0 \in 0..MaxTurns /\ 0 \in 0..MaxSwaps
  BY TurnBoundsOK
<1>2. session \in Session
  BY FreshType DEF TurnInit
<1> QED BY <1>1, <1>2 DEF TurnInit, TurnTypeOK, Nodes

LEMMA AcceptType == ASSUME TurnTypeOK, NEW m \in Messages, Accept(m) PROVE TurnTypeOK'
<1> DEFINE t == [core |-> session.core, history |-> session.history, seed |-> session.seed,
                 carry |-> session.carry, msg |-> m, intent |-> "", retrieve |-> FALSE,
                 respond |-> TRUE, gateOk |-> FALSE, recalled |-> 0, emotions |-> Calm,
                 stance |-> ""]
<1>1. /\ session.core \in Core /\ session.history \in Nat /\ session.seed \in Nat
      /\ session.carry \in Feelings
  BY CoresOK DEF TurnTypeOK, Session
<1>2. 0 \in 0..MaxTurns /\ Calm \in Feelings
  BY TurnBoundsOK, CalmType
<1>3. t \in TurnState
  BY <1>1, <1>2 DEF TurnState
<1>4. turn' = t /\ pc' = "perceive" /\ UNCHANGED <<session, swaps, answered, calm>>
  BY DEF Accept
<1>5. sent' \in 0..MaxTurns
  <2>1. sent' = sent + 1 /\ sent < MaxTurns
    BY DEF Accept
  <2>2. sent \in 0..MaxTurns
    BY DEF TurnTypeOK
  <2> QED BY <2>1, <2>2, TurnBoundsOK
<1> HIDE DEF t
<1>6. pc' = "perceive" /\ turn' \in TurnState /\ UNCHANGED <<session, swaps, answered, calm>>
  BY <1>3, <1>4
<1> QED BY <1>5, <1>6 DEF TurnTypeOK, Nodes

\* A step of the graph moves only the turn.
LEMMA GotoType ==
  ASSUME TurnTypeOK, NEW node \in Nodes \ {"idle"}, Goto(node), turn' \in TurnState
  PROVE  TurnTypeOK'
<1>1. pc' = node /\ UNCHANGED <<sent, session, swaps, answered, calm>>
  BY DEF Goto
<1> QED BY <1>1 DEF TurnTypeOK

LEMMA PerceiveCopy ==
  ASSUME TurnTypeOK, Perceive
  PROVE  /\ turn' \in TurnState /\ turn'.history = turn.history + 1
         /\ turn'.core = turn.core /\ turn'.carry = turn.carry /\ turn'.seed = turn.seed
         /\ turn'.recalled = turn.recalled /\ turn'.retrieve = turn.retrieve
<1>1. turn \in TurnState
  BY DEF TurnTypeOK, Perceive
<1> DEFINE h == turn.history + 1
<1>2. h \in Nat
  <2>1. turn.history \in Nat
    BY <1>1 DEF TurnState
  <2> QED BY <2>1
<1>3. turn' = [turn EXCEPT !.history = h]
  BY DEF Perceive
<1> HIDE DEF h
<1>4. turn' \in TurnState
  BY <1>1, <1>2, <1>3 DEF TurnState
<1>5. /\ turn'.history = h /\ turn'.core = turn.core /\ turn'.carry = turn.carry
      /\ turn'.seed = turn.seed /\ turn'.recalled = turn.recalled /\ turn'.retrieve = turn.retrieve
  BY <1>1, <1>3 DEF TurnState
<1> QED BY <1>4, <1>5 DEF h

LEMMA PerceiveType == ASSUME TurnTypeOK, Perceive PROVE TurnTypeOK'
BY PerceiveCopy, GotoType DEF Perceive, Nodes

\* What every outcome of the gate does.
LEMMA GatedIs ==
  ASSUME TurnTypeOK, pc = "gate", NEW intent \in Intents,
         NEW retrieve \in BOOLEAN, NEW respond \in BOOLEAN, NEW ok \in BOOLEAN,
         turn' = Gated(intent, retrieve, respond, ok), Goto(AfterGate(turn'))
  PROVE  /\ turn' \in TurnState /\ pc' \in {"silence", "retrieve", "appraise"}
         /\ UNCHANGED <<sent, session, swaps, answered, calm>>
         /\ turn'.core = turn.core /\ turn'.history = turn.history /\ turn'.seed = turn.seed
         /\ turn'.carry = turn.carry /\ turn'.recalled = turn.recalled
         /\ turn'.intent = intent /\ turn'.gateOk = ok
         /\ turn'.retrieve = (retrieve \/ (ok /\ IsFirst))
         /\ pc' = "retrieve" => turn'.retrieve
         /\ pc' = "appraise" => ~turn'.retrieve
<1> DEFINE r == retrieve \/ (ok /\ IsFirst)
<1>1. turn \in TurnState
  BY DEF TurnTypeOK
<1>2. r \in BOOLEAN
  OBVIOUS
<1>3. turn' = [turn EXCEPT !.intent = intent, !.retrieve = r, !.respond = respond, !.gateOk = ok]
  BY DEF Gated
<1> HIDE DEF r
<1>4. turn' \in TurnState
  BY <1>1, <1>2, <1>3 DEF TurnState
<1>5. /\ turn'.core = turn.core /\ turn'.history = turn.history /\ turn'.seed = turn.seed
      /\ turn'.carry = turn.carry /\ turn'.recalled = turn.recalled
  BY <1>1, <1>3 DEF TurnState
<1>6. turn'.intent = intent /\ turn'.gateOk = ok /\ turn'.retrieve = r
  BY <1>1, <1>3 DEF TurnState
<1>7. pc' = AfterGate(turn') /\ UNCHANGED <<sent, session, swaps, answered, calm>>
  BY DEF Goto
<1>8. /\ pc' \in {"silence", "retrieve", "appraise"}
      /\ pc' = "retrieve" => turn'.retrieve
      /\ pc' = "appraise" => ~turn'.retrieve
  BY <1>7 DEF AfterGate
<1> QED BY <1>4, <1>5, <1>6, <1>7, <1>8 DEF r

Gate == \/ GateInsult
        \/ \E a \in Intents \cup {"other"}, retrieve, respond \in BOOLEAN : GateAnswers(a, retrieve, respond)
        \/ GateFails

LEMMA GateIs ==
  ASSUME TurnTypeOK, Gate
  PROVE  /\ pc = "gate"
         /\ \E intent \in Intents, retrieve, respond, ok \in BOOLEAN :
              /\ turn' = Gated(intent, retrieve, respond, ok)
              /\ Goto(AfterGate(turn'))
<1>1. CASE GateInsult
  BY <1>1 DEF GateInsult, Intents
<1>2. ASSUME NEW a \in Intents \cup {"other"}, NEW retrieve \in BOOLEAN, NEW respond \in BOOLEAN,
             GateAnswers(a, retrieve, respond)
      PROVE  /\ pc = "gate"
             /\ \E intent \in Intents : /\ turn' = Gated(intent, retrieve, respond, TRUE)
                                        /\ Goto(AfterGate(turn'))
  BY <1>2, ClassifiedIntent DEF GateAnswers
<1>3. CASE GateFails
  BY <1>3, ClassifiedIntent DEF GateFails
<1> QED BY <1>1, <1>2, <1>3 DEF Gate

LEMMA GateCopy ==
  ASSUME TurnTypeOK, Gate
  PROVE  /\ pc = "gate" /\ turn' \in TurnState /\ pc' \in {"silence", "retrieve", "appraise"}
         /\ UNCHANGED <<sent, session, swaps, answered, calm>>
         /\ turn'.core = turn.core /\ turn'.history = turn.history /\ turn'.seed = turn.seed
         /\ turn'.carry = turn.carry /\ turn'.recalled = turn.recalled
         /\ turn'.gateOk /\ IsFirst => turn'.retrieve
         /\ pc' = "retrieve" => turn'.retrieve
         /\ pc' = "appraise" => ~turn'.retrieve
<1>1. pc = "gate"
  BY GateIs
<1>2. PICK intent \in Intents : \E retrieve, respond, ok \in BOOLEAN :
        turn' = Gated(intent, retrieve, respond, ok) /\ Goto(AfterGate(turn'))
  BY GateIs
<1>3. PICK retrieve \in BOOLEAN : \E respond, ok \in BOOLEAN :
        turn' = Gated(intent, retrieve, respond, ok) /\ Goto(AfterGate(turn'))
  BY <1>2
<1>4. PICK respond \in BOOLEAN : \E ok \in BOOLEAN :
        turn' = Gated(intent, retrieve, respond, ok) /\ Goto(AfterGate(turn'))
  BY <1>3
<1>5. PICK ok \in BOOLEAN : turn' = Gated(intent, retrieve, respond, ok) /\ Goto(AfterGate(turn'))
  BY <1>4
<1>6. /\ turn' \in TurnState /\ pc' \in {"silence", "retrieve", "appraise"}
      /\ UNCHANGED <<sent, session, swaps, answered, calm>>
      /\ pc' = "retrieve" => turn'.retrieve
      /\ pc' = "appraise" => ~turn'.retrieve
  BY <1>1, <1>5, GatedIs
<1>7. /\ turn'.core = turn.core /\ turn'.history = turn.history /\ turn'.seed = turn.seed
      /\ turn'.carry = turn.carry /\ turn'.recalled = turn.recalled
  BY <1>1, <1>5, GatedIs
<1>8. turn'.gateOk = ok /\ turn'.retrieve = (retrieve \/ (ok /\ IsFirst))
  BY <1>1, <1>5, GatedIs
<1>9. turn'.gateOk /\ IsFirst => turn'.retrieve
  BY Zenon, <1>8
<1> QED BY <1>1, <1>6, <1>7, <1>9

LEMMA GateType == ASSUME TurnTypeOK, Gate PROVE TurnTypeOK'
<1>1. /\ turn' \in TurnState /\ pc' \in {"silence", "retrieve", "appraise"}
      /\ UNCHANGED <<sent, session, swaps, answered, calm>>
  BY GateCopy
<1> QED BY <1>1 DEF TurnTypeOK, Nodes

LEMMA RetrieveCopy ==
  ASSUME TurnTypeOK, Retrieve
  PROVE  /\ turn' \in TurnState /\ turn'.recalled = sent /\ turn'.retrieve = turn.retrieve
         /\ turn'.core = turn.core /\ turn'.carry = turn.carry /\ turn'.seed = turn.seed
         /\ turn'.history = turn.history /\ turn'.gateOk = turn.gateOk
<1>1. turn \in TurnState /\ sent \in 0..MaxTurns
  BY DEF TurnTypeOK, Retrieve
<1>2. turn' = [turn EXCEPT !.recalled = sent]
  BY DEF Retrieve
<1> QED BY <1>1, <1>2 DEF TurnState

LEMMA RetrieveType == ASSUME TurnTypeOK, Retrieve PROVE TurnTypeOK'
BY RetrieveCopy, GotoType DEF Retrieve, Nodes

\* What the appraisal leaves.
LEMMA AppraiseIs ==
  ASSUME TurnTypeOK, Appraise
  PROVE  /\ turn \in TurnState /\ turn' \in TurnState
         /\ turn'.history = turn.history /\ turn'.seed = turn.seed /\ turn'.intent = turn.intent
         /\ turn'.recalled = turn.recalled /\ turn'.retrieve = turn.retrieve
         /\ turn'.gateOk = turn.gateOk
         /\ turn'.emotions = Felt(Moved(Resting(turn.core), turn.intent), turn.intent, turn.carry)
         /\ turn'.carry["reproach"] =
              IF Faint(turn'.emotions["reproach"]) THEN 0 ELSE turn'.emotions["reproach"]
         /\ Moved(Resting(turn.core), turn.intent) \in Core
         /\ Moved(Resting(turn.core), turn.intent).respect = turn.core.respect
<1> DEFINE core == Moved(Resting(turn.core), turn.intent)
           felt == Felt(core, turn.intent, turn.carry)
           left == [e \in Emotions |-> IF Faint(felt[e]) THEN 0 ELSE felt[e]]
<1>1. turn \in TurnState
  BY DEF TurnTypeOK, Appraise
<1>2. turn.core \in Core /\ turn.carry \in Feelings
  BY <1>1 DEF TurnState
<1>3. core \in Core /\ core.respect = turn.core.respect
  BY <1>2, MoodMoves
<1>4. turn' = [turn EXCEPT !.core = core, !.emotions = felt, !.carry = left]
  BY DEF Appraise
<1> HIDE DEF core
<1>5. felt \in Feelings
  BY <1>2, <1>3, FeltType
<1> HIDE DEF felt
<1>6. left \in Feelings
  BY <1>5, OneType DEF Feelings
<1>7. left["reproach"] = IF Faint(felt["reproach"]) THEN 0 ELSE felt["reproach"]
  BY DEF Emotions, Appraised
<1> HIDE DEF left
<1>8. turn' \in TurnState
  BY <1>1, <1>3, <1>4, <1>5, <1>6 DEF TurnState
<1>9. /\ turn'.history = turn.history /\ turn'.seed = turn.seed /\ turn'.intent = turn.intent
      /\ turn'.recalled = turn.recalled /\ turn'.retrieve = turn.retrieve
      /\ turn'.gateOk = turn.gateOk
  BY <1>1, <1>4 DEF TurnState
<1>10. turn'.emotions = felt /\ turn'.carry = left
  BY <1>1, <1>4 DEF TurnState
<1> QED BY <1>1, <1>3, <1>7, <1>8, <1>9, <1>10 DEF core, felt

LEMMA AppraiseType == ASSUME TurnTypeOK, Appraise PROVE TurnTypeOK'
BY AppraiseIs, GotoType DEF Appraise, Nodes

LEMMA PolicyIs ==
  ASSUME TurnTypeOK, NEW threads \in BOOLEAN, Policy(threads)
  PROVE  /\ turn \in TurnState /\ turn' \in TurnState
         /\ turn'.history = turn.history /\ turn'.seed = turn.seed /\ turn'.intent = turn.intent
         /\ turn'.recalled = turn.recalled /\ turn'.retrieve = turn.retrieve
         /\ turn'.gateOk = turn.gateOk /\ turn'.carry = turn.carry
         /\ turn'.emotions = turn.emotions
         /\ turn'.stance = DecideStance(turn.core, turn.intent, turn.emotions, threads)
<1> DEFINE s == DecideStance(turn.core, turn.intent, turn.emotions, threads)
<1>1. turn \in TurnState
  BY DEF TurnTypeOK, Policy
<1>2. s \in Stances
  BY DecidedStance
<1>3. turn' = [turn EXCEPT !.stance = s]
  BY DEF Policy
<1> HIDE DEF s
<1>4. turn' \in TurnState
  BY <1>1, <1>2, <1>3 DEF TurnState
<1>5. /\ turn'.history = turn.history /\ turn'.seed = turn.seed /\ turn'.intent = turn.intent
      /\ turn'.recalled = turn.recalled /\ turn'.retrieve = turn.retrieve
      /\ turn'.gateOk = turn.gateOk /\ turn'.carry = turn.carry
      /\ turn'.emotions = turn.emotions /\ turn'.stance = s
  BY <1>1, <1>3 DEF TurnState
<1> QED BY <1>1, <1>4, <1>5 DEF s

LEMMA PolicyType == ASSUME TurnTypeOK, NEW threads \in BOOLEAN, Policy(threads) PROVE TurnTypeOK'
BY PolicyIs, GotoType DEF Policy, Nodes

LEMMA FailType == ASSUME TurnTypeOK, GraphFails \/ StreamFails PROVE TurnTypeOK'
BY DEF GraphFails, StreamFails, Goto, TurnTypeOK, Nodes
(***************************************************************************)
(* The turn's copy.  Until the appraisal it is the session's personality    *)
(* and carry as they were when the message came, and the personality stays  *)
(* one the session may hold whatever other tasks install: that is what a    *)
(* turn that ends in silence puts back.                                     *)
(***************************************************************************)

Before == {"perceive", "gate", "retrieve", "appraise", "silence"}

Untouched == pc \in Before => turn.core \in Cores /\ turn.carry = session.carry

TypeInv == TurnTypeOK /\ Untouched

LEMMA SilenceType ==
  ASSUME TypeInv, Silence
  PROVE  /\ TurnTypeOK' /\ session'.carry = session.carry
         /\ answered' # 0 /\ calm' = calm /\ pc' = "idle"
<1>1. turn \in TurnState /\ turn.core \in Cores /\ turn.carry = session.carry
  BY DEF TypeInv, TurnTypeOK, Untouched, Silence, Before
<1>2. session' = Kept(turn) /\ pc' = "idle" /\ turn' = NoTurn /\ UNCHANGED <<sent, swaps, calm>>
  BY DEF Silence, EndTurn
<1>3. answered' = answered + 1 /\ answered \in Nat
  BY DEF Silence, EndTurn, TypeInv, TurnTypeOK
<1>4. Kept(turn) \in Session /\ Kept(turn).carry = turn.carry
  BY <1>1 DEF Kept, Session, TurnState
<1>5. sent \in 0..MaxTurns /\ swaps \in 0..MaxSwaps /\ calm \in Nat \cup {-1}
  BY DEF TypeInv, TurnTypeOK
<1>6. answered' \in Nat /\ answered' # 0
  BY <1>3
<1> QED BY <1>1, <1>2, <1>4, <1>5, <1>6 DEF TurnTypeOK, Nodes

LEMMA AnswerType ==
  ASSUME TypeInv, Answer
  PROVE  /\ TurnTypeOK' /\ session'.carry = turn.carry /\ turn \in TurnState
         /\ answered' # 0 /\ pc' = "idle"
<1>1. turn \in TurnState /\ session \in Session
  BY DEF TypeInv, TurnTypeOK, Answer
<1> DEFINE h == turn.history + 1
           s == [Kept(turn) EXCEPT !.history = h, !.core = session.core]
<1>2. h \in Nat
  <2>1. turn.history \in Nat
    BY <1>1 DEF TurnState
  <2> QED BY <2>1
<1>3. session' = [Kept(turn) EXCEPT !.history = @ + 1, !.core = session.core]
  BY DEF Answer, EndTurn
<1>4. session' = s
  BY <1>3 DEF Kept
<1> HIDE DEF h
<1>5. s \in Session /\ s.carry = turn.carry
  BY <1>1, <1>2 DEF Kept, Session, TurnState
<1>6. answered' = answered + 1 /\ pc' = "idle" /\ turn' = NoTurn /\ UNCHANGED <<sent, swaps>>
  BY DEF Answer, EndTurn
<1>7. calm' = IF turn.intent = "ABUSE" THEN 0 ELSE IF calm = -1 THEN -1 ELSE calm + 1
  BY DEF Answer
<1>8. answered \in Nat /\ calm \in Nat \cup {-1} /\ sent \in 0..MaxTurns /\ swaps \in 0..MaxSwaps
  BY DEF TypeInv, TurnTypeOK
<1>9. answered' \in Nat /\ answered' # 0 /\ calm' \in Nat \cup {-1}
  BY <1>6, <1>7, <1>8
<1> HIDE DEF s
<1> QED BY <1>1, <1>4, <1>5, <1>6, <1>8, <1>9 DEF TurnTypeOK, Nodes

LEMMA ReplaceType ==
  ASSUME TypeInv, NEW c \in Cores, ReplaceCore(c)
  PROVE  /\ TurnTypeOK' /\ session'.carry = session.carry
         /\ session'.history = session.history /\ session'.seed = session.seed
         /\ UNCHANGED <<pc, sent, turn, answered, calm>>
<1>1. session \in Session /\ swaps \in 0..MaxSwaps
  BY DEF TypeInv, TurnTypeOK
<1>2. session' = [session EXCEPT !.core = c] /\ swaps' = swaps + 1 /\ swaps < MaxSwaps
  BY DEF ReplaceCore
<1>3. UNCHANGED <<pc, sent, turn, answered, calm>>
  BY DEF ReplaceCore
<1>4. /\ session' \in Session /\ session'.carry = session.carry
      /\ session'.history = session.history /\ session'.seed = session.seed
  BY <1>1, <1>2 DEF Session
<1>5. swaps' \in 0..MaxSwaps
  BY <1>1, <1>2, TurnBoundsOK
<1> QED BY <1>3, <1>4, <1>5 DEF TypeInv, TurnTypeOK

LEMMA ReopenType ==
  ASSUME TypeInv, Reopen
  PROVE  /\ TurnTypeOK' /\ session'.carry = Calm /\ session'.history = session'.seed
         /\ pc' = "idle" /\ answered' = 0 /\ calm' = -1
<1>1. session.core \in Cores /\ 6 \in Nat
  BY DEF TypeInv, TurnTypeOK, Session
<1>2. session' = FreshSession(session.core, 6)
  BY DEF Reopen
<1>3. session' \in Session
  BY <1>1, <1>2, FreshType
<1>4. session'.carry = Calm /\ session'.history = session'.seed
  BY <1>2 DEF FreshSession
<1>5. pc = "idle" /\ pc' = pc /\ answered' = 0 /\ calm' = -1 /\ UNCHANGED <<sent, turn, swaps>>
  BY DEF Reopen
<1> QED BY <1>3, <1>4, <1>5 DEF TypeInv, TurnTypeOK

LEMMA RestoreType ==
  ASSUME TypeInv, Restore
  PROVE  /\ TurnTypeOK' /\ session'.carry = Calm /\ pc' = "idle" /\ calm' = -1
         /\ answered' = answered /\ answered # 0
<1>1. session \in Session /\ session' = [session EXCEPT !.carry = Calm] /\ Calm \in Feelings
  BY CalmType DEF TypeInv, TurnTypeOK, Restore
<1>2. session' \in Session /\ session'.carry = Calm
  BY <1>1 DEF Session
<1>3. pc' = "idle" /\ turn' = NoTurn /\ calm' = -1 /\ answered > 0 /\ UNCHANGED <<sent, swaps, answered>>
  BY DEF Restore
<1> QED BY <1>2, <1>3 DEF TypeInv, TurnTypeOK, Nodes

LEMMA AcceptCopy ==
  ASSUME NEW m \in Messages, Accept(m)
  PROVE  /\ pc' = "perceive" /\ turn'.core = session.core /\ turn'.carry = session.carry
         /\ turn'.history = session.history /\ turn'.seed = session.seed
         /\ turn'.recalled = 0 /\ ~turn'.retrieve
         /\ UNCHANGED <<session, answered, calm>>
BY DEF Accept

LEMMA TypeInvStep == TypeInv /\ [TurnNext]_turnVars => TypeInv'
<1> SUFFICES ASSUME TypeInv, [TurnNext]_turnVars PROVE TypeInv'
  OBVIOUS
<1>t. TurnTypeOK /\ Untouched
  BY DEF TypeInv
<1>1. ASSUME NEW m \in Messages, Accept(m) PROVE TypeInv'
  <2>1. session.core \in Cores
    BY <1>t DEF TurnTypeOK, Session
  <2> QED BY <1>t, <1>1, <2>1, AcceptType, AcceptCopy DEF TypeInv, Untouched
<1>2. CASE Perceive
  <2>1. pc = "perceive" /\ session' = session
    BY <1>2 DEF Perceive, Goto
  <2> QED BY <1>t, <1>2, <2>1, PerceiveType, PerceiveCopy DEF TypeInv, Untouched, Before
<1>3. CASE Gate
  <2>1. pc = "gate" /\ session' = session
    BY <1>t, <1>3, GateCopy
  <2> QED BY <1>t, <1>3, <2>1, GateType, GateCopy DEF TypeInv, Untouched, Before
<1>4. CASE Retrieve
  <2>1. pc = "retrieve" /\ session' = session
    BY <1>4 DEF Retrieve, Goto
  <2> QED BY <1>t, <1>4, <2>1, RetrieveType, RetrieveCopy DEF TypeInv, Untouched, Before
<1>5. CASE Appraise
  <2>1. pc' = "policy"
    BY <1>5 DEF Appraise, Goto
  <2> QED BY <1>t, <1>5, <2>1, AppraiseType DEF TypeInv, Untouched, Before
<1>6. ASSUME NEW threads \in BOOLEAN, Policy(threads) PROVE TypeInv'
  <2>1. pc' = "stream"
    BY <1>6 DEF Policy, Goto
  <2> QED BY <1>t, <1>6, <2>1, PolicyType DEF TypeInv, Untouched, Before
<1>7. CASE GraphFails \/ StreamFails
  <2>1. pc' = "idle"
    BY <1>7 DEF GraphFails, StreamFails, Goto
  <2> QED BY <1>t, <1>7, <2>1, FailType DEF TypeInv, Untouched, Before
<1>8. CASE Silence
  BY <1>8, SilenceType DEF TypeInv, Untouched, Before
<1>9. CASE Answer
  BY <1>9, AnswerType DEF TypeInv, Untouched, Before
<1>10. ASSUME NEW c \in Cores, ReplaceCore(c) PROVE TypeInv'
  BY <1>t, <1>10, ReplaceType DEF TypeInv, Untouched
<1>11. CASE Reopen
  BY <1>11, ReopenType DEF TypeInv, Untouched, Before
<1>12. CASE Restore
  BY <1>12, RestoreType DEF TypeInv, Untouched, Before
<1>13. CASE UNCHANGED turnVars
  BY <1>t, <1>13 DEF turnVars, TypeInv, TurnTypeOK, Untouched
<1> QED BY <1>1, <1>2, <1>3, <1>4, <1>5, <1>6, <1>7, <1>8, <1>9, <1>10, <1>11, <1>12, <1>13
        DEF TurnNext, GraphStep, Gate

LEMMA TypeInvInit == TurnInit => TypeInv
BY TypeInit DEF TurnInit, TypeInv, Untouched, Before

\* Every variable stays in its range, and a turn in silence puts back a
\* personality the session may hold.
THEOREM TurnTypes == TurnSpec => []TurnTypeOK
<1>1. TypeInv => TurnTypeOK
  BY DEF TypeInv
<1> QED BY <1>1, TypeInvInit, TypeInvStep, PTL DEF TurnSpec
(***************************************************************************)
(* Recall.  The lengths say which turn is the first of its session, also    *)
(* when earlier attempts failed; until the gate has asked, nothing is       *)
(* recalled, and what the gate asked for is there from the appraisal on.    *)
(***************************************************************************)

RecallInv ==
  /\ pc # "idle" =>
       /\ turn.seed = session.seed
       /\ turn.history = IF pc = "perceive" THEN session.history ELSE session.history + 1
  /\ answered = 0 => session.history = session.seed
  /\ pc \in {"perceive", "gate"} => turn.recalled = 0 /\ ~turn.retrieve
  /\ pc = "retrieve" => turn.recalled = 0 /\ turn.retrieve
  /\ pc \in {"appraise", "policy", "stream"} => turn.recalled = IF turn.retrieve THEN sent ELSE 0
  /\ pc \in {"retrieve", "appraise", "policy", "stream"} /\ answered = 0 /\ turn.gateOk => turn.retrieve

LEMMA RecallInit == TurnInit => RecallInv
BY DEF TurnInit, RecallInv, FreshSession

LEMMA RecallStep == TypeInv /\ RecallInv /\ [TurnNext]_turnVars => RecallInv'
<1> SUFFICES ASSUME TypeInv, RecallInv, [TurnNext]_turnVars PROVE RecallInv'
  OBVIOUS
<1>t. TurnTypeOK
  BY DEF TypeInv
<1>1. ASSUME NEW m \in Messages, Accept(m) PROVE RecallInv'
  BY <1>1, AcceptCopy DEF RecallInv
<1>2. CASE Perceive
  <2>1. pc = "perceive" /\ pc' = "gate" /\ UNCHANGED <<sent, session, answered>>
    BY <1>2 DEF Perceive, Goto
  <2> QED BY <1>t, <1>2, <2>1, PerceiveCopy DEF RecallInv
<1>3. CASE Gate
  <2>1. pc = "gate" /\ pc' \in {"silence", "retrieve", "appraise"} /\ UNCHANGED <<sent, session, answered>>
    BY <1>t, <1>3, GateCopy
  <2>2. turn.seed = session.seed /\ turn.history = session.history + 1 /\ turn.recalled = 0
    BY <2>1 DEF RecallInv
  <2>3. turn'.seed = turn.seed /\ turn'.history = turn.history /\ turn'.recalled = turn.recalled
    BY <1>t, <1>3, GateCopy
  <2>4. answered = 0 => session.history = session.seed
    BY DEF RecallInv
  <2>5. answered = 0 => IsFirst
    BY <2>2, <2>4 DEF IsFirst
  <2>6. answered = 0 /\ turn'.gateOk => turn'.retrieve
    BY <1>t, <1>3, <2>5, GateCopy
  <2>7. (pc' = "retrieve" => turn'.retrieve) /\ (pc' = "appraise" => ~turn'.retrieve)
    BY <1>t, <1>3, GateCopy
  <2> QED BY <2>1, <2>2, <2>3, <2>4, <2>6, <2>7 DEF RecallInv
<1>4. CASE Retrieve
  <2>1. pc = "retrieve" /\ pc' = "appraise" /\ UNCHANGED <<sent, session, answered>>
    BY <1>4 DEF Retrieve, Goto
  <2> QED BY <1>t, <1>4, <2>1, RetrieveCopy DEF RecallInv
<1>5. CASE Appraise
  <2>1. pc = "appraise" /\ pc' = "policy" /\ UNCHANGED <<sent, session, answered>>
    BY <1>5 DEF Appraise, Goto
  <2> QED BY <1>t, <1>5, <2>1, AppraiseIs DEF RecallInv
<1>6. ASSUME NEW threads \in BOOLEAN, Policy(threads) PROVE RecallInv'
  <2>1. pc = "policy" /\ pc' = "stream" /\ UNCHANGED <<sent, session, answered>>
    BY <1>6 DEF Policy, Goto
  <2> QED BY <1>t, <1>6, <2>1, PolicyIs DEF RecallInv
<1>7. CASE GraphFails \/ StreamFails
  <2>1. pc' = "idle" /\ UNCHANGED <<session, answered>>
    BY <1>7 DEF GraphFails, StreamFails, Goto
  <2> QED BY <2>1 DEF RecallInv
<1>8. CASE Silence
  BY <1>8, SilenceType DEF RecallInv
<1>9. CASE Answer
  BY <1>9, AnswerType DEF RecallInv
<1>10. ASSUME NEW c \in Cores, ReplaceCore(c) PROVE RecallInv'
  BY <1>10, ReplaceType DEF RecallInv
<1>11. CASE Reopen
  BY <1>11, ReopenType DEF RecallInv
<1>12. CASE Restore
  BY <1>12, RestoreType DEF RecallInv
<1>13. CASE UNCHANGED turnVars
  BY <1>13 DEF turnVars, RecallInv
<1> QED BY <1>1, <1>2, <1>3, <1>4, <1>5, <1>6, <1>7, <1>8, <1>9, <1>10, <1>11, <1>12, <1>13
        DEF TurnNext, GraphStep, Gate

\* The memories a reply is made with are its own message's, there if and only
\* if the gate asked for them, and the first reply of a session has them.
THEOREM RecallOwn == TurnSpec => []RecallsItsOwn
<1>1. RecallInv => RecallsItsOwn
  BY DEF RecallInv, RecallsItsOwn
<1> QED BY <1>1, TypeInvInit, TypeInvStep, RecallInit, RecallStep, PTL DEF TurnSpec

(***************************************************************************)
(* Hurt.  What decides a later turn is the reproach carried: an insult      *)
(* leaves more than a turn can wear down, anything else leaves what was     *)
(* carried worn down once.                                                  *)
(***************************************************************************)

WornDown(x) == IF Faint(Share(x, 70)) THEN 0 ELSE Share(x, 70)

FeltInv ==
  /\ turn.intent = "ABUSE" => Share(turn.emotions["reproach"], 70) > 5000
  /\ turn.intent # "ABUSE" => turn.emotions["reproach"] = WornDown(session.carry["reproach"])
  /\ turn.carry["reproach"] =
       IF Faint(turn.emotions["reproach"]) THEN 0 ELSE turn.emotions["reproach"]

StanceInv ==
  turn.intent # "ABUSE" /\ turn.emotions["reproach"] > 5000 =>
    turn.stance = IF turn.intent = "VULNERABILITY" THEN "COMFORT" ELSE "DISTANCE"

HurtInv ==
  /\ pc \in {"policy", "stream"} => FeltInv
  /\ pc = "stream" => StanceInv
  /\ calm = 0 <=> Share(session.carry["reproach"], 70) > 5000

LEMMA ReproachType ==
  ASSUME NEW f \in Feelings
  PROVE  f["reproach"] \in 0..One /\ Share(f["reproach"], 70) \in Int
<1>1. f["reproach"] \in 0..One
  BY DEF Feelings, Emotions, Appraised
<1>2. f["reproach"] \in Int /\ 70 \in Int
  BY <1>1, OneType
<1>3. Share(f["reproach"], 70) \in Int
  BY <1>2, ShareType
<1> QED BY <1>1, <1>3

LEMMA HurtInit == TurnInit => HurtInv
<1> SUFFICES ASSUME TurnInit PROVE HurtInv
  OBVIOUS
<1>1. session.carry["reproach"] = 0
  BY CalmType DEF TurnInit, FreshSession, Emotions, Appraised
<1> QED BY <1>1 DEF TurnInit, HurtInv, Share

LEMMA AppraiseHurt == ASSUME TypeInv, Appraise PROVE FeltInv'
<1>1. TurnTypeOK /\ turn.core \in Cores /\ turn.carry = session.carry /\ session' = session
  BY DEF TypeInv, Untouched, Before, Appraise, Goto
<1>2. turn.carry \in Feelings
  BY <1>1, AppraiseIs DEF TurnState
<1> DEFINE core == Moved(Resting(turn.core), turn.intent)
<1>3. core \in Core /\ core.respect = turn.core.respect
  BY <1>1, AppraiseIs
<1>4. /\ turn'.intent = turn.intent
      /\ turn'.emotions = Felt(core, turn.intent, turn.carry)
      /\ turn'.carry["reproach"] =
           IF Faint(turn'.emotions["reproach"]) THEN 0 ELSE turn'.emotions["reproach"]
  BY <1>1, AppraiseIs
<1> HIDE DEF core
<1>5. CASE turn.intent = "ABUSE"
  <2>1. Share(Felt(core, "ABUSE", turn.carry)["reproach"], 70) > 5000
    BY <1>1, <1>2, <1>3, InsultFelt
  <2> QED BY <1>4, <1>5, <2>1 DEF FeltInv
<1>6. CASE turn.intent # "ABUSE"
  <2>1. Felt(core, turn.intent, turn.carry)["reproach"] = WornDown(session.carry["reproach"])
    BY <1>1, <1>2, <1>3, <1>6, OnlyCarried DEF WornDown
  <2> QED BY <1>1, <1>4, <1>6, <2>1 DEF FeltInv
<1> QED BY <1>5, <1>6

LEMMA PolicyHurt ==
  ASSUME TypeInv, NEW threads \in BOOLEAN, Policy(threads), FeltInv
  PROVE  FeltInv' /\ StanceInv'
<1>1. TurnTypeOK /\ session' = session
  BY DEF TypeInv, Policy, Goto
<1>2. /\ turn'.intent = turn.intent /\ turn'.emotions = turn.emotions /\ turn'.carry = turn.carry
      /\ turn'.stance = DecideStance(turn.core, turn.intent, turn.emotions, threads)
      /\ turn.emotions \in Feelings
  BY <1>1, PolicyIs DEF TurnState
<1>3. turn.emotions["reproach"] \in Int
  BY <1>2, ReproachType, OneType
<1>4. turn.intent # "ABUSE" /\ turn.emotions["reproach"] > 5000 =>
        DecideStance(turn.core, turn.intent, turn.emotions, threads) =
          IF turn.intent = "VULNERABILITY" THEN "COMFORT" ELSE "DISTANCE"
  BY <1>3, HurtStance
<1>5. FeltInv'
  BY <1>1, <1>2 DEF FeltInv
<1>6. StanceInv'
  BY <1>2, <1>4 DEF StanceInv
<1> QED BY <1>5, <1>6

\* An answered insult is carried into the next turn; any other answer leaves
\* too little to keep her distant.
LEMMA AnswerHurt ==
  ASSUME TypeInv, Answer, FeltInv
  PROVE  calm' = 0 <=> Share(session'.carry["reproach"], 70) > 5000
<1>1. session'.carry = turn.carry /\ turn.emotions \in Feelings
  BY AnswerType DEF TurnState
<1>2. session.carry \in Feelings /\ calm \in Nat \cup {-1}
  BY DEF TypeInv, TurnTypeOK, Session
<1>3. calm' = IF turn.intent = "ABUSE" THEN 0 ELSE IF calm = -1 THEN -1 ELSE calm + 1
  BY DEF Answer
<1>4. CASE turn.intent = "ABUSE"
  <2> DEFINE x == turn.emotions["reproach"]
  <2>1. x \in 0..One /\ Share(x, 70) > 5000
    BY <1>1, <1>4, ReproachType DEF FeltInv
  <2>2. turn.carry["reproach"] = IF Faint(x) THEN 0 ELSE x
    BY DEF FeltInv
  <2> HIDE DEF x
  <2>3. ~Faint(x)
    BY <2>1 DEF Faint, Share, One
  <2> QED BY <1>1, <1>3, <1>4, <2>1, <2>2, <2>3
<1>5. CASE turn.intent # "ABUSE"
  <2> DEFINE y == session.carry["reproach"]
             x == turn.emotions["reproach"]
  <2>1. y \in 0..One
    BY <1>2, ReproachType
  <2>2. x = WornDown(y) /\ turn.carry["reproach"] = IF Faint(x) THEN 0 ELSE x
    BY <1>5 DEF FeltInv
  <2> HIDE DEF x, y
  <2>3. Share(Share(y, 70), 70) <= 5000 /\ Share(Share(y, 70), 70) \in Int /\ Share(0, 70) = 0
    <3>1. Share(Share(y, 70), 70) <= 5000
      BY <2>1, SevenTenths
    <3>2. y \in Int
      BY <2>1
    <3>3. Share(y, 70) \in Int
      BY <3>2, ShareType
    <3>4. Share(Share(y, 70), 70) \in Int
      BY <3>3, ShareType
    <3>5. Share(0, 70) = 0
      BY DEF Share
    <3> QED BY <3>1, <3>4, <3>5
  <2>4. turn.carry["reproach"] \in {0, Share(y, 70)}
    BY <2>2 DEF WornDown
  <2>5. ~(Share(turn.carry["reproach"], 70) > 5000)
    BY <2>3, <2>4
  <2>6. calm' # 0
    BY <1>2, <1>3, <1>5
  <2> QED BY <1>1, <2>5, <2>6
<1> QED BY <1>4, <1>5

LEMMA HurtStep == TypeInv /\ HurtInv /\ [TurnNext]_turnVars => HurtInv'
<1> SUFFICES ASSUME TypeInv, HurtInv, [TurnNext]_turnVars PROVE HurtInv'
  OBVIOUS
<1>t. TurnTypeOK
  BY DEF TypeInv
<1>1. ASSUME NEW m \in Messages, Accept(m) PROVE HurtInv'
  BY <1>1, AcceptCopy DEF HurtInv
<1>2. CASE Perceive \/ Retrieve \/ GraphFails \/ StreamFails
  <2>1. pc' \notin {"policy", "stream"} /\ UNCHANGED <<session, calm>>
    BY <1>2 DEF Perceive, Retrieve, GraphFails, StreamFails, Goto
  <2> QED BY <2>1 DEF HurtInv
<1>3. CASE Gate
  BY <1>t, <1>3, GateCopy DEF HurtInv
<1>4. CASE Appraise
  <2>1. pc' = "policy" /\ UNCHANGED <<session, calm>>
    BY <1>4 DEF Appraise, Goto
  <2> QED BY <1>4, <2>1, AppraiseHurt DEF HurtInv
<1>5. ASSUME NEW threads \in BOOLEAN, Policy(threads) PROVE HurtInv'
  <2>1. pc = "policy" /\ pc' = "stream" /\ UNCHANGED <<session, calm>>
    BY <1>5 DEF Policy, Goto
  <2>2. FeltInv
    BY <2>1 DEF HurtInv
  <2> QED BY <1>5, <2>1, <2>2, PolicyHurt DEF HurtInv
<1>6. CASE Silence
  BY <1>6, SilenceType DEF HurtInv
<1>7. CASE Answer
  <2>1. FeltInv /\ pc' = "idle"
    BY <1>7 DEF HurtInv, Answer, EndTurn
  <2> QED BY <1>7, <2>1, AnswerHurt DEF HurtInv
<1>8. ASSUME NEW c \in Cores, ReplaceCore(c) PROVE HurtInv'
  <2>1. session'.carry = session.carry /\ UNCHANGED <<pc, turn, calm>>
    BY <1>8, ReplaceType
  <2> QED BY <2>1 DEF HurtInv, FeltInv, StanceInv
<1>9. CASE Reopen
  <2>1. session'.carry["reproach"] = 0
    BY <1>9, ReopenType, CalmType DEF Emotions, Appraised
  <2> QED BY <1>9, <2>1, ReopenType DEF HurtInv, Share
<1>10. CASE Restore
  <2>1. session'.carry["reproach"] = 0
    BY <1>10, RestoreType, CalmType DEF Emotions, Appraised
  <2> QED BY <1>10, <2>1, RestoreType DEF HurtInv, Share
<1>11. CASE UNCHANGED turnVars
  BY <1>11 DEF turnVars, HurtInv, FeltInv, StanceInv
<1> QED BY <1>1, <1>2, <1>3, <1>4, <1>5, <1>6, <1>7, <1>8, <1>9, <1>10, <1>11
        DEF TurnNext, GraphStep, Gate

\* After an answered insult the next reply is distant, or comforting if the
\* user is hurt, whatever failed or was met with silence in between.
THEOREM InsultLingers == TurnSpec => []HurtLingers
<1>1. HurtInv /\ TypeInv => HurtLingers
  <2> SUFFICES ASSUME HurtInv, TypeInv, pc = "stream", calm = 0, turn.intent # "ABUSE"
               PROVE  turn.stance = IF turn.intent = "VULNERABILITY" THEN "COMFORT" ELSE "DISTANCE"
    BY DEF HurtLingers
  <2> DEFINE y == session.carry["reproach"]
  <2>1. Share(y, 70) > 5000 /\ turn.emotions["reproach"] = WornDown(y) /\ StanceInv
    BY DEF HurtInv, FeltInv
  <2>2. Share(y, 70) \in Int
    BY ReproachType DEF TypeInv, TurnTypeOK, Session
  <2> HIDE DEF y
  <2>3. WornDown(y) > 5000
    BY <2>1, <2>2 DEF WornDown, Faint
  <2> QED BY <2>1, <2>3 DEF StanceInv
<1> QED BY <1>1, TypeInvInit, TypeInvStep, HurtInit, HurtStep, PTL DEF TurnSpec

\* ... and from the second reply on reproach is too weak to keep her distant.
THEOREM InsultFades == TurnSpec => []HurtFades
<1>1. HurtInv /\ TypeInv => HurtFades
  <2> SUFFICES ASSUME HurtInv, TypeInv, pc = "stream", calm # 0, turn.intent # "ABUSE"
               PROVE  turn.emotions["reproach"] <= 5000
    BY DEF HurtFades
  <2> DEFINE y == session.carry["reproach"]
  <2>1. ~(Share(y, 70) > 5000) /\ turn.emotions["reproach"] = WornDown(y)
    BY DEF HurtInv, FeltInv
  <2>2. Share(y, 70) \in Int
    BY ReproachType DEF TypeInv, TurnTypeOK, Session
  <2> HIDE DEF y
  <2> QED BY <2>1, <2>2 DEF WornDown
<1> QED BY <1>1, TypeInvInit, TypeInvStep, HurtInit, HurtStep, PTL DEF TurnSpec

(***************************************************************************)
(* The limiter, the accounts and the turn together                         *)
(***************************************************************************)

\* Whichever component a behaviour is of, it is a behaviour of every one of them:
\* what is proved of each holds of the run.
LEMMA ServiceIsEach == ServiceSpec => RLSpec /\ AccountsSpec /\ TurnSpec
<1>1. ServiceInit => RLInit /\ AccountsInit /\ TurnInit
  BY DEF ServiceInit
<1>2. [ServiceNext]_serviceVars =>
        [RLNext]_rlVars /\ [AccountsNext]_accountVars /\ [TurnNext]_turnVars
  BY Zenon DEF ServiceNext, serviceVars
<1> QED BY <1>1, <1>2, PTL DEF ServiceSpec, RLSpec, AccountsSpec, TurnSpec

(* The three composed keep their types, whichever of them moves.            *)
THEOREM ServiceTypes == ServiceSpec => []TypeOK
<1>1. RLTypeOK /\ AccountsTypeOK /\ TurnTypeOK => TypeOK
  BY DEF TypeOK
<1> QED BY <1>1, ServiceIsEach, RLTypeCorrect, AccountsTypeCorrect, TurnTypes, PTL
===============================================================================
