--------------------------- MODULE RelationshipProofs ---------------------------
(***************************************************************************)
(* Proofs about Relationship for every table of stage floors that ascends,   *)
(* every cap, threshold and window, and any sequence of answers: what is on  *)
(* disk is in range, the stage is earned, ceilings hold, and stages move one *)
(* at a time.                                                              *)
(***************************************************************************)
EXTENDS Relationship, SequenceTheorems, TLAPS

(***************************************************************************)
(* Operators                                                               *)
(***************************************************************************)

\* Reached is the highest stage admitted and earned; the chain of comparisons of
\* increment_session always finds one, since the first floor is zero.
LEMMA ReachedIs ==
  ASSUME NEW sig \in Nat, NEW top \in Stages
  PROVE  /\ Reached(sig, top) \in 1 .. top
         /\ Floor[Reached(sig, top)] <= sig
         /\ \A j \in 1 .. top : Floor[j] <= sig => j <= Reached(sig, top)
<1> DEFINE Best(k) == Floor[k] <= sig /\ \A j \in 1 .. top : Floor[j] <= sig => j <= k
<1>1. \A k \in Stages : Floor[k] \in Nat
  BY FloorsAscend
<1>2. Floor[1] <= sig
  BY FloorsAscend
<1>3. top \in {1, 2, 3, 4, 5}
  BY DEF Stages
<1>4. \E k \in 1 .. top : Best(k)
  <2>1. CASE top = 1
    BY <2>1, <1>2
  <2>2. CASE top = 2
    BY <2>2, <1>1, <1>2 DEF Stages
  <2>3. CASE top = 3
    BY <2>3, <1>1, <1>2 DEF Stages
  <2>4. CASE top = 4
    BY <2>4, <1>1, <1>2 DEF Stages
  <2>5. CASE top = 5
    BY <2>5, <1>1, <1>2 DEF Stages
  <2> QED BY <1>3, <2>1, <2>2, <2>3, <2>4, <2>5
<1>5. Reached(sig, top) \in 1 .. top /\ Best(Reached(sig, top))
  BY <1>4 DEF Reached
<1> QED
  BY <1>5

LEMMA ClampRange ==
  ASSUME NEW a \in Int, NEW b \in Int, NEW x \in Int, a <= b
  PROVE  Clamp(a, b, x) \in a .. b
BY DEF Clamp, AtLeast, AtMost

\* The rolling window never outgrows what is kept.
LEMMA RecordType ==
  ASSUME NEW s \in Seq(Int), Len(s) <= Keep, NEW d \in Int
  PROVE  Record(s, d) \in Seq(Int) /\ Len(Record(s, d)) <= Keep
<1>1. Len(s) \in Nat /\ Keep \in Nat \ {0}
  BY LenProperties, AmountsOK
<1>2. /\ Append(s, d) \in Seq(Int) /\ Len(Append(s, d)) = Len(s) + 1
  OBVIOUS
<1>3. CASE Len(s) < Keep
  BY <1>1, <1>2, <1>3 DEF Record
<1>4. CASE Len(s) = Keep
  <2>1. Record(s, d) = SubSeq(Append(s, d), 2, Len(s) + 1)
    BY <1>1, <1>4 DEF Record
  <2>2. \A i \in 2 .. Len(s) + 1 : Append(s, d)[i] \in Int
    BY <1>1, <1>2, ElementOfSeq
  <2>3. /\ SubSeq(Append(s, d), 2, Len(s) + 1) \in Seq(Int)
        /\ Len(SubSeq(Append(s, d), 2, Len(s) + 1)) =
             IF 2 <= Len(s) + 1 THEN Len(s) + 1 - 2 + 1 ELSE 0
    BY <1>1, <2>2, SubSeqProperties
  <2> QED BY <1>1, <1>4, <2>1, <2>3
<1> QED
  BY <1>1, <1>3, <1>4

(***************************************************************************)
(* What every operation preserves                                          *)
(***************************************************************************)

Good(c) == CoreOK(c) /\ Floor[c.stage] <= c.sig /\ c.checked <= c.count

LEMMA FloorNat == \A k \in Stages : Floor[k] \in Nat
BY FloorsAscend

LEMMA FreshGood == Good(Fresh)
<1>1. <<>> \in Seq(Int) /\ Len(<<>>) = 0
  BY EmptySeq
<1> QED
  BY <1>1, FloorsAscend, AmountsOK DEF Fresh, Good, CoreOK, CoreRec, Stages

LEMMA StatedGood ==
  ASSUME NEW c, Good(c), NEW ceiling \in StatedCeilings
  PROVE  /\ Good(Stated(c, ceiling))
         /\ Stated(c, ceiling).stage = c.stage /\ Stated(c, ceiling).sig = c.sig
         /\ Stated(c, ceiling).count = c.count /\ Stated(c, ceiling).weight = c.weight
BY DEF Good, CoreOK, CoreRec, Stated, StatedCeilings

LEMMA CeilingRange ==
  ASSUME NEW c, Good(c), c.ceiling # None
  PROVE  c.ceiling \in Ceilings /\ c.ceiling \in 2 .. 5
<1>1. c.ceiling \in Ceilings
  BY DEF Good, CoreOK, CoreRec
<1> QED
  BY <1>1, AnswersOK

LEMMA TopRange == ASSUME NEW c, Good(c) PROVE Top(c) \in 2 .. 5
<1>1. CASE c.ceiling = None
  BY <1>1 DEF Top, Intimate
<1>2. CASE c.ceiling # None
  BY <1>2, CeilingRange DEF Top
<1> QED
  BY <1>1, <1>2

LEMMA IncrementGood ==
  ASSUME NEW c, Good(c), NEW s \in Int
  PROVE  LET d == IncrementSession(c, s)
         IN  /\ Good(d)
             /\ d.count = c.count + 1 /\ d.ceiling = c.ceiling
             /\ d.checked = c.checked /\ d.weight = c.weight
             /\ d.sig \in c.sig .. c.sig + SigCap
             /\ d.stage = Reached(d.sig, Top(c))
<1> DEFINE gain == Clamp(0, SigCap, s)
           trust == Clamp(0, TrustOne, c.trust + gain - SigHalf)
           stage == Reached(c.sig + gain, Top(c))
           d == [c EXCEPT !.count = @ + 1, !.sig = @ + gain, !.stage = stage, !.trust = trust]
<1>1. c \in CoreRec /\ Len(c.deltas) <= Keep /\ c.checked <= c.count
  BY DEF Good, CoreOK
<1>2. c.sig \in Nat /\ c.count \in Nat /\ c.trust \in Int /\ c.checked \in Nat
  BY <1>1 DEF CoreRec
<1>3. gain \in 0 .. SigCap
  BY ClampRange, AmountsOK
<1> HIDE DEF gain
<1>4. trust \in 0 .. TrustOne
  <2>1. gain \in Int /\ SigHalf \in Int /\ TrustOne \in Int /\ 0 <= TrustOne
    <3>1. SigCap \in Nat /\ SigHalf \in Nat /\ TrustOne \in Nat
      BY AmountsOK
    <3> QED
      BY <1>3, <3>1
  <2>2. c.trust + gain - SigHalf \in Int
    BY <1>2, <2>1
  <2>3. \A x \in Int : Clamp(0, TrustOne, x) \in 0 .. TrustOne
    BY <2>1, ClampRange
  <2> QED
    BY <2>2, <2>3
<1>5. Top(c) \in Stages
  BY TopRange DEF Stages
<1>6. stage \in 1 .. Top(c) /\ Floor[stage] <= c.sig + gain
  BY <1>2, <1>3, <1>5, ReachedIs, AmountsOK
<1>7. stage \in Stages
  BY <1>5, <1>6 DEF Stages
<1>8. IncrementSession(c, s) = d
  BY DEF IncrementSession, gain
<1> HIDE DEF trust, stage
<1>13. c.sig + gain \in Nat /\ c.count + 1 \in Nat
  BY <1>2, <1>3, AmountsOK
<1>9. /\ d \in CoreRec /\ d.count = c.count + 1 /\ d.ceiling = c.ceiling /\ d.checked = c.checked
      /\ d.weight = c.weight /\ d.deltas = c.deltas /\ d.sig = c.sig + gain /\ d.stage = stage
  BY <1>1, <1>4, <1>7, <1>13 DEF CoreRec
<1>10. stage = Reached(c.sig + gain, Top(c))
  BY DEF stage
<1> HIDE DEF d
<1>11. Good(d)
  BY <1>1, <1>2, <1>6, <1>9 DEF Good, CoreOK
<1>12. d.sig \in c.sig .. c.sig + SigCap
  BY <1>2, <1>3, <1>9, AmountsOK
<1> QED
  BY <1>8, <1>9, <1>10, <1>11, <1>12

LEMMA RegressGood ==
  ASSUME NEW c, Good(c)
  PROVE  LET d == RegressStage(c)
         IN  /\ Good(d)
             /\ d.stage \in {c.stage, c.stage - 1} /\ d.stage <= c.stage
             /\ d.count = c.count /\ d.ceiling = c.ceiling /\ d.weight = c.weight
<1>1. CASE c.stage = 1
  BY <1>1 DEF RegressStage
<1>2. CASE c.stage # 1
  <2>1. c.stage - 1 \in Stages /\ c.stage \in Stages
    BY <1>2 DEF Good, CoreOK, CoreRec, Stages
  <2>2. Floor[c.stage - 1] \in Nat
    BY <2>1, FloorNat
  <2> DEFINE d == [c EXCEPT !.stage = @ - 1, !.sig = Floor[c.stage - 1]]
  <2>3. RegressStage(c) = d
    BY <1>2 DEF RegressStage
  <2>4. /\ d \in CoreRec /\ d.stage = c.stage - 1 /\ d.sig = Floor[c.stage - 1]
        /\ d.count = c.count /\ d.ceiling = c.ceiling /\ d.checked = c.checked
        /\ d.weight = c.weight /\ d.deltas = c.deltas
    BY <2>1, <2>2 DEF Good, CoreOK, CoreRec
  <2> HIDE DEF d
  <2>5. Good(d)
    BY <2>2, <2>4 DEF Good, CoreOK
  <2> QED
    BY <2>1, <2>3, <2>4, <2>5 DEF Stages
<1> QED
  BY <1>1, <1>2

LEMMA DecisionsGood ==
  ASSUME NEW b, NEW c, Good(c), b.stage \in Stages, NEW d \in Decisions(b, c)
  PROVE  /\ Good(d)
         /\ d.count = c.count /\ d.weight = c.weight
         /\ \/ d.stage = c.stage /\ d.ceiling = c.ceiling /\ d.sig = c.sig
            \/ d.stage = b.stage + 1 /\ c.stage = b.stage /\ d.ceiling = None
<1>1. CASE d = c
  BY <1>1
<1>2. CASE d = [c EXCEPT !.checked = c.count]
  <2>1. /\ d \in CoreRec /\ d.stage = c.stage /\ d.sig = c.sig /\ d.count = c.count
        /\ d.ceiling = c.ceiling /\ d.checked = c.count /\ d.weight = c.weight
        /\ d.deltas = c.deltas
    BY <1>2 DEF Good, CoreOK, CoreRec
  <2>2. c.count \in Nat
    BY DEF Good, CoreOK, CoreRec
  <2> QED
    BY <2>1, <2>2 DEF Good, CoreOK
<1>3. CASE Outgrown(b, c) /\ d = Advance(c)
  <2>1. /\ c.ceiling \in 2 .. 4 /\ c.stage = b.stage /\ c.stage = c.ceiling
    <3>1. c.ceiling # None /\ c.ceiling < 5 /\ c.stage = b.stage /\ c.stage = c.ceiling
      BY <1>3 DEF Outgrown, Intimate
    <3>2. c.ceiling \in 2 .. 5
      BY <3>1, CeilingRange
    <3> QED
      BY <3>1, <3>2
  <2>2. c.ceiling + 1 \in Stages
    BY <2>1 DEF Stages
  <2>3. Floor[c.ceiling + 1] \in Nat
    BY <2>2, FloorNat
  <2> DEFINE sig == AtLeast(Floor[c.ceiling + 1], c.sig)
  <2>4. sig \in Nat /\ Floor[c.ceiling + 1] <= sig
    BY <2>3 DEF AtLeast, Good, CoreOK, CoreRec
  <2>5. d = [c EXCEPT !.ceiling = None, !.checked = 0, !.stage = c.ceiling + 1, !.sig = sig]
    BY <1>3 DEF Advance
  <2> HIDE DEF sig
  <2>6. /\ d \in CoreRec /\ d.stage = c.ceiling + 1 /\ d.sig = sig /\ d.count = c.count
        /\ d.ceiling = None /\ d.checked = 0 /\ d.weight = c.weight /\ d.deltas = c.deltas
    BY <2>2, <2>4, <2>5 DEF Good, CoreOK, CoreRec
  <2>7. c.count \in Nat
    BY DEF Good, CoreOK, CoreRec
  <2> QED
    BY <2>1, <2>4, <2>6, <2>7 DEF Good, CoreOK
<1> QED
  BY <1>1, <1>2, <1>3 DEF Decisions

LEMMA FeelGood ==
  ASSUME NEW c, Good(c), NEW v \in {"hostile", "cool", "warm"}
  PROVE  LET d == Feel(c, v)
         IN  /\ Good(d)
             /\ d.stage \in {c.stage, c.stage - 1} /\ d.stage <= c.stage
             /\ d.count = c.count /\ d.ceiling = c.ceiling /\ d.weight = c.weight
<1> DEFINE h == CASE v = "hostile" -> c.hostile + 2
                  [] v = "cool"    -> AtLeast(0, c.hostile - 1)
                  [] v = "warm"    -> 0
<1>1. c.hostile \in 0 .. 5 /\ c \in CoreRec
  BY DEF Good, CoreOK, CoreRec
<1>2. h \in Nat
  <2>1. CASE v = "hostile" BY <1>1, <2>1
  <2>2. CASE v = "cool" BY <1>1, <2>2 DEF AtLeast
  <2>3. CASE v = "warm" BY <2>3
  <2> QED BY <2>1, <2>2, <2>3
<1>3. Feel(c, v) = IF h >= HostileLimit THEN [RegressStage(c) EXCEPT !.hostile = 0]
                   ELSE [c EXCEPT !.hostile = h]
  BY DEF Feel
<1> HIDE DEF h
<1>4. CASE h >= HostileLimit
  <2> DEFINE e == RegressStage(c)
             d == [e EXCEPT !.hostile = 0]
  <2>1. /\ Good(e) /\ e.stage \in {c.stage, c.stage - 1} /\ e.stage <= c.stage
        /\ e.count = c.count /\ e.ceiling = c.ceiling /\ e.weight = c.weight
    BY RegressGood
  <2>4. e \in CoreRec
    BY <2>1 DEF Good, CoreOK
  <2> HIDE DEF e
  <2>2. /\ d \in CoreRec /\ d.stage = e.stage /\ d.sig = e.sig /\ d.count = e.count
        /\ d.ceiling = e.ceiling /\ d.checked = e.checked /\ d.weight = e.weight
        /\ d.deltas = e.deltas
    <3>1. 0 \in 0 .. 5
      OBVIOUS
    <3> QED BY <2>4, <3>1 DEF CoreRec
  <2>3. Feel(c, v) = d
    BY <1>3, <1>4 DEF e
  <2> HIDE DEF d
  <2> QED
    BY <2>1, <2>2, <2>3 DEF Good, CoreOK
<1>5. CASE ~(h >= HostileLimit)
  <2> DEFINE d == [c EXCEPT !.hostile = h]
  <2>1. h \in 0 .. 5
    BY <1>2, <1>5 DEF HostileLimit
  <2>2. /\ d \in CoreRec /\ d.stage = c.stage /\ d.sig = c.sig /\ d.count = c.count
        /\ d.ceiling = c.ceiling /\ d.checked = c.checked /\ d.weight = c.weight
        /\ d.deltas = c.deltas
    BY <1>1, <2>1 DEF CoreRec
  <2>3. Feel(c, v) = d
    BY <1>3, <1>5
  <2>4. c.stage \in Int
    BY <1>1 DEF CoreRec, Stages
  <2> HIDE DEF d
  <2> QED
    BY <2>2, <2>3, <2>4 DEF Good, CoreOK
<1> QED
  BY <1>4, <1>5

LEMMA AttachGood ==
  ASSUME NEW c, Good(c), NEW wd \in Int \cup {None}
  PROVE  LET d == Attach(c, wd)
         IN  /\ Good(d)
             /\ d.stage = c.stage /\ d.count = c.count /\ d.ceiling = c.ceiling
             /\ d.trust = c.trust
             /\ d.weight > c.weight =>
                  /\ d.weight <= c.count * PerSession
                  /\ d.weight - c.weight <= IF Flagged(c) THEN FlaggedDelta ELSE MaxDelta
<1>1. /\ c \in CoreRec /\ c.weight \in 0 .. WeightOne /\ c.count \in Nat
      /\ c.deltas \in Seq(Int) /\ Len(c.deltas) <= Keep
  BY DEF Good, CoreOK, CoreRec
<1>2. CASE wd = None
  <2>1. Attach(c, wd) = c
    BY <1>2 DEF Attach
  <2> QED
    BY <1>1, <2>1
<1>3. CASE wd # None
  <2> DEFINE most == IF Flagged(c) THEN FlaggedDelta ELSE MaxDelta
             delta == Clamp(-MaxDelta, most, wd)
             room == c.count * PerSession
             weight == AtLeast(0, AtMost(AtMost(WeightOne, room), c.weight + delta))
             deltas == Record(c.deltas, delta)
             d == [c EXCEPT !.weight = weight, !.deltas = deltas]
  <2>1. MaxDelta \in Nat /\ FlaggedDelta \in Nat /\ PerSession \in Nat /\ WeightOne \in Nat
    BY AmountsOK
  <2>2. most \in Nat
    BY <2>1
  <2>3. \A x \in Int : Clamp(-MaxDelta, most, x) \in -MaxDelta .. most
    <3> HIDE DEF most
    <3>1. -MaxDelta \in Int /\ most \in Int /\ -MaxDelta <= most
      BY <2>1, <2>2
    <3> QED
      BY <3>1, ClampRange
  <2>4. delta \in Int /\ delta <= most
    <3> HIDE DEF most
    <3> QED BY <1>3, <2>1, <2>2, <2>3
  <2>5. room \in Nat
    BY <1>1, <2>1
  <2> HIDE DEF most, delta, room
  <2>6. weight \in 0 .. WeightOne
    BY <1>1, <2>1, <2>4, <2>5 DEF AtLeast, AtMost
  <2>7. weight > c.weight => weight <= room /\ weight - c.weight <= most
    BY <1>1, <2>1, <2>2, <2>4, <2>5 DEF AtLeast, AtMost
  <2>8. deltas \in Seq(Int) /\ Len(deltas) <= Keep
    BY <1>1, <2>4, RecordType
  <2>9. Attach(c, wd) = d
    BY <1>3 DEF Attach, most, delta, room
  <2> HIDE DEF weight, deltas
  <2>10. /\ d \in CoreRec /\ d.stage = c.stage /\ d.sig = c.sig /\ d.count = c.count
         /\ d.ceiling = c.ceiling /\ d.checked = c.checked /\ d.weight = weight
         /\ d.deltas = deltas /\ d.trust = c.trust
    BY <1>1, <2>6, <2>8 DEF CoreRec
  <2> HIDE DEF d
  <2>11. Good(d)
    BY <2>8, <2>10 DEF Good, CoreOK
  <2> QED
    BY <2>7, <2>9, <2>10, <2>11 DEF most, room
<1> QED
  BY <1>2, <1>3

(***************************************************************************)
(* What a step does to the record in force                                 *)
(***************************************************************************)

Held(c, d) ==
  /\ d.stage > c.stage => d.count > c.count
  /\ d.count > c.count /\ d.ceiling # None => d.stage <= d.ceiling

Falls(c, d) == d.count = 0 \/ d.stage >= AtMost(Top(d), c.stage) - 1

Paced(c, d) ==
  d.weight > c.weight =>
    /\ d.count > c.count
    /\ d.weight <= d.count * PerSession
    /\ d.weight - c.weight <=
         IF c.weight > Absolute /\ 2 * d.trust < TrustOne THEN FlaggedDelta ELSE MaxDelta

Single(c, d) == d.stage <= c.stage + 1 \/ c.stage < Reached(c.sig, Intimate)

Moves(c, d) == Held(c, d) /\ Falls(c, d) /\ Paced(c, d) /\ Single(c, d)

\* A step that counts no session, costs one stage at most and adds no weight.
LEMMA Quiet ==
  ASSUME NEW c, NEW d, Good(c), Good(d), d.count = c.count,
         d.stage \in {c.stage, c.stage - 1}, d.weight <= c.weight
  PROVE  Moves(c, d)
<1>1. /\ c.stage \in 1 .. 5 /\ d.stage \in 1 .. 5 /\ c.count \in Nat
      /\ c.weight \in Int /\ d.weight \in Int
  BY DEF Good, CoreOK, CoreRec, Stages
<1>2. Top(d) \in 2 .. 5
  BY TopRange
<1>3. Held(c, d)
  BY <1>1 DEF Held
<1>4. Falls(c, d)
  BY <1>1, <1>2 DEF Falls, AtMost
<1>5. Paced(c, d)
  BY <1>1 DEF Paced
<1>6. Single(c, d)
  BY <1>1 DEF Single
<1> QED
  BY <1>3, <1>4, <1>5, <1>6 DEF Moves

\* A record that starts over, with no more weight than there was.
LEMMA StartingOver ==
  ASSUME NEW c, NEW d, Good(c), Good(d), d.count = 0, d.stage = 1, d.weight <= c.weight
  PROVE  Moves(c, d)
<1>1. c.stage \in 1 .. 5 /\ c.count \in Nat /\ c.weight \in Int /\ d.weight \in Int
  BY DEF Good, CoreOK, CoreRec, Stages
<1> QED
  BY <1>1 DEF Moves, Held, Falls, Paced, Single

LEMMA Ascending ==
  ASSUME NEW j \in Stages, NEW k \in Stages, j <= k
  PROVE  Floor[j] <= Floor[k]
<1>1. /\ Floor[1] <= Floor[2] /\ Floor[2] <= Floor[3]
      /\ Floor[3] <= Floor[4] /\ Floor[4] <= Floor[5]
  BY FloorsAscend
<1>2. /\ Floor[1] \in Nat /\ Floor[2] \in Nat /\ Floor[3] \in Nat
      /\ Floor[4] \in Nat /\ Floor[5] \in Nat
  BY FloorNat DEF Stages
<1>3. j \in {1, 2, 3, 4, 5} /\ k \in {1, 2, 3, 4, 5}
  BY DEF Stages
<1> QED
  BY <1>1, <1>2, <1>3

\* A session's worth of significance moves the stage by one at most, and never down
\* except to meet the ceiling.
LEMMA SessionStage ==
  ASSUME NEW stage \in Stages, NEW sig \in Nat, NEW more \in Nat, NEW top \in Stages,
         Floor[stage] <= sig, sig <= more, more <= sig + SigCap
  PROVE  /\ Reached(more, top) >= AtMost(top, stage)
         /\ stage >= Reached(sig, Intimate) => Reached(more, top) <= stage + 1
<1> DEFINE k == Reached(more, top)
<1>1. /\ k \in 1 .. top /\ Floor[k] <= more
      /\ \A j \in 1 .. top : Floor[j] <= more => j <= k
  BY ReachedIs
<1>2. k \in Stages
  BY <1>1 DEF Stages
<1> HIDE DEF k
<1>3. k >= AtMost(top, stage)
  <2> DEFINE j == AtMost(top, stage)
  <2>1. j \in 1 .. top /\ j \in Stages /\ j <= stage
    BY DEF AtMost, Stages
  <2> HIDE DEF j
  <2>2. Floor[j] <= Floor[stage]
    BY <2>1, Ascending
  <2>3. Floor[j] <= more
    BY <2>1, <2>2, FloorNat
  <2>4. j <= k
    BY <1>1, <2>1, <2>3
  <2>5. k >= j
    BY <2>4, <2>1, <1>2 DEF Stages
  <2> QED
    BY <2>5 DEF j
<1>4. ASSUME stage >= Reached(sig, Intimate), k > stage + 1 PROVE FALSE
  <2>1. stage \in 1 .. 3 /\ stage + 1 \in 1 .. 5 /\ stage + 2 \in Stages /\ stage + 2 <= k
    BY <1>2, <1>4 DEF Stages
  <2>2. /\ Reached(sig, Intimate) \in 1 .. 5
        /\ \A j \in 1 .. 5 : Floor[j] <= sig => j <= Reached(sig, Intimate)
    BY ReachedIs DEF Intimate, Stages
  <2>3. ~(stage + 1 <= Reached(sig, Intimate))
    BY <1>4, <2>1, <2>2
  <2>4. ~(Floor[stage + 1] <= sig)
    BY <2>1, <2>2, <2>3
  <2>5. Floor[stage + 1] + SigCap <= Floor[stage + 2]
    <3>1. stage + 1 \in 2 .. 4 /\ (stage + 1) + 1 = stage + 2
      BY <2>1
    <3> QED BY <3>1, FloorsSpread
  <2>6. Floor[stage + 2] <= Floor[k]
    BY <1>2, <2>1, Ascending
  <2>7. /\ Floor[stage + 1] \in Nat /\ Floor[stage + 2] \in Nat /\ Floor[k] \in Nat
        /\ SigCap \in Nat
    BY <1>2, <2>1, FloorNat, AmountsOK DEF Stages
  <2> QED
    BY <1>1, <2>4, <2>5, <2>6, <2>7
<1>5. Reached(sig, Intimate) \in Int
  BY ReachedIs DEF Intimate, Stages
<1> QED
  BY <1>2, <1>3, <1>4, <1>5 DEF k, Stages

\* A whole reflection at the end of a session, in its order.
LEMMA ReflectMoves ==
  ASSUME NEW c, Good(c), NEW stated \in StatedCeilings, NEW s \in Int,
         NEW v \in {"hostile", "cool", "warm"}, NEW wd \in Int \cup {None},
         NEW decided \in Decisions(Stated(c, stated), IncrementSession(Stated(c, stated), s))
  PROVE  LET d == Attach(Feel(decided, v), wd) IN Good(d) /\ Moves(c, d)
<1> DEFINE b == Stated(c, stated)
           i == IncrementSession(b, s)
           f == Feel(decided, v)
           d == Attach(f, wd)
<1>1. /\ Good(b) /\ b.stage = c.stage /\ b.sig = c.sig /\ b.count = c.count
      /\ b.weight = c.weight
  BY StatedGood
<1> HIDE DEF b
<1>2. /\ Good(i) /\ i.count = b.count + 1 /\ i.ceiling = b.ceiling /\ i.weight = b.weight
      /\ i.sig \in b.sig .. b.sig + SigCap /\ i.stage = Reached(i.sig, Top(b))
  BY <1>1, IncrementGood
<1>3. b.stage \in Stages
  BY <1>1 DEF Good, CoreOK, CoreRec
<1>4. decided \in Decisions(b, i)
  BY DEF b
<1> HIDE DEF i
<1>5. /\ Good(decided) /\ decided.count = i.count /\ decided.weight = i.weight
      /\ \/ decided.stage = i.stage /\ decided.ceiling = i.ceiling /\ decided.sig = i.sig
         \/ decided.stage = b.stage + 1 /\ i.stage = b.stage /\ decided.ceiling = None
  BY <1>2, <1>3, <1>4, DecisionsGood
<1>6. /\ Good(f) /\ f.stage \in {decided.stage, decided.stage - 1}
      /\ f.count = decided.count /\ f.ceiling = decided.ceiling /\ f.weight = decided.weight
  BY <1>5, FeelGood
<1> HIDE DEF f
<1>7. /\ Good(d) /\ d.stage = f.stage /\ d.count = f.count /\ d.ceiling = f.ceiling
      /\ d.trust = f.trust
      /\ d.weight > f.weight =>
           /\ d.weight <= f.count * PerSession
           /\ d.weight - f.weight <= IF Flagged(f) THEN FlaggedDelta ELSE MaxDelta
  BY <1>6, AttachGood
<1> HIDE DEF d
<1>8. /\ c.stage \in 1 .. 5 /\ c.count \in Nat /\ c.sig \in Nat /\ Floor[c.stage] <= c.sig
      /\ i.stage \in 1 .. 5 /\ i.sig \in Nat /\ decided.stage \in 1 .. 5
      /\ d.stage \in 1 .. 5
  BY <1>2, <1>5, <1>7 DEF Good, CoreOK, CoreRec, Stages
<1>9. Top(b) \in 2 .. 5 /\ Top(b) \in Stages
  BY <1>1, TopRange DEF Stages
<1>10. /\ i.stage >= AtMost(Top(b), c.stage)
       /\ c.stage >= Reached(c.sig, Intimate) => i.stage <= c.stage + 1
  <2>1. c.stage \in Stages /\ c.sig <= i.sig /\ i.sig <= c.sig + SigCap
    BY <1>1, <1>2, <1>8, AmountsOK DEF Stages
  <2> QED BY <1>2, <1>8, <1>9, <2>1, SessionStage
<1>11. i.stage <= Top(b)
  BY <1>2, <1>8, <1>9, ReachedIs
<1>12. d.count = c.count + 1 /\ d.count > c.count
  BY <1>1, <1>2, <1>5, <1>6, <1>7, <1>8
<1>13. Held(c, d)
  <2>1. ASSUME d.ceiling # None PROVE d.stage <= d.ceiling
    <3>1. decided.stage = i.stage /\ decided.ceiling = i.ceiling
      BY <1>5, <1>6, <1>7, <2>1
    <3>2. Top(b) = d.ceiling
      BY <1>2, <1>6, <1>7, <2>1, <3>1 DEF Top
    <3>3. d.stage <= i.stage
      BY <1>6, <1>7, <1>8, <3>1
    <3> QED BY <1>8, <1>9, <1>11, <3>2, <3>3
  <2> QED BY <1>12, <2>1 DEF Held
<1>14. Falls(c, d)
  <2>1. d.stage >= decided.stage - 1
    BY <1>6, <1>7, <1>8
  <2>2. CASE decided.stage = i.stage /\ decided.ceiling = i.ceiling
    <3>1. Top(d) = Top(b)
      BY <1>2, <1>6, <1>7, <2>2 DEF Top
    <3> QED BY <1>8, <1>9, <1>10, <2>1, <2>2, <3>1 DEF Falls, AtMost
  <2>3. CASE decided.stage = b.stage + 1
    <3>1. Top(d) \in 2 .. 5
      BY <1>7, TopRange
    <3> QED BY <1>1, <1>8, <2>1, <2>3, <3>1 DEF Falls, AtMost
  <2> QED BY <1>5, <2>2, <2>3
<1>15. Paced(c, d)
  <2>1. f.weight = c.weight
    BY <1>1, <1>2, <1>5, <1>6
  <2>2. c.weight > Absolute /\ 2 * d.trust < TrustOne => Flagged(f)
    BY <1>7, <2>1 DEF Flagged
  <2>3. FlaggedDelta <= MaxDelta /\ FlaggedDelta \in Nat /\ MaxDelta \in Nat
    BY AmountsOK
  <2>4. d.weight \in Int /\ c.weight \in Int
    BY <1>7 DEF Good, CoreOK, CoreRec
  <2>5. f.count = d.count
    BY <1>7
  <2> HIDE DEF Flagged
  <2>6. ASSUME d.weight > c.weight
        PROVE  d.weight - c.weight <= IF c.weight > Absolute /\ 2 * d.trust < TrustOne
                                      THEN FlaggedDelta ELSE MaxDelta
    <3>1. d.weight - c.weight <= IF Flagged(f) THEN FlaggedDelta ELSE MaxDelta
      BY <1>7, <2>1, <2>6
    <3>2. CASE Flagged(f)
      BY <2>3, <2>4, <3>1, <3>2
    <3>3. CASE ~Flagged(f)
      BY <2>2, <3>1, <3>3
    <3> QED BY <3>2, <3>3
  <2>7. ASSUME d.weight > c.weight PROVE d.weight <= d.count * PerSession
    BY <1>7, <2>1, <2>5, <2>7
  <2> QED
    BY <1>12, <2>6, <2>7 DEF Paced
<1>16. Single(c, d)
  <2>1. decided.stage <= c.stage + 1 \/ ~(c.stage >= Reached(c.sig, Intimate))
    BY <1>1, <1>5, <1>8, <1>10
  <2>2. Reached(c.sig, Intimate) \in Int
    BY <1>8, ReachedIs DEF Intimate, Stages
  <2> QED
    BY <1>6, <1>7, <1>8, <2>1, <2>2 DEF Single
<1>17. Good(d) /\ Moves(c, d)
  BY <1>7, <1>13, <1>14, <1>15, <1>16 DEF Moves
<1> QED
  BY <1>17 DEF d, f

LEMMA ErodedLess ==
  ASSUME NEW w \in Nat, NEW e \in Eroded(w)
  PROVE  e \in 0 .. w
<1>1. (99 * w) \div 100 \in 0 .. w
  OBVIOUS
<1>2. (99 * w + 99) \div 100 \in 0 .. w
  OBVIOUS
<1> QED
  BY <1>1, <1>2 DEF Eroded

(***************************************************************************)
(* The inductive invariant                                                 *)
(*                                                                         *)
(* The checked invariants speak of the record in force.  Either file may be  *)
(* the one in force after a factory reset, so both must be good.            *)
(***************************************************************************)

Inv ==
  /\ rel # None => Good(rel)
  /\ legacy # None => Good(legacy)
  /\ away \in 0 .. 2

LEMMA CoreGood == Inv => Good(Core)
BY FreshGood DEF Inv, Core

LEMMA InitInv == Init => Inv
BY LegacyOK DEF Init, Inv, Good, CoreOK

\* Saving puts the record in force.
LEMMA SaveGood ==
  ASSUME NEW c, Good(c), Save(c), away' \in 0 .. 2
  PROVE  Inv' /\ Core' = c
<1>1. c # None
  BY NoneOK DEF Good, CoreOK
<1>2. Good(c)' <=> Good(c)
  BY DEF Good, CoreOK
<1>3. rel' = c /\ legacy' = c
  BY DEF Save
<1>4. Core' = c
  BY <1>1, <1>3 DEF Core
<1>5. Inv'
  BY <1>3 DEF Inv, Good, CoreOK
<1> QED
  BY <1>4, <1>5

LEMMA StepMoves ==
  ASSUME Inv, [Next]_vars
  PROVE  Inv' /\ Moves(Core, Core')
<1> DEFINE c == Core
<1>1. Good(c) /\ away \in 0 .. 2
  BY CoreGood DEF Inv
<1>2. /\ c \in CoreRec /\ c.stage \in Stages /\ c.weight \in Nat /\ c.count \in Nat
      /\ c.weight \in 0 .. WeightOne /\ WeightOne \in Nat /\ c.deltas \in Seq(Int)
      /\ Len(c.deltas) <= Keep
  BY <1>1, AmountsOK DEF Good, CoreOK, CoreRec
<1>3. ASSUME NEW stated \in StatedCeilings, NEW significance \in Significances,
             NEW valence \in {"hostile", "cool", "warm"}, NEW wd \in WeightDeltas \cup {None},
             Reflect(stated, significance, valence, wd)
      PROVE  Inv' /\ Moves(c, c')
  <2> DEFINE before == Stated(c, stated)
  <2>1. PICK decided \in Decisions(before, IncrementSession(before, significance)) :
          Save(Attach(Feel(decided, valence), wd))
    BY <1>3 DEF Reflect
  <2> DEFINE d == Attach(Feel(decided, valence), wd)
  <2>2. significance \in Int /\ wd \in Int \cup {None}
    BY AnswersOK
  <2>3. Good(d) /\ Moves(c, d)
    <3> HIDE DEF c
    <3> QED BY <1>1, <2>1, <2>2, ReflectMoves
  <2>4. away' \in 0 .. 2
    BY <1>3 DEF Reflect
  <2> HIDE DEF d
  <2>5. Save(d)
    BY <2>1 DEF d
  <2>6. Inv' /\ Core' = d
    BY <2>3, <2>4, <2>5, SaveGood
  <2> QED
    BY <2>3, <2>6
<1>4. ASSUME NEW stated \in StatedCeilings, MidReflect(stated)
      PROVE  Inv' /\ Moves(c, c')
  <2> DEFINE d == Stated(c, stated)
  <2>1. Good(d) /\ d.stage = c.stage /\ d.count = c.count /\ d.weight = c.weight
    <3> HIDE DEF c
    <3> QED BY <1>1, StatedGood
  <2>2. Save(d) /\ away' \in 0 .. 2
    BY <1>1, <1>4 DEF MidReflect
  <2> HIDE DEF d
  <2>3. Inv' /\ Core' = d
    BY <2>1, <2>2, SaveGood
  <2>4. Moves(c, d)
    <3> HIDE DEF c
    <3> QED BY <1>1, <1>2, <2>1, Quiet
  <2> QED
    BY <2>3, <2>4
<1>5. ASSUME NEW ceiling \in Ceilings \cup {None}, SetCeiling(ceiling)
      PROVE  Inv' /\ Moves(c, c')
  <2> DEFINE d == [c EXCEPT !.ceiling = ceiling]
  <2>1. Good(d) /\ d.stage = c.stage /\ d.count = c.count /\ d.weight = c.weight
    <3> HIDE DEF c
    <3> QED BY <1>1 DEF Good, CoreOK, CoreRec
  <2>2. Save(d) /\ away' \in 0 .. 2
    BY <1>1, <1>5 DEF SetCeiling
  <2> HIDE DEF d
  <2>3. Inv' /\ Core' = d
    BY <2>1, <2>2, SaveGood
  <2>4. Moves(c, d)
    <3> HIDE DEF c
    <3> QED BY <1>1, <1>2, <2>1, Quiet
  <2> QED
    BY <2>3, <2>4
<1>6. ASSUME NEW release \in Releases, Forget(release)
      PROVE  Inv' /\ Moves(c, c')
  <2> DEFINE weight == AtLeast(0, c.weight - release)
             d == [Fresh EXCEPT !.weight = weight, !.deltas = c.deltas]
  <2>1. release \in Nat
    BY AnswersOK
  <2>2. weight \in 0 .. c.weight /\ weight \in 0 .. WeightOne
    <3> HIDE DEF c
    <3> QED BY <1>2, <2>1 DEF AtLeast
  <2>3. Save(d) /\ away' \in 0 .. 2
    BY <1>6 DEF Forget
  <2> HIDE DEF weight, c
  <2>4. /\ Fresh \in CoreRec /\ Floor[Fresh.stage] <= Fresh.sig
        /\ Fresh.checked = 0 /\ Fresh.count = 0 /\ Fresh.stage = 1
    BY FreshGood DEF Good, CoreOK, Fresh
  <2>5. /\ d \in CoreRec /\ d.stage = Fresh.stage /\ d.sig = Fresh.sig
        /\ d.checked = Fresh.checked /\ d.count = Fresh.count
        /\ d.weight = weight /\ d.deltas = c.deltas
    BY <1>2, <2>2, <2>4 DEF CoreRec
  <2> HIDE DEF d
  <2>6. Good(d)
    BY <1>2, <2>4, <2>5 DEF Good, CoreOK
  <2>7. Inv' /\ Core' = d
    BY <2>3, <2>6, SaveGood
  <2>8. Moves(c, d)
    BY <1>1, <1>2, <2>2, <2>4, <2>5, <2>6, StartingOver
  <2> QED
    BY <2>7, <2>8 DEF c
<1>7. ASSUME TimePasses \/ UNCHANGED vars
      PROVE  Inv' /\ Moves(c, c')
  <2>1. rel' = rel /\ legacy' = legacy /\ away' \in 0 .. 2
    BY <1>1, <1>7 DEF TimePasses, vars
  <2>2. Core' = Core
    BY <2>1 DEF Core
  <2>3. Inv'
    BY <2>1 DEF Inv, Good, CoreOK
  <2>4. Moves(c, c)
    <3> HIDE DEF c
    <3> QED BY <1>1, <1>2, Quiet
  <2> QED
    BY <2>2, <2>3, <2>4
<1>8. ASSUME Drift
      PROVE  Inv' /\ Moves(c, c')
  <2>1. away' \in 0 .. 2
    BY <1>1, <1>8 DEF Drift
  <2>2. CASE c.count = 0
    <3>1. Save(c)
      BY <1>8, <2>2 DEF Drift
    <3>2. Inv' /\ Core' = c
      BY <1>1, <2>1, <3>1, SaveGood
    <3>3. Moves(c, c)
      <4> HIDE DEF c
      <4> QED BY <1>1, <1>2, Quiet
    <3> QED BY <3>2, <3>3
  <2>3. CASE c.count # 0
    <3>1. PICK w \in (IF away >= 1 THEN Eroded(c.weight) ELSE {c.weight}) :
            LET e == [c EXCEPT !.weight = w]
            IN  Save(IF away = 2 THEN RegressStage(e) ELSE e)
      BY <1>8, <2>3 DEF Drift
    <3> DEFINE e == [c EXCEPT !.weight = w]
               d == IF away = 2 THEN RegressStage(e) ELSE e
    <3>2. w \in 0 .. c.weight
      <4>1. CASE away >= 1
        <5> HIDE DEF c
        <5> QED BY <1>2, <4>1, <3>1, ErodedLess
      <4>2. CASE ~(away >= 1)
        <5> HIDE DEF c
        <5> QED BY <1>2, <4>2, <3>1
      <4> QED BY <4>1, <4>2
    <3>3. Save(d)
      BY <3>1
    <3> HIDE DEF c
    <3>4. w \in 0 .. WeightOne
      BY <1>2, <3>2
    <3>5. Good(e) /\ e.stage = c.stage /\ e.count = c.count /\ e.weight = w
      BY <1>1, <3>4 DEF Good, CoreOK, CoreRec
    <3> HIDE DEF e
    <3>6. /\ Good(d) /\ d.stage \in {e.stage, e.stage - 1} /\ d.count = e.count
          /\ d.weight = e.weight
      BY <3>5, RegressGood
    <3> HIDE DEF d
    <3>7. Inv' /\ Core' = d
      BY <2>1, <3>3, <3>6, SaveGood
    <3>8. Moves(c, d)
      BY <1>1, <1>2, <3>2, <3>5, <3>6, Quiet
    <3> QED BY <3>7, <3>8 DEF c
  <2> QED
    BY <2>2, <2>3
<1>9. ASSUME FactoryReset
      PROVE  Inv' /\ Moves(c, c')
  <2>1. legacy' = None /\ away' \in 0 .. 2
    BY <1>1, <1>9 DEF FactoryReset
  <2>2. CASE rel = None
    <3>1. rel' = Fresh /\ Fresh # None
      BY <1>9, <2>2, FreshGood, NoneOK DEF FactoryReset, Good, CoreOK
    <3>2. Inv' /\ Core' = Fresh
      BY <2>1, <3>1, FreshGood DEF Inv, Core, Good, CoreOK
    <3>3. Fresh.count = 0 /\ Fresh.stage = 1 /\ Fresh.weight = 0
      BY DEF Fresh
    <3>4. Moves(c, Fresh)
      <4> HIDE DEF c
      <4> QED BY <1>1, <1>2, <3>3, FreshGood, StartingOver
    <3> QED BY <3>2, <3>4
  <2>3. CASE rel # None
    <3>1. rel' = rel
      BY <1>9, <2>3 DEF FactoryReset
    <3>2. Core' = Core
      BY <2>3, <3>1 DEF Core
    <3>3. Inv'
      BY <2>1, <2>3, <3>1 DEF Inv, Good, CoreOK
    <3>4. Moves(c, c)
      <4> HIDE DEF c
      <4> QED BY <1>1, <1>2, Quiet
    <3> QED BY <3>2, <3>3, <3>4
  <2> QED
    BY <2>2, <2>3
<1> QED
  BY <1>3, <1>4, <1>5, <1>6, <1>7, <1>8, <1>9 DEF Next

LEMMA Invariance == Spec => []Inv
<1>1. Inv /\ [Next]_vars => Inv'
  BY StepMoves
<1> QED
  BY InitInv, <1>1, PTL DEF Spec

(***************************************************************************)
(* Results                                                                 *)
(***************************************************************************)

\* TypeOK holds throughout: whatever handlers run, and in whatever order, both files
\* hold a record in range, with a window no longer than what is kept.
THEOREM TypeCorrect == Spec => []TypeOK
<1>1. Inv => TypeOK
  BY DEF Inv, TypeOK, Good
<1> QED
  BY Invariance, <1>1, PTL

\* StageEarned holds throughout: no session, decision, regression, drift, forgetting or
\* reset leaves the user on a stage whose floor the significance has not reached.
THEOREM Earned == Spec => []StageEarned
<1>1. Inv => StageEarned
  BY CoreGood DEF StageEarned, Good
<1> QED
  BY Invariance, <1>1, PTL

\* DecisionNotStuck holds throughout: forgetting starts the session count over, and
\* the number of the last ceiling decision with it.
THEOREM NotStuck == Spec => []DecisionNotStuck
<1>1. Inv => DecisionNotStuck
  BY CoreGood DEF DecisionNotStuck, Good
<1> QED
  BY Invariance, <1>1, PTL

\* CeilingHeld holds of every step.
THEOREM Ceiling == Spec => CeilingHeld
<1>1. Inv /\ [Next]_vars =>
        [/\ Core'.stage > Core.stage => Core'.count > Core.count
         /\ Core'.count > Core.count /\ Core'.ceiling # None
              => Core'.stage <= Core'.ceiling]_vars
  BY StepMoves DEF Moves, Held
<1> QED
  BY Invariance, <1>1, PTL DEF Spec, CeilingHeld

\* FallsByOne holds of every step: regressions do not add up within one.
THEOREM Falling == Spec => FallsByOne
<1>1. Inv /\ [Next]_vars =>
        [Core'.count = 0 \/ Core'.stage >= AtMost(Top(Core'), Core.stage) - 1]_vars
  BY StepMoves DEF Moves, Falls, Top
<1> QED
  BY Invariance, <1>1, PTL DEF Spec, FallsByOne

\* AttachmentPaced holds of every step, whatever weight deltas are answered.
THEOREM Pacing == Spec => AttachmentPaced
<1>1. Inv /\ [Next]_vars =>
        [Core'.weight > Core.weight =>
           /\ Core'.count > Core.count
           /\ Core'.weight <= Core'.count * PerSession
           /\ Core'.weight - Core.weight <=
                IF Core.weight > Absolute /\ 2 * Core'.trust < TrustOne
                THEN FlaggedDelta ELSE MaxDelta]_vars
  BY StepMoves DEF Moves, Paced
<1> QED
  BY Invariance, <1>1, PTL DEF Spec, AttachmentPaced

\* OneStageAtATime holds of every step, for every table of floors further apart than
\* one session's significance.
THEOREM OneAtATime == Spec => OneStageAtATime
<1>1. Inv /\ [Next]_vars =>
        [Core'.stage <= Core.stage + 1 \/ Core.stage < Reached(Core.sig, Intimate)]_vars
  BY StepMoves DEF Moves, Single
<1> QED
  BY Invariance, <1>1, PTL DEF Spec, OneStageAtATime

================================================================================
