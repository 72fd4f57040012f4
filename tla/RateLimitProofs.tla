--------------------------- MODULE RateLimitProofs ---------------------------
(***************************************************************************)
(* Proofs about the rate limiter: for any rules, keys and window, the list  *)
(* of a key misses no admission of the window, and so no admission makes    *)
(* more of them than its rule allows; and who comes back when a refusal     *)
(* said so is not refused again.                                            *)
(***************************************************************************)
EXTENDS RateLimit, FiniteSetTheorems, SequenceTheorems, WellFoundedInduction, TLAPS

\* Why the list is enough: what it misses of the log is older than the window,
\* and stays so as the clock does not go back.
RLInv ==
  /\ rlClock \in 0..MaxTicks
  /\ log \in Seq(Admission)
  /\ hits \in [Keys -> SUBSET (1..Len(log))]
  /\ \A n \in 1..Len(log) : log[n].at <= rlClock
  /\ \A n \in 1..Len(log) : n \in hits[log[n].key] \/ log[n].at < rlClock - Span
  /\ Budget

LEMMA SpanType == Span \in Nat
<1>1. \A x, y \in Nat : x * y \in Nat
  OBVIOUS
<1> QED BY <1>1, RulesOK DEF Span

LEMMA LogTyped ==
  ASSUME RLInv
  PROVE  /\ Len(log) \in Nat /\ rlClock \in Nat
         /\ \A n \in 1..Len(log) : log[n] \in Admission /\ log[n].key \in Keys /\ log[n].at \in Nat
<1>1. log \in Seq(Admission) /\ rlClock \in Nat
  BY RulesOK DEF RLInv
<1>2. Len(log) \in Nat /\ \A n \in 1..Len(log) : log[n] \in Admission
  BY <1>1, ElementOfSeq, LenProperties
<1>3. \A a \in Admission : a.key \in Keys /\ a.at \in Nat
  BY RulesOK DEF Admission
<1> QED BY <1>1, <1>2, <1>3

LEMMA RLInitInv == RLInit => RLInv
<1> SUFFICES ASSUME RLInit PROVE RLInv
  OBVIOUS
<1>1. log = <<>> /\ Len(log) = 0 /\ log \in Seq(Admission)
  BY DEF RLInit
<1> QED BY <1>1, RulesOK DEF RLInit, RLInv, Budget

\* Pruning drops only what the window does not have.
LEMMA FreshKeeps ==
  ASSUME RLInv, NEW key \in Keys
  PROVE  /\ Fresh(key) \subseteq hits[key] /\ Fresh(key) \subseteq 1..Len(log)
         /\ IsFiniteSet(Fresh(key)) /\ Cardinality(Fresh(key)) \in Nat
         /\ \A n \in 1..Len(log) : log[n].key = key =>
              n \in Fresh(key) \/ log[n].at < rlClock - Span
<1>1. Fresh(key) \subseteq hits[key] /\ Fresh(key) \subseteq 1..Len(log)
  BY DEF Fresh, RLInv
<1>2. IsFiniteSet(Fresh(key)) /\ Cardinality(Fresh(key)) \in Nat
  <2>1. IsFiniteSet(1..Len(log))
    BY LogTyped, FS_Interval
  <2>2. IsFiniteSet(Fresh(key))
    BY <1>1, <2>1, FS_Subset
  <2> QED BY <2>2, FS_CardinalityType
<1>3. ASSUME NEW n \in 1..Len(log), log[n].key = key, n \notin Fresh(key)
      PROVE  log[n].at < rlClock - Span
  <2>1. log[n].at \in Int /\ rlClock \in Int
    BY LogTyped
  <2> QED BY <1>3, <2>1, SpanType DEF Fresh, RLInv
<1> QED BY <1>1, <1>2, <1>3

\* The window of an admission depends on the log up to it, and no more.
LEMMA SameWindow ==
  ASSUME NEW l \in Seq(Admission), NEW e \in Admission, log = l, log' = Append(l, e),
         NEW n \in 1..Len(l)
  PROVE  InWindow(n)' = InWindow(n) /\ log'[n] = log[n]
<1>1. \A m \in 1..Len(l) : log'[m] = log[m]
  BY AppendProperties
<1>2. \A m \in 1..n : m \in 1..Len(l)
  BY LenProperties
<1> QED BY <1>1, <1>2 DEF InWindow

LEMMA AdmitInv ==
  ASSUME RLInv, NEW path \in Paths, NEW ip \in Ips, NEW user \in Users \cup {Nobody},
         Admit(path, ip, user)
  PROVE  RLInv'
<1> DEFINE key == Key(path, ip, user)
           n == Len(log) + 1
           e == [key |-> key, path |-> path, at |-> rlClock]
<1>1. key \in Keys
  BY DEF Key, Keys
<1>2. /\ log' = Append(log, e) /\ hits' = [hits EXCEPT ![key] = Fresh(key) \cup {n}]
      /\ Cardinality(Fresh(key)) < MaxHits[path] /\ UNCHANGED rlClock
  BY DEF Admit
<1>3. /\ Len(log) \in Nat /\ log \in Seq(Admission) /\ rlClock \in 0..MaxTicks
      /\ hits \in [Keys -> SUBSET (1..Len(log))]
  BY LenProperties DEF RLInv
<1>4. e \in Admission
  BY <1>1, <1>3 DEF Admission
<1> HIDE DEF key, e
<1>5. /\ log' \in Seq(Admission) /\ Len(log') = n /\ log'[n] = e
      /\ \A m \in 1..Len(log) : log'[m] = log[m]
  BY <1>2, <1>3, <1>4, AppendProperties
<1>6. hits' \in [Keys -> SUBSET (1..Len(log'))]
  <2>1. Fresh(key) \cup {n} \in SUBSET (1..n)
    BY <1>1, <1>3, FreshKeeps
  <2>2. \A k \in Keys : hits[k] \in SUBSET (1..n)
    BY <1>3
  <2> QED BY <1>2, <1>3, <1>5, <2>1, <2>2
<1>7. e.key = key /\ e.path = path /\ e.at = rlClock
  BY DEF e
<1>8. \A m \in 1..Len(log') : log'[m].at <= rlClock'
  <2>1. \A m \in 1..n : m \in 1..Len(log) \/ m = n
    BY <1>3
  <2> QED BY <1>2, <1>3, <1>5, <1>7, <2>1 DEF RLInv
<1>9. ASSUME NEW m \in 1..Len(log')
      PROVE  m \in hits'[log'[m].key] \/ log'[m].at < rlClock' - Span'
  <2>0. Span' = Span
    BY DEF Span
  <2>1. CASE m = n
    BY <1>1, <1>2, <1>3, <1>5, <1>7, <2>1
  <2>2. CASE m \in 1..Len(log)
    <3>1. log'[m] = log[m] /\ log[m].key \in Keys
      BY <1>5, <2>2, LogTyped
    <3>2. CASE log[m].key = key
      BY <1>1, <1>2, <1>3, <2>0, <2>2, <3>1, <3>2, FreshKeeps
    <3>3. CASE log[m].key # key
      BY <1>1, <1>2, <1>3, <2>0, <2>2, <3>1, <3>3 DEF RLInv
    <3> QED BY <3>2, <3>3
  <2> QED BY <1>3, <1>5, <2>1, <2>2
<1>10. ASSUME NEW m \in 1..Len(log')
       PROVE  Cardinality(InWindow(m)') <= MaxHits[log'[m].path]
  <2>1. CASE m \in 1..Len(log)
    BY <1>2, <1>3, <1>4, <2>1, SameWindow DEF RLInv, Budget
  <2>2. CASE m = n
    <3>1. InWindow(m)' \subseteq Fresh(key) \cup {n}
      <4> SUFFICES ASSUME NEW k \in InWindow(m)', k # n
                   PROVE  k \in Fresh(key)
        OBVIOUS
      <4>1. k \in 1..Len(log) /\ log'[k] = log[k]
        BY <1>3, <1>5, <2>2 DEF InWindow
      <4>2. log[k].key = key /\ log[k].at >= rlClock - Span
        BY <1>5, <1>7, <2>2, <4>1 DEF InWindow, Span
      <4>3. log[k].at \in Int /\ rlClock \in Int
        BY <4>1, LogTyped
      <4> QED BY <1>1, <4>1, <4>2, <4>3, SpanType, FreshKeeps
    <3>2. IsFiniteSet(Fresh(key)) /\ Cardinality(Fresh(key)) \in Nat /\ n \notin Fresh(key)
      BY <1>1, <1>3, FreshKeeps
    <3>3. /\ IsFiniteSet(Fresh(key) \cup {n})
          /\ Cardinality(Fresh(key) \cup {n}) = Cardinality(Fresh(key)) + 1
      BY <3>2, FS_AddElement
    <3>4. Cardinality(InWindow(m)') <= Cardinality(Fresh(key)) + 1
          /\ Cardinality(InWindow(m)') \in Nat
      BY <3>1, <3>3, FS_Subset, FS_CardinalityType
    <3>5. MaxHits[path] \in Nat /\ log'[m].path = path
      BY <1>5, <1>7, <2>2, RulesOK
    <3> QED BY <1>2, <3>2, <3>4, <3>5
  <2> QED BY <1>3, <1>5, <2>1, <2>2
<1> QED BY <1>2, <1>3, <1>5, <1>6, <1>8, <1>9, <1>10 DEF RLInv, Budget

\* A list that is only pruned still misses nothing of the window.
LEMMA RefuseInv ==
  ASSUME RLInv, NEW path \in Paths, NEW ip \in Ips, NEW user \in Users \cup {Nobody},
         Refuse(path, ip, user)
  PROVE  RLInv'
<1> DEFINE key == Key(path, ip, user)
<1>1. key \in Keys
  BY DEF Key, Keys
<1>2. hits' = [hits EXCEPT ![key] = Fresh(key)] /\ UNCHANGED <<rlClock, log>>
  BY DEF Refuse
<1> HIDE DEF key
<1>3. hits' \in [Keys -> SUBSET (1..Len(log))]
  BY <1>1, <1>2, FreshKeeps DEF RLInv
<1>4. ASSUME NEW m \in 1..Len(log)
      PROVE  m \in hits'[log[m].key] \/ log[m].at < rlClock - Span
  <2>1. log[m].key \in Keys
    BY LogTyped
  <2>2. CASE log[m].key = key
    BY <1>1, <1>2, <2>2, FreshKeeps DEF RLInv
  <2>3. CASE log[m].key # key
    BY <1>1, <1>2, <2>1, <2>3 DEF RLInv
  <2> QED BY <2>2, <2>3
<1>5. Budget'
  BY <1>2 DEF RLInv, Budget, InWindow, Span
<1> QED BY <1>2, <1>3, <1>4, <1>5 DEF RLInv, Span

LEMMA RLTickInv == ASSUME RLInv, RLTick PROVE RLInv'
<1>1. /\ rlClock \in 0..MaxTicks /\ MaxTicks \in Nat /\ rlClock' = rlClock + 1
      /\ rlClock < MaxTicks /\ UNCHANGED <<hits, log>>
  BY RulesOK DEF RLInv, RLTick
<1>2. \A n \in 1..Len(log) : log[n].at \in Int
  BY LogTyped
<1>3. Budget'
  BY <1>1 DEF RLInv, Budget, InWindow, Span
<1>4. \A n \in 1..Len(log) : log[n].at <= rlClock'
  BY <1>1, <1>2 DEF RLInv
<1>5. \A n \in 1..Len(log) : n \in hits[log[n].key] \/ log[n].at < rlClock' - Span
  BY <1>1, <1>2, SpanType DEF RLInv
<1> QED BY <1>1, <1>3, <1>4, <1>5 DEF RLInv, Span

LEMMA RLStepInv == ASSUME RLInv, [RLNext]_rlVars PROVE RLInv'
<1>1. ASSUME NEW path \in Paths, NEW ip \in Ips, NEW user \in Users \cup {Nobody},
             Dispatch(path, ip, user)
      PROVE  RLInv'
  <2>1. CASE PassThrough(path)
    BY <2>1 DEF PassThrough, RLInv, Budget, InWindow, Span
  <2> QED BY <1>1, <2>1, AdmitInv, RefuseInv DEF Dispatch
<1>2. CASE UNCHANGED rlVars
  BY <1>2 DEF rlVars, RLInv, Budget, InWindow, Span
<1> QED BY <1>1, <1>2, RLTickInv DEF RLNext

(* _check_rate_limit, for any rules over any keys: no admission makes more  *)
(* of them for its key than its rule allows in the window that ends with    *)
(* it, although the list it counts is pruned as requests come, under        *)
(* whichever rule, and never otherwise.                                     *)
THEOREM WithinBudget == RLSpec => []Budget
<1>1. RLInv => Budget
  BY DEF RLInv
<1> QED
  BY RLInitInv, RLStepInv, <1>1, PTL DEF RLSpec

(***************************************************************************)
(* What a refusal says                                                     *)
(***************************************************************************)

LEMMA OldestFirst ==
  ASSUME NEW S \in SUBSET Nat, S # {}
  PROVE  Oldest(S) \in S /\ \A n \in S : Oldest(S) <= n
<1> DEFINE R == {p \in Nat \X Nat : p[1] < p[2]}
<1>1. IsWellFoundedOn(R, Nat)
  BY NatLessThanWellFounded DEF OpToRel
<1>2. \A x, y \in Nat : x < y => <<x, y>> \in R
  OBVIOUS
<1> HIDE DEF R
<1>3. PICK x \in S : \A y \in S : ~(<<y, x>> \in R)
  BY <1>1, WFMin
<1>4. ASSUME NEW y \in S PROVE x <= y
  <2>1. x \in Nat /\ y \in Nat
    OBVIOUS
  <2>2. y < x => <<y, x>> \in R
    BY <1>2, <2>1
  <2>3. ~(y < x)
    BY <1>3, <2>2
  <2> QED BY <2>1, <2>3
<1> QED BY <1>3, <1>4 DEF Oldest

\* Rounding down and adding one is more than what was rounded.
LEMMA RoundedUp ==
  ASSUME NEW x \in Int, NEW d \in Nat \ {0}
  PROVE  x \div d \in Int /\ (x \div d + 1) * d \in Int /\ x < (x \div d + 1) * d
<1>1. x \div d \in Int
  OBVIOUS
<1>2. x = d * (x \div d) + (x % d) /\ x % d \in 0..(d - 1)
  OBVIOUS
<1>3. ASSUME NEW q \in Int PROVE (q + 1) * d = d * q + d /\ (q + 1) * d \in Int /\ d * q \in Int
  BY <1>3
<1> QED BY <1>1, <1>2, <1>3

\* The last refusal was of a key whose list has not changed since: it is as long
\* as the refusal said, and its oldest hit is out of the window at the hour given.
Promise ==
  /\ answer.full => Cardinality(hits[answer.key]) = MaxHits[answer.path]
  /\ \E n \in hits[answer.key] : log[n].at + Span < answer.until

AnswerInv == RLInv /\ (answer = NoRefusal \/ (answer \in Refusal /\ Promise))

LEMMA NoRefusalInv == ASSUME RLInv', answer' = NoRefusal PROVE AnswerInv'
BY DEF AnswerInv, NoRefusal

LEMMA RefuseAnswer ==
  ASSUME AnswerInv, NEW path \in Paths, NEW ip \in Ips, NEW user \in Users \cup {Nobody},
         Refuse(path, ip, user)
  PROVE  AnswerInv'
<1>0. RLInv /\ RLInv'
  BY RefuseInv DEF AnswerInv
<1>1. PICK key \in Keys : key = Key(path, ip, user)
  BY DEF Key, Keys
<1>2. PICK F \in SUBSET (1..Len(log)) : F = Fresh(key) /\ IsFiniteSet(F) /\ Cardinality(F) \in Nat
  BY <1>0, FreshKeeps
<1>3. PICK first : first = Oldest(F)
  OBVIOUS
<1>4. PICK retry : retry = Retry(first)
  OBVIOUS
<1> DEFINE a == [refused |-> TRUE, key |-> key, path |-> path, retry |-> retry,
                 until |-> rlClock + retry * TicksPerSecond,
                 full |-> Cardinality(F) = MaxHits[path], n |-> Len(log)]
<1>5. /\ Cardinality(F) >= MaxHits[path] /\ hits' = [hits EXCEPT ![key] = F]
      /\ answer' = a /\ UNCHANGED <<rlClock, log>>
  BY <1>1, <1>2, <1>3, <1>4 DEF Refuse
<1>6. Len(log) \in Nat /\ rlClock \in Nat /\ hits \in [Keys -> SUBSET (1..Len(log))]
  BY <1>0, LogTyped DEF RLInv
<1>7. first \in F
  <2>1. F # {}
    <3>1. MaxHits[path] \in Nat /\ MaxHits[path] # 0
      BY RulesOK
    <3>2. Cardinality(F) # 0
      BY <1>2, <1>5, <3>1
    <3> QED BY <3>2, FS_EmptySet
  <2>2. F \in SUBSET Nat
    BY <1>6
  <2> QED BY <1>3, <2>1, <2>2, OldestFirst
<1>8. log[first].at \in Int /\ Span \in Int /\ TicksPerSecond \in Nat \ {0}
  <2>1. log[first].at \in Int
    BY <1>0, <1>7, LogTyped
  <2> QED BY <2>1, SpanType, RulesOK
<1>9. /\ retry \in Int /\ retry * TicksPerSecond \in Int
      /\ Span - (rlClock - log[first].at) < retry * TicksPerSecond
  <2> DEFINE x == Span - (rlClock - log[first].at)
  <2>1. x \in Int /\ retry = x \div TicksPerSecond + 1
    BY <1>4, <1>6, <1>8 DEF Retry
  <2> HIDE DEF x
  <2>2. x \div TicksPerSecond \in Int /\ retry * TicksPerSecond \in Int /\ x < retry * TicksPerSecond
    BY <1>8, <2>1, RoundedUp
  <2>3. retry \in Int
    BY <2>1, <2>2
  <2> QED BY <2>2, <2>3 DEF x
<1>10. PICK wait \in Int : wait = retry * TicksPerSecond /\ Span - (rlClock - log[first].at) < wait
  BY <1>9
<1>11. PICK full \in BOOLEAN : full = (Cardinality(F) = MaxHits[path])
  OBVIOUS
<1>12. a = [refused |-> TRUE, key |-> key, path |-> path, retry |-> retry,
            until |-> rlClock + wait, full |-> full, n |-> Len(log)]
  BY <1>10, <1>11
<1> HIDE DEF a
<1>13. a \in Refusal
  BY <1>6, <1>9, <1>12 DEF Refusal
<1>14. a.key = key /\ a.path = path /\ a.until = rlClock + wait /\ a.full = full
  BY <1>12
<1>15. hits'[key] = F
  BY <1>5, <1>6
<1>16. log[first].at + Span < a.until
  BY <1>6, <1>8, <1>10, <1>14
<1>17. Promise'
  <2>1. answer'.full => Cardinality(hits'[answer'.key]) = MaxHits[answer'.path]
    BY <1>5, <1>11, <1>14, <1>15
  <2>2. \E n \in hits'[answer'.key] : log'[n].at + Span < answer'.until
    BY <1>5, <1>7, <1>14, <1>15, <1>16
  <2> QED BY <2>1, <2>2 DEF Promise, Span
<1> QED BY <1>0, <1>5, <1>13, <1>17 DEF AnswerInv

LEMMA AnswerStep == ASSUME AnswerInv, [RLNext]_rlVars PROVE AnswerInv'
<1>1. RLInv'
  BY RLStepInv DEF AnswerInv
<1>2. ASSUME NEW path \in Paths, NEW ip \in Ips, NEW user \in Users \cup {Nobody},
             Dispatch(path, ip, user)
      PROVE  AnswerInv'
  <2>1. CASE PassThrough(path)
    BY <1>1, <2>1, NoRefusalInv DEF PassThrough
  <2>2. CASE Admit(path, ip, user)
    BY <1>1, <2>2, NoRefusalInv DEF Admit
  <2> QED BY <1>2, <2>1, <2>2, RefuseAnswer DEF Dispatch
<1>3. ASSUME UNCHANGED <<hits, log, answer>> PROVE AnswerInv'
  BY <1>1, <1>3 DEF AnswerInv, Promise, Span
<1> QED BY <1>2, <1>3 DEF RLNext, RLTick, rlVars

LEMMA AnswerInit == RLInit => AnswerInv
BY RLInitInv DEF RLInit, AnswerInv

LEMMA AnswerFields ==
  ASSUME AnswerInv, answer.refused
  PROVE  answer.key \in Keys /\ answer.path \in Paths /\ answer.until \in Int /\ Promise
<1>1. answer # NoRefusal
  BY DEF NoRefusal
<1>2. answer \in Refusal /\ Promise
  BY <1>1 DEF AnswerInv
<1> HIDE DEF Promise
<1> QED BY <1>2 DEF Refusal

\* At the hour given the list of the key has lost its oldest hit to the window.
LEMMA WaitedLongEnough ==
  ASSUME AnswerInv, answer.refused, answer.full, rlClock >= answer.until
  PROVE  Cardinality(Fresh(answer.key)) < MaxHits[answer.path]
<1>0. RLInv /\ answer.key \in Keys /\ answer.path \in Paths /\ answer.until \in Int
  BY AnswerFields DEF AnswerInv
<1>1. PICK key \in Keys, path \in Paths, until \in Int :
        answer.key = key /\ answer.path = path /\ answer.until = until
  BY <1>0
<1>2. PICK n \in hits[key] : log[n].at + Span < until
  BY <1>1, AnswerFields DEF Promise
<1>3. Cardinality(hits[key]) = MaxHits[path]
  BY <1>1, AnswerFields DEF Promise
<1>4. /\ hits[key] \subseteq 1..Len(log) /\ Len(log) \in Nat /\ rlClock \in Int
      /\ log[n].at \in Int /\ Span \in Int
  <2>1. hits[key] \subseteq 1..Len(log)
    BY <1>0 DEF RLInv
  <2>2. Len(log) \in Nat /\ rlClock \in Int /\ log[n].at \in Int
    BY <1>0, <2>1, LogTyped
  <2> QED BY <2>1, <2>2, SpanType
<1>5. IsFiniteSet(hits[key])
  <2>1. IsFiniteSet(1..Len(log))
    BY <1>4, FS_Interval
  <2> QED BY <1>4, <2>1, FS_Subset
<1>6. ~(log[n].at >= rlClock - Span)
  BY <1>1, <1>2, <1>4
<1>7. Fresh(key) \subseteq hits[key] \ {n}
  BY <1>6 DEF Fresh
<1>8. IsFiniteSet(hits[key] \ {n}) /\ Cardinality(hits[key] \ {n}) = Cardinality(hits[key]) - 1
  BY <1>2, <1>5, FS_RemoveElement
<1>9. Cardinality(Fresh(key)) <= Cardinality(hits[key] \ {n}) /\ Cardinality(Fresh(key)) \in Nat
  <2>1. Cardinality(Fresh(key)) <= Cardinality(hits[key] \ {n})
    BY <1>7, <1>8, FS_Subset
  <2> QED BY <2>1, <1>0, FreshKeeps
<1>10. MaxHits[path] \in Nat
  BY RulesOK
<1> QED BY <1>1, <1>3, <1>8, <1>9, <1>10

(* Retry-After, for any rules over any keys: who waits as long as a refusal *)
(* said is not refused again, if nothing was admitted in between.  The hour *)
(* a refusal gives is after its oldest hit left the window, rounding to     *)
(* whole seconds included, and one hit less is one admission more.          *)
THEOREM RetryIsHonest == RLSpec => RetryHonest
<1>1. ASSUME AnswerInv, [RLNext]_rlVars,
             answer.refused, answer.full, rlClock >= answer.until,
             answer'.refused, answer' # answer,
             answer'.key = answer.key, answer'.path = answer.path
      PROVE  FALSE
  <2>1. PICK path \in Paths, ip \in Ips, user \in Users \cup {Nobody} : Dispatch(path, ip, user)
    BY <1>1 DEF RLNext, RLTick, rlVars
  <2>2. Refuse(path, ip, user)
    BY <1>1, <2>1 DEF Dispatch, Admit, PassThrough, NoRefusal
  <2>3. /\ answer'.key = Key(path, ip, user) /\ answer'.path = path
        /\ Cardinality(Fresh(Key(path, ip, user))) >= MaxHits[path]
    BY <2>2 DEF Refuse
  <2>4. Cardinality(Fresh(answer.key)) < MaxHits[answer.path]
    BY <1>1, WaitedLongEnough
  <2>5. PICK key \in Keys : key = answer.key
    BY <1>1, AnswerFields
  <2>6. Cardinality(Fresh(key)) \in Nat /\ MaxHits[path] \in Nat
    <3>1. Cardinality(Fresh(key)) \in Nat
      BY <1>1, FreshKeeps DEF AnswerInv
    <3> QED BY <3>1, RulesOK
  <2>7. Cardinality(Fresh(key)) >= MaxHits[path] /\ Cardinality(Fresh(key)) < MaxHits[path]
    BY <1>1, <2>3, <2>4, <2>5
  <2> QED BY <2>6, <2>7
<1>2. AnswerInv /\ [RLNext]_rlVars =>
        [~(/\ answer.refused /\ answer.full /\ rlClock >= answer.until /\ answer.n = Len(log)
           /\ answer'.refused /\ answer' # answer
           /\ answer'.key = answer.key /\ answer'.path = answer.path)]_rlVars
  BY <1>1
<1> QED BY AnswerInit, AnswerStep, <1>2, PTL DEF RLSpec, RetryHonest

(* The limiter's state is what its rules make of it: a list holds numbers   *)
(* of admissions there were, an answer is a refusal or none.                *)
THEOREM RLTypeCorrect == RLSpec => []RLTypeOK
<1>1. AnswerInv => RLTypeOK
  BY DEF AnswerInv, RLInv, RLTypeOK
<1> QED BY AnswerInit, AnswerStep, <1>1, PTL DEF RLSpec
==============================================================================
