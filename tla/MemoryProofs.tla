----------------------------- MODULE MemoryProofs -----------------------------
(***************************************************************************)
(* Proofs about what is remembered and told.  For any number of requests,   *)
(* one of them at a time writes the letter; what was to be forgotten is     *)
(* gone, whatever interrupts the forgetting, but for what a job under way   *)
(* puts back; the graph has one current fact of a category and its          *)
(* contradictions speak of the past, whatever cuts an add short, but for    *)
(* adds of two reflections that cross; the facts in use never contradict    *)
(* each other across merges, and a retired one has a successor, however the *)
(* jobs overlap.  Then all of this, and the outreach, of the five together. *)
(***************************************************************************)
EXTENDS MCMemory, OutreachProofs, SequenceTheorems, FiniteSetTheorems,
        WellFoundedInduction, TLAPS

(***************************************************************************)
(* The letter                                                              *)
(***************************************************************************)

LetterInv == LetterTypeOK /\ OneGeneration

ReaderAt == [pc : {"stale", "asking", "leaving"}, trust : Trusts]

\* What a request remembers is replaced or keeps its type as it moves on.
LEMMA ReaderMoves ==
  ASSUME NEW f \in [Readers -> ReaderAt \cup {Gone}], NEW r \in Readers,
         NEW p \in {"stale", "asking", "leaving"}, f[r].pc # "idle"
  PROVE  /\ f[r] \in ReaderAt
         /\ [f EXCEPT ![r].pc = p] \in [Readers -> ReaderAt \cup {Gone}]
         /\ [f EXCEPT ![r].pc = p][r].pc = p
<1>1. f[r] # Gone
  BY DEF Gone
<1>2. f[r] \in ReaderAt
  BY <1>1
<1>3. [f[r] EXCEPT !.pc = p] \in ReaderAt /\ [f[r] EXCEPT !.pc = p].pc = p
  BY <1>2 DEF ReaderAt
<1>4. [f EXCEPT ![r].pc = p] = [x \in Readers |-> IF x = r THEN [f[r] EXCEPT !.pc = p] ELSE f[x]]
  OBVIOUS
<1> HIDE DEF ReaderAt
<1> QED
  BY <1>2, <1>3, <1>4

LEMMA LetterInitInv == LetterInit => LetterInv
<1> SUFFICES ASSUME LetterInit PROVE LetterInv
  OBVIOUS
<1>1. Busy = {}
  BY DEF LetterInit, Busy, Gone
<1>2. LetterTypeOK
  BY DEF LetterInit, LetterTypeOK
<1> QED BY <1>1, <1>2 DEF LetterInit, LetterInv, OneGeneration

\* The holder of the claim is the busy one: it is put in the set as it becomes
\* busy, and taken out as it stops, whichever way it does.
LEMMA LetterStep ==
  ASSUME LetterInv, [LetterNext]_letterVars
  PROVE  LetterInv'
<1> USE LetterOK DEF LetterInv
<1>0. reader \in [Readers -> ReaderAt \cup {Gone}]
  BY DEF LetterTypeOK, ReaderAt
<1>1. ASSUME NEW r \in Readers, Look(r) PROVE LetterInv'
  <2>0. trust \in Trusts /\ UNCHANGED <<trust, letter, generating>>
    BY <1>1 DEF Look, LetterTypeOK
  <2>1. [pc |-> "stale", trust |-> trust] \in ReaderAt
    BY <2>0 DEF ReaderAt
  <2>2. reader' \in [Readers -> ReaderAt \cup {Gone}]
    BY <1>0, <1>1, <2>1 DEF Look
  <2>3. Busy' = Busy
    BY <1>0, <1>1 DEF Look, Busy, Gone
  <2> QED BY <1>1, <2>2, <2>3 DEF Look, LetterTypeOK, OneGeneration, ReaderAt
<1>2. ASSUME NEW r \in Readers, Claim(r) PROVE LetterInv'
  <2>1. CASE generating
    <3>1. reader' \in [Readers -> ReaderAt \cup {Gone}]
      BY <1>0, <1>2, <2>1 DEF Claim
    <3>2. Busy' = Busy
      BY <1>0, <1>2, <2>1 DEF Claim, Busy, Gone
    <3> QED BY <1>2, <2>1, <3>1, <3>2 DEF Claim, LetterTypeOK, OneGeneration, ReaderAt
  <2>2. CASE ~generating
    <3>0. reader' = [reader EXCEPT ![r].pc = "asking"] /\ reader[r].pc # "idle"
      BY <1>2, <2>2 DEF Claim
    <3>1. /\ reader' \in [Readers -> ReaderAt \cup {Gone}]
          /\ reader'[r].pc = "asking"
      BY <1>0, <3>0, ReaderMoves
    <3>2. Busy = {}
      BY <2>2 DEF OneGeneration
    <3>3. Busy' = {r}
      BY <1>0, <1>2, <2>2, <3>1, <3>2 DEF Claim, Busy
    <3>4. generating' /\ generating' \in BOOLEAN /\ UNCHANGED <<trust, letter>>
      BY <1>2, <2>2 DEF Claim
    <3>5. LetterTypeOK'
      BY <3>1, <3>4 DEF LetterTypeOK, ReaderAt
    <3> QED BY <3>3, <3>4, <3>5 DEF OneGeneration
  <2> QED BY <2>1, <2>2
<1>3. ASSUME NEW r \in Readers, KeepLetter(r) \/ LetterFails(r) PROVE LetterInv'
  <2>0. reader' = [reader EXCEPT ![r].pc = "leaving"] /\ reader[r].pc # "idle"
    BY <1>3 DEF KeepLetter, LetterFails
  <2>1. /\ reader' \in [Readers -> ReaderAt \cup {Gone}]
        /\ reader'[r].pc = "leaving"
        /\ reader[r] \in ReaderAt
    BY <1>0, <2>0, ReaderMoves
  <2>2. Busy' = Busy
    BY <1>0, <1>3, <2>1 DEF KeepLetter, LetterFails, Busy
  <2>3. letter' \in [age : 0..MaxAge, trust : Trusts] \cup {NoLetter}
    BY <1>3, <2>1 DEF KeepLetter, LetterFails, LetterTypeOK, ReaderAt
  <2> QED
    BY <1>3, <2>1, <2>2, <2>3 DEF KeepLetter, LetterFails, LetterTypeOK, OneGeneration, ReaderAt
<1>4. ASSUME NEW r \in Readers, GiveUpClaim(r) PROVE LetterInv'
  <2>1. reader' \in [Readers -> ReaderAt \cup {Gone}]
    BY <1>0, <1>4 DEF GiveUpClaim
  <2>2. r \in Busy
    BY <1>4 DEF GiveUpClaim, Busy
  <2>3. Busy' = {}
    BY <1>0, <1>4, <2>2 DEF GiveUpClaim, Busy, OneGeneration, Gone
  <2> QED BY <1>4, <2>1, <2>3 DEF GiveUpClaim, LetterTypeOK, OneGeneration, ReaderAt
<1>5. ASSUME NEW t \in Trusts, TrustMoves(t) PROVE LetterInv'
  BY <1>5 DEF TrustMoves, LetterTypeOK, OneGeneration, Busy
<1>6. CASE LetterAges
  <2>1. letter' \in [age : 0..MaxAge, trust : Trusts]
    BY <1>6 DEF LetterAges, LetterTypeOK
  <2> QED BY <1>6, <2>1 DEF LetterAges, LetterTypeOK, OneGeneration, Busy
<1>7. CASE LetterDeleted
  BY <1>7 DEF LetterDeleted, LetterTypeOK, OneGeneration, Busy
<1>8. CASE LetterRestart
  <2>1. Busy' = {}
    BY <1>8 DEF LetterRestart, Busy, Gone
  <2> QED BY <1>8, <2>1 DEF LetterRestart, LetterTypeOK, OneGeneration
<1>9. CASE UNCHANGED letterVars
  BY <1>9 DEF letterVars, LetterTypeOK, OneGeneration, Busy
<1> QED
  BY <1>1, <1>2, <1>3, <1>4, <1>5, <1>6, <1>7, <1>8, <1>9 DEF LetterNext

(* get_letter: however many requests find the letter stale, and whatever    *)
(* fails, one at a time asks the model, and the claim is held exactly while *)
(* one does.                                                                *)
THEOREM LetterOnce == LetterSpec => []OneGeneration
<1>1. LetterInv => OneGeneration
  BY DEF LetterInv
<1> QED
  BY LetterInitInv, LetterStep, <1>1, PTL DEF LetterSpec

(* Every variable of the letter keeps its type.                             *)
THEOREM LetterTypes == LetterSpec => []LetterTypeOK
<1>1. LetterInv => LetterTypeOK
  BY DEF LetterInv
<1> QED
  BY LetterInitInv, LetterStep, <1>1, PTL DEF LetterSpec

(***************************************************************************)
(* Forgetting                                                              *)
(***************************************************************************)

Spared == failed \cup rewritten
Clean == \A s \in Stores \ Spared : "old" \notin data[s]
CoreClean(held, spared) == \A p \in Parts \ (spared \cup {"bond"}) : "old" \notin held[p]
MindClean == "core" \in rewritten \/ CoreClean(mind, kept)
Pending(left, s) == \E i \in 1..Len(left) : left[i] = s

\* Why the marker tells: it is there throughout, what is not deleted yet is
\* still to be deleted, nothing is granted before the end, and a job that
\* begins after the end finds nothing of it in the core.
ForgetInv ==
  /\ ForgetTypeOK
  /\ forget.pc \in {"complete", "delete", "decide", "unmark"} => marker
  /\ forget.pc \in {"complete", "delete"} =>
       \A s \in Stores \ Spared : "old" \in data[s] => Pending(forget.left, s)
  /\ forget.pc = "unmark" => Clean /\ MindClean
  /\ forget.pc # "idle" => ~granted /\ \A j \in Jobs : busy[j].age # "new"
  /\ marker \/ Clean
  /\ granted => MindClean
  /\ granted /\ "core" \notin rewritten =>
       \A j \in Jobs : busy[j].age = "new" => CoreClean(busy[j].core, kept)

LEMMA ForgetInitInv == ForgetInit => ForgetInv
<1> SUFFICES ASSUME ForgetInit PROVE ForgetInv
  OBVIOUS
<1>1. data \in [Stores -> SUBSET Ages] /\ mind \in Mind /\ Clean
  BY StoresOK DEF ForgetInit, Ages, Clean, Mind
<1>2. busy = [j \in Jobs |-> NoJob] /\ forget = Quiet /\ ~granted /\ marker = FALSE /\ granted = FALSE
      /\ failed = {} /\ rewritten = {} /\ kept = {}
  BY DEF ForgetInit
<1>3. ForgetTypeOK
  BY <1>1, <1>2 DEF ForgetTypeOK, Quiet
<1> HIDE DEF Clean, ForgetTypeOK
<1> QED BY <1>1, <1>2, <1>3 DEF ForgetInv, Quiet

\* The store at the head is the next; the others wait in the tail.
LEMMA NextOne ==
  ASSUME NEW left \in Seq(Stores), left # <<>>
  PROVE  /\ Head(left) \in Stores /\ Tail(left) \in Seq(Stores)
         /\ \A s \in Stores : Pending(left, s) => s = Head(left) \/ Pending(Tail(left), s)
<1>1. Head(left) \in Stores /\ Tail(left) \in Seq(Stores)
  BY HeadTailProperties
<1>2. ASSUME NEW s \in Stores, Pending(left, s), s # Head(left)
      PROVE  Pending(Tail(left), s)
  <2>1. PICK i \in 1..Len(left) : left[i] = s
    BY <1>2 DEF Pending
  <2>2. i # 1
    BY <1>2, <2>1, HeadTailProperties
  <2>3. i - 1 \in 1..Len(Tail(left)) /\ Tail(left)[i - 1] = left[i]
    BY <2>2, HeadTailProperties
  <2> QED BY <2>1, <2>3 DEF Pending
<1> QED BY <1>1, <1>2

\* Where the request may be, and what it has left with the head deleted.
LEMMA DueOne ==
  ASSUME ForgetTypeOK, NEW s \in Stores, Due(s)
  PROVE  /\ forget.left \in Seq(Stores) /\ forget.left # <<>> /\ s = Head(forget.left)
         /\ forget.pc \in {"complete", "delete"}
         /\ [forget EXCEPT !.left = Tail(@)].pc = forget.pc
         /\ [forget EXCEPT !.left = Tail(@)].left = Tail(forget.left)
         /\ [forget EXCEPT !.left = Tail(@)] \in
              [pc : {"complete"}, left : Seq(Stores)] \cup [pc : {"delete"}, left : Seq(Stores), core : Mind]
<1>1. forget.pc \in {"complete", "delete"} /\ forget.left # <<>> /\ s = Head(forget.left)
  BY DEF Due
<1>2. forget \in [pc : {"complete"}, left : Seq(Stores)] \cup [pc : {"delete"}, left : Seq(Stores), core : Mind]
  BY <1>1 DEF ForgetTypeOK
<1>3. forget.left \in Seq(Stores)
  BY <1>2
<1>4. Tail(forget.left) \in Seq(Stores)
  BY <1>1, <1>3, NextOne
<1> HIDE DEF Mind
<1>5. CASE forget \in [pc : {"complete"}, left : Seq(Stores)]
  BY <1>1, <1>3, <1>4, <1>5
<1>6. CASE forget \in [pc : {"delete"}, left : Seq(Stores), core : Mind]
  BY <1>1, <1>3, <1>4, <1>6
<1> QED BY <1>2, <1>5, <1>6

\* What an idle job has, and what one at work has.
LEMMA JobKinds ==
  ASSUME ForgetTypeOK, NEW j \in Jobs
  PROVE  /\ busy[j].age \in Ages \cup {"none"} /\ busy[j] = NoJob <=> busy[j].age = "none"
         /\ busy[j] # NoJob => busy[j].age \in Ages /\ busy[j].core \in Mind
<1>1. CASE busy[j] = NoJob
  BY <1>1 DEF NoJob
<1>2. CASE busy[j] # NoJob
  <2>1. busy[j] \in [age : Ages, core : Mind]
    BY <1>2 DEF ForgetTypeOK
  <2>2. busy[j].age \in Ages /\ busy[j].core \in Mind
    BY <2>1
  <2> QED BY <1>2, <2>2 DEF Ages
<1> QED BY <1>1, <1>2

LEMMA ForgetStep ==
  ASSUME ForgetInv, [ForgetNext]_forgetVars
  PROVE  ForgetInv'
<1> USE StoresOK
<1>0. ForgetTypeOK /\ (marker \/ Clean) /\ (granted => MindClean)
  BY DEF ForgetInv
<1>k. \A j \in Jobs : /\ busy[j].age \in Ages \cup {"none"} /\ busy[j] = NoJob <=> busy[j].age = "none"
                      /\ busy[j] # NoJob => busy[j].age \in Ages /\ busy[j].core \in Mind
  BY <1>0, JobKinds
<1>1. ASSUME NEW s \in Stores, Live(s) PROVE ForgetInv'
  <2>1. data' \in [Stores -> SUBSET Ages]
    BY <1>0, <1>1 DEF Live, ForgetTypeOK, Ages
  <2>2. \A t \in Stores : "old" \in data'[t] => "old" \in data[t]
    BY <1>0, <1>1 DEF Live, ForgetTypeOK
  <2>3. UNCHANGED <<mind, marker, forget, busy, failed, rewritten, kept, granted>> /\ forget.pc = "idle"
    BY <1>1 DEF Live, Quiet
  <2>4. ForgetTypeOK'
    BY <1>0, <2>1, <2>3 DEF ForgetTypeOK
  <2>5. marker' \/ Clean'
    BY <1>0, <2>2, <2>3 DEF Clean, Spared
  <2> QED BY <2>3, <2>4, <2>5 DEF ForgetInv, MindClean, CoreClean
<1>2. ASSUME NEW j \in Jobs, NEW s \in Stores, JobWrites(j, s) PROVE ForgetInv'
  <2>0. busy[j].age \in Ages
    BY <1>k, <1>2 DEF JobWrites
  <2>1. data' \in [Stores -> SUBSET Ages]
    BY <1>0, <1>2, <2>0 DEF JobWrites, ForgetTypeOK
  <2>2. /\ rewritten \subseteq rewritten' /\ rewritten' \subseteq Stores \cup {"core"}
        /\ "core" \in rewritten' => "core" \in rewritten
    BY <1>0, <1>2 DEF JobWrites, Rewritten, ForgetTypeOK
  <2>3. \A t \in Stores : "old" \in data'[t] => "old" \in data[t] \/ t \in rewritten'
    BY <1>0, <1>2 DEF JobWrites, Rewritten, ForgetTypeOK
  <2>4. UNCHANGED <<mind, marker, forget, busy, failed, kept, granted>>
    BY <1>2 DEF JobWrites
  <2>5. ForgetTypeOK'
    BY <1>0, <2>1, <2>2, <2>4 DEF ForgetTypeOK
  <2>6. /\ \A t \in Stores \ Spared' : "old" \in data'[t] => t \notin Spared /\ "old" \in data[t]
        /\ Clean => Clean'
    BY <2>2, <2>3, <2>4 DEF Clean, Spared
  <2>7. MindClean' <=> MindClean
    BY <2>2, <2>4 DEF MindClean, CoreClean
  <2> HIDE DEF Clean, Spared, MindClean, CoreClean, ForgetTypeOK
  <2> QED BY <2>2, <2>4, <2>5, <2>6, <2>7 DEF ForgetInv
<1>3. ASSUME NEW s \in Stores, DeleteStore(s) PROVE ForgetInv'
  <2>1. /\ forget.pc \in {"complete", "delete"} /\ forget.left \in Seq(Stores)
        /\ forget.left # <<>> /\ s = Head(forget.left)
        /\ forget'.pc = forget.pc /\ forget'.left = Tail(forget.left)
        /\ forget' \in [pc : {"complete"}, left : Seq(Stores)]
                       \cup [pc : {"delete"}, left : Seq(Stores), core : Mind]
    BY <1>0, <1>3, DueOne DEF DeleteStore
  <2>3. data' \in [Stores -> SUBSET Ages] /\ data'[s] = {}
        /\ \A t \in Stores : t # s => data'[t] = data[t]
    BY <1>0, <1>3 DEF DeleteStore, ForgetTypeOK
  <2>4. ~granted /\ marker /\ UNCHANGED <<mind, marker, busy, kept, granted>>
        /\ \A j \in Jobs : busy[j].age # "new"
    BY <1>3, <2>1 DEF DeleteStore, ForgetInv
  <2>5. Spared' = Spared \ {s} /\ failed' \subseteq Stores
        /\ rewritten' \subseteq Stores \cup {"core"}
    BY <1>0, <1>3 DEF DeleteStore, ForgetTypeOK, Spared
  <2>6. ForgetTypeOK'
    BY <1>0, <2>1, <2>3, <2>4, <2>5 DEF ForgetTypeOK
  <2>7. ASSUME NEW t \in Stores \ Spared', "old" \in data'[t]
        PROVE  Pending(forget'.left, t)
    <3>1. t # s /\ t \notin Spared /\ "old" \in data[t]
      BY <2>3, <2>5, <2>7
    <3>2. Pending(forget.left, t)
      BY <2>1, <3>1 DEF ForgetInv
    <3>3. Pending(Tail(forget.left), t)
      BY <2>1, <3>1, <3>2, NextOne
    <3> QED BY <2>1, <3>3 DEF Pending
  <2> QED BY <2>1, <2>4, <2>6, <2>7 DEF ForgetInv
<1>4. ASSUME NEW s \in Stores, DeletionRaises(s) PROVE ForgetInv'
  <2>1. /\ forget.pc \in {"complete", "delete"} /\ forget.left \in Seq(Stores)
        /\ forget.left # <<>> /\ s = Head(forget.left)
    BY <1>0, <1>4, DueOne DEF DeletionRaises
  <2>2. UNCHANGED <<data, mind, marker, busy, rewritten, kept, granted>> /\ marker /\ ~granted
        /\ \A j \in Jobs : busy[j].age # "new"
    BY <1>4, <2>1 DEF DeletionRaises, ForgetInv
  <2>3. CASE s = History
    <3>1. forget' = Quiet /\ UNCHANGED failed
      BY <1>4, <2>3 DEF DeletionRaises
    <3>2. ForgetTypeOK'
      BY <1>0, <2>2, <3>1 DEF ForgetTypeOK, Quiet
    <3> QED BY <2>2, <3>1, <3>2 DEF ForgetInv, Quiet
  <2>4. CASE s # History
    <3>0. forget' = [forget EXCEPT !.left = Tail(@)] /\ failed' = failed \cup {s}
      BY <1>4, <2>4 DEF DeletionRaises
    <3>1. /\ forget'.pc = forget.pc /\ forget'.left = Tail(forget.left)
          /\ forget' \in [pc : {"complete"}, left : Seq(Stores)]
                         \cup [pc : {"delete"}, left : Seq(Stores), core : Mind]
      BY <1>0, <1>4, <3>0, DueOne DEF DeletionRaises
    <3>2. ForgetTypeOK'
      BY <1>0, <2>2, <3>0, <3>1 DEF ForgetTypeOK
    <3>3. ASSUME NEW t \in Stores \ Spared', "old" \in data'[t] PROVE Pending(forget'.left, t)
      <4>1. t # s /\ t \notin Spared /\ "old" \in data[t]
        BY <2>2, <3>0, <3>3 DEF Spared
      <4>2. Pending(forget.left, t)
        BY <2>1, <4>1 DEF ForgetInv
      <4>3. Pending(Tail(forget.left), t)
        BY <2>1, <4>1, <4>2, NextOne
      <4> QED BY <3>1, <4>3 DEF Pending
    <3> QED BY <2>1, <2>2, <3>1, <3>2, <3>3 DEF ForgetInv
  <2> QED BY <2>3, <2>4
<1>5. ASSUME NEW j \in Jobs, BeginJob(j) PROVE ForgetInv'
  <2>1. PICK a \in Ages : /\ busy' = [busy EXCEPT ![j] = [age |-> a, core |-> mind]]
                          /\ a = "new" => forget.pc = "idle"
    <3>1. CASE forget = Quiet
      BY <1>5, <3>1 DEF BeginJob, Ages, Quiet
    <3>2. CASE forget # Quiet
      BY <1>5, <3>2 DEF BeginJob, Ages
    <3> QED BY <3>1, <3>2
  <2>2. UNCHANGED <<data, mind, marker, forget, failed, rewritten, kept, granted>>
    BY <1>5 DEF BeginJob
  <2>3. busy \in [Jobs -> [age : Ages, core : Mind] \cup {NoJob}] /\ mind \in Mind
    BY <1>0 DEF ForgetTypeOK
  <2>4. /\ busy' \in [Jobs -> [age : Ages, core : Mind] \cup {NoJob}]
        /\ busy'[j].age = a /\ busy'[j].core = mind
        /\ \A i \in Jobs : i # j => busy'[i] = busy[i]
    BY <2>1, <2>3
  <2>5. ForgetTypeOK'
    BY <1>0, <2>2, <2>4 DEF ForgetTypeOK
  <2>6. forget'.pc # "idle" => ~granted' /\ \A i \in Jobs : busy'[i].age # "new"
    BY <2>1, <2>2, <2>4 DEF ForgetInv
  <2>7. granted' /\ "core" \notin rewritten' =>
          \A i \in Jobs : busy'[i].age = "new" => CoreClean(busy'[i].core, kept')
    <3> SUFFICES ASSUME granted, "core" \notin rewritten, NEW i \in Jobs, busy'[i].age = "new"
                 PROVE  CoreClean(busy'[i].core, kept)
      BY <2>2
    <3>1. CASE i = j
      BY <1>0, <2>4, <3>1 DEF MindClean
    <3>2. CASE i # j
      BY <2>4, <3>2 DEF ForgetInv
    <3> QED BY <3>1, <3>2
  <2>8. (Clean <=> Clean') /\ (MindClean <=> MindClean')
    BY <2>2 DEF MindClean, Clean, Spared
  <2>9. \A s \in Stores : s \in Spared' <=> s \in Spared
    BY <2>2 DEF Spared
  <2> HIDE DEF Clean, Spared, MindClean, CoreClean, ForgetTypeOK, Pending
  <2> QED BY <2>2, <2>5, <2>6, <2>7, <2>8, <2>9 DEF ForgetInv
<1>6. ASSUME NEW j \in Jobs, JobSaves(j) PROVE ForgetInv'
  <2>0. busy[j].age \in Ages /\ busy[j].core \in Mind /\ "core" \notin Stores
    BY <1>k, <1>6 DEF JobSaves
  <2>1. mind' \in Mind /\ \A p \in Parts : mind'[p] = busy[j].core[p] \cup {busy[j].age}
    BY <1>6, <2>0 DEF JobSaves, Mind
  <2>2. /\ rewritten \subseteq rewritten' /\ rewritten' \subseteq rewritten \cup {"core"}
        /\ busy[j].age = "old" => "core" \in rewritten'
    BY <1>6 DEF JobSaves, Rewritten
  <2>3. UNCHANGED <<data, marker, forget, busy, failed, kept, granted>>
    BY <1>6 DEF JobSaves
  <2>4. ForgetTypeOK'
    <3>1. rewritten' \subseteq Stores \cup {"core"}
      BY <1>0, <2>2 DEF ForgetTypeOK
    <3> QED BY <1>0, <2>1, <2>3, <3>1 DEF ForgetTypeOK
  <2>5. /\ \A t \in Stores : t \in Spared' <=> t \in Spared
        /\ Clean => Clean'
    BY <2>0, <2>2, <2>3 DEF Clean, Spared
  <2>6. busy[j].age = "old" => MindClean'
    BY <2>2 DEF MindClean
  <2>7. granted => MindClean'
    <3>1. CASE granted /\ busy[j].age = "new" /\ "core" \notin rewritten
      <4>1. CoreClean(busy[j].core, kept)
        BY <3>1 DEF ForgetInv
      <4> QED BY <2>1, <2>3, <3>1, <4>1 DEF MindClean, CoreClean
    <3>2. "core" \in rewritten => MindClean'
      BY <2>2 DEF MindClean
    <3> QED BY <2>0, <2>6, <3>1, <3>2 DEF Ages
  <2>8. forget.pc = "unmark" => Clean' /\ MindClean'
    BY <2>0, <2>5, <2>6 DEF ForgetInv, Ages
  <2>9. granted' /\ "core" \notin rewritten' =>
          \A i \in Jobs : busy'[i].age = "new" => CoreClean(busy'[i].core, kept')
    BY <2>2, <2>3 DEF ForgetInv
  <2>10. forget'.pc \in {"complete", "delete"} =>
           \A t \in Stores \ Spared' : "old" \in data'[t] => Pending(forget'.left, t)
    BY <2>3, <2>5 DEF ForgetInv
  <2> HIDE DEF Clean, Spared, MindClean, CoreClean, ForgetTypeOK, Pending
  <2> QED BY <2>3, <2>4, <2>5, <2>7, <2>8, <2>9, <2>10 DEF ForgetInv
<1>7. ASSUME NEW j \in Jobs, JobEnds(j) PROVE ForgetInv'
  <2>1. /\ busy' \in [Jobs -> [age : Ages, core : Mind] \cup {NoJob}]
        /\ \A i \in Jobs : busy'[i].age = "new" => i # j /\ busy'[i] = busy[i]
    BY <1>0, <1>7 DEF JobEnds, ForgetTypeOK, NoJob
  <2>2. UNCHANGED <<data, mind, marker, forget, failed, rewritten, kept, granted>>
    BY <1>7 DEF JobEnds
  <2>3. ForgetTypeOK'
    BY <1>0, <2>1, <2>2 DEF ForgetTypeOK
  <2> QED BY <2>1, <2>2, <2>3 DEF ForgetInv, MindClean, CoreClean, Clean, Spared, Pending
<1>8. ASSUME Ask PROVE ForgetInv'
  <2>1. data' \in [Stores -> SUBSET Ages] /\ mind' \in Mind
    BY <1>8 DEF Ask, AllAged, AgedMind, Aged, Ages, Mind
  <2>2. /\ failed' = {} /\ rewritten' = {} /\ kept' = {} /\ granted' = FALSE /\ marker' = TRUE
    BY <1>8 DEF Ask, AllAged
  <2>3. /\ busy' \in [Jobs -> [age : Ages, core : Mind] \cup {NoJob}]
        /\ \A j \in Jobs : busy'[j].age # "new"
    <3>1. \A m : AgedMind(m) \in Mind
      BY DEF AgedMind, Aged, Mind, Ages
    <3>2. busy' = [j \in Jobs |-> IF busy[j] = NoJob THEN NoJob
                                  ELSE [age |-> "old", core |-> AgedMind(busy[j].core)]]
      BY <1>8 DEF Ask, AllAged
    <3> HIDE DEF Mind, AgedMind
    <3> QED BY <3>1, <3>2 DEF NoJob, Ages
  <2>4. CASE marker
    <3>1. forget' = [pc |-> "complete", left |-> Order]
      BY <1>8, <2>4 DEF Ask
    <3>2. \A t \in Stores : Pending(forget'.left, t)
      BY <3>1 DEF Pending
    <3>3. ForgetTypeOK'
      BY <2>1, <2>2, <2>3, <3>1 DEF ForgetTypeOK
    <3> QED BY <2>2, <2>3, <3>1, <3>2, <3>3 DEF ForgetInv
  <2>5. CASE ~marker
    <3>1. forget' = [pc |-> "decide"]
      BY <1>8, <2>5 DEF Ask
    <3>3. ForgetTypeOK'
      BY <2>1, <2>2, <2>3, <3>1 DEF ForgetTypeOK
    <3> QED BY <2>2, <2>3, <3>1, <3>3 DEF ForgetInv
  <2> QED BY <2>4, <2>5
<1>9. ASSUME Completed PROVE ForgetInv'
  <2>1. \A s \in Stores : ~Pending(forget.left, s)
    BY <1>9 DEF Completed, Pending
  <2>2. forget' = [pc |-> "mark"] /\ ~granted /\ marker' = FALSE
        /\ UNCHANGED <<data, mind, busy, failed, rewritten, kept, granted>>
        /\ \A j \in Jobs : busy[j].age # "new"
    BY <1>9 DEF Completed, ForgetInv
  <2>3. ForgetTypeOK'
    BY <1>0, <2>2 DEF ForgetTypeOK
  <2>4. Clean'
    BY <1>9, <2>1, <2>2 DEF Completed, Clean, Spared, ForgetInv
  <2> QED BY <2>2, <2>3, <2>4 DEF ForgetInv
<1>10. ASSUME MarkAgain PROVE ForgetInv'
  <2>1. forget' = [pc |-> "decide"] /\ marker' = TRUE /\ ~granted
        /\ UNCHANGED <<data, mind, busy, failed, rewritten, kept, granted>>
        /\ \A j \in Jobs : busy[j].age # "new"
    BY <1>10 DEF MarkAgain, ForgetInv
  <2>2. ForgetTypeOK'
    BY <1>0, <2>1 DEF ForgetTypeOK
  <2> QED BY <2>1, <2>2 DEF ForgetInv
<1>11. ASSUME NEW keep \in SUBSET Negotiable, Decide(keep) PROVE ForgetInv'
  <2>1. forget' = [pc |-> "delete", left |-> Order, core |-> mind] /\ kept' = keep
        /\ UNCHANGED <<data, mind, marker, busy, failed, rewritten, granted>>
        /\ marker /\ ~granted /\ \A j \in Jobs : busy[j].age # "new"
    BY <1>11 DEF Decide, ForgetInv
  <2>2. \A t \in Stores : Pending(forget'.left, t)
    BY <2>1 DEF Pending
  <2>3. ForgetTypeOK'
    BY <1>0, <2>1 DEF ForgetTypeOK
  <2> QED BY <2>1, <2>2, <2>3 DEF ForgetInv
<1>12. ASSUME SaveMind PROVE ForgetInv'
  <2>1. \A s \in Stores : ~Pending(forget.left, s)
    BY <1>12 DEF SaveMind, Pending
  <2>2. forget' = [pc |-> "unmark"] /\ marker /\ ~granted /\ mind' = Without(forget.core)
        /\ rewritten' = rewritten \ {"core"}
        /\ UNCHANGED <<data, marker, busy, failed, kept, granted>>
        /\ \A j \in Jobs : busy[j].age # "new"
    BY <1>12 DEF SaveMind, ForgetInv
  <2>3. forget.core \in Mind
    <3>1. forget.pc = "delete"
      BY <1>12 DEF SaveMind
    <3>2. forget \in [pc : {"delete"}, left : Seq(Stores), core : Mind]
      BY <1>0, <3>1 DEF ForgetTypeOK
    <3> QED BY <3>2
  <2>4. mind' \in Mind /\ CoreClean(mind', kept')
    BY <2>2, <2>3 DEF Without, Mind, CoreClean, Parts
  <2>5. Clean'
    BY <1>12, <2>1, <2>2 DEF SaveMind, Clean, Spared, ForgetInv
  <2>6. ForgetTypeOK'
    BY <1>0, <2>2, <2>4 DEF ForgetTypeOK
  <2> QED BY <2>2, <2>4, <2>5, <2>6 DEF ForgetInv, MindClean
<1>13. ASSUME Unmark PROVE ForgetInv'
  <2>1. /\ forget' = Quiet /\ Clean /\ MindClean /\ marker' = FALSE /\ granted' = TRUE
        /\ UNCHANGED <<data, mind, busy, failed, rewritten, kept>>
        /\ \A j \in Jobs : busy[j].age # "new"
    BY <1>13 DEF Unmark, ForgetInv
  <2>2. ForgetTypeOK'
    BY <1>0, <2>1 DEF ForgetTypeOK, Quiet
  <2>3. Clean' /\ MindClean' /\ forget'.pc = "idle"
    BY <2>1 DEF Clean, Spared, MindClean, CoreClean, Quiet
  <2> QED BY <2>1, <2>2, <2>3 DEF ForgetInv
<1>14. ASSUME Interrupted PROVE ForgetInv'
  <2>1. /\ busy' \in [Jobs -> [age : Ages, core : Mind] \cup {NoJob}]
        /\ \A j \in Jobs : busy'[j].age = "new" => busy'[j] = busy[j]
    BY <1>0, <1>14 DEF Interrupted, ForgetTypeOK, NoJob
  <2>2. forget' = Quiet /\ UNCHANGED <<data, mind, marker, failed, rewritten, kept, granted>>
    BY <1>14 DEF Interrupted
  <2>3. ForgetTypeOK'
    BY <1>0, <2>1, <2>2 DEF ForgetTypeOK, Quiet
  <2> QED BY <1>0, <2>1, <2>2, <2>3 DEF ForgetInv, MindClean, CoreClean, Clean, Spared, Quiet
<1>15. CASE UNCHANGED forgetVars
  BY <1>15 DEF forgetVars, ForgetInv, ForgetTypeOK, Pending, Clean, Spared, MindClean, CoreClean
<1> QED
  BY <1>1, <1>2, <1>3, <1>4, <1>5, <1>6, <1>7, <1>8, <1>9, <1>10, <1>11, <1>12, <1>13, <1>14, <1>15
     DEF ForgetNext

(* delete_user_data, _complete_deletion: whichever store raises, wherever   *)
(* the server stops and whatever jobs are under way, what is from before    *)
(* the request is gone, or the marker is there to say it is not, or a       *)
(* logged failure or a job that was under way accounts for it; and the core *)
(* holds only what the model kept and what always stays.                    *)
THEOREM ForgettingCompletes == ForgetSpec => []ForgottenIsGone
<1>1. ForgetInv => ForgottenIsGone
  BY DEF ForgetInv, ForgottenIsGone, Clean, MindClean, CoreClean, Spared
<1> QED
  BY ForgetInitInv, ForgetStep, <1>1, PTL DEF ForgetSpec

(* Every variable of the forgetting keeps its type.                         *)
THEOREM ForgettingTypes == ForgetSpec => []ForgetTypeOK
<1>1. ForgetInv => ForgetTypeOK
  BY DEF ForgetInv
<1> QED
  BY ForgetInitInv, ForgetStep, <1>1, PTL DEF ForgetSpec

(***************************************************************************)
(* The graph of memory nodes                                               *)
(***************************************************************************)

GraphNode == FactNode \cup ThreadNode \cup Conflict

\* What an add remembers, by its step: it was given an id no fact has, the
\* facts it is to retire are of the category of its own, and the one it is at
\* is not active any more when the contradiction is looked for and noted.
Adding(w) ==
  /\ add[w].id <= made
  /\ \A n \in nodes : n.type = "fact" => n.id # add[w].id
  /\ add[w].content \in (IF add[w].type = "fact" THEN Contents ELSE Threads)
  /\ add[w].pc \in {"retire", "conflict", "note"} <=> add[w].todo # {}
  /\ add[w].todo # {} => add[w].type = "fact"
  /\ \A n \in add[w].todo :
       /\ SameKind(n.content, add[w].content) /\ n.id <= made
       /\ \A v \in Writers : add[v] # NoAdd => n.id # add[v].id
       /\ \A k \in nodes : k.type = "fact" /\ k.id = n.id => k.content = n.content
  /\ add[w].pc \in {"conflict", "note"} => \A n \in Active("fact") : n.id # Last(add[w].todo).id
  /\ add[w].pc = "note" => /\ add[w].note.type = "contradiction" /\ add[w].note.id <= made
                           /\ add[w].note.old = Last(add[w].todo).id /\ add[w].note.new = add[w].id

GraphShape ==
  /\ GraphTypeOK /\ IsFiniteSet(nodes)
  /\ \A m, n \in nodes : m.type = "fact" /\ n.type = "fact" /\ m.id = n.id => m.content = n.content
  /\ \A n \in nodes : n.id <= made
  /\ \A n \in nodes : n.type = "contradiction" => n.old <= made /\ n.new <= made
  /\ \A w \in Writers : add[w] # NoAdd => Adding(w)
  /\ \A v, w \in Writers : add[v] # NoAdd /\ add[w] # NoAdd /\ v # w => add[v].id # add[w].id

OfKind(a, content) == a # NoAdd /\ a.type = "fact" /\ SameKind(content, a.content)

\* Two active facts of one category, or one and the add of another, or two
\* adds, crossed, or the one is still to be retired for the other.
Retiring ==
  /\ overflow \/ \A m, n \in Active("fact") :
       SameKind(m.content, n.content) => m = n \/ {m.id, n.id} \in crossed
  /\ overflow \/ \A w \in Writers : \A n \in Active("fact") :
       OfKind(add[w], n.content) => n \in add[w].todo \/ {n.id, add[w].id} \in crossed
  /\ \A v, w \in Writers :
       add[v] # NoAdd /\ add[v].type = "fact" /\ OfKind(add[w], add[v].content) /\ v # w
       => {add[v].id, add[w].id} \in crossed

Of(a, c) == a # NoAdd /\ a.type = "fact" /\ CategoryOf[a.content] = c

\* A category that was told has an active fact, or an add of it runs.
ToldKept ==
  \A c \in current :
    /\ c # Uncategorised
    /\ \/ \E n \in Active("fact") : CategoryOf[n.content] = c
       \/ \E w \in Writers : Of(add[w], c)

AddOf(a, new) == a # NoAdd /\ a.id = new /\ a.type = "fact" /\ CategoryOf[a.content] # Uncategorised

\* A contradiction is between a fact that is past and one that came after it.
Noted ==
  \A c \in nodes : c.type = "contradiction" =>
    /\ \A w \in Writers : add[w] # NoAdd => c.old # add[w].id
    /\ \A n \in Active("fact") : n.id # c.old
    /\ \/ overflow \/ c.new \in gone
       \/ \E w \in Writers : AddOf(add[w], c.new)
       \/ \E n \in nodes : n.id = c.new /\ n.type = "fact"
       \/ \E p \in crossed : c.new \in p

GraphInv == GraphShape /\ Retiring /\ ToldKept /\ Noted

LEMMA GraphCorrect == GraphInv => OneCurrentFact /\ ConflictsArePast
<1> SUFFICES ASSUME GraphInv PROVE OneCurrentFact /\ ConflictsArePast
  OBVIOUS
<1>1. OneCurrentFact
  <2>1. \A c \in current, w \in Writers : c # Uncategorised /\ Of(add[w], c) => Telling(c)
    BY DEF Of, Telling, Told
  <2> QED BY <2>1 DEF GraphInv, Retiring, ToldKept, OneCurrentFact
<1>2. \A c \in Active("contradiction") : c \in nodes /\ c.type = "contradiction"
  BY DEF Active
<1>3. \A i : \A w \in Writers : AddOf(add[w], i) => add[w] # NoAdd /\ add[w].id = i
  BY DEF AddOf
<1>4. ConflictsArePast
  BY <1>2, <1>3, Zenon DEF GraphInv, Noted, ConflictsArePast
<1> QED BY <1>1, <1>4

LEMMA LeastNumber ==
  ASSUME NEW T \in SUBSET Nat, T # {}
  PROVE  \E n \in T : \A m \in T : n <= m
<1> DEFINE R == OpToRel(<, Nat)
<1>1. \A m, n \in Nat : <<m, n>> \in R <=> m < n
  BY DEF OpToRel
<1>2. IsWellFoundedOn(R, Nat)
  BY NatLessThanWellFounded
<1> HIDE DEF R
<1>3. \E n \in T : \A m \in T : ~(<<m, n>> \in R)
  BY <1>2, WFMin
<1>4. PICK n \in T : \A m \in T : ~(<<m, n>> \in R)
  BY <1>3
<1>5. \A m \in T : ~(m < n)
  BY <1>1, <1>4
<1> QED BY <1>4, <1>5

\* The next fact to retire is one of them.
LEMMA LastOfMany ==
  ASSUME NEW ns, ns # {}, \A n \in ns : n.id \in 1..MaxNodes
  PROVE  Last(ns) \in ns
<1> USE GraphOK
<1> DEFINE T == {MaxNodes - n.id : n \in ns}
<1>1. T \in SUBSET Nat /\ T # {}
  OBVIOUS
<1>2. PICK t \in T : \A u \in T : t <= u
  BY <1>1, LeastNumber
<1>3. PICK n \in ns : t = MaxNodes - n.id
  BY <1>2
<1>4. ASSUME NEW m \in ns PROVE m.id <= n.id
  <2>1. MaxNodes - m.id \in T /\ m.id \in Nat /\ n.id \in Nat
    OBVIOUS
  <2>2. t <= MaxNodes - m.id
    BY <1>2, <2>1
  <2> QED BY <1>3, <2>1, <2>2
<1>5. \E k \in ns : \A m \in ns : m.id <= k.id
  BY <1>3, <1>4
<1> QED BY <1>5, Zenon DEF Last

\* A node keeps everything but its being active.
LEMMA RetiredNode ==
  ASSUME NEW n \in GraphNode, NEW id \in Ids
  PROVE  /\ Retired(n, id) \in GraphNode
         /\ Retired(n, id).id = n.id /\ Retired(n, id).type = n.type
         /\ Retired(n, id).content = n.content
         /\ n.type = "contradiction" => /\ Retired(n, id).old = n.old /\ Retired(n, id).new = n.new
         /\ n.id = id => ~Retired(n, id).active
         /\ n.id # id => Retired(n, id) = n
<1> HIDE DEF Ids, Days
<1> DEFINE k == [n EXCEPT !.active = FALSE]
<1>1. CASE n \in FactNode
  <2>1. k \in FactNode /\ k.id = n.id /\ k.type = n.type /\ k.content = n.content /\ ~k.active /\ n.type # "contradiction"
    BY <1>1 DEF FactNode
  <2> QED BY <1>1, <2>1, Zenon DEF Retired, GraphNode
<1>2. CASE n \in ThreadNode
  <2>1. k \in ThreadNode /\ k.id = n.id /\ k.type = n.type /\ k.content = n.content /\ ~k.active /\ n.type # "contradiction"
    BY <1>2 DEF ThreadNode
  <2> QED BY <1>2, <2>1, Zenon DEF Retired, GraphNode
<1>3. CASE n \in Conflict
  <2>1. k \in Conflict /\ k.id = n.id /\ k.type = n.type /\ k.content = n.content /\ ~k.active /\ k.old = n.old /\ k.new = n.new
    BY <1>3 DEF Conflict
  <2> QED BY <1>3, <2>1, Zenon DEF Retired, GraphNode
<1> QED BY <1>1, <1>2, <1>3 DEF GraphNode


LEMMA AllRecent ==
  ASSUME GraphShape, ~(Cardinality(Active("fact")) > Limit)
  PROVE  Recent("fact") = Active("fact")
<1> USE GraphOK
<1>1. IsFiniteSet(Active("fact")) /\ Cardinality(Active("fact")) \in Nat
  <2>1. Active("fact") \in SUBSET nodes
    BY DEF Active
  <2>2. IsFiniteSet(nodes)
    BY DEF GraphShape
  <2> QED BY <2>1, <2>2, FS_Subset, FS_CardinalityType
<1>2. ASSUME NEW n \in Active("fact")
      PROVE  Cardinality({m \in Active("fact") : m.id > n.id}) < Limit
  <2> DEFINE later == {m \in Active("fact") : m.id > n.id}
  <2>1. n.id \in Nat
    <3>1. n \in GraphNode
      BY <1>2 DEF Active, GraphShape, GraphTypeOK, GraphNode
    <3>2. n.id \in Ids
      BY <3>1 DEF GraphNode, FactNode, ThreadNode, Conflict
    <3> QED BY <3>2 DEF Ids
  <2>2. n \notin later /\ later \in SUBSET Active("fact")
    BY <2>1
  <2> HIDE DEF later
  <2>3. Cardinality(later) <= Cardinality(Active("fact")) /\ Cardinality(later) # Cardinality(Active("fact"))
    BY <1>1, <1>2, <2>2, FS_Subset
  <2>4. IsFiniteSet(later) /\ Cardinality(later) \in Nat
    BY <1>1, <2>2, FS_Subset, FS_CardinalityType
  <2>5. Cardinality(later) < Limit
    BY <1>1, <2>3, <2>4
  <2> QED BY <2>5 DEF later
<1> QED BY <1>2 DEF Recent

LEMMA NodeKinds ==
  ASSUME GraphShape, NEW n \in nodes
  PROVE  /\ n \in GraphNode /\ n.id \in Ids /\ n.id \in Nat /\ n.id <= made
         /\ n.type = "fact" => n \in FactNode /\ n.content \in Contents
         /\ n.type = "contradiction" => n.old \in Nat /\ n.new \in Nat
         /\ n.type \in {"fact", "thread", "contradiction"}
<1>1. n \in GraphNode /\ n.id <= made
  BY DEF GraphShape, GraphTypeOK, GraphNode
<1>2. \A k \in Ids : k \in Nat
  BY DEF Ids
<1> HIDE DEF Ids, Days
<1>3. CASE n \in FactNode
  BY <1>1, <1>2, <1>3 DEF FactNode
<1>4. CASE n \in ThreadNode
  BY <1>1, <1>2, <1>4 DEF ThreadNode
<1>5. CASE n \in Conflict
  BY <1>1, <1>2, <1>5 DEF Conflict
<1> QED BY <1>1, <1>3, <1>4, <1>5 DEF GraphNode


LEMMA AddKinds ==
  ASSUME GraphShape, NEW w \in Writers
  PROVE  /\ add[w].pc \in {"none", "retire", "conflict", "note", "check", "insert"}
         /\ add[w] = NoAdd <=> add[w].pc = "none"
         /\ add[w] # NoAdd => /\ Adding(w) /\ add[w] \in Add
                              /\ add[w].type \in {"fact", "thread"} /\ add[w].id \in Ids /\ add[w].id \in Nat
                              /\ add[w].day \in Days /\ add[w].todo \in SUBSET FactNode
                              /\ add[w].note \in Conflict \cup {NoNote}
                              /\ add[w].type = "fact" => add[w].content \in Contents
                              /\ add[w].type = "thread" => add[w].content \in Threads
<1>0. add[w] \in Add \cup {NoAdd}
  BY DEF GraphShape, GraphTypeOK
<1>1. CASE add[w] = NoAdd
  BY <1>1 DEF NoAdd
<1>2. CASE add[w] # NoAdd
  <2>1. add[w] \in Add /\ Adding(w)
    BY <1>0, <1>2 DEF GraphShape
  <2>2. \A k \in Ids : k \in Nat
    BY DEF Ids
  <2> HIDE DEF Ids, Days
  <2>3. /\ add[w].pc \in {"retire", "conflict", "note", "check", "insert"}
        /\ add[w].type \in {"fact", "thread"} /\ add[w].id \in Ids
        /\ add[w].day \in Days /\ add[w].todo \in SUBSET FactNode
        /\ add[w].note \in Conflict \cup {NoNote}
    BY <2>1 DEF Add
  <2>4. /\ add[w].type = "fact" => add[w].content \in Contents
        /\ add[w].type = "thread" => add[w].content \in Threads
    BY <2>1 DEF Adding
  <2> QED BY <1>2, <2>1, <2>2, <2>3, <2>4
<1> QED BY <1>1, <1>2

\* While there is something to retire, the last of it is an older fact.
LEMMA LastToRetire ==
  ASSUME GraphShape, NEW w \in Writers, add[w].pc \in {"retire", "conflict", "note"}
  PROVE  /\ add[w] # NoAdd /\ add[w].type = "fact" /\ add[w].content \in Contents /\ add[w].id \in Ids
         /\ Last(add[w].todo) \in add[w].todo /\ Last(add[w].todo) \in FactNode
         /\ Last(add[w].todo).id \in Ids /\ Last(add[w].todo).content \in Contents
         /\ SameKind(Last(add[w].todo).content, add[w].content)
<1>1. /\ add[w] # NoAdd /\ add[w].todo # {} /\ Adding(w) /\ add[w].todo \in SUBSET FactNode
      /\ add[w].type = "fact" /\ add[w].id \in Ids /\ add[w].content \in Contents
  <2>1. add[w] # NoAdd
    BY AddKinds
  <2> QED BY <2>1, AddKinds DEF Adding
<1>2. \A n \in FactNode : n.id \in Ids /\ n.content \in Contents
  BY Zenon DEF FactNode
<1>3. Last(add[w].todo) \in add[w].todo
  BY <1>1, <1>2, LastOfMany DEF Ids
<1> QED BY <1>1, <1>2, <1>3 DEF Adding

\* One writer moves, the others' adds stay.
LEMMA OneMoves ==
  ASSUME add \in [Writers -> Add \cup {NoAdd}], NEW w \in Writers, NEW a, add' = [add EXCEPT ![w] = a]
  PROVE  /\ add'[w] = a /\ \A v \in Writers : v # w => add'[v] = add[v]
         /\ a \in Add \cup {NoAdd} => add' \in [Writers -> Add \cup {NoAdd}]
  OBVIOUS

\* An add goes on: what it retires leaves the active facts, and what it has
\* still to retire is what is left of them.
LEMMA GraphMove ==
  ASSUME GraphInv, NEW w \in Writers, NEW a \in Add, add' = [add EXCEPT ![w] = a],
         UNCHANGED <<today, overflow, crossed, current, gone>>,
         add[w] # NoAdd, a # NoAdd, a.type = add[w].type, a.content = add[w].content, a.id = add[w].id,
         a.todo \subseteq add[w].todo,
         a.pc \in {"retire", "conflict", "note"} <=> a.todo # {},
         Active("fact")' \subseteq Active("fact"),
         \A n \in Active("fact") :
           n \in Active("fact")' \/ (add[w].type = "fact" /\ SameKind(n.content, add[w].content)),
         \A n \in Active("fact")' : n \in add[w].todo => n \in a.todo,
         a.pc \in {"conflict", "note"} => \A n \in Active("fact")' : n.id # Last(a.todo).id,
         a.pc = "note" => /\ a.note.type = "contradiction" /\ a.note.id <= made'
                          /\ a.note.old = Last(a.todo).id /\ a.note.new = a.id,
         nodes' \subseteq GraphNode, IsFiniteSet(nodes'), \A k \in nodes' : k.id <= made',
         \A k \in nodes' : k.type = "fact" =>
           \E n \in nodes : n.type = "fact" /\ n.id = k.id /\ n.content = k.content,
         \A n \in nodes : n.type = "fact" => \E k \in nodes' : k.type = "fact" /\ k.id = n.id,
         \A k \in nodes' : k.type = "contradiction" =>
           \/ \E c \in nodes : c.type = "contradiction" /\ c.old = k.old /\ c.new = k.new
           \/ k = add[w].note /\ add[w].pc = "note",
         made' \in 0..MaxNodes, made <= made'
  PROVE  GraphInv'
<1> USE GraphOK
<1>0. /\ GraphShape /\ Retiring /\ ToldKept /\ Noted /\ made \in Nat /\ made' \in Nat
      /\ add \in [Writers -> Add \cup {NoAdd}]
  BY DEF GraphInv, GraphShape, GraphTypeOK
<1>a. /\ add'[w] = a /\ \A v \in Writers : v # w => add'[v] = add[v]
      /\ add' \in [Writers -> Add \cup {NoAdd}]
  BY <1>0, OneMoves
<1>b. \A v \in Writers : /\ add'[v] # NoAdd <=> add[v] # NoAdd
                         /\ add[v] # NoAdd => /\ add'[v].type = add[v].type /\ add'[v].id = add[v].id
                                              /\ add'[v].content = add[v].content
                                              /\ add'[v].todo \subseteq add[v].todo
  BY <1>a
<1>c. \A v \in Writers : add[v] # NoAdd => add[v].id \in Nat /\ Adding(v)
  BY <1>0, AddKinds
<1>d. \A n \in nodes : n.type = "contradiction" => n.old \in Nat /\ n.new \in Nat
  BY <1>0, NodeKinds
<1>n. add[w].pc = "note" => /\ add[w].note.old = Last(add[w].todo).id /\ add[w].note.new = add[w].id
                            /\ Last(add[w].todo) \in add[w].todo /\ add[w].type = "fact"
                            /\ Last(add[w].todo).id \in Nat /\ Last(add[w].todo).id <= made
                            /\ \A n \in Active("fact") : n.id # Last(add[w].todo).id
                            /\ SameKind(Last(add[w].todo).content, add[w].content)
  <2> SUFFICES ASSUME add[w].pc = "note" PROVE
                 /\ add[w].note.old = Last(add[w].todo).id /\ add[w].note.new = add[w].id
                 /\ Last(add[w].todo) \in add[w].todo /\ add[w].type = "fact"
                 /\ Last(add[w].todo).id \in Nat /\ Last(add[w].todo).id <= made
                 /\ \A n \in Active("fact") : n.id # Last(add[w].todo).id
                 /\ SameKind(Last(add[w].todo).content, add[w].content)
    OBVIOUS
  <2>1. /\ Last(add[w].todo) \in add[w].todo /\ Last(add[w].todo).id \in Ids /\ add[w].type = "fact"
        /\ SameKind(Last(add[w].todo).content, add[w].content)
    BY <1>0, LastToRetire
  <2> QED BY <1>c, <2>1 DEF Adding, Ids
<1>1. \A v \in Writers : add'[v] # NoAdd => Adding(v)'
  <2> SUFFICES ASSUME NEW v \in Writers, add'[v] # NoAdd PROVE Adding(v)'
    OBVIOUS
  <2>0. add[v] # NoAdd /\ Adding(v) /\ add[v].id \in Nat
    BY <1>b, <1>c
  <2>t. add[v].todo \in SUBSET FactNode /\ \A n \in add[v].todo : n.id \in Nat
    <3>1. \A n \in FactNode : n.id \in Nat
      BY DEF FactNode, Ids
    <3>2. add[v].todo \in SUBSET FactNode
      BY <1>0, <2>0, AddKinds
    <3> QED BY <3>1, <3>2
  <2>1. add'[v].id <= made' /\ \A n \in nodes' : n.type = "fact" => n.id # add'[v].id
    BY <1>0, <1>b, <2>0 DEF Adding
  <2>2. add'[v].content \in (IF add'[v].type = "fact" THEN Contents ELSE Threads)
    BY <1>b, <2>0 DEF Adding
  <2>3. \A n \in add'[v].todo :
          /\ SameKind(n.content, add'[v].content) /\ n.id <= made'
          /\ \A u \in Writers : add'[u] # NoAdd => n.id # add'[u].id
          /\ \A k \in nodes' : k.type = "fact" /\ k.id = n.id => k.content = n.content
    <3> SUFFICES ASSUME NEW n \in add'[v].todo
                 PROVE  /\ SameKind(n.content, add'[v].content) /\ n.id <= made'
                        /\ \A u \in Writers : add'[u] # NoAdd => n.id # add'[u].id
                        /\ \A k \in nodes' : k.type = "fact" /\ k.id = n.id => k.content = n.content
      OBVIOUS
    <3>1. n \in add[v].todo
      BY <1>b, <2>0
    <3>2. /\ SameKind(n.content, add[v].content) /\ n.id <= made
          /\ \A u \in Writers : add[u] # NoAdd => n.id # add[u].id
          /\ \A k \in nodes : k.type = "fact" /\ k.id = n.id => k.content = n.content
      BY <2>0, <3>1 DEF Adding
    <3>3. SameKind(n.content, add'[v].content) /\ n.id <= made'
      BY <1>0, <1>b, <2>0, <2>t, <3>1, <3>2
    <3>4. \A u \in Writers : add'[u] # NoAdd => n.id # add'[u].id
      BY <1>b, <3>2
    <3>5. \A k \in nodes' : k.type = "fact" /\ k.id = n.id => k.content = n.content
      BY <3>2
    <3> QED BY <3>3, <3>4, <3>5
  <2>4. CASE v = w
    BY <1>a, <2>0, <2>1, <2>2, <2>3, <2>4 DEF Adding
  <2>5. CASE v # w
    <3>1. add'[v] = add[v]
      BY <1>a, <2>5
    <3>2. add[v].pc = "note" => add[v].note.id <= made'
      <4>1. add[v].note \in Conflict \cup {NoNote}
        BY <1>0, <2>0, AddKinds
      <4>2. add[v].pc = "note" => add[v].note.type = "contradiction" /\ add[v].note.id <= made
        BY <2>0 DEF Adding
      <4>3. add[v].pc = "note" => add[v].note \in Conflict
        BY <4>1, <4>2 DEF NoNote
      <4>4. add[v].pc = "note" => add[v].note.id \in Nat
        BY <4>3 DEF Conflict, Ids
      <4> QED BY <1>0, <4>2, <4>4
    <3>3. add[v].pc \in {"conflict", "note"} => \A n \in Active("fact")' : n.id # Last(add[v].todo).id
      BY <2>0 DEF Adding
    <3>4. /\ add[v].pc \in {"retire", "conflict", "note"} <=> add[v].todo # {}
          /\ add[v].todo # {} => add[v].type = "fact"
          /\ add[v].pc = "note" => /\ add[v].note.type = "contradiction"
                                   /\ add[v].note.old = Last(add[v].todo).id /\ add[v].note.new = add[v].id
      BY <2>0 DEF Adding
    <3> QED BY <2>1, <2>2, <2>3, <3>1, <3>2, <3>3, <3>4 DEF Adding
  <2> QED BY <2>4, <2>5
<1>2. GraphShape'
  <2>1. gone' \subseteq 1..made' /\ crossed' \subseteq SUBSET (1..made')
    <3>1. 1..made \subseteq 1..made'
      BY <1>0
    <3>2. gone \subseteq 1..made /\ crossed \subseteq SUBSET (1..made)
      BY <1>0 DEF GraphShape, GraphTypeOK
    <3>3. SUBSET (1..made) \subseteq SUBSET (1..made')
      BY <3>1
    <3> QED BY <3>1, <3>2, <3>3
  <2>2. GraphTypeOK'
    <3>1. /\ today' \in Days /\ overflow' \in BOOLEAN /\ current' \subseteq {CategoryOf[c] : c \in Contents}
      BY <1>0 DEF GraphShape, GraphTypeOK
    <3> QED BY <1>a, <2>1, <3>1 DEF GraphTypeOK, GraphNode
  <2>3. \A m, n \in nodes' : m.type = "fact" /\ n.type = "fact" /\ m.id = n.id => m.content = n.content
    BY <1>0 DEF GraphShape
  <2>4. \A k \in nodes' : k.type = "contradiction" => k.old <= made' /\ k.new <= made'
    <3> SUFFICES ASSUME NEW k \in nodes', k.type = "contradiction" PROVE k.old <= made' /\ k.new <= made'
      OBVIOUS
    <3>1. CASE k = add[w].note /\ add[w].pc = "note"
      BY <1>0, <1>c, <1>n, <3>1 DEF Adding
    <3>2. CASE \E c \in nodes : c.type = "contradiction" /\ c.old = k.old /\ c.new = k.new
      BY <1>0, <1>d, <3>2 DEF GraphShape
    <3> QED BY <3>1, <3>2
  <2>5. \A v, u \in Writers : add'[v] # NoAdd /\ add'[u] # NoAdd /\ v # u => add'[v].id # add'[u].id
    BY <1>0, <1>b DEF GraphShape
  <2> QED BY <1>1, <2>2, <2>3, <2>4, <2>5 DEF GraphShape
<1>3. Retiring'
  <2>1. overflow \/ \A m, n \in Active("fact")' :
          SameKind(m.content, n.content) => m = n \/ {m.id, n.id} \in crossed
    BY <1>0 DEF Retiring
  <2>2. overflow \/ \A v \in Writers : \A n \in Active("fact")' :
          OfKind(add'[v], n.content) => n \in add'[v].todo \/ {n.id, add'[v].id} \in crossed
    <3> SUFFICES ASSUME ~overflow, NEW v \in Writers, NEW n \in Active("fact")', OfKind(add'[v], n.content)
                 PROVE  n \in add'[v].todo \/ {n.id, add'[v].id} \in crossed
      OBVIOUS
    <3>1. OfKind(add[v], n.content) /\ add'[v].id = add[v].id
      BY <1>b DEF OfKind
    <3>2. n \in add[v].todo \/ {n.id, add[v].id} \in crossed
      BY <1>0, <3>1 DEF Retiring
    <3>3. n \in add[v].todo => n \in add'[v].todo
      BY <1>a
    <3> QED BY <3>1, <3>2, <3>3
  <2>3. \A v, u \in Writers :
          add'[v] # NoAdd /\ add'[v].type = "fact" /\ OfKind(add'[u], add'[v].content) /\ v # u
          => {add'[v].id, add'[u].id} \in crossed
    BY <1>0, <1>b DEF Retiring, OfKind
  <2> QED BY <2>1, <2>2, <2>3 DEF Retiring
<1>4. ToldKept'
  <2> SUFFICES ASSUME NEW c \in current
               PROVE  c # Uncategorised /\ (\/ \E n \in Active("fact")' : CategoryOf[n.content] = c
                                            \/ \E v \in Writers : Of(add'[v], c))
    BY DEF ToldKept
  <2>1. c # Uncategorised
    BY <1>0 DEF ToldKept
  <2>2. CASE \E v \in Writers : Of(add[v], c)
    BY <1>b, <2>1, <2>2 DEF Of
  <2>3. CASE \E n \in Active("fact") : CategoryOf[n.content] = c
    <3>1. PICK n \in Active("fact") : CategoryOf[n.content] = c
      BY <2>3
    <3>2. CASE n \in Active("fact")'
      BY <2>1, <3>1, <3>2
    <3>3. CASE add[w].type = "fact" /\ SameKind(n.content, add[w].content)
      <4>1. Of(add'[w], c)
        BY <1>a, <3>1, <3>3 DEF Of, SameKind
      <4> QED BY <2>1, <4>1
    <3> QED BY <3>2, <3>3
  <2> QED BY <1>0, <2>2, <2>3 DEF ToldKept
<1>5. Noted'
  <2> SUFFICES ASSUME NEW k \in nodes', k.type = "contradiction"
               PROVE  /\ \A v \in Writers : add'[v] # NoAdd => k.old # add'[v].id
                      /\ \A n \in Active("fact")' : n.id # k.old
                      /\ \/ overflow \/ k.new \in gone
                         \/ \E v \in Writers : AddOf(add'[v], k.new)
                         \/ \E n \in nodes' : n.id = k.new /\ n.type = "fact"
                         \/ \E p \in crossed : k.new \in p
    BY DEF Noted
  <2>1. CASE k = add[w].note /\ add[w].pc = "note"
    <3>1. \A v \in Writers : add'[v] # NoAdd => k.old # add'[v].id
      BY <1>b, <1>c, <1>n, <2>1 DEF Adding
    <3>2. AddOf(add'[w], k.new)
      BY <1>a, <1>n, <2>1 DEF AddOf, SameKind
    <3> QED BY <1>n, <2>1, <3>1, <3>2
  <2>2. CASE \E c \in nodes : c.type = "contradiction" /\ c.old = k.old /\ c.new = k.new
    <3>1. PICK c \in nodes : c.type = "contradiction" /\ c.old = k.old /\ c.new = k.new
      BY <2>2
    <3>2. /\ \A v \in Writers : add[v] # NoAdd => k.old # add[v].id
          /\ \A n \in Active("fact") : n.id # k.old
      BY <1>0, <3>1 DEF Noted
    <3>3. \/ overflow \/ k.new \in gone
          \/ \E v \in Writers : AddOf(add[v], k.new)
          \/ \E n \in nodes : n.id = k.new /\ n.type = "fact"
          \/ \E p \in crossed : k.new \in p
      BY <1>0, <3>1 DEF Noted
    <3>4. \A v \in Writers : AddOf(add[v], k.new) => AddOf(add'[v], k.new)
      BY <1>b DEF AddOf
    <3>5. (\E n \in nodes : n.id = k.new /\ n.type = "fact")
          => \E n \in nodes' : n.id = k.new /\ n.type = "fact"
      OBVIOUS
    <3>6. \A v \in Writers : add'[v] # NoAdd => k.old # add'[v].id
      BY <1>b, <3>2
    <3> QED BY <3>2, <3>3, <3>4, <3>5, <3>6
  <2> QED BY <2>1, <2>2
<1> QED BY <1>2, <1>3, <1>4, <1>5 DEF GraphInv


\* The add is done with the fact it retired: what it has left.
LEMMA RestOfMany ==
  ASSUME GraphShape, NEW w \in Writers, add[w].pc \in {"retire", "conflict", "note"}, NEW a, a = AfterOne(w)
  PROVE  /\ a \in Add /\ a # NoAdd /\ a.pc \in {"retire", "check"}
         /\ a.type = add[w].type /\ a.content = add[w].content /\ a.id = add[w].id
         /\ a.todo = add[w].todo \ {Last(add[w].todo)} /\ (a.pc = "retire" <=> a.todo # {})
<1>1. add[w] \in Add /\ add[w].todo \in SUBSET FactNode
  BY AddKinds, LastToRetire
<1> DEFINE p == IF Rest(w) = {} THEN "check" ELSE "retire"
<1>2. p \in {"retire", "check"} /\ (p = "retire" <=> Rest(w) # {}) /\ Rest(w) \in SUBSET FactNode
  BY <1>1 DEF Rest
<1>3. a = [add[w] EXCEPT !.pc = p, !.todo = Rest(w), !.note = NoNote]
  BY DEF AfterOne
<1> HIDE DEF Ids, Days, p, Rest, Conflict, FactNode
<1>4. /\ a \in Add /\ a.pc = p /\ a.todo = Rest(w)
      /\ a.type = add[w].type /\ a.content = add[w].content /\ a.id = add[w].id
  BY <1>1, <1>2, <1>3 DEF Add
<1>5. a # NoAdd
  BY <1>2, <1>4 DEF NoAdd
<1> QED BY <1>2, <1>4, <1>5 DEF Rest

\* Some active facts may go, if they are retired; everything else stays.
LEMMA RetireNodes ==
  ASSUME GraphShape, NEW id \in Ids, nodes' = {Retired(n, id) : n \in nodes}
  PROVE  /\ nodes' \subseteq GraphNode /\ IsFiniteSet(nodes')
         /\ Active("fact")' = {n \in Active("fact") : n.id # id}
         /\ \A k \in nodes' : \E n \in nodes :
              /\ k.id = n.id /\ k.type = n.type /\ k.content = n.content
              /\ k.type = "contradiction" => k.old = n.old /\ k.new = n.new
         /\ \A n \in nodes : \E k \in nodes' : k.id = n.id /\ k.type = n.type /\ k.content = n.content
<1>1. \A n \in nodes : /\ n \in GraphNode /\ Retired(n, id) \in nodes'
                       /\ Retired(n, id) \in GraphNode
                       /\ Retired(n, id).id = n.id /\ Retired(n, id).type = n.type
                       /\ Retired(n, id).content = n.content
                       /\ n.type = "contradiction" => /\ Retired(n, id).old = n.old /\ Retired(n, id).new = n.new
                       /\ n.id = id => ~Retired(n, id).active
                       /\ n.id # id => Retired(n, id) = n
  BY NodeKinds, RetiredNode
<1>2. \A k \in nodes' : \E n \in nodes : k = Retired(n, id)
  OBVIOUS
<1>3. Active("fact")' = {n \in Active("fact") : n.id # id}
  <2>1. ASSUME NEW k \in Active("fact")' PROVE k \in Active("fact") /\ k.id # id
    <3>1. k \in nodes' /\ k.active /\ k.type = "fact"
      BY <2>1 DEF Active
    <3>2. PICK n \in nodes : k = Retired(n, id)
      BY <1>2, <3>1
    <3>3. n.id # id /\ k = n
      BY <1>1, <3>1, <3>2
    <3> QED BY <3>1, <3>3 DEF Active
  <2>2. ASSUME NEW n \in Active("fact"), n.id # id PROVE n \in Active("fact")'
    BY <1>1, <2>2 DEF Active
  <2> QED BY <2>1, <2>2
<1>4. IsFiniteSet(nodes')
  <2>1. IsFiniteSet(nodes)
    BY DEF GraphShape
  <2> DEFINE img == {Retired(n, id) : n \in nodes}
             f == [n \in nodes |-> Retired(n, id)]
  <2>2. f \in Surjection(nodes, img)
    BY DEF Surjection
  <2>3. IsFiniteSet(img)
    BY <2>1, <2>2, FS_Surjection
  <2> QED BY <2>3
<1>5. ASSUME NEW k \in nodes'
      PROVE  k \in GraphNode /\ \E n \in nodes :
               /\ k.id = n.id /\ k.type = n.type /\ k.content = n.content
               /\ k.type = "contradiction" => k.old = n.old /\ k.new = n.new
  <2>1. PICK n \in nodes : k = Retired(n, id)
    BY <1>2
  <2> QED BY <1>1, <2>1
<1>6. \A n \in nodes : \E k \in nodes' : k.id = n.id /\ k.type = n.type /\ k.content = n.content
  BY <1>1
<1> QED BY <1>3, <1>4, <1>5, <1>6, Zenon

LEMMA GraphRetire ==
  ASSUME GraphInv, NEW w \in Writers, Retire(w)
  PROVE  GraphInv'
<1> USE GraphOK
<1> DEFINE old == Last(add[w].todo)
<1>0. /\ GraphShape /\ add[w].pc = "retire" /\ made' = made /\ made \in 0..MaxNodes
      /\ UNCHANGED <<today, overflow, crossed, current, gone>>
      /\ nodes' = {Retired(n, old.id) : n \in nodes}
  BY DEF GraphInv, Retire, GraphShape, GraphTypeOK
<1>1. /\ add[w] # NoAdd /\ add[w].type = "fact" /\ old \in add[w].todo /\ old.id \in Ids
      /\ SameKind(old.content, add[w].content)
  BY <1>0, LastToRetire
<1>2. /\ nodes' \subseteq GraphNode /\ IsFiniteSet(nodes')
      /\ Active("fact")' = {n \in Active("fact") : n.id # old.id}
      /\ \A k \in nodes' : \E n \in nodes :
           /\ k.id = n.id /\ k.type = n.type /\ k.content = n.content
           /\ k.type = "contradiction" => k.old = n.old /\ k.new = n.new
      /\ \A n \in nodes : \E k \in nodes' : k.id = n.id /\ k.type = n.type /\ k.content = n.content
  <2> HIDE DEF old
  <2> QED BY <1>0, <1>1, RetireNodes
<1>3. add[w] \in Add /\ Adding(w)
  BY <1>0, <1>1, AddKinds
<1>4. PICK a : /\ add' = [add EXCEPT ![w] = a]
               /\ a = IF old.content = add[w].content THEN AfterOne(w) ELSE [add[w] EXCEPT !.pc = "conflict"]
  BY DEF Retire
<1>5. /\ a \in Add /\ a # NoAdd /\ a.type = add[w].type /\ a.content = add[w].content /\ a.id = add[w].id
      /\ \/ a.pc = "conflict" /\ a.todo = add[w].todo
         \/ a.pc \in {"retire", "check"} /\ a.todo = add[w].todo \ {old} /\ (a.pc = "retire" <=> a.todo # {})
  <2>1. CASE old.content = add[w].content
    BY <1>0, <1>4, <2>1, RestOfMany
  <2>2. CASE old.content # add[w].content
    <3>1. a = [add[w] EXCEPT !.pc = "conflict"]
      BY <1>4, <2>2
    <3> HIDE DEF Ids, Days, Conflict, FactNode, old
    <3>2. /\ a \in Add /\ a.pc = "conflict" /\ a.todo = add[w].todo /\ a.type = add[w].type
          /\ a.content = add[w].content /\ a.id = add[w].id
      BY <1>3, <3>1 DEF Add
    <3> QED BY <3>2 DEF NoAdd
  <2> QED BY <2>1, <2>2
<1>6. a.pc \in {"retire", "conflict", "note"} <=> a.todo # {}
  BY <1>1, <1>5
<1>7. /\ \A k \in nodes' : k.id <= made'
      /\ \A k \in nodes' : k.type = "fact" =>
           \E n \in nodes : n.type = "fact" /\ n.id = k.id /\ n.content = k.content
      /\ \A n \in nodes : n.type = "fact" => \E k \in nodes' : k.type = "fact" /\ k.id = n.id
      /\ \A k \in nodes' : k.type = "contradiction" =>
           \E c \in nodes : c.type = "contradiction" /\ c.old = k.old /\ c.new = k.new
  <2>1. \A n \in nodes : n.id <= made
    BY <1>0 DEF GraphShape
  <2>2. ASSUME NEW k \in nodes'
        PROVE  /\ k.id <= made'
               /\ k.type = "fact" =>
                    \E n \in nodes : n.type = "fact" /\ n.id = k.id /\ n.content = k.content
               /\ k.type = "contradiction" =>
                    \E c \in nodes : c.type = "contradiction" /\ c.old = k.old /\ c.new = k.new
    <3>1. PICK n \in nodes : /\ k.id = n.id /\ k.type = n.type /\ k.content = n.content
                             /\ k.type = "contradiction" => k.old = n.old /\ k.new = n.new
      BY <1>2
    <3> QED BY <1>0, <2>1, <3>1
  <2>3. \A n \in nodes : n.type = "fact" => \E k \in nodes' : k.type = "fact" /\ k.id = n.id
    BY <1>2
  <2> QED BY <2>2, <2>3
<1>8. ASSUME NEW n \in Active("fact")
      PROVE  n \in Active("fact")' \/ (add[w].type = "fact" /\ SameKind(n.content, add[w].content))
  <2>1. CASE n.id = old.id
    BY <1>1, <1>3, <2>1, <1>8 DEF Active, Adding, SameKind
  <2> QED BY <1>2, <2>1
<1>9. /\ \A n \in Active("fact")' : n \in add[w].todo => n \in a.todo
      /\ a.pc \in {"conflict", "note"} => \A n \in Active("fact")' : n.id # Last(a.todo).id
      /\ a.pc # "note" /\ a.todo \subseteq add[w].todo /\ Active("fact")' \subseteq Active("fact")
  BY <1>2, <1>5
<1>10. made' \in 0..MaxNodes /\ made <= made'
  BY <1>0
<1>11. /\ a \in Add /\ a # NoAdd /\ a.type = add[w].type /\ a.content = add[w].content
       /\ a.id = add[w].id /\ add' = [add EXCEPT ![w] = a]
  BY <1>4, <1>5
<1>12. /\ add[w] # NoAdd /\ UNCHANGED <<today, overflow, crossed, current, gone>>
       /\ nodes' \subseteq GraphNode /\ IsFiniteSet(nodes')
  BY <1>0, <1>1, <1>2
<1> HIDE DEF old
<1> QED BY <1>6, <1>7, <1>8, <1>9, <1>10, <1>11, <1>12, GraphMove

\* What holds of every step that leaves the nodes as they are.
LEMMA SameNodes ==
  ASSUME GraphShape, nodes' = nodes, made' \in {made, made + 1}
  PROVE  /\ nodes' \subseteq GraphNode /\ IsFiniteSet(nodes') /\ Active("fact")' = Active("fact")
         /\ \A k \in nodes' : k.id <= made'
         /\ \A k \in nodes' : k.type = "fact" =>
              \E n \in nodes : n.type = "fact" /\ n.id = k.id /\ n.content = k.content
         /\ \A n \in nodes : n.type = "fact" => \E k \in nodes' : k.type = "fact" /\ k.id = n.id
         /\ \A k \in nodes' : k.type = "contradiction" =>
              \E c \in nodes : c.type = "contradiction" /\ c.old = k.old /\ c.new = k.new
<1>1. nodes' \subseteq GraphNode /\ IsFiniteSet(nodes') /\ Active("fact")' = Active("fact")
  BY DEF GraphShape, GraphTypeOK, GraphNode, Active
<1>2. made \in Nat
  BY GraphOK DEF GraphShape, GraphTypeOK
<1>3. \A k \in nodes' : k.id <= made'
  BY <1>2, NodeKinds
<1> QED BY <1>1, <1>3

LEMMA GraphFindConflict ==
  ASSUME GraphInv, NEW w \in Writers, FindConflict(w)
  PROVE  GraphInv'
<1> USE GraphOK
<1> DEFINE old == Last(add[w].todo)
           note == [type |-> "contradiction", content |-> <<old.content, add[w].content>>, id |-> made',
                    day |-> today, active |-> TRUE, old |-> old.id, new |-> add[w].id]
<1>0. /\ GraphShape /\ add[w].pc = "conflict" /\ made \in 0..MaxNodes
      /\ UNCHANGED <<nodes, today, overflow, crossed, current, gone>> /\ today \in Days
  BY DEF GraphInv, FindConflict, GraphShape, GraphTypeOK
<1>1. /\ add[w] # NoAdd /\ add[w].type = "fact" /\ old \in add[w].todo /\ old.id \in Ids
      /\ old.content \in Contents /\ add[w].content \in Contents /\ add[w].id \in Ids
  BY <1>0, LastToRetire
<1>2. add[w] \in Add /\ Adding(w)
  BY <1>0, <1>1, AddKinds
<1>3. \/ add' = [add EXCEPT ![w] = AfterOne(w)] /\ made' = made
      \/ /\ made < MaxNodes /\ made' = made + 1
         /\ add' = [add EXCEPT ![w].pc = "note", ![w].note = note]
  BY DEF FindConflict
<1>4. made' = made + 1 /\ made < MaxNodes => note \in Conflict
  <2>1. made' = made + 1 /\ made < MaxNodes => made' \in Ids
    BY <1>0 DEF Ids
  <2> HIDE DEF Ids, Days, old
  <2> QED BY <1>0, <1>1, <2>1 DEF Conflict
<1>5. /\ note.type = "contradiction" /\ note.id = made' /\ note.old = old.id /\ note.new = add[w].id
  OBVIOUS
<1>6. \A n \in Active("fact") : n.id # old.id
  BY <1>0, <1>2 DEF Adding
<1> HIDE DEF note
<1>7. made' \in 0..MaxNodes /\ made <= made' /\ made' \in {made, made + 1}
  BY <1>0, <1>3
<1>8. Active("fact")' = Active("fact")
  BY <1>0, <1>7, SameNodes
<1>9. CASE add' = [add EXCEPT ![w] = AfterOne(w)]
  <2>1. PICK a : a = AfterOne(w) /\ add' = [add EXCEPT ![w] = a]
    BY <1>9
  <2>2. /\ a \in Add /\ a # NoAdd /\ a.pc \in {"retire", "check"}
        /\ a.type = add[w].type /\ a.content = add[w].content /\ a.id = add[w].id
        /\ a.todo = add[w].todo \ {old} /\ (a.pc = "retire" <=> a.todo # {})
    BY <1>0, <2>1, RestOfMany
  <2>3. /\ a.pc \in {"retire", "conflict", "note"} <=> a.todo # {}
        /\ a.todo \subseteq add[w].todo
        /\ a.pc \notin {"conflict", "note"}
    BY <2>2
  <2>4. \A n \in Active("fact")' : n \in add[w].todo => n \in a.todo
    BY <1>6, <1>8, <2>2
  <2> HIDE DEF old
  <2> QED BY <1>0, <1>1, <1>7, <1>8, <2>1, <2>2, <2>3, <2>4, SameNodes, GraphMove
<1>10. CASE /\ made < MaxNodes /\ made' = made + 1
            /\ add' = [add EXCEPT ![w].pc = "note", ![w].note = note]
  <2>1. PICK a : a = [add[w] EXCEPT !.pc = "note", !.note = note] /\ add' = [add EXCEPT ![w] = a]
    BY <1>10
  <2>2. /\ a \in Add /\ a.pc = "note" /\ a.note = note
        /\ a.type = add[w].type /\ a.content = add[w].content /\ a.id = add[w].id
        /\ a.todo = add[w].todo
    <3> HIDE DEF Ids, Days, Conflict, FactNode, old
    <3> QED BY <1>2, <1>4, <1>10, <2>1 DEF Add
  <2>3. a # NoAdd /\ a.todo # {}
    BY <1>1, <2>2 DEF NoAdd
  <2>4. /\ a.pc \in {"retire", "conflict", "note"} <=> a.todo # {}
        /\ \A n \in Active("fact")' : n.id # Last(a.todo).id
        /\ a.note.type = "contradiction" /\ a.note.id <= made'
        /\ a.note.old = Last(a.todo).id /\ a.note.new = a.id
    BY <1>0, <1>5, <1>6, <1>8, <1>10, <2>2, <2>3
  <2>5. /\ a.todo \subseteq add[w].todo /\ Active("fact")' \subseteq Active("fact")
        /\ \A n \in Active("fact") : n \in Active("fact")'
        /\ \A n \in Active("fact")' : n \in add[w].todo => n \in a.todo
    BY <1>8, <2>2
  <2>6. add[w] # NoAdd /\ UNCHANGED <<today, overflow, crossed, current, gone>>
    BY <1>0, <1>1
  <2>7. /\ nodes' \subseteq GraphNode /\ IsFiniteSet(nodes')
        /\ \A k \in nodes' : k.id <= made'
        /\ \A k \in nodes' : k.type = "fact" =>
             \E n \in nodes : n.type = "fact" /\ n.id = k.id /\ n.content = k.content
        /\ \A n \in nodes : n.type = "fact" => \E k \in nodes' : k.type = "fact" /\ k.id = n.id
        /\ \A k \in nodes' : k.type = "contradiction" =>
             \E c \in nodes : c.type = "contradiction" /\ c.old = k.old /\ c.new = k.new
    BY <1>0, <1>7, SameNodes
  <2>8. a.pc = "note" => /\ a.note.type = "contradiction" /\ a.note.id <= made'
                         /\ a.note.old = Last(a.todo).id /\ a.note.new = a.id
    BY <2>4
  <2>9. a.pc \in {"conflict", "note"} => \A n \in Active("fact")' : n.id # Last(a.todo).id
    BY <2>4
  <2>10. /\ a \in Add /\ a # NoAdd /\ a.type = add[w].type /\ a.content = add[w].content
         /\ a.id = add[w].id /\ add' = [add EXCEPT ![w] = a]
         /\ a.pc \in {"retire", "conflict", "note"} <=> a.todo # {}
    BY <2>1, <2>2, <2>3, <2>4
  <2>11. made' \in 0..MaxNodes /\ made <= made'
    BY <1>7
  <2> QED BY <2>5, <2>6, <2>7, <2>8, <2>9, <2>10, <2>11, GraphMove
<1> QED BY <1>3, <1>9, <1>10

LEMMA GraphCheckNew ==
  ASSUME GraphInv, NEW w \in Writers, CheckNew(w)
  PROVE  GraphInv'
<1>0. /\ GraphShape /\ add[w].pc = "check" /\ made' = made /\ made \in 0..MaxNodes
      /\ UNCHANGED <<nodes, today, overflow, crossed, current, gone>>
  BY DEF GraphInv, CheckNew, GraphShape, GraphTypeOK
<1>1. add[w] # NoAdd /\ add[w] \in Add /\ Adding(w)
  BY <1>0, AddKinds
<1>2. PICK a : a = [add[w] EXCEPT !.pc = "insert"] /\ add' = [add EXCEPT ![w] = a]
  BY DEF CheckNew
<1>3. /\ a \in Add /\ a.pc = "insert" /\ a.todo = add[w].todo /\ a.type = add[w].type
      /\ a.content = add[w].content /\ a.id = add[w].id
  <2> HIDE DEF Ids, Days, Conflict, FactNode
  <2> QED BY <1>1, <1>2 DEF Add
<1>4. a # NoAdd /\ a.todo = {}
  BY <1>0, <1>1, <1>3 DEF NoAdd, Adding
<1>5. made' \in 0..MaxNodes /\ made <= made' /\ made' \in {made, made + 1}
  BY <1>0, GraphOK
<1>6. Active("fact")' = Active("fact")
  BY <1>0, <1>5, SameNodes
<1> QED BY <1>0, <1>1, <1>2, <1>3, <1>4, <1>5, <1>6, SameNodes, GraphMove

LEMMA GraphNoteConflict ==
  ASSUME GraphInv, NEW w \in Writers, NoteConflict(w)
  PROVE  GraphInv'
<1> USE GraphOK
<1> DEFINE note == add[w].note
<1>0. /\ GraphShape /\ add[w].pc = "note" /\ made' = made /\ made \in 0..MaxNodes
      /\ UNCHANGED <<today, overflow, crossed, current, gone>> /\ nodes' = nodes \cup {note}
  BY DEF GraphInv, NoteConflict, GraphShape, GraphTypeOK
<1>1. add[w] # NoAdd /\ add[w] \in Add /\ Adding(w)
  BY <1>0, AddKinds
<1>2. note \in Conflict /\ note.type = "contradiction" /\ note.id <= made
  <2>1. note \in Conflict \cup {NoNote} /\ note.type = "contradiction" /\ note.id <= made
    BY <1>0, <1>1, AddKinds DEF Adding
  <2> QED BY <2>1 DEF NoNote
<1>3. PICK a : a = AfterOne(w) /\ add' = [add EXCEPT ![w] = a]
  BY DEF NoteConflict
<1>4. /\ a \in Add /\ a # NoAdd /\ a.pc \in {"retire", "check"}
      /\ a.type = add[w].type /\ a.content = add[w].content /\ a.id = add[w].id
      /\ a.todo = add[w].todo \ {Last(add[w].todo)} /\ (a.pc = "retire" <=> a.todo # {})
  BY <1>0, <1>3, RestOfMany
<1>5. /\ a.pc \in {"retire", "conflict", "note"} <=> a.todo # {}
      /\ a.todo \subseteq add[w].todo
      /\ a.pc \notin {"conflict", "note"}
  BY <1>4
<1>6. \A n \in Active("fact") : n.id # Last(add[w].todo).id
  BY <1>0, <1>1 DEF Adding
<1> HIDE DEF note
<1>7. Active("fact")' = Active("fact")
  BY <1>0, <1>2 DEF Active
<1>8. nodes' \subseteq GraphNode /\ IsFiniteSet(nodes')
  BY <1>0, <1>2, FS_AddElement DEF GraphShape, GraphTypeOK, GraphNode
<1>9. /\ \A k \in nodes' : k.id <= made'
      /\ \A k \in nodes' : k.type = "fact" =>
           \E n \in nodes : n.type = "fact" /\ n.id = k.id /\ n.content = k.content
      /\ \A n \in nodes : n.type = "fact" => \E k \in nodes' : k.type = "fact" /\ k.id = n.id
      /\ \A k \in nodes' : k.type = "contradiction" =>
           \/ \E c \in nodes : c.type = "contradiction" /\ c.old = k.old /\ c.new = k.new
           \/ k = note /\ add[w].pc = "note"
  BY <1>0, <1>2 DEF GraphShape
<1>10. \A n \in Active("fact")' : n \in add[w].todo => n \in a.todo
  BY <1>4, <1>6, <1>7
<1>11. made' \in 0..MaxNodes /\ made <= made'
  BY <1>0
<1> QED BY <1>0, <1>1, <1>3, <1>4, <1>5, <1>7, <1>8, <1>9, <1>10, <1>11, GraphMove DEF note

\* When an add stops, those of the other writers are as they were.
LEMMA OthersStay ==
  ASSUME GraphShape, NEW w \in Writers, add' = [add EXCEPT ![w] = NoAdd], made' = made,
         \A k \in nodes' : k.type = "fact" =>
           \/ \E n \in nodes : n.type = "fact" /\ n.id = k.id /\ n.content = k.content
           \/ k.id = add[w].id /\ add[w] # NoAdd,
         \A k \in Active("fact")' : k \in Active("fact") \/ (k.id = add[w].id /\ add[w] # NoAdd)
  PROVE  /\ add'[w] = NoAdd /\ \A v \in Writers : v # w => add'[v] = add[v]
         /\ \A v \in Writers : add'[v] # NoAdd => v # w /\ add'[v] = add[v] /\ Adding(v)'
         /\ add' \in [Writers -> Add \cup {NoAdd}]
<1>a. /\ add'[w] = NoAdd /\ \A v \in Writers : v # w => add'[v] = add[v]
      /\ add' \in [Writers -> Add \cup {NoAdd}]
  <2>1. add \in [Writers -> Add \cup {NoAdd}]
    BY DEF GraphShape, GraphTypeOK
  <2> QED BY <2>1, OneMoves
<1>1. ASSUME NEW v \in Writers, add'[v] # NoAdd PROVE v # w /\ add'[v] = add[v] /\ Adding(v)'
  <2>1. v # w /\ add'[v] = add[v] /\ add[v] # NoAdd
    BY <1>a, <1>1
  <2>2. Adding(v)
    BY <2>1 DEF GraphShape
  <2>3. add[w] # NoAdd => add[w].id # add[v].id
    BY <2>1 DEF GraphShape
  <2>4. \A k \in nodes' : k.type = "fact" => k.id # add[v].id
    BY <2>2, <2>3 DEF Adding
  <2>5. \A n \in add[v].todo :
          /\ SameKind(n.content, add[v].content) /\ n.id <= made
          /\ \A u \in Writers : add'[u] # NoAdd => n.id # add'[u].id
          /\ \A k \in nodes' : k.type = "fact" /\ k.id = n.id => k.content = n.content
    <3> SUFFICES ASSUME NEW n \in add[v].todo
                 PROVE  /\ SameKind(n.content, add[v].content) /\ n.id <= made
                        /\ \A u \in Writers : add'[u] # NoAdd => n.id # add'[u].id
                        /\ \A k \in nodes' : k.type = "fact" /\ k.id = n.id => k.content = n.content
      OBVIOUS
    <3>1. /\ SameKind(n.content, add[v].content) /\ n.id <= made
          /\ \A u \in Writers : add[u] # NoAdd => n.id # add[u].id
          /\ \A k \in nodes : k.type = "fact" /\ k.id = n.id => k.content = n.content
      BY <2>2 DEF Adding
    <3>2. \A u \in Writers : add'[u] # NoAdd => n.id # add'[u].id
      BY <1>a, <3>1
    <3>3. \A k \in nodes' : k.type = "fact" /\ k.id = n.id => k.content = n.content
      BY <3>1
    <3> QED BY <3>1, <3>2, <3>3
  <2>6. add[v].pc \in {"conflict", "note"} => \A n \in Active("fact")' : n.id # Last(add[v].todo).id
    <3> SUFFICES ASSUME add[v].pc \in {"conflict", "note"}, NEW n \in Active("fact")'
                 PROVE  n.id # Last(add[v].todo).id
      OBVIOUS
    <3>1. \A m \in Active("fact") : m.id # Last(add[v].todo).id
      BY <2>2 DEF Adding
    <3>2. Last(add[v].todo) \in add[v].todo
      BY LastToRetire
    <3>3. add[w] # NoAdd => add[w].id # Last(add[v].todo).id
      BY <2>2, <3>2 DEF Adding
    <3> QED BY <3>1, <3>3
  <2>7. Adding(v)'
    BY <2>1, <2>2, <2>4, <2>5, <2>6 DEF Adding
  <2> QED BY <2>1, <2>7
<1> QED BY <1>a, <1>1

\* The add returns: what it has to say is among the active nodes.
LEMMA GraphReturn ==
  ASSUME GraphInv, NEW w \in Writers, Check(w) \/ Insert(w)
  PROVE  GraphInv'
<1> USE GraphOK
<1> DEFINE node == [type |-> add[w].type, content |-> add[w].content, id |-> add[w].id, day |-> add[w].day,
                    active |-> TRUE]
           known == \E n \in Active(add[w].type) : n.content = add[w].content
<1>0. /\ GraphShape /\ Retiring /\ ToldKept /\ Noted /\ add[w].pc \in {"check", "insert"}
      /\ add' = [add EXCEPT ![w] = NoAdd]
      /\ UNCHANGED <<made, today, overflow, crossed, gone>>
      /\ current' = current \cup Told(add[w].type, add[w].content)
  BY DEF GraphInv, Check, Insert, Return
<1>1. /\ add[w] # NoAdd /\ Adding(w) /\ add[w].todo = {}
      /\ add[w].type \in {"fact", "thread"} /\ add[w].id \in Ids /\ add[w].id \in Nat /\ add[w].id <= made
      /\ add[w].day \in Days
      /\ add[w].type = "fact" => add[w].content \in Contents
      /\ add[w].type = "thread" => add[w].content \in Threads
      /\ \A n \in nodes : n.type = "fact" => n.id # add[w].id
  BY <1>0, AddKinds DEF Adding
<1>2. (nodes' = nodes /\ known) \/ nodes' = nodes \cup {node}
  BY DEF Check, Insert, Recent
<1>3. /\ node.type = add[w].type /\ node.content = add[w].content /\ node.id = add[w].id /\ node.active
  OBVIOUS
<1>4. node \in GraphNode
  <2> HIDE DEF Ids, Days
  <2>1. CASE add[w].type = "fact"
    BY <1>1, <2>1 DEF FactNode, GraphNode
  <2>2. CASE add[w].type = "thread"
    BY <1>1, <2>2 DEF ThreadNode, GraphNode
  <2> QED BY <1>1, <2>1, <2>2
<1> HIDE DEF node
<1>7. nodes \subseteq nodes' /\ \A k \in nodes' : k \in nodes \/ k = node
  BY <1>2
<1>8. /\ Active("fact") \subseteq Active("fact")'
      /\ \A k \in Active("fact")' : k \in Active("fact") \/ (k = node /\ add[w].type = "fact")
      /\ add[w].type = "fact" => \E n \in Active("fact")' : n.content = add[w].content
  BY <1>2, <1>3, <1>7 DEF Active
<1>k. nodes' = nodes => known
  <2>1. CASE nodes' = nodes /\ node \in nodes
    BY <1>1, <1>3, <2>1 DEF Active
  <2> QED BY <1>2, <2>1
<1> HIDE DEF known
<1>9. /\ add'[w] = NoAdd /\ \A v \in Writers : v # w => add'[v] = add[v]
      /\ \A v \in Writers : add'[v] # NoAdd => v # w /\ add'[v] = add[v] /\ Adding(v)'
      /\ add' \in [Writers -> Add \cup {NoAdd}]
  <2>1. \A k \in nodes' : k.type = "fact" =>
           \/ \E n \in nodes : n.type = "fact" /\ n.id = k.id /\ n.content = k.content
           \/ k.id = add[w].id /\ add[w] # NoAdd
    BY <1>1, <1>3, <1>7
  <2>2. \A k \in Active("fact")' : k \in Active("fact") \/ (k.id = add[w].id /\ add[w] # NoAdd)
    BY <1>1, <1>3, <1>8
  <2> QED BY <1>0, <2>1, <2>2, OthersStay
<1>10. GraphShape'
  <2>1. nodes' \subseteq GraphNode /\ IsFiniteSet(nodes')
    BY <1>0, <1>2, <1>4, FS_AddElement DEF GraphShape, GraphTypeOK, GraphNode
  <2>2. current' \subseteq {CategoryOf[c] : c \in Contents}
    BY <1>0, <1>1 DEF Told, GraphShape, GraphTypeOK
  <2>3. GraphTypeOK'
    BY <1>0, <1>9, <2>1, <2>2 DEF GraphShape, GraphTypeOK, GraphNode
  <2>4. \A j, k \in nodes' : j.type = "fact" /\ k.type = "fact" /\ j.id = k.id => j.content = k.content
    BY <1>0, <1>1, <1>3, <1>7 DEF GraphShape
  <2>5. \A k \in nodes' : k.id <= made'
    BY <1>0, <1>1, <1>3, <1>7 DEF GraphShape
  <2>6. \A k \in nodes' : k.type = "contradiction" => k.old <= made' /\ k.new <= made'
    BY <1>0, <1>1, <1>3, <1>7 DEF GraphShape
  <2>7. \A v, u \in Writers : add'[v] # NoAdd /\ add'[u] # NoAdd /\ v # u => add'[v].id # add'[u].id
    BY <1>0, <1>9 DEF GraphShape
  <2> QED BY <1>9, <2>1, <2>3, <2>4, <2>5, <2>6, <2>7 DEF GraphShape
<1>11. Retiring'
  <2>0. ASSUME ~overflow, NEW k \in Active("fact"), add[w].type = "fact", SameKind(k.content, add[w].content)
        PROVE  {k.id, add[w].id} \in crossed
    BY <1>0, <1>1, <2>0 DEF Retiring, OfKind
  <2>1. ASSUME ~overflow, NEW m \in Active("fact")', NEW n \in Active("fact")',
               SameKind(m.content, n.content)
        PROVE  m = n \/ {m.id, n.id} \in crossed
    <3>2. CASE m \in Active("fact") /\ n \in Active("fact")
      BY <1>0, <2>1, <3>2 DEF Retiring
    <3>3. CASE m = node /\ n \in Active("fact") /\ add[w].type = "fact"
      <4>1. SameKind(n.content, add[w].content)
        BY <1>3, <2>1, <3>3 DEF SameKind
      <4>2. {n.id, m.id} \in crossed
        BY <1>3, <2>0, <2>1, <3>3, <4>1
      <4>3. {n.id, m.id} = {m.id, n.id}
        OBVIOUS
      <4> QED BY <4>2, <4>3
    <3>4. CASE n = node /\ m \in Active("fact") /\ add[w].type = "fact"
      BY <1>3, <2>0, <2>1, <3>4
    <3> QED BY <1>8, <2>1, <3>2, <3>3, <3>4
  <2>2. ASSUME ~overflow, NEW v \in Writers, NEW n \in Active("fact")', OfKind(add'[v], n.content)
        PROVE  n \in add'[v].todo \/ {n.id, add'[v].id} \in crossed
    <3>1. v # w /\ add'[v] = add[v] /\ OfKind(add[v], n.content)
      BY <1>9, <2>2 DEF OfKind
    <3>2. CASE n \in Active("fact")
      BY <1>0, <2>2, <3>1, <3>2 DEF Retiring
    <3>3. CASE n = node /\ add[w].type = "fact"
      BY <1>0, <1>1, <1>3, <3>1, <3>3 DEF Retiring
    <3> QED BY <1>8, <2>2, <3>2, <3>3
  <2>3. \A v, u \in Writers :
          add'[v] # NoAdd /\ add'[v].type = "fact" /\ OfKind(add'[u], add'[v].content) /\ v # u
          => {add'[v].id, add'[u].id} \in crossed
    BY <1>0, <1>9 DEF Retiring, OfKind
  <2> QED BY <1>0, <2>1, <2>2, <2>3 DEF Retiring
<1>12. ToldKept'
  <2> SUFFICES ASSUME NEW c \in current'
               PROVE  c # Uncategorised /\ (\/ \E n \in Active("fact")' : CategoryOf[n.content] = c
                                            \/ \E v \in Writers : Of(add'[v], c))
    BY DEF ToldKept
  <2>1. ASSUME add[w].type = "fact", CategoryOf[add[w].content] = c
        PROVE  \E n \in Active("fact")' : CategoryOf[n.content] = c
    BY <1>8, <2>1
  <2>2. CASE c \in Told(add[w].type, add[w].content)
    BY <2>1, <2>2 DEF Told
  <2>3. CASE c \in current
    <3>1. c # Uncategorised
      BY <1>0, <2>3 DEF ToldKept
    <3>2. CASE \E n \in Active("fact") : CategoryOf[n.content] = c
      BY <1>8, <3>1, <3>2
    <3>3. ASSUME NEW v \in Writers, Of(add[v], c)
          PROVE  (\E n \in Active("fact")' : CategoryOf[n.content] = c) \/ Of(add'[v], c)
      BY <1>9, <2>1, <3>3 DEF Of
    <3> QED BY <1>0, <2>3, <3>1, <3>2, <3>3 DEF ToldKept
  <2> QED BY <1>0, <2>2, <2>3
<1>13. Noted'
  <2> SUFFICES ASSUME NEW k \in nodes', k.type = "contradiction"
               PROVE  /\ \A v \in Writers : add'[v] # NoAdd => k.old # add'[v].id
                      /\ \A n \in Active("fact")' : n.id # k.old
                      /\ \/ overflow \/ k.new \in gone
                         \/ \E v \in Writers : AddOf(add'[v], k.new)
                         \/ \E n \in nodes' : n.id = k.new /\ n.type = "fact"
                         \/ \E p \in crossed : k.new \in p
    BY <1>0 DEF Noted
  <2>1. k \in nodes
    BY <1>1, <1>3, <1>7
  <2>2. /\ \A v \in Writers : add[v] # NoAdd => k.old # add[v].id
        /\ \A n \in Active("fact") : n.id # k.old
    BY <1>0, <2>1 DEF Noted
  <2>3. \A v \in Writers : add'[v] # NoAdd => k.old # add'[v].id
    BY <1>9, <2>2
  <2>4. \A n \in Active("fact")' : n.id # k.old
    BY <1>1, <1>3, <1>8, <2>2
  <2>5. \/ overflow \/ k.new \in gone
        \/ \E v \in Writers : AddOf(add[v], k.new)
        \/ \E n \in nodes : n.id = k.new /\ n.type = "fact"
        \/ \E p \in crossed : k.new \in p
    BY <1>0, <2>1 DEF Noted
  <2>6. ASSUME AddOf(add[w], k.new), ~overflow
        PROVE  \/ \E n \in nodes' : n.id = k.new /\ n.type = "fact"
               \/ \E p \in crossed : k.new \in p
    <3>1. add[w].id = k.new /\ add[w].type = "fact" /\ CategoryOf[add[w].content] # Uncategorised
      BY <2>6 DEF AddOf
    <3>2. CASE nodes' = nodes
      <4>1. PICK e \in Active("fact") : e.content = add[w].content
        BY <1>k, <3>1, <3>2 DEF known
      <4>2. OfKind(add[w], e.content)
        BY <1>1, <3>1, <4>1 DEF OfKind, SameKind
      <4>3. {e.id, add[w].id} \in crossed
        BY <1>0, <1>1, <2>6, <4>2 DEF Retiring
      <4> QED BY <3>1, <4>3
    <3>3. CASE nodes' # nodes
      <4>1. node \in nodes'
        BY <1>2, <3>3
      <4> QED BY <1>3, <3>1, <4>1
    <3> QED BY <3>2, <3>3
  <2>7. \A v \in Writers : v # w /\ AddOf(add[v], k.new) => AddOf(add'[v], k.new)
    BY <1>9
  <2> QED BY <1>7, <2>3, <2>4, <2>5, <2>6, <2>7
<1> QED BY <1>10, <1>11, <1>12, <1>13 DEF GraphInv

LEMMA GraphCutShort ==
  ASSUME GraphInv, NEW w \in Writers, CutShort(w)
  PROVE  GraphInv'
<1>0. /\ GraphShape /\ Retiring /\ ToldKept /\ Noted /\ add[w] # NoAdd /\ add' = [add EXCEPT ![w] = NoAdd]
      /\ UNCHANGED <<nodes, made, today, overflow, crossed>>
      /\ gone' = gone \cup {add[w].id} /\ current' = current \ Told(add[w].type, add[w].content)
      /\ Active("fact")' = Active("fact")
  BY DEF GraphInv, CutShort, Active
<1>1. add[w].id \in Ids /\ add[w].id <= made /\ made \in Nat
  BY <1>0, AddKinds, GraphOK DEF Adding, GraphShape, GraphTypeOK
<1>9. /\ add'[w] = NoAdd /\ \A v \in Writers : v # w => add'[v] = add[v]
      /\ \A v \in Writers : add'[v] # NoAdd => v # w /\ add'[v] = add[v] /\ Adding(v)'
      /\ add' \in [Writers -> Add \cup {NoAdd}]
  BY <1>0, OthersStay
<1>2. GraphShape'
  <2>0. add[w].id \in 1..made
    BY <1>1 DEF Ids
  <2>1. gone' \subseteq 1..made' /\ current' \subseteq current
    <3>1. gone \subseteq 1..made
      BY <1>0 DEF GraphShape, GraphTypeOK
    <3> QED BY <1>0, <2>0, <3>1, Zenon
  <2>2. GraphTypeOK'
    BY <1>0, <1>9, <2>1 DEF GraphShape, GraphTypeOK
  <2>3. \A v, u \in Writers : add'[v] # NoAdd /\ add'[u] # NoAdd /\ v # u => add'[v].id # add'[u].id
    BY <1>0, <1>9 DEF GraphShape
  <2> QED BY <1>0, <1>9, <2>2, <2>3 DEF GraphShape
<1>3. Retiring'
  BY <1>0, <1>9 DEF Retiring, OfKind
<1>4. ToldKept'
  <2> SUFFICES ASSUME NEW c \in current'
               PROVE  c # Uncategorised /\ (\/ \E n \in Active("fact")' : CategoryOf[n.content] = c
                                            \/ \E v \in Writers : Of(add'[v], c))
    BY DEF ToldKept
  <2>1. c \in current /\ c \notin Told(add[w].type, add[w].content) /\ c # Uncategorised
    BY <1>0 DEF ToldKept
  <2>2. ~Of(add[w], c)
    BY <2>1 DEF Of, Told
  <2>3. \A v \in Writers : Of(add[v], c) => Of(add'[v], c)
    BY <1>9, <2>2
  <2> QED BY <1>0, <2>1, <2>3 DEF ToldKept
<1>5. Noted'
  <2>1. \A v \in Writers, c \in nodes : AddOf(add[v], c.new) => AddOf(add'[v], c.new) \/ c.new \in gone'
    BY <1>0, <1>9 DEF AddOf
  <2> QED BY <1>0, <1>9, <2>1 DEF Noted
<1> QED BY <1>2, <1>3, <1>4, <1>5 DEF GraphInv

\* Nodes go, and what was told of them with them.
LEMMA GraphRemove ==
  ASSUME GraphInv, NEW dead \in SUBSET nodes, Remove(dead)
  PROVE  GraphInv'
<1> USE GraphOK
<1>0. GraphShape /\ Retiring /\ ToldKept /\ Noted /\ UNCHANGED <<made, today, add, overflow, crossed>>
      /\ nodes' = nodes \ dead
  BY DEF GraphInv, Remove
<1>1. Active("fact")' = Active("fact") \ dead
  BY <1>0 DEF Active
<1>2. GraphShape'
  <2>1. IsFiniteSet(nodes')
    BY <1>0, FS_Subset DEF GraphShape
  <2>2. gone' \subseteq 1..made'
    <3>1. \A n \in dead : n.id \in 1..made
      BY <1>0, NodeKinds DEF Ids
    <3>2. gone \subseteq 1..made
      BY <1>0 DEF GraphShape, GraphTypeOK
    <3>3. gone' = gone \cup {n.id : n \in dead}
      BY DEF Remove
    <3>4. {n.id : n \in dead} \subseteq 1..made
      BY <3>1
    <3> QED BY <1>0, <3>2, <3>3, <3>4
  <2>3. current' \subseteq {CategoryOf[c] : c \in Contents}
    BY <1>0 DEF Remove, GraphShape, GraphTypeOK
  <2>4. GraphTypeOK'
    BY <1>0, <2>2, <2>3 DEF GraphShape, GraphTypeOK
  <2>5. ASSUME NEW w \in Writers, add[w] # NoAdd PROVE Adding(w)'
    <3>1. Adding(w)
      BY <1>0, <2>5 DEF GraphShape
    <3>2. \A n \in nodes' : n \in nodes
      BY <1>0
    <3>3. \A n \in Active("fact")' : n \in Active("fact")
      BY <1>1
    <3> QED BY <1>0, <3>1, <3>2, <3>3 DEF Adding
  <2> QED BY <1>0, <2>1, <2>4, <2>5 DEF GraphShape
<1>3. Retiring'
  BY <1>0, <1>1 DEF Retiring
<1>4. ToldKept'
  <2>1. ASSUME NEW c \in current'
        PROVE  c # Uncategorised /\ (\/ \E n \in Active("fact")' : CategoryOf[n.content] = c
                                     \/ \E v \in Writers : Of(add'[v], c))
    <3>1. c \in current /\ \A m \in dead : m.active => c \notin Told(m.type, m.content)
      BY <2>1 DEF Remove
    <3>5. c # Uncategorised
      BY <1>0, <3>1 DEF ToldKept
    <3>2. CASE \E v \in Writers : Of(add[v], c)
      BY <1>0, <3>2, <3>5
    <3>3. CASE \E n \in Active("fact") : CategoryOf[n.content] = c /\ n \notin dead
      BY <1>1, <3>3, <3>5
    <3>4. ASSUME NEW n \in Active("fact"), CategoryOf[n.content] = c, n \in dead PROVE c = Uncategorised
      BY <3>1, <3>4 DEF Active, Told
    <3> QED BY <1>0, <3>1, <3>2, <3>3, <3>4, <3>5 DEF ToldKept
  <2> QED BY <2>1 DEF ToldKept
<1>5. Noted'
  <2>1. \A n \in dead : n.id \in gone'
    BY DEF Remove
  <2>2. gone \subseteq gone'
    BY DEF Remove
  <2>3. ASSUME NEW c \in nodes', c.type = "contradiction"
        PROVE  /\ \A v \in Writers : add'[v] # NoAdd => c.old # add'[v].id
               /\ \A n \in Active("fact")' : n.id # c.old
               /\ \/ overflow \/ c.new \in gone'
                  \/ \E v \in Writers : AddOf(add'[v], c.new)
                  \/ \E n \in nodes' : n.id = c.new /\ n.type = "fact"
                  \/ \E p \in crossed : c.new \in p
    <3>1. c \in nodes
      BY <1>0, <2>3
    <3>2. /\ \A v \in Writers : add[v] # NoAdd => c.old # add[v].id
          /\ \A n \in Active("fact") : n.id # c.old
      BY <1>0, <2>3, <3>1 DEF Noted
    <3>3. \/ overflow \/ c.new \in gone
          \/ \E v \in Writers : AddOf(add[v], c.new)
          \/ \E n \in nodes : n.id = c.new /\ n.type = "fact"
          \/ \E p \in crossed : c.new \in p
      BY <1>0, <2>3, <3>1 DEF Noted
    <3>4. (\E n \in nodes : n.id = c.new /\ n.type = "fact")
          => c.new \in gone' \/ \E n \in nodes' : n.id = c.new /\ n.type = "fact"
      BY <1>0, <2>1
    <3>5. \A n \in Active("fact")' : n.id # c.old
      BY <1>1, <3>2
    <3>6. \A v \in Writers : add'[v] # NoAdd => c.old # add'[v].id
      BY <1>0, <3>2
    <3> QED BY <1>0, <2>2, <3>3, <3>4, <3>5, <3>6
  <2> QED BY <1>0, <2>3 DEF Noted
<1> QED BY <1>2, <1>3, <1>4, <1>5 DEF GraphInv

LEMMA GraphBegin ==
  ASSUME GraphInv, NEW w \in Writers, NEW type \in {"fact", "thread"},
         NEW content \in (IF type = "fact" THEN Contents ELSE Threads), Begin(w, type, content)
  PROVE  GraphInv'
<1> USE GraphOK
<1> DEFINE old == IF type = "fact" THEN Supersedes(content) ELSE {}
           with == IF type = "fact" THEN Rivals(content) ELSE {}
           a == [pc |-> IF old = {} THEN "check" ELSE "retire", type |-> type, content |-> content,
                 id |-> made', day |-> today, todo |-> old, note |-> NoNote]
<1>0. /\ GraphShape /\ Retiring /\ ToldKept /\ Noted
      /\ UNCHANGED <<nodes, today, current, gone>> /\ add[w] = NoAdd
      /\ made' = made + 1 /\ made < MaxNodes /\ made \in Nat
      /\ Active("fact")' = Active("fact")
  BY DEF GraphInv, Begin, GraphShape, GraphTypeOK, Active
<1>1. /\ add' = [add EXCEPT ![w] = a] /\ overflow' = (overflow \/ Cardinality(Active("fact")) > Limit)
      /\ crossed' = crossed \cup {{add[v].id, made'} : v \in with}
  BY DEF Begin
<1>2. \A n \in old : /\ n \in Active("fact") /\ n \in nodes /\ n.type = "fact" /\ type = "fact"
                     /\ SameKind(n.content, content)
                     /\ n \in FactNode /\ n.id <= made /\ n.id \in Nat
  <2>1. ASSUME NEW n \in old
        PROVE  /\ n \in Active("fact") /\ n \in nodes /\ n.type = "fact" /\ type = "fact"
               /\ SameKind(n.content, content)
               /\ n \in FactNode /\ n.id <= made /\ n.id \in Nat
    <3>1. n \in Active("fact") /\ type = "fact" /\ SameKind(n.content, content)
      BY <2>1 DEF Supersedes, Recent
    <3>2. n \in nodes /\ n.type = "fact"
      BY <3>1 DEF Active
    <3> QED BY <1>0, <3>1, <3>2, NodeKinds
  <2> QED BY <2>1
<1>3. ~overflow' => old = IF type = "fact" THEN {n \in Active("fact") : SameKind(n.content, content)} ELSE {}
  <2>1. ASSUME ~overflow' PROVE Recent("fact") = Active("fact")
    <3>1. ~(Cardinality(Active("fact")) > Limit)
      BY <1>1, <2>1, Zenon
    <3> QED BY <1>0, <3>1, AllRecent
  <2> QED BY <2>1 DEF Supersedes
<1>4. ~overflow' => ~overflow
  BY <1>1, Zenon
<1>r. /\ crossed \subseteq crossed'
      /\ \A v \in Writers : add[v] # NoAdd /\ add[v].type = "fact" /\ type = "fact" /\ SameKind(add[v].content, content)
           => {add[v].id, made'} \in crossed'
      /\ \A v \in with : v \in Writers /\ add[v] # NoAdd
  <2>1. \A v \in Writers : add[v] # NoAdd <=> add[v].pc # "none"
    BY <1>0, AddKinds
  <2> QED BY <1>1, <2>1 DEF Rivals
<1> HIDE DEF old
<1>5. /\ a.pc \in {"retire", "check"} /\ a.type = type /\ a.content = content /\ a.id = made'
      /\ a.day = today /\ a.todo = old /\ (a.pc = "retire" <=> old # {})
  OBVIOUS
<1>6. a \in Add
  <2>1. old \in SUBSET FactNode
    BY <1>2
  <2>2. made' \in Ids /\ today \in Days
    BY <1>0 DEF GraphShape, GraphTypeOK, Ids
  <2>3. content \in Contents \cup Threads /\ NoNote \in Conflict \cup {NoNote}
    OBVIOUS
  <2> HIDE DEF Ids, Days, Conflict, FactNode, NoNote
  <2> QED BY <2>1, <2>2, <2>3 DEF Add
<1> HIDE DEF a
<1>7. a # NoAdd
  BY <1>5 DEF NoAdd
<1>a. /\ add'[w] = a /\ \A v \in Writers : v # w => add'[v] = add[v]
      /\ add' \in [Writers -> Add \cup {NoAdd}]
  <2>1. add \in [Writers -> Add \cup {NoAdd}]
    BY <1>0 DEF GraphShape, GraphTypeOK
  <2> QED BY <1>1, <1>6, <2>1, OneMoves
<1>c. \A v \in Writers : add[v] # NoAdd => add[v].id \in Nat /\ add[v].id <= made /\ Adding(v) /\ v # w
  BY <1>0, AddKinds DEF Adding
<1>8. GraphShape'
  <2>1. made' \in 0..MaxNodes /\ gone' \subseteq 1..made'
    BY <1>0 DEF GraphShape, GraphTypeOK
  <2>2. overflow' \in BOOLEAN
    BY <1>1, Zenon
  <2>3. crossed' \subseteq SUBSET (1..made')
    <3>1. 1..made \subseteq 1..made' /\ made' \in 1..made'
      BY <1>0
    <3>2. crossed \subseteq SUBSET (1..made)
      BY <1>0 DEF GraphShape, GraphTypeOK
    <3>3. \A v \in with : add[v].id \in 1..made'
      <4>1. ASSUME NEW v \in with PROVE add[v].id \in 1..made'
        <5>1. add[v].id \in Ids /\ add[v].id <= made
          BY <1>0, <1>c, <1>r, AddKinds
        <5> QED BY <1>0, <5>1 DEF Ids
      <4> QED BY <4>1
    <3>4. ASSUME NEW p \in crossed' PROVE p \subseteq 1..made'
      <4>1. p \in crossed \/ \E v \in with : p = {add[v].id, made'}
        <5> HIDE DEF with
        <5> QED BY <1>1, Zenon
      <4> HIDE DEF with
      <4>2. CASE p \in crossed
        BY <3>1, <3>2, <4>2, Zenon
      <4>3. ASSUME NEW v \in with, p = {add[v].id, made'} PROVE p \subseteq 1..made'
        BY <3>1, <3>3, <4>3, Zenon
      <4> QED BY <4>1, <4>2, <4>3, Zenon
    <3> QED BY <3>4
  <2>4. GraphTypeOK'
    BY <1>0, <1>a, <2>1, <2>2, <2>3 DEF GraphShape, GraphTypeOK
  <2>5. \A n \in nodes : n.id <= made' /\ n.id # made'
    BY <1>0, NodeKinds
  <2>6. \A n \in nodes : n.type = "contradiction" => n.old <= made' /\ n.new <= made'
    BY <1>0, NodeKinds DEF GraphShape
  <2>7. Adding(w)'
    <3>1. \A n \in old, k \in nodes : k.type = "fact" /\ k.id = n.id => k.content = n.content
      BY <1>0, <1>2 DEF GraphShape
    <3>2. \A n \in old, v \in Writers : add'[v] # NoAdd => n.id # add'[v].id
      <4> SUFFICES ASSUME NEW n \in old, NEW v \in Writers, add'[v] # NoAdd PROVE n.id # add'[v].id
        OBVIOUS
      <4>1. CASE v = w
        BY <1>0, <1>2, <1>5, <1>a, <4>1
      <4>2. CASE v # w
        BY <1>2, <1>a, <1>c, <4>2 DEF Adding
      <4> QED BY <4>1, <4>2
    <3>3. \A n \in old : SameKind(n.content, content) /\ n.id <= made'
      BY <1>0, <1>2
    <3>4. /\ a.pc \in {"retire", "conflict", "note"} <=> a.todo # {}
          /\ a.todo # {} => type = "fact"
          /\ a.pc \notin {"conflict", "note"} /\ made' <= made'
      BY <1>0, <1>2, <1>5
    <3> QED BY <1>0, <1>5, <1>a, <2>5, <3>1, <3>2, <3>3, <3>4 DEF Adding
  <2>8. ASSUME NEW v \in Writers, add[v] # NoAdd PROVE Adding(v)'
    <3>1. add'[v] = add[v] /\ Adding(v) /\ add[v].id \in Nat
      BY <1>a, <1>c, <2>8
    <3>2. add[v].todo \in SUBSET FactNode /\ \A n \in add[v].todo : n.id \in Nat
      <4>1. \A n \in FactNode : n.id \in Nat
        BY DEF FactNode, Ids
      <4>2. add[v].todo \in SUBSET FactNode
        BY <1>0, <2>8, AddKinds
      <4> QED BY <4>1, <4>2
    <3>3. \A n \in add[v].todo :
            /\ SameKind(n.content, add[v].content) /\ n.id <= made'
            /\ \A u \in Writers : add'[u] # NoAdd => n.id # add'[u].id
            /\ \A k \in nodes' : k.type = "fact" /\ k.id = n.id => k.content = n.content
      <4> SUFFICES ASSUME NEW n \in add[v].todo
                   PROVE  /\ SameKind(n.content, add[v].content) /\ n.id <= made'
                          /\ \A u \in Writers : add'[u] # NoAdd => n.id # add'[u].id
                          /\ \A k \in nodes' : k.type = "fact" /\ k.id = n.id => k.content = n.content
        OBVIOUS
      <4>1. /\ SameKind(n.content, add[v].content) /\ n.id <= made
            /\ \A u \in Writers : add[u] # NoAdd => n.id # add[u].id
            /\ \A k \in nodes : k.type = "fact" /\ k.id = n.id => k.content = n.content
        BY <3>1 DEF Adding
      <4>2. n.id # made' /\ n.id <= made'
        BY <1>0, <3>2, <4>1
      <4>3. \A u \in Writers : add'[u] # NoAdd => n.id # add'[u].id
        BY <1>5, <1>a, <4>1, <4>2
      <4> QED BY <1>0, <4>1, <4>2, <4>3
    <3>4. add[v].pc = "note" => add[v].note.id <= made'
      <4>1. add[v].note \in Conflict \cup {NoNote}
        BY <1>0, <2>8, AddKinds
      <4>2. add[v].pc = "note" => add[v].note.type = "contradiction" /\ add[v].note.id <= made
        BY <3>1 DEF Adding
      <4>3. add[v].pc = "note" => add[v].note \in Conflict
        BY <4>1, <4>2 DEF NoNote
      <4>4. add[v].pc = "note" => add[v].note.id \in Nat
        BY <4>3 DEF Conflict, Ids
      <4> QED BY <1>0, <4>2, <4>4
    <3>5. add[v].id <= made'
      BY <1>0, <1>c, <2>8
    <3> QED BY <1>0, <3>1, <3>3, <3>4, <3>5 DEF Adding
  <2>9. \A v, u \in Writers : add'[v] # NoAdd /\ add'[u] # NoAdd /\ v # u => add'[v].id # add'[u].id
    BY <1>0, <1>5, <1>a, <1>c DEF GraphShape
  <2>10. \A v \in Writers : add'[v] # NoAdd => Adding(v)'
    BY <1>a, <2>7, <2>8
  <2> QED BY <1>0, <2>4, <2>5, <2>6, <2>9, <2>10 DEF GraphShape
<1>9. Retiring'
  <2>1. overflow' \/ \A m, n \in Active("fact")' :
          SameKind(m.content, n.content) => m = n \/ {m.id, n.id} \in crossed'
    BY <1>0, <1>4, <1>r DEF Retiring
  <2>2. ASSUME ~overflow', NEW v \in Writers, NEW n \in Active("fact")', OfKind(add'[v], n.content)
        PROVE  n \in add'[v].todo \/ {n.id, add'[v].id} \in crossed'
    <3>1. CASE v = w
      BY <1>0, <1>3, <1>5, <1>a, <2>2, <3>1 DEF OfKind
    <3>2. CASE v # w
      BY <1>0, <1>4, <1>a, <1>r, <2>2, <3>2 DEF Retiring
    <3> QED BY <3>1, <3>2
  <2>3. ASSUME NEW v \in Writers, NEW u \in Writers, v # u,
               add'[v] # NoAdd, add'[v].type = "fact", OfKind(add'[u], add'[v].content)
        PROVE  {add'[v].id, add'[u].id} \in crossed'
    <3>1. CASE v = w
      <4>1. {add[u].id, made'} \in crossed'
        BY <1>5, <1>a, <1>r, <2>3, <3>1 DEF OfKind, SameKind
      <4>2. {add[u].id, made'} = {made', add[u].id}
        OBVIOUS
      <4> QED BY <1>5, <1>a, <2>3, <3>1, <4>1, <4>2
    <3>2. CASE u = w
      BY <1>5, <1>a, <1>r, <2>3, <3>2 DEF OfKind, SameKind
    <3>3. CASE v # w /\ u # w
      BY <1>0, <1>a, <1>r, <2>3, <3>3 DEF Retiring
    <3> QED BY <3>1, <3>2, <3>3
  <2> QED BY <2>1, <2>2, <2>3 DEF Retiring
<1>10. ToldKept'
  <2>1. \A v \in Writers : add[v] # NoAdd => add'[v] = add[v]
    BY <1>0, <1>a
  <2> QED BY <1>0, <2>1 DEF ToldKept, Of
<1>11. Noted'
  <2>1. \A c \in nodes : c.type = "contradiction" => c.old # made'
    BY <1>0, NodeKinds DEF GraphShape
  <2>2. overflow => overflow'
    BY <1>1, Zenon
  <2>3. \A v \in Writers : add[v] # NoAdd => add'[v] = add[v]
    BY <1>0, <1>a
  <2> SUFFICES ASSUME NEW c \in nodes, c.type = "contradiction"
               PROVE  /\ \A v \in Writers : add'[v] # NoAdd => c.old # add'[v].id
                      /\ \A n \in Active("fact") : n.id # c.old
                      /\ \/ overflow' \/ c.new \in gone
                         \/ \E v \in Writers : AddOf(add'[v], c.new)
                         \/ \E n \in nodes : n.id = c.new /\ n.type = "fact"
                         \/ \E p \in crossed' : c.new \in p
    BY <1>0 DEF Noted
  <2>4. /\ \A v \in Writers : add[v] # NoAdd => c.old # add[v].id
        /\ \A n \in Active("fact") : n.id # c.old
    BY <1>0 DEF Noted
  <2>5. \/ overflow \/ c.new \in gone
        \/ \E v \in Writers : AddOf(add[v], c.new)
        \/ \E n \in nodes : n.id = c.new /\ n.type = "fact"
        \/ \E p \in crossed : c.new \in p
    BY <1>0 DEF Noted
  <2>6. \A v \in Writers : AddOf(add[v], c.new) => AddOf(add'[v], c.new)
    BY <2>3 DEF AddOf
  <2>7. \A v \in Writers : add'[v] # NoAdd => c.old # add'[v].id
    BY <1>5, <1>a, <2>1, <2>4
  <2> QED BY <1>r, <2>2, <2>4, <2>5, <2>6, <2>7
<1> QED BY <1>8, <1>9, <1>10, <1>11 DEF GraphInv

LEMMA GraphStill ==
  ASSUME GraphInv, NextDay \/ UNCHANGED graphVars
  PROVE  GraphInv'
<1>0. /\ GraphShape /\ Retiring /\ ToldKept /\ Noted
      /\ UNCHANGED <<nodes, made, add, overflow, crossed, current, gone>> /\ Active("fact")' = Active("fact")
  BY DEF GraphInv, NextDay, graphVars, Active
<1>1. today' \in Days
  BY <1>0, GraphOK DEF NextDay, graphVars, GraphShape, GraphTypeOK, Days
<1>2. GraphShape'
  BY <1>0, <1>1 DEF GraphShape, GraphTypeOK, Adding
<1> QED BY <1>0, <1>2 DEF GraphInv, Retiring, ToldKept, Noted

LEMMA GraphStep == GraphInv /\ [GraphNext]_graphVars => GraphInv'
<1> SUFFICES ASSUME GraphInv, [GraphNext]_graphVars PROVE GraphInv'
  OBVIOUS
<1>1. ASSUME NEW w \in Writers, NEW c \in Contents, Begin(w, "fact", c) PROVE GraphInv'
  BY <1>1, GraphBegin
<1>2. ASSUME NEW w \in Writers, NEW c \in Threads, Begin(w, "thread", c) PROVE GraphInv'
  BY <1>2, GraphBegin
<1>3. ASSUME NEW n \in nodes, DeleteNode(n) PROVE GraphInv'
  BY <1>3, GraphRemove DEF DeleteNode
<1>4. ASSUME NEW from \in Days, NEW to \in Days, BulkDelete(from, to) PROVE GraphInv'
  <2> DEFINE dead == {n \in nodes : from <= n.day /\ n.day < to}
  <2>1. Remove(dead) /\ dead \in SUBSET nodes
    BY <1>4 DEF BulkDelete
  <2> HIDE DEF dead
  <2> QED BY <2>1, GraphRemove
<1> QED
  BY <1>1, <1>2, <1>3, <1>4, GraphRetire, GraphFindConflict, GraphNoteConflict, GraphCheckNew,
     GraphReturn, GraphCutShort, GraphStill, Zenon
  DEF GraphNext

LEMMA GraphStart == GraphInit => GraphInv
<1> SUFFICES ASSUME GraphInit PROVE GraphInv
  OBVIOUS
<1> USE GraphOK
<1>1. Active("fact") = {} /\ \A w \in Writers : add[w] = NoAdd
  BY DEF GraphInit, Active
<1>2. GraphTypeOK
  <2>1. made \in 0..MaxNodes /\ today \in Days /\ gone \subseteq 1..made
        /\ crossed \subseteq SUBSET (1..made)
    BY DEF GraphInit, Days
  <2>2. /\ nodes \subseteq FactNode \cup ThreadNode \cup Conflict
        /\ add \in [Writers -> Add \cup {NoAdd}]
        /\ overflow \in BOOLEAN /\ current \subseteq {CategoryOf[c] : c \in Contents}
    BY Zenon DEF GraphInit
  <2> QED BY <2>1, <2>2 DEF GraphTypeOK
<1>3. GraphShape
  BY <1>1, <1>2, FS_EmptySet DEF GraphInit, GraphShape
<1> QED BY <1>1, <1>3 DEF GraphInit, GraphInv, Retiring, OfKind, ToldKept, Noted

(* For any number of reflections that add at one time, however their adds   *)
(* interleave with deletions and are cut short between two statements: a    *)
(* category has two active facts only if their adds ran at one time or the  *)
(* limit of a query hid one, and a category that was told has one.          *)
THEOREM OneFactIsCurrent == GraphSpec => []OneCurrentFact
<1> QED BY GraphCorrect, GraphStart, GraphStep, PTL DEF GraphSpec

(* At any moment, between two statements of any of the adds that run too,   *)
(* the previous fact of a contradiction is not active, and its new one is   *)
(* there unless it was deleted, cut short, hidden by the limit or said by   *)
(* an add that ran at one time with its own.                                *)
THEOREM ConflictsStayPast == GraphSpec => []ConflictsArePast
<1> QED BY GraphCorrect, GraphStart, GraphStep, PTL DEF GraphSpec

(* Every variable of the graph has its type: the rows are facts, threads or *)
(* contradictions, and an add retires facts.                                *)
THEOREM GraphTypes == GraphSpec => []GraphTypeOK
<1>1. GraphInv => GraphTypeOK
  BY DEF GraphInv, GraphShape
<1> QED BY <1>1, GraphStart, GraphStep, PTL DEF GraphSpec

(***************************************************************************)
(* The facts                                                               *)
(***************************************************************************)

Counted(I, k) == {i \in I : i <= k}

\* Going up by one, the count goes up by one at the places of the set.
LEMMA CountUp ==
  ASSUME NEW m \in Nat, NEW I \in SUBSET (1..m), NEW k \in 0..m
  PROVE  /\ IsFiniteSet(Counted(I, k)) /\ Cardinality(Counted(I, k)) \in Nat
         /\ k = 0 => Cardinality(Counted(I, k)) = 0
         /\ k = m => Counted(I, k) = I
         /\ k > 0 => Cardinality(Counted(I, k)) =
              Cardinality(Counted(I, k - 1)) + (IF k \in I THEN 1 ELSE 0)
<1>0. IsFiniteSet(1..m)
  BY FS_Interval
<1>i. \A i \in I : i \in Int /\ 1 <= i /\ i <= m
  OBVIOUS
<1>c. \A i, j : i \in Counted(I, j) <=> i \in I /\ i <= j
  BY DEF Counted
<1>1. ASSUME NEW j PROVE IsFiniteSet(Counted(I, j)) /\ Cardinality(Counted(I, j)) \in Nat
  <2>1. Counted(I, j) \in SUBSET (1..m)
    BY DEF Counted
  <2>2. IsFiniteSet(Counted(I, j))
    BY <1>0, <2>1, FS_Subset
  <2> QED BY <2>2, FS_CardinalityType
<1>2. k = 0 => Cardinality(Counted(I, k)) = 0
  <2>1. k = 0 => \A i : i \notin Counted(I, k)
    <3> SUFFICES ASSUME k = 0, NEW i \in I, i <= k PROVE FALSE
      BY <1>c
    <3>1. i \in Int /\ 1 <= i
      BY <1>i
    <3> QED BY <3>1
  <2> QED BY <2>1, FS_EmptySet
<1>3. k = m => Counted(I, k) = I
  <2>1. k = m => \A i : i \in Counted(I, k) <=> i \in I
    BY <1>c, <1>i
  <2>2. (\A i : i \in Counted(I, k) <=> i \in I) => Counted(I, k) = I
    OBVIOUS
  <2> QED BY <2>1, <2>2
<1>4. ASSUME k > 0
      PROVE  Cardinality(Counted(I, k)) = Cardinality(Counted(I, k - 1)) + (IF k \in I THEN 1 ELSE 0)
  <2>1. CASE k \in I
    <3>0. \A i : i \in Counted(I, k) <=> i \in Counted(I, k - 1) \/ i = k
      <4>1. ASSUME NEW i \in I PROVE i <= k <=> i <= k - 1 \/ i = k
        <5>1. i \in Int
          BY <1>i
        <5> QED BY <5>1
      <4>2. k <= k
        OBVIOUS
      <4> QED BY <1>c, <2>1, <4>1, <4>2
    <3>1. Counted(I, k) = Counted(I, k - 1) \cup {k} /\ k \notin Counted(I, k - 1)
      <4>1. k \notin Counted(I, k - 1)
        BY <1>c
      <4> QED BY <3>0, <4>1
    <3> QED BY <1>1, <2>1, <3>1, FS_AddElement
  <2>2. CASE k \notin I
    <3>0. \A i : i \in Counted(I, k) <=> i \in Counted(I, k - 1)
      <4>1. ASSUME NEW i \in I PROVE i <= k <=> i <= k - 1
        <5>1. i \in Int /\ i # k
          BY <1>i, <2>2
        <5> QED BY <5>1
      <4> QED BY <1>c, <4>1
    <3>1. Counted(I, k) = Counted(I, k - 1)
      BY <3>0
    <3> QED BY <1>1, <2>2, <3>1
  <2> QED BY <2>1, <2>2
<1> QED BY <1>1, <1>2, <1>3, <1>4

LEMMA CountAll ==
  ASSUME NEW m \in Nat, NEW I \in SUBSET (1..m)
  PROVE  Counted(I, m) = I /\ IsFiniteSet(I) /\ Cardinality(I) \in Nat
<1>1. m \in 0..m
  OBVIOUS
<1>2. Counted(I, m) = I /\ IsFiniteSet(Counted(I, m)) /\ Cardinality(Counted(I, m)) \in Nat
  BY <1>1, CountUp
<1> QED BY <1>2

\* The first place up to which n are counted is the n-th.
LEMMA NthExists ==
  ASSUME NEW m \in Nat, NEW I \in SUBSET (1..m), NEW n \in 1..Cardinality(I)
  PROVE  Nth(I, n) \in I /\ Cardinality(Counted(I, Nth(I, n))) = n
<1> DEFINE S == {k \in 0..m : n <= Cardinality(Counted(I, k))}
           R == {p \in Nat \X Nat : p[1] < p[2]}
<1>0. n \in Nat /\ n >= 1
  <2>1. Cardinality(I) \in Nat
    BY CountAll
  <2> QED BY <2>1
<1>1. m \in S /\ S \subseteq Nat
  <2>1. Counted(I, m) = I
    BY CountAll
  <2>2. n <= Cardinality(I)
    <3>1. Cardinality(I) \in Nat
      BY CountAll
    <3> QED BY <3>1
  <2> QED BY <2>1, <2>2
<1>2. IsWellFoundedOn(R, Nat)
  BY NatLessThanWellFounded DEF OpToRel
<1>3. \A x, y \in Nat : x < y => <<x, y>> \in R
  OBVIOUS
<1>4. \A k \in S : k \in 0..m /\ n <= Cardinality(Counted(I, k))
  OBVIOUS
<1>5. \A k \in 0..m : k \notin S => ~(n <= Cardinality(Counted(I, k)))
  OBVIOUS
<1> HIDE DEF S, R
<1>6. PICK k \in S : \A j \in S : ~(<<j, k>> \in R)
  BY <1>1, <1>2, WFMin
<1>7. k \in 0..m /\ k # 0 /\ n <= Cardinality(Counted(I, k))
  <2>1. k \in 0..m /\ n <= Cardinality(Counted(I, k))
    BY <1>4, <1>6
  <2> QED BY <1>0, <2>1, CountUp
<1>8. k - 1 \in 0..m /\ k - 1 \in Nat /\ k - 1 < k
  BY <1>7
<1>9. k - 1 \notin S
  BY <1>1, <1>3, <1>6, <1>8
<1>10. ~(n <= Cardinality(Counted(I, k - 1))) /\ Cardinality(Counted(I, k - 1)) \in Nat
  BY <1>5, <1>8, <1>9, CountUp
<1>11. Cardinality(Counted(I, k)) = Cardinality(Counted(I, k - 1)) + (IF k \in I THEN 1 ELSE 0)
  BY <1>7, CountUp
<1>12. k \in I /\ Cardinality(Counted(I, k)) = n
  BY <1>0, <1>7, <1>10, <1>11
<1> QED BY <1>12 DEF Nth, Counted

\* Each place of the set is the n-th for some n.
LEMMA NthOf ==
  ASSUME NEW m \in Nat, NEW I \in SUBSET (1..m), NEW k \in I
  PROVE  Cardinality(Counted(I, k)) \in 1..Cardinality(I) /\ Nth(I, Cardinality(Counted(I, k))) = k
<1>1. IsFiniteSet(I) /\ Cardinality(I) \in Nat
  BY CountAll
<1>2. k \in 1..m /\ k - 1 \in 0..m
  OBVIOUS
<1>3. PICK n : n = Cardinality(Counted(I, k))
  OBVIOUS
<1>4. n \in 1..Cardinality(I)
  <2>1. Counted(I, k) \in SUBSET I
    BY DEF Counted
  <2>2. n <= Cardinality(I)
    BY <1>1, <1>3, <2>1, FS_Subset
  <2>3. n = Cardinality(Counted(I, k - 1)) + 1 /\ Cardinality(Counted(I, k - 1)) \in Nat
    BY <1>2, <1>3, CountUp
  <2> QED BY <1>1, <2>2, <2>3
<1>5. Nth(I, n) \in I /\ Cardinality(Counted(I, Nth(I, n))) = n
  BY <1>4, NthExists
<1>6. ASSUME NEW i \in I, NEW j \in I, Cardinality(Counted(I, i)) = Cardinality(Counted(I, j)), i < j
      PROVE  FALSE
  <2>1. Counted(I, i) \in SUBSET Counted(I, j) /\ j \in Counted(I, j) /\ j \notin Counted(I, i)
    <3>0. \A l \in I : l \in Int
      OBVIOUS
    <3>1. \A l : l \in Counted(I, i) => l \in Counted(I, j)
      BY <1>6, <3>0 DEF Counted
    <3>2. j \in Counted(I, j) /\ j \notin Counted(I, i)
      BY <1>6, <3>0 DEF Counted
    <3> QED BY <3>1, <3>2
  <2>2. IsFiniteSet(Counted(I, j))
    <3>1. j \in 0..m
      OBVIOUS
    <3> QED BY <3>1, CountUp
  <2>3. Counted(I, j) = Counted(I, i)
    BY <1>6, <2>1, <2>2, FS_Subset
  <2> QED BY <2>1, <2>3
<1>7. Nth(I, n) = k
  <2>1. PICK i \in I : i = Nth(I, n)
    BY <1>5
  <2>2. ~(i < k) /\ ~(k < i)
    BY <1>3, <1>5, <1>6, <2>1
  <2>3. i \in Nat /\ k \in Nat
    OBVIOUS
  <2> QED BY <2>1, <2>2, <2>3
<1> QED BY <1>3, <1>4, <1>7

\* What is picked from a sequence is what it has at the places, no less and no more.
LEMMA PickedFacts ==
  ASSUME NEW S, NEW s \in Seq(S), NEW I \in SUBSET DOMAIN s
  PROVE  /\ Picked(s, I) \in Seq(S) /\ DOMAIN Picked(s, I) = 1..Cardinality(I)
         /\ Cardinality(I) \in Nat
         /\ \A n \in DOMAIN Picked(s, I) : \E k \in I : Picked(s, I)[n] = s[k]
         /\ \A k \in I : \E n \in DOMAIN Picked(s, I) : Picked(s, I)[n] = s[k]
<1>1. PICK m \in Nat : DOMAIN s = 1..m
  OBVIOUS
<1>2. I \in SUBSET (1..m) /\ Cardinality(I) \in Nat
  <2>1. I \in SUBSET (1..m)
    BY <1>1
  <2> QED BY <2>1, CountAll
<1>3. \A n \in 1..Cardinality(I) : Nth(I, n) \in I
  BY <1>2, NthExists
<1>4. \A k \in I : s[k] \in S
  OBVIOUS
<1> DEFINE q == Picked(s, I)
<1>5. DOMAIN q = 1..Cardinality(I) /\ \A n \in 1..Cardinality(I) : q[n] = s[Nth(I, n)]
  BY DEF Picked
<1>6. q \in Seq(S)
  <2>1. \A n \in 1..Cardinality(I) : s[Nth(I, n)] \in S
    BY <1>3, <1>4
  <2> QED BY <1>2, <2>1 DEF Picked
<1> HIDE DEF q
<1>7. ASSUME NEW k \in I
      PROVE  \E n \in DOMAIN q : q[n] = s[k]
  <2>1. Cardinality(Counted(I, k)) \in 1..Cardinality(I) /\ Nth(I, Cardinality(Counted(I, k))) = k
    BY <1>2, NthOf
  <2> QED BY <1>5, <2>1
<1>8. \A n \in DOMAIN q : \E k \in I : q[n] = s[k]
  BY <1>3, <1>5
<1> QED BY <1>2, <1>5, <1>6, <1>7, <1>8 DEF q

Agree(a) == \A i, k \in DOMAIN a : Alike(a[i].fact, a[k].fact) => a[i].at = a[k].at

\* s came in as r went out.
Successor(s, r) == SameCategory(s.fact, r.fact) /\ s.at = r.until

Follows(a, p) ==
  \A r \in p : (\E i \in DOMAIN a : Successor(a[i], r)) \/ (\E s \in p : Successor(s, r))

TableOK(a, p) ==
  /\ a \in Seq(Fact) /\ Agree(a)
  /\ p \subseteq Fact /\ IsFiniteSet(p) /\ Cardinality(p) <= MaxSuperseded

Begun == [stage : {"begun"}, now : Nat, batch : Seq(FactNames)]
Loaded == [stage : {"loaded"}, now : Nat, batch : Seq(FactNames),
           active : Seq(Fact), superseded : SUBSET Fact]

\* What a task has read holds together as the table does.
Reads(w) ==
  w.stage = "loaded" =>
    TableOK(w.active, w.superseded) /\ (cut \/ Follows(w.active, w.superseded))

FactsInv ==
  /\ TableOK(active, superseded) /\ (cut \/ Follows(active, superseded))
  /\ Len(active) > MaxActive => \A i \in DOMAIN active : active[i].at = 0
  /\ merges \in 0..MaxMerges /\ cut \in BOOLEAN
  /\ job \in [FactJobs -> {Idle} \cup Begun \cup Loaded]
  /\ \A j \in FactJobs : Reads(job[j])

LEMMA NewFactType ==
  ASSUME NEW f \in FactNames, NEW at \in Nat
  PROVE  NewFact(f, at) \in Fact /\ NewFact(f, at).fact = f /\ NewFact(f, at).at = at
<1>1. Sanitized(f, 0) \in Nat /\ (f \in Escaped \/ Sanitized(f, 0) = 0)
  BY DEF Sanitized
<1> QED BY <1>1 DEF NewFact, Fact

LEMMA ReloadedType ==
  ASSUME NEW r \in Fact
  PROVE  /\ Reloaded(r) \in Fact
         /\ Reloaded(r).fact = r.fact /\ Reloaded(r).at = r.at /\ Reloaded(r).until = r.until
<1>1. Sanitized(r.fact, r.esc) \in Nat /\ (r.fact \in Escaped \/ Sanitized(r.fact, r.esc) = 0)
  BY DEF Sanitized, Fact
<1>2. PICK e \in Nat : e = Sanitized(r.fact, r.esc) /\ (r.fact \in Escaped \/ e = 0)
  BY <1>1
<1>3. Reloaded(r) = [r EXCEPT !.esc = e]
  BY <1>2 DEF Reloaded
<1>4. r \in [fact : FactNames, esc : Nat, at : Nat, until : Nat]
  BY DEF Fact
<1> QED BY <1>2, <1>3, <1>4 DEF Fact

\* Loading a table changes no more than its spelling.
LEMMA TableReloaded ==
  ASSUME NEW a, NEW p, TableOK(a, p), NEW a2, NEW p2,
         a2 = [i \in DOMAIN a |-> Reloaded(a[i])], p2 = {Reloaded(r) : r \in p}
  PROVE  TableOK(a2, p2) /\ (Follows(a, p) => Follows(a2, p2))
<1>1. a \in Seq(Fact) /\ p \subseteq Fact /\ IsFiniteSet(p) /\ Cardinality(p) <= MaxSuperseded
  BY DEF TableOK
<1>2. PICK m \in Nat : DOMAIN a = 1..m
  BY <1>1
<1>3. \A i \in DOMAIN a : a[i] \in Fact /\ a2[i] = Reloaded(a[i]) /\ a2[i] \in Fact
  BY <1>1, ReloadedType
<1>4. a2 \in Seq(Fact) /\ DOMAIN a2 = DOMAIN a
  BY <1>2, <1>3
<1>5. \A i \in DOMAIN a : a2[i].fact = a[i].fact /\ a2[i].at = a[i].at
  BY <1>3, ReloadedType
<1>6. Agree(a2)
  BY <1>4, <1>5 DEF TableOK, Agree
<1>7. p2 \subseteq Fact
  BY <1>1, ReloadedType
<1>8. IsFiniteSet(p2) /\ Cardinality(p2) <= MaxSuperseded
  <2> DEFINE g == [r \in p |-> Reloaded(r)]
  <2>1. g \in Surjection(p, p2)
    <3>1. g \in [p -> p2]
      OBVIOUS
    <3>2. \A t \in p2 : \E r \in p : g[r] = t
      OBVIOUS
    <3> QED BY <3>1, <3>2 DEF Surjection
  <2> HIDE DEF g
  <2>2. IsFiniteSet(p2) /\ Cardinality(p2) <= Cardinality(p)
    BY <1>1, <2>1, FS_Surjection
  <2>3. Cardinality(p2) \in Nat /\ Cardinality(p) \in Nat /\ MaxSuperseded \in Nat
    BY <1>1, <2>2, FS_CardinalityType, FactsOK
  <2> QED BY <1>1, <2>2, <2>3
<1>9. ASSUME Follows(a, p), NEW r \in p
      PROVE  \/ \E i \in DOMAIN a2 : Successor(a2[i], Reloaded(r))
             \/ \E s \in p2 : Successor(s, Reloaded(r))
  <2>1. Reloaded(r).fact = r.fact /\ Reloaded(r).until = r.until
    BY <1>1, ReloadedType
  <2>2. CASE \E i \in DOMAIN a : Successor(a[i], r)
    BY <1>4, <1>5, <2>1, <2>2 DEF Successor
  <2>3. CASE \E s \in p : Successor(s, r)
    <3>1. PICK s \in p : Successor(s, r)
      BY <2>3
    <3>2. Reloaded(s).fact = s.fact /\ Reloaded(s).at = s.at /\ Reloaded(s) \in p2
      BY <1>1, ReloadedType
    <3> QED BY <2>1, <3>1, <3>2 DEF Successor
  <2> QED BY <1>9, <2>2, <2>3 DEF Follows
<1>10. Follows(a, p) => Follows(a2, p2)
  BY <1>9 DEF Follows
<1> QED BY <1>1, <1>4, <1>6, <1>7, <1>8, <1>10 DEF TableOK

\* What a merge adds is of its moment, and is not what it has read.
LEMMA Added ==
  ASSUME NEW w \in Loaded
  PROVE  /\ ToAdd(w) \in Seq(Fact)
         /\ \A i \in DOMAIN ToAdd(w) : ToAdd(w)[i].at = w.now
         /\ \A i \in DOMAIN ToAdd(w), k \in DOMAIN w.active : Text(ToAdd(w)[i]) # Text(w.active[k])
<1> DEFINE fresh == {i \in DOMAIN w.batch :
                       Text(NewFact(w.batch[i], w.now)) \notin {Text(w.active[k]) : k \in DOMAIN w.active}}
           added == Picked(w.batch, fresh)
<1>1. w.batch \in Seq(FactNames) /\ w.now \in Nat
  BY DEF Loaded
<1>2. fresh \in SUBSET DOMAIN w.batch
  OBVIOUS
<1>3. ToAdd(w) = [i \in DOMAIN added |-> NewFact(added[i], w.now)]
  BY DEF ToAdd
<1>0. \A l \in fresh, k \in DOMAIN w.active : Text(NewFact(w.batch[l], w.now)) # Text(w.active[k])
  OBVIOUS
<1> HIDE DEF fresh
<1>4. added \in Seq(FactNames) /\ \A n \in DOMAIN added : \E l \in fresh : added[n] = w.batch[l]
  BY <1>1, <1>2, PickedFacts
<1> HIDE DEF added
<1>5. PICK m \in Nat : DOMAIN added = 1..m
  BY <1>4
<1>6. \A i \in 1..m : added[i] \in FactNames
  BY <1>4, <1>5
<1>7. \A i \in 1..m : /\ NewFact(added[i], w.now) \in Fact
                      /\ NewFact(added[i], w.now).at = w.now
  BY <1>1, <1>6, NewFactType
<1>8. ToAdd(w) \in Seq(Fact)
  BY <1>3, <1>5, <1>7
<1>9. DOMAIN ToAdd(w) = 1..m /\ \A i \in 1..m : ToAdd(w)[i] = NewFact(added[i], w.now)
  BY <1>3, <1>5
<1>10. ASSUME NEW i \in 1..m, NEW k \in DOMAIN w.active
       PROVE  Text(ToAdd(w)[i]) # Text(w.active[k])
  <2>1. PICK l \in fresh : added[i] = w.batch[l]
    BY <1>4, <1>5
  <2> QED BY <1>0, <1>9, <2>1
<1> QED BY <1>7, <1>8, <1>9, <1>10

\* c is the beginning of a and then b, as far as x.
BeginsWith(c, a, b, x) ==
  /\ Len(c) = x
  /\ \A n \in DOMAIN c : (\E i \in DOMAIN a : c[n] = a[i]) \/ (\E k \in DOMAIN b : c[n] = b[k])
  /\ x = Len(a \o b) => /\ \A i \in DOMAIN a : \E n \in DOMAIN c : c[n] = a[i]
                        /\ \A k \in DOMAIN b : \E n \in DOMAIN c : c[n] = b[k]

LEMMA CutTo ==
  ASSUME NEW S, NEW a \in Seq(S), NEW b \in Seq(S), NEW x \in Nat, x <= Len(a \o b),
         NEW c, c = SubSeq(a \o b, 1, x)
  PROVE  c \in Seq(S) /\ BeginsWith(c, a, b, x)
<1> DEFINE ab == a \o b
<1>0. c = SubSeq(ab, 1, x)
  OBVIOUS
<1>1. /\ ab \in Seq(S) /\ Len(ab) = Len(a) + Len(b) /\ Len(a) \in Nat /\ Len(b) \in Nat
      /\ \A i \in 1..(Len(a) + Len(b)) : ab[i] = IF i <= Len(a) THEN a[i] ELSE b[i - Len(a)]
      /\ DOMAIN a = 1..Len(a) /\ DOMAIN b = 1..Len(b)
  BY ConcatProperties
<1> HIDE DEF ab
<1>2. x <= Len(ab) /\ \A i \in 1..x : ab[i] \in S
  <2>1. x <= Len(ab)
    BY DEF ab
  <2>2. \A i \in 1..x : i \in 1..Len(ab)
    BY <1>1, <2>1
  <2> QED BY <1>1, <2>1, <2>2
<1>3. /\ c \in Seq(S) /\ Len(c) = IF 1 <= x THEN x - 1 + 1 ELSE 0
      /\ \A i \in 1..(x - 1 + 1) : c[i] = ab[1 + i - 1]
  BY <1>0, <1>2, SubSeqProperties
<1>4. c \in Seq(S) /\ Len(c) = x /\ DOMAIN c = 1..x
  BY <1>3
<1>5. \A i \in 1..x : c[i] = ab[i]
  <2> SUFFICES ASSUME NEW i \in 1..x PROVE c[i] = ab[i]
    OBVIOUS
  <2>1. i \in 1..(x - 1 + 1) /\ 1 + i - 1 = i
    OBVIOUS
  <2> QED BY <1>3, <2>1
<1>6. ASSUME NEW n \in 1..x
      PROVE  (\E i \in DOMAIN a : c[n] = a[i]) \/ (\E k \in DOMAIN b : c[n] = b[k])
  <2>1. n \in 1..(Len(a) + Len(b))
    BY <1>1, <1>2
  <2>2. CASE n <= Len(a)
    BY <1>1, <1>5, <2>1, <2>2
  <2>3. CASE ~(n <= Len(a))
    <3>1. n - Len(a) \in DOMAIN b
      BY <1>1, <2>1, <2>3
    <3> QED BY <1>1, <1>5, <2>1, <2>3, <3>1
  <2> QED BY <2>2, <2>3
<1>7. ASSUME x = Len(ab), NEW i \in DOMAIN a
      PROVE  \E n \in 1..x : c[n] = a[i]
  <2>1. i \in 1..x /\ i \in 1..(Len(a) + Len(b)) /\ i <= Len(a)
    BY <1>1, <1>7
  <2> QED BY <1>1, <1>5, <2>1
<1>8. ASSUME x = Len(ab), NEW k \in DOMAIN b
      PROVE  \E n \in 1..x : c[n] = b[k]
  <2>1. PICK n : n = k + Len(a)
    OBVIOUS
  <2>2. n \in 1..x /\ n \in 1..(Len(a) + Len(b)) /\ ~(n <= Len(a)) /\ n - Len(a) = k
    BY <1>1, <1>8, <2>1
  <2> QED BY <1>1, <1>5, <2>2
<1> QED BY <1>4, <1>6, <1>7, <1>8 DEF ab, BeginsWith

\* A merge of a table that holds together makes one that does.
LEMMA MergeKeeps ==
  ASSUME FactsInv, NEW j \in FactJobs, SaveTable(j)
  PROVE  /\ TableOK(active', superseded') /\ (cut' \/ Follows(active', superseded'))
         /\ Len(active') <= MaxActive /\ cut' \in BOOLEAN /\ (cut => cut')
<1> DEFINE w == job[j]
           A == ToAdd(w)
           leaves == {i \in DOMAIN w.active : Retires(w, w.active[i])}
           K == Picked(w.active, DOMAIN w.active \ leaves)
           retired == {[w.active[i] EXCEPT !.until = w.now] : i \in leaves}
           rs == w.superseded \cup retired
           x == IF Len(A \o K) <= MaxActive THEN Len(A \o K) ELSE MaxActive
<1>1. /\ active' = SubSeq(A \o K, 1, x) /\ superseded' \in Newest(rs)
      /\ cut' = (cut \/ Len(A \o K) > MaxActive \/ Cardinality(rs) > MaxSuperseded)
      /\ w.stage = "loaded"
  BY DEF SaveTable
<1>2. w \in Loaded /\ TableOK(w.active, w.superseded) /\ (cut \/ Follows(w.active, w.superseded))
  <2>1. w \in {Idle} \cup Begun \cup Loaded /\ Reads(w)
    BY DEF FactsInv
  <2> QED BY <1>1, <2>1 DEF Idle, Begun, Reads
<1>3. leaves \in SUBSET DOMAIN w.active /\ leaves \subseteq DOMAIN w.active
  OBVIOUS
<1>4. \A i \in DOMAIN w.active : i \in leaves <=> Retires(w, w.active[i])
  OBVIOUS
<1>5. \A r : r \in retired <=> \E i \in leaves : r = [w.active[i] EXCEPT !.until = w.now]
  OBVIOUS
<1>w. PICK v \in Loaded : v = w
  BY <1>2
<1> HIDE DEF w, A, leaves, K, retired, rs, x
<1>6. /\ A \in Seq(Fact) /\ K \in Seq(Fact)
      /\ \A i \in DOMAIN A : A[i].at = w.now
      /\ \A n \in DOMAIN K : \E k \in DOMAIN w.active \ leaves : K[n] = w.active[k]
      /\ \A k \in DOMAIN w.active \ leaves : \E n \in DOMAIN K : K[n] = w.active[k]
  <2>1. A \in Seq(Fact) /\ \A i \in DOMAIN A : A[i].at = w.now
    BY <1>2, Added DEF A
  <2>2. w.active \in Seq(Fact) /\ DOMAIN w.active \ leaves \in SUBSET DOMAIN w.active
    BY <1>2 DEF TableOK
  <2>3. /\ K \in Seq(Fact)
        /\ \A n \in DOMAIN K : \E k \in DOMAIN w.active \ leaves : K[n] = w.active[k]
        /\ \A k \in DOMAIN w.active \ leaves : \E n \in DOMAIN K : K[n] = w.active[k]
    BY <2>2, PickedFacts DEF K
  <2> QED BY <2>1, <2>3
<1>7. x \in Nat /\ x <= Len(A \o K) /\ x <= MaxActive /\ (~(Len(A \o K) > MaxActive) => x = Len(A \o K))
  <2>1. Len(A \o K) \in Nat
    BY <1>6, ConcatProperties
  <2> QED BY <2>1, FactsOK DEF x
<1>8. /\ active' \in Seq(Fact) /\ Len(active') = x
      /\ \A n \in DOMAIN active' :
           (\E i \in DOMAIN A : active'[n] = A[i]) \/ (\E k \in DOMAIN K : active'[n] = K[k])
      /\ x = Len(A \o K) => /\ \A i \in DOMAIN A : \E n \in DOMAIN active' : active'[n] = A[i]
                            /\ \A k \in DOMAIN K : \E n \in DOMAIN active' : active'[n] = K[k]
  <2>1. A \in Seq(Fact) /\ K \in Seq(Fact) /\ x \in Nat /\ x <= Len(A \o K)
    BY <1>6, <1>7
  <2>2. active' = SubSeq(A \o K, 1, x)
    BY <1>1
  <2>3. PICK c : c = active'
    OBVIOUS
  <2>5. c = SubSeq(A \o K, 1, x)
    BY <2>2, <2>3, Zenon
  <2>4. c \in Seq(Fact) /\ BeginsWith(c, A, K, x)
    BY <2>1, <2>5, CutTo, Zenon
  <2> QED BY <2>3, <2>4, Zenon DEF BeginsWith
<1>9. ASSUME NEW k \in DOMAIN w.active \ leaves, NEW i \in DOMAIN A
      PROVE  ~Alike(A[i].fact, w.active[k].fact)
  <2>1. ~SameCategory(A[i].fact, w.active[k].fact)
    BY <1>4 DEF Retires, A
  <2>2. Text(A[i]) # Text(w.active[k])
    BY <1>2, Added DEF A
  <2>3. w.active[k] \in Fact /\ A[i] \in Fact
    BY <1>2, <1>6 DEF TableOK
  <2> QED BY <2>1, <2>2, <2>3 DEF Alike, Text, Fact
<1>10. Agree(active')
  <2>1. \A n \in DOMAIN active' :
          \/ \E i \in DOMAIN A : active'[n] = A[i]
          \/ \E k \in DOMAIN w.active \ leaves : active'[n] = w.active[k]
    <3> SUFFICES ASSUME NEW n \in DOMAIN active', NEW k \in DOMAIN K, active'[n] = K[k]
                 PROVE  \E l \in DOMAIN w.active \ leaves : active'[n] = w.active[l]
      BY <1>8
    <3> QED BY <1>6
  <2> SUFFICES ASSUME NEW n \in DOMAIN active', NEW o \in DOMAIN active',
                      Alike(active'[n].fact, active'[o].fact)
               PROVE  active'[n].at = active'[o].at
    BY DEF Agree
  <2>2. Alike(active'[o].fact, active'[n].fact)
    BY DEF SameCategory, Alike
  <2>3. CASE \E i \in DOMAIN A : active'[n] = A[i]
    <3>1. ~ \E k \in DOMAIN w.active \ leaves : active'[o] = w.active[k]
      BY <1>9, <2>3
    <3> QED BY <1>6, <2>1, <2>3, <3>1
  <2>4. CASE \E k \in DOMAIN w.active \ leaves : active'[n] = w.active[k]
    <3>1. ~ \E i \in DOMAIN A : active'[o] = A[i]
      BY <1>9, <2>2, <2>4
    <3>2. PICK k \in DOMAIN w.active : active'[n] = w.active[k]
      BY <2>4
    <3>3. PICK l \in DOMAIN w.active : active'[o] = w.active[l]
      BY <2>1, <3>1
    <3>4. Agree(w.active)
      BY <1>2 DEF TableOK
    <3>5. Alike(w.active[k].fact, w.active[l].fact)
      BY <3>2, <3>3
    <3> QED BY <3>2, <3>3, <3>4, <3>5 DEF Agree
  <2> QED BY <2>1, <2>3, <2>4
<1>11. retired \subseteq Fact /\ IsFiniteSet(retired)
  <2>1. \A i \in leaves : w.active[i] \in Fact /\ w.now \in Nat
    BY <1>2, <1>3 DEF TableOK, Loaded
  <2>2. \A i \in leaves : [w.active[i] EXCEPT !.until = w.now] \in Fact
    BY <2>1 DEF Fact
  <2>3. retired \subseteq Fact
    BY <1>5, <2>2
  <2>4. IsFiniteSet(leaves)
    <3>1. PICK m \in Nat : DOMAIN w.active = 1..m
      BY <1>2 DEF TableOK
    <3>2. leaves \in SUBSET (1..m)
      BY <1>3, <3>1
    <3> QED BY <3>2, CountAll
  <2>5. IsFiniteSet(retired)
    <3> DEFINE g == [i \in leaves |-> [w.active[i] EXCEPT !.until = w.now]]
    <3>1. g \in Surjection(leaves, retired)
      <4>1. \A i \in leaves : g[i] \in retired
        BY <1>5
      <4>2. g \in [leaves -> retired]
        BY <4>1
      <4>3. \A r \in retired : \E i \in leaves : g[i] = r
        BY <1>5
      <4> QED BY <4>2, <4>3 DEF Surjection
    <3> HIDE DEF g
    <3> QED BY <2>4, <3>1, FS_Surjection
  <2> QED BY <2>3, <2>5
<1>12. IsFiniteSet(rs) /\ Cardinality(rs) \in Nat /\ rs \subseteq Fact
  <2>1. IsFiniteSet(w.superseded) /\ w.superseded \subseteq Fact
    BY <1>2 DEF TableOK
  <2>2. IsFiniteSet(rs)
    BY <1>11, <2>1, FS_Union DEF rs
  <2> QED BY <1>11, <2>1, <2>2, FS_CardinalityType DEF rs
<1>13. /\ superseded' \in SUBSET rs
       /\ Cardinality(superseded') = IF Cardinality(rs) <= MaxSuperseded THEN Cardinality(rs) ELSE MaxSuperseded
  BY <1>1 DEF Newest
<1>14. /\ superseded' \subseteq Fact /\ IsFiniteSet(superseded')
       /\ Cardinality(superseded') <= MaxSuperseded
       /\ ~(Cardinality(rs) > MaxSuperseded) => superseded' = rs
  <2>1. IsFiniteSet(superseded') /\ (Cardinality(rs) = Cardinality(superseded') => rs = superseded')
    BY <1>12, <1>13, FS_Subset
  <2>2. MaxSuperseded \in Nat
    BY FactsOK
  <2> QED BY <1>12, <1>13, <2>1, <2>2
<1>15. ASSUME ~cut' PROVE Follows(active', superseded')
  <2>1. /\ x = Len(A \o K) /\ superseded' = rs /\ Follows(w.active, w.superseded)
    BY <1>1, <1>2, <1>7, <1>14, <1>15
  <2>2. ASSUME NEW i \in DOMAIN w.active
        PROVE  \/ \E n \in DOMAIN active' : active'[n] = w.active[i]
               \/ \E s \in rs : s.fact = w.active[i].fact /\ s.at = w.active[i].at
    <3>1. CASE i \in leaves
      <4>1. w.active[i] \in Fact
        BY <1>2 DEF TableOK
      <4>2. PICK s : s = [w.active[i] EXCEPT !.until = w.now]
        OBVIOUS
      <4>3. s.fact = w.active[i].fact /\ s.at = w.active[i].at
        BY <4>1, <4>2 DEF Fact
      <4>4. s \in rs
        BY <1>5, <3>1, <4>2 DEF rs
      <4> QED BY <4>3, <4>4
    <3>2. CASE i \notin leaves
      <4>1. PICK k \in DOMAIN K : K[k] = w.active[i]
        BY <1>6, <3>2
      <4>2. \E n \in DOMAIN active' : active'[n] = K[k]
        BY <1>8, <2>1
      <4> QED BY <4>1, <4>2
    <3> QED BY <3>1, <3>2
  <2>3. ASSUME NEW r \in w.superseded
        PROVE  (\E n \in DOMAIN active' : Successor(active'[n], r)) \/ (\E s \in rs : Successor(s, r))
    <3>1. CASE \E i \in DOMAIN w.active : Successor(w.active[i], r)
      <4>1. PICK i \in DOMAIN w.active : Successor(w.active[i], r)
        BY <3>1
      <4> QED BY <2>2, <4>1 DEF Successor
    <3>2. CASE \E s \in w.superseded : Successor(s, r)
      BY <3>2 DEF rs
    <3> QED BY <2>1, <3>1, <3>2 DEF Follows
  <2>4. ASSUME NEW r \in retired
        PROVE  \E n \in DOMAIN active' : Successor(active'[n], r)
    <3>1. PICK i \in leaves : r = [w.active[i] EXCEPT !.until = w.now]
      BY <1>5
    <3>2. r.fact = w.active[i].fact /\ r.until = w.now
      <4>1. w.active[i] \in Fact
        BY <1>2, <1>3 DEF TableOK
      <4> QED BY <3>1, <4>1 DEF Fact
    <3>3. PICK k \in DOMAIN A : SameCategory(A[k].fact, w.active[i].fact)
      BY <1>3, <1>4 DEF Retires, A
    <3>4. PICK n \in DOMAIN active' : active'[n] = A[k]
      BY <1>8, <2>1
    <3> QED BY <1>6, <3>2, <3>3, <3>4 DEF Successor
  <2> QED BY <2>1, <2>3, <2>4 DEF Follows, rs
<1>16. Len(active') <= MaxActive
  BY <1>7, <1>8
<1>17. cut' \in BOOLEAN /\ (cut => cut')
  BY <1>1, Zenon DEF FactsInv
<1> QED BY <1>8, <1>10, <1>14, <1>15, <1>16, <1>17 DEF TableOK

\* A step keeps what the tasks have read, if it moves none of them but j.
LEMMA ReadsKept ==
  ASSUME FactsInv, cut => cut', NEW j \in FactJobs,
         job' = job \/ \E w : job' = [job EXCEPT ![j] = w] /\ Reads(w)'
  PROVE  \A k \in FactJobs : Reads(job[k])'
<1> SUFFICES ASSUME NEW k \in FactJobs PROVE Reads(job[k])'
  OBVIOUS
<1>1. Reads(job[k])
  BY DEF FactsInv
<1>2. CASE job'[k] = job[k]
  BY <1>1, <1>2 DEF Reads
<1>3. CASE job'[k] # job[k]
  <2>1. PICK w : job' = [job EXCEPT ![j] = w] /\ Reads(w)'
    BY <1>3
  <2>2. job'[k] = w
    BY <1>3, <2>1 DEF FactsInv
  <2> QED BY <2>1, <2>2 DEF Reads
<1> QED BY <1>2, <1>3

\* A step that leaves the tables alone, and at most one task has something to do.
LEMMA TaskMoves ==
  ASSUME FactsInv, UNCHANGED <<active, superseded, cut>>, merges' \in 0..MaxMerges,
         NEW j \in FactJobs, NEW w \in {Idle} \cup Begun \cup Loaded,
         job' = [job EXCEPT ![j] = w],
         w.stage = "loaded" => TableOK(w.active, w.superseded) /\ (cut \/ Follows(w.active, w.superseded))
  PROVE  FactsInv'
<1>1. Reads(w)'
  BY DEF Reads
<1>2. \A k \in FactJobs : Reads(job[k])'
  BY <1>1, ReadsKept
<1>3. job' \in [FactJobs -> {Idle} \cup Begun \cup Loaded]
  BY DEF FactsInv
<1>4. active' = active /\ superseded' = superseded /\ cut' = cut
  OBVIOUS
<1>5. TableOK(active', superseded') /\ (cut' \/ Follows(active', superseded')) /\ cut' \in BOOLEAN
  <2>1. TableOK(active, superseded) /\ (cut \/ Follows(active, superseded)) /\ cut \in BOOLEAN
    BY Zenon DEF FactsInv
  <2>2. TableOK(active', superseded') /\ (cut \/ Follows(active', superseded'))
    BY <1>4, <2>1
  <2>3. (cut' \/ Follows(active', superseded')) /\ cut' \in BOOLEAN
    BY <1>4, <2>1, <2>2
  <2> QED BY <2>2, <2>3
<1>6. Len(active') > MaxActive => \A i \in DOMAIN active' : active'[i].at = 0
  BY <1>4 DEF FactsInv
<1> QED BY <1>2, <1>3, <1>5, <1>6, Zenon DEF FactsInv

LEMMA FactsBegin ==
  ASSUME FactsInv, NEW j \in FactJobs, NEW b \in Batches, BeginMerge(j, b)
  PROVE  FactsInv'
<1>1. PICK w : w = [stage |-> "begun", now |-> merges', batch |-> b]
  OBVIOUS
<1>2. /\ job' = [job EXCEPT ![j] = w] /\ merges < MaxMerges /\ merges' = merges + 1
      /\ UNCHANGED <<active, superseded, cut>>
  BY <1>1 DEF BeginMerge
<1>3. merges' \in 0..MaxMerges /\ merges' \in Nat
  <2>1. merges \in 0..MaxMerges /\ MaxMerges \in Nat
    BY FactsOK DEF FactsInv
  <2> QED BY <1>2, <2>1
<1>4. w \in Begun /\ w.stage = "begun"
  <2>1. b \in Seq(FactNames)
    BY FactsOK
  <2> QED BY <1>1, <1>3, <2>1 DEF Begun
<1>5. w.stage # "loaded" /\ w \in {Idle} \cup Begun \cup Loaded
  BY <1>4
<1> QED BY <1>2, <1>3, <1>5, TaskMoves

LEMMA EmptyTable == TableOK(<<>>, {}) /\ Follows(<<>>, {})
<1>1. Agree(<<>>)
  BY DEF Agree
<1>2. IsFiniteSet({}) /\ Cardinality({}) <= MaxSuperseded
  BY FS_EmptySet, FactsOK
<1> QED BY <1>1, <1>2 DEF TableOK, Follows

LEMMA FactsLoad ==
  ASSUME FactsInv, NEW j \in FactJobs, NEW readable \in BOOLEAN, LoadTable(j, readable)
  PROVE  FactsInv'
<1>1. PICK a : a = IF readable THEN [i \in DOMAIN active |-> Reloaded(active[i])] ELSE <<>>
  OBVIOUS
<1>2. PICK p : p = IF readable THEN {Reloaded(r) : r \in superseded} ELSE {}
  OBVIOUS
<1>3. PICK w : w = [stage |-> "loaded", now |-> job[j].now, batch |-> job[j].batch,
                    active |-> a, superseded |-> p]
  OBVIOUS
<1>4. /\ job' = [job EXCEPT ![j] = w] /\ job[j].stage = "begun"
      /\ UNCHANGED <<active, superseded, merges, cut>>
  BY <1>1, <1>2, <1>3, Zenon DEF LoadTable
<1>5. TableOK(active, superseded) /\ (cut \/ Follows(active, superseded)) /\ merges \in 0..MaxMerges
  BY DEF FactsInv
<1>6. TableOK(a, p) /\ (Follows(active, superseded) => Follows(a, p))
  <2>1. CASE readable
    BY <1>1, <1>2, <1>5, <2>1, TableReloaded
  <2>2. CASE ~readable
    BY <1>1, <1>2, <2>2, EmptyTable
  <2> QED BY <2>1, <2>2
<1>7. job[j].now \in Nat /\ job[j].batch \in Seq(FactNames)
  <2>1. job[j] \in {Idle} \cup Begun \cup Loaded
    BY DEF FactsInv
  <2> QED BY <1>4, <2>1 DEF Idle, Begun, Loaded
<1>8. w \in Loaded /\ w.active = a /\ w.superseded = p
  <2>1. a \in Seq(Fact) /\ p \in SUBSET Fact
    BY <1>6 DEF TableOK
  <2> QED BY <1>3, <1>7, <2>1 DEF Loaded
<1>9. w.stage = "loaded" => TableOK(w.active, w.superseded) /\ (cut \/ Follows(w.active, w.superseded))
  BY <1>5, <1>6, <1>8
<1>10. w \in {Idle} \cup Begun \cup Loaded /\ merges' \in 0..MaxMerges
  BY <1>4, <1>5, <1>8
<1>11. UNCHANGED <<active, superseded, cut>> /\ job' = [job EXCEPT ![j] = w]
  BY <1>4
<1> QED BY <1>9, <1>10, <1>11, TaskMoves

LEMMA FactsSave ==
  ASSUME FactsInv, NEW j \in FactJobs, SaveTable(j)
  PROVE  FactsInv'
<1>1. job' = [job EXCEPT ![j] = Idle] /\ merges' = merges
  BY DEF SaveTable
<1>2. /\ TableOK(active', superseded') /\ (cut' \/ Follows(active', superseded'))
      /\ Len(active') <= MaxActive /\ cut' \in BOOLEAN /\ (cut => cut')
  BY MergeKeeps
<1>3. Reads(Idle)'
  BY DEF Reads, Idle
<1>4. \A k \in FactJobs : Reads(job[k])'
  BY <1>1, <1>2, <1>3, ReadsKept
<1>5. job' \in [FactJobs -> {Idle} \cup Begun \cup Loaded]
  BY <1>1 DEF FactsInv
<1>6. ~(Len(active') > MaxActive)
  <2>1. Len(active') \in Nat
    BY <1>2 DEF TableOK
  <2> QED BY <1>2, <2>1, FactsOK
<1>7. merges' \in 0..MaxMerges
  BY <1>1 DEF FactsInv
<1> QED BY <1>2, <1>4, <1>5, <1>6, <1>7, Zenon DEF FactsInv

LEMMA FactsClear ==
  ASSUME FactsInv, ClearFacts
  PROVE  FactsInv'
<1>1. active' = <<>> /\ superseded' = {} /\ merges' = merges /\ job' = job /\ cut' = cut
  BY DEF ClearFacts
<1>2. \A k \in FactJobs : Reads(job[k])'
  BY <1>1 DEF FactsInv, Reads
<1>3. TableOK(active', superseded') /\ Follows(active', superseded')
  BY <1>1, EmptyTable
<1>4. merges' \in 0..MaxMerges /\ cut' \in BOOLEAN /\ job' \in [FactJobs -> {Idle} \cup Begun \cup Loaded]
  BY <1>1 DEF FactsInv
<1>5. \A i \in DOMAIN active' : active'[i].at = 0
  BY <1>1
<1> QED BY <1>2, <1>3, <1>4, <1>5, Zenon DEF FactsInv

LEMMA FactsStill ==
  ASSUME FactsInv, UNCHANGED <<active, superseded, merges, cut>>,
         job' = job \/ job' = [k \in FactJobs |-> Idle]
  PROVE  FactsInv'
<1>1. active' = active /\ superseded' = superseded /\ merges' = merges /\ cut' = cut
  OBVIOUS
<1>2. Idle.stage # "loaded"
  BY DEF Idle
<1>3. \A k \in FactJobs : Reads(job[k])'
  <2>1. CASE job' = job
    BY <1>1, <2>1 DEF FactsInv, Reads
  <2>2. CASE job' = [k \in FactJobs |-> Idle]
    BY <1>2, <2>2 DEF Reads
  <2> QED BY <2>1, <2>2
<1>4. job' \in [FactJobs -> {Idle} \cup Begun \cup Loaded]
  BY DEF FactsInv
<1>5. /\ TableOK(active', superseded') /\ (cut' \/ Follows(active', superseded'))
      /\ merges' \in 0..MaxMerges /\ cut' \in BOOLEAN
  <2>1. TableOK(active, superseded) /\ (cut \/ Follows(active, superseded)) /\ cut \in BOOLEAN
    BY Zenon DEF FactsInv
  <2>2. TableOK(active', superseded') /\ (cut \/ Follows(active', superseded'))
    BY <1>1, <2>1
  <2>3. (cut' \/ Follows(active', superseded')) /\ cut' \in BOOLEAN
    BY <1>1, <2>1, <2>2
  <2>4. merges' \in 0..MaxMerges
    BY <1>1, Zenon DEF FactsInv
  <2> QED BY <2>2, <2>3, <2>4
<1>6. Len(active') > MaxActive => \A i \in DOMAIN active' : active'[i].at = 0
  BY <1>1 DEF FactsInv
<1> QED BY <1>3, <1>4, <1>5, <1>6, Zenon DEF FactsInv

LEMMA FactsStep == FactsInv /\ [FactsNext]_factVars => FactsInv'
<1> SUFFICES ASSUME FactsInv, [FactsNext]_factVars PROVE FactsInv'
  OBVIOUS
<1>1. CASE FactsCrash
  BY <1>1, FactsStill DEF FactsCrash
<1>2. CASE UNCHANGED factVars
  <2>1. UNCHANGED <<active, superseded, merges, cut>> /\ job' = job
    BY <1>2 DEF factVars
  <2> QED BY <2>1, FactsStill
<1> QED BY <1>1, <1>2, FactsBegin, FactsLoad, FactsSave, FactsClear, Zenon DEF FactsNext

\* The table of the first version is one moment's.
LEMMA FirstTable ==
  ASSUME FactsInit
  PROVE  /\ active \in Seq(Fact)
         /\ \A i \in DOMAIN active : active[i].at = 0
<1>1. CASE active = <<>>
  BY <1>1
<1>2. CASE active # <<>>
  <2>1. PICK b \in Batches :
          active = [i \in DOMAIN b |-> [fact |-> b[i], esc |-> 0, at |-> 0, until |-> 0]]
    BY <1>2 DEF FactsInit
  <2>2. b \in Seq(FactNames)
    BY FactsOK
  <2>3. PICK m \in Nat : DOMAIN b = 1..m
    BY <2>2
  <2>4. \A i \in 1..m : b[i] \in FactNames
    BY <2>2, <2>3
  <2>5. \A i \in 1..m : [fact |-> b[i], esc |-> 0, at |-> 0, until |-> 0] \in Fact
    BY <2>4 DEF Fact
  <2>6. active \in Seq(Fact)
    BY <2>1, <2>3, <2>5
  <2> QED BY <2>1, <2>6
<1> QED BY <1>1, <1>2

LEMMA FactsStart == FactsInit => FactsInv
<1> SUFFICES ASSUME FactsInit PROVE FactsInv
  OBVIOUS
<1>1. active \in Seq(Fact) /\ \A i \in DOMAIN active : active[i].at = 0
  BY FirstTable
<1>2. Agree(active)
  BY <1>1 DEF Agree
<1>3. superseded = {} /\ cut = FALSE /\ job = [j \in FactJobs |-> Idle] /\ merges \in 0..MaxMerges
  BY FactsOK DEF FactsInit
<1>4. TableOK(active, superseded)
  BY <1>1, <1>2, <1>3, EmptyTable DEF TableOK
<1>5. Follows(active, superseded)
  BY <1>3 DEF Follows
<1>6. job \in [FactJobs -> {Idle} \cup Begun \cup Loaded] /\ \A j \in FactJobs : Reads(job[j])
  BY <1>3 DEF Reads, Idle
<1> QED BY <1>1, <1>3, <1>4, <1>5, <1>6, Zenon DEF FactsInv

(* Every table that a merge writes has one version of each category and of  *)
(* the same words (those apart that escaping changes and no category        *)
(* catches), of one moment: whatever the jobs read, fail to read, overwrite *)
(* or lose in a crash, and however the limits cut.                          *)
THEOREM FactsAgree == FactsSpec => []OneVersion
<1>1. FactsInv => OneVersion
  BY DEF FactsInv, TableOK, Agree, OneVersion
<1> QED BY <1>1, FactsStart, FactsStep, PTL DEF FactsSpec

(* What superseded a fact is in the table with it, as long as no limit has  *)
(* dropped a fact: a job that overwrites the table of another takes both    *)
(* away or neither.                                                         *)
THEOREM RetiredIsSucceeded == FactsSpec => []Succeeded
<1>1. FactsInv => Succeeded
  BY DEF FactsInv, Follows, Successor, Succeeded
<1> QED BY <1>1, FactsStart, FactsStep, PTL DEF FactsSpec

(* Every variable of the facts has its type, and no merge writes a table    *)
(* longer than its limits.                                                  *)
THEOREM FactsTypes == FactsSpec => []FactsTypeOK
<1>1. FactsInv => FactsTypeOK
  <2> SUFFICES ASSUME FactsInv PROVE FactsTypeOK
    OBVIOUS
  <2>1. \A j \in FactJobs : job[j].stage \in {"idle", "begun", "loaded"}
    <3> SUFFICES ASSUME NEW j \in FactJobs PROVE job[j].stage \in {"idle", "begun", "loaded"}
      OBVIOUS
    <3>1. job[j] \in {Idle} \cup Begun \cup Loaded
      BY DEF FactsInv
    <3> QED BY <3>1 DEF Idle, Begun, Loaded
  <2> QED BY <2>1, Zenon DEF FactsInv, TableOK, FactsTypeOK
<1> QED BY <1>1, FactsStart, FactsStep, PTL DEF FactsSpec

(***************************************************************************)
(* The five together                                                       *)
(***************************************************************************)

\* Whichever component a behaviour is of, it is a behaviour of every one of them:
\* what is proved of each holds of the run.
LEMMA MemoryIsEach ==
  MemorySpec => FactsSpec /\ GraphSpec /\ OutreachSpec /\ LetterSpec /\ ForgetSpec
<1>1. MemoryInit => FactsInit /\ GraphInit /\ OutreachInit /\ LetterInit /\ ForgetInit
  BY DEF MemoryInit
<1>2. [MemoryNext]_memoryVars =>
        /\ [FactsNext]_factVars /\ [GraphNext]_graphVars /\ [OutreachNext]_outreachVars
        /\ [LetterNext]_letterVars /\ [ForgetNext]_forgetVars
  BY Zenon DEF MemoryNext, memoryVars
<1> QED
  BY <1>1, <1>2, PTL DEF MemorySpec, FactsSpec, GraphSpec, OutreachSpec, LetterSpec, ForgetSpec

(* The five composed keep their types, whichever of them moves.             *)
THEOREM MemoryTypes == MemorySpec => []TypeOK
<1>1. FactsTypeOK /\ GraphTypeOK /\ OutreachTypeOK /\ LetterTypeOK /\ ForgetTypeOK => TypeOK
  BY DEF TypeOK
<1> QED
  BY <1>1, MemoryIsEach, FactsTypes, GraphTypes, OutreachTypeCorrect, LetterTypes, ForgettingTypes, PTL
===============================================================================
