------------------------- MODULE SessionLifecycleProofs -------------------------
(***************************************************************************)
(* Proofs about SessionLifecycle, for every number of turns, enders, crashes*)
(* and session ids.  Whether or not turns and end requests overlap: the type*)
(* invariant with its seed_len clause and the mutual exclusion of reflections*)
(* on one session; if every write of the row succeeds, the pending file under*)
(* every reflection, and, until the process dies, no turn that is folded in *)
(* twice without having been carried into another session.  If they do not  *)
(* overlap either: no answered turn is lost, and the refinement of          *)
(* ReflectionLedger.                                                        *)
(***************************************************************************)
EXTENDS SessionLifecycle, SequenceTheorems, TLAPS

(***************************************************************************)
(* Operators on histories                                                  *)
(***************************************************************************)

\* Slicing a history at any offset yields a history.
LEMMA SliceType ==
  ASSUME NEW h \in History, NEW m \in Nat \ {0}
  PROVE  SubSeq(h, m, Len(h)) \in History
<1>1. Len(h) \in Nat /\ DOMAIN h = 1 .. Len(h)
  BY LenProperties DEF History
<1>2. \A i \in m .. Len(h) : h[i] \in Message
  BY <1>1, ElementOfSeq DEF History
<1> QED
  BY <1>1, <1>2, SubSeqProperties DEF History

LEMMA FreshType ==
  ASSUME NEW h \in History, NEW seed \in Nat
  PROVE  Fresh(h, seed) \in History
BY SliceType DEF Fresh

LEMMA LastNType ==
  ASSUME NEW h \in History
  PROVE  LastN(h, SeedN) \in History
<1>1. Len(h) \in Nat
  BY LenProperties DEF History
<1>2. (IF Len(h) > SeedN THEN Len(h) - SeedN + 1 ELSE 1) \in Nat \ {0}
  BY <1>1, ConstantsOK
<1> QED
  BY <1>2, SliceType DEF LastN

\* A message at the end of a history makes it one longer.
LEMMA AppendHistory ==
  ASSUME NEW h \in History, NEW m \in Message
  PROVE  /\ Append(h, m) \in History
         /\ Len(Append(h, m)) = Len(h) + 1
         /\ Len(h) \in Nat
BY LenProperties DEF History

LEMMA ConcatHistory ==
  ASSUME NEW h \in History, NEW g \in History
  PROVE  /\ h \o g \in History
         /\ Len(h \o g) = Len(h) + Len(g)
         /\ Len(h) \in Nat /\ Len(g) \in Nat
BY ConcatProperties, LenProperties DEF History

\* A seed_len that points into a history points into every longer one.
LEMMA LongerHistory ==
  ASSUME NEW h \in History, NEW g \in History, NEW seed \in Nat, seed <= Len(h)
  PROVE  h \o g \in History /\ seed <= Len(h \o g)
BY ConcatHistory

(***************************************************************************)
(* Types                                                                   *)
(***************************************************************************)

\* A turn that is about to be written has its snapshot in hand.
Snapped(c) == c.pc = "writing" => c.snap \in RowRec /\ c.snap.seed <= Len(c.snap.hist)

\* A runner that is at work, and has looked at the session, works on some session.
Sidded(x) == x.pc \notin {"idle", "opened", "done"} => x.sid \in Sids
ReflOK(f) == f \in [Runners -> ReflRec] /\ \A r \in Runners : Sidded(f[r])

TypeInv ==
  /\ TypeOK
  /\ \A t \in Turns : Snapped(chat[t])
  /\ \A r \in Runners : Sidded(refl[r])

\* The session get_or_create_session makes is well formed, whatever it is made from.
LEMMA NewSessionType ==
  ASSUME TypeOK, sidGen < MaxSid, NEW opens \in BOOLEAN
  PROVE  NewSession(opens) \in LiveRec /\ NewSession(opens).seed <= Len(NewSession(opens).hist)
<1> DEFINE hist == IF Persisted THEN file.hist ELSE LastN(messages, SeedN)
           seed == IF Persisted THEN file.seed ELSE Len(hist)
           full == IF opens THEN Append(hist, Opener) ELSE hist
           fseed == IF opens THEN Len(full) ELSE seed
<1>1. hist \in History
  BY LastNType DEF TypeOK, Types, Persisted, StateRec
<1>2. seed \in Nat /\ seed <= Len(hist)
  <2>1. CASE Persisted
    BY <2>1 DEF TypeOK, Types, Persisted, StateRec, WellSeeded
  <2>2. CASE ~Persisted
    BY <2>2, <1>1, LenProperties DEF History
  <2> QED BY <2>1, <2>2
<1>3. full \in History /\ fseed \in Nat /\ fseed <= Len(full)
  BY <1>1, <1>2, AppendHistory DEF Message
<1>4. sidGen + 1 \in Sids /\ clock + 1 \in Nat
  BY ConstantsOK DEF TypeOK, Types, Sids
<1>5. NewSession(opens) = [sid |-> sidGen + 1, hist |-> full, seed |-> fseed,
                           la |-> clock + 1, idle |-> FALSE]
  BY DEF NewSession
<1> HIDE DEF full, fseed
<1> QED
  BY <1>3, <1>4, <1>5 DEF LiveRec

LEMMA SpendType ==
  ASSUME spent \in [Costs -> Nat], NEW c \in Costs, Spend(c)
  PROVE  spent' \in [Costs -> Nat]
BY DEF Spend

\* get_or_create_session leaves a well-formed session behind.
LEMMA GetOrCreateType ==
  ASSUME TypeOK, NEW logged \in History, GetOrCreate(logged)
  PROVE  /\ session' \in LiveRec /\ session'.seed <= Len(session'.hist)
         /\ messages' \in History
         /\ sidGen' \in 0 .. MaxSid /\ clock' \in Nat
         /\ spent' \in [Costs -> Nat]
<1>1. CASE session # None /\ messages' = messages \o logged /\ UNCHANGED <<session, sidGen, clock, spent>>
  BY <1>1, ConcatHistory DEF TypeOK, Types, WellSeeded
<1>2. CASE session = None
  <2>1. PICK opens \in MayOpen :
          /\ session' = NewSession(opens)
          /\ messages' = (IF opens THEN Append(messages, Opener) ELSE messages) \o logged
          /\ IF opens /\ ~FirstMessage THEN Spend("outreach") ELSE UNCHANGED spent
    BY <1>2 DEF GetOrCreate
  <2>2. sidGen < MaxSid /\ sidGen' = sidGen + 1 /\ clock' = clock + 1
    BY <1>2 DEF GetOrCreate
  <2>3. opens \in BOOLEAN
    BY DEF MayOpen
  <2>4. session' \in LiveRec /\ session'.seed <= Len(session'.hist)
    BY <2>1, <2>2, <2>3, NewSessionType
  <2>5. messages' \in History
    BY <2>1, AppendHistory, ConcatHistory DEF TypeOK, Types, Message
  <2>6. spent' \in [Costs -> Nat]
    <3>1. CASE opens /\ ~FirstMessage
      BY <2>1, <3>1, SpendType DEF TypeOK, Types, Costs
    <3>2. CASE ~(opens /\ ~FirstMessage)
      BY <2>1, <3>2 DEF TypeOK, Types
    <3> QED BY <3>1, <3>2
  <2> QED
    BY <2>2, <2>4, <2>5, <2>6, ConstantsOK DEF TypeOK, Types
<1> QED
  BY <1>1, <1>2 DEF GetOrCreate

LEMMA TypeInit == Init => TypeInv
<1> SUFFICES ASSUME Init PROVE TypeInv
  OBVIOUS
<1>1. <<>> \in History
  BY EmptySeq DEF History
<1>2. NoChat \in ChatRec
  BY <1>1 DEF NoChat, ChatPcs, ChatRec
<1>3. NoRefl \in ReflRec
  BY <1>1 DEF NoRefl, ReflPcs, EarlyPcs, ReflRec
<1>4. Types
  BY <1>1, <1>2, <1>3, ConstantsOK DEF Init, Types
<1>5. \A t \in Turns : chat[t].seed <= Len(chat[t].hist) /\ WellSeeded(chat[t].snap) /\ Snapped(chat[t])
  BY EmptySeq DEF Init, NoChat, WellSeeded, Snapped
<1> QED
  BY <1>4, <1>5 DEF Init, TypeInv, TypeOK, WellSeeded, Sidded, NoRefl


\* The two records an action builds by EXCEPT, once and for all.
LEMMA ChatType ==
  ASSUME TypeInv, NEW t \in Turns, NEW c, chat' = [chat EXCEPT ![t] = c],
         c \in ChatRec,
         c.seed <= Len(c.hist), WellSeeded(c.snap), Snapped(c)
  PROVE  /\ chat' \in [Turns -> ChatRec]
         /\ \A u \in Turns : chat'[u].seed <= Len(chat'[u].hist) /\ WellSeeded(chat'[u].snap) /\ Snapped(chat'[u])
<1>1. chat \in [Turns -> ChatRec]
  BY DEF TypeInv, TypeOK, Types
<1>2. \A u \in Turns : chat'[u] = IF u = t THEN c ELSE chat[u]
  BY <1>1
<1>3. \A u \in Turns : chat[u].seed <= Len(chat[u].hist) /\ WellSeeded(chat[u].snap) /\ Snapped(chat[u])
  BY DEF TypeInv, TypeOK
<1>4. chat' \in [Turns -> ChatRec]
  BY <1>1
<1>5. ASSUME NEW u \in Turns
      PROVE  chat'[u].seed <= Len(chat'[u].hist) /\ WellSeeded(chat'[u].snap) /\ Snapped(chat'[u])
  <2>1. CASE u = t BY <2>1, <1>2
  <2>2. CASE u # t
    <3>1. chat'[u] = chat[u] BY <2>2, <1>2
    <3> QED BY <3>1, <1>3
  <2> QED BY <2>1, <2>2
<1> QED BY <1>4, <1>5

\* A request that is over carries nothing.
LEMMA NoChatType ==
  ASSUME NEW pc \in ChatPcs \ {"writing"}
  PROVE  LET c == [NoChat EXCEPT !.pc = pc]
         IN  /\ c \in ChatRec
             /\ c.seed <= Len(c.hist) /\ WellSeeded(c.snap) /\ Snapped(c)
<1>1. <<>> \in History /\ Len(<<>>) = 0
  BY EmptySeq DEF History
<1> QED BY <1>1 DEF NoChat, WellSeeded, Snapped, ChatPcs, ChatRec

LEMMA ReflInv == TypeInv => ReflOK(refl)
BY DEF TypeInv, TypeOK, Types, ReflOK

LEMMA ReflExcept ==
  ASSUME TypeInv, NEW r \in Runners, NEW x \in ReflRec, Sidded(x),
         refl' = [refl EXCEPT ![r] = x]
  PROVE  ReflOK(refl')
<1>1. refl \in [Runners -> ReflRec] /\ \A u \in Runners : Sidded(refl[u])
  BY ReflInv DEF ReflOK
<1>2. refl' \in [Runners -> ReflRec] /\ \A u \in Runners : refl'[u] = IF u = r THEN x ELSE refl[u]
  BY <1>1
<1>3. ASSUME NEW u \in Runners PROVE Sidded(refl'[u])
  <2>1. CASE u = r BY <2>1, <1>2
  <2>2. CASE u # r
    <3>1. refl'[u] = refl[u] BY <2>2, <1>2
    <3> QED BY <3>1, <1>1
  <2> QED BY <2>1, <2>2
<1> QED BY <1>2, <1>3 DEF ReflOK

LEMMA SetPcType ==
  ASSUME TypeInv, NEW r \in Runners, NEW pc \in ReflPcs, SetPc(r, pc),
         refl[r].pc \notin {"idle", "opened", "done"} \/ pc = "opened"
  PROVE  ReflOK(refl')
<1> DEFINE x == [refl[r] EXCEPT !.pc = pc]
<1>1. refl[r] \in ReflRec /\ (pc # "opened" => refl[r].sid \in Sids)
  BY ReflInv DEF ReflOK, Sidded
<1>2. x \in ReflRec /\ x.sid = refl[r].sid /\ x.pc = pc
  BY <1>1 DEF ReflRec
<1>3. refl' = [refl EXCEPT ![r] = x]
  BY DEF SetPc
<1> HIDE DEF x
<1> QED
  BY <1>1, <1>2, <1>3, ReflExcept DEF Sidded

\* A runner that has finished carries nothing.
LEMMA NoReflType ==
  /\ [NoRefl EXCEPT !.pc = "done"] \in ReflRec /\ Sidded([NoRefl EXCEPT !.pc = "done"])
  /\ NoRefl \in ReflRec /\ Sidded(NoRefl)
<1>1. <<>> \in History
  BY EmptySeq DEF History
<1> QED BY <1>1 DEF NoRefl, ReflPcs, EarlyPcs, ReflRec, Sidded

LEMMA RunnersType == Watcher \in Runners /\ Boot \in Runners /\ Enders \subseteq Runners
BY DEF Runners

(***************************************************************************)
(* Every action keeps the types.                                           *)
(***************************************************************************)

LEMMA TypeChatRequest ==
  ASSUME TypeInv, NEW t \in Turns, ChatRequest(t)
  PROVE  TypeInv'
<1>1. <<t>> \in History
  BY DEF History, Message
<1>2. /\ session' \in LiveRec /\ session'.seed <= Len(session'.hist)
      /\ messages' \in History /\ sidGen' \in 0 .. MaxSid /\ clock' \in Nat
      /\ spent' \in [Costs -> Nat]
  BY <1>1, GetOrCreateType DEF ChatRequest, TypeInv
<1> DEFINE c == [pc |-> "thinking", from |-> session'.sid, hist |-> session'.hist,
                 seed |-> session'.seed, snap |-> None]
<1>3. /\ c \in ChatRec
      /\ c.seed <= Len(c.hist) /\ WellSeeded(c.snap) /\ Snapped(c)
  BY <1>2 DEF LiveRec, ChatPcs, ChatRec, WellSeeded, Snapped
<1>4. chat' = [chat EXCEPT ![t] = c]
  BY DEF ChatRequest, SetChat
<1> HIDE DEF c
<1>5. /\ chat' \in [Turns -> ChatRec]
      /\ \A u \in Turns : chat'[u].seed <= Len(chat'[u].hist) /\ WellSeeded(chat'[u].snap) /\ Snapped(chat'[u])
  BY <1>3, <1>4, ChatType
<1>6. UNCHANGED <<row, file, pending, claimed, refl, server, tried, ghosts>>
  BY DEF ChatRequest
<1>7. Types'
  BY <1>2, <1>5, <1>6 DEF TypeInv, TypeOK, Types, ghosts
<1> QED
  BY <1>2, <1>5, <1>6, <1>7 DEF TypeInv, TypeOK, WellSeeded

\* The steps of a turn that touch nothing but its own copy and the messages table.
LEMMA TypeChatCopy ==
  ASSUME TypeInv, NEW t \in Turns, ChatFail(t) \/ ChatReply(t) \/ ChatSilent(t)
  PROVE  TypeInv'
<1>1. /\ chat[t] \in ChatRec
      /\ messages \in History
  BY DEF TypeInv, TypeOK, Types
<1>7. chat[t].seed \in Nat /\ chat[t].hist \in History /\ chat[t].seed <= Len(chat[t].hist)
  BY <1>1 DEF TypeInv, TypeOK, ChatRec
<1>2. PICK c : chat' = [chat EXCEPT ![t] = c]
      /\ c \in ChatRec
      /\ c.seed <= Len(c.hist) /\ WellSeeded(c.snap) /\ Snapped(c)
  <2>1. CASE ChatFail(t)
    <3>1. "failed" \in ChatPcs \ {"writing"} BY DEF ChatPcs, ChatRec
    <3> QED BY <2>1, <3>1, NoChatType DEF ChatFail, SetChat
  <2>2. CASE ChatReply(t)
    <3> DEFINE c == [chat[t] EXCEPT !.pc = "answered", !.hist = @ \o <<t, t>>]
    <3>1. <<t, t>> \in History BY DEF History, Message
    <3>2. chat[t].seed <= Len(chat[t].hist \o <<t, t>>) /\ chat[t].hist \o <<t, t>> \in History
      BY <3>1, <1>1, <1>7, LongerHistory
    <3>3. c.pc = "answered" /\ c.hist = chat[t].hist \o <<t, t>> /\ c.seed = chat[t].seed
          /\ c.snap = chat[t].snap
          /\ c \in ChatRec
      BY <1>1, <3>2 DEF ChatPcs, ChatRec
    <3>4. WellSeeded(chat[t].snap) BY DEF TypeInv, TypeOK
    <3>5. chat' = [chat EXCEPT ![t] = c] BY <2>2 DEF ChatReply, SetChat
    <3> HIDE DEF c
    <3> QED BY <3>2, <3>3, <3>4, <3>5 DEF WellSeeded, Snapped
  <2>3. CASE ChatSilent(t)
    <3> DEFINE c == [chat[t] EXCEPT !.pc = "answered", !.hist = Append(@, t)]
    <3>1. chat[t].seed <= Len(Append(chat[t].hist, t)) /\ Append(chat[t].hist, t) \in History
      BY <1>1, <1>7, AppendHistory DEF Message
    <3>2. c.pc = "answered" /\ c.hist = Append(chat[t].hist, t) /\ c.seed = chat[t].seed
          /\ c.snap = chat[t].snap
          /\ c \in ChatRec
      BY <1>1, <3>1 DEF ChatPcs, ChatRec
    <3>3. WellSeeded(chat[t].snap) BY DEF TypeInv, TypeOK
    <3>4. chat' = [chat EXCEPT ![t] = c] BY <2>3 DEF ChatSilent, SetChat
    <3> HIDE DEF c
    <3> QED BY <3>1, <3>2, <3>3, <3>4 DEF WellSeeded, Snapped
  <2> QED BY <2>1, <2>2, <2>3
<1>3. /\ chat' \in [Turns -> ChatRec]
      /\ \A u \in Turns : chat'[u].seed <= Len(chat'[u].hist) /\ WellSeeded(chat'[u].snap) /\ Snapped(chat'[u])
  BY <1>2, ChatType
<1>4. messages' \in History
  BY <1>1, AppendHistory DEF ChatFail, ChatReply, ChatSilent, Message
<1>5. UNCHANGED <<store, pending, claimed, refl, server, tried, spent, ghosts>>
  BY DEF ChatFail, ChatReply, ChatSilent
<1>6. Types'
  BY <1>3, <1>4, <1>5 DEF TypeInv, TypeOK, Types, ghosts, store
<1> QED
  BY <1>3, <1>5, <1>6 DEF TypeInv, TypeOK, WellSeeded, store

LEMMA TypeChatInstall ==
  ASSUME TypeInv, NEW t \in Turns, ChatInstall(t)
  PROVE  TypeInv'
<1>1. /\ chat[t] \in ChatRec /\ chat[t].seed <= Len(chat[t].hist) /\ WellSeeded(chat[t].snap)
      /\ session \in LiveRec \cup {None}
  BY DEF TypeInv, TypeOK, Types
<1>2. UNCHANGED <<row, file, sidGen, clock, messages, pending, claimed, refl, server, tried, spent,
                  owed, reflected, analysed, skipped>>
      /\ carried' \subseteq Turns
  BY DEF ChatInstall, TurnsIn, TypeInv, TypeOK, Types
<1>3. PICK c \in ChatRec : /\ chat' = [chat EXCEPT ![t] = c]
                           /\ c.seed <= Len(c.hist) /\ WellSeeded(c.snap) /\ Snapped(c)
  <2>1. CASE session = None
    <3>1. "acked" \in ChatPcs \ {"writing"} BY DEF ChatPcs
    <3> QED BY <2>1, <3>1, NoChatType DEF ChatInstall, SetChat
  <2>2. CASE session # None
    <3> DEFINE c == [chat[t] EXCEPT !.pc = "installed"]
    <3>1. /\ c \in ChatRec /\ c.pc = "installed" /\ c.hist = chat[t].hist
          /\ c.seed = chat[t].seed /\ c.snap = chat[t].snap
      BY <1>1 DEF ChatRec, ChatPcs
    <3>2. chat' = [chat EXCEPT ![t] = c]
      BY <2>2 DEF ChatInstall, SetChat
    <3> HIDE DEF c
    <3> QED BY <1>1, <3>1, <3>2 DEF Snapped
  <2> QED BY <2>1, <2>2
<1>4. /\ chat' \in [Turns -> ChatRec]
      /\ \A u \in Turns : chat'[u].seed <= Len(chat'[u].hist) /\ WellSeeded(chat'[u].snap) /\ Snapped(chat'[u])
  BY <1>3, ChatType
<1>5. session' \in LiveRec \cup {None} /\ WellSeeded(session')
  <2>1. CASE session = None
    BY <2>1 DEF ChatInstall, WellSeeded
  <2>2. CASE session # None
    <3>1. session' = [session EXCEPT !.hist = chat[t].hist, !.seed = chat[t].seed]
      BY <2>2 DEF ChatInstall
    <3> QED BY <1>1, <2>2, <3>1 DEF LiveRec, ChatRec, WellSeeded
  <2> QED BY <2>1, <2>2
<1>6. Types'
  BY <1>2, <1>4, <1>5 DEF TypeInv, TypeOK, Types, ghosts
<1> QED
  BY <1>2, <1>4, <1>5, <1>6 DEF TypeInv, TypeOK, WellSeeded

LEMMA TypeChatSnapshot ==
  ASSUME TypeInv, NEW t \in Turns, ChatSnapshot(t)
  PROVE  TypeInv'
<1>1. /\ chat[t] \in ChatRec /\ chat[t].seed <= Len(chat[t].hist)
      /\ session \in LiveRec \cup {None} /\ WellSeeded(session)
  BY DEF TypeInv, TypeOK, Types
<1>2. UNCHANGED <<store, messages, pending, claimed, refl, server, tried, spent, ghosts>>
  BY DEF ChatSnapshot
<1>3. PICK c \in ChatRec : /\ chat' = [chat EXCEPT ![t] = c]
                           /\ c.seed <= Len(c.hist) /\ WellSeeded(c.snap) /\ Snapped(c)
  <2>1. CASE session = None
    <3>1. "acked" \in ChatPcs \ {"writing"} BY DEF ChatPcs
    <3> QED BY <2>1, <3>1, NoChatType DEF ChatSnapshot, SetChat
  <2>2. CASE session # None
    <3> DEFINE snap == [sid |-> session.sid, hist |-> session.hist, seed |-> session.seed,
                        la |-> session.la]
               c == [chat[t] EXCEPT !.pc = "writing", !.snap = snap]
    <3>1. snap \in RowRec /\ snap.seed <= Len(snap.hist)
      BY <1>1, <2>2 DEF RowRec, LiveRec, WellSeeded
    <3>2. chat' = [chat EXCEPT ![t] = c]
      BY <2>2 DEF ChatSnapshot, SetChat
    <3> HIDE DEF snap
    <3>3. c \in ChatRec /\ c.hist = chat[t].hist /\ c.seed = chat[t].seed /\ c.snap = snap
      BY <1>1, <3>1 DEF ChatRec, ChatPcs
    <3> HIDE DEF c
    <3> QED BY <1>1, <3>1, <3>2, <3>3 DEF Snapped, WellSeeded
  <2> QED BY <2>1, <2>2
<1>4. /\ chat' \in [Turns -> ChatRec]
      /\ \A u \in Turns : chat'[u].seed <= Len(chat'[u].hist) /\ WellSeeded(chat'[u].snap) /\ Snapped(chat'[u])
  BY <1>3, ChatType
<1>5. Types'
  BY <1>2, <1>4 DEF TypeInv, TypeOK, Types, ghosts, store
<1> QED
  BY <1>2, <1>4, <1>5 DEF TypeInv, TypeOK, WellSeeded, store

LEMMA TypeChatWrite ==
  ASSUME TypeInv, NEW t \in Turns, ChatWrite(t)
  PROVE  TypeInv'
<1>1. /\ session \in LiveRec \cup {None} /\ WellSeeded(session)
      /\ row \in RowRec \cup {None} /\ WellSeeded(row)
      /\ file \in StateRec \cup {None} /\ WellSeeded(file)
      /\ clock \in Nat /\ spent \in [Costs -> Nat] /\ owed \subseteq Turns
  BY DEF TypeInv, TypeOK, Types
<1>2. /\ UNCHANGED <<sidGen, messages, pending, claimed, refl, server, tried, reflected, analysed, skipped,
                     carried>>
      /\ chat' = [chat EXCEPT ![t] = [NoChat EXCEPT !.pc = "acked"]]
      /\ chat[t].pc = "writing"
  BY DEF ChatWrite, SetChat
<1>3. chat[t].snap \in RowRec /\ chat[t].snap.seed <= Len(chat[t].snap.hist)
  BY <1>2 DEF TypeInv, Snapped
<1>4. "acked" \in ChatPcs \ {"writing"}
  BY DEF ChatPcs
<1>5. /\ chat' \in [Turns -> ChatRec]
      /\ \A u \in Turns : chat'[u].seed <= Len(chat'[u].hist) /\ WellSeeded(chat'[u].snap) /\ Snapped(chat'[u])
  BY <1>2, <1>4, NoChatType, ChatType
<1>6. /\ row' \in RowRec \cup {None} /\ WellSeeded(row')
      /\ file' \in StateRec \cup {None} /\ WellSeeded(file')
      /\ spent' \in [Costs -> Nat]
  <2>1. CASE row' = Upsert(chat[t].snap) /\ UNCHANGED <<file, spent>>
    <3>1. Upsert(chat[t].snap) \in RowRec /\ Upsert(chat[t].snap).seed <= Len(Upsert(chat[t].snap).hist)
      BY <1>1, <1>3 DEF Upsert, RowRec
    <3> QED BY <1>1, <2>1, <3>1 DEF WellSeeded
  <2>2. CASE /\ Spend("fault")
             /\ file' = IF session = None THEN file
                        ELSE [hist |-> session.hist, seed |-> session.seed]
             /\ UNCHANGED row
    <3>1. spent' \in [Costs -> Nat]
      BY <1>1, <2>2, SpendType DEF Costs
    <3>2. CASE session = None
      BY <1>1, <2>2, <3>1, <3>2 DEF WellSeeded
    <3>3. CASE session # None
      BY <1>1, <2>2, <3>1, <3>3 DEF WellSeeded, LiveRec, StateRec
    <3> QED BY <3>2, <3>3
  <2> QED BY <2>1, <2>2 DEF ChatWrite
<1>7. /\ session' \in LiveRec \cup {None} /\ WellSeeded(session')
      /\ clock' \in Nat /\ owed' \subseteq Turns
  <2>1. CASE session = None
    BY <1>1, <2>1 DEF ChatWrite, WellSeeded
  <2>2. CASE session # None
    <3>1. /\ session' = [session EXCEPT !.la = clock + 1, !.idle = FALSE]
          /\ clock' = clock + 1
          /\ owed' = IF ReflectionBegun(session.sid) THEN owed ELSE owed \cup {t}
      BY <2>2 DEF ChatWrite
    <3>2. session' \in LiveRec /\ session'.seed = session.seed /\ session'.hist = session.hist
      <4>1. session \in LiveRec /\ clock + 1 \in Nat
        BY <1>1, <2>2
      <4> QED BY <4>1, <3>1 DEF LiveRec
    <3> QED BY <1>1, <2>2, <3>1, <3>2 DEF WellSeeded
  <2> QED BY <2>1, <2>2
<1>8. Types'
  BY <1>2, <1>5, <1>6, <1>7 DEF TypeInv, TypeOK, Types
<1> QED
  BY <1>2, <1>5, <1>6, <1>7, <1>8 DEF TypeInv, TypeOK

LEMMA TypeReflectApply ==
  ASSUME TypeInv, NEW r \in Runners, ReflectApply(r)
  PROVE  TypeInv'
<1>1. ReflOK(refl')
  BY SetPcType DEF ReflectApply, ReflPcs, EarlyPcs
<1>2. UNCHANGED <<store, messages, pending, claimed, chat, server, tried, owed, carried>>
  BY DEF ReflectApply
<1>3. /\ skipped' \subseteq Turns /\ analysed' \subseteq Turns
      /\ reflected' \in [Turns -> Nat] /\ spent' \in [Costs -> Nat]
  <2>1. /\ skipped \subseteq Turns /\ analysed \subseteq Turns
        /\ reflected \in [Turns -> Nat] /\ spent \in [Costs -> Nat]
    BY DEF TypeInv, TypeOK, Types
  <2>2. TurnsIn(refl[r].tr) \subseteq Turns
    BY DEF TurnsIn
  <2>3. CASE Len(refl[r].tr) < MinMsgs
    BY <2>1, <2>2, <2>3 DEF ReflectApply
  <2>4. CASE ~(Len(refl[r].tr) < MinMsgs)
    <3>1. UNCHANGED skipped /\ reflected' \in [Turns -> Nat]
      BY <2>1, <2>4 DEF ReflectApply
    <3>2. \/ analysed' = analysed \cup TurnsIn(refl[r].tr) /\ UNCHANGED spent
          \/ Spend("outage") /\ UNCHANGED analysed
      BY <2>4 DEF ReflectApply
    <3>3. analysed' \subseteq Turns /\ spent' \in [Costs -> Nat]
      BY <2>1, <2>2, <3>2, SpendType DEF Costs
    <3> QED BY <2>1, <3>1, <3>3
  <2> QED BY <2>3, <2>4
<1>4. Types'
  BY <1>1, <1>2, <1>3 DEF TypeInv, TypeOK, Types, store, ReflOK
<1> QED
  BY <1>1, <1>2, <1>4 DEF TypeInv, TypeOK, WellSeeded, store, ReflOK

\* The three places where get_or_create_session is called with nothing to log.
LEMMA TypeOpen ==
  ASSUME TypeInv, GetOrCreate(<<>>), ReflOK(refl'),
         UNCHANGED <<row, file, pending, claimed, chat, server, tried, ghosts>>
  PROVE  TypeInv'
<1>1. <<>> \in History
  BY EmptySeq DEF History
<1>2. /\ session' \in LiveRec /\ session'.seed <= Len(session'.hist)
      /\ messages' \in History /\ sidGen' \in 0 .. MaxSid /\ clock' \in Nat
      /\ spent' \in [Costs -> Nat]
  BY <1>1, GetOrCreateType DEF TypeInv
<1>3. Types'
  BY <1>2 DEF TypeInv, TypeOK, Types, ghosts, ReflOK
<1> QED
  BY <1>2, <1>3 DEF TypeInv, TypeOK, WellSeeded, ReflOK

LEMMA TypeEndOpen ==
  ASSUME TypeInv, NEW e \in Enders, EndOpen(e)
  PROVE  TypeInv'
<1>1. ReflOK(refl')
  BY RunnersType, SetPcType DEF EndOpen, ReflPcs, EarlyPcs
<1> QED
  BY <1>1, TypeOpen DEF EndOpen

LEMMA TypeEndReopen ==
  ASSUME TypeInv, NEW e \in Enders, EndReopen(e)
  PROVE  TypeInv'
<1>1. ReflOK(refl')
  BY NoReflType, RunnersType, ReflExcept DEF EndReopen
<1> QED
  BY <1>1, TypeOpen DEF EndReopen

\* The actions that move one reflection on, and queue, unqueue or claim for it.
LEMMA TypeReflStep ==
  ASSUME TypeInv, ReflOK(refl'),
         pending' \in [Sids -> History \cup {None}], claimed' \subseteq Sids,
         tried' \subseteq Sids, server' \in {"up", "down", "catchup"},
         spent' \in [Costs -> Nat],
         UNCHANGED <<store, messages, chat, ghosts>>
  PROVE  TypeInv'
<1>1. Types'
  BY DEF TypeInv, TypeOK, Types, store, ghosts, ReflOK
<1> QED
  BY <1>1 DEF TypeInv, TypeOK, WellSeeded, store, ReflOK

\* A transcript goes into the queue, or its entry comes out.
LEMMA PendingType ==
  ASSUME TypeInv, NEW s, NEW v \in History \cup {None},
         pending' = [pending EXCEPT ![s] = v]
  PROVE  pending' \in [Sids -> History \cup {None}]
BY DEF TypeInv, TypeOK, Types

\* The end handler, from its claim to its last write.
LEMMA TypeEnd ==
  ASSUME TypeInv, NEW e \in Enders,
         EndClaim(e) \/ EndSave(e) \/ EndReflected(e) \/ EndRaise(e)
  PROVE  TypeInv'
<1>1. e \in Runners /\ refl[e] \in ReflRec /\ Sidded(refl[e])
  BY RunnersType, ReflInv DEF ReflOK
<1>2. CASE EndClaim(e)
  <2>1. ReflOK(refl')
    <3>1. CASE Claimable(e)
      BY <1>1, <1>2, <3>1, SetPcType DEF EndClaim, ReflPcs, EarlyPcs
    <3>2. CASE ~Claimable(e)
      BY <1>1, <1>2, <3>2, SetPcType DEF EndClaim, ReflPcs, EarlyPcs
    <3> QED BY <3>1, <3>2
  <2>2. claimed' \subseteq Sids
    <3>1. CASE Claimable(e)
      <4>1. refl[e].sid \in Sids
        BY <1>1, <1>2 DEF EndClaim, Sidded
      <4> QED BY <1>2, <3>1, <4>1 DEF EndClaim, TypeInv, TypeOK, Types
    <3>2. CASE ~Claimable(e)
      BY <1>2, <3>2 DEF EndClaim, TypeInv, TypeOK, Types
    <3> QED BY <3>1, <3>2
  <2> QED
    BY <1>2, <2>1, <2>2, TypeReflStep DEF EndClaim, TypeInv, TypeOK, Types
<1>3. CASE EndSave(e)
  BY <1>1, <1>3, SetPcType, PendingType, TypeReflStep DEF EndSave, ReflPcs, EarlyPcs, ReflRec, TypeInv, TypeOK, Types
<1>4. CASE EndReflected(e)
  BY <1>1, <1>4, SetPcType, PendingType, TypeReflStep DEF EndReflected, ReflPcs, EarlyPcs, TypeInv, TypeOK, Types
<1>5. CASE EndRaise(e)
  BY <1>1, <1>5, NoReflType, ReflExcept, SpendType, TypeReflStep DEF EndRaise, Raises, ReflPcs, EarlyPcs, Costs, TypeInv, TypeOK, Types
<1> QED
  BY <1>2, <1>3, <1>4, <1>5

\* A step that rearranges only the live session, the row and the file.
LEMMA TypeStoreStep ==
  ASSUME TypeInv, ReflOK(refl'),
         session' \in LiveRec \cup {None}, WellSeeded(session'),
         row' \in RowRec \cup {None}, WellSeeded(row'),
         file' \in StateRec \cup {None}, WellSeeded(file'),
         server' \in {"up", "down", "catchup"},
         spent' \in [Costs -> Nat],
         UNCHANGED <<sidGen, clock, messages, pending, claimed, chat, tried, ghosts>>
  PROVE  TypeInv'
<1>1. Types'
  BY DEF TypeInv, TypeOK, Types, ghosts, ReflOK
<1> QED
  BY <1>1 DEF TypeInv, TypeOK, ReflOK

LEMMA DropRowType ==
  ASSUME TypeInv, DropRow
  PROVE  row' \in RowRec \cup {None} /\ WellSeeded(row') /\ spent' \in [Costs -> Nat]
BY SpendType DEF DropRow, Costs, WellSeeded, TypeInv, TypeOK, Types

\* The three steps of a deletion, whoever takes them.
LEMMA TypePop ==
  ASSUME TypeInv, NEW r \in Runners, refl[r].pc \notin {"idle", "opened", "done"},
         NEW pc \in ReflPcs, SetPc(r, pc), session' = None,
         UNCHANGED <<row, file, sidGen, clock, messages, pending, claimed, chat, server,
                     tried, spent, ghosts>>
  PROVE  TypeInv'
<1>1. ReflOK(refl')
  BY SetPcType
<1> QED
  BY <1>1, TypeStoreStep DEF TypeInv, TypeOK, Types, WellSeeded

LEMMA TypeUnlink ==
  ASSUME TypeInv, NEW r \in Runners, Unlink(r)
  PROVE  TypeInv'
<1>1. ReflOK(refl')
  <2>1. CASE refl[r].pc = "popped"
    BY <2>1, SetPcType DEF Unlink, ReflPcs, EarlyPcs
  <2>2. CASE refl[r].pc = "dropping"
    BY <2>2, SetPcType DEF Unlink, ReflPcs, EarlyPcs
  <2> QED BY <2>1, <2>2 DEF Unlink
<1> QED
  BY <1>1, TypeStoreStep DEF Unlink, TypeInv, TypeOK, Types, WellSeeded

LEMMA TypeEndDelete ==
  ASSUME TypeInv, NEW e \in Enders, EndPop(e) \/ EndDelete(e)
  PROVE  TypeInv'
<1>1. e \in Runners BY RunnersType
<1>2. CASE EndPop(e)
  <2>1. CASE refl[e].pc = "claimed"
    BY <1>1, <1>2, <2>1, TypePop DEF EndPop, ReflPcs, EarlyPcs
  <2>2. CASE refl[e].pc = "unclaimed"
    BY <1>1, <1>2, <2>2, TypePop DEF EndPop, ReflPcs, EarlyPcs
  <2> QED BY <1>2, <2>1, <2>2 DEF EndPop
<1>3. CASE EndDelete(e)
  <2>1. ReflOK(refl')
    <3>1. CASE refl[e].pc = "unlinked"
      BY <1>1, <1>3, <3>1, SetPcType DEF EndDelete, ReflPcs, EarlyPcs
    <3>2. CASE refl[e].pc = "dropped"
      BY <1>1, <1>3, <3>2, SetPcType DEF EndDelete, ReflPcs, EarlyPcs
    <3> QED BY <1>3, <3>1, <3>2 DEF EndDelete
  <2> QED
    BY <1>3, <2>1, DropRowType, TypeStoreStep DEF EndDelete, TypeInv, TypeOK, Types, WellSeeded
<1> QED BY <1>2, <1>3

LEMMA TypeBecomeIdle ==
  ASSUME TypeInv, BecomeIdle
  PROVE  TypeInv'
<1>1. session \in LiveRec /\ session.seed <= Len(session.hist)
  BY DEF BecomeIdle, TypeInv, TypeOK, Types, WellSeeded
<1>2. session' = [session EXCEPT !.idle = TRUE]
  BY DEF BecomeIdle
<1>3. session' \in LiveRec /\ WellSeeded(session')
  BY <1>1, <1>2 DEF LiveRec, WellSeeded
<1>4. ReflOK(refl')
  BY ReflInv DEF BecomeIdle, ReflOK
<1> QED
  BY <1>3, <1>4, TypeStoreStep DEF BecomeIdle, TypeInv, TypeOK, Types, WellSeeded

LEMMA TypeWatchSnapshot ==
  ASSUME TypeInv, WatchSnapshot
  PROVE  TypeInv'
<1>1. session \in LiveRec
  BY DEF WatchSnapshot, TypeInv, TypeOK, Types
<1> DEFINE rec == [pc |-> "snapped", sid |-> session.sid,
                   tr |-> Fresh(session.hist, session.seed), la |-> session.la]
<1>2. rec \in ReflRec /\ Sidded(rec)
  BY <1>1, FreshType DEF LiveRec, ReflRec, ReflPcs, EarlyPcs, Sidded
<1>3. refl' = [refl EXCEPT ![Watcher] = rec]
  BY DEF WatchSnapshot
<1> HIDE DEF rec
<1>4. ReflOK(refl')
  BY <1>2, <1>3, RunnersType, ReflExcept
<1> QED
  BY <1>4, TypeReflStep DEF WatchSnapshot, TypeInv, TypeOK, Types

LEMMA TypeEndSnapshot ==
  ASSUME TypeInv, NEW e \in Enders, EndSnapshot(e)
  PROVE  TypeInv'
<1> DEFINE rec == [pc |-> "snapped", sid |-> session.sid,
                   tr |-> Fresh(session.hist, session.seed), la |-> session.la]
<1>1. ReflOK(refl')
  <2>1. CASE session = None
    BY <2>1, RunnersType, NoReflType, ReflExcept DEF EndSnapshot
  <2>2. CASE session # None
    <3>1. session \in LiveRec
      BY <2>2 DEF TypeInv, TypeOK, Types
    <3>2. rec \in ReflRec /\ Sidded(rec)
      BY <3>1, FreshType DEF LiveRec, ReflRec, ReflPcs, EarlyPcs, Sidded
    <3>3. refl' = [refl EXCEPT ![e] = rec]
      BY <2>2 DEF EndSnapshot
    <3> HIDE DEF rec
    <3> QED BY <3>2, <3>3, RunnersType, ReflExcept
  <2> QED BY <2>1, <2>2
<1> QED
  BY <1>1, TypeReflStep DEF EndSnapshot, TypeInv, TypeOK, Types

\* The watcher, from its queued transcript to the end of its task.
LEMMA TypeWatch ==
  ASSUME TypeInv, WatchQueue \/ WatchClaim \/ WatchReflected \/ WatchRaise
  PROVE  TypeInv'
<1>1. Watcher \in Runners /\ refl[Watcher] \in ReflRec /\ Sidded(refl[Watcher])
  BY RunnersType, ReflInv DEF ReflOK
<1>2. WatcherIdle => ReflOK(refl')
  BY RunnersType, NoReflType, ReflExcept DEF WatcherIdle
<1>3. CASE WatchQueue
  BY <1>1, <1>3, SetPcType, PendingType, TypeReflStep
  DEF WatchQueue, ReflPcs, EarlyPcs, ReflRec, TypeInv, TypeOK, Types
<1>4. CASE WatchClaim
  <2>1. ReflOK(refl') /\ claimed' \subseteq Sids
    <3>1. CASE Claimable(Watcher)
      <4>1. refl[Watcher].sid \in Sids
        BY <1>1, <1>4 DEF WatchClaim, Sidded
      <4>2. ReflOK(refl')
        BY <1>1, <1>4, <3>1, SetPcType DEF WatchClaim, ReflPcs, EarlyPcs
      <4> QED BY <1>4, <3>1, <4>1, <4>2 DEF WatchClaim, TypeInv, TypeOK, Types
    <3>2. CASE ~Claimable(Watcher)
      BY <1>2, <1>4, <3>2 DEF WatchClaim, TypeInv, TypeOK, Types
    <3> QED BY <3>1, <3>2
  <2> QED
    BY <1>4, <2>1, TypeReflStep DEF WatchClaim, TypeInv, TypeOK, Types
<1>5. CASE WatchReflected
  BY <1>1, <1>5, SetPcType, PendingType, TypeReflStep
  DEF WatchReflected, ReflPcs, EarlyPcs, TypeInv, TypeOK, Types
<1>6. CASE WatchRaise
  BY <1>2, <1>6, SpendType, TypeReflStep DEF WatchRaise, Raises, Costs, TypeInv, TypeOK, Types
<1> QED
  BY <1>3, <1>4, <1>5, <1>6

LEMMA TypeWatchCleanup ==
  ASSUME TypeInv, WatchPop \/ WatchCleanup
  PROVE  TypeInv'
<1>1. WatcherIdle => ReflOK(refl')
  BY RunnersType, NoReflType, ReflExcept DEF WatcherIdle
<1>2. CASE WatchPop
  <2>1. CASE Stale
    BY <1>2, <2>1, RunnersType, TypePop DEF WatchPop, ReflPcs, EarlyPcs
  <2>2. CASE ~Stale
    BY <1>1, <1>2, <2>2, TypeStoreStep DEF WatchPop, TypeInv, TypeOK, Types, WellSeeded
  <2> QED BY <2>1, <2>2
<1>3. CASE WatchCleanup
  BY <1>1, <1>3, DropRowType, TypeStoreStep DEF WatchCleanup, TypeInv, TypeOK, Types, WellSeeded
<1> QED
  BY <1>2, <1>3

LEMMA TypeCrash ==
  ASSUME TypeInv, Crash
  PROVE  TypeInv'
<1>1. chat \in [Turns -> ChatRec]
      /\ \A t \in Turns : chat[t].seed <= Len(chat[t].hist) /\ WellSeeded(chat[t].snap) /\ Snapped(chat[t])
  BY DEF TypeInv, TypeOK, Types
<1> DEFINE gone == [NoChat EXCEPT !.pc = "failed"]
<1>2. /\ gone \in ChatRec /\ gone.seed <= Len(gone.hist)
      /\ WellSeeded(gone.snap) /\ Snapped(gone)
  <2>1. "failed" \in ChatPcs \ {"writing"} BY DEF ChatPcs
  <2> QED BY <2>1, NoChatType
<1>3. chat' = [t \in Turns |-> IF ChatBusy(t) THEN gone ELSE chat[t]]
  BY DEF Crash
<1> HIDE DEF gone
<1>4. /\ chat' \in [Turns -> ChatRec]
      /\ \A u \in Turns : chat'[u].seed <= Len(chat'[u].hist) /\ WellSeeded(chat'[u].snap) /\ Snapped(chat'[u])
  <2>1. chat' \in [Turns -> ChatRec]
    BY <1>1, <1>2, <1>3
  <2>2. ASSUME NEW u \in Turns
        PROVE  chat'[u].seed <= Len(chat'[u].hist) /\ WellSeeded(chat'[u].snap) /\ Snapped(chat'[u])
    <3>1. CASE ChatBusy(u)
      <4>1. chat'[u] = gone BY <1>3, <3>1
      <4> QED BY <4>1, <1>2
    <3>2. CASE ~ChatBusy(u)
      <4>1. chat'[u] = chat[u] BY <1>3, <3>2
      <4> QED BY <4>1, <1>1
    <3> QED BY <3>1, <3>2
  <2> QED BY <2>1, <2>2
<1> DEFINE ended == [NoRefl EXCEPT !.pc = "done"]
<1>5. ended \in ReflRec /\ Sidded(ended) /\ NoRefl \in ReflRec /\ Sidded(NoRefl)
  BY NoReflType
<1>6. refl' = [r \in Runners |-> IF r \in Enders /\ refl[r].pc # "idle" THEN ended ELSE NoRefl]
  BY DEF Crash
<1> HIDE DEF ended
<1>7. ReflOK(refl')
  <2>1. refl' \in [Runners -> ReflRec]
    BY <1>5, <1>6
  <2>2. ASSUME NEW u \in Runners PROVE Sidded(refl'[u])
    <3>1. refl'[u] = ended \/ refl'[u] = NoRefl BY <1>6
    <3> QED BY <3>1, <1>5
  <2> QED BY <2>1, <2>2 DEF ReflOK
<1>8. spent' \in [Costs -> Nat]
  BY SpendType DEF Crash, Costs, TypeInv, TypeOK, Types
<1>9. /\ session' = None /\ claimed' = {} /\ tried' = {} /\ server' = "down"
      /\ owed' \subseteq Turns
      /\ UNCHANGED <<row, file, sidGen, clock, messages, pending, reflected, analysed, skipped, carried>>
  BY DEF Crash, TypeInv, TypeOK, Types
<1>10. Types'
  BY <1>4, <1>7, <1>8, <1>9 DEF TypeInv, TypeOK, Types, ReflOK
<1> QED
  BY <1>4, <1>7, <1>9, <1>10 DEF TypeInv, TypeOK, WellSeeded, ReflOK

LEMMA TypeRecover ==
  ASSUME TypeInv, Recover
  PROVE  TypeInv'
<1>1. row \in RowRec \cup {None} /\ WellSeeded(row)
  BY DEF TypeInv, TypeOK, Types
<1>2. session' \in LiveRec \cup {None} /\ WellSeeded(session')
  <2>1. CASE row = None
    BY <2>1 DEF Recover, WellSeeded
  <2>2. CASE row # None
    BY <1>1, <2>2 DEF Recover, WellSeeded, RowRec, LiveRec
  <2> QED BY <2>1, <2>2
<1>3. ReflOK(refl')
  BY ReflInv DEF Recover, ReflOK
<1> QED
  BY <1>2, <1>3, TypeStoreStep DEF Recover, TypeInv, TypeOK, Types, WellSeeded

\* The start-up pass over the queue.
LEMMA TypeBoot ==
  ASSUME TypeInv,
         (\E s \in Sids : CatchUp(s)) \/ CatchUpReflected \/ CatchUpRaise \/ Serve
  PROVE  TypeInv'
<1>1. Boot \in Runners
  BY RunnersType
<1>2. ASSUME NEW s \in Sids, CatchUp(s) PROVE TypeInv'
  <2>1. pending[s] \in History
    BY <1>2 DEF CatchUp, Queued, TypeInv, TypeOK, Types
  <2> DEFINE x == [pc |-> "running", sid |-> s, tr |-> pending[s], la |-> 0]
  <2>2. x \in ReflRec /\ Sidded(x)
    BY <2>1 DEF ReflRec, ReflPcs, EarlyPcs, Sidded
  <2>3. refl' = [refl EXCEPT ![Boot] = x]
    BY <1>2 DEF CatchUp
  <2> HIDE DEF x
  <2>4. ReflOK(refl')
    BY <1>1, <2>2, <2>3, ReflExcept
  <2> QED
    BY <1>2, <2>4, TypeReflStep DEF CatchUp, TypeInv, TypeOK, Types
<1>3. CASE CatchUpReflected
  <2>1. ReflOK(refl')
    BY <1>1, <1>3, NoReflType, ReflExcept DEF CatchUpReflected
  <2> QED
    BY <1>3, <2>1, PendingType, TypeReflStep DEF CatchUpReflected, TypeInv, TypeOK, Types
<1>4. CASE CatchUpRaise
  <2>1. ReflOK(refl')
    BY <1>1, <1>4, NoReflType, ReflExcept DEF CatchUpRaise
  <2> QED
    BY <1>4, <2>1, SpendType, TypeReflStep
    DEF CatchUpRaise, Raises, Costs, TypeInv, TypeOK, Types
<1>5. CASE Serve
  BY <1>5, ReflInv, TypeReflStep DEF Serve, ReflOK, TypeInv, TypeOK, Types
<1> QED
  BY <1>2, <1>3, <1>4, <1>5

LEMMA TypeStart == ASSUME TypeInv, StartSession PROVE TypeInv'
<1>1. ReflOK(refl')
  BY ReflInv DEF StartSession, ReflOK
<1> QED
  BY <1>1, TypeOpen DEF StartSession

LEMMA TypeNext == TypeInv /\ [Next]_vars => TypeInv'
<1> SUFFICES ASSUME TypeInv, [Next]_vars PROVE TypeInv'
  OBVIOUS
<1>1. CASE StartSession
  BY <1>1, TypeStart
<1>2. ASSUME NEW t \in Turns, ChatRequest(t) \/ ChatFail(t) \/ ChatStep(t)
      PROVE  TypeInv'
  BY <1>2, TypeChatRequest, TypeChatCopy, TypeChatInstall, TypeChatSnapshot, TypeChatWrite DEF ChatStep
<1>3. ASSUME NEW e \in Enders, EndOpen(e) \/ EndRaise(e) \/ EndStep(e)
      PROVE  TypeInv'
  BY <1>3, TypeEndOpen, TypeEndSnapshot, TypeEnd, TypeUnlink, TypeEndDelete, TypeEndReopen, RunnersType
  DEF EndStep
<1>4. ASSUME NEW r \in Runners, ReflectApply(r) PROVE TypeInv'
  BY <1>4, TypeReflectApply
<1>5. CASE BecomeIdle \/ WatchRaise \/ WatchStep
  BY <1>5, TypeBecomeIdle, TypeWatchSnapshot, TypeWatch, TypeUnlink, TypeWatchCleanup, RunnersType
  DEF WatchStep
<1>6. CASE Crash \/ CatchUpRaise \/ BootStep
  BY <1>6, TypeCrash, TypeRecover, TypeBoot DEF BootStep
<1>7. CASE UNCHANGED vars
  BY <1>7 DEF vars, TypeInv, TypeOK, Types, WellSeeded, ChatRec, Snapped, Sidded
<1> QED
  BY <1>1, <1>2, <1>3, <1>4, <1>5, <1>6, <1>7 DEF Next

\* Types hold in every reachable state, and wherever a history is kept with its
\* seed_len, seed_len points into it, whatever crashes, faults and exceptions occur.
THEOREM TypeCorrect == Spec => []TypeOK
<1>1. TypeInv => TypeOK
  BY DEF TypeInv
<1> QED
  BY <1>1, TypeInit, TypeNext, PTL DEF Spec

(***************************************************************************)
(* One reflection at a time per session                                    *)
(*                                                                         *)
(* NoConcurrentReflection is not inductive alone: it needs that a session   *)
(* being reflected on is in the claim set, which says why a second claim    *)
(* fails, and that start-up, which does not claim, runs when nobody else    *)
(* does.                                                                   *)
(***************************************************************************)

PcOK(r, pc) ==
  /\ r \in Enders => pc \in {"idle", "opened", "snapped", "claimed", "unclaimed", "popped",
                             "unlinked", "deleted", "dropping", "dropped",
                             "running", "applied", "closing", "done"}
  /\ r = Watcher => pc \in {"idle", "snapped", "queued", "running", "applied", "cleanup",
                            "dropping", "dropped"}
  /\ r = Boot => pc \in {"idle", "running", "applied"}

Exclusive ==
  /\ \A r \in Runners : PcOK(r, refl[r].pc)
  /\ server # "up" => \A r \in Runners \ {Boot} : refl[r].pc \in {"idle", "done"}
  /\ refl[Boot].pc # "idle" => server = "catchup"
  /\ \A r \in Runners \ {Boot} : Reflecting(r) => refl[r].sid \in claimed
  /\ NoConcurrentReflection

ReflectingPcs == {"claimed", "popped", "unlinked", "deleted", "running", "applied"}

LEMMA RunnersDistinct ==
  Watcher # Boot /\ Watcher \notin Enders /\ Boot \notin Enders
BY RunnersOK DEF Watcher, Boot

\* What one runner's step has to show.
LEMMA ExclusiveStep ==
  ASSUME TypeInv, Exclusive, NEW r \in Runners, NEW x,
         refl' = [refl EXCEPT ![r] = x], server' = server,
         claimed \subseteq claimed', PcOK(r, x.pc),
         r = Boot => server = "catchup",
         r # Boot => server = "up" /\ (x.pc \in ReflectingPcs => x.sid \in claimed'),
         x.pc \in ReflectingPcs =>
           \A u \in Runners \ {r} : Reflecting(u) => refl[u].sid # x.sid
  PROVE  Exclusive'
<1>1. refl'[r] = x /\ \A u \in Runners \ {r} : refl'[u] = refl[u]
  BY ReflInv DEF ReflOK
<1>2. Reflecting(r)' <=> x.pc \in ReflectingPcs
  BY <1>1 DEF Reflecting, Handing, ReflectingPcs
<1>3. \A u \in Runners \ {r} : Reflecting(u)' <=> Reflecting(u)
  BY <1>1 DEF Reflecting, Handing
<1>4. (\A u \in Runners : PcOK(u, refl[u].pc))'
  BY <1>1 DEF Exclusive, PcOK
<1>5. (server # "up" => \A u \in Runners \ {Boot} : refl[u].pc \in {"idle", "done"})'
  BY <1>1 DEF Exclusive
<1>6. (refl[Boot].pc # "idle" => server = "catchup")'
  BY <1>1, RunnersType DEF Exclusive
<1>7. (\A u \in Runners \ {Boot} : Reflecting(u) => refl[u].sid \in claimed)'
  BY <1>1, <1>2, <1>3 DEF Exclusive
<1>8. NoConcurrentReflection'
  <2> SUFFICES ASSUME NEW u \in Runners, NEW v \in Runners, Reflecting(u)', Reflecting(v)',
                      refl'[u].sid = refl'[v].sid, u # v
               PROVE  FALSE
    BY DEF NoConcurrentReflection
  <2>1. CASE u = r
    BY <2>1, <1>1, <1>2, <1>3
  <2>2. CASE v = r
    BY <2>2, <1>1, <1>2, <1>3
  <2>3. CASE u # r /\ v # r
    BY <2>3, <1>1, <1>3 DEF Exclusive, NoConcurrentReflection
  <2> QED BY <2>1, <2>2, <2>3
<1> QED
  BY <1>4, <1>5, <1>6, <1>7, <1>8 DEF Exclusive

\* A step of a runner that was reflecting and goes on with the same session.
LEMMA ExclusiveSetPc ==
  ASSUME TypeInv, Exclusive, NEW r \in Runners, NEW pc, SetPc(r, pc), PcOK(r, pc),
         UNCHANGED <<claimed, server>>, refl[r].pc \notin {"idle", "done"},
         pc \in ReflectingPcs => Reflecting(r)
  PROVE  Exclusive'
<1> DEFINE x == [refl[r] EXCEPT !.pc = pc]
<1>1. x.pc = pc /\ x.sid = refl[r].sid /\ refl' = [refl EXCEPT ![r] = x]
  BY ReflInv DEF ReflOK, ReflRec, SetPc
<1> HIDE DEF x
<1>2. /\ r = Boot => server = "catchup"
      /\ r # Boot => server = "up"
  BY DEF Exclusive, TypeInv, TypeOK, Types
<1>3. pc \in ReflectingPcs => \A u \in Runners \ {r} : Reflecting(u) => refl[u].sid # x.sid
  BY <1>1 DEF Exclusive, NoConcurrentReflection
<1>4. pc \in ReflectingPcs /\ r # Boot => refl[r].sid \in claimed
  BY DEF Exclusive
<1> QED
  BY <1>1, <1>2, <1>3, <1>4, ExclusiveStep

\* A step after which the runner is not reflecting.
LEMMA ExclusiveStop ==
  ASSUME TypeInv, Exclusive, NEW r \in Runners, NEW x, refl' = [refl EXCEPT ![r] = x],
         PcOK(r, x.pc), UNCHANGED <<claimed, server>>, x.pc \notin ReflectingPcs,
         server = "up" \/ refl[r].pc \notin {"idle", "done"},
         r = Boot => server = "catchup"
  PROVE  Exclusive'
<1>1. r # Boot => server = "up"
  BY DEF Exclusive
<1> QED
  BY <1>1, ExclusiveStep

\* A claim: the session was not in the claim set, so nobody reflects on it.
LEMMA ExclusiveClaim ==
  ASSUME TypeInv, Exclusive, NEW r \in Runners \ {Boot}, NEW pc, SetPc(r, pc), PcOK(r, pc),
         refl[r].pc \notin {"idle", "done"}, Claimable(r),
         claimed' = claimed \cup {refl[r].sid}, UNCHANGED server
  PROVE  Exclusive'
<1> DEFINE x == [refl[r] EXCEPT !.pc = pc]
<1>1. x.pc = pc /\ x.sid = refl[r].sid /\ refl' = [refl EXCEPT ![r] = x]
  BY ReflInv DEF ReflOK, ReflRec, SetPc
<1> HIDE DEF x
<1>2. server = "up"
  BY DEF Exclusive
<1>3. ~Reflecting(Boot)
  BY <1>2 DEF Exclusive, Reflecting, Handing
<1>4. \A u \in Runners \ {r} : Reflecting(u) => refl[u].sid # x.sid
  BY <1>1, <1>3 DEF Exclusive, Claimable
<1> QED
  BY <1>1, <1>2, <1>4, ExclusiveStep

LEMMA ExclusiveIdle ==
  ASSUME Exclusive, UNCHANGED <<refl, claimed, server>>
  PROVE  Exclusive'
BY DEF Exclusive, NoConcurrentReflection, Reflecting, Handing

LEMMA ExclusiveInit == Init => Exclusive
<1> SUFFICES ASSUME Init PROVE Exclusive
  OBVIOUS
<1>1. \A r \in Runners : refl[r].pc = "idle"
  BY DEF Init, NoRefl
<1> QED
  BY <1>1, RunnersType DEF Init, Exclusive, PcOK, Reflecting, Handing, NoConcurrentReflection

LEMMA ExclusiveUnlink ==
  ASSUME TypeInv, Exclusive, NEW r \in Runners, Unlink(r)
  PROVE  Exclusive'
<1>1. CASE refl[r].pc = "popped"
  <2>1. PcOK(r, "unlinked")
    BY <1>1, RunnersDistinct DEF Exclusive, PcOK
  <2> QED BY <1>1, <2>1, ExclusiveSetPc DEF Unlink, ReflectingPcs, Reflecting, Handing
<1>2. CASE refl[r].pc = "dropping"
  <2>1. PcOK(r, "dropped")
    BY <1>2, RunnersDistinct DEF Exclusive, PcOK
  <2> QED BY <1>2, <2>1, ExclusiveSetPc DEF Unlink, ReflectingPcs
<1> QED BY <1>1, <1>2 DEF Unlink

LEMMA ExclusiveEnd ==
  ASSUME TypeInv, Exclusive, NEW e \in Enders, EndOpen(e) \/ EndRaise(e) \/ EndStep(e)
  PROVE  Exclusive'
<1>1. e \in Runners /\ e \in Runners \ {Boot} /\ e # Watcher /\ e # Boot
  BY RunnersType, RunnersDistinct
<1>2. CASE EndOpen(e)
  <2> DEFINE x == [refl[e] EXCEPT !.pc = "opened"]
  <2>1. /\ refl' = [refl EXCEPT ![e] = x] /\ UNCHANGED <<claimed, server>>
        /\ server = "up" /\ x.pc = "opened"
    BY <1>1, <1>2, ReflInv DEF EndOpen, SetPc, MayStart, ReflOK, ReflRec
  <2> HIDE DEF x
  <2> QED BY <1>1, <2>1, ExclusiveStop DEF PcOK, ReflectingPcs
<1>8. CASE EndSnapshot(e)
  <2> DEFINE x == IF session = None THEN [NoRefl EXCEPT !.pc = "done"]
                  ELSE [pc |-> "snapped", sid |-> session.sid,
                        tr |-> Fresh(session.hist, session.seed), la |-> session.la]
  <2>1. /\ refl' = [refl EXCEPT ![e] = x] /\ UNCHANGED <<claimed, server>>
        /\ refl[e].pc = "opened"
    BY <1>8 DEF EndSnapshot
  <2>2. x.pc \in {"done", "snapped"}
    BY DEF NoRefl
  <2> HIDE DEF x
  <2> QED BY <1>1, <2>1, <2>2, ExclusiveStop DEF PcOK, ReflectingPcs
<1>3. CASE EndClaim(e)
  <2>1. CASE Claimable(e)
    BY <1>1, <1>3, <2>1, ExclusiveClaim DEF EndClaim, PcOK
  <2>2. CASE ~Claimable(e)
    BY <1>1, <1>3, <2>2, ExclusiveSetPc DEF EndClaim, PcOK, ReflectingPcs
  <2> QED BY <2>1, <2>2
<1>4. CASE EndPop(e) \/ EndDelete(e)
  <2>1. CASE EndPop(e) /\ refl[e].pc = "claimed"
    BY <1>1, <2>1, ExclusiveSetPc DEF EndPop, PcOK, ReflectingPcs, Reflecting, Handing
  <2>2. CASE EndPop(e) /\ refl[e].pc = "unclaimed"
    BY <1>1, <2>2, ExclusiveSetPc DEF EndPop, PcOK, ReflectingPcs
  <2>3. CASE EndDelete(e) /\ refl[e].pc = "unlinked"
    BY <1>1, <2>3, ExclusiveSetPc DEF EndDelete, PcOK, ReflectingPcs, Reflecting, Handing
  <2>4. CASE EndDelete(e) /\ refl[e].pc = "dropped"
    BY <1>1, <2>4, ExclusiveSetPc DEF EndDelete, PcOK, ReflectingPcs
  <2> QED BY <1>4, <2>1, <2>2, <2>3, <2>4 DEF EndPop, EndDelete
<1>5. CASE EndSave(e)
  BY <1>1, <1>5, ExclusiveSetPc DEF EndSave, PcOK, ReflectingPcs, Reflecting, Handing
<1>6. CASE EndReflected(e)
  BY <1>1, <1>6, ExclusiveSetPc DEF EndReflected, PcOK, ReflectingPcs
<1>7. CASE EndRaise(e) \/ EndReopen(e)
  <2> DEFINE x == [NoRefl EXCEPT !.pc = "done"]
  <2>1. /\ refl' = [refl EXCEPT ![e] = x] /\ UNCHANGED <<claimed, server>>
        /\ refl[e].pc \notin {"idle", "done"} /\ x.pc = "done"
    BY <1>7 DEF EndRaise, EndReopen, Raises, NoRefl
  <2> HIDE DEF x
  <2> QED BY <1>1, <2>1, ExclusiveStop DEF PcOK, ReflectingPcs
<1> QED
  BY <1>1, <1>2, <1>3, <1>4, <1>5, <1>6, <1>7, <1>8, ExclusiveUnlink DEF EndStep

LEMMA ExclusiveWatch ==
  ASSUME TypeInv, Exclusive, WatchStep \/ WatchRaise
  PROVE  Exclusive'
<1>1. Watcher \in Runners /\ Watcher \in Runners \ {Boot} /\ Watcher # Boot /\ Watcher \notin Enders
  BY RunnersType, RunnersDistinct
<1>2. CASE WatchSnapshot
  <2> DEFINE x == [pc |-> "snapped", sid |-> session.sid,
                   tr |-> Fresh(session.hist, session.seed), la |-> session.la]
  <2>1. /\ refl' = [refl EXCEPT ![Watcher] = x] /\ UNCHANGED <<claimed, server>>
        /\ server = "up" /\ x.pc = "snapped"
    BY <1>2 DEF WatchSnapshot
  <2> HIDE DEF x
  <2> QED BY <1>1, <2>1, ExclusiveStop DEF PcOK, ReflectingPcs
<1>3. CASE WatchQueue
  BY <1>1, <1>3, ExclusiveSetPc DEF WatchQueue, PcOK, ReflectingPcs
<1>4. CASE WatchClaim /\ Claimable(Watcher)
  BY <1>1, <1>4, ExclusiveClaim DEF WatchClaim, PcOK
<1>5. CASE WatchReflected
  BY <1>1, <1>5, ExclusiveSetPc DEF WatchReflected, PcOK, ReflectingPcs
<1>7. CASE WatchPop /\ Stale
  BY <1>1, <1>7, ExclusiveSetPc DEF WatchPop, PcOK, ReflectingPcs
<1>6. CASE WatchRaise \/ WatchCleanup \/ (WatchPop /\ ~Stale) \/ (WatchClaim /\ ~Claimable(Watcher))
  <2>1. /\ refl' = [refl EXCEPT ![Watcher] = NoRefl] /\ UNCHANGED <<claimed, server>>
        /\ refl[Watcher].pc \notin {"idle", "done"} /\ NoRefl.pc = "idle"
    BY <1>6 DEF WatchRaise, WatchPop, WatchCleanup, WatchClaim, WatcherIdle, Raises, NoRefl
  <2> QED BY <1>1, <2>1, ExclusiveStop DEF PcOK, ReflectingPcs
<1> QED
  BY <1>1, <1>2, <1>3, <1>4, <1>5, <1>6, <1>7, ExclusiveUnlink DEF WatchStep

LEMMA ExclusiveApply ==
  ASSUME TypeInv, Exclusive, NEW r \in Runners, ReflectApply(r)
  PROVE  Exclusive'
<1>1. PcOK(r, "applied")
  BY RunnersDistinct DEF PcOK
<1> QED
  BY <1>1, ExclusiveSetPc DEF ReflectApply, ReflectingPcs, Reflecting, Handing

LEMMA ExclusiveBoot ==
  ASSUME TypeInv, Exclusive, BootStep \/ CatchUpRaise
  PROVE  Exclusive'
<1>1. Boot \in Runners /\ Boot # Watcher /\ Boot \notin Enders
  BY RunnersType, RunnersDistinct
<1>2. CASE Recover
  BY <1>2 DEF Recover, Exclusive, NoConcurrentReflection, Reflecting, Handing
<1>3. ASSUME NEW s \in Sids, CatchUp(s) PROVE Exclusive'
  <2> DEFINE x == [pc |-> "running", sid |-> s, tr |-> pending[s], la |-> 0]
  <2>1. /\ refl' = [refl EXCEPT ![Boot] = x] /\ UNCHANGED <<claimed, server>>
        /\ server = "catchup" /\ x.pc = "running"
    BY <1>3 DEF CatchUp
  <2> HIDE DEF x
  <2>2. \A u \in Runners \ {Boot} : ~Reflecting(u)
    BY <2>1 DEF Exclusive, Reflecting, Handing
  <2> QED BY <1>1, <2>1, <2>2, ExclusiveStep DEF PcOK
<1>4. CASE CatchUpReflected \/ CatchUpRaise
  <2>1. /\ refl' = [refl EXCEPT ![Boot] = NoRefl] /\ UNCHANGED <<claimed, server>>
        /\ refl[Boot].pc \in {"running", "applied"} /\ NoRefl.pc = "idle"
    BY <1>4 DEF CatchUpReflected, CatchUpRaise, Raises, NoRefl
  <2>2. server = "catchup"
    BY <2>1 DEF Exclusive
  <2> QED BY <1>1, <2>1, <2>2, ExclusiveStop DEF PcOK, ReflectingPcs
<1>5. CASE Serve
  <2>1. UNCHANGED <<refl, claimed>> /\ server' = "up" /\ refl[Boot].pc = "idle"
    BY <1>5 DEF Serve
  <2> QED BY <2>1 DEF Exclusive, NoConcurrentReflection, Reflecting, Handing
<1> QED
  BY <1>2, <1>3, <1>4, <1>5 DEF BootStep

LEMMA ExclusiveCrash ==
  ASSUME Exclusive, Crash
  PROVE  Exclusive'
<1>1. /\ server' = "down"
      /\ refl' = [r \in Runners |->
                    IF r \in Enders /\ refl[r].pc # "idle" THEN [NoRefl EXCEPT !.pc = "done"]
                    ELSE NoRefl]
  BY DEF Crash
<1>2. /\ \A r \in Runners : refl'[r].pc \in {"idle", "done"}
      /\ \A r \in Runners \ Enders : refl'[r].pc = "idle"
  BY <1>1 DEF NoRefl
<1>3. \A r \in Runners : PcOK(r, refl'[r].pc) /\ ~Reflecting(r)'
  BY <1>2, RunnersDistinct DEF PcOK, Reflecting, Handing
<1>4. refl'[Boot].pc = "idle"
  BY <1>2, RunnersType, RunnersDistinct
<1> QED
  BY <1>1, <1>2, <1>3, <1>4 DEF Exclusive, NoConcurrentReflection

LEMMA ExclusiveNext == TypeInv /\ Exclusive /\ [Next]_vars => Exclusive'
<1> SUFFICES ASSUME TypeInv, Exclusive, [Next]_vars PROVE Exclusive'
  OBVIOUS
<1>1. CASE StartSession \/ BecomeIdle \/ UNCHANGED vars
  BY <1>1, ExclusiveIdle DEF StartSession, BecomeIdle, vars
<1>2. ASSUME NEW t \in Turns, ChatRequest(t) \/ ChatFail(t) \/ ChatStep(t)
      PROVE  Exclusive'
  <2>1. UNCHANGED <<refl, claimed, server>>
    BY <1>2 DEF ChatRequest, ChatFail, ChatStep, ChatReply, ChatSilent, ChatInstall, ChatSnapshot, ChatWrite
  <2> QED BY <2>1, ExclusiveIdle
<1>3. ASSUME NEW e \in Enders, EndOpen(e) \/ EndRaise(e) \/ EndStep(e)
      PROVE  Exclusive'
  BY <1>3, ExclusiveEnd
<1>4. ASSUME NEW r \in Runners, ReflectApply(r) PROVE Exclusive'
  BY <1>4, ExclusiveApply
<1>5. CASE WatchRaise \/ WatchStep
  BY <1>5, ExclusiveWatch
<1>6. CASE Crash \/ CatchUpRaise \/ BootStep
  BY <1>6, ExclusiveCrash, ExclusiveBoot
<1> QED
  BY <1>1, <1>2, <1>3, <1>4, <1>5, <1>6 DEF Next

\* The end handler, the inactivity watcher and the start-up pass never run
\* reflection on the same session at once, for any number of handlers, crashes,
\* exceptions and sessions: reflection_session_claim and the start-up order suffice.
THEOREM MutualExclusion == Spec => []NoConcurrentReflection
<1>1. Init => TypeInv /\ Exclusive
  BY TypeInit, ExclusiveInit
<1>2. TypeInv /\ Exclusive /\ [Next]_vars => TypeInv' /\ Exclusive'
  BY TypeNext, ExclusiveNext
<1>3. Exclusive => NoConcurrentReflection
  BY DEF Exclusive
<1> QED
  BY <1>1, <1>2, <1>3, PTL DEF Spec


(***************************************************************************)
(* What a history says of its turns                                        *)
(***************************************************************************)

\* The turns a record's transcript holds: those behind its seed_len.
Content(rec)  == TurnsIn(Fresh(rec.hist, rec.seed))
Kept(rec)     == IF rec = None THEN {} ELSE Content(rec)
Turned(entry) == IF entry = None THEN {} ELSE TurnsIn(entry)

Busy(c)    == c.pc \notin {"new", "acked", "failed"}
Storing(c) == c.pc \in {"installed", "writing"}

LEMMA TurnsInFresh ==
  ASSUME NEW h \in History, NEW seed \in Nat
  PROVE  \A t : t \in TurnsIn(Fresh(h, seed)) <=>
                  t \in Turns /\ \E i \in seed + 1 .. Len(h) : h[i] = t
<1> DEFINE f == Fresh(h, seed)
<1>1. Len(h) \in Nat /\ \A i \in seed + 1 .. Len(h) : h[i] \in Message
  BY LenProperties, ElementOfSeq DEF History
<1>2. /\ f \in Seq(Message)
      /\ Len(f) = IF seed + 1 <= Len(h) THEN Len(h) - (seed + 1) + 1 ELSE 0
      /\ \A i \in 1 .. Len(h) - (seed + 1) + 1 : f[i] = h[(seed + 1) + i - 1]
  BY <1>1, SubSeqProperties DEF Fresh
<1>3. DOMAIN f = 1 .. Len(f)
  BY <1>2, LenProperties
<1> HIDE DEF f
<1>4. ASSUME NEW t, t \in Turns, NEW i \in DOMAIN f, f[i] = t
      PROVE  \E j \in seed + 1 .. Len(h) : h[j] = t
  <2>1. seed + i \in seed + 1 .. Len(h) /\ h[seed + i] = t
    BY <1>1, <1>2, <1>3, <1>4
  <2> QED BY <2>1
<1>5. ASSUME NEW t, t \in Turns, NEW j \in seed + 1 .. Len(h), h[j] = t
      PROVE  \E i \in DOMAIN f : f[i] = t
  <2>1. j \in Int /\ seed + 1 <= j /\ j <= Len(h)
    BY <1>1
  <2>2. Len(f) = Len(h) - seed
    BY <1>1, <1>2, <2>1
  <2>3. j - seed \in 1 .. Len(h) - (seed + 1) + 1
    BY <1>1, <2>1
  <2>4. f[j - seed] = h[(seed + 1) + (j - seed) - 1] /\ (seed + 1) + (j - seed) - 1 = j
    BY <1>2, <2>1, <2>3
  <2>5. j - seed \in DOMAIN f
    BY <1>1, <1>3, <2>2, <2>3
  <2> QED BY <1>5, <2>4, <2>5
<1>6. \A t : t \in TurnsIn(f) <=> t \in Turns /\ \E i \in DOMAIN f : f[i] = t
  BY DEF TurnsIn
<1>7. TurnsIn(Fresh(h, seed)) = TurnsIn(f)
  BY DEF f
<1> QED
  BY <1>4, <1>5, <1>6, <1>7

\* A history that is all seed holds no turn.
LEMMA SeedsOnly ==
  ASSUME NEW h \in History
  PROVE  TurnsIn(Fresh(h, Len(h))) = {}
<1>1. Len(h) \in Nat
  BY LenProperties DEF History
<1> QED
  BY <1>1, TurnsInFresh

LEMMA NothingIn == TurnsIn(<<>>) = {}
BY DEF TurnsIn

\* What is added at the end of a history is added to its turns.
LEMMA FreshGrows ==
  ASSUME NEW h \in History, NEW g \in History, NEW seed \in Nat, seed <= Len(h),
         NEW t \in Turns, Len(g) > 0, \A i \in 1 .. Len(g) : g[i] = t
  PROVE  TurnsIn(Fresh(h \o g, seed)) = TurnsIn(Fresh(h, seed)) \cup {t}
<1>1. /\ h \o g \in History /\ Len(h \o g) = Len(h) + Len(g)
      /\ Len(h) \in Nat /\ Len(g) \in Nat
      /\ \A i \in 1 .. Len(h) + Len(g) : (h \o g)[i] = IF i <= Len(h) THEN h[i] ELSE g[i - Len(h)]
  BY ConcatHistory, ConcatProperties DEF History
<1> DEFINE k == h \o g
<1>2. k \in History /\ Len(k) = Len(h) + Len(g)
      /\ (\A i \in 1 .. Len(h) : k[i] = h[i])
      /\ (\A i \in Len(h) + 1 .. Len(k) : k[i] = t)
  BY <1>1
<1> HIDE DEF k
<1>3. t \in TurnsIn(Fresh(k, seed))
  <2>1. Len(k) \in seed + 1 .. Len(k) /\ k[Len(k)] = t
    BY <1>1, <1>2
  <2> QED BY <1>2, <2>1, TurnsInFresh
<1>4. ASSUME NEW u, u \in TurnsIn(Fresh(h, seed)) PROVE u \in TurnsIn(Fresh(k, seed))
  <2>1. PICK i \in seed + 1 .. Len(h) : h[i] = u
    BY <1>4, TurnsInFresh
  <2>2. i \in seed + 1 .. Len(k) /\ k[i] = u /\ u \in Turns
    BY <1>1, <1>2, <1>4, <2>1, TurnsInFresh
  <2> QED BY <1>2, <2>2, TurnsInFresh
<1>5. ASSUME NEW u, u \in TurnsIn(Fresh(k, seed)), u # t PROVE u \in TurnsIn(Fresh(h, seed))
  <2>1. PICK i \in seed + 1 .. Len(k) : k[i] = u /\ u \in Turns
    BY <1>2, <1>5, TurnsInFresh
  <2>2. i \in seed + 1 .. Len(h) /\ h[i] = u
    BY <1>1, <1>2, <1>5, <2>1
  <2> QED BY <2>1, <2>2, TurnsInFresh
<1> QED
  BY <1>3, <1>4, <1>5 DEF k

(***************************************************************************)
(* What a step does to a turn's request, to a runner and to the session    *)
(***************************************************************************)

LEMMA ReflSet ==
  ASSUME TypeInv, NEW r \in Runners, NEW x, refl' = [refl EXCEPT ![r] = x]
  PROVE  refl'[r] = x /\ \A u \in Runners \ {r} : refl'[u] = refl[u]
BY ReflInv DEF ReflOK

LEMMA PcSet ==
  ASSUME TypeInv, NEW r \in Runners, NEW pc, SetPc(r, pc)
  PROVE  /\ refl'[r].pc = pc /\ refl'[r].sid = refl[r].sid
         /\ refl'[r].tr = refl[r].tr /\ refl'[r].la = refl[r].la
         /\ \A u \in Runners \ {r} : refl'[u] = refl[u]
BY ReflInv DEF ReflOK, ReflRec, SetPc

LEMMA ChatSet ==
  ASSUME TypeInv, NEW t \in Turns, NEW c, SetChat(t, c)
  PROVE  chat'[t] = c /\ \A u \in Turns \ {t} : chat'[u] = chat[u]
BY DEF TypeInv, TypeOK, Types, SetChat

\* The records of the state, one by one.
LEMMA Fields ==
  ASSUME TypeInv
  PROVE  /\ session # None => session \in LiveRec /\ session.seed <= Len(session.hist)
         /\ row # None => row \in RowRec /\ row.seed <= Len(row.hist)
         /\ \A t \in Turns : chat[t] \in ChatRec /\ chat[t].seed <= Len(chat[t].hist)
         /\ \A r \in Runners : refl[r] \in ReflRec
         /\ sidGen \in Nat /\ clock \in Nat
BY ConstantsOK DEF TypeInv, TypeOK, Types, WellSeeded

\* get_or_create_session finds the session, or makes one under the next id; the
\* transcript of a new session is empty unless the fallback file fills it.
LEMMA Opened ==
  ASSUME TypeInv, NEW logged \in History, GetOrCreate(logged)
  PROVE  /\ session' # None
         /\ \/ /\ session # None
               /\ UNCHANGED <<session, sidGen, clock>>
            \/ /\ session = None
               /\ sidGen' = sidGen + 1 /\ session'.sid = sidGen + 1
               /\ clock' = clock + 1 /\ session'.la = clock + 1
               /\ ~Persisted => Content(session') = {}
<1>1. CASE session # None /\ UNCHANGED <<session, sidGen, clock>>
  BY <1>1
<1>2. CASE session = None
  <2>1. PICK opens \in MayOpen : session' = NewSession(opens)
    BY <1>2 DEF GetOrCreate
  <2>2. opens \in BOOLEAN /\ sidGen < MaxSid
        /\ sidGen' = sidGen + 1 /\ clock' = clock + 1
    BY <1>2 DEF GetOrCreate, MayOpen
  <2>3. session' \in LiveRec
    BY <2>1, <2>2, NewSessionType DEF TypeInv
  <2>4. session'.sid = sidGen + 1 /\ session'.la = clock + 1
    BY <2>1 DEF NewSession
  <2>5. ASSUME ~Persisted PROVE Content(session') = {}
    <3>1. session'.seed = Len(session'.hist)
      BY <2>1, <2>2, <2>5 DEF NewSession
    <3>2. session'.hist \in History
      BY <2>3 DEF LiveRec
    <3> QED BY <3>1, <3>2, SeedsOnly DEF Content
  <2> QED BY <1>2, <2>2, <2>3, <2>4, <2>5, NoneOK
<1> QED
  BY <1>1, <1>2 DEF GetOrCreate

\* What each handler writes into its own record.
LEMMA WatchSnapshotSet ==
  ASSUME TypeInv, WatchSnapshot
  PROVE  /\ refl'[Watcher].pc = "snapped" /\ refl'[Watcher].sid = session.sid
         /\ refl'[Watcher].tr = Fresh(session.hist, session.seed)
         /\ refl'[Watcher].la = session.la
         /\ \A u \in Runners \ {Watcher} : refl'[u] = refl[u]
<1> DEFINE x == [pc |-> "snapped", sid |-> session.sid,
                 tr |-> Fresh(session.hist, session.seed), la |-> session.la]
<1>1. /\ x.pc = "snapped" /\ x.sid = session.sid
      /\ x.tr = Fresh(session.hist, session.seed) /\ x.la = session.la
  OBVIOUS
<1>2. refl' = [refl EXCEPT ![Watcher] = x] /\ Watcher \in Runners
  BY RunnersType DEF WatchSnapshot
<1> HIDE DEF x
<1> QED
  BY <1>1, <1>2, ReflSet

LEMMA CatchUpSet ==
  ASSUME TypeInv, NEW s \in Sids, CatchUp(s)
  PROVE  /\ refl'[Boot].pc = "running" /\ refl'[Boot].sid = s
         /\ refl'[Boot].tr = pending[s] /\ refl'[Boot].la = 0
         /\ \A u \in Runners \ {Boot} : refl'[u] = refl[u]
<1> DEFINE x == [pc |-> "running", sid |-> s, tr |-> pending[s], la |-> 0]
<1>1. x.pc = "running" /\ x.sid = s /\ x.tr = pending[s] /\ x.la = 0
  OBVIOUS
<1>2. refl' = [refl EXCEPT ![Boot] = x] /\ Boot \in Runners
  BY RunnersType DEF CatchUp
<1> HIDE DEF x
<1> QED
  BY <1>1, <1>2, ReflSet

\* A runner that gives up or finishes forgets its transcript.
Emptied(x) == x.pc \in {"idle", "done"} /\ x.sid = 0 /\ x.tr = <<>> /\ x.la = 0

LEMMA OverSet ==
  ASSUME TypeInv, NEW r \in Runners,
         \/ refl' = [refl EXCEPT ![r] = NoRefl]
         \/ refl' = [refl EXCEPT ![r] = [NoRefl EXCEPT !.pc = "done"]]
  PROVE  Emptied(refl'[r]) /\ \A u \in Runners \ {r} : refl'[u] = refl[u]
<1> DEFINE x == [NoRefl EXCEPT !.pc = "done"]
<1>1. Emptied(x) /\ Emptied(NoRefl)
  BY DEF NoRefl, Emptied
<1>2. refl' = [refl EXCEPT ![r] = NoRefl] \/ refl' = [refl EXCEPT ![r] = x]
  OBVIOUS
<1> HIDE DEF x
<1> QED
  BY <1>1, <1>2, ReflSet

\* The end handler takes what the session holds, or finds none and is done.
LEMMA EndSnapshotSet ==
  ASSUME TypeInv, NEW e \in Enders, EndSnapshot(e)
  PROVE  /\ session = None => Emptied(refl'[e])
         /\ session # None =>
              /\ refl'[e].pc = "snapped" /\ refl'[e].sid = session.sid
              /\ refl'[e].tr = Fresh(session.hist, session.seed) /\ refl'[e].la = session.la
         /\ \A u \in Runners \ {e} : refl'[u] = refl[u]
<1>1. e \in Runners
  BY RunnersType
<1>2. CASE session = None
  <2>1. refl' = [refl EXCEPT ![e] = [NoRefl EXCEPT !.pc = "done"]]
    BY <1>2 DEF EndSnapshot
  <2> QED BY <1>1, <1>2, <2>1, OverSet
<1>3. CASE session # None
  <2> DEFINE x == [pc |-> "snapped", sid |-> session.sid,
                   tr |-> Fresh(session.hist, session.seed), la |-> session.la]
  <2>1. /\ x.pc = "snapped" /\ x.sid = session.sid
        /\ x.tr = Fresh(session.hist, session.seed) /\ x.la = session.la
    OBVIOUS
  <2>2. refl' = [refl EXCEPT ![e] = x]
    BY <1>3 DEF EndSnapshot
  <2> HIDE DEF x
  <2> QED BY <1>1, <1>3, <2>1, <2>2, ReflSet
<1> QED BY <1>2, <1>3

LEMMA ChatRequestSet ==
  ASSUME TypeInv, NEW t \in Turns, ChatRequest(t)
  PROVE  /\ chat'[t].pc = "thinking" /\ chat'[t].hist = session'.hist
         /\ chat'[t].seed = session'.seed /\ chat'[t].from = session'.sid
         /\ \A u \in Turns \ {t} : chat'[u] = chat[u]
<1> DEFINE c == [pc |-> "thinking", from |-> session'.sid, hist |-> session'.hist,
                 seed |-> session'.seed, snap |-> None]
<1>1. c.pc = "thinking" /\ c.hist = session'.hist /\ c.seed = session'.seed /\ c.from = session'.sid
  OBVIOUS
<1>2. SetChat(t, c)
  BY DEF ChatRequest
<1> HIDE DEF c
<1> QED
  BY <1>1, <1>2, ChatSet

\* A turn that is over, for better or worse.
LEMMA ChatOverSet ==
  ASSUME TypeInv, NEW t \in Turns, NEW pc \in {"acked", "failed"},
         SetChat(t, [NoChat EXCEPT !.pc = pc])
  PROVE  /\ chat'[t].pc = pc
         /\ \A u \in Turns \ {t} : chat'[u] = chat[u]
<1> DEFINE c == [NoChat EXCEPT !.pc = pc]
<1>1. c.pc = pc /\ SetChat(t, c)
  BY DEF NoChat
<1> HIDE DEF c
<1> QED
  BY <1>1, ChatSet

\* An append is a concatenation.
LEMMA Appended ==
  ASSUME NEW h \in History, NEW m \in Message
  PROVE  Append(h, m) = h \o <<m>>
<1>1. h \in Seq(Message)
  BY DEF History
<1> QED BY <1>1, AppendIsConcat

\* The reply, or the silence, adds the turn to the request's copy.
LEMMA ChatAnswerSet ==
  ASSUME TypeInv, NEW t \in Turns, ChatReply(t) \/ ChatSilent(t)
  PROVE  /\ chat'[t].pc = "answered" /\ Content(chat'[t]) = Content(chat[t]) \cup {t}
         /\ chat'[t].from = chat[t].from
         /\ \A u \in Turns \ {t} : chat'[u] = chat[u]
<1>1. chat[t] \in ChatRec /\ chat[t].hist \in History /\ chat[t].seed \in Nat
      /\ chat[t].seed <= Len(chat[t].hist)
  BY Fields DEF ChatRec
<1>2. <<t, t>> \in History /\ <<t>> \in History
  BY DEF History, Message
<1>3. PICK g \in History :
        /\ chat'[t] = [chat[t] EXCEPT !.pc = "answered", !.hist = @ \o g]
        /\ Len(g) > 0 /\ \A i \in 1 .. Len(g) : g[i] = t
        /\ \A u \in Turns \ {t} : chat'[u] = chat[u]
  <2>1. CASE ChatReply(t)
    <3> DEFINE g == <<t, t>>
    <3>1. Len(g) = 2 /\ g[1] = t /\ g[2] = t
      OBVIOUS
    <3>2. \A i \in 1 .. Len(g) : g[i] = t
      BY <3>1
    <3>3. SetChat(t, [chat[t] EXCEPT !.pc = "answered", !.hist = @ \o g])
      BY <2>1 DEF ChatReply
    <3> HIDE DEF g
    <3>4. g \in History
      BY <1>2 DEF g
    <3>5. /\ chat'[t] = [chat[t] EXCEPT !.pc = "answered", !.hist = @ \o g]
          /\ \A u \in Turns \ {t} : chat'[u] = chat[u]
      BY <3>3, ChatSet
    <3>6. Len(g) > 0
      BY <3>1
    <3> QED BY <3>2, <3>4, <3>5, <3>6
  <2>2. CASE ChatSilent(t)
    <3> DEFINE g == <<t>>
    <3>1. Len(g) = 1 /\ g[1] = t
      OBVIOUS
    <3>2. \A i \in 1 .. Len(g) : g[i] = t
      BY <3>1
    <3>3. Append(chat[t].hist, t) = chat[t].hist \o g
      <4>1. t \in Message
        BY DEF Message
      <4> QED BY <1>1, <4>1, Appended
    <3>4. SetChat(t, [chat[t] EXCEPT !.pc = "answered", !.hist = Append(@, t)])
      BY <2>2 DEF ChatSilent
    <3> HIDE DEF g
    <3>5. g \in History
      BY <1>2 DEF g
    <3>6. SetChat(t, [chat[t] EXCEPT !.pc = "answered", !.hist = @ \o g])
      BY <3>3, <3>4
    <3>7. /\ chat'[t] = [chat[t] EXCEPT !.pc = "answered", !.hist = @ \o g]
          /\ \A u \in Turns \ {t} : chat'[u] = chat[u]
      BY <3>6, ChatSet
    <3>8. Len(g) > 0
      BY <3>1
    <3> QED BY <3>2, <3>5, <3>7, <3>8
  <2> QED BY <2>1, <2>2
<1>4. /\ chat'[t].pc = "answered" /\ chat'[t].hist = chat[t].hist \o g
      /\ chat'[t].seed = chat[t].seed /\ chat'[t].from = chat[t].from
  BY <1>1, <1>3 DEF ChatRec
<1> QED
  BY <1>1, <1>3, <1>4, FreshGrows DEF Content

\* Installing: the session takes the copy's history over, id and time unchanged.
LEMMA ChatInstallSet ==
  ASSUME TypeInv, NEW t \in Turns, ChatInstall(t)
  PROVE  /\ session = None => chat'[t].pc = "acked" /\ session' = None
         /\ session # None =>
              /\ chat'[t].pc = "installed"
              /\ session' # None /\ session'.sid = session.sid /\ session'.la = session.la
              /\ Content(session') = Content(chat[t])
              /\ chat[t].from # session.sid => Content(chat[t]) \subseteq carried'
         /\ carried \subseteq carried'
         /\ \A u \in Turns \ {t} : chat'[u] = chat[u]
<1>1. chat[t] \in ChatRec /\ chat[t].hist \in History /\ chat[t].seed \in Nat
  BY Fields DEF ChatRec
<1>2. CASE session = None
  BY <1>2, ChatOverSet DEF ChatInstall
<1>4. /\ session # None /\ chat[t].from # session.sid => Content(chat[t]) \subseteq carried'
      /\ carried \subseteq carried'
  BY DEF ChatInstall, Content
<1>3. CASE session # None
  <2> DEFINE c == [chat[t] EXCEPT !.pc = "installed"]
  <2>1. SetChat(t, c) /\ c.pc = "installed"
    BY <1>1, <1>3 DEF ChatInstall, ChatRec
  <2>2. session \in LiveRec /\ session' = [session EXCEPT !.hist = chat[t].hist, !.seed = chat[t].seed]
    BY <1>3, Fields DEF ChatInstall
  <2> HIDE DEF c
  <2>3. session' \in LiveRec /\ session'.sid = session.sid /\ session'.la = session.la
        /\ session'.hist = chat[t].hist /\ session'.seed = chat[t].seed
    BY <1>1, <2>2 DEF LiveRec
  <2>4. session' # None /\ Content(session') = Content(chat[t])
    BY <2>3, NoneOK DEF Content
  <2> QED BY <1>3, <1>4, <2>1, <2>3, <2>4, ChatSet
<1> QED
  BY <1>2, <1>3, <1>4

LEMMA ChatSnapshotSet ==
  ASSUME TypeInv, NEW t \in Turns, ChatSnapshot(t)
  PROVE  /\ session = None => chat'[t].pc = "acked"
         /\ session # None =>
              /\ chat'[t].pc = "writing"
              /\ chat'[t].snap.sid = session.sid /\ chat'[t].snap.la = session.la
              /\ chat'[t].snap.hist = session.hist /\ chat'[t].snap.seed = session.seed
         /\ \A u \in Turns \ {t} : chat'[u] = chat[u]
<1>1. chat[t] \in ChatRec
  BY Fields
<1>2. CASE session = None
  BY <1>2, ChatOverSet DEF ChatSnapshot
<1>3. CASE session # None
  <2> DEFINE snap == [sid |-> session.sid, hist |-> session.hist, seed |-> session.seed,
                      la |-> session.la]
             c == [chat[t] EXCEPT !.pc = "writing", !.snap = snap]
  <2>1. SetChat(t, c)
    BY <1>3 DEF ChatSnapshot
  <2>2. snap.sid = session.sid /\ snap.hist = session.hist /\ snap.seed = session.seed
        /\ snap.la = session.la
    OBVIOUS
  <2> HIDE DEF snap
  <2>3. c.pc = "writing" /\ c.snap = snap
    BY <1>1 DEF ChatRec
  <2> HIDE DEF c
  <2> QED BY <1>3, <2>1, <2>2, <2>3, ChatSet
<1> QED
  BY <1>2, <1>3

\* Storing: the snapshot goes to the row, under the id the row had, or the session
\* to the file; the session is touched.
LEMMA ChatWriteSet ==
  ASSUME TypeInv, NEW t \in Turns, ChatWrite(t)
  PROVE  /\ chat'[t].pc = "acked" /\ \A u \in Turns \ {t} : chat'[u] = chat[u]
         /\ chat[t].snap \in RowRec
         /\ \/ row' = row /\ Afford("fault")
            \/ /\ UNCHANGED file
               /\ row' # None /\ row'.sid = IF row = None THEN chat[t].snap.sid ELSE row.sid
               /\ row'.la = chat[t].snap.la
               /\ row'.hist = chat[t].snap.hist /\ row'.seed = chat[t].snap.seed
               /\ row'.sid \in Sids
         /\ session = None => session' = None /\ UNCHANGED clock
         /\ session # None =>
              /\ session' # None /\ session'.sid = session.sid
              /\ session'.hist = session.hist /\ session'.seed = session.seed
              /\ session'.la = clock + 1 /\ clock' = clock + 1
<1>1. chat[t].snap \in RowRec /\ chat'[t].pc = "acked" /\ \A u \in Turns \ {t} : chat'[u] = chat[u]
  BY ChatOverSet DEF ChatWrite, TypeInv, Snapped
<1>2. ASSUME row' = Upsert(chat[t].snap)
      PROVE  /\ row' # None /\ row'.sid = IF row = None THEN chat[t].snap.sid ELSE row.sid
             /\ row'.la = chat[t].snap.la
             /\ row'.hist = chat[t].snap.hist /\ row'.seed = chat[t].snap.seed
             /\ row'.sid \in Sids
  <2>1. row' = Upsert(chat[t].snap)
    BY <1>2
  <2>2. CASE row = None
    BY <1>1, <2>1, <2>2, NoneOK DEF Upsert, RowRec
  <2>3. CASE row # None
    <3>1. row.sid \in Sids
      BY <2>3, Fields DEF RowRec
    <3>2. row' = [chat[t].snap EXCEPT !.sid = row.sid]
      BY <2>1, <2>3 DEF Upsert
    <3>3. row' \in RowRec /\ row'.sid = row.sid /\ row'.la = chat[t].snap.la
          /\ row'.hist = chat[t].snap.hist /\ row'.seed = chat[t].snap.seed
      BY <1>1, <3>1, <3>2 DEF RowRec
    <3> QED BY <2>3, <3>1, <3>3, NoneOK
  <2> QED BY <2>2, <2>3
<1>3. session = None => session' = None /\ UNCHANGED clock
  BY DEF ChatWrite
<1>4. ASSUME session # None
      PROVE  /\ session' # None /\ session'.sid = session.sid
             /\ session'.hist = session.hist /\ session'.seed = session.seed
             /\ session'.la = clock + 1 /\ clock' = clock + 1
  <2>1. session' = [session EXCEPT !.la = clock + 1, !.idle = FALSE] /\ clock' = clock + 1
    BY <1>4 DEF ChatWrite
  <2>2. session \in LiveRec /\ clock + 1 \in Nat
    BY <1>4, Fields
  <2>3. session' \in LiveRec /\ session'.sid = session.sid
        /\ session'.hist = session.hist /\ session'.seed = session.seed
        /\ session'.la = clock + 1
    BY <2>1, <2>2 DEF LiveRec
  <2> QED BY <2>1, <2>3, NoneOK
<1>5. (row' = row /\ Afford("fault")) \/ (row' = Upsert(chat[t].snap) /\ UNCHANGED file)
  BY DEF ChatWrite
<1> QED
  BY <1>1, <1>2, <1>3, <1>4, <1>5

\* A session that merely turns idle is the same session.
LEMMA BecomeIdleSet ==
  ASSUME TypeInv, BecomeIdle
  PROVE  /\ session # None /\ session' # None /\ session'.sid = session.sid
         /\ session'.hist = session.hist /\ session'.seed = session.seed
         /\ session'.la = session.la
<1>1. session \in LiveRec /\ session' = [session EXCEPT !.idle = TRUE] /\ session # None
  BY Fields DEF BecomeIdle
<1>2. session' \in LiveRec /\ session'.sid = session.sid /\ session'.hist = session.hist
      /\ session'.seed = session.seed /\ session'.la = session.la
  BY <1>1 DEF LiveRec
<1> QED
  BY <1>1, <1>2, NoneOK

\* Recovery makes the session out of the row.
LEMMA RecoverSet ==
  ASSUME TypeInv, Recover
  PROVE  /\ session' = None <=> row = None
         /\ row # None => /\ session'.sid = row.sid /\ session'.hist = row.hist
                          /\ session'.seed = row.seed /\ session'.la = row.la
<1>1. CASE row = None
  BY <1>1 DEF Recover
<1>2. CASE row # None
  <2>1. session' = [sid |-> row.sid, hist |-> row.hist, seed |-> row.seed,
                    la |-> row.la, idle |-> FALSE]
    BY <1>2 DEF Recover
  <2>2. row \in RowRec
    BY <1>2, Fields
  <2>3. session' \in LiveRec
    BY <2>1, <2>2 DEF RowRec, LiveRec
  <2> QED BY <1>2, <2>1, <2>3, NoneOK
<1> QED
  BY <1>1, <1>2

\* After a crash no request and no runner is at work.
LEMMA CrashSet ==
  ASSUME TypeInv, Crash
  PROVE  /\ \A r \in Runners : Emptied(refl'[r])
         /\ \A t \in Turns : ~Busy(chat'[t]) /\ (chat'[t] = chat[t] \/ Busy(chat[t]))
         /\ \A t \in Turns : chat'[t].pc = "new" => chat'[t] = chat[t]
         /\ \A t \in Turns : chat[t].pc = "new" => chat'[t] = chat[t]
<1> DEFINE gone == [NoChat EXCEPT !.pc = "failed"]
           ended == [NoRefl EXCEPT !.pc = "done"]
<1>1. gone.pc = "failed" /\ Emptied(ended) /\ Emptied(NoRefl)
  BY DEF NoChat, NoRefl, Emptied
<1>2. /\ chat' = [t \in Turns |-> IF ChatBusy(t) THEN gone ELSE chat[t]]
      /\ refl' = [r \in Runners |->
                IF r \in Enders /\ refl[r].pc # "idle" THEN ended ELSE NoRefl]
  BY DEF Crash
<1> HIDE DEF gone, ended
<1> QED
  BY <1>1, <1>2 DEF Busy, ChatBusy

LEMMA NoLog == <<>> \in History
BY EmptySeq DEF History

\* The four callers of get_or_create_session.
LEMMA OpeningSteps ==
  ASSUME StartSession \/ (\E t \in Turns : ChatRequest(t))
         \/ (\E e \in Enders : EndOpen(e) \/ EndReopen(e))
  PROVE  \E logged \in History : GetOrCreate(logged)
<1>1. \A t \in Turns : <<t>> \in History
  BY DEF History, Message
<1> QED
  BY <1>1, NoLog DEF StartSession, ChatRequest, EndOpen, EndReopen

(***************************************************************************)
(* Ids and times are handed out in order.                                  *)
(***************************************************************************)

Old(x, ids, time) == x.sid <= ids /\ x.la <= time

Numbered ==
  /\ session # None => Old(session, sidGen, clock)
  /\ row # None => Old(row, sidGen, clock)
  /\ \A t \in Turns : chat[t].pc = "writing" => Old(chat[t].snap, sidGen, clock)
  /\ \A r \in Runners : Old(refl[r], sidGen, clock)
  /\ \A s \in Sids : pending[s] # None => s <= sidGen

LEMMA StaysOld ==
  ASSUME NEW x, x.sid \in Int, x.la \in Int,
         NEW ids \in Nat, NEW time \in Nat, NEW ids2 \in Nat, NEW time2 \in Nat,
         ids <= ids2, time <= time2, Old(x, ids, time)
  PROVE  Old(x, ids2, time2)
BY DEF Old

LEMMA NumberedStep ==
  ASSUME TypeInv, TypeInv', Numbered, sidGen <= sidGen', clock <= clock',
         session' # None => session' = session \/ Old(session', sidGen', clock'),
         row' # None => row' = row \/ Old(row', sidGen', clock'),
         \A t \in Turns : chat'[t].pc = "writing" =>
             chat'[t] = chat[t] \/ Old(chat'[t].snap, sidGen', clock'),
         \A r \in Runners : refl'[r] = refl[r] \/ Old(refl'[r], sidGen', clock'),
         \A s \in Sids : pending'[s] # None => pending'[s] = pending[s] \/ s <= sidGen
  PROVE  Numbered'
<1>1. sidGen \in Nat /\ sidGen' \in Nat /\ clock \in Nat /\ clock' \in Nat
  BY ConstantsOK DEF TypeInv, TypeOK, Types
<1>2. session' # None => Old(session', sidGen', clock')
  <2> SUFFICES ASSUME session' # None, session' = session PROVE Old(session, sidGen', clock')
    OBVIOUS
  <2>1. session.sid \in Int /\ session.la \in Int
    BY Fields DEF LiveRec, Sids
  <2> QED BY <1>1, <2>1, StaysOld DEF Numbered
<1>3. row' # None => Old(row', sidGen', clock')
  <2> SUFFICES ASSUME row' # None, row' = row PROVE Old(row, sidGen', clock')
    OBVIOUS
  <2>1. row.sid \in Int /\ row.la \in Int
    BY Fields DEF RowRec, Sids
  <2> QED BY <1>1, <2>1, StaysOld DEF Numbered
<1>4. ASSUME NEW t \in Turns, chat'[t].pc = "writing" PROVE Old(chat'[t].snap, sidGen', clock')
  <2> SUFFICES ASSUME chat'[t] = chat[t] PROVE Old(chat[t].snap, sidGen', clock')
    BY <1>4
  <2>1. chat[t].pc = "writing" /\ chat[t].snap \in RowRec
    BY <1>4 DEF TypeInv, Snapped
  <2>2. chat[t].snap.sid \in Int /\ chat[t].snap.la \in Int
    BY <2>1 DEF RowRec, Sids
  <2> QED BY <1>1, <2>1, <2>2, StaysOld DEF Numbered
<1>5. ASSUME NEW r \in Runners PROVE Old(refl'[r], sidGen', clock')
  <2> SUFFICES ASSUME refl'[r] = refl[r] PROVE Old(refl[r], sidGen', clock')
    OBVIOUS
  <2>1. refl[r].sid \in Int /\ refl[r].la \in Int
    BY Fields DEF ReflRec, Sids
  <2> QED BY <1>1, <2>1, StaysOld DEF Numbered
<1>6. \A s \in Sids : pending'[s] # None => s <= sidGen'
  BY <1>1 DEF Numbered, Sids
<1> QED
  BY <1>2, <1>3, <1>4, <1>5, <1>6 DEF Numbered

LEMMA NumberedOpen ==
  ASSUME TypeInv, TypeInv', Numbered,
         StartSession \/ (\E t \in Turns : ChatRequest(t))
         \/ (\E e \in Enders : EndOpen(e) \/ EndReopen(e))
  PROVE  Numbered'
<1>1. sidGen \in Nat /\ clock \in Nat
  BY Fields
<1>2. /\ sidGen <= sidGen' /\ clock <= clock'
      /\ session' # None /\ (session' = session \/ Old(session', sidGen', clock'))
      /\ Old(session', sidGen', clock')
  <2>1. \/ session # None /\ UNCHANGED <<session, sidGen, clock>> /\ session' # None
        \/ /\ sidGen' = sidGen + 1 /\ session'.sid = sidGen + 1 /\ session' # None
           /\ clock' = clock + 1 /\ session'.la = clock + 1
    BY OpeningSteps, Opened
  <2> QED BY <1>1, <2>1 DEF Old, Numbered
<1>3. UNCHANGED <<row, pending>>
  BY DEF StartSession, ChatRequest, EndOpen, EndReopen
<1>4. ASSUME NEW t \in Turns, chat'[t].pc = "writing" PROVE chat'[t] = chat[t]
  <2>1. CASE \E u \in Turns : ChatRequest(u)
    <3>1. PICK u \in Turns : ChatRequest(u)
      BY <2>1
    <3>2. chat'[u].pc = "thinking" /\ \A v \in Turns \ {u} : chat'[v] = chat[v]
      BY <3>1, ChatSet DEF ChatRequest
    <3> QED BY <1>4, <3>2
  <2>2. CASE ~\E u \in Turns : ChatRequest(u)
    BY <2>2 DEF StartSession, EndOpen, EndReopen
  <2> QED BY <2>1, <2>2
<1>5. ASSUME NEW r \in Runners PROVE refl'[r] = refl[r] \/ Old(refl'[r], sidGen', clock')
  <2>1. CASE \E e \in Enders : EndOpen(e)
    <3>1. PICK e \in Enders : SetPc(e, "opened")
      BY <2>1 DEF EndOpen
    <3>2. e \in Runners
      BY RunnersType
    <3>3. /\ refl'[e].sid = refl[e].sid /\ refl'[e].la = refl[e].la
          /\ \A u \in Runners \ {e} : refl'[u] = refl[u]
      BY <3>1, <3>2, PcSet
    <3>4. Old(refl[e], sidGen, clock) /\ refl[e].sid \in Int /\ refl[e].la \in Int
      BY <3>2, Fields DEF Numbered, ReflRec, Sids
    <3>5. sidGen' \in Nat /\ clock' \in Nat
      BY ConstantsOK DEF TypeInv, TypeOK, Types
    <3> QED BY <1>1, <1>2, <3>3, <3>4, <3>5 DEF Old
  <2>2. CASE \E e \in Enders : EndReopen(e)
    <3>1. PICK e \in Enders : EndReopen(e)
      BY <2>2
    <3>2. /\ refl'[e].sid = 0 /\ refl'[e].la = 0
          /\ \A u \in Runners \ {e} : refl'[u] = refl[u]
      BY <3>1, OverSet, RunnersType DEF EndReopen, Emptied
    <3>3. sidGen' \in Nat /\ clock' \in Nat
      BY ConstantsOK DEF TypeInv, TypeOK, Types
    <3> QED BY <3>2, <3>3 DEF Old
  <2>3. CASE ~\E e \in Enders : EndOpen(e) \/ EndReopen(e)
    BY <2>3 DEF StartSession, ChatRequest
  <2> QED BY <2>1, <2>2, <2>3
<1> QED
  BY <1>2, <1>3, <1>4, <1>5, NumberedStep

LEMMA NumberedChat ==
  ASSUME TypeInv, TypeInv', Numbered, NEW t \in Turns, ChatFail(t) \/ ChatStep(t)
  PROVE  Numbered'
<1>1. UNCHANGED <<sidGen, refl, pending>>
  BY DEF ChatFail, ChatStep, ChatReply, ChatSilent, ChatInstall, ChatSnapshot, ChatWrite, store
<1>2. sidGen \in Nat /\ clock \in Nat /\ chat[t] \in ChatRec
      /\ (session # None => session \in LiveRec /\ Old(session, sidGen, clock))
      /\ (row # None => row \in RowRec /\ Old(row, sidGen, clock))
  BY Fields DEF Numbered
<1>3. CASE ChatFail(t) \/ ChatReply(t) \/ ChatSilent(t)
  <2>1. UNCHANGED <<session, row, clock>>
    BY <1>3 DEF ChatFail, ChatReply, ChatSilent, store
  <2>2. chat'[t].pc # "writing" /\ \A u \in Turns \ {t} : chat'[u] = chat[u]
    BY <1>3, ChatOverSet, ChatAnswerSet DEF ChatFail
  <2> QED BY <1>1, <1>2, <2>1, <2>2, NumberedStep
<1>4. CASE ChatInstall(t)
  <2>1. UNCHANGED <<row, clock>>
    BY <1>4 DEF ChatInstall
  <2>2. chat'[t].pc # "writing" /\ \A u \in Turns \ {t} : chat'[u] = chat[u]
    BY <1>4, ChatInstallSet
  <2>3. session' # None => session # None /\ session'.sid = session.sid /\ session'.la = session.la
    BY <1>4, ChatInstallSet
  <2> QED BY <1>1, <1>2, <2>1, <2>2, <2>3, NumberedStep DEF Old
<1>5. CASE ChatSnapshot(t)
  <2>1. UNCHANGED <<session, row, clock>>
    BY <1>5 DEF ChatSnapshot, store
  <2>2. chat'[t].pc = "writing" => Old(chat'[t].snap, sidGen, clock)
    BY <1>2, <1>5, ChatSnapshotSet DEF Old
  <2>3. \A u \in Turns \ {t} : chat'[u] = chat[u]
    BY <1>5, ChatSnapshotSet
  <2> QED BY <1>1, <1>2, <2>1, <2>2, <2>3, NumberedStep
<1>6. CASE ChatWrite(t)
  <2>1. chat[t].snap \in RowRec /\ Old(chat[t].snap, sidGen, clock)
    BY <1>6, ChatWriteSet DEF ChatWrite, Numbered
  <2>2. chat'[t].pc = "acked" /\ \A u \in Turns \ {t} : chat'[u] = chat[u]
    BY <1>6, ChatWriteSet
  <2>3. clock' \in Nat /\ clock <= clock'
    BY <1>2, <1>6, ChatWriteSet
  <2>4. session' # None => Old(session', sidGen', clock')
    BY <1>1, <1>2, <1>6, ChatWriteSet DEF Old
  <2>5. row' = row \/ Old(row', sidGen', clock')
    <3> SUFFICES ASSUME row' # row PROVE Old(row', sidGen', clock')
      OBVIOUS
    <3>1. row'.sid = (IF row = None THEN chat[t].snap.sid ELSE row.sid) /\ row'.la = chat[t].snap.la
      BY <1>6, ChatWriteSet
    <3>2. row'.sid <= sidGen /\ row'.la <= clock /\ row'.la \in Int
      BY <1>2, <2>1, <3>1 DEF Old, RowRec
    <3> QED BY <1>1, <1>2, <2>3, <3>2 DEF Old
  <2> QED BY <1>1, <1>2, <2>2, <2>3, <2>4, <2>5, NumberedStep
<1> QED
  BY <1>3, <1>4, <1>5, <1>6 DEF ChatStep

\* Steps that leave the chat requests and the clock alone.
LEMMA NumberedRefl ==
  ASSUME TypeInv, TypeInv', Numbered, UNCHANGED <<chat, sidGen, clock>>,
         session' \in {session, None}, row' \in {row, None},
         \A r \in Runners : refl'[r] = refl[r] \/ Old(refl'[r], sidGen, clock),
         \A s \in Sids : pending'[s] # None => pending'[s] = pending[s] \/ s <= sidGen
  PROVE  Numbered'
<1>1. sidGen \in Nat /\ clock \in Nat
  BY Fields
<1> QED
  BY <1>1, NumberedStep

LEMMA NumberedPc ==
  ASSUME TypeInv, Numbered, NEW r \in Runners, NEW pc, SetPc(r, pc)
  PROVE  \A u \in Runners : refl'[u] = refl[u] \/ Old(refl'[u], sidGen, clock)
BY PcSet DEF Numbered, Old

\* A runner whose record is empty is numbered.
LEMMA NumberedEmpty ==
  ASSUME TypeInv
  PROVE  Old(NoRefl, sidGen, clock) /\ Old([NoRefl EXCEPT !.pc = "done"], sidGen, clock)
BY Fields DEF Old, NoRefl

LEMMA NumberedQueue ==
  ASSUME TypeInv, Numbered, NEW r \in Runners, NEW v, pending' = [pending EXCEPT ![refl[r].sid] = v]
  PROVE  \A s \in Sids : pending'[s] # None => pending'[s] = pending[s] \/ s <= sidGen
<1>1. pending \in [Sids -> History \cup {None}]
  BY DEF TypeInv, TypeOK, Types
<1> QED
  BY <1>1 DEF Numbered, Old

LEMMA NumberedUnlink ==
  ASSUME TypeInv, TypeInv', Numbered, NEW r \in Runners, Unlink(r)
  PROVE  Numbered'
<1>1. \E pc \in ReflPcs : SetPc(r, pc)
  BY DEF Unlink, ReflPcs, EarlyPcs
<1> QED
  BY <1>1, NumberedPc, NumberedRefl DEF Unlink

LEMMA NumberedEnd ==
  ASSUME TypeInv, TypeInv', Numbered, NEW e \in Enders,
         EndRaise(e) \/ EndSnapshot(e) \/ EndClaim(e) \/ EndPop(e) \/ EndDelete(e)
         \/ EndSave(e) \/ EndReflected(e)
  PROVE  Numbered'
<1>1. e \in Runners
  BY RunnersType
<1>2. UNCHANGED <<chat, sidGen, clock>> /\ session' \in {session, None} /\ row' \in {row, None}
  BY DEF EndRaise, EndSnapshot, EndClaim, EndPop, EndDelete, EndSave, EndReflected, store, DropRow
<1>3. \A s \in Sids : pending'[s] # None => pending'[s] = pending[s] \/ s <= sidGen
  BY <1>1, NumberedQueue
  DEF EndRaise, EndSnapshot, EndClaim, EndPop, EndDelete, EndSave, EndReflected
<1>4. \A r \in Runners : refl'[r] = refl[r] \/ Old(refl'[r], sidGen, clock)
  <2>1. CASE EndRaise(e)
    BY <1>1, <2>1, ReflSet, NumberedEmpty DEF EndRaise
  <2>2. CASE EndSnapshot(e)
    <3>1. CASE session = None
      BY <1>1, <2>2, <3>1, ReflSet, NumberedEmpty DEF EndSnapshot
    <3>2. CASE session # None
      BY <2>2, <3>2, EndSnapshotSet DEF Old, Numbered
    <3> QED BY <3>1, <3>2
  <2>3. CASE ~EndRaise(e) /\ ~EndSnapshot(e)
    <3>1. \E pc \in ReflPcs : SetPc(e, pc)
      BY <2>3 DEF EndClaim, EndPop, EndDelete, EndSave, EndReflected, ReflPcs, EarlyPcs
    <3> QED BY <1>1, <3>1, NumberedPc
  <2> QED BY <2>1, <2>2, <2>3
<1> QED
  BY <1>2, <1>3, <1>4, NumberedRefl

LEMMA NumberedWatch ==
  ASSUME TypeInv, TypeInv', Numbered, WatchRaise \/ WatchStep, ~Unlink(Watcher)
  PROVE  Numbered'
<1>1. Watcher \in Runners
  BY RunnersType
<1>2. UNCHANGED <<chat, sidGen, clock>> /\ session' \in {session, None} /\ row' \in {row, None}
  BY DEF WatchRaise, WatchStep, WatchSnapshot, WatchQueue, WatchClaim, WatchReflected,
         WatchPop, WatchCleanup, store, DropRow
<1>3. \A s \in Sids : pending'[s] # None => pending'[s] = pending[s] \/ s <= sidGen
  BY <1>1, NumberedQueue
  DEF WatchRaise, WatchStep, WatchSnapshot, WatchQueue, WatchClaim, WatchReflected, WatchPop, WatchCleanup
<1>4. \A r \in Runners : refl'[r] = refl[r] \/ Old(refl'[r], sidGen, clock)
  <2>1. CASE WatchSnapshot
    <3>1. /\ refl'[Watcher].sid = session.sid /\ refl'[Watcher].la = session.la
          /\ session # None /\ \A u \in Runners \ {Watcher} : refl'[u] = refl[u]
      BY <2>1, WatchSnapshotSet DEF WatchSnapshot
    <3> QED BY <3>1 DEF Old, Numbered
  <2>2. CASE WatcherIdle
    BY <1>1, <2>2, ReflSet, NumberedEmpty DEF WatcherIdle
  <2>3. CASE \E pc \in ReflPcs : SetPc(Watcher, pc)
    BY <1>1, <2>3, NumberedPc
  <2> QED
    BY <2>1, <2>2, <2>3
    DEF WatchRaise, WatchStep, WatchQueue, WatchClaim, WatchReflected, WatchPop, WatchCleanup, ReflPcs, EarlyPcs
<1> QED
  BY <1>2, <1>3, <1>4, NumberedRefl

LEMMA NumberedServer ==
  ASSUME TypeInv, TypeInv', Numbered, BecomeIdle \/ Crash \/ CatchUpRaise \/ BootStep
  PROVE  Numbered'
<1>1. Boot \in Runners /\ sidGen \in Nat /\ clock \in Nat
  BY RunnersType, Fields
<1>2. CASE BecomeIdle
  <2>1. session'.sid = session.sid /\ session'.la = session.la /\ session # None
        /\ UNCHANGED <<chat, sidGen, clock, row, refl, pending>>
    BY <1>2, Fields DEF BecomeIdle, LiveRec
  <2> QED BY <1>1, <2>1, NumberedStep DEF Old, Numbered
<1>3. CASE Crash
  <2>1. \A r \in Runners : Old(refl'[r], sidGen, clock)
    BY <1>3, NumberedEmpty DEF Crash
  <2>2. \A t \in Turns : chat'[t].pc = "writing" => chat'[t] = chat[t]
    BY <1>3 DEF Crash, NoChat
  <2> QED BY <1>1, <1>3, <2>1, <2>2, NumberedStep DEF Crash
<1>4. CASE Recover
  <2>1. session' # None => session'.sid = row.sid /\ session'.la = row.la /\ row # None
        /\ UNCHANGED <<chat, sidGen, clock, row, refl, pending>>
    BY <1>4 DEF Recover
  <2>2. UNCHANGED <<chat, sidGen, clock, row, refl, pending>>
    BY <1>4 DEF Recover
  <2> QED BY <1>1, <2>1, <2>2, NumberedStep DEF Old, Numbered
<1>5. ASSUME NEW s \in Sids, CatchUp(s) PROVE Numbered'
  <2>1. /\ refl'[Boot].sid = s /\ refl'[Boot].la = 0
        /\ \A u \in Runners \ {Boot} : refl'[u] = refl[u]
    BY <1>5, CatchUpSet
  <2>2. s <= sidGen
    BY <1>5 DEF CatchUp, Queued, Numbered
  <2> QED BY <1>1, <1>5, <2>1, <2>2, NumberedRefl DEF CatchUp, store, Old
<1>6. CASE CatchUpReflected \/ CatchUpRaise
  <2>1. \A r \in Runners : refl'[r] = refl[r] \/ Old(refl'[r], sidGen, clock)
    BY <1>1, <1>6, ReflSet, NumberedEmpty DEF CatchUpReflected, CatchUpRaise
  <2>2. \A s \in Sids : pending'[s] # None => pending'[s] = pending[s] \/ s <= sidGen
    BY <1>1, <1>6, NumberedQueue DEF CatchUpReflected, CatchUpRaise
  <2> QED BY <1>6, <2>1, <2>2, NumberedRefl DEF CatchUpReflected, CatchUpRaise, store
<1>7. CASE Serve
  BY <1>7, NumberedRefl DEF Serve, store
<1> QED
  BY <1>2, <1>3, <1>4, <1>5, <1>6, <1>7 DEF BootStep

LEMMA NumberedNext == TypeInv /\ TypeInv' /\ Numbered /\ [Next]_vars => Numbered'
<1> SUFFICES ASSUME TypeInv, TypeInv', Numbered, [Next]_vars PROVE Numbered'
  OBVIOUS
<1>1. ASSUME NEW r \in Runners, ReflectApply(r) PROVE Numbered'
  <2>1. \A u \in Runners : refl'[u] = refl[u] \/ Old(refl'[u], sidGen, clock)
    BY <1>1, NumberedPc DEF ReflectApply
  <2> QED BY <1>1, <2>1, NumberedRefl DEF ReflectApply, store
<1>2. CASE UNCHANGED vars
  BY <1>2, NumberedRefl DEF vars
<1> QED
  BY <1>1, <1>2, NumberedOpen, NumberedChat, NumberedUnlink, NumberedEnd, NumberedWatch,
     NumberedServer, RunnersType
  DEF Next, ChatStep, EndStep, WatchStep

LEMMA NumberedInit == Init => Numbered
<1> SUFFICES ASSUME Init PROVE Numbered
  OBVIOUS
<1>1. \A t \in Turns : chat[t].pc = "new"
  BY DEF Init, NoChat
<1>2. \A r \in Runners : refl[r].sid = 0 /\ refl[r].la = 0
  BY DEF Init, NoRefl
<1> QED
  BY <1>1, <1>2 DEF Init, Numbered, Old

(***************************************************************************)
(* One turn at a time, whatever ends the session meanwhile                 *)
(***************************************************************************)

Serial ==
  /\ \A t, u \in Turns : Busy(chat[t]) /\ Busy(chat[u]) => t = u
  /\ server # "up" => \A t \in Turns : ~Busy(chat[t])
  /\ refl[Watcher].pc = "snapped" => \A t \in Turns : ~Storing(chat[t])

LEMMA NoTurnBusy == NoTurn <=> \A t \in Turns : ~Busy(chat[t])
BY DEF NoTurn, ChatBusy, Busy

LEMMA SerialChat ==
  ASSUME TypeInv, Serial, NEW t \in Turns, ChatRequest(t) \/ ChatFail(t) \/ ChatStep(t)
  PROVE  Serial'
<1>1. UNCHANGED <<refl, server>>
  BY DEF ChatRequest, ChatFail, ChatStep, ChatReply, ChatSilent, ChatInstall, ChatSnapshot, ChatWrite
<1>2. CASE ChatRequest(t)
  <2>1. server = "up" /\ session' # None /\ \A u \in Turns : ~Busy(chat[u])
    BY <1>2, Opened, OpeningSteps, NoTurnBusy DEF ChatRequest, MaySend
  <2>2. chat'[t].pc = "thinking" /\ \A u \in Turns \ {t} : chat'[u] = chat[u]
    BY <1>2, ChatRequestSet
  <2> QED BY <1>1, <2>1, <2>2 DEF Serial, Busy, Storing
<1>3. CASE ChatFail(t) \/ ChatReply(t) \/ ChatSilent(t)
  <2>1. Busy(chat[t])
    BY <1>3 DEF ChatFail, ChatReply, ChatSilent, Busy
  <2>2. chat'[t].pc \in {"failed", "answered"} /\ \A u \in Turns \ {t} : chat'[u] = chat[u]
    BY <1>3, ChatOverSet, ChatAnswerSet DEF ChatFail
  <2> QED BY <1>1, <2>1, <2>2 DEF Serial, Busy, Storing
<1>4. CASE ChatInstall(t)
  <2>1. Busy(chat[t]) /\ refl[Watcher].pc # "snapped"
    BY <1>4 DEF ChatInstall, LoopFree, Busy
  <2>2. \A u \in Turns \ {t} : chat'[u] = chat[u]
    BY <1>4, ChatInstallSet
  <2> QED BY <1>1, <2>1, <2>2 DEF Serial
<1>5. CASE ChatSnapshot(t)
  <2>1. Busy(chat[t]) /\ Storing(chat[t])
    BY <1>5 DEF ChatSnapshot, Busy, Storing
  <2>2. \A u \in Turns \ {t} : chat'[u] = chat[u]
    BY <1>5, ChatSnapshotSet
  <2> QED BY <1>1, <2>1, <2>2 DEF Serial
<1>6. CASE ChatWrite(t)
  <2>1. Busy(chat[t]) /\ Storing(chat[t])
    BY <1>6 DEF ChatWrite, Busy, Storing
  <2>2. chat'[t].pc = "acked" /\ \A u \in Turns \ {t} : chat'[u] = chat[u]
    BY <1>6, ChatWriteSet
  <2>3. \A u \in Turns : ~Busy(chat'[u])
    BY <2>1, <2>2 DEF Serial, Busy
  <2> QED BY <1>1, <2>1, <2>2, <2>3 DEF Serial, Busy, Storing
<1> QED
  BY <1>2, <1>3, <1>4, <1>5, <1>6 DEF ChatStep

\* What the other steps must respect.
LEMMA SerialFrame ==
  ASSUME Serial, UNCHANGED chat,
         server' = server \/ server' = "up" \/ (server = "down" /\ server' = "catchup"),
         refl'[Watcher].pc = "snapped" =>
           refl[Watcher].pc = "snapped" \/ \A t \in Turns : ~Storing(chat[t])
  PROVE  Serial'
BY DEF Serial

LEMMA LoopFreeStoring ==
  LoopFree => refl[Watcher].pc # "snapped" /\ \A t \in Turns : ~Storing(chat[t])
BY DEF LoopFree, Storing

LEMMA SerialEnd ==
  ASSUME TypeInv, Serial, NEW e \in Enders, EndOpen(e) \/ EndRaise(e) \/ EndStep(e)
  PROVE  Serial'
<1>1. e \in Runners /\ e # Watcher /\ Watcher \in Runners
  BY RunnersType, RunnersDistinct
<1>2. refl'[Watcher] = refl[Watcher]
  <2>1. CASE EndSnapshot(e)
    BY <1>1, <2>1, EndSnapshotSet
  <2>2. CASE EndRaise(e) \/ EndReopen(e)
    BY <1>1, <2>2, OverSet DEF EndRaise, EndReopen
  <2>3. CASE \E pc \in ReflPcs : SetPc(e, pc)
    BY <1>1, <2>3, PcSet
  <2> QED
    BY <2>1, <2>2, <2>3
    DEF EndOpen, EndStep, EndClaim, EndPop, Unlink, EndDelete, EndSave, EndReflected, ReflPcs, EarlyPcs
<1>3. UNCHANGED <<chat, server>>
  BY DEF EndOpen, EndSnapshot, EndRaise, EndStep, EndClaim, EndPop, Unlink, EndDelete, EndSave,
         EndReflected, EndReopen
<1> QED
  BY <1>2, <1>3, SerialFrame

LEMMA SerialWatch ==
  ASSUME TypeInv, Serial, WatchStep \/ WatchRaise
  PROVE  Serial'
<1>1. Watcher \in Runners
  BY RunnersType
<1>2. UNCHANGED <<chat, server>>
  BY DEF WatchRaise, WatchStep, WatchSnapshot, WatchQueue, WatchClaim, WatchReflected,
         WatchPop, Unlink, WatchCleanup
<1>3. refl'[Watcher].pc = "snapped" => \A t \in Turns : ~Storing(chat[t])
  <2>1. CASE WatchSnapshot
    BY <2>1, LoopFreeStoring DEF WatchSnapshot
  <2>2. CASE WatcherIdle
    BY <1>1, <2>2, OverSet DEF WatcherIdle, Emptied
  <2>3. CASE \E pc \in {"queued", "running", "cleanup", "dropping", "unlinked", "dropped"} :
               SetPc(Watcher, pc)
    BY <1>1, <2>3, PcSet
  <2> QED
    BY <2>1, <2>2, <2>3
    DEF WatchRaise, WatchStep, WatchQueue, WatchClaim, WatchReflected, WatchPop, Unlink, WatchCleanup
<1> QED
  BY <1>2, <1>3, SerialFrame

LEMMA SerialServer ==
  ASSUME TypeInv, Exclusive, Serial,
         StartSession \/ BecomeIdle \/ Crash \/ CatchUpRaise \/ BootStep
         \/ \E r \in Runners : ReflectApply(r)
  PROVE  Serial'
<1>1. Watcher \in Runners /\ Boot \in Runners /\ Watcher # Boot
  BY RunnersType, RunnersDistinct
<1>2. CASE StartSession
  BY <1>2, OpeningSteps, Opened, SerialFrame DEF StartSession
<1>3. CASE BecomeIdle
  BY <1>3, BecomeIdleSet, SerialFrame DEF BecomeIdle
<1>4. CASE Crash
  <2>1. \A t \in Turns : ~Busy(chat'[t])
    BY <1>4, CrashSet
  <2>2. refl'[Watcher].pc \in {"idle", "done"}
    BY <1>1, <1>4, CrashSet DEF Emptied
  <2> QED BY <2>1, <2>2 DEF Serial
<1>5. CASE Recover
  <2>1. \A t \in Turns : ~Busy(chat[t])
    BY <1>5 DEF Recover, Serial
  <2> QED BY <1>5, <2>1, SerialFrame DEF Recover
<1>6. CASE CatchUpRaise \/ CatchUpReflected \/ (\E s \in Sids : CatchUp(s))
  <2>1. refl'[Watcher] = refl[Watcher]
    BY <1>1, <1>6, OverSet, CatchUpSet DEF CatchUpRaise, CatchUpReflected
  <2>2. UNCHANGED <<chat, server>>
    BY <1>6 DEF CatchUpRaise, CatchUpReflected, CatchUp
  <2> QED BY <2>1, <2>2, SerialFrame
<1>7. CASE Serve
  BY <1>7, SerialFrame DEF Serve, store
<1>8. ASSUME NEW r \in Runners, ReflectApply(r) PROVE Serial'
  <2>1. refl'[Watcher].pc # "snapped" \/ refl'[Watcher] = refl[Watcher]
    BY <1>1, <1>8, PcSet DEF ReflectApply
  <2>2. UNCHANGED <<chat, server>>
    BY <1>8 DEF ReflectApply
  <2> QED BY <2>1, <2>2, SerialFrame
<1> QED
  BY <1>2, <1>3, <1>4, <1>5, <1>6, <1>7, <1>8 DEF BootStep

LEMMA SerialNext == TypeInv /\ Exclusive /\ Serial /\ [Next]_vars => Serial'
<1> SUFFICES ASSUME TypeInv, Exclusive, Serial, [Next]_vars PROVE Serial'
  OBVIOUS
<1>1. CASE UNCHANGED vars
  BY <1>1, SerialFrame DEF vars
<1> QED
  BY <1>1, SerialChat, SerialEnd, SerialWatch, SerialServer DEF Next

LEMMA SerialInit == Init => Serial
<1> SUFFICES ASSUME Init PROVE Serial
  OBVIOUS
<1>1. \A t \in Turns : chat[t].pc = "new"
  BY DEF Init, NoChat
<1>2. refl[Watcher].pc = "idle"
  BY RunnersType DEF Init, NoRefl
<1> QED
  BY <1>1, <1>2 DEF Init, Serial, Busy, Storing

(***************************************************************************)
(* A running reflection is always backed by its pending file               *)
(*                                                                         *)
(* From here on the database takes every write.                            *)
(* The file of a session has two writers and one deleter.  Inductively: a    *)
(* turn's copy holds all the session's turns; what the end handler carries   *)
(* away from a session stays in that session; between the watcher's snapshot *)
(* and its save nothing is added to the session; so when the watcher         *)
(* overwrites the file the end handler has written, it writes no less.       *)
(***************************************************************************)

\* Where a runner has a transcript in its hand.
Holding == {"snapped", "claimed", "unclaimed", "popped", "unlinked", "dropping", "dropped",
            "deleted", "running", "applied"}

\* While the database takes every write, there is no fallback file.
NoFile == file = None


Growing ==
  \A t \in Turns : chat[t].pc \in {"thinking", "answered"} /\ session # None =>
    Content(session) \subseteq Content(chat[t])

EndHolds ==
  \A e \in Enders :
    refl[e].pc \in Holding /\ session # None /\ session.sid = refl[e].sid =>
      TurnsIn(refl[e].tr) \subseteq Content(session)

Frozen ==
  refl[Watcher].pc = "snapped" /\ session # None /\ session.sid = refl[Watcher].sid =>
    refl[Watcher].tr = Fresh(session.hist, session.seed)

Covers ==
  \A e \in Enders :
    refl[Watcher].pc = "snapped" /\ refl[e].pc \in Holding /\ refl[e].sid = refl[Watcher].sid =>
      TurnsIn(refl[e].tr) \subseteq TurnsIn(refl[Watcher].tr)

QueuedOwn ==
  refl[Watcher].pc = "queued" /\ refl[Watcher].sid \notin claimed =>
    pending[refl[Watcher].sid] = refl[Watcher].tr

Backed == EndHolds /\ Frozen /\ Covers /\ QueuedOwn /\ RunningIsQueued

LEMMA NoFaults ==
  ASSUME MaxFault = 0, TypeInv
  PROVE  ~Afford("fault") /\ (DropRow => row' = None)
<1>1. spent["fault"] \in Nat
  BY DEF TypeInv, TypeOK, Types, Costs
<1>2. ~Afford("fault")
  BY <1>1 DEF Afford, LimitOf
<1> QED
  BY <1>2 DEF DropRow

LEMMA NoFileNext == MaxFault = 0 /\ TypeInv /\ NoFile /\ [Next]_vars => NoFile'
<1> SUFFICES ASSUME MaxFault = 0, TypeInv, NoFile, [Next]_vars PROVE NoFile'
  OBVIOUS
<1>1. CASE \E t \in Turns : ChatRequest(t) \/ ChatFail(t) \/ ChatStep(t)
  BY <1>1, NoFaults
  DEF ChatRequest, ChatFail, ChatStep, ChatReply, ChatSilent, ChatInstall, ChatSnapshot, ChatWrite,
      store, NoFile
<1>2. CASE \E r \in Runners : Unlink(r)
  BY <1>2 DEF Unlink, NoFile
<1>3. ASSUME NEW e \in Enders, EndOpen(e) \/ EndRaise(e) \/ EndStep(e), ~Unlink(e)
      PROVE  NoFile'
  BY <1>3
  DEF EndOpen, EndRaise, EndStep, EndSnapshot, EndClaim, EndPop, EndDelete, EndSave, EndReflected,
      EndReopen, store, NoFile
<1>4. CASE (WatchRaise \/ WatchStep) /\ ~Unlink(Watcher)
  BY <1>4
  DEF WatchRaise, WatchStep, WatchSnapshot, WatchQueue, WatchClaim, WatchReflected, WatchPop,
      WatchCleanup, store, NoFile
<1>5. CASE StartSession \/ BecomeIdle \/ Crash \/ CatchUpRaise \/ BootStep \/ UNCHANGED vars
           \/ \E r \in Runners : ReflectApply(r)
  BY <1>5
  DEF StartSession, BecomeIdle, Crash, CatchUpRaise, BootStep, Recover, CatchUp, CatchUpReflected,
      Serve, ReflectApply, store, vars, NoFile
<1> QED
  BY <1>1, <1>2, <1>3, <1>4, <1>5, RunnersType DEF Next, EndStep, WatchStep

LEMMA GrowingInit == Init => Growing /\ NoFile
BY DEF Init, Growing, NoFile

LEMMA GrowingNext == TypeInv /\ Serial /\ NoFile /\ Growing /\ [Next]_vars => Growing'
<1> SUFFICES ASSUME TypeInv, Serial, NoFile, Growing, [Next]_vars PROVE Growing'
  OBVIOUS
<1>1. ASSUME NEW t \in Turns, ChatRequest(t) \/ ChatFail(t) \/ ChatStep(t) PROVE Growing'
  <2>0. (chat[t].pc # "new" /\ Busy(chat[t])) \/ (ChatRequest(t) /\ \A u \in Turns : ~Busy(chat[u]))
    BY <1>1, NoTurnBusy
    DEF ChatRequest, MaySend, ChatFail, ChatStep, ChatReply, ChatSilent, ChatInstall, ChatSnapshot, ChatWrite, Busy
  <2>1. /\ \A u \in Turns \ {t} : ~Busy(chat[u])
        /\ \A u \in Turns \ {t} : chat'[u] = chat[u]
    BY <1>1, <2>0, ChatRequestSet, ChatOverSet, ChatAnswerSet, ChatInstallSet, ChatSnapshotSet, ChatWriteSet
    DEF ChatFail, ChatStep, Serial
  <2>2. CASE ChatRequest(t)
    <3>1. Content(chat'[t]) = Content(session')
      BY <2>2, ChatRequestSet DEF Content
    <3> QED BY <2>1, <3>1 DEF Growing, Busy
  <2>3. CASE ChatReply(t) \/ ChatSilent(t)
    <3>1. UNCHANGED session /\ chat[t].pc = "thinking"
      BY <2>3 DEF ChatReply, ChatSilent, store
    <3>2. Content(chat'[t]) = Content(chat[t]) \cup {t}
      BY <2>3, ChatAnswerSet
    <3> QED BY <2>1, <3>1, <3>2 DEF Growing, Busy
  <2>4. CASE ChatFail(t) \/ ChatInstall(t) \/ ChatSnapshot(t) \/ ChatWrite(t)
    <3>1. chat'[t].pc \notin {"thinking", "answered"}
      BY <2>4, ChatOverSet, ChatInstallSet, ChatSnapshotSet, ChatWriteSet DEF ChatFail
    <3> QED BY <2>1, <3>1 DEF Growing, Busy
  <2> QED BY <1>1, <2>2, <2>3, <2>4 DEF ChatStep
<1>2. CASE StartSession \/ (\E e \in Enders : EndOpen(e) \/ EndReopen(e))
  <2>1. UNCHANGED chat
    BY <1>2 DEF StartSession, EndOpen, EndReopen
  <2>2. UNCHANGED session \/ Content(session') = {}
    BY <1>2, OpeningSteps, Opened DEF NoFile, Persisted
  <2> QED BY <2>1, <2>2 DEF Growing
<1>3. CASE BecomeIdle
  <2>1. Content(session') = Content(session) /\ session # None
    BY <1>3, BecomeIdleSet DEF Content
  <2> QED BY <1>3, <2>1 DEF Growing, BecomeIdle
<1>4. CASE Crash \/ Recover
  <2>1. \A t \in Turns : ~Busy(chat'[t])
    BY <1>4, CrashSet DEF Recover, Serial
  <2> QED BY <2>1 DEF Growing, Busy
<1>5. CASE UNCHANGED chat /\ (UNCHANGED session \/ session' = None)
  BY <1>5 DEF Growing
<1>6. ASSUME NEW e \in Enders, EndRaise(e) \/ (EndStep(e) /\ ~EndReopen(e))
      PROVE  Growing'
  BY <1>5, <1>6 DEF EndRaise, EndStep, EndSnapshot, EndClaim, EndPop, Unlink, EndDelete, EndSave,
                    EndReflected, store
<1>7. CASE WatchRaise \/ WatchStep
  BY <1>5, <1>7 DEF WatchRaise, WatchStep, WatchSnapshot, WatchQueue, WatchClaim, WatchReflected,
                    WatchPop, Unlink, WatchCleanup, store
<1>8. CASE CatchUpRaise \/ CatchUpReflected \/ (\E s \in Sids : CatchUp(s)) \/ Serve
           \/ (\E r \in Runners : ReflectApply(r)) \/ UNCHANGED vars
  BY <1>5, <1>8 DEF CatchUpRaise, CatchUpReflected, CatchUp, Serve, ReflectApply, store, vars
<1> QED
  BY <1>1, <1>2, <1>3, <1>4, <1>6, <1>7, <1>8 DEF Next, BootStep

\* Nothing about the transcripts changes.
LEMMA BackedFrame ==
  ASSUME Backed, UNCHANGED <<refl, pending, claimed>>,
         session' # None => session # None /\ session'.sid = session.sid
                            /\ session'.hist = session.hist /\ session'.seed = session.seed
  PROVE  Backed'
<1>1. session' # None => Content(session') = Content(session)
  BY DEF Content
<1>2. EndHolds' /\ Frozen'
  BY <1>1 DEF Backed, EndHolds, Frozen
<1>3. Covers' /\ QueuedOwn' /\ RunningIsQueued'
  BY DEF Backed, Covers, QueuedOwn, RunningIsQueued
<1> QED
  BY <1>2, <1>3 DEF Backed

\* A session just made holds nothing that a runner carries: its id is new.
LEMMA BackedOpen ==
  ASSUME TypeInv, Numbered, Backed, UNCHANGED <<refl, pending, claimed>>,
         \E logged \in History : GetOrCreate(logged)
  PROVE  Backed'
<1>1. CASE UNCHANGED session
  BY <1>1, BackedFrame
<1>2. CASE session'.sid = sidGen + 1
  <2>1. \A r \in Runners : refl[r].sid # session'.sid
    <3>1. \A r \in Runners : refl[r].sid \in Int /\ sidGen \in Int
      BY Fields DEF ReflRec, Sids
    <3> QED BY <1>2, <3>1 DEF Numbered, Old
  <2>2. EndHolds' /\ Frozen'
    BY <2>1, RunnersType DEF EndHolds, Frozen
  <2>3. Covers' /\ QueuedOwn' /\ RunningIsQueued'
    BY DEF Backed, Covers, QueuedOwn, RunningIsQueued
  <2> QED BY <2>2, <2>3 DEF Backed
<1> QED
  BY <1>1, <1>2, Opened

LEMMA BackedChat ==
  ASSUME TypeInv, Numbered, Serial, Growing, Backed, NEW t \in Turns,
         ChatRequest(t) \/ ChatFail(t) \/ ChatStep(t)
  PROVE  Backed'
<1>1. UNCHANGED <<refl, pending, claimed>>
  BY DEF ChatRequest, ChatFail, ChatStep, ChatReply, ChatSilent, ChatInstall, ChatSnapshot, ChatWrite
<1>2. CASE ChatRequest(t)
  BY <1>1, <1>2, OpeningSteps, BackedOpen
<1>3. CASE ChatFail(t) \/ ChatReply(t) \/ ChatSilent(t) \/ ChatSnapshot(t)
  BY <1>1, <1>3, BackedFrame DEF ChatFail, ChatReply, ChatSilent, ChatSnapshot, store
<1>4. CASE ChatWrite(t)
  BY <1>1, <1>4, BackedFrame, ChatWriteSet
<1>5. CASE ChatInstall(t)
  <2>1. CASE session = None
    BY <1>1, <1>5, <2>1, BackedFrame, ChatInstallSet
  <2>2. CASE session # None
    <3>1. session' # None /\ session'.sid = session.sid /\ Content(session') = Content(chat[t])
          /\ refl[Watcher].pc # "snapped" /\ chat[t].pc = "answered"
      BY <1>5, <2>2, ChatInstallSet DEF ChatInstall, LoopFree
    <3>2. Content(session) \subseteq Content(session')
      BY <2>2, <3>1 DEF Growing
    <3>3. EndHolds' /\ Frozen'
      BY <1>1, <2>2, <3>1, <3>2 DEF Backed, EndHolds, Frozen
    <3>4. Covers' /\ QueuedOwn' /\ RunningIsQueued'
      BY <1>1 DEF Backed, Covers, QueuedOwn, RunningIsQueued
    <3> QED BY <3>3, <3>4 DEF Backed
  <2> QED BY <2>1, <2>2
<1> QED
  BY <1>2, <1>3, <1>4, <1>5 DEF ChatStep

\* Writing and clearing the pending file of one session.
LEMMA PendingSet ==
  ASSUME TypeInv, NEW r \in Runners, refl[r].pc \notin {"idle", "opened", "done"}, NEW v,
         pending' = [pending EXCEPT ![refl[r].sid] = v]
  PROVE  /\ refl[r].sid \in Sids
         /\ pending'[refl[r].sid] = v
         /\ \A s \in Sids \ {refl[r].sid} : pending'[s] = pending[s]
<1>1. pending \in [Sids -> History \cup {None}] /\ refl[r].sid \in Sids
  BY DEF TypeInv, TypeOK, Types, Sidded
<1> QED
  BY <1>1

\* The session of a runner at work is a session.
LEMMA AtWork ==
  ASSUME TypeInv, NEW r \in Runners, refl[r].pc \notin {"idle", "opened", "done"}
  PROVE  refl[r].sid \in Sids /\ refl[r].tr \in History /\ refl[r].tr # None
BY Fields, NoneOK DEF TypeInv, Sidded, ReflRec

\* A runner lets go of its transcript, or moves on without queueing anything.
LEMMA BackedStop ==
  ASSUME TypeInv, Backed, NEW r \in Runners,
         \A u \in Runners \ {r} : refl'[u] = refl[u],
         refl'[r].pc \in {"idle", "done", "closing", "cleanup"},
         UNCHANGED claimed, session' = session \/ session' = None,
         pending' = pending \/
           (Reflecting(r) /\ NoConcurrentReflection /\
            (refl[Watcher].pc = "queued" /\ refl[Watcher].sid \notin claimed => refl[Watcher].sid # refl[r].sid) /\
            \A s \in Sids \ {refl[r].sid} : pending'[s] = pending[s])
  PROVE  Backed'
<1>1. Watcher \in Runners /\ Enders \subseteq Runners
  BY RunnersType
<1>2. EndHolds' /\ Frozen'
  BY <1>1 DEF Backed, EndHolds, Frozen, Holding
<1>3. Covers'
  BY <1>1 DEF Backed, Covers, Holding
<1>4. QueuedOwn'
  BY <1>1, AtWork DEF Backed, QueuedOwn
<1>5. RunningIsQueued'
  <2> SUFFICES ASSUME NEW u \in Runners, refl'[u].pc \in {"running", "applied"}
               PROVE  /\ pending'[refl'[u].sid] # None
                      /\ TurnsIn(refl'[u].tr) \subseteq TurnsIn(pending'[refl'[u].sid])
    BY DEF RunningIsQueued
  <2>1. u # r /\ refl'[u] = refl[u] /\ refl[u].sid \in Sids /\ Reflecting(u)
    BY AtWork DEF Reflecting
  <2>2. pending'[refl[u].sid] = pending[refl[u].sid]
    BY <2>1 DEF NoConcurrentReflection
  <2> QED BY <2>1, <2>2 DEF Backed, RunningIsQueued
<1> QED
  BY <1>2, <1>3, <1>4, <1>5 DEF Backed

\* An end request opens the session, and holds nothing yet.
LEMMA BackedEndOpen ==
  ASSUME TypeInv, Numbered, Backed, NEW e \in Enders, EndOpen(e)
  PROVE  Backed'
<1>1. e \in Runners /\ e # Watcher /\ Watcher \in Runners /\ Enders \subseteq Runners
  BY RunnersType, RunnersDistinct
<1>2. refl[e].pc = "idle" /\ refl'[e].pc = "opened" /\ \A u \in Runners \ {e} : refl'[u] = refl[u]
  BY <1>1, PcSet DEF EndOpen
<1>3. UNCHANGED <<pending, claimed>>
  BY DEF EndOpen
<1>4. UNCHANGED session \/ \A r \in Runners : refl[r].sid # session'.sid
  <2>1. CASE session'.sid = sidGen + 1
    <3>1. \A r \in Runners : refl[r].sid \in Int /\ sidGen \in Int
      BY Fields DEF ReflRec, Sids
    <3> QED BY <2>1, <3>1 DEF Numbered, Old
  <2> QED BY <2>1, OpeningSteps, Opened
<1>5. EndHolds'
  BY <1>1, <1>2, <1>4 DEF Backed, EndHolds, Holding
<1>6. Frozen'
  BY <1>1, <1>2, <1>4 DEF Backed, Frozen
<1>7. Covers'
  BY <1>1, <1>2 DEF Backed, Covers, Holding
<1>8. QueuedOwn' /\ RunningIsQueued'
  BY <1>1, <1>2, <1>3 DEF Backed, QueuedOwn, RunningIsQueued
<1> QED
  BY <1>5, <1>6, <1>7, <1>8 DEF Backed

LEMMA BackedEndSnapshot ==
  ASSUME TypeInv, Numbered, Backed, NEW e \in Enders, EndSnapshot(e)
  PROVE  Backed'
<1>1. e \in Runners /\ e # Watcher /\ Watcher \in Runners /\ Enders \subseteq Runners
  BY RunnersType, RunnersDistinct
<1>2. UNCHANGED <<session, pending, claimed>> /\ \A u \in Runners \ {e} : refl'[u] = refl[u]
  BY EndSnapshotSet DEF EndSnapshot, store
<1>3. CASE session = None
  BY <1>1, <1>2, <1>3, EndSnapshotSet, BackedStop DEF Emptied
<1>4. CASE session # None
  <2>1. /\ refl'[e].pc = "snapped" /\ refl'[e].sid = session.sid
        /\ TurnsIn(refl'[e].tr) = Content(session)
    BY <1>4, EndSnapshotSet DEF Content
  <2>2. EndHolds'
    BY <1>1, <1>2, <2>1 DEF Backed, EndHolds
  <2>3. Frozen'
    BY <1>1, <1>2 DEF Backed, Frozen
  <2>4. Covers'
    <3> SUFFICES ASSUME NEW f \in Enders, refl[Watcher].pc = "snapped", refl'[f].pc \in Holding,
                        refl'[f].sid = refl[Watcher].sid
                 PROVE  TurnsIn(refl'[f].tr) \subseteq TurnsIn(refl[Watcher].tr)
      BY <1>1, <1>2 DEF Covers
    <3>1. CASE f # e
      BY <1>1, <1>2, <3>1 DEF Backed, Covers
    <3>2. CASE f = e
      <4>1. refl[Watcher].tr = Fresh(session.hist, session.seed)
        BY <1>4, <2>1, <3>2 DEF Backed, Frozen
      <4> QED BY <2>1, <3>2, <4>1 DEF Content
    <3> QED BY <3>1, <3>2
  <2>5. QueuedOwn' /\ RunningIsQueued'
    BY <1>1, <1>2, <2>1 DEF Backed, QueuedOwn, RunningIsQueued
  <2> QED BY <2>2, <2>3, <2>4, <2>5 DEF Backed
<1> QED
  BY <1>3, <1>4

\* A deletion, step by step, leaves every transcript where it is.
LEMMA BackedDelete ==
  ASSUME TypeInv, Backed, NEW r \in Runners, NEW pc \in ReflPcs, SetPc(r, pc),
         refl[r].pc \in Holding \cup {"cleanup"}, pc \notin {"snapped", "queued", "running", "applied"},
         refl[r].pc \notin {"running", "applied"}, r \in Enders => refl[r].pc \in Holding,
         UNCHANGED <<claimed, pending>>, session' = session \/ session' = None
  PROVE  Backed'
<1>1. Watcher \in Runners /\ Enders \subseteq Runners
  BY RunnersType
<1>2. /\ refl'[r].pc = pc /\ refl'[r].sid = refl[r].sid /\ refl'[r].tr = refl[r].tr
      /\ \A u \in Runners \ {r} : refl'[u] = refl[u]
  BY PcSet
<1>3. EndHolds'
  BY <1>1, <1>2 DEF Backed, EndHolds
<1>4. Frozen' /\ Covers'
  BY <1>1, <1>2 DEF Backed, Frozen, Covers
<1>5. QueuedOwn' /\ RunningIsQueued'
  BY <1>1, <1>2 DEF Backed, QueuedOwn, RunningIsQueued
<1> QED
  BY <1>3, <1>4, <1>5 DEF Backed

LEMMA BackedEnd ==
  ASSUME TypeInv, Exclusive, Numbered, Backed, NEW e \in Enders,
         EndRaise(e) \/ (EndStep(e) /\ ~EndSnapshot(e))
  PROVE  Backed'
<1>1. e \in Runners /\ e # Watcher /\ e # Boot /\ Watcher \in Runners /\ Enders \subseteq Runners
  BY RunnersType, RunnersDistinct
<1>2. CASE EndRaise(e)
  <2>1. Emptied(refl'[e]) /\ \A u \in Runners \ {e} : refl'[u] = refl[u]
    BY <1>1, <1>2, OverSet DEF EndRaise
  <2> QED BY <1>1, <1>2, <2>1, BackedStop DEF EndRaise, store, Emptied
<1>3. CASE EndClaim(e)
  <2>1. /\ refl[e].pc = "snapped" /\ refl'[e].pc \in {"claimed", "unclaimed"}
        /\ refl'[e].sid = refl[e].sid /\ refl'[e].tr = refl[e].tr
        /\ \A u \in Runners \ {e} : refl'[u] = refl[u]
    BY <1>1, <1>3, PcSet DEF EndClaim
  <2>2. UNCHANGED <<session, pending>> /\ claimed \subseteq claimed'
    BY <1>3 DEF EndClaim, store
  <2>3. EndHolds' /\ Frozen'
    BY <1>1, <2>1, <2>2 DEF Backed, EndHolds, Frozen, Holding
  <2>4. Covers'
    BY <1>1, <2>1, <2>2 DEF Backed, Covers, Holding
  <2>5. QueuedOwn' /\ RunningIsQueued'
    BY <1>1, <2>1, <2>2 DEF Backed, QueuedOwn, RunningIsQueued
  <2> QED BY <2>3, <2>4, <2>5 DEF Backed
<1>4. CASE EndPop(e) \/ Unlink(e) \/ EndDelete(e)
  <2>1. /\ refl[e].pc \in {"claimed", "unclaimed", "popped", "unlinked", "dropping", "dropped"}
        /\ UNCHANGED <<claimed, pending>> /\ (session' = session \/ session' = None)
        /\ \E pc \in {"popped", "unlinked", "dropping", "dropped", "deleted", "closing"} : SetPc(e, pc)
    BY <1>4 DEF EndPop, Unlink, EndDelete
  <2> QED BY <1>1, <2>1, BackedDelete DEF Holding, ReflPcs, EarlyPcs
<1>5. CASE EndSave(e)
  <2>1. /\ refl[e].pc = "deleted" /\ refl'[e].pc = "running"
        /\ refl'[e].sid = refl[e].sid /\ refl'[e].tr = refl[e].tr
        /\ \A u \in Runners \ {e} : refl'[u] = refl[u]
    BY <1>1, <1>5, PcSet DEF EndSave
  <2>2. UNCHANGED <<claimed, session>>
    BY <1>5 DEF EndSave, store
  <2>3. /\ refl[e].sid \in Sids /\ refl[e].tr # None /\ refl[e].sid \in claimed
        /\ pending'[refl[e].sid] = refl[e].tr
        /\ \A s \in Sids \ {refl[e].sid} : pending'[s] = pending[s]
    BY <1>1, <1>5, <2>1, AtWork, PendingSet DEF EndSave, Exclusive, Reflecting, Handing
  <2>4. EndHolds' /\ Frozen'
    BY <1>1, <2>1, <2>2 DEF Backed, EndHolds, Frozen, Holding
  <2>5. Covers'
    BY <1>1, <2>1, <2>2 DEF Backed, Covers, Holding
  <2>6. QueuedOwn'
    BY <1>1, <2>1, <2>2, <2>3, AtWork DEF Backed, QueuedOwn
  <2>7. RunningIsQueued'
    <3> SUFFICES ASSUME NEW u \in Runners, refl'[u].pc \in {"running", "applied"}
                 PROVE  /\ pending'[refl'[u].sid] # None
                        /\ TurnsIn(refl'[u].tr) \subseteq TurnsIn(pending'[refl'[u].sid])
      BY DEF RunningIsQueued
    <3>1. CASE u = e
      BY <2>1, <2>3, <3>1
    <3>2. CASE u # e
      <4>1. refl'[u] = refl[u] /\ refl[u].sid \in Sids /\ refl[u].sid # refl[e].sid
        BY <1>1, <2>1, <3>2, AtWork DEF Exclusive, NoConcurrentReflection, Reflecting, Handing
      <4> QED BY <2>3, <4>1 DEF Backed, RunningIsQueued
    <3> QED BY <3>1, <3>2
  <2> QED BY <2>4, <2>5, <2>6, <2>7 DEF Backed
<1>6. CASE EndReflected(e)
  <2>1. /\ refl[e].pc = "applied" /\ refl'[e].pc = "closing"
        /\ \A u \in Runners \ {e} : refl'[u] = refl[u]
    BY <1>1, <1>6, PcSet DEF EndReflected
  <2>2. UNCHANGED <<claimed, session>>
    BY <1>6 DEF EndReflected, store
  <2>3. refl[e].sid \in claimed /\ \A s \in Sids \ {refl[e].sid} : pending'[s] = pending[s]
    BY <1>1, <1>6, <2>1, PendingSet DEF EndReflected, Exclusive, Reflecting
  <2> QED BY <1>1, <2>1, <2>2, <2>3, BackedStop DEF Reflecting, Exclusive
<1>7. CASE EndReopen(e)
  <2>1. Emptied(refl'[e]) /\ \A u \in Runners \ {e} : refl'[u] = refl[u]
    BY <1>1, <1>7, OverSet DEF EndReopen
  <2>2. UNCHANGED <<pending, claimed>>
    BY <1>7 DEF EndReopen
  <2>3. session' # None /\ (UNCHANGED session \/ \A r \in Runners : refl[r].sid # session'.sid)
    <3>1. CASE session'.sid = sidGen + 1
      <4>1. \A r \in Runners : refl[r].sid \in Int /\ sidGen \in Int
        BY Fields DEF ReflRec, Sids
      <4> QED BY <1>7, <3>1, <4>1, OpeningSteps, Opened DEF Numbered, Old
    <3> QED BY <1>7, <3>1, OpeningSteps, Opened
  <2>4. EndHolds'
    BY <1>1, <2>1, <2>3 DEF Backed, EndHolds, Holding, Emptied
  <2>5. Frozen'
    BY <1>1, <2>1, <2>3 DEF Backed, Frozen
  <2>6. Covers'
    BY <1>1, <2>1 DEF Backed, Covers, Holding, Emptied
  <2>7. QueuedOwn' /\ RunningIsQueued'
    BY <1>1, <2>1, <2>2 DEF Backed, QueuedOwn, RunningIsQueued, Emptied
  <2> QED BY <2>4, <2>5, <2>6, <2>7 DEF Backed
<1> QED
  BY <1>2, <1>3, <1>4, <1>5, <1>6, <1>7 DEF EndStep

LEMMA BackedWatch ==
  ASSUME TypeInv, Exclusive, Numbered, Backed, WatchStep \/ WatchRaise
  PROVE  Backed'
<1>1. Watcher \in Runners /\ Watcher # Boot /\ Watcher \notin Enders /\ Enders \subseteq Runners
  BY RunnersType, RunnersDistinct
<1>2. CASE WatchSnapshot
  <2>1. /\ refl'[Watcher].pc = "snapped" /\ refl'[Watcher].sid = session.sid
        /\ refl'[Watcher].tr = Fresh(session.hist, session.seed)
        /\ \A u \in Runners \ {Watcher} : refl'[u] = refl[u]
    BY <1>2, WatchSnapshotSet
  <2>2. UNCHANGED <<session, pending, claimed>> /\ session # None
    BY <1>2 DEF WatchSnapshot, store
  <2>3. EndHolds' /\ Frozen'
    BY <1>1, <2>1, <2>2 DEF Backed, EndHolds, Frozen
  <2>4. Covers'
    BY <1>1, <2>1, <2>2 DEF Backed, EndHolds, Covers, Content
  <2>5. QueuedOwn' /\ RunningIsQueued'
    BY <1>1, <2>1, <2>2 DEF Backed, QueuedOwn, RunningIsQueued
  <2> QED BY <2>3, <2>4, <2>5 DEF Backed
<1>3. CASE WatchQueue
  <2>1. /\ refl[Watcher].pc = "snapped" /\ refl'[Watcher].pc = "queued"
        /\ refl'[Watcher].sid = refl[Watcher].sid /\ refl'[Watcher].tr = refl[Watcher].tr
        /\ \A u \in Runners \ {Watcher} : refl'[u] = refl[u]
    BY <1>1, <1>3, PcSet DEF WatchQueue
  <2>2. UNCHANGED <<claimed, session>>
    BY <1>3 DEF WatchQueue, store
  <2>3. /\ refl[Watcher].sid \in Sids /\ refl[Watcher].tr # None
        /\ pending'[refl[Watcher].sid] = refl[Watcher].tr
        /\ \A s \in Sids \ {refl[Watcher].sid} : pending'[s] = pending[s]
    BY <1>1, <1>3, <2>1, AtWork, PendingSet DEF WatchQueue
  <2>4. EndHolds' /\ Frozen' /\ Covers'
    BY <1>1, <2>1, <2>2 DEF Backed, EndHolds, Frozen, Covers
  <2>5. QueuedOwn'
    BY <2>1, <2>3 DEF QueuedOwn
  <2>6. RunningIsQueued'
    <3> SUFFICES ASSUME NEW u \in Runners, refl'[u].pc \in {"running", "applied"}
                 PROVE  /\ pending'[refl'[u].sid] # None
                        /\ TurnsIn(refl'[u].tr) \subseteq TurnsIn(pending'[refl'[u].sid])
      BY DEF RunningIsQueued
    <3>1. u # Watcher /\ refl'[u] = refl[u] /\ refl[u].sid \in Sids
      BY <2>1, AtWork
    <3>2. CASE refl[u].sid # refl[Watcher].sid
      BY <2>3, <3>1, <3>2 DEF Backed, RunningIsQueued
    <3>3. CASE refl[u].sid = refl[Watcher].sid
      <4>1. u \in Enders
        BY <1>1, <2>1, <3>1 DEF Exclusive, Runners
      <4>2. TurnsIn(refl[u].tr) \subseteq TurnsIn(refl[Watcher].tr)
        BY <2>1, <3>1, <3>3, <4>1 DEF Backed, Covers, Holding
      <4> QED BY <2>3, <3>1, <3>3, <4>2
    <3> QED BY <3>2, <3>3
  <2> QED BY <2>4, <2>5, <2>6 DEF Backed
<1>4. CASE WatchClaim /\ Claimable(Watcher)
  <2>1. /\ refl[Watcher].pc = "queued" /\ refl'[Watcher].pc = "running"
        /\ refl'[Watcher].sid = refl[Watcher].sid /\ refl'[Watcher].tr = refl[Watcher].tr
        /\ \A u \in Runners \ {Watcher} : refl'[u] = refl[u]
    BY <1>1, <1>4, PcSet DEF WatchClaim
  <2>2. UNCHANGED <<session, pending>>
    BY <1>4 DEF WatchClaim, store
  <2>3. pending[refl[Watcher].sid] = refl[Watcher].tr /\ refl[Watcher].tr # None
    BY <1>1, <1>4, <2>1, AtWork DEF Backed, QueuedOwn, Claimable
  <2>4. EndHolds' /\ Frozen' /\ Covers' /\ QueuedOwn'
    BY <1>1, <2>1, <2>2 DEF Backed, EndHolds, Frozen, Covers, QueuedOwn
  <2>5. RunningIsQueued'
    BY <1>1, <2>1, <2>2, <2>3 DEF Backed, RunningIsQueued
  <2> QED BY <2>4, <2>5 DEF Backed
<1>5. CASE WatchReflected
  <2>1. /\ refl[Watcher].pc = "applied" /\ refl'[Watcher].pc = "cleanup"
        /\ \A u \in Runners \ {Watcher} : refl'[u] = refl[u]
    BY <1>1, <1>5, PcSet DEF WatchReflected
  <2>2. UNCHANGED <<claimed, session>>
    BY <1>5 DEF WatchReflected, store
  <2>3. \A s \in Sids \ {refl[Watcher].sid} : pending'[s] = pending[s]
    BY <1>1, <1>5, <2>1, PendingSet DEF WatchReflected
  <2> QED BY <1>1, <2>1, <2>2, <2>3, BackedStop DEF Reflecting, Exclusive
<1>6. CASE WatchRaise \/ WatchCleanup \/ (WatchClaim /\ ~Claimable(Watcher)) \/ (WatchPop /\ ~Stale)
  <2>1. Emptied(refl'[Watcher]) /\ \A u \in Runners \ {Watcher} : refl'[u] = refl[u]
    BY <1>1, <1>6, OverSet DEF WatchRaise, WatchCleanup, WatchClaim, WatchPop, WatcherIdle
  <2>2. UNCHANGED <<session, claimed, pending>>
    BY <1>6 DEF WatchRaise, WatchCleanup, WatchClaim, WatchPop, store
  <2> QED BY <1>1, <2>1, <2>2, BackedStop DEF Emptied
<1>7. CASE (WatchPop /\ Stale) \/ Unlink(Watcher)
  <2>1. /\ refl[Watcher].pc \in {"cleanup", "popped", "dropping"}
        /\ UNCHANGED <<claimed, pending>> /\ (session' = session \/ session' = None)
        /\ \E pc \in {"dropping", "unlinked", "dropped"} : SetPc(Watcher, pc)
    BY <1>7 DEF WatchPop, Unlink
  <2> QED BY <1>1, <2>1, BackedDelete DEF Holding, ReflPcs, EarlyPcs
<1> QED
  BY <1>2, <1>3, <1>4, <1>5, <1>6, <1>7 DEF WatchStep

LEMMA BackedServer ==
  ASSUME TypeInv, Exclusive, Numbered, Backed,
         StartSession \/ BecomeIdle \/ Crash \/ CatchUpRaise \/ BootStep
         \/ \E r \in Runners : ReflectApply(r)
  PROVE  Backed'
<1>1. /\ Watcher \in Runners /\ Boot \in Runners /\ Watcher # Boot
      /\ Boot \notin Enders /\ Enders \subseteq Runners
  BY RunnersType, RunnersDistinct
<1>2. CASE StartSession
  BY <1>2, OpeningSteps, BackedOpen DEF StartSession
<1>3. CASE BecomeIdle
  BY <1>3, BecomeIdleSet, BackedFrame DEF BecomeIdle
<1>4. CASE Crash
  <2>1. \A r \in Runners : Emptied(refl'[r])
    BY <1>4, CrashSet
  <2> QED BY <1>1, <2>1
    DEF Backed, EndHolds, Frozen, Covers, QueuedOwn, RunningIsQueued, Emptied, Holding
<1>5. CASE Recover
  <2>1. \A r \in Runners : refl[r].pc \in {"idle", "done"}
    BY <1>1, <1>5 DEF Recover, Exclusive
  <2>2. UNCHANGED refl
    BY <1>5 DEF Recover
  <2> QED BY <1>1, <2>1, <2>2
    DEF Backed, EndHolds, Frozen, Covers, QueuedOwn, RunningIsQueued, Holding
<1>6. ASSUME NEW s \in Sids, CatchUp(s) PROVE Backed'
  <2>1. /\ refl'[Boot].pc = "running" /\ refl'[Boot].sid = s /\ refl'[Boot].tr = pending[s]
        /\ \A u \in Runners \ {Boot} : refl'[u] = refl[u]
    BY <1>6, CatchUpSet
  <2>2. UNCHANGED <<session, pending, claimed>> /\ pending[s] # None
    BY <1>6 DEF CatchUp, Queued, store
  <2>3. EndHolds' /\ Frozen' /\ Covers' /\ QueuedOwn'
    BY <1>1, <2>1, <2>2 DEF Backed, EndHolds, Frozen, Covers, QueuedOwn
  <2>4. RunningIsQueued'
    BY <1>1, <2>1, <2>2 DEF Backed, RunningIsQueued
  <2> QED BY <2>3, <2>4 DEF Backed
<1>7. CASE CatchUpReflected \/ CatchUpRaise
  <2>1. Emptied(refl'[Boot]) /\ \A u \in Runners \ {Boot} : refl'[u] = refl[u]
    BY <1>1, <1>7, OverSet DEF CatchUpReflected, CatchUpRaise
  <2>2. UNCHANGED <<session, claimed>> /\ Reflecting(Boot)
    BY <1>7 DEF CatchUpReflected, CatchUpRaise, store, Reflecting, Raises
  <2>3. refl[Watcher].pc # "queued"
    BY <1>1, <2>2 DEF Exclusive, Reflecting, Handing
  <2>4. pending' = pending \/ \A s \in Sids \ {refl[Boot].sid} : pending'[s] = pending[s]
    BY <1>1, <1>7, PendingSet DEF CatchUpReflected, CatchUpRaise
  <2> QED BY <1>1, <2>1, <2>2, <2>3, <2>4, BackedStop DEF Emptied, Exclusive
<1>8. CASE Serve
  BY <1>8, BackedFrame DEF Serve, store
<1>9. ASSUME NEW r \in Runners, ReflectApply(r) PROVE Backed'
  <2>1. /\ refl[r].pc = "running" /\ refl'[r].pc = "applied"
        /\ refl'[r].sid = refl[r].sid /\ refl'[r].tr = refl[r].tr
        /\ \A u \in Runners \ {r} : refl'[u] = refl[u]
    BY <1>9, PcSet DEF ReflectApply
  <2>2. UNCHANGED <<session, pending, claimed>>
    BY <1>9 DEF ReflectApply, store
  <2>3. EndHolds' /\ Frozen'
    BY <1>1, <2>1, <2>2 DEF Backed, EndHolds, Frozen, Holding
  <2>4. Covers'
    BY <1>1, <2>1, <2>2 DEF Backed, Covers, Holding
  <2>5. QueuedOwn' /\ RunningIsQueued'
    BY <1>1, <2>1, <2>2 DEF Backed, QueuedOwn, RunningIsQueued
  <2> QED BY <2>3, <2>4, <2>5 DEF Backed
<1> QED
  BY <1>2, <1>3, <1>4, <1>5, <1>6, <1>7, <1>8, <1>9 DEF BootStep

LEMMA BackedNext ==
  TypeInv /\ Exclusive /\ Numbered /\ Serial /\ Growing /\ Backed /\ [Next]_vars => Backed'
<1> SUFFICES ASSUME TypeInv, Exclusive, Numbered, Serial, Growing, Backed, [Next]_vars
             PROVE  Backed'
  OBVIOUS
<1>1. CASE UNCHANGED vars
  BY <1>1, BackedFrame DEF vars
<1> QED
  BY <1>1, BackedChat, BackedEndOpen, BackedEndSnapshot, BackedEnd, BackedWatch, BackedServer DEF Next

LEMMA BackedInit == Init => Backed
<1> SUFFICES ASSUME Init PROVE Backed
  OBVIOUS
<1>1. \A r \in Runners : refl[r].pc = "idle"
  BY DEF Init, NoRefl
<1> QED
  BY <1>1, RunnersType
  DEF Backed, EndHolds, Frozen, Covers, QueuedOwn, RunningIsQueued, Holding

\* What every run of the server satisfies, however the session is ended.
Base == TypeInv /\ Exclusive /\ Numbered /\ Serial /\ NoFile /\ Growing /\ Backed

LEMMA BaseHolds ==
  ASSUME MaxFault = 0
  PROVE  Spec => []Base
<1>1. Init => Base
  BY TypeInit, ExclusiveInit, NumberedInit, SerialInit, GrowingInit, BackedInit DEF Base
<1>2. Base /\ [Next]_vars => Base'
  BY TypeNext, ExclusiveNext, NumberedNext, SerialNext, NoFileNext, GrowingNext, BackedNext DEF Base
<1> QED
  BY <1>1, <1>2, PTL DEF Spec

\* While run_reflection works on a transcript, every turn of it is in the pending
\* file a crash would leave behind: the end handler, the watcher and the start-up
\* pass never write less over it and never delete it under one another, even when
\* pages end one session together and while a turn is streaming.  Only the fallback
\* file can undo it, so the row's writes are taken to succeed.
THEOREM TranscriptBacked ==
  ASSUME MaxFault = 0
  PROVE  Spec => []RunningIsQueued
<1>1. Base => RunningIsQueued
  BY DEF Base, Backed
<1> QED
  BY <1>1, BaseHolds, PTL

(***************************************************************************)
(* No turn is folded in twice                                              *)
(*                                                                         *)
(* Without a crash.  A turn that was not carried belongs to one session: the *)
(* live session, the copies of streaming turns and the transcripts that hold *)
(* it carry one id.  So whoever reflects on it a second time would have to    *)
(* claim that id a second time.                                            *)
(***************************************************************************)

Copying(c) == c.pc \in {"thinking", "answered"}

\* Session s, the copy some turn took of it, or a transcript taken from it, holds t.
HeldIn(t, s) ==
  \/ session # None /\ session.sid = s /\ t \in Content(session)
  \/ \E u \in Turns : Copying(chat[u]) /\ chat[u].from = s /\ t \in Content(chat[u])
  \/ \E r \in Runners : refl[r].sid = s /\ t \in TurnsIn(refl[r].tr)

\* Claimed, and not folded in yet.
About == {"claimed", "popped", "unlinked", "deleted", "running"}

\* A turn whose reply is not complete is nowhere.
Unborn ==
  \A t \in Turns \ carried : chat[t].pc \in {"new", "thinking"} =>
    reflected[t] = 0 /\ \A s : ~HeldIn(t, s)

OneHome ==
  \A t \in Turns \ carried : \A s1, s2 : HeldIn(t, s1) /\ HeldIn(t, s2) => s1 = s2

Once ==
  \A t \in Turns \ carried : reflected[t] # 0 =>
    /\ reflected[t] = 1
    /\ \A s : HeldIn(t, s) => s \in claimed
    /\ \A r \in Runners : refl[r].pc \in About => t \notin TurnsIn(refl[r].tr)

Single == server = "up" /\ Unborn /\ OneHome /\ Once

\* What is spent only grows, and a crash is counted.
LEMMA SpentOnce ==
  ASSUME [Next]_vars
  PROVE  UNCHANGED spent \/ \E c \in Costs : Spend(c)
<1>1. ASSUME NEW logged, GetOrCreate(logged) PROVE UNCHANGED spent \/ Spend("outreach")
  BY <1>1 DEF GetOrCreate
<1>2. ASSUME NEW r, Raises(r) PROVE Spend("raise")
  BY <1>2 DEF Raises
<1>3. CASE StartSession
  BY <1>1, <1>3 DEF StartSession, Costs
<1>4. ASSUME NEW t \in Turns, ChatRequest(t) \/ ChatFail(t) \/ ChatStep(t)
      PROVE  UNCHANGED spent \/ \E c \in Costs : Spend(c)
  <2>1. CASE ChatRequest(t)
    BY <1>1, <2>1 DEF ChatRequest, Costs
  <2>2. CASE ChatWrite(t)
    BY <2>2 DEF ChatWrite, Costs
  <2>3. CASE ChatFail(t) \/ ChatReply(t) \/ ChatSilent(t) \/ ChatInstall(t) \/ ChatSnapshot(t)
    BY <2>3 DEF ChatFail, ChatReply, ChatSilent, ChatInstall, ChatSnapshot
  <2> QED BY <1>4, <2>1, <2>2, <2>3 DEF ChatStep
<1>5. ASSUME NEW e \in Enders, EndOpen(e) \/ EndRaise(e) \/ EndStep(e)
      PROVE  UNCHANGED spent \/ \E c \in Costs : Spend(c)
  <2>1. CASE EndOpen(e) \/ EndReopen(e)
    BY <1>1, <2>1 DEF EndOpen, EndReopen, Costs
  <2>2. CASE EndRaise(e) \/ EndDelete(e)
    BY <1>2, <2>2 DEF EndRaise, EndDelete, DropRow, Costs
  <2>3. CASE EndSnapshot(e) \/ EndClaim(e) \/ EndPop(e) \/ Unlink(e) \/ EndSave(e) \/ EndReflected(e)
    BY <2>3 DEF EndSnapshot, EndClaim, EndPop, Unlink, EndSave, EndReflected
  <2> QED BY <1>5, <2>1, <2>2, <2>3 DEF EndStep
<1>6. ASSUME NEW r \in Runners, ReflectApply(r)
      PROVE  UNCHANGED spent \/ \E c \in Costs : Spend(c)
  BY <1>6 DEF ReflectApply, Costs
<1>7. CASE WatchRaise \/ WatchStep
  BY <1>2, <1>7 DEF WatchRaise, WatchStep, WatchSnapshot, WatchQueue, WatchClaim, WatchReflected,
                    WatchPop, Unlink, WatchCleanup, DropRow, Costs
<1>8. CASE BecomeIdle \/ Crash \/ CatchUpRaise \/ BootStep
  BY <1>2, <1>8 DEF BecomeIdle, Crash, CatchUpRaise, BootStep, Recover, CatchUp, CatchUpReflected,
                    Serve, Costs
<1>9. CASE UNCHANGED vars
  BY <1>9 DEF vars
<1> QED
  BY <1>3, <1>4, <1>5, <1>6, <1>7, <1>8, <1>9 DEF Next

LEMMA NoCrashYet ==
  ASSUME TypeInv, [Next]_vars, spent'["crash"] = 0
  PROVE  spent["crash"] = 0 /\ ~Crash
<1>1. spent \in [Costs -> Nat]
  BY DEF TypeInv, TypeOK, Types
<1>2. ASSUME NEW c \in Costs, Spend(c)
      PROVE  spent'["crash"] = IF c = "crash" THEN spent["crash"] + 1 ELSE spent["crash"]
  BY <1>1, <1>2 DEF Spend, Costs
<1>3. spent["crash"] \in Nat
  BY <1>1 DEF Costs
<1>4. ~Spend("crash")
  BY <1>2, <1>3 DEF Costs
<1> QED
  BY <1>2, <1>3, <1>4, SpentOnce DEF Crash

\* A step after which a turn is held nowhere that it was not before.
LEMMA SingleFrame ==
  ASSUME Single, carried \subseteq carried', claimed \subseteq claimed',
         UNCHANGED <<reflected, server>>,
         \A t \in Turns \ carried' : \A s : HeldIn(t, s)' => HeldIn(t, s),
         \A t \in Turns : chat'[t].pc \in {"new", "thinking"} => chat[t].pc \in {"new", "thinking"},
         \A r \in Runners : refl'[r].pc \in About =>
           refl[r].pc \in About /\ refl'[r].tr = refl[r].tr
  PROVE  Single'
<1>1. Unborn'
  BY DEF Single, Unborn
<1>2. OneHome'
  BY DEF Single, OneHome
<1>3. Once'
  <2> SUFFICES ASSUME NEW t \in Turns \ carried', reflected[t] # 0
               PROVE  /\ reflected[t] = 1
                      /\ \A s : HeldIn(t, s)' => s \in claimed'
                      /\ \A r \in Runners : refl'[r].pc \in About => t \notin TurnsIn(refl'[r].tr)
    BY DEF Once
  <2>1. /\ reflected[t] = 1
        /\ \A s : HeldIn(t, s) => s \in claimed
        /\ \A r \in Runners : refl[r].pc \in About => t \notin TurnsIn(refl[r].tr)
    BY DEF Single, Once
  <2>2. \A s : HeldIn(t, s)' => s \in claimed'
    BY <2>1
  <2>3. \A r \in Runners : refl'[r].pc \in About => t \notin TurnsIn(refl'[r].tr)
    BY <2>1
  <2> QED BY <2>1, <2>2, <2>3
<1> QED
  BY <1>1, <1>2, <1>3 DEF Single

\* The session is found or made: it holds no turn that it did not hold.
LEMMA HeldOpen ==
  ASSUME TypeInv, NoFile, \E logged \in History : GetOrCreate(logged)
  PROVE  \A t, s : session' # None /\ session'.sid = s /\ t \in Content(session') => HeldIn(t, s)
<1>1. UNCHANGED session \/ Content(session') = {}
  BY Opened DEF NoFile, Persisted
<1> QED
  BY <1>1 DEF HeldIn

LEMMA SingleChat ==
  ASSUME TypeInv, NoFile, Single, NEW t \in Turns, ChatRequest(t) \/ ChatFail(t) \/ ChatStep(t)
  PROVE  Single'
<1>1. UNCHANGED <<refl, claimed, reflected, server>> /\ carried \subseteq carried'
  BY ChatInstallSet
  DEF ChatRequest, ChatFail, ChatStep, ChatReply, ChatSilent, ChatInstall, ChatSnapshot, ChatWrite, ghosts
<1>2. CASE ChatRequest(t)
  <2>1. /\ chat[t].pc = "new" /\ chat'[t].pc = "thinking"
        /\ Content(chat'[t]) = Content(session') /\ chat'[t].from = session'.sid
        /\ session' # None /\ \A u \in Turns \ {t} : chat'[u] = chat[u]
    BY <1>2, ChatRequestSet, OpeningSteps, Opened DEF ChatRequest, Content
  <2>2. \A v, s : session'.sid = s /\ v \in Content(session') => HeldIn(v, s)
    BY <1>2, <2>1, OpeningSteps, HeldOpen
  <2>3. ASSUME NEW v \in Turns, NEW s, HeldIn(v, s)' PROVE HeldIn(v, s)
    BY <1>1, <2>1, <2>2, <2>3 DEF HeldIn
  <2> QED BY <1>1, <2>1, <2>3, SingleFrame
<1>3. CASE ChatFail(t) \/ ChatSnapshot(t)
  <2>1. /\ ~Copying(chat'[t]) /\ chat'[t].pc # "new" /\ UNCHANGED session
        /\ \A u \in Turns \ {t} : chat'[u] = chat[u]
    BY <1>3, ChatOverSet, ChatSnapshotSet DEF ChatFail, ChatSnapshot, Copying, store
  <2>2. ASSUME NEW v \in Turns, NEW s, HeldIn(v, s)' PROVE HeldIn(v, s)
    BY <1>1, <2>1, <2>2 DEF HeldIn
  <2> QED BY <1>1, <2>1, <2>2, SingleFrame DEF Copying
<1>4. CASE ChatWrite(t)
  <2>1. /\ ~Copying(chat'[t]) /\ chat'[t].pc # "new"
        /\ (session' # None => session # None /\ session'.sid = session.sid
                               /\ Content(session') = Content(session))
        /\ \A u \in Turns \ {t} : chat'[u] = chat[u]
    BY <1>4, ChatWriteSet DEF Copying, Content
  <2>2. ASSUME NEW v \in Turns, NEW s, HeldIn(v, s)' PROVE HeldIn(v, s)
    BY <1>1, <2>1, <2>2 DEF HeldIn
  <2> QED BY <1>1, <2>1, <2>2, SingleFrame DEF Copying
<1>5. CASE ChatInstall(t)
  <2>1. /\ chat[t].pc = "answered" /\ ~Copying(chat'[t]) /\ chat'[t].pc # "new"
        /\ (session' # None => session # None /\ session'.sid = session.sid
              /\ Content(session') = Content(chat[t])
              /\ (chat[t].from # session.sid => Content(chat[t]) \subseteq carried'))
        /\ \A u \in Turns \ {t} : chat'[u] = chat[u]
    BY <1>5, ChatInstallSet DEF ChatInstall, Copying
  <2>2. ASSUME NEW v \in Turns \ carried', NEW s, HeldIn(v, s)' PROVE HeldIn(v, s)
    BY <1>1, <2>1, <2>2 DEF HeldIn, Copying
  <2> QED BY <1>1, <2>1, <2>2, SingleFrame DEF Copying
<1>6. CASE ChatReply(t) \/ ChatSilent(t)
  <2>1. /\ chat[t].pc = "thinking" /\ chat'[t].pc = "answered" /\ UNCHANGED <<session, carried>>
        /\ chat'[t].from = chat[t].from /\ Content(chat'[t]) = Content(chat[t]) \cup {t}
        /\ \A u \in Turns \ {t} : chat'[u] = chat[u]
    BY <1>6, ChatAnswerSet DEF ChatReply, ChatSilent, store, ghosts
  <2>2. ASSUME NEW v \in Turns, v # t, NEW s, HeldIn(v, s)' PROVE HeldIn(v, s)
    BY <1>1, <2>1, <2>2 DEF HeldIn, Copying
  <2>3. ASSUME t \notin carried, NEW s, HeldIn(t, s)' PROVE s = chat[t].from
    BY <1>1, <2>1, <2>3 DEF HeldIn, Single, Unborn, Copying
  <2>4. t \notin carried => reflected[t] = 0
    BY <2>1 DEF Single, Unborn
  <2>5. Unborn'
    BY <1>1, <2>1, <2>2 DEF Single, Unborn
  <2>6. OneHome'
    BY <1>1, <2>1, <2>2, <2>3 DEF Single, OneHome
  <2>7. Once'
    BY <1>1, <2>1, <2>2, <2>4 DEF Single, Once
  <2> QED BY <1>1, <2>5, <2>6, <2>7 DEF Single
<1> QED
  BY <1>2, <1>3, <1>4, <1>5, <1>6 DEF ChatStep

\* A runner that keeps or drops its transcript holds nothing new.
LEMMA SingleRunner ==
  ASSUME TypeInv, Single, NEW r \in Runners,
         \A u \in Runners \ {r} : refl'[u] = refl[u],
         \/ Emptied(refl'[r])
         \/ /\ refl'[r].sid = refl[r].sid /\ refl'[r].tr = refl[r].tr
            /\ refl'[r].pc \in About => refl[r].pc \in About
         \/ /\ session # None /\ refl'[r].sid = session.sid
            /\ refl'[r].tr = Fresh(session.hist, session.seed) /\ refl'[r].pc \notin About,
         UNCHANGED <<chat, carried, claimed, reflected, server>>,
         \A t, s : session' # None /\ session'.sid = s /\ t \in Content(session') => HeldIn(t, s)
  PROVE  Single'
<1>1. ASSUME NEW t \in Turns, NEW s, NEW u \in Runners, refl'[u].sid = s, t \in TurnsIn(refl'[u].tr)
      PROVE  HeldIn(t, s)
  <2>1. CASE u # r
    BY <1>1, <2>1 DEF HeldIn
  <2>2. CASE u = r
    BY <1>1, <2>2, NothingIn DEF HeldIn, Content, Emptied
  <2> QED BY <2>1, <2>2
<1>2. ASSUME NEW t \in Turns, NEW s, HeldIn(t, s)' PROVE HeldIn(t, s)
  <2>1. CASE \E u \in Runners : refl'[u].sid = s /\ t \in TurnsIn(refl'[u].tr)
    BY <1>1, <2>1
  <2>2. CASE \E u \in Turns : Copying(chat[u]) /\ chat[u].from = s /\ t \in Content(chat[u])
    BY <2>2 DEF HeldIn
  <2>3. CASE session' # None /\ session'.sid = s /\ t \in Content(session')
    BY <2>3
  <2> QED BY <1>2, <2>1, <2>2, <2>3 DEF HeldIn
<1>3. \A u \in Runners : refl'[u].pc \in About => refl[u].pc \in About /\ refl'[u].tr = refl[u].tr
  BY DEF Emptied, About
<1> QED
  BY <1>2, <1>3, SingleFrame

\* A claim: the session was not in the claim set, so nothing of it is folded in.
LEMMA SingleClaim ==
  ASSUME TypeInv, Single, NEW r \in Runners, NEW pc, SetPc(r, pc), refl[r].sid \notin claimed,
         claimed' = claimed \cup {refl[r].sid},
         UNCHANGED <<session, chat, carried, reflected, server>>
  PROVE  Single'
<1>1. /\ refl'[r].sid = refl[r].sid /\ refl'[r].tr = refl[r].tr
      /\ \A u \in Runners \ {r} : refl'[u] = refl[u]
  BY PcSet
<1>2. ASSUME NEW t \in Turns, NEW s, HeldIn(t, s)' PROVE HeldIn(t, s)
  BY <1>1, <1>2 DEF HeldIn
<1>3. Unborn' /\ OneHome'
  BY <1>2 DEF Single, Unborn, OneHome
<1>4. ASSUME NEW t \in Turns \ carried, reflected[t] # 0 PROVE t \notin TurnsIn(refl[r].tr)
  BY <1>4 DEF Single, Once, HeldIn
<1>5. Once'
  <2> SUFFICES ASSUME NEW t \in Turns \ carried, reflected[t] # 0
               PROVE  /\ reflected[t] = 1
                      /\ \A s : HeldIn(t, s)' => s \in claimed'
                      /\ \A u \in Runners : refl'[u].pc \in About => t \notin TurnsIn(refl'[u].tr)
    BY DEF Once
  <2>1. /\ reflected[t] = 1
        /\ \A s : HeldIn(t, s) => s \in claimed
        /\ \A u \in Runners : refl[u].pc \in About => t \notin TurnsIn(refl[u].tr)
    BY DEF Single, Once
  <2>2. \A s : HeldIn(t, s)' => s \in claimed'
    BY <1>2, <2>1
  <2>3. \A u \in Runners : refl'[u].pc \in About => t \notin TurnsIn(refl'[u].tr)
    BY <1>1, <1>4, <2>1
  <2> QED BY <2>1, <2>2, <2>3
<1> QED
  BY <1>3, <1>5 DEF Single

LEMMA SingleApply ==
  ASSUME TypeInv, Exclusive, Single, NEW r \in Runners, r # Boot, ReflectApply(r)
  PROVE  Single'
<1>1. /\ refl[r].pc = "running" /\ refl'[r].pc = "applied"
      /\ refl'[r].sid = refl[r].sid /\ refl'[r].tr = refl[r].tr
      /\ \A u \in Runners \ {r} : refl'[u] = refl[u]
  BY PcSet DEF ReflectApply
<1>2. UNCHANGED <<session, chat, claimed, carried, server>>
  BY DEF ReflectApply, store
<1>3. ASSUME NEW t \in Turns, NEW s, HeldIn(t, s)' PROVE HeldIn(t, s)
  BY <1>1, <1>2, <1>3 DEF HeldIn
<1>4. CASE UNCHANGED reflected
  BY <1>1, <1>2, <1>3, <1>4, SingleFrame DEF About
<1>5. CASE reflected' = [t \in Turns |->
                          IF t \in TurnsIn(refl[r].tr) THEN reflected[t] + 1 ELSE reflected[t]]
  <2>1. refl[r].sid \in claimed
    BY <1>1 DEF Exclusive, Reflecting
  <2>2. ASSUME NEW t \in Turns \ carried, t \in TurnsIn(refl[r].tr)
        PROVE  /\ reflected[t] = 0 /\ reflected'[t] = 1 /\ HeldIn(t, refl[r].sid)
               /\ chat[t].pc \notin {"new", "thinking"}
    <3>1. HeldIn(t, refl[r].sid)
      BY <2>2 DEF HeldIn
    <3>2. reflected[t] = 0 /\ chat[t].pc \notin {"new", "thinking"}
      BY <1>1, <2>2, <3>1 DEF Single, Once, Unborn, About
    <3> QED BY <1>5, <2>2, <3>1, <3>2
  <2>3. \A t \in Turns \ carried : t \notin TurnsIn(refl[r].tr) => reflected'[t] = reflected[t]
    BY <1>5
  <2>4. Unborn'
    BY <1>2, <1>3, <2>2, <2>3 DEF Single, Unborn
  <2>5. OneHome'
    BY <1>2, <1>3 DEF Single, OneHome
  <2>6. ASSUME NEW t \in Turns \ carried, reflected'[t] # 0
        PROVE  /\ reflected'[t] = 1
               /\ \A s : HeldIn(t, s)' => s \in claimed
               /\ \A u \in Runners : refl'[u].pc \in About => t \notin TurnsIn(refl'[u].tr)
    <3>1. CASE t \in TurnsIn(refl[r].tr)
      <4>1. \A s : HeldIn(t, s) => s = refl[r].sid
        BY <2>2, <3>1 DEF Single, OneHome
      <4>2. \A s : HeldIn(t, s)' => s \in claimed
        BY <1>3, <2>1, <4>1
      <4>3. ASSUME NEW u \in Runners, refl'[u].pc \in About, t \in TurnsIn(refl'[u].tr) PROVE FALSE
        <5>1. u # r /\ refl'[u] = refl[u]
          BY <1>1, <4>3 DEF About
        <5>2. refl[u].sid = refl[r].sid
          BY <4>1, <4>3, <5>1 DEF HeldIn
        <5> QED BY <1>1, <4>3, <5>1, <5>2
                DEF Exclusive, NoConcurrentReflection, Reflecting, Handing, About
      <4> QED BY <2>2, <3>1, <4>2, <4>3
    <3>2. CASE t \notin TurnsIn(refl[r].tr)
      <4>1. /\ reflected'[t] = 1
            /\ \A s : HeldIn(t, s) => s \in claimed
            /\ \A u \in Runners : refl[u].pc \in About => t \notin TurnsIn(refl[u].tr)
        BY <2>3, <2>6, <3>2 DEF Single, Once
      <4>2. \A u \in Runners : refl'[u].pc \in About => t \notin TurnsIn(refl'[u].tr)
        BY <1>1, <3>2, <4>1
      <4> QED BY <1>3, <4>1, <4>2
    <3> QED BY <3>1, <3>2
  <2>7. Once'
    BY <1>2, <2>6 DEF Once
  <2> QED BY <1>2, <2>4, <2>5, <2>7 DEF Single
<1> QED
  BY <1>4, <1>5 DEF ReflectApply

LEMMA SingleEnd ==
  ASSUME TypeInv, NoFile, Single, NEW e \in Enders, EndOpen(e) \/ EndRaise(e) \/ EndStep(e)
  PROVE  Single'
<1>0. e \in Runners
  BY RunnersType
<1>1. CASE EndOpen(e) \/ EndReopen(e)
  <2>1. /\ \A u \in Runners \ {e} : refl'[u] = refl[u]
        /\ \/ Emptied(refl'[e])
           \/ refl'[e].sid = refl[e].sid /\ refl'[e].tr = refl[e].tr /\ refl'[e].pc = "opened"
    BY <1>0, <1>1, OverSet, PcSet DEF EndOpen, EndReopen
  <2>2. \A t, s : session' # None /\ session'.sid = s /\ t \in Content(session') => HeldIn(t, s)
    BY <1>1, OpeningSteps, HeldOpen
  <2> QED BY <1>0, <1>1, <2>1, <2>2, SingleRunner DEF EndOpen, EndReopen, ghosts, About
<1>2. CASE EndRaise(e) \/ EndSnapshot(e)
  <2>1. \A t, s : session' # None /\ session'.sid = s /\ t \in Content(session') => HeldIn(t, s)
    BY <1>2 DEF EndRaise, EndSnapshot, store, HeldIn
  <2>2. /\ \A u \in Runners \ {e} : refl'[u] = refl[u]
        /\ \/ Emptied(refl'[e])
           \/ /\ session # None /\ refl'[e].sid = session.sid
              /\ refl'[e].tr = Fresh(session.hist, session.seed) /\ refl'[e].pc = "snapped"
    BY <1>0, <1>2, OverSet, EndSnapshotSet DEF EndRaise
  <2> QED BY <1>0, <1>2, <2>1, <2>2, SingleRunner DEF EndRaise, EndSnapshot, ghosts, About
<1>3. CASE EndClaim(e) /\ Claimable(e)
  BY <1>0, <1>3, SingleClaim DEF EndClaim, Claimable, store, ghosts
<1>4. CASE \/ EndClaim(e) /\ ~Claimable(e)
           \/ EndPop(e) \/ Unlink(e) \/ EndDelete(e) \/ EndSave(e) \/ EndReflected(e)
  <2>1. /\ \A u \in Runners \ {e} : refl'[u] = refl[u]
        /\ refl'[e].sid = refl[e].sid /\ refl'[e].tr = refl[e].tr
        /\ refl'[e].pc \in About => refl[e].pc \in About
    BY <1>0, <1>4, PcSet DEF EndClaim, EndPop, Unlink, EndDelete, EndSave, EndReflected, About
  <2>2. session' = session \/ session' = None
    BY <1>4 DEF EndClaim, EndPop, Unlink, EndDelete, EndSave, EndReflected, store
  <2>3. \A t, s : session' # None /\ session'.sid = s /\ t \in Content(session') => HeldIn(t, s)
    BY <2>2 DEF HeldIn
  <2>4. UNCHANGED <<chat, carried, claimed, reflected, server>>
    BY <1>4 DEF EndClaim, EndPop, Unlink, EndDelete, EndSave, EndReflected, ghosts
  <2> QED BY <1>0, <2>1, <2>3, <2>4, SingleRunner
<1> QED
  BY <1>1, <1>2, <1>3, <1>4 DEF EndStep

LEMMA SingleWatch ==
  ASSUME TypeInv, Exclusive, Single, WatchRaise \/ WatchStep
  PROVE  Single'
<1>0. Watcher \in Runners /\ refl[Watcher].pc # "popped"
  BY RunnersType DEF Exclusive, PcOK
<1>1. session' = session \/ session' = None
  BY DEF WatchRaise, WatchStep, WatchSnapshot, WatchQueue, WatchClaim, WatchReflected, WatchPop,
         Unlink, WatchCleanup, store
<1>2. \A t, s : session' # None /\ session'.sid = s /\ t \in Content(session') => HeldIn(t, s)
  BY <1>1 DEF HeldIn
<1>3. CASE WatchClaim /\ Claimable(Watcher)
  BY <1>0, <1>3, SingleClaim DEF WatchClaim, Claimable, store, ghosts
<1>4. CASE ~(WatchClaim /\ Claimable(Watcher))
  <2>1. UNCHANGED <<chat, carried, claimed, reflected, server>>
    BY <1>4 DEF WatchRaise, WatchStep, WatchSnapshot, WatchQueue, WatchClaim, WatchReflected, WatchPop,
                Unlink, WatchCleanup, ghosts
  <2>2. /\ \A u \in Runners \ {Watcher} : refl'[u] = refl[u]
        /\ \/ Emptied(refl'[Watcher])
           \/ /\ refl'[Watcher].sid = refl[Watcher].sid /\ refl'[Watcher].tr = refl[Watcher].tr
              /\ refl'[Watcher].pc \in About => refl[Watcher].pc \in About
           \/ /\ session # None /\ refl'[Watcher].sid = session.sid
              /\ refl'[Watcher].tr = Fresh(session.hist, session.seed)
              /\ refl'[Watcher].pc \notin About
    <3>1. CASE WatchSnapshot
      BY <3>1, WatchSnapshotSet DEF WatchSnapshot, About
    <3>2. CASE WatcherIdle
      BY <1>0, <3>2, OverSet DEF WatcherIdle
    <3>3. CASE \E pc \in {"queued", "cleanup", "dropping", "dropped"} : SetPc(Watcher, pc)
      BY <1>0, <3>3, PcSet DEF About
    <3> QED
      BY <1>0, <1>4, <3>1, <3>2, <3>3
      DEF WatchRaise, WatchStep, WatchQueue, WatchClaim, WatchReflected, WatchPop, Unlink, WatchCleanup
  <2> QED BY <1>0, <1>2, <2>1, <2>2, SingleRunner
<1> QED
  BY <1>3, <1>4

LEMMA SingleNext == Base /\ Single /\ ~Crash /\ [Next]_vars => Single'
<1> SUFFICES ASSUME ~Crash, TypeInv, Exclusive, NoFile, Single, [Next]_vars PROVE Single'
  BY DEF Base
<1>1. ~Crash
  OBVIOUS
<1>2. ~CatchUpRaise /\ ~BootStep /\ refl[Boot].pc = "idle"
  <2>1. refl[Boot].pc = "idle"
    BY DEF Exclusive, Single
  <2> QED BY <2>1 DEF CatchUpRaise, BootStep, Recover, CatchUp, CatchUpReflected, Serve, Raises, Single
<1>3. CASE /\ UNCHANGED <<refl, chat, claimed, reflected, carried, server>>
           /\ \A t, s : session' # None /\ session'.sid = s /\ t \in Content(session') => HeldIn(t, s)
  <2>1. ASSUME NEW t \in Turns, NEW s, HeldIn(t, s)' PROVE HeldIn(t, s)
    BY <1>3, <2>1 DEF HeldIn
  <2> QED BY <1>3, <2>1, SingleFrame
<1>4. CASE StartSession
  BY <1>3, <1>4, OpeningSteps, HeldOpen DEF StartSession, ghosts
<1>5. CASE BecomeIdle
  <2>1. session # None /\ Content(session') = Content(session) /\ session'.sid = session.sid
    BY <1>5, BecomeIdleSet DEF Content
  <2>2. \A t, s : session' # None /\ session'.sid = s /\ t \in Content(session') => HeldIn(t, s)
    BY <2>1 DEF HeldIn
  <2> QED BY <1>3, <1>5, <2>2 DEF BecomeIdle, ghosts
<1>6. CASE UNCHANGED vars
  <2>1. \A t, s : session' # None /\ session'.sid = s /\ t \in Content(session') => HeldIn(t, s)
    BY <1>6 DEF HeldIn, vars
  <2> QED BY <1>3, <1>6, <2>1 DEF vars
<1>7. ASSUME NEW r \in Runners, ReflectApply(r) PROVE Single'
  BY <1>2, <1>7, SingleApply DEF ReflectApply
<1> QED
  BY <1>1, <1>2, <1>4, <1>5, <1>6, <1>7, SingleChat, SingleEnd, SingleWatch DEF Next

LEMMA SingleInit == Init => Single
<1> SUFFICES ASSUME Init PROVE Single
  OBVIOUS
<1>1. \A r \in Runners : refl[r].pc = "idle" /\ TurnsIn(refl[r].tr) = {}
  BY NothingIn DEF Init, NoRefl
<1>2. \A t \in Turns : chat[t].pc = "new" /\ reflected[t] = 0
  BY DEF Init, NoChat
<1>3. \A t, s : ~HeldIn(t, s)
  BY <1>1, <1>2 DEF Init, HeldIn, Copying
<1> QED
  BY <1>2, <1>3 DEF Init, Single, Unborn, OneHome, Once

\* It holds as long as the process has not died.
SingleSoFar == spent["crash"] = 0 => Single

\* The seed slice and the claim set work together.  If every write of the row succeeds,
\* then until the first crash a turn is folded in twice only if it was carried, into a
\* session its copy was not taken from; and this although the end handlers and the watcher
\* may each hold a transcript with that turn, whoever overlaps with whom.
THEOREM FoldedOnce ==
  ASSUME MaxFault = 0
  PROVE  Spec => []ReflectedOnce
<1>1. Init => SingleSoFar
  BY SingleInit DEF SingleSoFar
<1>2. Base /\ SingleSoFar /\ [Next]_vars => SingleSoFar'
  <2> SUFFICES ASSUME Base, SingleSoFar, [Next]_vars, spent'["crash"] = 0 PROVE Single'
    BY DEF SingleSoFar
  <2>1. spent["crash"] = 0 /\ ~Crash
    BY NoCrashYet DEF Base
  <2> QED BY <2>1, SingleNext DEF SingleSoFar
<1>3. Base /\ SingleSoFar => ReflectedOnce
  <2> SUFFICES ASSUME TypeInv, Single, NEW t \in Turns, t \notin carried PROVE reflected[t] <= 1
    BY DEF Base, ReflectedOnce, SingleSoFar
  <2>1. reflected[t] \in Nat
    BY DEF TypeInv, TypeOK, Types
  <2> QED BY <2>1 DEF Single, Once
<1> QED
  BY <1>1, <1>2, <1>3, BaseHolds, PTL DEF Spec


(***************************************************************************)
(* No answered turn is lost                                                *)
(*                                                                         *)
(* When the clients leave turns and the beginnings of end requests apart, and*)
(* the database takes every write.  The strengthening follows an owed turn    *)
(* from the row and the live session, through the transcripts the watcher and*)
(* the end handler carry, into the pending queue, and says what makes each    *)
(* overwriting and each deletion harmless.  It has four layers: whose the row *)
(* and the session are, what the row and the transcripts hold of the session, *)
(* what the pending files hold, and where an owed turn is.                   *)
(***************************************************************************)

\* The rest of delete_session, after the session has left the memory.
Removing == {"popped", "unlinked", "dropping", "dropped"}
Deleting == \E r \in Runners : refl[r].pc \in Removing

\* A step of one runner.
Alone(r) == \A u \in Runners \ {r} : refl'[u] = refl[u]
Stays(r) == refl'[r].sid = refl[r].sid /\ refl'[r].tr = refl[r].tr /\ refl'[r].la = refl[r].la

LEMMA EndMoves ==
  ASSUME TypeInv, NEW e \in Enders
  PROVE  /\ EndClaim(e) => Alone(e) /\ Stays(e) /\ refl[e].pc = "snapped"
                           /\ refl'[e].pc = IF Claimable(e) THEN "claimed" ELSE "unclaimed"
         /\ EndPop(e) => Alone(e) /\ Stays(e) /\ refl[e].pc \in {"claimed", "unclaimed"}
                         /\ refl'[e].pc = IF refl[e].pc = "claimed" THEN "popped" ELSE "dropping"
         /\ Unlink(e) => Alone(e) /\ Stays(e) /\ refl[e].pc \in {"popped", "dropping"}
                         /\ refl'[e].pc = IF refl[e].pc = "popped" THEN "unlinked" ELSE "dropped"
         /\ EndDelete(e) => Alone(e) /\ Stays(e) /\ refl[e].pc \in {"unlinked", "dropped"}
                         /\ refl'[e].pc = IF refl[e].pc = "unlinked" THEN "deleted" ELSE "closing"
         /\ EndSave(e) => Alone(e) /\ Stays(e) /\ refl[e].pc = "deleted" /\ refl'[e].pc = "running"
         /\ EndReflected(e) => Alone(e) /\ Stays(e) /\ refl[e].pc = "applied" /\ refl'[e].pc = "closing"
         /\ EndRaise(e) => Alone(e) /\ Emptied(refl'[e]) /\ refl[e].pc \in {"running", "applied"}
         /\ EndReopen(e) => Alone(e) /\ Emptied(refl'[e]) /\ refl[e].pc = "closing"
<1>1. e \in Runners
  BY RunnersType
<1>2. ASSUME NEW pc, SetPc(e, pc) PROVE Alone(e) /\ Stays(e) /\ refl'[e].pc = pc
  BY <1>1, <1>2, PcSet DEF Alone, Stays
<1>3. EndClaim(e) => SetPc(e, IF Claimable(e) THEN "claimed" ELSE "unclaimed") /\ refl[e].pc = "snapped"
  BY DEF EndClaim
<1>4. EndPop(e) => SetPc(e, IF refl[e].pc = "claimed" THEN "popped" ELSE "dropping")
                   /\ refl[e].pc \in {"claimed", "unclaimed"}
  BY DEF EndPop
<1>5. Unlink(e) => SetPc(e, IF refl[e].pc = "popped" THEN "unlinked" ELSE "dropped")
                   /\ refl[e].pc \in {"popped", "dropping"}
  BY DEF Unlink
<1>6. EndDelete(e) => SetPc(e, IF refl[e].pc = "unlinked" THEN "deleted" ELSE "closing")
                   /\ refl[e].pc \in {"unlinked", "dropped"}
  BY DEF EndDelete
<1>7. EndSave(e) => SetPc(e, "running") /\ refl[e].pc = "deleted"
  BY DEF EndSave
<1>8. EndReflected(e) => SetPc(e, "closing") /\ refl[e].pc = "applied"
  BY DEF EndReflected
<1>9. EndRaise(e) \/ EndReopen(e) => Alone(e) /\ Emptied(refl'[e])
  BY <1>1, OverSet DEF EndRaise, EndReopen, Alone
<1>10. (EndRaise(e) => refl[e].pc \in {"running", "applied"}) /\ (EndReopen(e) => refl[e].pc = "closing")
  BY DEF EndRaise, EndReopen, Raises
<1> QED
  BY <1>2, <1>3, <1>4, <1>5, <1>6, <1>7, <1>8, <1>9, <1>10

LEMMA WatchMoves ==
  ASSUME TypeInv
  PROVE  /\ WatchQueue => Alone(Watcher) /\ Stays(Watcher) /\ refl[Watcher].pc = "snapped"
                          /\ refl'[Watcher].pc = "queued"
         /\ WatchClaim => Alone(Watcher) /\ refl[Watcher].pc = "queued"
                          /\ IF Claimable(Watcher) THEN Stays(Watcher) /\ refl'[Watcher].pc = "running"
                                                   ELSE Emptied(refl'[Watcher]) /\ refl'[Watcher].pc = "idle"
         /\ WatchReflected => Alone(Watcher) /\ Stays(Watcher) /\ refl[Watcher].pc = "applied"
                          /\ refl'[Watcher].pc = "cleanup"
         /\ WatchRaise => Alone(Watcher) /\ Emptied(refl'[Watcher]) /\ refl'[Watcher].pc = "idle"
                          /\ refl[Watcher].pc \in {"running", "applied"}
         /\ WatchPop => Alone(Watcher) /\ refl[Watcher].pc = "cleanup"
                          /\ IF Stale THEN Stays(Watcher) /\ refl'[Watcher].pc = "dropping"
                                      ELSE Emptied(refl'[Watcher]) /\ refl'[Watcher].pc = "idle"
         /\ Unlink(Watcher) => Alone(Watcher) /\ Stays(Watcher)
                          /\ refl[Watcher].pc \in {"popped", "dropping"}
                          /\ refl'[Watcher].pc = IF refl[Watcher].pc = "popped" THEN "unlinked" ELSE "dropped"
         /\ WatchCleanup => Alone(Watcher) /\ Emptied(refl'[Watcher]) /\ refl'[Watcher].pc = "idle"
                          /\ refl[Watcher].pc = "dropped"
<1>1. Watcher \in Runners
  BY RunnersType
<1>2. ASSUME NEW pc, SetPc(Watcher, pc) PROVE Alone(Watcher) /\ Stays(Watcher) /\ refl'[Watcher].pc = pc
  BY <1>1, <1>2, PcSet DEF Alone, Stays
<1>3. ASSUME WatcherIdle
      PROVE  Alone(Watcher) /\ Emptied(refl'[Watcher]) /\ refl'[Watcher].pc = "idle"
  <2>1. refl' = [refl EXCEPT ![Watcher] = NoRefl] /\ NoRefl.pc = "idle"
    BY <1>3 DEF WatcherIdle, NoRefl
  <2>2. refl'[Watcher] = NoRefl
    BY <1>1, <2>1, ReflSet
  <2> QED BY <1>1, <2>1, <2>2, OverSet DEF Alone
<1>4. WatchQueue => SetPc(Watcher, "queued") /\ refl[Watcher].pc = "snapped"
  BY DEF WatchQueue
<1>5. WatchClaim => /\ refl[Watcher].pc = "queued"
                    /\ IF Claimable(Watcher) THEN SetPc(Watcher, "running") ELSE WatcherIdle
  BY DEF WatchClaim
<1>6. WatchReflected => SetPc(Watcher, "cleanup") /\ refl[Watcher].pc = "applied"
  BY DEF WatchReflected
<1>7. WatchRaise => WatcherIdle /\ refl[Watcher].pc \in {"running", "applied"}
  BY DEF WatchRaise, Raises
<1>8. WatchPop => /\ refl[Watcher].pc = "cleanup"
                  /\ IF Stale THEN SetPc(Watcher, "dropping") ELSE WatcherIdle
  BY DEF WatchPop
<1>9. Unlink(Watcher) => SetPc(Watcher, IF refl[Watcher].pc = "popped" THEN "unlinked" ELSE "dropped")
                   /\ refl[Watcher].pc \in {"popped", "dropping"}
  BY DEF Unlink
<1>10. WatchCleanup => WatcherIdle /\ refl[Watcher].pc = "dropped"
  BY DEF WatchCleanup
<1> QED
  BY <1>2, <1>3, <1>4, <1>5, <1>6, <1>7, <1>8, <1>9, <1>10

LEMMA OtherMoves ==
  ASSUME TypeInv, Exclusive
  PROVE  /\ \A r \in Runners : ReflectApply(r) =>
              Alone(r) /\ Stays(r) /\ refl[r].pc = "running" /\ refl'[r].pc = "applied"
         /\ CatchUpReflected \/ CatchUpRaise =>
              Alone(Boot) /\ Emptied(refl'[Boot]) /\ refl[Boot].pc \in {"running", "applied"}
              /\ server = "catchup"
         /\ \A s \in Sids : CatchUp(s) =>
              Alone(Boot) /\ refl[Boot].pc = "idle" /\ server = "catchup"
              /\ refl'[Boot].pc = "running" /\ refl'[Boot].sid = s /\ refl'[Boot].tr = pending[s]
<1>1. Boot \in Runners
  BY RunnersType
<1>2. ASSUME NEW r \in Runners, ReflectApply(r)
      PROVE  Alone(r) /\ Stays(r) /\ refl[r].pc = "running" /\ refl'[r].pc = "applied"
  BY <1>2, PcSet DEF ReflectApply, Alone, Stays
<1>3. ASSUME CatchUpReflected \/ CatchUpRaise
      PROVE  Alone(Boot) /\ Emptied(refl'[Boot]) /\ refl[Boot].pc \in {"running", "applied"}
             /\ server = "catchup"
  <2>1. refl' = [refl EXCEPT ![Boot] = NoRefl] /\ refl[Boot].pc \in {"running", "applied"}
    BY <1>3 DEF CatchUpReflected, CatchUpRaise, Raises
  <2> QED BY <1>1, <2>1, OverSet DEF Alone, Exclusive
<1>4. ASSUME NEW s \in Sids, CatchUp(s)
      PROVE  Alone(Boot) /\ refl[Boot].pc = "idle" /\ server = "catchup"
             /\ refl'[Boot].pc = "running" /\ refl'[Boot].sid = s /\ refl'[Boot].tr = pending[s]
  BY <1>4, CatchUpSet DEF CatchUp, Alone
<1> QED
  BY <1>2, <1>3, <1>4

\* What the callers of get_or_create_session find, and what they make.
LEMMA OpenFacts ==
  ASSUME Base, TypeInv', ~Overlap,
         StartSession \/ (\E t \in Turns : ChatRequest(t))
         \/ (\E e \in Enders : EndOpen(e) \/ EndReopen(e))
  PROVE  /\ server = "up" /\ UNCHANGED <<row, pending, claimed, server, ghosts>>
         /\ session' # None
         /\ \/ UNCHANGED session
            \/ /\ session = None /\ Content(session') = {}
               /\ pending[session'.sid] = None /\ (row # None => row.sid # session'.sid)
               /\ \A r \in Runners : refl[r].sid # session'.sid /\ session'.la > refl[r].la
         /\ \A r \in Runners :
              \/ refl'[r] = refl[r]
              \/ /\ r \in Enders /\ refl[r].pc \in {"idle", "closing"}
                 /\ refl'[r].pc \in {"opened", "done"}
         /\ \A t \in Turns :
              \/ chat'[t] = chat[t]
              \/ chat'[t].pc = "thinking" /\ Content(chat'[t]) = Content(session')
         /\ UNCHANGED chat \/ ((\A e \in Enders : refl[e].pc \notin EarlyPcs) /\ UNCHANGED refl)
         /\ (\A t \in Turns : ~Busy(chat[t])) \/ (UNCHANGED chat /\ \A e \in Enders : ~EndOpen(e))
<1>0. TypeInv /\ Exclusive /\ Numbered /\ NoFile
  BY DEF Base
<1>1. server = "up"
  <2>1. ASSUME NEW e \in Enders, EndReopen(e) PROVE server = "up"
    <3>1. e \in Runners \ {Boot} /\ refl[e].pc = "closing"
      BY <2>1, RunnersType, RunnersDistinct DEF EndReopen
    <3> QED BY <1>0, <3>1 DEF Exclusive
  <2> QED BY <2>1 DEF StartSession, ChatRequest, EndOpen, MayStart, MaySend
<1>2. UNCHANGED <<row, pending, claimed, server, ghosts>>
  BY DEF StartSession, ChatRequest, EndOpen, EndReopen
<1>3. session' # None /\
      (UNCHANGED session \/ (session = None /\ session'.sid = sidGen + 1 /\ session'.la = clock + 1
                             /\ Content(session') = {}))
  BY <1>0, OpeningSteps, Opened DEF NoFile, Persisted
<1>4. ASSUME session'.sid = sidGen + 1, session'.la = clock + 1
      PROVE  /\ pending[session'.sid] = None /\ (row # None => row.sid # session'.sid)
             /\ \A r \in Runners : refl[r].sid # session'.sid /\ session'.la > refl[r].la
  <2>1. /\ sidGen \in Int /\ clock \in Int
        /\ (row # None => row.sid \in Int)
        /\ \A r \in Runners : refl[r].sid \in Int /\ refl[r].la \in Int
    BY <1>0, Fields DEF ReflRec, RowRec, Sids
  <2>2. session'.sid \in Sids
    BY <1>3 DEF TypeInv, TypeOK, Types, LiveRec
  <2>3. pending[session'.sid] = None
    BY <1>0, <1>4, <2>1, <2>2 DEF Numbered
  <2> QED BY <1>0, <1>4, <2>1, <2>3 DEF Numbered, Old
<1>5. ASSUME NEW r \in Runners, refl'[r] # refl[r]
      PROVE  /\ r \in Enders /\ refl[r].pc \in {"idle", "closing"}
             /\ refl'[r].pc \in {"opened", "done"}
  <2>1. ASSUME NEW e \in Enders, EndOpen(e)
        PROVE  r = e /\ refl[r].pc = "idle" /\ refl'[r].pc = "opened"
    <3>1. e \in Runners /\ SetPc(e, "opened") /\ refl[e].pc = "idle"
      BY <2>1, RunnersType DEF EndOpen
    <3> QED BY <1>0, <1>5, <3>1, PcSet
  <2>2. ASSUME NEW e \in Enders, EndReopen(e)
        PROVE  r = e /\ refl[r].pc = "closing" /\ refl'[r].pc = "done"
    <3>1. e \in Runners /\ refl[e].pc = "closing" /\ refl' = [refl EXCEPT ![e] = [NoRefl EXCEPT !.pc = "done"]]
      BY <2>2, RunnersType DEF EndReopen
    <3>2. [NoRefl EXCEPT !.pc = "done"].pc = "done"
      BY DEF NoRefl
    <3>3. refl'[e] = [NoRefl EXCEPT !.pc = "done"] /\ \A u \in Runners \ {e} : refl'[u] = refl[u]
      BY <1>0, <3>1, ReflSet
    <3> QED BY <1>5, <3>1, <3>2, <3>3
  <2>3. CASE StartSession \/ \E t \in Turns : ChatRequest(t)
    BY <1>5, <2>3 DEF StartSession, ChatRequest
  <2> QED BY <2>1, <2>2, <2>3
<1>6. ASSUME NEW t \in Turns, chat'[t] # chat[t]
      PROVE  chat'[t].pc = "thinking" /\ Content(chat'[t]) = Content(session')
  <2>1. PICK u \in Turns : ChatRequest(u)
    BY <1>6 DEF StartSession, EndOpen, EndReopen
  <2>2. /\ chat'[u].pc = "thinking" /\ Content(chat'[u]) = Content(session')
        /\ \A v \in Turns \ {u} : chat'[v] = chat[v]
    BY <1>0, <2>1, ChatRequestSet DEF Content
  <2> QED BY <1>6, <2>2
<1>7. UNCHANGED chat \/ ((\A e \in Enders : refl[e].pc \notin EarlyPcs) /\ UNCHANGED refl)
  BY DEF StartSession, ChatRequest, EndOpen, EndReopen, MaySend, NoEarly
<1>8. (\A t \in Turns : ~Busy(chat[t])) \/ (UNCHANGED chat /\ \A e \in Enders : ~EndOpen(e))
  BY NoTurnBusy DEF StartSession, ChatRequest, EndOpen, EndReopen, MaySend, MayStart
<1> QED
  BY <1>1, <1>2, <1>3, <1>4, <1>5, <1>6, <1>7, <1>8

\* No turn streams when an end request begins, nor begins before it has deleted the
\* session.
Apart ==
  \A e \in Enders : refl[e].pc \in EarlyPcs => \A t \in Turns : ~Busy(chat[t])

\* A turn that stores itself finds the session it will write.
InHand ==
  \A t \in Turns :
    /\ chat[t].pc = "answered" => t \in Content(chat[t])
    /\ Storing(chat[t]) => /\ session # None /\ t \in Content(session)
                           /\ refl[Watcher].pc \notin {"snapped", "dropping", "dropped"}
    /\ chat[t].pc = "writing" =>
         /\ chat[t].snap.sid = session.sid
         /\ chat[t].snap.hist = session.hist /\ chat[t].snap.seed = session.seed

\* Unless it is being removed, the row is the session's.
RowNames == row # None /\ session # None /\ ~Deleting => row.sid = session.sid
RowGone  == server # "down" /\ session = None /\ row # None => Deleting

\* The session an end request has deleted does not come back.
Departed == {"popped", "unlinked", "deleted", "running", "applied"}
Left ==
  \A e \in Enders : refl[e].pc \in Departed => session = None \/ session.sid # refl[e].sid

\* Another session than the watcher's was touched after the watcher looked.
Newer ==
  refl[Watcher].pc # "idle" /\ session # None /\ session.sid # refl[Watcher].sid =>
    session.la > refl[Watcher].la

Quiet == server # "up" => claimed = {}

Settled == Apart /\ InHand /\ RowNames /\ RowGone /\ Left /\ Newer /\ Quiet

LEMMA SettledInit == Init => Settled
<1> SUFFICES ASSUME Init PROVE Settled
  OBVIOUS
<1>1. \A t \in Turns : chat[t].pc = "new"
  BY DEF Init, NoChat
<1>2. \A r \in Runners : refl[r].pc = "idle"
  BY DEF Init, NoRefl
<1>3. Watcher \in Runners /\ Enders \subseteq Runners /\ "idle" \notin EarlyPcs
  BY RunnersType DEF EarlyPcs
<1> QED
  BY <1>1, <1>2, <1>3
  DEF Init, Settled, Apart, InHand, RowNames, RowGone, Left, Newer, Quiet, Storing, Departed

LEMMA SettledOpen ==
  ASSUME Base, TypeInv', Settled, ~Overlap,
         StartSession \/ (\E t \in Turns : ChatRequest(t))
         \/ (\E e \in Enders : EndOpen(e) \/ EndReopen(e))
  PROVE  Settled'
<1>1. Watcher \in Runners /\ Watcher \notin Enders /\ Enders \subseteq Runners
  BY RunnersType, RunnersDistinct
<1>2. /\ server = "up" /\ UNCHANGED <<row, server>> /\ session' # None
      /\ UNCHANGED session \/ (session = None /\ \A r \in Runners :
            refl[r].sid # session'.sid /\ session'.la > refl[r].la)
  BY OpenFacts
<1>3. \A r \in Runners : refl'[r] = refl[r] \/
        (r \in Enders /\ refl[r].pc \in {"idle", "closing"} /\ refl'[r].pc \in {"opened", "done"})
  BY OpenFacts
<1>4. \A t \in Turns : chat'[t] = chat[t] \/ chat'[t].pc = "thinking"
  BY OpenFacts
<1>5. Apart'
  <2>1. CASE UNCHANGED chat /\ \A e \in Enders : ~EndOpen(e)
    <3>1. \A e \in Enders : refl'[e].pc \in EarlyPcs => refl[e].pc \in EarlyPcs
      <4>1. CASE \E e \in Enders : EndReopen(e)
        <5>1. PICK e \in Enders : EndReopen(e)
          BY <4>1
        <5>2. Alone(e) /\ Emptied(refl'[e])
          BY <5>1, EndMoves DEF Base
        <5> QED BY <1>1, <5>2 DEF Alone, Emptied, EarlyPcs
      <4>2. CASE UNCHANGED refl
        BY <4>2
      <4> QED BY <2>1, <4>1, <4>2 DEF StartSession, ChatRequest
    <3> QED BY <2>1, <3>1 DEF Settled, Apart
  <2>2. CASE \A t \in Turns : ~Busy(chat[t])
    <3>1. CASE UNCHANGED chat
      BY <2>2, <3>1 DEF Apart
    <3>2. CASE (\A e \in Enders : refl[e].pc \notin EarlyPcs) /\ UNCHANGED refl
      BY <3>2 DEF Apart
    <3> QED BY <3>1, <3>2, OpenFacts
  <2> QED BY <2>1, <2>2, OpenFacts
<1>6. refl'[Watcher] = refl[Watcher]
  BY <1>1, <1>3
<1>7. InHand'
  BY <1>2, <1>4, <1>6 DEF Settled, InHand, Storing
<1>8. Deleting' <=> Deleting
  BY <1>3 DEF Deleting, Removing
<1>9. RowNames' /\ RowGone'
  BY <1>2, <1>8 DEF Settled, RowNames, RowGone
<1>10. Left'
  BY <1>1, <1>2, <1>3 DEF Settled, Left, Departed
<1>11. Newer' /\ Quiet'
  BY <1>1, <1>2, <1>6 DEF Settled, Newer, Quiet
<1> QED
  BY <1>5, <1>7, <1>9, <1>10, <1>11 DEF Settled

\* A step of one runner that leaves the session and the row alone.
LEMMA SettledMove ==
  ASSUME Settled, NEW r \in Runners, Alone(r), UNCHANGED <<session, row, chat, server>>,
         UNCHANGED claimed \/ server = "up",
         refl[r].pc \in Removing => refl'[r].pc \in Removing,
         r \in Enders /\ refl'[r].pc \in EarlyPcs => refl[r].pc \in EarlyPcs,
         r \in Enders /\ refl'[r].pc \in Departed =>
           refl[r].pc \in Departed /\ refl'[r].sid = refl[r].sid,
         r = Watcher /\ refl'[r].pc # "idle" =>
           \/ refl[r].pc # "idle" /\ refl'[r].sid = refl[r].sid /\ refl'[r].la = refl[r].la
           \/ refl'[r].sid = session.sid,
         r = Watcher /\ refl'[r].pc \in {"snapped", "dropping", "dropped"} =>
           \/ refl[r].pc \in {"snapped", "dropping", "dropped"}
           \/ \A t \in Turns : ~Storing(chat[t])
  PROVE  Settled'
<1>1. Watcher \in Runners /\ Enders \subseteq Runners
  BY RunnersType
<1>2. \A u \in Runners \ {r} : refl'[u] = refl[u]
  BY DEF Alone
<1>3. Apart'
  BY <1>1, <1>2 DEF Settled, Apart
<1>4. InHand'
  BY <1>1, <1>2 DEF Settled, InHand
<1>5. Deleting => Deleting'
  BY <1>2 DEF Deleting
<1>6. RowNames' /\ RowGone'
  BY <1>5 DEF Settled, RowNames, RowGone
<1>7. Left'
  BY <1>1, <1>2 DEF Settled, Left
<1>8. Newer'
  BY <1>1, <1>2 DEF Settled, Newer
<1>9. Quiet'
  BY DEF Settled, Quiet
<1> QED
  BY <1>3, <1>4, <1>6, <1>7, <1>8, <1>9 DEF Settled

\* What a step of a turn leaves alone.
LEMMA ChatFacts ==
  ASSUME Base, Settled, NEW t \in Turns, ChatFail(t) \/ ChatStep(t)
  PROVE  /\ UNCHANGED <<refl, server, claimed, pending, reflected, skipped>>
         /\ Busy(chat[t]) /\ server = "up"
         /\ \A u \in Turns \ {t} : ~Busy(chat[u]) /\ chat'[u] = chat[u]
         /\ \A e \in Enders : refl[e].pc \notin EarlyPcs
         /\ ChatWrite(t) \/ UNCHANGED <<row, owed>>
<1>0. TypeInv /\ Serial /\ Apart
  BY DEF Base, Settled
<1>1. UNCHANGED <<refl, server, claimed, pending, reflected, skipped>> /\ Busy(chat[t])
  BY DEF ChatFail, ChatStep, ChatReply, ChatSilent, ChatInstall, ChatSnapshot, ChatWrite, Busy, ghosts
<1>2. \A u \in Turns \ {t} : chat'[u] = chat[u]
  BY <1>0, ChatOverSet, ChatAnswerSet, ChatInstallSet, ChatSnapshotSet, ChatWriteSet DEF ChatFail, ChatStep
<1>3. ChatWrite(t) \/ UNCHANGED <<row, owed>>
  BY DEF ChatFail, ChatStep, ChatReply, ChatSilent, ChatInstall, ChatSnapshot, store, ghosts
<1>4. server = "up" /\ \A u \in Turns \ {t} : ~Busy(chat[u])
  BY <1>0, <1>1 DEF Serial, TypeInv, TypeOK, Types
<1>5. \A e \in Enders : refl[e].pc \notin EarlyPcs
  BY <1>0, <1>1 DEF Apart
<1> QED
  BY <1>1, <1>2, <1>3, <1>4, <1>5

LEMMA SettledChat ==
  ASSUME Base, Settled, MaxFault = 0, NEW t \in Turns, ChatFail(t) \/ ChatStep(t)
  PROVE  Settled'
<1>0. TypeInv
  BY DEF Base
<1>1. /\ UNCHANGED <<refl, server, claimed>> /\ server = "up"
      /\ \A u \in Turns \ {t} : ~Busy(chat[u]) /\ chat'[u] = chat[u]
      /\ \A e \in Enders : refl[e].pc \notin EarlyPcs
  BY ChatFacts
<1>2. Apart'
  BY <1>1 DEF Apart
<1>3. Quiet'
  BY <1>1 DEF Settled, Quiet
<1>4. (Deleting' <=> Deleting) /\ \A u \in Turns \ {t} : chat'[u].pc # "answered" /\ ~Storing(chat'[u])
  BY <1>1 DEF Deleting, Busy, Storing
<1>5. ASSUME UNCHANGED row, session' = None <=> session = None,
             session # None => session'.sid = session.sid /\ session'.la = session.la
      PROVE  RowNames' /\ RowGone' /\ Left' /\ Newer'
  BY <1>1, <1>4, <1>5 DEF Settled, RowNames, RowGone, Left, Newer
<1>6. CASE ChatFail(t) \/ ChatReply(t) \/ ChatSilent(t)
  <2>1. UNCHANGED <<session, row>>
    BY <1>6 DEF ChatFail, ChatReply, ChatSilent, store
  <2>2. chat'[t].pc = "failed" \/ (chat'[t].pc = "answered" /\ t \in Content(chat'[t]))
    BY <1>0, <1>6, ChatOverSet, ChatAnswerSet DEF ChatFail
  <2>3. InHand'
    BY <1>4, <2>2 DEF InHand, Storing
  <2> QED BY <1>2, <1>3, <1>5, <2>1, <2>3 DEF Settled
<1>7. CASE ChatInstall(t)
  <2>1. /\ UNCHANGED row /\ chat[t].pc = "answered"
        /\ refl[Watcher].pc \notin {"snapped", "dropping", "dropped"}
    BY <1>7 DEF ChatInstall, LoopFree
  <2>2. /\ session = None => chat'[t].pc = "acked" /\ session' = None
        /\ session # None =>
             /\ chat'[t].pc = "installed"
             /\ session' # None /\ session'.sid = session.sid /\ session'.la = session.la
             /\ Content(session') = Content(chat[t])
    BY <1>0, <1>7, ChatInstallSet
  <2>3. InHand'
    BY <1>1, <1>4, <2>1, <2>2 DEF Settled, InHand, Storing
  <2> QED BY <1>2, <1>3, <1>5, <2>1, <2>2, <2>3 DEF Settled
<1>8. CASE ChatSnapshot(t)
  <2>1. UNCHANGED <<session, row>> /\ Storing(chat[t])
    BY <1>8 DEF ChatSnapshot, store, Storing
  <2>2. /\ session # None /\ t \in Content(session)
        /\ refl[Watcher].pc \notin {"snapped", "dropping", "dropped"}
    BY <2>1 DEF Settled, InHand
  <2>3. chat'[t].pc = "writing" /\ chat'[t].snap.sid = session.sid
        /\ chat'[t].snap.hist = session.hist /\ chat'[t].snap.seed = session.seed
    BY <1>0, <1>8, <2>2, ChatSnapshotSet
  <2>4. InHand'
    BY <1>1, <1>4, <2>1, <2>2, <2>3 DEF InHand, Storing
  <2> QED BY <1>2, <1>3, <1>5, <2>1, <2>4 DEF Settled
<1>9. CASE ChatWrite(t)
  <2>1. chat[t].pc = "writing" /\ Storing(chat[t])
    BY <1>9 DEF ChatWrite, Storing
  <2>2. session # None /\ chat[t].snap.sid = session.sid
    BY <2>1 DEF Settled, InHand
  <2>3. /\ chat'[t].pc = "acked" /\ session' # None /\ session'.sid = session.sid
        /\ row' # None /\ row'.sid = IF row = None THEN chat[t].snap.sid ELSE row.sid
        /\ session'.la = clock + 1
    BY <1>0, <1>9, <2>2, ChatWriteSet, NoFaults
  <2>4. InHand'
    BY <1>4, <2>3 DEF InHand, Storing
  <2>5. RowNames' /\ RowGone' /\ Left'
    BY <1>1, <1>4, <2>2, <2>3 DEF Settled, RowNames, RowGone, Left
  <2>6. refl[Watcher].la \in Int /\ clock \in Int /\ refl[Watcher].la <= clock
    BY <1>0, Fields, RunnersType DEF ReflRec, Base, Numbered, Old
  <2>7. Newer'
    BY <1>1, <2>3, <2>6 DEF Newer
  <2> QED BY <1>2, <1>3, <2>4, <2>5, <2>7 DEF Settled
<1> QED
  BY <1>6, <1>7, <1>8, <1>9 DEF ChatStep

\* delete_session and the watcher's clean-up, under the lock.
Pops(r) == (r \in Enders /\ EndPop(r)) \/ (r = Watcher /\ WatchPop /\ Stale)

LEMMA PopFacts ==
  ASSUME Base, Settled, NEW r \in Runners, Pops(r)
  PROVE  /\ Alone(r) /\ Stays(r) /\ session' = None /\ refl'[r].pc \in {"popped", "dropping"}
         /\ UNCHANGED <<row, chat, server, claimed, pending, owed, reflected, skipped>>
         /\ \A t \in Turns : ~Storing(chat[t])
         /\ r \in Enders => /\ refl[r].pc \in {"claimed", "unclaimed"}
                            /\ refl'[r].pc = IF refl[r].pc = "claimed" THEN "popped" ELSE "dropping"
         /\ r = Watcher => /\ refl[r].pc = "cleanup" /\ session # None /\ refl'[r].pc = "dropping"
                           /\ session.sid = refl[r].sid
<1>0. TypeInv /\ Watcher \notin Enders /\ Watcher \in Runners
  BY RunnersDistinct, RunnersType DEF Base
<1>1. CASE r \in Enders /\ EndPop(r)
  <2>1. /\ Alone(r) /\ Stays(r) /\ refl[r].pc \in {"claimed", "unclaimed"}
        /\ refl'[r].pc = IF refl[r].pc = "claimed" THEN "popped" ELSE "dropping"
    BY <1>0, <1>1, EndMoves
  <2>2. \A t \in Turns : ~Storing(chat[t])
    BY <1>1, <2>1 DEF Settled, Apart, EarlyPcs, Busy, Storing
  <2> QED BY <1>0, <1>1, <2>1, <2>2 DEF EndPop, ghosts
<1>2. CASE r = Watcher /\ WatchPop /\ Stale
  <2>1. Alone(r) /\ Stays(r) /\ refl[r].pc = "cleanup" /\ refl'[r].pc = "dropping"
    BY <1>0, <1>2, WatchMoves
  <2>2. session # None /\ session.la <= refl[r].la /\ session.la \in Int /\ refl[r].la \in Int
    BY <1>0, <1>2, Fields DEF Stale, LiveRec, ReflRec
  <2>3. session.sid = refl[r].sid
    BY <1>2, <2>1, <2>2 DEF Settled, Newer
  <2>4. \A t \in Turns : ~Storing(chat[t])
    BY <1>2, LoopFreeStoring DEF WatchPop
  <2> QED BY <1>0, <1>2, <2>1, <2>2, <2>3, <2>4 DEF WatchPop, ghosts
<1> QED
  BY <1>1, <1>2 DEF Pops

LEMMA SettledPop ==
  ASSUME Base, Settled, NEW r \in Runners, Pops(r)
  PROVE  Settled'
<1>1. Watcher \in Runners /\ Enders \subseteq Runners
  BY RunnersType
<1>2. /\ \A u \in Runners \ {r} : refl'[u] = refl[u]
      /\ session' = None /\ refl'[r].pc \in {"popped", "dropping"}
      /\ UNCHANGED <<row, chat, server, claimed>>
      /\ \A t \in Turns : ~Storing(chat[t])
      /\ r \in Enders => refl[r].pc \in {"claimed", "unclaimed"}
  BY PopFacts DEF Alone
<1>3. Apart'
  BY <1>1, <1>2 DEF Settled, Apart, EarlyPcs
<1>4. InHand'
  BY <1>2 DEF Settled, InHand, Storing
<1>5. RowNames' /\ RowGone'
  BY <1>2 DEF RowNames, RowGone, Deleting, Removing
<1>6. Left' /\ Newer' /\ Quiet'
  BY <1>2 DEF Settled, Left, Newer, Quiet
<1> QED
  BY <1>3, <1>4, <1>5, <1>6 DEF Settled

\* The last step of a deletion.
Drops(r) == (r \in Enders /\ EndDelete(r)) \/ (r = Watcher /\ WatchCleanup)

LEMMA DropFacts ==
  ASSUME Base, MaxFault = 0, NEW r \in Runners, Drops(r)
  PROVE  /\ Alone(r) /\ row' = None
         /\ UNCHANGED <<session, chat, server, claimed, pending, owed, reflected, skipped>>
         /\ r \in Enders => /\ Stays(r) /\ refl[r].pc \in {"unlinked", "dropped"}
                            /\ refl'[r].pc = IF refl[r].pc = "unlinked" THEN "deleted" ELSE "closing"
         /\ r = Watcher => refl[r].pc = "dropped" /\ Emptied(refl'[r]) /\ refl'[r].pc = "idle"
<1>0. TypeInv /\ Watcher \notin Enders /\ Watcher \in Runners
  BY RunnersDistinct, RunnersType DEF Base
<1>1. CASE r \in Enders /\ EndDelete(r)
  BY <1>0, <1>1, EndMoves, NoFaults DEF EndDelete, ghosts
<1>2. CASE r = Watcher /\ WatchCleanup
  BY <1>0, <1>2, WatchMoves, NoFaults DEF WatchCleanup, ghosts
<1> QED
  BY <1>1, <1>2 DEF Drops

LEMMA SettledDrop ==
  ASSUME Base, Settled, MaxFault = 0, NEW r \in Runners, Drops(r)
  PROVE  Settled'
<1>1. Watcher \in Runners /\ Watcher \notin Enders /\ Enders \subseteq Runners
  BY RunnersType, RunnersDistinct
<1>2. /\ \A u \in Runners \ {r} : refl'[u] = refl[u]
      /\ row' = None /\ UNCHANGED <<session, chat, server, claimed>>
      /\ r \in Enders => /\ refl'[r].sid = refl[r].sid /\ refl[r].pc \in {"unlinked", "dropped"}
                         /\ refl'[r].pc = IF refl[r].pc = "unlinked" THEN "deleted" ELSE "closing"
      /\ r = Watcher => refl'[r].pc = "idle"
  BY DropFacts DEF Alone, Stays
<1>3. Apart'
  BY <1>1, <1>2 DEF Settled, Apart, EarlyPcs
<1>4. InHand'
  BY <1>1, <1>2 DEF Settled, InHand
<1>5. RowNames' /\ RowGone'
  BY <1>2 DEF RowNames, RowGone
<1>6. Left'
  BY <1>1, <1>2 DEF Settled, Left, Departed
<1>7. Newer' /\ Quiet'
  BY <1>1, <1>2 DEF Settled, Newer, Quiet
<1> QED
  BY <1>3, <1>4, <1>5, <1>6, <1>7 DEF Settled

\* The steps of the runners that leave the session and the row alone, and the others.
EndMove(e) == EndSnapshot(e) \/ EndClaim(e) \/ Unlink(e) \/ EndSave(e) \/ EndReflected(e) \/ EndRaise(e)
WatchMove  == WatchSnapshot \/ WatchQueue \/ WatchClaim \/ WatchReflected \/ WatchRaise
              \/ (WatchPop /\ ~Stale) \/ Unlink(Watcher)
BootMove   == (\E s \in Sids : CatchUp(s)) \/ CatchUpReflected \/ CatchUpRaise
Opens      == StartSession \/ (\E t \in Turns : ChatRequest(t))
              \/ (\E e \in Enders : EndOpen(e) \/ EndReopen(e))

LEMMA StepKinds ==
  ASSUME [Next]_vars
  PROVE  \/ Opens \/ (\E t \in Turns : ChatFail(t) \/ ChatStep(t))
         \/ (\E r \in Runners : Pops(r)) \/ (\E r \in Runners : Drops(r))
         \/ (\E e \in Enders : EndMove(e)) \/ WatchMove \/ BootMove
         \/ (\E r \in Runners : ReflectApply(r))
         \/ BecomeIdle \/ Crash \/ Recover \/ Serve \/ UNCHANGED vars
<1>1. Watcher \in Runners /\ Enders \subseteq Runners
  BY RunnersType
<1>2. ASSUME NEW t \in Turns, ChatRequest(t) \/ ChatFail(t) \/ ChatStep(t)
      PROVE  Opens \/ \E u \in Turns : ChatFail(u) \/ ChatStep(u)
  BY <1>2 DEF Opens
<1>3. ASSUME NEW e \in Enders, EndOpen(e) \/ EndRaise(e) \/ EndStep(e)
      PROVE  Opens \/ EndMove(e) \/ Pops(e) \/ Drops(e)
  BY <1>3 DEF Opens, EndMove, Pops, Drops, EndStep
<1>4. ASSUME WatchRaise \/ WatchStep
      PROVE  WatchMove \/ Pops(Watcher) \/ Drops(Watcher)
  BY <1>4 DEF WatchMove, Pops, Drops, WatchStep
<1>5. ASSUME CatchUpRaise \/ BootStep PROVE BootMove \/ Recover \/ Serve
  BY <1>5 DEF BootMove, BootStep
<1> QED
  BY <1>1, <1>2, <1>3, <1>4, <1>5 DEF Next, Opens

LEMMA MoveFacts ==
  ASSUME (\E e \in Enders : EndMove(e)) \/ WatchMove \/ BootMove \/ (\E r \in Runners : ReflectApply(r))
  PROVE  UNCHANGED <<session, row, chat, server, owed>>
<1>1. ASSUME NEW e \in Enders, EndMove(e) PROVE UNCHANGED <<session, row, chat, server, owed>>
  BY <1>1 DEF EndMove, EndSnapshot, EndClaim, Unlink, EndSave, EndReflected, EndRaise, store, ghosts
<1>2. CASE WatchMove
  BY <1>2 DEF WatchMove, WatchSnapshot, WatchQueue, WatchClaim, WatchReflected, WatchRaise, WatchPop,
              Unlink, store, ghosts
<1>3. CASE BootMove
  BY <1>3 DEF BootMove, CatchUp, CatchUpReflected, CatchUpRaise, store, ghosts
<1>4. ASSUME NEW r \in Runners, ReflectApply(r) PROVE UNCHANGED <<session, row, chat, server, owed>>
  BY <1>4 DEF ReflectApply, store
<1> QED
  BY <1>1, <1>2, <1>3, <1>4

LEMMA SettledEnd ==
  ASSUME Base, Settled, NEW e \in Enders, EndMove(e)
  PROVE  Settled'
<1>0. TypeInv /\ e \in Runners /\ e # Watcher /\ e # Boot
  BY RunnersType, RunnersDistinct DEF Base
<1>1. UNCHANGED <<session, row, chat, server>>
  BY MoveFacts
<1>2. CASE EndSnapshot(e)
  <2>1. /\ Alone(e) /\ refl[e].pc = "opened" /\ UNCHANGED claimed
        /\ refl'[e].pc \in {"snapped", "idle", "done"}
    BY <1>0, <1>2, EndSnapshotSet DEF EndSnapshot, Alone, Emptied
  <2> QED BY <1>0, <1>1, <2>1, SettledMove DEF Removing, EarlyPcs, Departed
<1>3. CASE EndClaim(e)
  <2>1. Alone(e) /\ refl[e].pc = "snapped" /\ refl'[e].pc \in {"claimed", "unclaimed"}
    BY <1>0, <1>3, EndMoves
  <2>2. server = "up"
    BY <1>0, <2>1 DEF Base, Exclusive
  <2> QED BY <1>0, <1>1, <2>1, <2>2, SettledMove DEF Removing, EarlyPcs, Departed
<1>4. CASE Unlink(e) \/ EndSave(e) \/ EndReflected(e) \/ EndRaise(e)
  <2>1. Alone(e) /\ UNCHANGED claimed
    BY <1>0, <1>4, EndMoves DEF Unlink, EndSave, EndReflected, EndRaise
  <2>2. \/ /\ refl'[e].sid = refl[e].sid
           /\ \/ refl[e].pc = "popped" /\ refl'[e].pc = "unlinked"
              \/ refl[e].pc = "dropping" /\ refl'[e].pc = "dropped"
              \/ refl[e].pc = "deleted" /\ refl'[e].pc = "running"
              \/ refl[e].pc = "applied" /\ refl'[e].pc = "closing"
        \/ refl[e].pc \in {"running", "applied"} /\ refl'[e].pc \in {"idle", "done"}
    BY <1>0, <1>4, EndMoves DEF Stays, Emptied
  <2> QED BY <1>0, <1>1, <2>1, <2>2, SettledMove DEF Removing, EarlyPcs, Departed
<1> QED
  BY <1>2, <1>3, <1>4 DEF EndMove

LEMMA SettledWatch ==
  ASSUME Base, Settled, WatchMove
  PROVE  Settled'
<1>0. TypeInv /\ Watcher \in Runners /\ Watcher \notin Enders /\ Watcher # Boot
  BY RunnersType, RunnersDistinct DEF Base
<1>1. UNCHANGED <<session, row, chat, server>>
  BY MoveFacts
<1>2. CASE WatchSnapshot
  <2>1. /\ Alone(Watcher) /\ refl'[Watcher].pc = "snapped" /\ refl'[Watcher].sid = session.sid
        /\ refl[Watcher].pc = "idle" /\ UNCHANGED claimed
        /\ \A t \in Turns : ~Storing(chat[t])
    BY <1>0, <1>2, WatchSnapshotSet, LoopFreeStoring DEF WatchSnapshot, Alone
  <2> QED BY <1>0, <1>1, <2>1, SettledMove DEF Removing
<1>3. CASE WatchClaim
  <2>1. /\ Alone(Watcher) /\ refl[Watcher].pc = "queued"
        /\ (Stays(Watcher) /\ refl'[Watcher].pc = "running") \/ refl'[Watcher].pc = "idle"
    BY <1>0, <1>3, WatchMoves
  <2>2. server = "up"
    BY <1>0, <2>1 DEF Base, Exclusive
  <2> QED BY <1>0, <1>1, <2>1, <2>2, SettledMove DEF Removing, Stays
<1>4. CASE WatchQueue \/ WatchReflected \/ WatchRaise \/ (WatchPop /\ ~Stale) \/ Unlink(Watcher)
  <2>1. UNCHANGED claimed
    BY <1>4 DEF WatchQueue, WatchReflected, WatchRaise, WatchPop, Unlink
  <2>2. refl[Watcher].pc # "popped"
    BY <1>0 DEF Base, Exclusive, PcOK
  <2>3. /\ Alone(Watcher)
        /\ \/ /\ Stays(Watcher)
              /\ \/ refl[Watcher].pc = "snapped" /\ refl'[Watcher].pc = "queued"
                 \/ refl[Watcher].pc = "applied" /\ refl'[Watcher].pc = "cleanup"
                 \/ refl[Watcher].pc = "dropping" /\ refl'[Watcher].pc = "dropped"
           \/ refl[Watcher].pc \in {"running", "applied", "cleanup"} /\ refl'[Watcher].pc = "idle"
    BY <1>0, <1>4, <2>2, WatchMoves
  <2> QED BY <1>0, <1>1, <2>1, <2>3, SettledMove DEF Removing, Stays
<1> QED
  BY <1>2, <1>3, <1>4 DEF WatchMove

LEMMA SettledServer ==
  ASSUME Base, TypeInv', Settled,
         BootMove \/ (\E r \in Runners : ReflectApply(r)) \/ BecomeIdle \/ Crash \/ Recover \/ Serve
         \/ UNCHANGED vars
  PROVE  Settled'
<1>0. /\ TypeInv /\ Exclusive /\ Serial /\ Boot \in Runners /\ Boot \notin Enders /\ Boot # Watcher
      /\ Watcher \in Runners /\ Watcher \notin Enders /\ Enders \subseteq Runners
  BY RunnersType, RunnersDistinct DEF Base
<1>1. CASE BootMove
  <2>1. UNCHANGED <<session, row, chat, server, claimed>>
    BY <1>1, MoveFacts DEF BootMove, CatchUp, CatchUpReflected, CatchUpRaise
  <2>2. Alone(Boot) /\ refl[Boot].pc \in {"idle", "running", "applied"}
    BY <1>0, <1>1, OtherMoves DEF BootMove
  <2> QED BY <1>0, <2>1, <2>2, SettledMove DEF Removing
<1>2. ASSUME NEW r \in Runners, ReflectApply(r) PROVE Settled'
  <2>1. UNCHANGED <<session, row, chat, server, claimed>>
    BY <1>2, MoveFacts DEF ReflectApply
  <2>2. Alone(r) /\ Stays(r) /\ refl[r].pc = "running" /\ refl'[r].pc = "applied"
    BY <1>0, <1>2, OtherMoves
  <2> QED BY <1>0, <2>1, <2>2, SettledMove DEF Removing, EarlyPcs, Departed, Stays
<1>3. ASSUME UNCHANGED <<refl, row, chat, claimed>>,
             server' = server \/ (server # "down" /\ server' = "up"),
             session' = None <=> session = None,
             session # None =>
               /\ session'.sid = session.sid /\ session'.la = session.la
               /\ session'.hist = session.hist /\ session'.seed = session.seed
      PROVE  Settled'
  <2>1. session # None => Content(session') = Content(session)
    BY <1>3 DEF Content
  <2>2. InHand'
    BY <1>3, <2>1 DEF Settled, InHand
  <2>3. Apart' /\ RowNames' /\ RowGone' /\ Left' /\ Newer' /\ Quiet'
    BY <1>3 DEF Settled, Apart, RowNames, RowGone, Left, Newer, Quiet, Deleting
  <2> QED BY <2>2, <2>3 DEF Settled
<1>4. CASE BecomeIdle
  <2>1. UNCHANGED <<refl, row, chat, claimed, server>>
    BY <1>4 DEF BecomeIdle
  <2> QED BY <1>0, <1>3, <1>4, <2>1, BecomeIdleSet
<1>5. CASE Serve \/ UNCHANGED vars
  BY <1>3, <1>5 DEF Serve, store, vars
<1>6. CASE Crash
  <2>1. session' = None /\ server' = "down" /\ claimed' = {}
    BY <1>6 DEF Crash
  <2>2. /\ \A t \in Turns : ~Busy(chat'[t])
        /\ \A r \in Runners : refl'[r].pc \in {"idle", "done"}
    BY <1>0, <1>6, CrashSet DEF Emptied
  <2> QED BY <1>0, <2>1, <2>2
    DEF Settled, Apart, InHand, RowNames, RowGone, Left, Newer, Quiet, Busy, Storing, EarlyPcs, Departed
<1>7. CASE Recover
  <2>1. /\ server = "down" /\ UNCHANGED <<refl, row, chat, claimed>>
        /\ (session' = None <=> row = None) /\ (row # None => session'.sid = row.sid)
    BY <1>0, <1>7, RecoverSet DEF Recover
  <2>2. /\ \A t \in Turns : ~Busy(chat[t])
        /\ \A r \in Runners \ {Boot} : refl[r].pc \in {"idle", "done"}
        /\ refl[Watcher].pc = "idle"
    BY <1>0, <2>1 DEF Exclusive, Serial, PcOK
  <2>3. claimed' = {}
    BY <2>1 DEF Settled, Quiet
  <2> QED BY <1>0, <2>1, <2>2, <2>3
    DEF Settled, Apart, InHand, RowNames, RowGone, Left, Newer, Quiet, Busy, Storing, EarlyPcs, Departed
<1> QED
  BY <1>1, <1>2, <1>4, <1>5, <1>6, <1>7

LEMMA SettledNext ==
  ASSUME ~Overlap, MaxFault = 0, Base, TypeInv', Settled, [Next]_vars
  PROVE  Settled'
<1>1. Opens => Settled'
  BY SettledOpen DEF Opens
<1>2. (\E t \in Turns : ChatFail(t) \/ ChatStep(t)) => Settled'
  BY SettledChat
<1>3. (\E r \in Runners : Pops(r)) \/ (\E r \in Runners : Drops(r)) => Settled'
  BY SettledPop, SettledDrop
<1>4. (\E e \in Enders : EndMove(e)) \/ WatchMove => Settled'
  BY SettledEnd, SettledWatch
<1>5. BootMove \/ (\E r \in Runners : ReflectApply(r)) \/ BecomeIdle \/ Crash \/ Recover \/ Serve
      \/ UNCHANGED vars => Settled'
  BY SettledServer
<1> QED
  BY <1>1, <1>2, <1>3, <1>4, <1>5, StepKinds

\* The row of a session that an end request has deleted is gone.
RowLeft ==
  \A e \in Enders : refl[e].pc = "deleted" => row = None \/ row.sid # refl[e].sid

\* The row holds no less than the watcher's transcript, and than the session.
WatchRow ==
  refl[Watcher].pc = "snapped" /\ row # None /\ row.sid = refl[Watcher].sid =>
    TurnsIn(refl[Watcher].tr) \subseteq Kept(row)
RowHolds ==
  session # None /\ row # None /\ row.sid = session.sid /\ (\A t \in Turns : ~Storing(chat[t])) =>
    Content(session) \subseteq Kept(row)

\* What the end request has taken from the session is all there is, and no less than what
\* the watcher took.
Taking == {"snapped", "claimed", "unclaimed"}
Upheld == {"snapped", "claimed", "popped", "unlinked", "deleted", "running", "applied"}
EndFull ==
  \A e \in Enders : refl[e].pc \in Taking /\ session # None /\ session.sid = refl[e].sid =>
    Content(session) \subseteq TurnsIn(refl[e].tr)
Same ==
  \A e \in Enders :
    refl[Watcher].pc = "snapped" /\ refl[e].pc \in Upheld /\ refl[e].sid = refl[Watcher].sid =>
      TurnsIn(refl[Watcher].tr) \subseteq TurnsIn(refl[e].tr)

Shares == RowLeft /\ WatchRow /\ RowHolds /\ EndFull /\ Same

LEMMA SharesInit == Init => Shares
<1> SUFFICES ASSUME Init PROVE Shares
  OBVIOUS
<1>1. \A r \in Runners : refl[r].pc = "idle"
  BY DEF Init, NoRefl
<1> QED
  BY <1>1, RunnersType
  DEF Init, Shares, RowLeft, WatchRow, RowHolds, EndFull, Same, Taking, Upheld

LEMMA SharesMove ==
  ASSUME Shares, NEW r \in Runners, Alone(r), UNCHANGED <<session, row, chat>>,
         refl'[r].pc # "deleted",
         r \in Enders /\ refl'[r].pc \in Taking => refl[r].pc \in Taking /\ Stays(r),
         r \in Enders /\ refl'[r].pc \in Upheld => refl[r].pc \in Upheld /\ Stays(r),
         r = Watcher => refl'[r].pc # "snapped"
  PROVE  Shares'
<1>1. Watcher \in Runners /\ Enders \subseteq Runners
  BY RunnersType
<1>2. \A u \in Runners \ {r} : refl'[u] = refl[u]
  BY DEF Alone
<1>3. RowLeft' /\ WatchRow'
  BY <1>1, <1>2 DEF Shares, RowLeft, WatchRow
<1>4. RowHolds'
  BY DEF Shares, RowHolds
<1>5. EndFull'
  BY <1>1, <1>2 DEF Shares, EndFull, Stays
<1>6. Same'
  BY <1>1, <1>2 DEF Shares, Same, Stays
<1> QED
  BY <1>3, <1>4, <1>5, <1>6 DEF Shares

LEMMA SharesOpen ==
  ASSUME Base, TypeInv', Shares, ~Overlap, Opens
  PROVE  Shares'
<1>1. Watcher \in Runners /\ Watcher \notin Enders /\ Enders \subseteq Runners
  BY RunnersType, RunnersDistinct
<1>2. /\ UNCHANGED row /\ session' # None
      /\ \/ UNCHANGED session
         \/ Content(session') = {} /\ \A r \in Runners : refl[r].sid # session'.sid
  BY OpenFacts DEF Opens
<1>3. \A r \in Runners : refl'[r] = refl[r] \/ (r \in Enders /\ refl'[r].pc \in {"opened", "done"})
  BY OpenFacts DEF Opens
<1>4. (\A t \in Turns : ~Storing(chat'[t])) => \A t \in Turns : ~Storing(chat[t])
  BY OpenFacts DEF Opens, Busy, Storing
<1>5. refl'[Watcher] = refl[Watcher]
  BY <1>1, <1>3
<1>6. RowLeft' /\ WatchRow'
  BY <1>1, <1>2, <1>3, <1>5 DEF Shares, RowLeft, WatchRow
<1>7. RowHolds'
  BY <1>2, <1>4 DEF Shares, RowHolds
<1>8. EndFull'
  BY <1>1, <1>2, <1>3 DEF Shares, EndFull, Taking
<1>9. Same'
  BY <1>1, <1>3, <1>5 DEF Shares, Same, Upheld
<1> QED
  BY <1>6, <1>7, <1>8, <1>9 DEF Shares

LEMMA SharesChat ==
  ASSUME Base, Settled, Shares, MaxFault = 0, NEW t \in Turns, ChatFail(t) \/ ChatStep(t)
  PROVE  Shares'
<1>0. TypeInv /\ Enders \subseteq Runners
  BY RunnersType DEF Base
<1>1. /\ UNCHANGED refl /\ \A e \in Enders : refl[e].pc \notin EarlyPcs
      /\ \A u \in Turns \ {t} : ~Busy(chat[u]) /\ chat'[u] = chat[u]
  BY ChatFacts
<1>2. EndFull'
  BY <1>1 DEF EndFull, Taking, EarlyPcs
<1>3. Same'
  BY <1>1 DEF Shares, Same
<1>4. ASSUME UNCHANGED row PROVE RowLeft' /\ WatchRow'
  BY <1>1, <1>4 DEF Shares, RowLeft, WatchRow
<1>5. CASE ChatFail(t) \/ ChatReply(t) \/ ChatSilent(t)
  <2>1. UNCHANGED <<session, row>> /\ ~Storing(chat[t])
    BY <1>5 DEF ChatFail, ChatReply, ChatSilent, store, Storing
  <2>2. \A u \in Turns : ~Storing(chat[u])
    BY <1>1, <2>1 DEF Busy, Storing
  <2>3. RowHolds'
    BY <2>1, <2>2 DEF Shares, RowHolds
  <2> QED BY <1>2, <1>3, <1>4, <2>1, <2>3 DEF Shares
<1>6. CASE ChatInstall(t) \/ ChatSnapshot(t)
  <2>1. UNCHANGED row
    BY <1>6 DEF ChatInstall, ChatSnapshot, store
  <2>2. session' = None \/ Storing(chat'[t])
    <3>1. ChatSnapshot(t) => UNCHANGED session
      BY DEF ChatSnapshot, store
    <3> QED BY <1>0, <1>6, <3>1, ChatInstallSet, ChatSnapshotSet DEF Storing
  <2>3. RowHolds'
    BY <2>2 DEF RowHolds
  <2> QED BY <1>2, <1>3, <1>4, <2>1, <2>3 DEF Shares
<1>7. CASE ChatWrite(t)
  <2>1. chat[t].pc = "writing" /\ Storing(chat[t])
    BY <1>7 DEF ChatWrite, Storing
  <2>2. /\ session # None /\ chat[t].snap.sid = session.sid
        /\ chat[t].snap.hist = session.hist /\ chat[t].snap.seed = session.seed
        /\ refl[Watcher].pc # "snapped"
    BY <2>1 DEF Settled, InHand
  <2>3. /\ session'.hist = session.hist /\ session'.seed = session.seed
        /\ row' # None /\ row'.sid = IF row = None THEN chat[t].snap.sid ELSE row.sid
        /\ row'.hist = chat[t].snap.hist /\ row'.seed = chat[t].snap.seed
    BY <1>0, <1>7, <2>2, ChatWriteSet, NoFaults
  <2>4. Kept(row') = Content(session')
    BY <2>2, <2>3 DEF Kept, Content
  <2>5. RowLeft'
    BY <1>1, <2>2, <2>3 DEF Shares, RowLeft, Settled, Left, Departed
  <2>6. WatchRow' /\ RowHolds'
    BY <1>1, <2>2, <2>4 DEF WatchRow, RowHolds
  <2> QED BY <1>2, <1>3, <2>5, <2>6 DEF Shares
<1> QED
  BY <1>5, <1>6, <1>7 DEF ChatStep

LEMMA SharesDelete ==
  ASSUME Base, Settled, Shares, MaxFault = 0, NEW r \in Runners, Pops(r) \/ Drops(r)
  PROVE  Shares'
<1>1. Watcher \in Runners /\ Watcher \notin Enders /\ Enders \subseteq Runners
  BY RunnersType, RunnersDistinct
<1>2. Alone(r) /\ UNCHANGED chat
  BY PopFacts, DropFacts
<1>3. \A u \in Runners \ {r} : refl'[u] = refl[u]
  BY <1>2 DEF Alone
<1>4. CASE Pops(r)
  <2>1. /\ Stays(r) /\ session' = None /\ UNCHANGED row /\ refl'[r].pc \in {"popped", "dropping"}
        /\ r \in Enders => /\ refl[r].pc \in {"claimed", "unclaimed"}
                           /\ refl'[r].pc = IF refl[r].pc = "claimed" THEN "popped" ELSE "dropping"
    BY <1>4, PopFacts
  <2>2. RowLeft' /\ WatchRow'
    BY <1>1, <1>3, <2>1 DEF Shares, RowLeft, WatchRow
  <2>3. RowHolds' /\ EndFull'
    BY <2>1 DEF RowHolds, EndFull
  <2>4. Same'
    BY <1>1, <1>3, <2>1 DEF Shares, Same, Upheld, Stays
  <2> QED BY <2>2, <2>3, <2>4 DEF Shares
<1>5. CASE Drops(r)
  <2>1. /\ row' = None /\ UNCHANGED session
        /\ r \in Enders => /\ Stays(r) /\ refl[r].pc \in {"unlinked", "dropped"}
                           /\ refl'[r].pc = IF refl[r].pc = "unlinked" THEN "deleted" ELSE "closing"
        /\ r = Watcher => refl'[r].pc = "idle"
    BY <1>5, DropFacts
  <2>2. RowLeft' /\ WatchRow' /\ RowHolds'
    BY <2>1 DEF RowLeft, WatchRow, RowHolds
  <2>3. EndFull'
    BY <1>1, <1>3, <2>1 DEF Shares, EndFull, Taking
  <2>4. Same'
    BY <1>1, <1>3, <2>1 DEF Shares, Same, Upheld, Stays
  <2> QED BY <2>2, <2>3, <2>4 DEF Shares
<1> QED
  BY <1>4, <1>5

LEMMA SharesEnd ==
  ASSUME Base, Settled, Shares, NEW e \in Enders, EndMove(e)
  PROVE  Shares'
<1>0. TypeInv /\ e \in Runners /\ e # Watcher /\ Watcher \in Runners /\ Enders \subseteq Runners
  BY RunnersType, RunnersDistinct DEF Base
<1>1. UNCHANGED <<session, row, chat>>
  BY MoveFacts
<1>2. CASE EndSnapshot(e)
  <2>1. \A u \in Runners \ {e} : refl'[u] = refl[u]
    BY <1>0, <1>2, EndSnapshotSet
  <2>2. \/ refl'[e].pc \in {"idle", "done"}
        \/ /\ session # None /\ refl'[e].pc = "snapped" /\ refl'[e].sid = session.sid
           /\ refl'[e].tr = Fresh(session.hist, session.seed)
    BY <1>0, <1>2, EndSnapshotSet DEF Emptied
  <2>3. RowLeft' /\ WatchRow' /\ RowHolds'
    BY <1>0, <1>1, <2>1, <2>2 DEF Shares, RowLeft, WatchRow, RowHolds
  <2>4. EndFull'
    BY <1>0, <1>1, <2>1, <2>2 DEF Shares, EndFull, Taking, Content
  <2>5. Frozen
    BY DEF Base, Backed
  <2>6. Same'
    BY <1>0, <1>1, <2>1, <2>2, <2>5 DEF Shares, Same, Upheld, Frozen
  <2> QED BY <2>3, <2>4, <2>6 DEF Shares
<1>3. CASE EndClaim(e) \/ Unlink(e) \/ EndSave(e) \/ EndReflected(e) \/ EndRaise(e)
  <2>1. /\ Alone(e)
        /\ \/ /\ Stays(e)
              /\ \/ refl[e].pc = "snapped" /\ refl'[e].pc \in {"claimed", "unclaimed"}
                 \/ refl[e].pc = "popped" /\ refl'[e].pc = "unlinked"
                 \/ refl[e].pc = "dropping" /\ refl'[e].pc = "dropped"
                 \/ refl[e].pc = "deleted" /\ refl'[e].pc = "running"
                 \/ refl[e].pc = "applied" /\ refl'[e].pc = "closing"
           \/ refl'[e].pc \in {"idle", "done"}
    BY <1>0, <1>3, EndMoves DEF Emptied
  <2> QED BY <1>0, <1>1, <2>1, SharesMove DEF Taking, Upheld
<1> QED
  BY <1>2, <1>3 DEF EndMove

LEMMA SharesWatch ==
  ASSUME Base, Settled, Shares, WatchMove
  PROVE  Shares'
<1>0. TypeInv /\ Watcher \in Runners /\ Watcher \notin Enders /\ Enders \subseteq Runners
  BY RunnersType, RunnersDistinct DEF Base
<1>1. UNCHANGED <<session, row, chat>>
  BY MoveFacts
<1>2. CASE WatchSnapshot
  <2>1. /\ refl'[Watcher].pc = "snapped" /\ refl'[Watcher].sid = session.sid
        /\ refl'[Watcher].tr = Fresh(session.hist, session.seed)
        /\ \A u \in Runners \ {Watcher} : refl'[u] = refl[u]
    BY <1>0, <1>2, WatchSnapshotSet
  <2>2. session # None /\ \A t \in Turns : ~Storing(chat[t])
    BY <1>2, LoopFreeStoring DEF WatchSnapshot
  <2>3. RowLeft' /\ RowHolds' /\ EndFull'
    BY <1>0, <1>1, <2>1 DEF Shares, RowLeft, RowHolds, EndFull
  <2>4. WatchRow'
    BY <1>1, <2>1, <2>2 DEF Shares, RowHolds, WatchRow, Content
  <2>5. ASSUME NEW e \in Enders, refl[e].pc \in Upheld, refl[e].sid = session.sid
        PROVE  Content(session) \subseteq TurnsIn(refl[e].tr)
    BY <2>2, <2>5 DEF Shares, EndFull, Taking, Upheld, Settled, Left, Departed
  <2>6. Same'
    BY <1>0, <2>1, <2>5 DEF Same, Content
  <2> QED BY <2>3, <2>4, <2>6 DEF Shares
<1>3. CASE WatchMove /\ ~WatchSnapshot
  <2>1. Alone(Watcher) /\ refl'[Watcher].pc \notin {"snapped", "deleted"}
    BY <1>0, <1>3, WatchMoves DEF WatchMove
  <2> QED BY <1>0, <1>1, <2>1, SharesMove
<1> QED
  BY <1>2, <1>3

LEMMA SharesServer ==
  ASSUME Base, Settled, Shares,
         BootMove \/ (\E r \in Runners : ReflectApply(r)) \/ BecomeIdle \/ Crash \/ Recover \/ Serve
         \/ UNCHANGED vars
  PROVE  Shares'
<1>0. /\ TypeInv /\ Exclusive /\ Serial /\ Boot \in Runners /\ Boot \notin Enders /\ Boot # Watcher
      /\ Watcher \in Runners /\ Watcher \notin Enders /\ Enders \subseteq Runners
  BY RunnersType, RunnersDistinct DEF Base
<1>1. CASE BootMove
  <2>1. UNCHANGED <<session, row, chat>>
    BY <1>1, MoveFacts
  <2>2. Alone(Boot) /\ refl'[Boot].pc # "deleted"
    BY <1>0, <1>1, OtherMoves DEF BootMove, Emptied
  <2> QED BY <1>0, <2>1, <2>2, SharesMove
<1>2. ASSUME NEW r \in Runners, ReflectApply(r) PROVE Shares'
  <2>1. UNCHANGED <<session, row, chat>>
    BY <1>2, MoveFacts
  <2>2. Alone(r) /\ Stays(r) /\ refl[r].pc = "running" /\ refl'[r].pc = "applied"
    BY <1>0, <1>2, OtherMoves
  <2> QED BY <1>0, <2>1, <2>2, SharesMove DEF Taking, Upheld
<1>3. ASSUME UNCHANGED <<refl, row, chat>>, session' = None <=> session = None,
             session # None =>
               session'.sid = session.sid /\ session'.hist = session.hist /\ session'.seed = session.seed
      PROVE  Shares'
  <2>1. session # None => Content(session') = Content(session)
    BY <1>3 DEF Content
  <2> QED BY <1>3, <2>1 DEF Shares, RowLeft, WatchRow, RowHolds, EndFull, Same
<1>4. CASE BecomeIdle
  <2>1. UNCHANGED <<refl, row, chat>>
    BY <1>4 DEF BecomeIdle
  <2> QED BY <1>0, <1>3, <1>4, <2>1, BecomeIdleSet
<1>5. CASE Serve \/ UNCHANGED vars
  BY <1>3, <1>5 DEF Serve, store, vars
<1>6. CASE Crash
  <2>1. session' = None /\ \A r \in Runners : refl'[r].pc \in {"idle", "done"}
    BY <1>0, <1>6, CrashSet DEF Crash, Emptied
  <2> QED BY <1>0, <2>1 DEF Shares, RowLeft, WatchRow, RowHolds, EndFull, Same, Taking, Upheld
<1>7. CASE Recover
  <2>1. /\ server = "down" /\ UNCHANGED <<refl, row, chat>>
        /\ (session' = None <=> row = None)
        /\ (row # None => session'.hist = row.hist /\ session'.seed = row.seed)
    BY <1>0, <1>7, RecoverSet DEF Recover
  <2>2. \A r \in Runners \ {Boot} : refl[r].pc \in {"idle", "done"}
    BY <1>0, <2>1 DEF Exclusive
  <2>3. RowHolds'
    BY <2>1 DEF RowHolds, Kept, Content
  <2> QED BY <1>0, <2>1, <2>2, <2>3 DEF Shares, RowLeft, WatchRow, EndFull, Same, Taking, Upheld
<1> QED
  BY <1>1, <1>2, <1>4, <1>5, <1>6, <1>7

LEMMA SharesNext ==
  ASSUME ~Overlap, MaxFault = 0, Base, TypeInv', Settled, Shares, [Next]_vars
  PROVE  Shares'
<1>1. Opens => Shares'
  BY SharesOpen
<1>2. (\E t \in Turns : ChatFail(t) \/ ChatStep(t)) => Shares'
  BY SharesChat
<1>3. (\E r \in Runners : Pops(r)) \/ (\E r \in Runners : Drops(r)) => Shares'
  BY SharesDelete
<1>4. (\E e \in Enders : EndMove(e)) \/ WatchMove => Shares'
  BY SharesEnd, SharesWatch
<1>5. BootMove \/ (\E r \in Runners : ReflectApply(r)) \/ BecomeIdle \/ Crash \/ Recover \/ Serve
      \/ UNCHANGED vars => Shares'
  BY SharesServer
<1> QED
  BY <1>1, <1>2, <1>3, <1>4, <1>5, StepKinds

\* A pending file holds no more of a session than the session, its row, and whatever
\* transcript is about to be written over it; and the reflection that will delete it has
\* dealt with all of it.
Filed(s) == Turned(pending[s])

SessionFile == session # None => Filed(session.sid) \subseteq Content(session)
RowFile     == row # None => Filed(row.sid) \subseteq Kept(row)
EndFile ==
  \A e \in Enders :
    (refl[e].pc = "snapped" /\ refl[e].sid \notin claimed) \/ refl[e].pc \in Handing =>
      Filed(refl[e].sid) \subseteq TurnsIn(refl[e].tr)
WatchFile ==
  refl[Watcher].pc = "snapped" => Filed(refl[Watcher].sid) \subseteq TurnsIn(refl[Watcher].tr)
RunFile ==
  \A r \in Runners : refl[r].pc \in {"running", "applied"} =>
    Filed(refl[r].sid) \subseteq TurnsIn(refl[r].tr)
AppliedDealt ==
  \A r \in Runners : refl[r].pc = "applied" => \A t \in TurnsIn(refl[r].tr) : Dealt(t)

Files == SessionFile /\ RowFile /\ EndFile /\ WatchFile /\ RunFile /\ AppliedDealt

LEMMA FilesInit == Init => Files
<1> SUFFICES ASSUME Init PROVE Files
  OBVIOUS
<1>1. \A r \in Runners : refl[r].pc = "idle"
  BY DEF Init, NoRefl
<1> QED
  BY <1>1, RunnersType
  DEF Init, Files, SessionFile, RowFile, EndFile, WatchFile, RunFile, AppliedDealt, Handing

\* What a reflection has dealt with stays dealt with.
LEMMA DealtGrows ==
  ASSUME TypeInv, [Next]_vars, NEW t \in Turns, Dealt(t)
  PROVE  Dealt(t)'
<1>1. skipped \subseteq skipped' /\ (reflected[t] > 0 => reflected'[t] > 0)
  <2>1. CASE UNCHANGED <<reflected, skipped>>
    BY <2>1
  <2>2. ASSUME NEW r \in Runners, ReflectApply(r)
        PROVE  skipped \subseteq skipped' /\ (reflected[t] > 0 => reflected'[t] > 0)
    <3>1. reflected[t] \in Nat
      BY DEF TypeInv, TypeOK, Types
    <3> QED BY <2>2, <3>1 DEF ReflectApply
  <2>3. ASSUME NEW u \in Turns, ChatRequest(u) \/ ChatFail(u) \/ ChatStep(u)
        PROVE  UNCHANGED <<reflected, skipped>>
    BY <2>3
    DEF ChatRequest, ChatFail, ChatStep, ChatReply, ChatSilent, ChatInstall, ChatSnapshot, ChatWrite, ghosts
  <2>4. ASSUME NEW e \in Enders, EndOpen(e) \/ EndRaise(e) \/ EndStep(e)
        PROVE  UNCHANGED <<reflected, skipped>>
    BY <2>4
    DEF EndOpen, EndRaise, EndStep, EndSnapshot, EndClaim, EndPop, Unlink, EndDelete, EndSave,
        EndReflected, EndReopen, ghosts
  <2>5. CASE WatchRaise \/ WatchStep
    BY <2>1, <2>5 DEF WatchRaise, WatchStep, WatchSnapshot, WatchQueue, WatchClaim, WatchReflected,
                      WatchPop, Unlink, WatchCleanup, ghosts
  <2>6. CASE StartSession \/ BecomeIdle \/ Crash \/ CatchUpRaise \/ BootStep \/ UNCHANGED vars
    BY <2>1, <2>6 DEF StartSession, BecomeIdle, Crash, CatchUpRaise, BootStep, Recover, CatchUp,
                      CatchUpReflected, Serve, vars, ghosts
  <2> QED BY <2>1, <2>2, <2>3, <2>4, <2>5, <2>6 DEF Next
<1> QED
  BY <1>1 DEF Dealt

\* A runner moves, and no pending file grows.
LEMMA FilesMove ==
  ASSUME TypeInv, Files, NEW r \in Runners, Alone(r), claimed \subseteq claimed',
         UNCHANGED row \/ row' = None, UNCHANGED session \/ session' = None,
         \A s \in Sids : Turned(pending'[s]) \subseteq Turned(pending[s]),
         \A t \in Turns : Dealt(t) => Dealt(t)',
         refl'[r].pc \in Handing \cup {"snapped", "running", "applied"} =>
           Turned(pending'[refl'[r].sid]) \subseteq TurnsIn(refl'[r].tr),
         refl'[r].pc = "applied" => \A t \in TurnsIn(refl'[r].tr) : Dealt(t)'
  PROVE  Files'
<1>1. Watcher \in Runners /\ Enders \subseteq Runners
  BY RunnersType
<1>2. \A u \in Runners \ {r} : refl'[u] = refl[u]
  BY DEF Alone
<1>3. /\ session # None => session.sid \in Sids
      /\ row # None => row.sid \in Sids
      /\ \A u \in Runners : refl[u].pc \in Handing \cup {"snapped", "running", "applied"} => refl[u].sid \in Sids
  BY Fields, AtWork DEF LiveRec, RowRec, Handing
<1>4. SessionFile'
  BY <1>3 DEF Files, SessionFile, Filed
<1>5. RowFile'
  BY <1>3 DEF Files, RowFile, Filed
<1>6. EndFile'
  BY <1>1, <1>2, <1>3 DEF Files, EndFile, Filed
<1>7. WatchFile'
  BY <1>1, <1>2, <1>3 DEF Files, WatchFile, Filed
<1>8. RunFile'
  BY <1>2, <1>3 DEF Files, RunFile, Filed
<1>9. AppliedDealt'
  BY <1>2 DEF Files, AppliedDealt, TurnsIn
<1> QED
  BY <1>4, <1>5, <1>6, <1>7, <1>8, <1>9 DEF Files

LEMMA FilesOpen ==
  ASSUME Base, TypeInv', Files, ~Overlap, Opens
  PROVE  Files'
<1>1. Watcher \in Runners /\ Watcher \notin Enders /\ Enders \subseteq Runners
  BY RunnersType, RunnersDistinct
<1>2. /\ UNCHANGED <<row, pending, claimed, reflected, skipped>> /\ session' # None
      /\ UNCHANGED session \/ pending[session'.sid] = None
  BY OpenFacts DEF Opens, ghosts
<1>3. \A r \in Runners : refl'[r] = refl[r] \/ (r \in Enders /\ refl'[r].pc \in {"opened", "done"})
  BY OpenFacts DEF Opens
<1>4. SessionFile'
  BY <1>2 DEF Files, SessionFile, Filed, Turned
<1>5. RowFile'
  BY <1>2 DEF Files, RowFile, Filed
<1>6. EndFile'
  BY <1>1, <1>2, <1>3 DEF Files, EndFile, Filed, Handing
<1>7. WatchFile'
  BY <1>1, <1>2, <1>3 DEF Files, WatchFile, Filed
<1>8. RunFile'
  BY <1>2, <1>3 DEF Files, RunFile, Filed
<1>9. AppliedDealt'
  BY <1>2, <1>3 DEF Files, AppliedDealt, Dealt
<1> QED
  BY <1>4, <1>5, <1>6, <1>7, <1>8, <1>9 DEF Files

LEMMA FilesChat ==
  ASSUME Base, Settled, Files, MaxFault = 0, NEW t \in Turns, ChatFail(t) \/ ChatStep(t)
  PROVE  Files'
<1>0. TypeInv /\ Boot \in Runners
  BY RunnersType DEF Base
<1>1. /\ UNCHANGED <<refl, pending, claimed, reflected, skipped>>
      /\ \A e \in Enders : refl[e].pc \notin EarlyPcs
  BY ChatFacts
<1>2. EndFile' /\ WatchFile' /\ RunFile' /\ AppliedDealt'
  BY <1>1 DEF Files, EndFile, WatchFile, RunFile, AppliedDealt, Filed, Dealt
<1>3. CASE ChatFail(t) \/ ChatReply(t) \/ ChatSilent(t) \/ ChatSnapshot(t)
  <2>1. UNCHANGED <<session, row>>
    BY <1>3 DEF ChatFail, ChatReply, ChatSilent, ChatSnapshot, store
  <2>2. SessionFile' /\ RowFile'
    BY <1>1, <2>1 DEF Files, SessionFile, RowFile, Filed
  <2> QED BY <1>2, <2>2 DEF Files
<1>4. CASE ChatInstall(t)
  <2>1. UNCHANGED row /\ chat[t].pc = "answered"
    BY <1>4 DEF ChatInstall
  <2>2. RowFile'
    BY <1>1, <2>1 DEF Files, RowFile, Filed
  <2>3. CASE session = None
    <3>1. session' = None
      BY <1>0, <1>4, <2>3, ChatInstallSet
    <3> QED BY <1>2, <2>2, <3>1 DEF Files, SessionFile
  <2>4. CASE session # None
    <3>1. session'.sid = session.sid /\ Content(session') = Content(chat[t])
      BY <1>0, <1>4, <2>4, ChatInstallSet
    <3>2. Content(session) \subseteq Content(session')
      BY <2>1, <2>4, <3>1 DEF Base, Growing
    <3>3. SessionFile'
      BY <1>1, <2>4, <3>1, <3>2 DEF Files, SessionFile, Filed
    <3> QED BY <1>2, <2>2, <3>3 DEF Files
  <2> QED BY <2>3, <2>4
<1>5. CASE ChatWrite(t)
  <2>1. chat[t].pc = "writing" /\ Storing(chat[t])
    BY <1>5 DEF ChatWrite, Storing
  <2>2. /\ session # None /\ chat[t].snap.sid = session.sid
        /\ chat[t].snap.hist = session.hist /\ chat[t].snap.seed = session.seed
        /\ refl[Watcher].pc \notin {"snapped", "dropping", "dropped"}
    BY <2>1 DEF Settled, InHand
  <2>3. /\ session' # None /\ session'.sid = session.sid
        /\ session'.hist = session.hist /\ session'.seed = session.seed
        /\ row' # None /\ row'.sid = IF row = None THEN chat[t].snap.sid ELSE row.sid
        /\ row'.hist = chat[t].snap.hist /\ row'.seed = chat[t].snap.seed
    BY <1>0, <1>5, <2>2, ChatWriteSet, NoFaults
  <2>4. Kept(row') = Content(session) /\ Content(session') = Content(session)
    BY <2>2, <2>3 DEF Kept, Content
  <2>5. ~Deleting
    <3>1. \A e \in Enders : refl[e].pc \notin Removing
      BY <1>1 DEF EarlyPcs, Removing
    <3>2. refl[Watcher].pc \notin Removing /\ refl[Boot].pc \notin Removing
      BY <1>0, <2>2, RunnersType DEF Base, Exclusive, PcOK, Removing
    <3> QED BY <3>1, <3>2 DEF Deleting, Runners
  <2>6. row'.sid = session.sid
    BY <2>2, <2>3, <2>5 DEF Settled, RowNames
  <2>7. SessionFile' /\ RowFile'
    BY <1>1, <2>2, <2>3, <2>4, <2>6 DEF Files, SessionFile, RowFile, Filed
  <2> QED BY <1>2, <2>7 DEF Files
<1> QED
  BY <1>3, <1>4, <1>5 DEF ChatStep

LEMMA FilesDelete ==
  ASSUME Base, Settled, Files, MaxFault = 0, NEW r \in Runners, Pops(r) \/ Drops(r)
  PROVE  Files'
<1>0. TypeInv /\ Watcher \notin Enders
  BY RunnersDistinct DEF Base
<1>1. /\ Alone(r) /\ UNCHANGED <<claimed, pending, reflected, skipped>>
      /\ UNCHANGED row \/ row' = None
      /\ UNCHANGED session \/ session' = None
  BY PopFacts, DropFacts
<1>2. \A t \in Turns : Dealt(t) => Dealt(t)'
  BY <1>1 DEF Dealt
<1>3. refl'[r].pc \notin {"snapped", "running", "applied"}
  BY PopFacts, DropFacts DEF Pops, Drops, Emptied
<1>4. ASSUME refl'[r].pc \in Handing
      PROVE  r \in Enders /\ Stays(r) /\ refl[r].pc \in Handing
  BY <1>0, <1>4, PopFacts, DropFacts DEF Handing, Pops, Drops
<1>5. refl'[r].pc \in Handing => Turned(pending'[refl'[r].sid]) \subseteq TurnsIn(refl'[r].tr)
  BY <1>1, <1>4 DEF Files, EndFile, Filed, Stays
<1> QED
  BY <1>0, <1>1, <1>2, <1>3, <1>5, FilesMove

LEMMA FilesEnd ==
  ASSUME Base, Settled, Shares, Files, NEW e \in Enders, EndMove(e)
  PROVE  Files'
<1>0. /\ TypeInv /\ Exclusive /\ e \in Runners /\ e # Watcher /\ e # Boot
      /\ Watcher \in Runners /\ Boot \in Runners /\ Enders \subseteq Runners
  BY RunnersType, RunnersDistinct DEF Base
<1>1. UNCHANGED <<session, row, reflected, skipped>>
  BY MoveFacts DEF EndMove, EndSnapshot, EndClaim, Unlink, EndSave, EndReflected, EndRaise, ghosts
<1>2. \A t \in Turns : Dealt(t) => Dealt(t)'
  BY <1>1 DEF Dealt
<1>3. CASE EndSnapshot(e)
  <2>1. Alone(e) /\ UNCHANGED <<claimed, pending>>
    BY <1>0, <1>3, EndSnapshotSet DEF EndSnapshot, Alone
  <2>2. \/ refl'[e].pc \in {"idle", "done"}
        \/ /\ session # None /\ refl'[e].pc = "snapped" /\ refl'[e].sid = session.sid
           /\ refl'[e].tr = Fresh(session.hist, session.seed)
    BY <1>0, <1>3, EndSnapshotSet DEF Emptied
  <2>3. refl'[e].pc \in Handing \cup {"snapped", "running", "applied"} =>
          Turned(pending'[refl'[e].sid]) \subseteq TurnsIn(refl'[e].tr)
    BY <2>1, <2>2 DEF Files, SessionFile, Filed, Content, Handing
  <2>4. refl'[e].pc # "applied"
    BY <2>2
  <2> QED BY <1>0, <1>1, <1>2, <2>1, <2>3, <2>4, FilesMove
<1>4. CASE EndClaim(e)
  <2>1. /\ Alone(e) /\ Stays(e) /\ refl[e].pc = "snapped"
        /\ refl'[e].pc = IF Claimable(e) THEN "claimed" ELSE "unclaimed"
    BY <1>0, <1>4, EndMoves
  <2>2. UNCHANGED pending /\ claimed \subseteq claimed'
    BY <1>4 DEF EndClaim
  <2>3. refl'[e].pc \in Handing \cup {"snapped", "running", "applied"} =>
          Turned(pending'[refl'[e].sid]) \subseteq TurnsIn(refl'[e].tr)
    BY <2>1, <2>2 DEF Files, EndFile, Filed, Claimable, Stays, Handing
  <2>4. refl'[e].pc # "applied"
    BY <2>1
  <2> QED BY <1>0, <1>1, <1>2, <2>1, <2>2, <2>3, <2>4, FilesMove
<1>5. CASE Unlink(e)
  <2>1. /\ Alone(e) /\ Stays(e) /\ refl[e].pc \in {"popped", "dropping"}
        /\ refl'[e].pc = IF refl[e].pc = "popped" THEN "unlinked" ELSE "dropped"
    BY <1>0, <1>5, EndMoves
  <2>2. UNCHANGED <<pending, claimed>>
    BY <1>5 DEF Unlink
  <2>3. refl'[e].pc \in Handing \cup {"snapped", "running", "applied"} =>
          Turned(pending'[refl'[e].sid]) \subseteq TurnsIn(refl'[e].tr)
    BY <2>1, <2>2 DEF Files, EndFile, Filed, Stays, Handing
  <2>4. refl'[e].pc # "applied"
    BY <2>1
  <2> QED BY <1>0, <1>1, <1>2, <2>1, <2>2, <2>3, <2>4, FilesMove
<1>6. CASE EndSave(e)
  <2>1. /\ refl[e].pc = "deleted" /\ refl'[e].pc = "running"
        /\ refl'[e].sid = refl[e].sid /\ refl'[e].tr = refl[e].tr
        /\ \A u \in Runners \ {e} : refl'[u] = refl[u]
    BY <1>0, <1>6, EndMoves DEF Stays, Alone
  <2>2. /\ UNCHANGED claimed /\ refl[e].sid \in claimed /\ refl[e].tr # None
        /\ pending'[refl[e].sid] = refl[e].tr
        /\ \A s \in Sids \ {refl[e].sid} : pending'[s] = pending[s]
    BY <1>0, <1>6, <2>1, PendingSet, AtWork DEF EndSave, Exclusive, Reflecting, Handing
  <2>3. /\ session # None => session.sid \in Sids /\ session.sid # refl[e].sid
        /\ row # None => row.sid \in Sids /\ row.sid # refl[e].sid
    BY <1>0, <2>1, Fields DEF LiveRec, RowRec, Settled, Left, Departed, Shares, RowLeft
  <2>4. SessionFile' /\ RowFile'
    BY <1>1, <2>2, <2>3 DEF Files, SessionFile, RowFile, Filed
  <2>5. ASSUME NEW u \in Runners \ {e}, Reflecting(u)
        PROVE  refl[u].sid # refl[e].sid /\ refl[u].sid \in Sids
    BY <1>0, <2>1, <2>5, AtWork DEF Exclusive, NoConcurrentReflection, Reflecting, Handing
  <2>6. EndFile'
    <3> SUFFICES ASSUME NEW f \in Enders,
                        (refl'[f].pc = "snapped" /\ refl'[f].sid \notin claimed) \/ refl'[f].pc \in Handing
                 PROVE  Turned(pending'[refl'[f].sid]) \subseteq TurnsIn(refl'[f].tr)
      BY <2>2 DEF EndFile, Filed
    <3>1. f # e /\ f \in Runners /\ refl'[f] = refl[f]
      BY <1>0, <2>1 DEF Handing
    <3>2. refl[f].sid # refl[e].sid /\ refl[f].sid \in Sids
      BY <2>2, <2>5, <3>1, <1>0, AtWork DEF Reflecting, Handing
    <3> QED BY <2>2, <3>1, <3>2 DEF Files, EndFile, Filed
  <2>7. WatchFile'
    <3> SUFFICES ASSUME refl[Watcher].pc = "snapped"
                 PROVE  Turned(pending'[refl[Watcher].sid]) \subseteq TurnsIn(refl[Watcher].tr)
      BY <1>0, <2>1 DEF WatchFile, Filed
    <3>1. refl[Watcher].sid \in Sids
      BY <1>0, AtWork
    <3>2. refl[e].sid = refl[Watcher].sid => TurnsIn(refl[e].tr) \subseteq TurnsIn(refl[Watcher].tr)
      BY <2>1 DEF Base, Backed, Covers, Holding
    <3> QED BY <2>2, <3>1, <3>2 DEF Files, WatchFile, Filed, Turned
  <2>8. RunFile'
    <3> SUFFICES ASSUME NEW u \in Runners, refl'[u].pc \in {"running", "applied"}
                 PROVE  Turned(pending'[refl'[u].sid]) \subseteq TurnsIn(refl'[u].tr)
      BY DEF RunFile, Filed
    <3>1. CASE u = e
      BY <2>1, <2>2, <3>1 DEF Turned
    <3>2. CASE u # e
      BY <2>1, <2>2, <2>5, <3>2 DEF Files, RunFile, Filed, Reflecting
    <3> QED BY <3>1, <3>2
  <2>9. AppliedDealt'
    BY <1>1, <2>1 DEF Files, AppliedDealt, Dealt
  <2> QED BY <2>4, <2>6, <2>7, <2>8, <2>9 DEF Files
<1>7. CASE EndReflected(e) \/ EndRaise(e)
  <2>1. Alone(e) /\ refl'[e].pc \in {"closing", "idle", "done"} /\ refl[e].pc \in {"running", "applied"}
    BY <1>0, <1>7, EndMoves DEF Emptied
  <2>2. UNCHANGED claimed /\ \A s \in Sids : Turned(pending'[s]) \subseteq Turned(pending[s])
    <3>1. CASE EndReflected(e)
      <4>1. /\ pending'[refl[e].sid] = None
            /\ \A s \in Sids \ {refl[e].sid} : pending'[s] = pending[s]
        BY <1>0, <2>1, <3>1, PendingSet DEF EndReflected
      <4> QED BY <3>1, <4>1 DEF EndReflected, Turned
    <3>2. CASE EndRaise(e)
      BY <3>2 DEF EndRaise
    <3> QED BY <1>7, <3>1, <3>2
  <2>3. refl'[e].pc \notin Handing \cup {"snapped", "running", "applied"}
    BY <2>1 DEF Handing
  <2> QED BY <1>0, <1>1, <1>2, <2>1, <2>2, <2>3, FilesMove
<1> QED
  BY <1>3, <1>4, <1>5, <1>6, <1>7 DEF EndMove

LEMMA FilesWatch ==
  ASSUME Base, Settled, Shares, Files, WatchMove
  PROVE  Files'
<1>0. /\ TypeInv /\ Exclusive /\ Watcher \notin Enders /\ Watcher # Boot
      /\ Watcher \in Runners /\ Boot \in Runners /\ Enders \subseteq Runners
  BY RunnersType, RunnersDistinct DEF Base
<1>1. UNCHANGED <<session, row, reflected, skipped>>
  BY MoveFacts DEF WatchMove, WatchSnapshot, WatchQueue, WatchClaim, WatchReflected, WatchRaise,
                   WatchPop, Unlink, ghosts
<1>2. \A t \in Turns : Dealt(t) => Dealt(t)'
  BY <1>1 DEF Dealt
<1>3. CASE WatchSnapshot
  <2>1. /\ Alone(Watcher) /\ UNCHANGED <<claimed, pending>> /\ session # None
        /\ refl'[Watcher].pc = "snapped" /\ refl'[Watcher].sid = session.sid
        /\ refl'[Watcher].tr = Fresh(session.hist, session.seed)
    BY <1>0, <1>3, WatchSnapshotSet DEF WatchSnapshot, Alone
  <2>2. Turned(pending'[refl'[Watcher].sid]) \subseteq TurnsIn(refl'[Watcher].tr)
    BY <2>1 DEF Files, SessionFile, Filed, Content
  <2>3. refl'[Watcher].pc # "applied"
    BY <2>1
  <2> QED BY <1>0, <1>1, <1>2, <2>1, <2>2, <2>3, FilesMove
<1>4. CASE WatchQueue
  <2>1. /\ refl[Watcher].pc = "snapped" /\ refl'[Watcher].pc = "queued"
        /\ \A u \in Runners \ {Watcher} : refl'[u] = refl[u]
    BY <1>0, <1>4, WatchMoves DEF Alone
  <2>2. /\ UNCHANGED claimed /\ refl[Watcher].sid \in Sids /\ refl[Watcher].tr # None
        /\ pending'[refl[Watcher].sid] = refl[Watcher].tr
        /\ \A s \in Sids \ {refl[Watcher].sid} : pending'[s] = pending[s]
    BY <1>0, <1>4, <2>1, PendingSet, AtWork DEF WatchQueue
  <2>3. /\ session # None => session.sid \in Sids
        /\ row # None => row.sid \in Sids
    BY <1>0, Fields DEF LiveRec, RowRec
  <2>4. SessionFile'
    <3>1. session # None /\ session.sid = refl[Watcher].sid =>
            TurnsIn(refl[Watcher].tr) = Content(session)
      BY <2>1 DEF Base, Backed, Frozen, Content
    <3> QED BY <1>1, <2>2, <2>3, <3>1 DEF Files, SessionFile, Filed, Turned
  <2>5. RowFile'
    BY <1>1, <2>1, <2>2, <2>3 DEF Files, RowFile, Filed, Turned, Shares, WatchRow
  <2>6. ASSUME NEW e \in Enders, refl[e].pc \in Upheld
        PROVE  /\ refl[e].sid \in Sids
               /\ refl[e].sid = refl[Watcher].sid => TurnsIn(refl[Watcher].tr) \subseteq TurnsIn(refl[e].tr)
    BY <1>0, <2>1, <2>6, AtWork DEF Shares, Same, Upheld
  <2>7. EndFile'
    <3> SUFFICES ASSUME NEW e \in Enders,
                        (refl[e].pc = "snapped" /\ refl[e].sid \notin claimed) \/ refl[e].pc \in Handing
                 PROVE  Turned(pending'[refl[e].sid]) \subseteq TurnsIn(refl[e].tr)
      BY <1>0, <2>1, <2>2 DEF EndFile, Filed
    <3>1. refl[e].pc \in Upheld
      BY DEF Handing, Upheld
    <3> QED BY <2>2, <2>6, <3>1 DEF Files, EndFile, Filed, Turned
  <2>8. RunFile'
    <3> SUFFICES ASSUME NEW r \in Runners, refl'[r].pc \in {"running", "applied"}
                 PROVE  Turned(pending'[refl'[r].sid]) \subseteq TurnsIn(refl'[r].tr)
      BY DEF RunFile, Filed
    <3>1. r # Watcher /\ r # Boot /\ refl'[r] = refl[r]
      BY <1>0, <2>1 DEF Exclusive
    <3>2. r \in Enders /\ refl[r].pc \in Upheld
      BY <3>1 DEF Runners, Upheld
    <3> QED BY <2>2, <2>6, <3>1, <3>2 DEF Files, RunFile, Filed, Turned
  <2>9. WatchFile'
    BY <2>1 DEF WatchFile
  <2>10. AppliedDealt'
    BY <1>1, <2>1 DEF Files, AppliedDealt, Dealt
  <2> QED BY <2>4, <2>5, <2>7, <2>8, <2>9, <2>10 DEF Files
<1>5. CASE WatchClaim
  <2>1. /\ Alone(Watcher) /\ refl[Watcher].pc = "queued"
        /\ IF Claimable(Watcher) THEN Stays(Watcher) /\ refl'[Watcher].pc = "running"
                                 ELSE refl'[Watcher].pc = "idle"
    BY <1>0, <1>5, WatchMoves
  <2>2. UNCHANGED pending /\ claimed \subseteq claimed'
    BY <1>5 DEF WatchClaim
  <2>3. refl'[Watcher].pc \in Handing \cup {"snapped", "running", "applied"} =>
          Turned(pending'[refl'[Watcher].sid]) \subseteq TurnsIn(refl'[Watcher].tr)
    <3>1. CASE Claimable(Watcher)
      <4>1. pending[refl[Watcher].sid] = refl[Watcher].tr
        BY <2>1, <3>1 DEF Base, Backed, QueuedOwn, Claimable
      <4> QED BY <2>1, <2>2, <3>1, <4>1 DEF Stays, Turned
    <3>2. CASE ~Claimable(Watcher)
      BY <2>1, <3>2 DEF Handing
    <3> QED BY <3>1, <3>2
  <2>4. refl'[Watcher].pc # "applied"
    BY <2>1
  <2> QED BY <1>0, <1>1, <1>2, <2>1, <2>2, <2>3, <2>4, FilesMove
<1>6. CASE WatchReflected \/ WatchRaise \/ (WatchPop /\ ~Stale) \/ Unlink(Watcher)
  <2>1. Alone(Watcher) /\ refl'[Watcher].pc \in {"cleanup", "idle", "unlinked", "dropped"}
    BY <1>0, <1>6, WatchMoves
  <2>2. refl[Watcher].pc # "popped" /\ (Unlink(Watcher) => refl'[Watcher].pc = "dropped")
    BY <1>0, WatchMoves DEF Exclusive, PcOK
  <2>3. UNCHANGED claimed /\ \A s \in Sids : Turned(pending'[s]) \subseteq Turned(pending[s])
    <3>1. CASE WatchReflected
      <4>1. /\ refl[Watcher].pc = "applied" /\ pending'[refl[Watcher].sid] = None
            /\ \A s \in Sids \ {refl[Watcher].sid} : pending'[s] = pending[s]
        BY <1>0, <3>1, PendingSet DEF WatchReflected
      <4> QED BY <3>1, <4>1 DEF WatchReflected, Turned
    <3>2. CASE WatchRaise \/ (WatchPop /\ ~Stale) \/ Unlink(Watcher)
      BY <3>2 DEF WatchRaise, WatchPop, Unlink
    <3> QED BY <1>6, <3>1, <3>2
  <2>4. refl'[Watcher].pc \in {"cleanup", "idle", "dropped"}
    BY <1>0, <1>6, <2>2, WatchMoves
  <2>5. refl'[Watcher].pc \notin Handing \cup {"snapped", "running", "applied"}
    BY <2>4 DEF Handing
  <2> QED BY <1>0, <1>1, <1>2, <2>1, <2>3, <2>5, FilesMove
<1> QED
  BY <1>3, <1>4, <1>5, <1>6 DEF WatchMove

LEMMA FilesServer ==
  ASSUME Base, Settled, Shares, Files, [Next]_vars,
         BootMove \/ (\E r \in Runners : ReflectApply(r)) \/ BecomeIdle \/ Crash \/ Recover \/ Serve
         \/ UNCHANGED vars
  PROVE  Files'
<1>0. /\ TypeInv /\ Exclusive /\ Boot \in Runners /\ Boot \notin Enders /\ Boot # Watcher
      /\ Watcher \in Runners /\ Watcher \notin Enders /\ Enders \subseteq Runners
  BY RunnersType, RunnersDistinct DEF Base
<1>1. \A t \in Turns : Dealt(t) => Dealt(t)'
  BY <1>0, DealtGrows
<1>2. CASE BootMove
  <2>1. UNCHANGED <<session, row, claimed>>
    BY <1>2, MoveFacts DEF BootMove, CatchUp, CatchUpReflected, CatchUpRaise
  <2>2. ASSUME NEW s \in Sids, CatchUp(s) PROVE Files'
    <3>1. /\ Alone(Boot) /\ refl'[Boot].pc = "running" /\ refl'[Boot].sid = s
          /\ refl'[Boot].tr = pending[s]
      BY <1>0, <2>2, OtherMoves
    <3>2. UNCHANGED pending /\ pending[s] # None
      BY <2>2 DEF CatchUp, Queued
    <3>3. Turned(pending'[refl'[Boot].sid]) \subseteq TurnsIn(refl'[Boot].tr) /\ refl'[Boot].pc # "applied"
      BY <3>1, <3>2 DEF Turned
    <3> QED BY <1>0, <1>1, <2>1, <3>1, <3>2, <3>3, FilesMove
  <2>3. CASE CatchUpReflected \/ CatchUpRaise
    <3>1. /\ Alone(Boot) /\ refl'[Boot].pc \in {"idle", "done"} /\ refl[Boot].pc \in {"running", "applied"}
      BY <1>0, <2>3, OtherMoves DEF Emptied
    <3>2. \A s \in Sids : Turned(pending'[s]) \subseteq Turned(pending[s])
      <4>1. CASE CatchUpReflected
        <5>1. /\ pending'[refl[Boot].sid] = None
              /\ \A s \in Sids \ {refl[Boot].sid} : pending'[s] = pending[s]
          BY <1>0, <3>1, <4>1, PendingSet DEF CatchUpReflected
        <5> QED BY <5>1 DEF Turned
      <4>2. CASE CatchUpRaise
        BY <4>2 DEF CatchUpRaise
      <4> QED BY <2>3, <4>1, <4>2
    <3>3. refl'[Boot].pc \notin Handing \cup {"snapped", "running", "applied"}
      BY <3>1 DEF Handing
    <3> QED BY <1>0, <1>1, <2>1, <3>1, <3>2, <3>3, FilesMove
  <2> QED BY <1>2, <2>2, <2>3 DEF BootMove
<1>3. ASSUME NEW r \in Runners, ReflectApply(r) PROVE Files'
  <2>1. UNCHANGED <<session, row, claimed, pending>>
    BY <1>3, MoveFacts DEF ReflectApply
  <2>2. Alone(r) /\ Stays(r) /\ refl[r].pc = "running" /\ refl'[r].pc = "applied"
    BY <1>0, <1>3, OtherMoves
  <2>3. Turned(pending'[refl'[r].sid]) \subseteq TurnsIn(refl'[r].tr)
    BY <2>1, <2>2 DEF Files, RunFile, Filed, Stays
  <2>4. \A t \in TurnsIn(refl'[r].tr) : Dealt(t)'
    <3>1. \A t \in Turns : reflected[t] \in Nat
      BY <1>0 DEF TypeInv, TypeOK, Types
    <3>2. \A t \in TurnsIn(refl[r].tr) : t \in Turns /\ (reflected'[t] > 0 \/ t \in skipped')
      BY <1>3, <3>1 DEF ReflectApply, TurnsIn
    <3> QED BY <2>2, <3>2 DEF Stays, Dealt
  <2> QED BY <1>0, <1>1, <2>1, <2>2, <2>3, <2>4, FilesMove
<1>4. ASSUME UNCHANGED <<refl, row, claimed, pending, reflected, skipped>>,
             session' = None <=> session = None,
             session # None =>
               session'.sid = session.sid /\ session'.hist = session.hist /\ session'.seed = session.seed
      PROVE  Files'
  <2>1. session # None => Content(session') = Content(session)
    BY <1>4 DEF Content
  <2>2. SessionFile' /\ RowFile'
    BY <1>4, <2>1 DEF Files, SessionFile, RowFile, Filed
  <2>3. EndFile' /\ WatchFile' /\ RunFile' /\ AppliedDealt'
    BY <1>4 DEF Files, EndFile, WatchFile, RunFile, AppliedDealt, Filed, Dealt
  <2> QED BY <2>2, <2>3 DEF Files
<1>5. CASE BecomeIdle
  <2>1. UNCHANGED <<refl, row, claimed, pending, reflected, skipped>>
    BY <1>5 DEF BecomeIdle, ghosts
  <2> QED BY <1>0, <1>4, <1>5, <2>1, BecomeIdleSet
<1>6. CASE Serve \/ UNCHANGED vars
  BY <1>4, <1>6 DEF Serve, store, vars, ghosts
<1>7. CASE Crash
  <2>1. session' = None /\ UNCHANGED <<row, pending>> /\ \A r \in Runners : refl'[r].pc \in {"idle", "done"}
    BY <1>0, <1>7, CrashSet DEF Crash, Emptied
  <2>2. SessionFile' /\ RowFile'
    BY <2>1 DEF Files, SessionFile, RowFile, Filed
  <2>3. EndFile' /\ WatchFile' /\ RunFile' /\ AppliedDealt'
    BY <1>0, <2>1 DEF EndFile, WatchFile, RunFile, AppliedDealt, Handing
  <2> QED BY <2>2, <2>3 DEF Files
<1>8. CASE Recover
  <2>1. /\ UNCHANGED <<refl, row, claimed, pending, reflected, skipped>>
        /\ (session' = None <=> row = None)
        /\ (row # None => session'.sid = row.sid /\ session'.hist = row.hist /\ session'.seed = row.seed)
    BY <1>0, <1>8, RecoverSet DEF Recover, ghosts
  <2>2. SessionFile' /\ RowFile'
    BY <2>1 DEF Files, SessionFile, RowFile, Filed, Kept, Content
  <2>3. EndFile' /\ WatchFile' /\ RunFile' /\ AppliedDealt'
    BY <2>1 DEF Files, EndFile, WatchFile, RunFile, AppliedDealt, Filed, Dealt
  <2> QED BY <2>2, <2>3 DEF Files
<1> QED
  BY <1>2, <1>3, <1>5, <1>6, <1>7, <1>8

LEMMA FilesNext ==
  ASSUME ~Overlap, MaxFault = 0, Base, TypeInv', Settled, Shares, Files, [Next]_vars
  PROVE  Files'
<1>1. Opens => Files'
  BY FilesOpen
<1>2. (\E t \in Turns : ChatFail(t) \/ ChatStep(t)) => Files'
  BY FilesChat
<1>3. (\E r \in Runners : Pops(r)) \/ (\E r \in Runners : Drops(r)) => Files'
  BY FilesDelete
<1>4. (\E e \in Enders : EndMove(e)) \/ WatchMove => Files'
  BY FilesEnd, FilesWatch
<1>5. BootMove \/ (\E r \in Runners : ReflectApply(r)) \/ BecomeIdle \/ Crash \/ Recover \/ Serve
      \/ UNCHANGED vars => Files'
  BY FilesServer
<1> QED
  BY <1>1, <1>2, <1>3, <1>4, <1>5, StepKinds

\* Where an owed turn is: dealt with, queued, in the hand of end_session, or still in the
\* row; and in the last case in the live session too, of which nobody has queued or
\* claimed a transcript, so that whoever deletes the session or the row will first have
\* taken the turn.
Safe(t) == Dealt(t) \/ InQueue(t) \/ t \in Unsaved

Resting(t) ==
  /\ t \in Kept(row)
  /\ server # "down" => session # None /\ t \in Content(session) /\ session.sid \notin claimed
EndLeaves(t) ==
  \A e \in Enders :
    /\ refl[e].pc \notin {"claimed", "unclaimed"} \cup Removing
    /\ refl[e].pc = "snapped" => refl[e].sid = session.sid /\ t \in TurnsIn(refl[e].tr)
Sweeping == {"queued", "running", "applied", "cleanup"}
WatchLeaves(t) ==
  /\ refl[Watcher].pc \notin Removing
  /\ refl[Watcher].pc = "snapped" =>
       refl[Watcher].sid = session.sid /\ t \in TurnsIn(refl[Watcher].tr)
  /\ refl[Watcher].pc \in Sweeping => refl[Watcher].sid # session.sid
Exposed(t) == Resting(t) /\ EndLeaves(t) /\ WatchLeaves(t)

Owing == \A t \in owed : Safe(t) \/ Exposed(t)

LEMMA OwingInit == Init => Owing
BY DEF Init, Owing

\* A step that promises nothing new.
LEMMA OwingFrame ==
  ASSUME Owing, owed' \subseteq owed, owed \subseteq Turns,
         \A t \in Turns : Dealt(t) => Dealt(t)',
         \A t \in Turns : InQueue(t) => InQueue(t)' \/ Dealt(t)',
         \A t \in Unsaved : t \in Unsaved' \/ InQueue(t)',
         \A t \in Turns : Exposed(t) => Safe(t)' \/ Exposed(t)'
  PROVE  Owing'
<1> SUFFICES ASSUME NEW t \in owed' PROVE Safe(t)' \/ Exposed(t)'
  BY DEF Owing
<1>1. t \in Turns /\ (Safe(t) \/ Exposed(t))
  BY DEF Owing
<1> QED
  BY <1>1 DEF Safe

\* A step of one runner that leaves the session and the row alone.
LEMMA ExposedMove ==
  ASSUME NEW r \in Runners, Alone(r), UNCHANGED <<session, row, server>>,
         NEW t \in Turns, Exposed(t),
         session # None => session.sid \notin claimed' \/ session.sid \in claimed,
         r \in Enders => refl'[r].pc \notin {"claimed", "unclaimed"} \cup Removing,
         r \in Enders \cup {Watcher} /\ refl'[r].pc = "snapped" =>
           refl'[r].sid = session.sid /\ t \in TurnsIn(refl'[r].tr),
         r = Watcher => refl'[r].pc \notin Removing,
         r = Watcher /\ refl'[r].pc \in Sweeping => refl'[r].sid # session.sid
  PROVE  Exposed(t)'
<1>1. Watcher \in Runners /\ Enders \subseteq Runners
  BY RunnersType
<1>2. \A u \in Runners \ {r} : refl'[u] = refl[u]
  BY DEF Alone
<1>3. Resting(t)'
  BY DEF Exposed, Resting
<1>4. EndLeaves(t)'
  BY <1>1, <1>2 DEF Exposed, EndLeaves
<1>5. WatchLeaves(t)'
  BY <1>1, <1>2 DEF Exposed, WatchLeaves
<1> QED
  BY <1>3, <1>4, <1>5 DEF Exposed

\* The transcripts in hand stay in hand.
LEMMA HandKept ==
  ASSUME NEW r \in Runners, Alone(r),
         r \in Enders /\ refl[r].pc \in Handing => refl'[r].pc \in Handing /\ Stays(r)
  PROVE  \A t \in Unsaved : t \in Unsaved'
<1> SUFFICES ASSUME NEW e \in Enders, refl[e].pc \in Handing, NEW t \in TurnsIn(refl[e].tr)
             PROVE  t \in Unsaved'
  BY DEF Unsaved
<1>1. e \in Runners
  BY RunnersType
<1>2. refl'[e].pc \in Handing /\ refl'[e].tr = refl[e].tr
  BY <1>1 DEF Alone, Stays
<1> QED
  BY <1>2 DEF Unsaved

\* Where a transcript is put into the queue, or taken out, everything else stays.
LEMMA QueueKept ==
  ASSUME TypeInv, NEW r \in Runners, refl[r].pc \notin {"idle", "opened", "done"}, NEW v,
         pending' = [pending EXCEPT ![refl[r].sid] = v],
         NEW t \in Turns, InQueue(t), t \notin Turned(v)
  PROVE  InQueue(t)' \/ t \in Filed(refl[r].sid)
<1>1. /\ refl[r].sid \in Sids
      /\ \A s \in Sids \ {refl[r].sid} : pending'[s] = pending[s]
  BY PendingSet
<1>2. PICK s \in Sids : pending[s] # None /\ t \in TurnsIn(pending[s])
  BY DEF InQueue
<1>3. CASE s = refl[r].sid
  BY <1>2, <1>3 DEF Filed, Turned
<1>4. CASE s # refl[r].sid
  BY <1>1, <1>2, <1>4 DEF InQueue
<1> QED
  BY <1>3, <1>4

LEMMA Queues ==
  ASSUME TypeInv, NEW r \in Runners, refl[r].pc \notin {"idle", "opened", "done"},
         pending' = [pending EXCEPT ![refl[r].sid] = refl[r].tr],
         NEW t \in TurnsIn(refl[r].tr)
  PROVE  InQueue(t)'
<1>1. refl[r].sid \in Sids /\ refl[r].tr # None /\ pending'[refl[r].sid] = refl[r].tr
  BY PendingSet, AtWork
<1> QED
  BY <1>1 DEF InQueue

\* What is overwritten is in the new transcript; what is deleted has been dealt with.
LEMMA Requeued ==
  ASSUME TypeInv, NEW r \in Runners, refl[r].pc \notin {"idle", "opened", "done"},
         pending' = [pending EXCEPT ![refl[r].sid] = refl[r].tr],
         Filed(refl[r].sid) \subseteq TurnsIn(refl[r].tr)
  PROVE  \A t \in Turns : InQueue(t) => InQueue(t)'
<1> SUFFICES ASSUME NEW t \in Turns, InQueue(t), t \notin TurnsIn(refl[r].tr) PROVE InQueue(t)'
  BY Queues
<1>1. t \notin Turned(refl[r].tr)
  BY DEF Turned
<1> QED
  BY <1>1, QueueKept

LEMMA Unqueued ==
  ASSUME TypeInv, Files, NEW r \in Runners, refl[r].pc = "applied",
         pending' = [pending EXCEPT ![refl[r].sid] = None]
  PROVE  \A t \in Turns : InQueue(t) => InQueue(t)' \/ Dealt(t)
<1> SUFFICES ASSUME NEW t \in Turns, InQueue(t) PROVE InQueue(t)' \/ Dealt(t)
  OBVIOUS
<1>1. t \notin Turned(None)
  BY DEF Turned
<1>2. InQueue(t)' \/ t \in Filed(refl[r].sid)
  BY <1>1, QueueKept
<1> QED
  BY <1>2 DEF Files, RunFile, AppliedDealt

LEMMA OwingOpen ==
  ASSUME Base, TypeInv', Settled, Owing, ~Overlap, [Next]_vars, Opens
  PROVE  Owing'
<1>0. TypeInv /\ owed \subseteq Turns /\ Watcher \in Runners \ Enders /\ Enders \subseteq Runners
  BY RunnersType, RunnersDistinct DEF Base, TypeInv, TypeOK, Types
<1>1. /\ server = "up" /\ UNCHANGED <<row, pending, claimed, server, owed, reflected, skipped>>
      /\ session # None => UNCHANGED session
  BY OpenFacts DEF Opens, ghosts
<1>2. \A r \in Runners :
        refl'[r] = refl[r] \/ (r \in Enders /\ refl[r].pc \in {"idle", "closing"}
                                            /\ refl'[r].pc \in {"opened", "done"})
  BY OpenFacts DEF Opens
<1>3. \A t \in Turns : (Dealt(t) => Dealt(t)') /\ (InQueue(t) => InQueue(t)')
  BY <1>1 DEF Dealt, InQueue
<1>4. \A t \in Unsaved : t \in Unsaved'
  BY <1>0, <1>2 DEF Unsaved, Handing
<1>5. ASSUME NEW t \in Turns, Exposed(t) PROVE Exposed(t)'
  <2>1. Resting(t)'
    BY <1>1, <1>5 DEF Exposed, Resting
  <2>2. UNCHANGED session /\ refl'[Watcher] = refl[Watcher]
    BY <1>0, <1>1, <1>2, <1>5 DEF Exposed, Resting
  <2>3. EndLeaves(t)' /\ WatchLeaves(t)'
    BY <1>0, <1>2, <1>5, <2>2 DEF Exposed, EndLeaves, WatchLeaves, Removing
  <2> QED BY <2>1, <2>3 DEF Exposed
<1> QED
  BY <1>0, <1>1, <1>3, <1>4, <1>5, OwingFrame

\* A turn is owed from the moment it is in the row.
LEMMA OwingWrite ==
  ASSUME Base, Settled, MaxFault = 0, NEW t \in Turns, ChatWrite(t)
  PROVE  /\ \A u \in Turns : Exposed(u) => Exposed(u)'
         /\ \A u \in owed' : u \in owed \/ Exposed(u)'
<1>0. TypeInv /\ Enders \subseteq Runners
  BY RunnersType DEF Base
<1>1. /\ UNCHANGED <<refl, server, claimed>> /\ server = "up"
      /\ \A e \in Enders : refl[e].pc \notin EarlyPcs
  BY ChatFacts DEF ChatStep
<1>2. chat[t].pc = "writing" /\ Storing(chat[t])
  BY DEF ChatWrite, Storing
<1>3. /\ session # None /\ t \in Content(session)
      /\ chat[t].snap.hist = session.hist /\ chat[t].snap.seed = session.seed
      /\ refl[Watcher].pc \notin {"snapped", "dropping", "dropped"}
  BY <1>2 DEF Settled, InHand
<1>4. /\ session' # None /\ session'.sid = session.sid
      /\ session'.hist = session.hist /\ session'.seed = session.seed
      /\ row' # None /\ row'.hist = chat[t].snap.hist /\ row'.seed = chat[t].snap.seed
  BY <1>0, <1>3, ChatWriteSet, NoFaults
<1>5. Kept(row') = Content(session) /\ Content(session') = Content(session)
  BY <1>3, <1>4 DEF Kept, Content
<1>6. ASSUME NEW u \in Turns, Exposed(u) PROVE Exposed(u)'
  <2>1. Resting(u)'
    BY <1>1, <1>4, <1>5, <1>6 DEF Exposed, Resting
  <2>2. EndLeaves(u)' /\ WatchLeaves(u)'
    BY <1>1, <1>4, <1>6 DEF Exposed, EndLeaves, WatchLeaves
  <2> QED BY <2>1, <2>2 DEF Exposed
<1>7. ASSUME owed' # owed PROVE owed' = owed \cup {t} /\ Exposed(t)'
  <2>1. owed' = owed \cup {t} /\ ~ReflectionBegun(session.sid)
    BY <1>3, <1>7 DEF ChatWrite
  <2>2. Resting(t)'
    BY <1>1, <1>3, <1>4, <1>5, <2>1 DEF Resting, ReflectionBegun
  <2>3. EndLeaves(t)'
    BY <1>1 DEF EndLeaves, EarlyPcs, Removing
  <2>4. refl[Watcher].pc \notin Removing
    BY <1>0, <1>3, RunnersType DEF Base, Exclusive, PcOK, Removing
  <2>5. WatchLeaves(t)'
    BY <1>1, <1>3, <1>4, <2>1, <2>4 DEF WatchLeaves, ReflectionBegun, Sweeping
  <2> QED BY <2>1, <2>2, <2>3, <2>5 DEF Exposed
<1> QED
  BY <1>6, <1>7

LEMMA OwingChat ==
  ASSUME Base, Settled, Owing, MaxFault = 0, [Next]_vars,
         NEW t \in Turns, ChatFail(t) \/ ChatStep(t)
  PROVE  Owing'
<1>0. TypeInv /\ owed \subseteq Turns /\ Growing
  BY DEF Base, TypeInv, TypeOK, Types
<1>1. /\ UNCHANGED <<refl, server, claimed, pending, reflected, skipped>> /\ server = "up"
      /\ ChatWrite(t) \/ UNCHANGED <<row, owed>>
  BY ChatFacts
<1>2. \A u \in Turns : (Dealt(u) => Dealt(u)') /\ (InQueue(u) => InQueue(u)')
  BY <1>1 DEF Dealt, InQueue
<1>3. Unsaved' = Unsaved
  BY <1>1 DEF Unsaved
<1>4. CASE ChatWrite(t)
  <2> SUFFICES ASSUME NEW u \in owed' PROVE Safe(u)' \/ Exposed(u)'
    BY DEF Owing
  <2>1. u \in owed \/ Exposed(u)'
    BY <1>4, OwingWrite
  <2>2. u \in owed => u \in Turns /\ (Safe(u) \/ Exposed(u))
    BY <1>0 DEF Owing
  <2>3. u \in Turns /\ Exposed(u) => Exposed(u)'
    BY <1>4, OwingWrite
  <2> QED BY <1>2, <1>3, <2>1, <2>2, <2>3 DEF Safe
<1>5. ASSUME ~ChatWrite(t), NEW u \in Turns, Exposed(u) PROVE Exposed(u)'
  <2>1. session # None /\ u \in Content(session)
    BY <1>1, <1>5 DEF Exposed, Resting
  <2>2. session' # None /\ session'.sid = session.sid /\ u \in Content(session')
    <3>1. CASE ChatInstall(t)
      <4>1. Content(session') = Content(chat[t]) /\ session' # None /\ session'.sid = session.sid
        BY <1>0, <2>1, <3>1, ChatInstallSet
      <4>2. Content(session) \subseteq Content(chat[t])
        BY <1>0, <2>1, <3>1 DEF ChatInstall, Growing
      <4> QED BY <2>1, <4>1, <4>2
    <3>2. CASE ~ChatInstall(t)
      <4>1. UNCHANGED session
        BY <1>5, <3>2 DEF ChatFail, ChatStep, ChatReply, ChatSilent, ChatSnapshot, store
      <4> QED BY <2>1, <4>1
    <3> QED BY <3>1, <3>2
  <2>3. Resting(u)'
    BY <1>1, <1>5, <2>2 DEF Exposed, Resting
  <2>4. EndLeaves(u)' /\ WatchLeaves(u)'
    BY <1>1, <1>5, <2>2 DEF Exposed, EndLeaves, WatchLeaves
  <2> QED BY <2>3, <2>4 DEF Exposed
<1>6. CASE ~ChatWrite(t)
  BY <1>0, <1>1, <1>2, <1>3, <1>5, <1>6, OwingFrame
<1> QED
  BY <1>4, <1>6

\* Who deletes the session, or its row, has no owed turn before him that is not safe.
LEMMA OwingDelete ==
  ASSUME Base, Settled, Owing, MaxFault = 0, [Next]_vars, NEW r \in Runners, Pops(r) \/ Drops(r)
  PROVE  Owing'
<1>0. TypeInv /\ owed \subseteq Turns /\ (r \in Enders \/ r = Watcher) /\ Watcher \notin Enders
  BY RunnersDistinct DEF Base, TypeInv, TypeOK, Types, Pops, Drops
<1>1. Alone(r) /\ UNCHANGED <<pending, owed, reflected, skipped>>
  BY PopFacts, DropFacts
<1>2. \A u \in Turns : (Dealt(u) => Dealt(u)') /\ (InQueue(u) => InQueue(u)')
  BY <1>1 DEF Dealt, InQueue
<1>3. r \in Enders /\ refl[r].pc \in Handing => refl'[r].pc \in Handing /\ Stays(r)
  BY PopFacts, DropFacts DEF Handing
<1>4. \A t \in Unsaved : t \in Unsaved'
  BY <1>1, <1>3, HandKept
<1>5. ASSUME NEW t \in Turns, Exposed(t) PROVE FALSE
  <2>1. CASE Pops(r) /\ r \in Enders
    BY <1>5, <2>1, PopFacts DEF Exposed, EndLeaves
  <2>2. CASE Pops(r) /\ r = Watcher
    BY <1>5, <2>2, PopFacts DEF Exposed, WatchLeaves, Sweeping
  <2>3. CASE Drops(r) /\ r \in Enders
    BY <1>5, <2>3, DropFacts DEF Exposed, EndLeaves, Removing
  <2>4. CASE Drops(r) /\ r = Watcher
    BY <1>5, <2>4, DropFacts DEF Exposed, WatchLeaves, Removing
  <2> QED BY <1>0, <2>1, <2>2, <2>3, <2>4
<1> QED
  BY <1>0, <1>1, <1>2, <1>4, <1>5, OwingFrame

LEMMA OwingEnd ==
  ASSUME Base, Settled, Files, Owing, [Next]_vars, NEW e \in Enders, EndMove(e)
  PROVE  Owing'
<1>0. /\ TypeInv /\ owed \subseteq Turns /\ e \in Runners /\ e # Watcher /\ e # Boot
      /\ Watcher \in Runners /\ Enders \subseteq Runners
  BY RunnersType, RunnersDistinct DEF Base, TypeInv, TypeOK, Types
<1>1. UNCHANGED <<session, row, chat, server, owed>>
  BY MoveFacts
<1>2. \A t \in Turns : Dealt(t) => Dealt(t)'
  BY <1>0, DealtGrows
<1>3. CASE EndSnapshot(e)
  <2>1. Alone(e) /\ refl[e].pc = "opened" /\ UNCHANGED <<pending, claimed>>
    BY <1>0, <1>3, EndSnapshotSet DEF EndSnapshot, Alone
  <2>2. \/ refl'[e].pc \in {"idle", "done"}
        \/ /\ session # None /\ refl'[e].pc = "snapped" /\ refl'[e].sid = session.sid
           /\ refl'[e].tr = Fresh(session.hist, session.seed)
    BY <1>0, <1>3, EndSnapshotSet DEF Emptied
  <2>3. \A t \in Unsaved : t \in Unsaved'
    BY <1>0, <2>1, HandKept DEF Handing
  <2>4. \A t \in Turns : InQueue(t) => InQueue(t)'
    BY <2>1 DEF InQueue
  <2>5. ASSUME NEW t \in Turns, Exposed(t) PROVE Exposed(t)'
    <3>1. server = "up"
      BY <1>0, <2>1 DEF Base, Exclusive
    <3>2. t \in Content(session)
      BY <2>5, <3>1 DEF Exposed, Resting
    <3>3. refl'[e].pc \notin {"claimed", "unclaimed"} \cup Removing
      BY <2>2 DEF Removing
    <3>4. refl'[e].pc = "snapped" => refl'[e].sid = session.sid /\ t \in TurnsIn(refl'[e].tr)
      BY <2>2, <3>2 DEF Content
    <3> QED BY <1>0, <1>1, <2>1, <2>5, <3>3, <3>4, ExposedMove
  <2> QED BY <1>0, <1>1, <1>2, <2>3, <2>4, <2>5, OwingFrame
<1>4. CASE EndClaim(e)
  <2>1. /\ Alone(e) /\ Stays(e) /\ refl[e].pc = "snapped"
        /\ refl'[e].pc = IF Claimable(e) THEN "claimed" ELSE "unclaimed"
    BY <1>0, <1>4, EndMoves
  <2>2. UNCHANGED pending
    BY <1>4 DEF EndClaim
  <2>3. \A t \in Unsaved : t \in Unsaved'
    BY <1>0, <2>1, HandKept DEF Handing
  <2>4. \A t \in Turns : InQueue(t) => InQueue(t)'
    BY <2>2 DEF InQueue
  <2>5. ASSUME NEW t \in Turns, Exposed(t) PROVE t \in Unsaved'
    <3>1. server = "up"
      BY <1>0, <2>1 DEF Base, Exclusive
    <3>2. session.sid \notin claimed /\ refl[e].sid = session.sid /\ t \in TurnsIn(refl[e].tr)
      BY <2>1, <2>5, <3>1 DEF Exposed, Resting, EndLeaves
    <3>3. Claimable(e)
      BY <3>2, NothingIn DEF Claimable
    <3>4. refl'[e].pc = "claimed" /\ refl'[e].tr = refl[e].tr
      BY <2>1, <3>3 DEF Stays
    <3> QED BY <3>2, <3>4 DEF Unsaved, Handing
  <2> QED BY <1>0, <1>1, <1>2, <2>3, <2>4, <2>5, OwingFrame DEF Safe
<1>5. CASE Unlink(e)
  <2>1. /\ Alone(e) /\ Stays(e) /\ refl[e].pc \in {"popped", "dropping"}
        /\ refl'[e].pc = IF refl[e].pc = "popped" THEN "unlinked" ELSE "dropped"
    BY <1>0, <1>5, EndMoves
  <2>2. UNCHANGED pending
    BY <1>5 DEF Unlink
  <2>3. \A t \in Unsaved : t \in Unsaved'
    BY <1>0, <2>1, HandKept DEF Handing
  <2>4. \A t \in Turns : InQueue(t) => InQueue(t)'
    BY <2>2 DEF InQueue
  <2>5. ASSUME NEW t \in Turns, Exposed(t) PROVE FALSE
    BY <2>1, <2>5 DEF Exposed, EndLeaves, Removing
  <2> QED BY <1>0, <1>1, <1>2, <2>3, <2>4, <2>5, OwingFrame
<1>6. CASE EndSave(e)
  <2>1. Alone(e) /\ Stays(e) /\ refl[e].pc = "deleted" /\ refl'[e].pc = "running"
    BY <1>0, <1>6, EndMoves
  <2>2. pending' = [pending EXCEPT ![refl[e].sid] = refl[e].tr] /\ UNCHANGED claimed
    BY <1>6 DEF EndSave
  <2>3. Filed(refl[e].sid) \subseteq TurnsIn(refl[e].tr)
    BY <2>1 DEF Files, EndFile, Handing
  <2>4. \A t \in Turns : InQueue(t) => InQueue(t)'
    BY <1>0, <2>1, <2>2, <2>3, Requeued
  <2>5. ASSUME NEW t \in Unsaved PROVE t \in Unsaved' \/ InQueue(t)'
    <3>1. PICK f \in Enders : refl[f].pc \in Handing /\ t \in TurnsIn(refl[f].tr)
      BY <2>5 DEF Unsaved
    <3>2. CASE f = e
      BY <1>0, <2>1, <2>2, <3>1, <3>2, Queues
    <3>3. CASE f # e
      <4>1. refl'[f] = refl[f]
        BY <1>0, <2>1, <3>3 DEF Alone
      <4> QED BY <3>1, <4>1 DEF Unsaved
    <3> QED BY <3>2, <3>3
  <2>6. ASSUME NEW t \in Turns, Exposed(t) PROVE Exposed(t)'
    BY <1>0, <1>1, <2>1, <2>2, <2>6, ExposedMove DEF Removing
  <2> QED BY <1>0, <1>1, <1>2, <2>4, <2>5, <2>6, OwingFrame
<1>7. CASE EndReflected(e) \/ EndRaise(e)
  <2>1. /\ Alone(e) /\ refl[e].pc \in {"running", "applied"}
        /\ refl'[e].pc \in {"closing", "idle", "done"}
        /\ EndReflected(e) => refl[e].pc = "applied"
    BY <1>0, <1>7, EndMoves DEF Emptied
  <2>2. /\ UNCHANGED claimed
        /\ EndReflected(e) => pending' = [pending EXCEPT ![refl[e].sid] = None]
        /\ EndRaise(e) => UNCHANGED pending
    BY <1>7 DEF EndReflected, EndRaise
  <2>3. \A t \in Unsaved : t \in Unsaved'
    BY <1>0, <2>1, HandKept DEF Handing
  <2>4. \A t \in Turns : InQueue(t) => InQueue(t)' \/ Dealt(t)'
    <3>1. CASE EndReflected(e)
      BY <1>0, <1>2, <2>1, <2>2, <3>1, Unqueued
    <3>2. CASE EndRaise(e)
      BY <2>2, <3>2 DEF InQueue
    <3> QED BY <1>7, <3>1, <3>2
  <2>5. ASSUME NEW t \in Turns, Exposed(t) PROVE Exposed(t)'
    BY <1>0, <1>1, <2>1, <2>2, <2>5, ExposedMove DEF Removing
  <2> QED BY <1>0, <1>1, <1>2, <2>3, <2>4, <2>5, OwingFrame
<1> QED
  BY <1>3, <1>4, <1>5, <1>6, <1>7 DEF EndMove

LEMMA OwingWatch ==
  ASSUME Base, Settled, Files, Owing, [Next]_vars, WatchMove
  PROVE  Owing'
<1>0. /\ TypeInv /\ owed \subseteq Turns /\ Watcher \notin Enders /\ Watcher # Boot
      /\ Watcher \in Runners /\ Enders \subseteq Runners
  BY RunnersType, RunnersDistinct DEF Base, TypeInv, TypeOK, Types
<1>1. UNCHANGED <<session, row, chat, server, owed>>
  BY MoveFacts
<1>2. \A t \in Turns : Dealt(t) => Dealt(t)'
  BY <1>0, DealtGrows
<1>3. ASSUME Alone(Watcher) PROVE \A t \in Unsaved : t \in Unsaved'
  BY <1>0, <1>3, HandKept
<1>4. CASE WatchSnapshot
  <2>1. /\ Alone(Watcher) /\ UNCHANGED <<claimed, pending>> /\ session # None
        /\ refl'[Watcher].pc = "snapped" /\ refl'[Watcher].sid = session.sid
        /\ refl'[Watcher].tr = Fresh(session.hist, session.seed) /\ server = "up"
    BY <1>0, <1>4, WatchSnapshotSet DEF WatchSnapshot, Alone
  <2>2. \A t \in Turns : InQueue(t) => InQueue(t)'
    BY <2>1 DEF InQueue
  <2>3. ASSUME NEW t \in Turns, Exposed(t) PROVE Exposed(t)'
    <3>1. t \in TurnsIn(refl'[Watcher].tr)
      BY <2>1, <2>3 DEF Exposed, Resting, Content
    <3> QED BY <1>0, <1>1, <2>1, <2>3, <3>1, ExposedMove DEF Removing, Sweeping
  <2> QED BY <1>0, <1>1, <1>2, <1>3, <2>1, <2>2, <2>3, OwingFrame
<1>5. CASE WatchQueue
  <2>1. Alone(Watcher) /\ Stays(Watcher) /\ refl[Watcher].pc = "snapped" /\ refl'[Watcher].pc = "queued"
    BY <1>0, <1>5, WatchMoves
  <2>2. pending' = [pending EXCEPT ![refl[Watcher].sid] = refl[Watcher].tr]
    BY <1>5 DEF WatchQueue
  <2>3. Filed(refl[Watcher].sid) \subseteq TurnsIn(refl[Watcher].tr)
    BY <2>1 DEF Files, WatchFile
  <2>4. \A t \in Turns : InQueue(t) => InQueue(t)'
    BY <1>0, <2>1, <2>2, <2>3, Requeued
  <2>5. ASSUME NEW t \in Turns, Exposed(t) PROVE InQueue(t)'
    <3>1. t \in TurnsIn(refl[Watcher].tr)
      BY <2>1, <2>5 DEF Exposed, WatchLeaves
    <3> QED BY <1>0, <2>1, <2>2, <3>1, Queues
  <2> QED BY <1>0, <1>1, <1>2, <1>3, <2>1, <2>4, <2>5, OwingFrame DEF Safe
<1>6. CASE WatchClaim
  <2>1. /\ Alone(Watcher) /\ refl[Watcher].pc = "queued"
        /\ IF Claimable(Watcher) THEN Stays(Watcher) /\ refl'[Watcher].pc = "running"
                                 ELSE refl'[Watcher].pc = "idle"
    BY <1>0, <1>6, WatchMoves
  <2>2. /\ UNCHANGED pending
        /\ claimed' = IF Claimable(Watcher) THEN claimed \cup {refl[Watcher].sid} ELSE claimed
    BY <1>6 DEF WatchClaim
  <2>3. \A t \in Turns : InQueue(t) => InQueue(t)'
    BY <2>2 DEF InQueue
  <2>4. ASSUME NEW t \in Turns, Exposed(t) PROVE Exposed(t)'
    <3>1. refl[Watcher].sid # session.sid
      BY <2>1, <2>4 DEF Exposed, WatchLeaves, Sweeping
    <3>2. refl'[Watcher].pc \in {"running", "idle"}
          /\ (refl'[Watcher].pc = "running" => refl'[Watcher].sid = refl[Watcher].sid)
      BY <2>1 DEF Stays
    <3>3. session # None => session.sid \notin claimed' \/ session.sid \in claimed
      BY <2>2, <3>1
    <3> QED BY <1>0, <1>1, <2>1, <2>4, <3>1, <3>2, <3>3, ExposedMove DEF Removing, Sweeping
  <2> QED BY <1>0, <1>1, <1>2, <1>3, <2>1, <2>3, <2>4, OwingFrame
<1>7. CASE WatchReflected
  <2>1. Alone(Watcher) /\ Stays(Watcher) /\ refl[Watcher].pc = "applied" /\ refl'[Watcher].pc = "cleanup"
    BY <1>0, <1>7, WatchMoves
  <2>2. pending' = [pending EXCEPT ![refl[Watcher].sid] = None] /\ UNCHANGED claimed
    BY <1>7 DEF WatchReflected
  <2>3. \A t \in Turns : InQueue(t) => InQueue(t)' \/ Dealt(t)'
    BY <1>0, <1>2, <2>1, <2>2, Unqueued
  <2>4. ASSUME NEW t \in Turns, Exposed(t) PROVE Exposed(t)'
    <3>1. refl[Watcher].sid # session.sid
      BY <2>1, <2>4 DEF Exposed, WatchLeaves, Sweeping
    <3> QED BY <1>0, <1>1, <2>1, <2>2, <2>4, <3>1, ExposedMove DEF Removing, Sweeping, Stays
  <2> QED BY <1>0, <1>1, <1>2, <1>3, <2>1, <2>3, <2>4, OwingFrame
<1>8. CASE WatchRaise \/ (WatchPop /\ ~Stale) \/ Unlink(Watcher)
  <2>1. UNCHANGED <<pending, claimed>>
    BY <1>8 DEF WatchRaise, WatchPop, Unlink
  <2>2. /\ Alone(Watcher)
        /\ refl'[Watcher].pc = "idle" \/ refl[Watcher].pc \in {"popped", "dropping"}
    BY <1>0, <1>8, WatchMoves
  <2>3. \A t \in Turns : InQueue(t) => InQueue(t)'
    BY <2>1 DEF InQueue
  <2>4. ASSUME NEW t \in Turns, Exposed(t) PROVE Exposed(t)'
    <3>1. refl'[Watcher].pc = "idle"
      BY <2>2, <2>4 DEF Exposed, WatchLeaves, Removing
    <3> QED BY <1>0, <1>1, <2>1, <2>2, <2>4, <3>1, ExposedMove DEF Removing, Sweeping
  <2> QED BY <1>0, <1>1, <1>2, <1>3, <2>2, <2>3, <2>4, OwingFrame
<1> QED
  BY <1>4, <1>5, <1>6, <1>7, <1>8 DEF WatchMove

LEMMA OwingServer ==
  ASSUME Base, Settled, Files, Owing, [Next]_vars,
         BootMove \/ (\E r \in Runners : ReflectApply(r)) \/ BecomeIdle \/ Crash \/ Recover \/ Serve
         \/ UNCHANGED vars
  PROVE  Owing'
<1>0. /\ TypeInv /\ Exclusive /\ owed \subseteq Turns /\ Boot \in Runners /\ Boot \notin Enders
      /\ Boot # Watcher /\ Watcher \in Runners /\ Watcher \notin Enders /\ Enders \subseteq Runners
  BY RunnersType, RunnersDistinct DEF Base, TypeInv, TypeOK, Types
<1>1. \A t \in Turns : Dealt(t) => Dealt(t)'
  BY <1>0, DealtGrows
<1>2. CASE BootMove
  <2>1. UNCHANGED <<session, row, server, owed, claimed>>
    BY <1>2, MoveFacts DEF BootMove, CatchUp, CatchUpReflected, CatchUpRaise
  <2>2. Alone(Boot)
    BY <1>0, <1>2, OtherMoves DEF BootMove
  <2>3. \A t \in Unsaved : t \in Unsaved'
    BY <1>0, <2>2, HandKept
  <2>4. \A t \in Turns : InQueue(t) => InQueue(t)' \/ Dealt(t)'
    <3>1. CASE CatchUpReflected
      <4>1. refl[Boot].pc = "applied" /\ pending' = [pending EXCEPT ![refl[Boot].sid] = None]
        BY <3>1 DEF CatchUpReflected
      <4> QED BY <1>0, <1>1, <4>1, Unqueued
    <3>2. CASE CatchUpRaise \/ \E s \in Sids : CatchUp(s)
      BY <3>2 DEF CatchUpRaise, CatchUp, InQueue
    <3> QED BY <1>2, <3>1, <3>2 DEF BootMove
  <2>5. ASSUME NEW t \in Turns, Exposed(t) PROVE Exposed(t)'
    BY <1>0, <2>1, <2>2, <2>5, ExposedMove
  <2> QED BY <1>0, <1>1, <2>1, <2>3, <2>4, <2>5, OwingFrame
<1>3. ASSUME NEW r \in Runners, ReflectApply(r) PROVE Owing'
  <2>1. UNCHANGED <<session, row, server, owed, claimed, pending>>
    BY <1>3, MoveFacts DEF ReflectApply
  <2>2. Alone(r) /\ Stays(r) /\ refl[r].pc = "running" /\ refl'[r].pc = "applied"
    BY <1>0, <1>3, OtherMoves
  <2>3. \A t \in Unsaved : t \in Unsaved'
    BY <1>0, <2>2, HandKept DEF Handing
  <2>4. \A t \in Turns : InQueue(t) => InQueue(t)'
    BY <2>1 DEF InQueue
  <2>5. ASSUME NEW t \in Turns, Exposed(t) PROVE Exposed(t)'
    <3>1. r = Watcher => refl'[r].sid # session.sid
      BY <2>2, <2>5 DEF Exposed, WatchLeaves, Sweeping, Stays
    <3> QED BY <1>0, <2>1, <2>2, <2>5, <3>1, ExposedMove DEF Removing
  <2> QED BY <1>0, <1>1, <2>1, <2>3, <2>4, <2>5, OwingFrame
<1>4. CASE BecomeIdle \/ Serve \/ UNCHANGED vars
  <2>1. UNCHANGED <<refl, row, claimed, pending, owed>>
    BY <1>4 DEF BecomeIdle, Serve, store, vars, ghosts
  <2>2. Unsaved' = Unsaved /\ \A t \in Turns : InQueue(t) => InQueue(t)'
    BY <2>1 DEF Unsaved, InQueue
  <2>3. server' = server \/ (server # "down" /\ server' = "up")
    BY <1>4 DEF BecomeIdle, Serve, vars
  <2>4. \/ UNCHANGED session
        \/ /\ session # None /\ session' # None /\ server # "down"
           /\ session'.sid = session.sid /\ Content(session') = Content(session)
    <3>1. CASE BecomeIdle
      BY <1>0, <3>1, BecomeIdleSet DEF BecomeIdle, Content
    <3>2. CASE Serve \/ UNCHANGED vars
      BY <3>2 DEF Serve, store, vars
    <3> QED BY <1>4, <3>1, <3>2
  <2>5. ASSUME NEW t \in Turns, Exposed(t) PROVE Exposed(t)'
    <3>1. Resting(t)'
      BY <2>1, <2>3, <2>4, <2>5 DEF Exposed, Resting
    <3>2. EndLeaves(t)' /\ WatchLeaves(t)'
      BY <2>1, <2>4, <2>5 DEF Exposed, EndLeaves, WatchLeaves
    <3> QED BY <3>1, <3>2 DEF Exposed
  <2> QED BY <1>0, <1>1, <2>1, <2>2, <2>5, OwingFrame
<1>5. CASE Crash
  <2>1. /\ UNCHANGED <<row, file, pending>> /\ server' = "down"
        /\ owed' = owed \ (Unsaved \ OnDisk)
    BY <1>5 DEF Crash
  <2>2. \A r \in Runners : refl'[r].pc \in {"idle", "done"}
    BY <1>0, <1>5, CrashSet DEF Emptied
  <2>3. ASSUME NEW t \in Turns, t \in Kept(row) PROVE Exposed(t)'
    BY <1>0, <2>1, <2>2, <2>3 DEF Exposed, Resting, EndLeaves, WatchLeaves, Removing, Sweeping
  <2> SUFFICES ASSUME NEW t \in owed' PROVE Safe(t)' \/ Exposed(t)'
    BY DEF Owing
  <2>4. t \in Turns /\ t \in owed /\ (t \in Unsaved => t \in OnDisk)
    BY <1>0, <2>1
  <2>5. InQueue(t) => InQueue(t)'
    BY <2>1 DEF InQueue
  <2>6. t \in OnDisk => InQueue(t) \/ t \in Kept(row)
    BY DEF OnDisk, Stored, Kept, Content, Base, NoFile
  <2>7. Dealt(t) \/ InQueue(t) \/ t \in Kept(row)
    BY <2>4, <2>6 DEF Owing, Safe, Exposed, Resting
  <2> QED BY <1>1, <2>3, <2>4, <2>5, <2>7 DEF Safe
<1>6. CASE Recover
  <2>1. /\ server = "down" /\ UNCHANGED <<refl, row, claimed, pending, owed>>
        /\ row # None => session'.hist = row.hist /\ session'.seed = row.seed
        /\ session' = None <=> row = None
    BY <1>0, <1>6, RecoverSet DEF Recover, ghosts
  <2>2. /\ \A r \in Runners \ {Boot} : refl[r].pc \in {"idle", "done"}
        /\ claimed = {}
    BY <1>0, <2>1 DEF Exclusive, Settled, Quiet
  <2>3. Unsaved' = Unsaved /\ \A t \in Turns : InQueue(t) => InQueue(t)'
    BY <2>1 DEF Unsaved, InQueue
  <2>4. ASSUME NEW t \in Turns, Exposed(t) PROVE Exposed(t)'
    <3>1. Resting(t)'
      BY <2>1, <2>2, <2>4 DEF Exposed, Resting, Kept, Content
    <3>2. \A r \in Runners \ {Boot} : refl'[r].pc \in {"idle", "done"}
      BY <2>1, <2>2
    <3>3. EndLeaves(t)' /\ WatchLeaves(t)'
      BY <1>0, <3>2 DEF EndLeaves, WatchLeaves, Removing, Sweeping
    <3> QED BY <3>1, <3>3 DEF Exposed
  <2> QED BY <1>0, <1>1, <2>1, <2>3, <2>4, OwingFrame
<1> QED
  BY <1>2, <1>3, <1>4, <1>5, <1>6

LEMMA OwingNext ==
  ASSUME ~Overlap, MaxFault = 0, Base, TypeInv', Settled, Files, Owing, [Next]_vars
  PROVE  Owing'
<1>1. Opens => Owing'
  BY OwingOpen
<1>2. (\E t \in Turns : ChatFail(t) \/ ChatStep(t)) => Owing'
  BY OwingChat
<1>3. (\E r \in Runners : Pops(r)) \/ (\E r \in Runners : Drops(r)) => Owing'
  BY OwingDelete
<1>4. (\E e \in Enders : EndMove(e)) \/ WatchMove => Owing'
  BY OwingEnd, OwingWatch
<1>5. BootMove \/ (\E r \in Runners : ReflectApply(r)) \/ BecomeIdle \/ Crash \/ Recover \/ Serve
      \/ UNCHANGED vars => Owing'
  BY OwingServer
<1> QED
  BY <1>1, <1>2, <1>3, <1>4, <1>5, StepKinds

Lasting == Base /\ Settled /\ Shares /\ Files /\ Owing

LEMMA LastingHolds ==
  ASSUME ~Overlap, MaxFault = 0
  PROVE  Spec => []Lasting
<1>1. Init => Settled /\ Shares /\ Files /\ Owing
  BY SettledInit, SharesInit, FilesInit, OwingInit
<1>2. Base /\ Base' /\ Settled /\ Shares /\ Files /\ Owing /\ [Next]_vars
        => Settled' /\ Shares' /\ Files' /\ Owing'
  BY SettledNext, SharesNext, FilesNext, OwingNext DEF Base
<1> DEFINE Rest == Settled /\ Shares /\ Files /\ Owing
<1>3. Init => Rest
  BY <1>1
<1>4. Base /\ Base' /\ Rest /\ [Next]_vars => Rest'
  BY <1>2
<1>5. Base /\ Rest => Lasting
  BY DEF Lasting
<1> HIDE DEF Rest
<1> QED
  BY <1>3, <1>4, <1>5, BaseHolds, PTL DEF Spec

LEMMA LastingDurable == Lasting => DurableTurn
<1> SUFFICES ASSUME Lasting, NEW t \in owed
             PROVE  Dealt(t) \/ InQueue(t) \/ Stored(row, t) \/ Stored(file, t) \/ t \in Unsaved
  BY DEF DurableTurn
<1>1. t \in Kept(row) => Stored(row, t)
  BY DEF Kept, Content, Stored
<1> QED
  BY <1>1 DEF Lasting, Owing, Safe, Exposed, Resting

\* An answered turn whose session nobody was reflecting on is found again after a crash
\* at any instant, but for the window in which end_session has it in hand: whatever the
\* end handlers, the watcher, the start-up pass and the steps of a deletion interleave
\* to, the file or the row that held it is overwritten or deleted only when another
\* holds it, or when it has been dealt with.  Assumed are clients that leave turns and
\* the beginnings of end requests apart, and a database that takes every write.
THEOREM AnsweredTurnSurvives ==
  ASSUME ~Overlap, MaxFault = 0
  PROVE  Spec => []DurableTurn
BY LastingHolds, LastingDurable, PTL

(***************************************************************************)
(* The store implements the ledger                                         *)
(*                                                                         *)
(* Every step is one of ReflectionLedger's.  Whatever a step does to row,    *)
(* file and queue is a Write, because an owed turn stays durable; so what is  *)
(* left is who moves the other three: ChatWrite promises, a reflection deals, *)
(* and the hand is filled by EndClaim and emptied by EndSave and Crash.      *)
(***************************************************************************)

\* The transcripts in hand stay in hand, and none is added.
LEMMA HandStays ==
  ASSUME \A e \in Enders : \/ refl'[e] = refl[e]
                           \/ refl[e].pc \notin Handing /\ refl'[e].pc \notin Handing
                           \/ /\ refl[e].pc \in Handing /\ refl'[e].pc \in Handing
                              /\ refl'[e].tr = refl[e].tr
  PROVE  Unsaved' = Unsaved
<1>1. \A t : t \in Unsaved <=> \E e \in Enders : refl[e].pc \in Handing /\ t \in TurnsIn(refl[e].tr)
  BY DEF Unsaved
<1>2. \A t : t \in Unsaved' <=> \E e \in Enders : refl'[e].pc \in Handing /\ t \in TurnsIn(refl'[e].tr)
  BY DEF Unsaved
<1>3. \A t : t \in Unsaved' <=> t \in Unsaved
  BY <1>1, <1>2
<1> QED
  BY <1>3

\* Rows and files may be rewritten in any step: the turns owed stay somewhere.
LEMMA WriteStep ==
  ASSUME TypeInv', DurableTurn'
  PROVE  Ledger!Write
<1>1. owed' \subseteq Turns
  BY DEF TypeInv, TypeOK, Types
<1>2. \A t \in owed' : t \in OnDisk' \cup Unsaved' \cup {u \in Turns : Dealt(u)}'
  BY <1>1 DEF DurableTurn, OnDisk
<1> QED
  BY <1>2 DEF Ledger!Write, Ledger!Kept, OnDisk

LEMMA TidyStep ==
  ASSUME Ledger!Write, UNCHANGED <<owed, reflected, skipped>>, Unsaved' = Unsaved
  PROVE  Ledger!Next
<1>1. {t \in Turns : Dealt(t)}' = {t \in Turns : Dealt(t)}
  BY DEF Dealt
<1> QED
  BY <1>1 DEF Ledger!Next, Ledger!Tidy

\* A turn is promised a reflection when it is in the row.
LEMMA LedgerChat ==
  ASSUME MaxFault = 0, Lasting, Ledger!Write, NEW t \in Turns, ChatFail(t) \/ ChatStep(t)
  PROVE  Ledger!Next
<1>0. TypeInv /\ Base /\ Settled
  BY DEF Lasting, Base
<1>1. UNCHANGED <<refl, reflected, skipped>> /\ (ChatWrite(t) \/ UNCHANGED owed)
  BY <1>0, ChatFacts
<1>2. Unsaved' = Unsaved
  BY <1>1, HandStays
<1>3. CASE UNCHANGED owed
  BY <1>1, <1>2, <1>3, TidyStep
<1>4. CASE ChatWrite(t) /\ ~UNCHANGED owed
  <2>1. session # None
    BY <1>4 DEF ChatWrite
  <2>2. owed' = owed \cup {t} /\ t \notin owed
    BY <1>4, <2>1 DEF ChatWrite
  <2>3. Exposed(t)'
    BY <1>0, <1>4, <2>2, OwingWrite
  <2>4. t \in OnDisk'
    BY <2>3 DEF Exposed, Resting, Kept, Content, OnDisk, Stored
  <2>5. {u \in Turns : Dealt(u)}' = {u \in Turns : Dealt(u)}
    BY <1>1 DEF Dealt
  <2>6. Ledger!Promise(t)
    BY <1>2, <2>2, <2>4, <2>5 DEF Ledger!Promise
  <2> QED BY <2>6 DEF Ledger!Next
<1> QED
  BY <1>1, <1>3, <1>4

\* A reflection deals with its transcript, which is in the pending file.
LEMMA LedgerApply ==
  ASSUME Lasting, NEW r \in Runners, ReflectApply(r)
  PROVE  Ledger!Next
<1> DEFINE tr == TurnsIn(refl[r].tr)
           dealt == {t \in Turns : Dealt(t)}
<1>0. TypeInv /\ Exclusive /\ RunningIsQueued
  BY DEF Lasting, Base, Backed
<1>1. UNCHANGED <<pending, row, file, owed>>
  BY DEF ReflectApply, store
<1>2. OnDisk' = OnDisk
  BY <1>1 DEF OnDisk, InQueue, Stored
<1>3. Unsaved' = Unsaved
  <2>1. /\ refl[r].pc = "running" /\ refl'[r].pc = "applied"
        /\ \A u \in Runners \ {r} : refl'[u] = refl[u]
    BY <1>0, OtherMoves DEF Alone
  <2>2. \A e \in Enders : \/ refl'[e] = refl[e]
                          \/ refl[e].pc \notin Handing /\ refl'[e].pc \notin Handing
    BY <2>1, RunnersType DEF Handing
  <2> QED BY <2>2, HandStays
<1>4. tr \subseteq OnDisk
  <2>1. refl[r].sid \in Sids /\ pending[refl[r].sid] # None /\ tr \subseteq TurnsIn(pending[refl[r].sid])
    BY <1>0, AtWork DEF ReflectApply, RunningIsQueued
  <2> QED BY <2>1 DEF TurnsIn, OnDisk, InQueue
<1>5. \A t \in Turns : (Dealt(t) => Dealt(t)') /\ (Dealt(t)' => Dealt(t) \/ t \in tr)
  <2>1. reflected \in [Turns -> Nat]
    BY <1>0 DEF TypeInv, TypeOK, Types
  <2>2. \/ UNCHANGED reflected /\ skipped' = skipped \cup tr
        \/ UNCHANGED skipped
           /\ reflected' = [t \in Turns |-> IF t \in tr THEN reflected[t] + 1 ELSE reflected[t]]
    BY DEF ReflectApply
  <2> HIDE DEF tr
  <2> QED BY <2>1, <2>2 DEF Dealt
<1>6. dealt' \in SUBSET Turns /\ dealt \subseteq dealt' /\ dealt' \subseteq dealt \cup OnDisk
  BY <1>4, <1>5
<1>7. Ledger!Deal
  BY <1>1, <1>2, <1>3, <1>6 DEF Ledger!Deal
<1> QED
  BY <1>7 DEF Ledger!Next

\* end_session takes its turns and lays them down in the queue.
LEMMA LedgerEnd ==
  ASSUME Lasting, Ledger!Write, NEW e \in Enders, EndMove(e)
  PROVE  Ledger!Next
<1>0. TypeInv /\ e \in Runners /\ Enders \subseteq Runners
  BY RunnersType DEF Lasting, Base
<1>1. UNCHANGED <<owed, reflected, skipped>>
  BY MoveFacts DEF EndMove, EndSnapshot, EndClaim, Unlink, EndSave, EndReflected, EndRaise, ghosts
<1>2. {t \in Turns : Dealt(t)}' = {t \in Turns : Dealt(t)}
  BY <1>1 DEF Dealt
<1>3. CASE EndClaim(e)
  <2>1. Alone(e) /\ refl[e].pc = "snapped"
    BY <1>0, <1>3, EndMoves
  <2>2. Unsaved \subseteq Unsaved'
    BY <1>0, <2>1, HandKept DEF Handing
  <2>3. Unsaved' \in SUBSET Turns
    BY DEF Unsaved, TurnsIn
  <2>4. Ledger!Take
    BY <1>1, <1>2, <2>2, <2>3 DEF Ledger!Take
  <2> QED BY <2>4 DEF Ledger!Next
<1>4. CASE EndSave(e)
  <2>1. Alone(e) /\ Stays(e) /\ refl[e].pc = "deleted" /\ refl'[e].pc = "running"
    BY <1>0, <1>4, EndMoves
  <2>2. \A f \in Enders \ {e} : refl'[f] = refl[f]
    BY <1>0, <2>1 DEF Alone
  <2>3. ASSUME NEW t \in Unsaved' PROVE t \in Unsaved
    <3>1. PICK f \in Enders : refl'[f].pc \in Handing /\ t \in TurnsIn(refl'[f].tr)
      BY <2>3 DEF Unsaved
    <3>2. f # e
      BY <2>1, <3>1 DEF Handing
    <3> QED BY <2>2, <3>1, <3>2 DEF Unsaved
  <2>4. ASSUME NEW t \in Unsaved PROVE t \in Unsaved' \/ t \in OnDisk'
    <3>1. PICK f \in Enders : refl[f].pc \in Handing /\ t \in TurnsIn(refl[f].tr)
      BY <2>4 DEF Unsaved
    <3>2. CASE f = e
      <4>1. pending' = [pending EXCEPT ![refl[e].sid] = refl[e].tr] /\ t \in TurnsIn(refl[e].tr)
        BY <1>4, <3>1, <3>2 DEF EndSave
      <4>2. InQueue(t)' /\ t \in Turns
        BY <1>0, <2>1, <4>1, Queues DEF TurnsIn
      <4> QED BY <4>2 DEF OnDisk
    <3>3. CASE f # e
      BY <2>2, <3>1, <3>3 DEF Unsaved
    <3> QED BY <3>2, <3>3
  <2>5. Ledger!Queue
    BY <1>1, <1>2, <2>3, <2>4 DEF Ledger!Queue
  <2> QED BY <2>5 DEF Ledger!Next
<1>5. CASE EndSnapshot(e) \/ Unlink(e) \/ EndReflected(e) \/ EndRaise(e)
  <2>1. CASE EndSnapshot(e)
    <3>1. /\ refl[e].pc = "opened" /\ refl'[e].pc \in {"snapped", "idle", "done"}
          /\ \A u \in Runners \ {e} : refl'[u] = refl[u]
      BY <1>0, <2>1, EndSnapshotSet DEF EndSnapshot, Emptied
    <3>2. refl[e].pc \notin Handing /\ refl'[e].pc \notin Handing
      BY <3>1 DEF Handing
    <3> QED BY <1>0, <1>1, <3>1, <3>2, HandStays, TidyStep
  <2>2. CASE Unlink(e) \/ EndReflected(e) \/ EndRaise(e)
    <3>1. /\ \A u \in Runners \ {e} : refl'[u] = refl[u]
          /\ \/ /\ refl'[e].tr = refl[e].tr
                /\ \/ refl[e].pc = "popped" /\ refl'[e].pc = "unlinked"
                   \/ refl[e].pc = "dropping" /\ refl'[e].pc = "dropped"
                   \/ refl[e].pc = "applied" /\ refl'[e].pc = "closing"
             \/ refl[e].pc \in {"running", "applied"} /\ refl'[e].pc \in {"idle", "done"}
      BY <1>0, <2>2, EndMoves DEF Alone, Stays, Emptied
    <3>2. \/ refl[e].pc \notin Handing /\ refl'[e].pc \notin Handing
          \/ refl[e].pc \in Handing /\ refl'[e].pc \in Handing /\ refl'[e].tr = refl[e].tr
      BY <3>1 DEF Handing
    <3> QED BY <1>0, <1>1, <3>1, <3>2, HandStays, TidyStep
  <2> QED BY <1>5, <2>1, <2>2
<1> QED
  BY <1>3, <1>4, <1>5 DEF EndMove

\* A deletion carries its transcript along.
LEMMA LedgerDelete ==
  ASSUME Lasting, MaxFault = 0, Ledger!Write, NEW r \in Runners, Pops(r) \/ Drops(r)
  PROVE  Ledger!Next
<1>0. Base /\ Settled /\ Enders \subseteq Runners
  BY RunnersType DEF Lasting
<1>1. Alone(r) /\ UNCHANGED <<owed, reflected, skipped>>
  BY <1>0, PopFacts, DropFacts
<1>2. r \in Enders => \/ refl[r].pc \notin Handing /\ refl'[r].pc \notin Handing
                      \/ refl[r].pc \in Handing /\ refl'[r].pc \in Handing /\ Stays(r)
  BY <1>0, PopFacts, DropFacts DEF Handing
<1>3. \A e \in Enders : \/ refl'[e] = refl[e]
                        \/ refl[e].pc \notin Handing /\ refl'[e].pc \notin Handing
                        \/ /\ refl[e].pc \in Handing /\ refl'[e].pc \in Handing
                           /\ refl'[e].tr = refl[e].tr
  BY <1>0, <1>1, <1>2 DEF Alone, Stays
<1> QED
  BY <1>1, <1>3, HandStays, TidyStep

\* The watcher and the start-up pass have no hand: they queue before they claim.
LEMMA LedgerServer ==
  ASSUME ~Overlap, Lasting, TypeInv', Ledger!Write,
         Opens \/ WatchMove \/ BootMove \/ BecomeIdle \/ Recover \/ Serve \/ UNCHANGED vars
  PROVE  Ledger!Next
<1>0. TypeInv /\ Base /\ Exclusive
  BY DEF Lasting, Base
<1>1. Watcher \in Runners \ Enders /\ Boot \in Runners \ Enders /\ Enders \subseteq Runners
  BY RunnersType, RunnersDistinct
<1>2. CASE Opens
  <2>1. UNCHANGED <<owed, reflected, skipped>>
    BY <1>0, <1>2, OpenFacts DEF Opens, ghosts
  <2>2. \A e \in Enders : refl'[e] = refl[e] \/
          (refl[e].pc \in {"idle", "closing"} /\ refl'[e].pc \in {"opened", "done"})
    BY <1>0, <1>1, <1>2, OpenFacts DEF Opens
  <2>3. \A e \in Enders : refl'[e] = refl[e] \/
          (refl[e].pc \notin Handing /\ refl'[e].pc \notin Handing)
    BY <2>2 DEF Handing
  <2> QED BY <2>1, <2>3, HandStays, TidyStep
<1>3. CASE WatchMove \/ BootMove
  <2>1. UNCHANGED <<owed, reflected, skipped>>
    BY <1>3, MoveFacts
    DEF WatchMove, WatchSnapshot, WatchQueue, WatchClaim, WatchReflected, WatchRaise, WatchPop, Unlink,
        BootMove, CatchUp, CatchUpReflected, CatchUpRaise, ghosts
  <2>2. Alone(Watcher) \/ Alone(Boot)
    <3>1. WatchSnapshot => Alone(Watcher)
      BY <1>0, WatchSnapshotSet DEF Alone
    <3>2. WatchMove => Alone(Watcher)
      BY <1>0, <3>1, WatchMoves DEF WatchMove
    <3>3. BootMove => Alone(Boot)
      BY <1>0, OtherMoves DEF BootMove
    <3> QED BY <1>3, <3>2, <3>3
  <2>3. \A e \in Enders : refl'[e] = refl[e]
    BY <1>1, <2>2 DEF Alone
  <2> QED BY <2>1, <2>3, HandStays, TidyStep
<1>4. CASE BecomeIdle \/ Recover \/ Serve \/ UNCHANGED vars
  <2>1. UNCHANGED <<refl, owed, reflected, skipped>>
    BY <1>4 DEF BecomeIdle, Recover, Serve, vars, ghosts
  <2> QED BY <2>1, HandStays, TidyStep
<1> QED
  BY <1>2, <1>3, <1>4

LEMMA LedgerCrash ==
  ASSUME Lasting, Crash
  PROVE  Ledger!Next
<1>1. UNCHANGED <<row, file, pending, reflected, skipped>> /\ owed' = owed \ (Unsaved \ OnDisk)
  BY DEF Crash
<1>2. OnDisk' = OnDisk /\ {t \in Turns : Dealt(t)}' = {t \in Turns : Dealt(t)}
  BY <1>1 DEF OnDisk, InQueue, Stored, Dealt
<1>3. Unsaved' = {}
  <2>1. \A e \in Enders : refl'[e].pc \in {"idle", "done"}
    BY RunnersType, CrashSet DEF Lasting, Base, Emptied
  <2>2. \A e \in Enders : refl'[e].pc \notin Handing
    BY <2>1 DEF Handing
  <2> QED BY <2>2 DEF Unsaved
<1>4. Ledger!Crash
  BY <1>1, <1>2, <1>3 DEF Ledger!Crash
<1> QED
  BY <1>4 DEF Ledger!Next

LEMMA LedgerStep ==
  ASSUME ~Overlap, MaxFault = 0
  PROVE  Lasting /\ Lasting' /\ [Next]_vars => [Ledger!Next]_(Ledger!vars)
<1> SUFFICES ASSUME Lasting, Lasting', [Next]_vars PROVE Ledger!Next
  OBVIOUS
<1>1. TypeInv' /\ DurableTurn'
  <2>1. DurableTurn'
    BY LastingDurable, PTL
  <2> QED BY <2>1 DEF Lasting, Base
<1>2. Ledger!Write
  BY <1>1, WriteStep
<1>3. Opens \/ WatchMove \/ BootMove \/ BecomeIdle \/ Recover \/ Serve \/ UNCHANGED vars => Ledger!Next
  BY <1>1, <1>2, LedgerServer
<1>4. (\E t \in Turns : ChatFail(t) \/ ChatStep(t)) => Ledger!Next
  BY <1>2, LedgerChat
<1>5. (\E r \in Runners : Pops(r)) \/ (\E r \in Runners : Drops(r)) => Ledger!Next
  BY <1>2, LedgerDelete
<1>6. (\E e \in Enders : EndMove(e)) \/ (\E r \in Runners : ReflectApply(r)) \/ Crash => Ledger!Next
  BY <1>2, LedgerEnd, LedgerApply, LedgerCrash
<1> QED
  BY <1>3, <1>4, <1>5, <1>6, StepKinds

LEMMA LedgerInit == Init => Ledger!Init
<1> SUFFICES ASSUME Init PROVE Ledger!Init
  OBVIOUS
<1>1. \A e \in Enders : refl[e].pc = "idle"
  BY RunnersType DEF Init, NoRefl
<1>2. Unsaved = {}
  BY <1>1 DEF Unsaved, Handing
<1>3. OnDisk = {}
  BY DEF Init, OnDisk, InQueue, Stored
<1>4. \A t \in Turns : ~Dealt(t)
  BY DEF Init, Dealt
<1> QED
  BY <1>2, <1>3, <1>4 DEF Init, Ledger!Init

\* The session store, the transcript queue and the reflections together do what
\* ReflectionLedger says, step by step, whatever the end handlers, the watcher, the
\* start-up pass, the steps of a deletion and crashes interleave to: a promised turn
\* leaves the disk only into the hand of end_session or once a reflection has dealt with
\* it; only a crash in that hand takes the promise back; and reflections deal with
\* nothing but what is on the disk.  The assumptions are those of AnsweredTurnSurvives.
THEOREM LedgerIsKept ==
  ASSUME ~Overlap, MaxFault = 0
  PROVE  Spec => LedgerKept
<1>1. Init => Ledger!Init
  BY LedgerInit
<1>2. Lasting /\ Lasting' /\ [Next]_vars => [Ledger!Next]_(Ledger!vars)
  BY LedgerStep
<1> QED
  BY <1>1, <1>2, LastingHolds, PTL DEF Spec, LedgerKept, Ledger!Spec
================================================================================
