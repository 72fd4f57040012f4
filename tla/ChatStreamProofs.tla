--------------------------- MODULE ChatStreamProofs ---------------------------
(***************************************************************************)
(* For any number of messages, of pieces of a reply and of lost             *)
(* connections: ChatStream keeps its types; the screen shows the reply that *)
(* is on record, or its beginning; the record is in order, and the session  *)
(* remembers what was settled, as long as no connection was lost.  And as   *)
(* long as connections do not break after the last event, one reply streams *)
(* at a time and every step is a step of ChatReply or changes nothing there.*)
(***************************************************************************)
EXTENDS ChatStream, TLAPS

-----------------------------------------------------------------------------
(* Sequences. *)

LEMMA UptoType ==
  ASSUME NEW n \in 0..MaxChunks
  PROVE  Upto(n) \in Seq(1..MaxChunks)
<1>1. n \in Nat
  BY BoundsOK
<1>2. \A i \in 1..n : i \in 1..MaxChunks
  BY BoundsOK
<1> QED
  BY <1>1, <1>2 DEF Upto

LEMMA EmptyType == <<>> \in Seq(1..MaxChunks)
OBVIOUS

LEMMA LenZero ==
  ASSUME NEW S, NEW s \in Seq(S), Len(s) = 0
  PROVE  s = <<>>
OBVIOUS

LEMMA AppendFacts ==
  ASSUME NEW S, NEW s \in Seq(S), NEW x \in S
  PROVE  /\ Append(s, x) \in Seq(S)
         /\ Len(Append(s, x)) = Len(s) + 1
         /\ Append(s, x)[Len(s) + 1] = x
         /\ \A i \in 1..Len(s) : Append(s, x)[i] = s[i]
  OBVIOUS

LEMMA TailFacts ==
  ASSUME NEW S, NEW s \in Seq(S), s # <<>>
  PROVE  /\ Head(s) \in S
         /\ Head(s) = s[1]
         /\ Tail(s) \in Seq(S)
         /\ Len(s) \in Nat \ {0}
         /\ Len(Tail(s)) = Len(s) - 1
         /\ \A i \in 1..Len(Tail(s)) : Tail(s)[i] = s[i + 1]
  OBVIOUS

-----------------------------------------------------------------------------
(* Types. *)

(* What each group of variables must be. *)
ClientOK ==
  /\ client \in Clients
  /\ sent \in 0..MaxTurns
  /\ streaming \in BOOLEAN
  /\ bubble \in [Turns -> Bubble]

NetOK ==
  /\ conn \in [Turns -> {"none", "open", "broken", "over"}]
  /\ wire \in [Turns -> Seq(Event)]

GenOK == gen \in [Turns -> GenStates] /\ copy \in [Turns -> Seq(Turns)]

ProdOK ==
  /\ prod \in [Turns -> {"none", "running", "ended"}]
  /\ fullText \in [Turns -> 0..MaxChunks]
  /\ queue \in [Turns -> Seq(Item)]

StoreOK == log \in Seq(Row) /\ session \in Seq(Turns)

LostOK == lost \in 0..MaxLost

LEMMA TypeParts == TypeOK <=> ClientOK /\ NetOK /\ GenOK /\ ProdOK /\ StoreOK /\ LostOK
BY DEF TypeOK, ClientOK, NetOK, GenOK, ProdOK, StoreOK, LostOK

LEMMA YieldType ==
  ASSUME NetOK, NEW t \in Turns, NEW kind, NEW n,
         [kind |-> kind, n |-> n] \in Event, Yield(t, kind, n)
  PROVE  NetOK'
BY AppendFacts DEF NetOK, Yield

LEMMA GotoType ==
  ASSUME GenOK, NEW t \in Turns, NEW pc \in GenStates, Goto(t, pc), UNCHANGED copy
  PROVE  GenOK'
BY DEF GenOK, Goto

LEMMA LogType ==
  ASSUME StoreOK, NEW t \in Turns, NEW role \in {"user", "assistant"}, NEW n \in 0..MaxChunks,
         LogRow(t, role, n), UNCHANGED session
  PROVE  StoreOK'
BY DEF StoreOK, LogRow, Row

LEMMA InstallType ==
  ASSUME StoreOK, GenOK, NEW t \in Turns, Install(t), UNCHANGED log
  PROVE  StoreOK'
BY DEF StoreOK, GenOK, Install

LEMMA ShowType ==
  ASSUME ClientOK, NEW t \in Turns,
         NEW state \in BubbleStates,
         NEW text \in Seq(1..MaxChunks), Show(t, state, text),
         UNCHANGED <<client, sent>>, streaming' \in BOOLEAN
  PROVE  ClientOK'
BY DEF ClientOK, Show, Bubble

LEMMA HandOverType ==
  ASSUME ProdOK, NEW t \in Turns, NEW kind, NEW n,
         [kind |-> kind, n |-> n] \in Item, HandOver(t, kind, n)
  PROVE  queue' \in [Turns -> Seq(Item)]
BY DEF ProdOK, HandOver

(* The numbers on events and items are in range. *)
LEMMA Kinds ==
  ASSUME NEW n \in 0..MaxChunks
  PROVE  /\ \A kind \in {"status", "done", "silent", "error"} : [kind |-> kind, n |-> n] \in Event
         /\ \A kind \in {"status", "done", "silent", "error"} : [kind |-> kind, n |-> 0] \in Event
         /\ \A kind \in {"done", "error"} : [kind |-> kind, n |-> 0] \in Item
         /\ n # 0 => [kind |-> "token", n |-> n] \in Event \cap Item
BY BoundsOK DEF Event, Item, Token

LEMMA TypeInit == Init => TypeOK
<1> SUFFICES ASSUME Init PROVE TypeOK
  OBVIOUS
<1>1. ClientOK
  <2>1. [state |-> "none", text |-> <<>>] \in Bubble
    BY EmptyType DEF Bubble, BubbleStates
  <2>2. bubble \in [Turns -> Bubble]
    BY <2>1 DEF Init
  <2>3. client \in Clients /\ sent \in 0..MaxTurns
    BY BoundsOK DEF Init
  <2>4. streaming \in BOOLEAN
    BY DEF Init
  <2> QED
    BY <2>2, <2>3, <2>4 DEF ClientOK
<1>2. NetOK /\ GenOK
  BY DEF Init, NetOK, GenOK, GenStates
<1>3. ProdOK /\ StoreOK /\ LostOK
  BY BoundsOK DEF Init, ProdOK, StoreOK, LostOK
<1> QED
  BY <1>1, <1>2, <1>3, TypeParts

(* The generator's steps keep the types. *)
LEMMA ServeType ==
  ASSUME TypeOK, NEW t \in Turns, Serve(t)
  PROVE  TypeOK'
<1> USE DEF clientVars, netVars, prodVars, storeVars
<1>0. ClientOK /\ NetOK /\ GenOK /\ ProdOK /\ StoreOK /\ LostOK
  BY TypeParts
<1>g. \A pc \in GenStates : Goto(t, pc) /\ UNCHANGED copy => GenOK'
  BY <1>0, GotoType
<1>n. fullText[t] \in 0..MaxChunks /\ 0 \in 0..MaxChunks
  BY <1>0, BoundsOK DEF ProdOK
<1>y. \A kind \in {"status", "done", "silent", "error"}, n \in {0, fullText[t]} :
        Yield(t, kind, n) => NetOK'
  BY <1>0, <1>n, Kinds, YieldType
<1>s. UNCHANGED storeVars => StoreOK'
  BY <1>0 DEF StoreOK
<1>p. UNCHANGED prodVars => ProdOK'
  BY <1>0 DEF ProdOK
<1>w. UNCHANGED netVars => NetOK'
  BY <1>0 DEF NetOK
<1>c. UNCHANGED clientVars /\ UNCHANGED lost
  BY DEF Serve, Refuse, Accept, LogQuestion, GraphFails, Silence, StartProducer, Take, TimeOut,
         StoreReply, Finish
<1>cl. ClientOK' /\ LostOK'
  BY <1>0, <1>c DEF ClientOK, LostOK
<1> SUFFICES NetOK' /\ GenOK' /\ ProdOK' /\ StoreOK'
  BY <1>cl, TypeParts, PTL
<1>1. CASE Refuse(t) \/ GraphFails(t) \/ TimeOut(t)
  BY <1>1, <1>g, <1>y, <1>s, <1>p DEF Refuse, GraphFails, TimeOut, GenStates
<1>2. CASE Accept(t)
  BY <1>2, <1>0, <1>s, <1>p, <1>w DEF Accept, Goto, GenOK, GenStates, StoreOK
<1>3. CASE LogQuestion(t)
  BY <1>3, <1>0, <1>n, <1>g, <1>p, <1>w, LogType DEF LogQuestion, GenStates
<1>4. CASE Silence(t)
  BY <1>4, <1>0, <1>g, <1>y, <1>p, InstallType DEF Silence, GenStates
<1>5. CASE StartProducer(t)
  BY <1>5, <1>0, <1>g, <1>s, <1>w DEF StartProducer, GenStates, ProdOK
<1>6. CASE Take(t)
  <2>1. ProdOK' /\ StoreOK' /\ UNCHANGED copy
    BY <1>6, <1>0, <1>s, TailFacts DEF Take, ProdOK
  <2>2. Head(queue[t]) \in Item
    BY <1>6, <1>0, TailFacts DEF Take, ProdOK
  <2> DEFINE item == Head(queue[t])
  <2>3. CASE item.kind = "token" /\ Yield(t, "token", item.n) /\ UNCHANGED gen
    <3>1. [kind |-> "token", n |-> item.n] \in Event
      BY <2>2, <2>3 DEF Item, Event, Token
    <3> QED
      BY <3>1, <2>1, <2>3, <1>0, YieldType DEF GenOK
  <2>4. CASE Goto(t, "storing") /\ UNCHANGED netVars
    BY <2>1, <2>4, <1>g, <1>w DEF GenStates
  <2>5. CASE Yield(t, "error", 0) /\ Goto(t, "closed")
    BY <2>1, <2>5, <1>g, <1>y DEF GenStates
  <2> QED
    BY <2>3, <2>4, <2>5, <1>6 DEF Take
<1>7. CASE StoreReply(t)
  BY <1>7, <1>0, <1>n, <1>g, <1>p, <1>w, LogType DEF StoreReply, GenStates
<1>8. CASE Finish(t)
  BY <1>8, <1>0, <1>g, <1>y, <1>p, InstallType DEF Finish, GenStates
<1> QED
  BY <1>1, <1>2, <1>3, <1>4, <1>5, <1>6, <1>7, <1>8 DEF Serve

(* The producer's steps. *)
LEMMA ProduceType ==
  ASSUME TypeOK, NEW t \in Turns, ProduceToken(t) \/ ProduceEnd(t)
  PROVE  TypeOK'
<1> USE DEF clientVars, netVars, prodVars, storeVars
<1>0. ClientOK /\ NetOK /\ GenOK /\ ProdOK /\ StoreOK /\ LostOK
  BY TypeParts
<1>1. ClientOK' /\ NetOK' /\ GenOK' /\ StoreOK' /\ LostOK'
  BY <1>0 DEF ProduceToken, ProduceEnd, ClientOK, NetOK, GenOK, StoreOK, LostOK
<1>2. CASE ProduceToken(t)
  <2>1. fullText[t] + 1 \in 1..MaxChunks
    BY <1>2, <1>0, BoundsOK DEF ProduceToken, ProdOK
  <2>2. [kind |-> "token", n |-> fullText[t] + 1] \in Item
    BY <2>1 DEF Item, Token
  <2>3. queue' \in [Turns -> Seq(Item)]
    BY <2>2, <1>2, <1>0, HandOverType DEF ProduceToken
  <2>4. ProdOK'
    BY <2>1, <2>3, <1>2, <1>0, BoundsOK DEF ProduceToken, ProdOK
  <2> QED
    BY <1>1, <2>4, TypeParts, PTL
<1>3. CASE ProduceEnd(t)
  <2>1. PICK kind \in {"done", "error"} : HandOver(t, kind, 0)
    BY <1>3 DEF ProduceEnd
  <2>2. [kind |-> kind, n |-> 0] \in Item
    BY DEF Item
  <2>3. queue' \in [Turns -> Seq(Item)]
    BY <2>1, <2>2, <1>0, HandOverType
  <2>4. ProdOK'
    BY <2>3, <1>3, <1>0 DEF ProduceEnd, ProdOK
  <2> QED
    BY <1>1, <2>4, TypeParts, PTL
<1> QED
  BY <1>2, <1>3

(* What the client, the network and the framework do. *)
LEMMA ClientType ==
  ASSUME TypeOK, NEW t \in Turns,
         \/ Read(t) \/ Raise(t) \/ Cancel(t) \/ WriteOrphan(t)
         \/ EndOfStream(t) \/ Break(t) \/ Leave(t)
  PROVE  TypeOK'
<1> USE DEF clientVars, netVars, prodVars, storeVars
<1>0. ClientOK /\ NetOK /\ GenOK /\ ProdOK /\ StoreOK /\ LostOK
  BY TypeParts
<1>p. ProdOK'
  BY <1>0 DEF Read, Receive, ReadFails, Raise, Cancel, WriteOrphan, EndOfStream, Break, Leave, ProdOK
<1>u. /\ UNCHANGED clientVars => ClientOK'
      /\ UNCHANGED netVars => NetOK'
      /\ UNCHANGED <<gen, copy>> => GenOK'
      /\ UNCHANGED storeVars => StoreOK'
      /\ UNCHANGED lost => LostOK'
  BY <1>0 DEF ClientOK, NetOK, GenOK, StoreOK, LostOK
<1>t. bubble[t].text \in Seq(1..MaxChunks)
      /\ bubble[t].state \in BubbleStates
      /\ {"waiting", "final", "silent", "refused", "lost"} \subseteq BubbleStates
  BY <1>0 DEF ClientOK, Bubble, BubbleStates
<1>g. \A pc \in GenStates : Goto(t, pc) /\ UNCHANGED copy => GenOK'
  BY <1>0, GotoType
<1>l. lost < MaxLost /\ lost' = lost + 1 => LostOK'
  BY <1>0, BoundsOK DEF LostOK
<1> SUFFICES ClientOK' /\ NetOK' /\ GenOK' /\ StoreOK' /\ LostOK'
  BY <1>p, TypeParts, PTL
<1>1. CASE Receive(t)
  <2>1. NetOK' /\ Head(wire[t]) \in Event
    BY <1>1, <1>0, TailFacts DEF Receive, NetOK
  <2> DEFINE e == Head(wire[t])
  <2>2. CASE e.kind = "token" /\ Show(t, bubble[t].state, Append(bubble[t].text, e.n))
             /\ UNCHANGED streaming
    <3>1. e.n \in 1..MaxChunks
      BY <2>1, <2>2 DEF Event, Token
    <3>2. Append(bubble[t].text, e.n) \in Seq(1..MaxChunks)
      BY <3>1, <1>t
    <3>3. streaming' \in BOOLEAN
      BY <2>2, <1>0 DEF ClientOK
    <3> QED
      BY <3>2, <3>3, <2>1, <2>2, <1>1, <1>0, <1>t, <1>u, ShowType DEF Receive
  <2>3. CASE e.kind = "done" /\ streaming' = FALSE
             /\ Show(t, "final", IF client = "mobile" THEN Upto(e.n) ELSE bubble[t].text)
    <3>1. e.n \in 0..MaxChunks
      BY <2>1, <2>3 DEF Event, Token
    <3>2. (IF client = "mobile" THEN Upto(e.n) ELSE bubble[t].text) \in Seq(1..MaxChunks)
      BY <3>1, <1>t, UptoType
    <3> QED
      BY <3>2, <2>1, <2>3, <1>1, <1>0, <1>t, <1>u, ShowType DEF Receive
  <2>4. CASE streaming' = FALSE /\ \E s \in {"silent", "refused"} : Show(t, s, <<>>)
    BY <2>1, <2>4, <1>1, <1>0, <1>t, <1>u, ShowType, EmptyType DEF Receive
  <2> QED
    BY <2>2, <2>3, <2>4, <1>1 DEF Receive
<1>2. CASE ReadFails(t)
  <2>1. NetOK'
    BY <1>2, <1>0 DEF ReadFails, NetOK
  <2>2. PICK s \in BubbleStates, text \in Seq(1..MaxChunks) : Show(t, s, text)
    BY <1>2, <1>t, EmptyType DEF ReadFails
  <2> QED
    BY <2>1, <2>2, <1>2, <1>0, <1>u, ShowType DEF ReadFails
<1>3. CASE Raise(t)
  <2>1. NetOK'
    <3>1. CASE conn[t] = "open"
      <4>1. conn' = [conn EXCEPT ![t] = "broken"] /\ wire' = [wire EXCEPT ![t] = <<>>]
        BY <3>1, <1>3 DEF Raise
      <4> QED
        BY <4>1, <1>0 DEF NetOK
    <3>2. CASE conn[t] # "open"
      BY <3>2, <1>3, <1>u DEF Raise
    <3> QED
      BY <3>1, <3>2
  <2>2. GenOK'
    BY <1>3, <1>g DEF Raise, GenStates
  <2> QED
    BY <2>1, <2>2, <1>3, <1>l, <1>u DEF Raise
<1>4. CASE Cancel(t)
  <2>1. PICK pc \in GenStates : Goto(t, pc)
    BY <1>4 DEF Cancel, GenStates
  <2> QED
    BY <2>1, <1>4, <1>g, <1>u DEF Cancel
<1>5. CASE WriteOrphan(t)
  <2>1. fullText[t] \in 0..MaxChunks /\ 0 \in 0..MaxChunks
    BY <1>0, BoundsOK DEF ProdOK
  <2> QED
    BY <2>1, <1>5, <1>0, <1>g, <1>u, LogType DEF WriteOrphan, GenStates
<1>6. CASE EndOfStream(t)
  BY <1>6, <1>0, <1>u DEF EndOfStream, NetOK
<1>7. CASE Break(t)
  <2>1. NetOK'
    BY <1>7, <1>0 DEF Break, NetOK
  <2> QED
    BY <2>1, <1>7, <1>l, <1>u DEF Break
<1>8. CASE Leave(t)
  <2>1. NetOK'
    BY <1>8, <1>0 DEF Leave, NetOK
  <2>2. ClientOK'
    BY <1>8, <1>0, <1>t, ShowType DEF Leave
  <2> QED
    BY <2>1, <2>2, <1>8, <1>l, <1>u DEF Leave
<1> QED
  BY <1>1, <1>2, <1>3, <1>4, <1>5, <1>6, <1>7, <1>8 DEF Read

LEMMA SendType ==
  ASSUME TypeOK, Send
  PROVE  TypeOK'
<1>0. sent + 1 \in Turns /\ sent' \in 0..MaxTurns
  BY BoundsOK DEF TypeOK, Send, MaySend, Turns
<1>1. ClientOK'
  BY <1>0 DEF TypeOK, Send, ClientOK, Bubble, BubbleStates
<1>2. NetOK' /\ GenOK' /\ LostOK'
  BY <1>0 DEF TypeOK, Send, NetOK, GenOK, LostOK
<1>3. ProdOK' /\ StoreOK'
  BY DEF TypeOK, Send, ProdOK, StoreOK, prodVars, storeVars
<1> QED
  BY <1>1, <1>2, <1>3, TypeParts, PTL

LEMMA TypeStep == TypeOK /\ [Next]_vars => TypeOK'
<1> SUFFICES ASSUME TypeOK, [Next]_vars PROVE TypeOK'
  OBVIOUS
<1>1. CASE UNCHANGED vars
  BY <1>1 DEF vars, clientVars, netVars, prodVars, storeVars, TypeOK
<1>2. CASE Next
  BY <1>2, SendType, ServeType, ProduceType, ClientType DEF Next
<1> QED
  BY <1>1, <1>2

(* Whatever the network, the model and the user do, every variable keeps its *)
(* type, and no text on screen, wire or record is longer than a reply.       *)
THEOREM TypeCorrect == Spec => []TypeOK
BY TypeInit, TypeStep, PTL DEF Spec

-----------------------------------------------------------------------------
(* One reply at a time, and the promise. *)

(* The last event on a wire tells what is on record. *)
WireOK(t) ==
  \A i \in 1..Len(wire[t]) : wire[t][i].kind # "token" =>
    /\ i = Len(wire[t])
    /\ gen[t] = "closed"
    /\ wire[t][i].kind = "done" <=> t \in OnRecord

(* What holds of each turn: a client is told the outcome by a generator that *)
(* has stopped, and only a generator about to stop has a reply on record.    *)
TurnOK(t) ==
  /\ t > sent <=> conn[t] = "none"
  /\ bubble[t].state = "none" <=> conn[t] = "none"
  /\ conn[t] = "none" => gen[t] = "none" /\ wire[t] = <<>>
  /\ conn[t] = "broken" => Waiting(t)
  /\ conn[t] = "open" /\ ~Waiting(t) => gen[t] = "closed" /\ wire[t] = <<>>
  /\ bubble[t].state \in {"final", "silent", "refused"} => gen[t] = "closed"
  /\ t \in OnRecord => gen[t] \in {"finishing", "closed"}
  /\ gen[t] = "finishing" => t \in OnRecord
  /\ WireOK(t)

TurnsOK == \A t \in Turns : TurnOK(t)

(* A row for the user's message leaves the record of replies alone, a row    *)
(* for Anjo's adds its turn.                                                 *)
LEMMA LogUser ==
  ASSUME TypeOK, NEW t \in Turns, LogRow(t, "user", 0)
  PROVE  OnRecord' = OnRecord
<1>1. log \in Seq(Row) /\ [role |-> "user", turn |-> t, n |-> 0] \in Row
  BY BoundsOK DEF TypeOK, Row
<1> QED
  BY <1>1, AppendFacts DEF LogRow, OnRecord

LEMMA LogReply ==
  ASSUME TypeOK, NEW t \in Turns, LogRow(t, "assistant", fullText[t])
  PROVE  OnRecord' = OnRecord \cup {t}
<1> DEFINE row == [role |-> "assistant", turn |-> t, n |-> fullText[t]]
<1>1. log \in Seq(Row) /\ row \in Row
  BY DEF TypeOK, Row
<1>2. /\ Len(log') = Len(log) + 1 /\ Len(log) \in Nat
      /\ log'[Len(log) + 1] = row
      /\ \A i \in 1..Len(log) : log'[i] = log[i]
  BY <1>1, AppendFacts DEF LogRow
<1>3. row.role = "assistant" /\ row.turn = t
  OBVIOUS
<1> HIDE DEF row
<1> QED
  BY <1>2, <1>3 DEF OnRecord

LEMMA LogSame == UNCHANGED log => OnRecord' = OnRecord
BY DEF OnRecord

(* The steps of one turn. *)
TurnStep(t) ==
  \/ Serve(t) \/ Read(t)
  \/ ProduceToken(t) \/ ProduceEnd(t)
  \/ Raise(t) \/ Cancel(t) \/ WriteOrphan(t)
  \/ EndOfStream(t) \/ Break(t) \/ Leave(t)

(* A step of one turn adds no other turn's reply to the record ... *)
LEMMA StepRecord ==
  ASSUME TypeOK, NEW t \in Turns, TurnStep(t)
  PROVE  \/ OnRecord' = OnRecord
         \/ gen[t] \in {"storing", "orphan reply"} /\ OnRecord' = OnRecord \cup {t}
<1> USE DEF storeVars
<1>1. CASE UNCHANGED log
  BY <1>1, LogSame
<1>2. CASE LogQuestion(t) \/ StoreReply(t) \/ WriteOrphan(t)
  BY <1>2, LogUser, LogReply DEF LogQuestion, StoreReply, WriteOrphan
<1> QED
  BY <1>1, <1>2 DEF TurnStep, Serve, Read, Refuse, Accept, GraphFails, Silence, StartProducer,
     Take, TimeOut, Finish, Receive, ReadFails, ProduceToken, ProduceEnd, Raise, Cancel,
     EndOfStream, Break, Leave

(* ... and moves nothing else of theirs. *)
LEMMA StepFrame ==
  ASSUME TypeOK, NEW t \in Turns, TurnStep(t), NEW u \in Turns \ {t}
  PROVE  /\ sent' = sent
         /\ bubble'[u] = bubble[u]
         /\ conn'[u] = conn[u] /\ wire'[u] = wire[u]
         /\ gen'[u] = gen[u]
<1> USE DEF TypeOK, clientVars, netVars, Yield, Goto, Show
<1>1. CASE Serve(t)
  BY <1>1 DEF Serve, Refuse, Accept, LogQuestion, GraphFails, Silence, StartProducer, Take,
     TimeOut, StoreReply, Finish
<1>2. CASE Read(t)
  BY <1>2 DEF Read, Receive, ReadFails
<1>3. CASE ProduceToken(t) \/ ProduceEnd(t)
  BY <1>3 DEF ProduceToken, ProduceEnd
<1>4. CASE Raise(t) \/ Cancel(t) \/ WriteOrphan(t)
  BY <1>4 DEF Raise, Cancel, WriteOrphan
<1>5. CASE EndOfStream(t) \/ Break(t) \/ Leave(t)
  BY <1>5 DEF EndOfStream, Break, Leave
<1> QED
  BY <1>1, <1>2, <1>3, <1>4, <1>5 DEF TurnStep

LEMMA Others ==
  ASSUME TypeOK, TurnsOK, NEW t \in Turns, TurnStep(t), NEW u \in Turns \ {t}
  PROVE  TurnOK(u)'
<1>1. u \in OnRecord' <=> u \in OnRecord
  BY StepRecord
<1> QED
  BY <1>1, StepFrame DEF TurnsOK, TurnOK, WireOK, Waiting

(* A generator that yields leaves the wire in order: a last event is the     *)
(* first of its kind, for the generator had not stopped, and says what is    *)
(* on record.                                                                *)
LEMMA YieldWire ==
  ASSUME TypeOK, NEW t \in Turns, WireOK(t), gen[t] # "closed",
         NEW kind, NEW n, [kind |-> kind, n |-> n] \in Event, Yield(t, kind, n),
         kind # "token" => gen'[t] = "closed" /\ (kind = "done" <=> t \in OnRecord')
  PROVE  WireOK(t)' /\ UNCHANGED conn /\ (conn[t] # "open" => UNCHANGED wire)
<1> DEFINE e == [kind |-> kind, n |-> n]
<1>1. \A i \in 1..Len(wire[t]) : wire[t][i].kind = "token"
  BY DEF WireOK
<1>2. wire \in [Turns -> Seq(Event)] /\ e.kind = kind
  BY DEF TypeOK
<1>3. CASE conn[t] = "open"
  <2>1. wire'[t] = Append(wire[t], e)
    BY <1>2, <1>3 DEF Yield
  <2> HIDE DEF e
  <2>2. /\ Len(wire'[t]) = Len(wire[t]) + 1 /\ Len(wire[t]) \in Nat
        /\ wire'[t][Len(wire[t]) + 1] = e
        /\ \A i \in 1..Len(wire[t]) : wire'[t][i] = wire[t][i]
    BY <2>1, <1>2, AppendFacts DEF e
  <2>3. \A i \in 1..Len(wire'[t]) : wire'[t][i].kind # "token" =>
           i = Len(wire'[t]) /\ wire'[t][i].kind = kind
    BY <2>2, <1>1, <1>2
  <2> QED
    BY <2>3, <1>3 DEF WireOK, Yield
<1>4. CASE conn[t] # "open"
  BY <1>1, <1>4 DEF WireOK, Yield
<1> QED
  BY <1>3, <1>4

(* What the steps of the server leave of a turn. *)
LEMMA ServeTurn ==
  ASSUME TypeOK, NEW t \in Turns, TurnOK(t), Serve(t)
  PROVE  TurnOK(t)'
<1> USE DEF clientVars, netVars
<1>0. /\ gen \in [Turns -> GenStates] /\ fullText[t] \in 0..MaxChunks
      /\ queue[t] \in Seq(Item) /\ WireOK(t)
      /\ UNCHANGED <<sent, bubble>>
  BY DEF TypeOK, TurnOK, Serve, Refuse, Accept, LogQuestion, GraphFails, Silence, StartProducer,
     Take, TimeOut, StoreReply, Finish
<1>k. /\ \A kind \in {"status", "done", "silent", "error"} :
           {[kind |-> kind, n |-> 0], [kind |-> kind, n |-> fullText[t]]} \subseteq Event
  BY <1>0, Kinds
<1>y. ASSUME NEW kind \in {"status", "silent", "error"}, Yield(t, kind, 0), Goto(t, "closed"),
             gen[t] \in {"none", "graph", "streaming"}, conn[t] # "none", UNCHANGED log
      PROVE  TurnOK(t)'
  <2>1. gen'[t] = "closed" /\ OnRecord' = OnRecord /\ t \notin OnRecord
    BY <1>y, <1>0, LogSame DEF Goto, TurnOK
  <2>2. WireOK(t)' /\ UNCHANGED conn /\ (conn[t] # "open" => UNCHANGED wire)
    BY <2>1, <1>y, <1>0, <1>k, YieldWire
  <2> QED
    BY <2>1, <2>2, <1>y, <1>0 DEF TurnOK, Waiting
<1>1. CASE Refuse(t) \/ GraphFails(t) \/ Silence(t) \/ TimeOut(t)
  <2>1. conn[t] # "none" /\ UNCHANGED log
    BY <1>1 DEF Refuse, GraphFails, Silence, TimeOut, TurnOK, storeVars
  <2> QED
    BY <1>1, <1>y, <2>1 DEF Refuse, GraphFails, Silence, TimeOut
<1>2. CASE Accept(t) \/ LogQuestion(t) \/ StartProducer(t)
  <2>1. OnRecord' = OnRecord
    BY <1>2, LogUser, LogSame DEF Accept, LogQuestion, StartProducer, storeVars
  <2>2. UNCHANGED <<conn, wire>>
    BY <1>2 DEF Accept, LogQuestion, StartProducer
  <2>3. gen[t] \in {"none", "question", "graph"} /\ gen'[t] \in {"question", "graph", "streaming"}
        /\ conn[t] # "none"
    BY <1>2, <1>0 DEF Accept, LogQuestion, StartProducer, Goto, TurnOK
  <2> QED
    BY <2>1, <2>2, <2>3, <1>0 DEF TurnOK, WireOK, Waiting
<1>3. CASE Take(t)
  <2>1. OnRecord' = OnRecord /\ gen[t] = "streaming" /\ UNCHANGED log /\ conn[t] # "none"
    BY <1>3, LogSame DEF Take, storeVars, TurnOK
  <2>2. Head(queue[t]) \in Item
    BY <1>3, <1>0, TailFacts DEF Take
  <2> DEFINE item == Head(queue[t])
  <2>3. CASE item.kind = "token" /\ Yield(t, "token", item.n) /\ UNCHANGED gen
    <3>1. [kind |-> "token", n |-> item.n] \in Event
      BY <2>2, <2>3 DEF Item, Event, Token
    <3>2. WireOK(t)' /\ UNCHANGED conn /\ (conn[t] # "open" => UNCHANGED wire)
      BY <3>1, <2>1, <2>3, <1>0, YieldWire
    <3> QED
      BY <3>2, <2>1, <2>3, <1>0 DEF TurnOK, Waiting
  <2>4. CASE Goto(t, "storing") /\ UNCHANGED netVars
    <3>1. gen'[t] = "storing"
      BY <2>4, <1>0 DEF Goto
    <3> QED
      BY <3>1, <2>1, <2>4, <1>0 DEF TurnOK, WireOK, Waiting
  <2>5. CASE Yield(t, "error", 0) /\ Goto(t, "closed")
    BY <2>1, <2>5, <1>y
  <2> QED
    BY <2>3, <2>4, <2>5, <1>3 DEF Take
<1>4. CASE StoreReply(t)
  <2>1. OnRecord' = OnRecord \cup {t} /\ gen[t] = "storing" /\ gen'[t] = "finishing"
    BY <1>4, <1>0, LogReply DEF StoreReply, Goto
  <2> QED
    BY <2>1, <1>4, <1>0 DEF StoreReply, TurnOK, WireOK, Waiting
<1>5. CASE Finish(t)
  <2>1. gen[t] = "finishing" /\ gen'[t] = "closed" /\ OnRecord' = OnRecord /\ t \in OnRecord
    BY <1>5, <1>0, LogSame DEF Finish, Goto, TurnOK
  <2>2. WireOK(t)' /\ UNCHANGED conn /\ (conn[t] # "open" => UNCHANGED wire)
    BY <2>1, <1>5, <1>0, <1>k, YieldWire DEF Finish
  <2> QED
    BY <2>1, <2>2, <1>0 DEF TurnOK, Waiting
<1> QED
  BY <1>1, <1>2, <1>3, <1>4, <1>5 DEF Serve

(* What the client's, the network's and the framework's leave of it. *)
LEMMA ClientTurn ==
  ASSUME ~LateBreak, TypeOK, NEW t \in Turns, TurnOK(t),
         \/ Read(t) \/ ProduceToken(t) \/ ProduceEnd(t)
         \/ Raise(t) \/ Cancel(t) \/ WriteOrphan(t)
         \/ EndOfStream(t) \/ Break(t) \/ Leave(t)
  PROVE  TurnOK(t)'
<1> USE DEF clientVars, netVars, prodVars, storeVars, TurnOK, Waiting, Show, Goto
<1>0. /\ gen \in [Turns -> GenStates] /\ conn \in [Turns -> {"none", "open", "broken", "over"}]
      /\ wire \in [Turns -> Seq(Event)] /\ bubble \in [Turns -> Bubble]
      /\ sent' = sent
  BY DEF TypeOK, Read, Receive, ReadFails, ProduceToken, ProduceEnd, Raise, Cancel, WriteOrphan,
     EndOfStream, Break, Leave
<1>w. WireOK(t) /\ wire[t] \in Seq(Event)
  BY <1>0
<1>e. wire'[t] = <<>> => WireOK(t)'
  BY DEF WireOK
<1>1. CASE Receive(t)
  <2>1. OnRecord' = OnRecord /\ UNCHANGED <<gen, conn>> /\ conn[t] = "open" /\ wire[t] # <<>>
    BY <1>1, LogSame DEF Receive
  <2>2. /\ Head(wire[t]) = wire[t][1] /\ wire'[t] = Tail(wire[t]) /\ Len(wire[t]) \in Nat \ {0}
        /\ Len(wire'[t]) = Len(wire[t]) - 1
        /\ \A i \in 1..Len(wire'[t]) : wire'[t][i] = wire[t][i + 1]
    BY <1>1, <1>0, TailFacts DEF Receive
  <2>3. WireOK(t)'
    BY <2>1, <2>2, <1>w DEF WireOK
  <2>4. CASE Head(wire[t]).kind = "token"
    <3>1. bubble'[t].state = bubble[t].state
      BY <2>4, <1>1, <1>0 DEF Receive
    <3> QED
      BY <3>1, <2>1, <2>3, <1>0
  <2>5. CASE Head(wire[t]).kind # "token"
    <3>0. 1 \in 1..Len(wire[t]) /\ wire[t][1].kind # "token"
      BY <2>2, <2>5
    <3>1. Len(wire[t]) = 1 /\ gen[t] = "closed"
      BY <3>0, <1>w DEF WireOK
    <3>2. wire'[t] \in Seq(Event)
      BY <1>1, <1>0, TailFacts DEF Receive
    <3>3. wire'[t] = <<>>
      <4>1. Len(wire'[t]) = 0
        BY <3>1, <2>2
      <4> QED
        BY <4>1, <3>2, LenZero
    <3>4. bubble'[t].state \in {"final", "silent", "refused"}
      <4>1. PICK s \in {"final", "silent", "refused"} : \E x : Show(t, s, x)
        BY <2>5, <1>1 DEF Receive
      <4> QED
        BY <4>1, <1>0
    <3> QED
      BY <3>1, <3>3, <3>4, <2>1, <2>3, <1>0
  <2> QED
    BY <2>4, <2>5
<1>2. CASE ReadFails(t)
  <2>1. conn[t] = "broken" /\ conn'[t] = "over" /\ bubble'[t].state = "lost"
    BY <1>2, <1>0 DEF ReadFails
  <2> QED
    BY <2>1, <1>2, <1>0, <1>w, LogSame DEF ReadFails, WireOK
<1>3. CASE ProduceToken(t) \/ ProduceEnd(t)
  BY <1>3, <1>w, LogSame DEF ProduceToken, ProduceEnd, WireOK
<1>4. CASE Raise(t)
  <2>1. gen'[t] = "closed" /\ gen[t] \in {"question", "storing"} /\ OnRecord' = OnRecord
    BY <1>4, <1>0, LogSame DEF Raise
  <2>2. t \notin OnRecord /\ UNCHANGED bubble
    BY <2>1, <1>4 DEF Raise
  <2>3. CASE conn[t] = "open"
    <3>1. conn'[t] = "broken" /\ wire'[t] = <<>>
      BY <2>3, <1>4, <1>0 DEF Raise
    <3> QED
      BY <3>1, <2>1, <2>2, <2>3, <1>0, <1>e
  <2>4. CASE conn[t] # "open"
    <3>1. UNCHANGED <<conn, wire>>
      BY <2>4, <1>4 DEF Raise
    <3> QED
      BY <3>1, <2>1, <2>2, <1>0, <1>w DEF WireOK
  <2> QED
    BY <2>3, <2>4
<1>5. CASE Cancel(t)
  <2>1. /\ gen'[t] \in {"closed", "orphan question", "orphan reply"}
        /\ gen[t] \in {"question", "graph", "streaming", "storing", "finishing"}
        /\ gen'[t] = "closed" \/ gen[t] # "finishing"
        /\ conn[t] \in {"broken", "over"}
        /\ OnRecord' = OnRecord /\ UNCHANGED <<bubble, conn, wire>>
    BY <1>5, <1>0, LogSame DEF Cancel
  <2> QED
    BY <2>1, <1>0, <1>w DEF WireOK
<1>6. CASE WriteOrphan(t)
  <2>1. /\ gen'[t] = "closed" /\ gen[t] \in {"orphan question", "orphan reply"}
        /\ OnRecord' \in {OnRecord, OnRecord \cup {t}}
        /\ UNCHANGED <<bubble, conn, wire>>
    BY <1>6, <1>0, LogUser, LogReply DEF WriteOrphan
  <2> QED
    BY <2>1, <1>0, <1>w DEF WireOK
<1>7. CASE EndOfStream(t)
  <2>1. conn[t] = "open" /\ conn'[t] = "over" /\ UNCHANGED <<bubble, gen, wire>>
        /\ OnRecord' = OnRecord
    BY <1>7, <1>0, LogSame DEF EndOfStream
  <2> QED
    BY <2>1, <1>0, <1>w DEF WireOK
<1>8. CASE Break(t)
  <2>1. /\ conn[t] = "open" /\ conn'[t] = "broken" /\ wire'[t] = <<>> /\ Waiting(t)
        /\ UNCHANGED <<bubble, gen>> /\ OnRecord' = OnRecord
    BY <1>8, <1>0, LogSame DEF Break
  <2> QED
    BY <2>1, <1>0, <1>e
<1>9. CASE Leave(t)
  <2>1. /\ conn[t] = "open" /\ conn'[t] = "over" /\ wire'[t] = <<>> /\ bubble'[t].state = "lost"
        /\ UNCHANGED gen /\ OnRecord' = OnRecord
    BY <1>9, <1>0, LogSame DEF Leave
  <2> QED
    BY <2>1, <1>0, <1>e
<1> QED
  BY <1>1, <1>2, <1>3, <1>4, <1>5, <1>6, <1>7, <1>8, <1>9 DEF Read

(* A turn begins. *)
LEMMA SendTurn ==
  ASSUME TypeOK, TurnsOK, Send, NEW t \in Turns
  PROVE  TurnOK(t)'
<1>1. /\ sent \in Nat /\ sent' = sent + 1 /\ sent + 1 \in Turns
      /\ UNCHANGED <<gen, wire>> /\ OnRecord' = OnRecord
  BY LogSame, BoundsOK DEF TypeOK, Send, MaySend, storeVars, Turns
<1>2. TurnOK(t)
  BY DEF TurnsOK
<1>3. CASE t = sent + 1
  <2>1. conn'[t] = "open" /\ bubble'[t].state = "waiting" /\ conn[t] = "none"
    BY <1>1, <1>2, <1>3 DEF TypeOK, Send, TurnOK, Bubble
  <2> QED
    BY <1>1, <1>2, <1>3, <2>1 DEF TurnOK, WireOK, Waiting
<1>4. CASE t # sent + 1
  <2>1. conn'[t] = conn[t] /\ bubble'[t] = bubble[t]
    BY <1>4 DEF TypeOK, Send
  <2>2. t > sent' <=> t > sent
    BY <1>1, <1>4 DEF Turns
  <2> QED
    BY <1>1, <1>2, <2>1, <2>2 DEF TurnOK, WireOK, Waiting
<1> QED
  BY <1>3, <1>4

LEMMA TurnsInit == Init => TurnsOK
<1> SUFFICES ASSUME Init, NEW t \in Turns PROVE TurnOK(t)
  BY DEF TurnsOK
<1>1. OnRecord = {}
  BY DEF Init, OnRecord
<1>2. conn[t] = "none" /\ gen[t] = "none" /\ wire[t] = <<>> /\ bubble[t].state = "none"
  BY DEF Init
<1>3. t > sent
  BY BoundsOK DEF Init, Turns
<1> QED
  BY <1>1, <1>2, <1>3 DEF TurnOK, WireOK, Waiting

LEMMA TurnsStep ==
  ASSUME ~LateBreak, TypeOK, TurnsOK, [Next]_vars
  PROVE  TurnsOK'
<1> SUFFICES ASSUME NEW u \in Turns PROVE TurnOK(u)'
  BY DEF TurnsOK
<1>0. TurnOK(u)
  BY DEF TurnsOK
<1>1. CASE UNCHANGED vars
  BY <1>0, <1>1, LogSame
     DEF vars, clientVars, netVars, prodVars, storeVars, TurnOK, WireOK, Waiting
<1>2. CASE Send
  BY <1>2, SendTurn
<1>3. CASE \E t \in Turns : TurnStep(t)
  <2>1. PICK t \in Turns : TurnStep(t)
    BY <1>3
  <2>2. CASE u # t
    BY <2>1, <2>2, Others
  <2>3. CASE u = t
    BY <2>1, <2>3, <1>0, ServeTurn, ClientTurn DEF TurnStep
  <2> QED
    BY <2>2, <2>3
<1> QED
  BY <1>1, <1>2, <1>3 DEF Next, TurnStep

(* Only the client's own steps touch flag and bubbles. *)
LEMMA FlagFrame ==
  ASSUME NEW t \in Turns, TurnStep(t), ~Read(t), ~Leave(t)
  PROVE  UNCHANGED <<streaming, bubble>>
BY DEF TurnStep, Serve, Refuse, Accept, LogQuestion, GraphFails, Silence, StartProducer, Take,
   TimeOut, StoreReply, Finish, ProduceToken, ProduceEnd, Raise, Cancel, WriteOrphan,
   EndOfStream, Break, clientVars

(* A step that ends the wait for the one reply that was awaited. *)
LEMMA FlagDown ==
  ASSUME TypeOK, OneInFlight, NEW t \in Turns, Waiting(t), streaming' = FALSE,
         bubble'[t].state # "waiting", \A u \in Turns \ {t} : bubble'[u] = bubble[u]
  PROVE  OneInFlight'
<1>1. \A u \in Turns : ~Waiting(u)'
  BY DEF OneInFlight, Waiting
<1> QED
  BY <1>1 DEF OneInFlight

LEMMA FlagStep ==
  ASSUME ~LateBreak, TypeOK, TurnsOK, OneInFlight, [Next]_vars
  PROVE  OneInFlight'
<1>1. CASE UNCHANGED <<streaming, bubble>>
  BY <1>1 DEF OneInFlight, Waiting
<1>2. CASE Send
  <2>1. sent + 1 \in Turns /\ streaming' = TRUE /\ ~streaming
    BY <1>2, BoundsOK DEF TypeOK, Send, MaySend, Turns
  <2>2. /\ bubble'[sent + 1].state = "waiting"
        /\ \A u \in Turns \ {sent + 1} : bubble'[u] = bubble[u]
    BY <1>2, <2>1 DEF TypeOK, Send, Bubble
  <2> QED
    BY <2>1, <2>2 DEF OneInFlight, Waiting
<1>3. ASSUME NEW t \in Turns, Read(t) \/ Leave(t)
      PROVE  OneInFlight'
  <2>0. TurnOK(t) /\ bubble \in [Turns -> Bubble]
    BY DEF TurnsOK, TypeOK
  <2>1. Waiting(t) /\ \A u \in Turns \ {t} : bubble'[u] = bubble[u]
    BY <1>3, <2>0 DEF Read, Receive, ReadFails, Leave, TurnOK, Show, Waiting
  <2>2. CASE Receive(t) /\ Head(wire[t]).kind = "token"
    <3>1. streaming' = streaming /\ bubble'[t].state = bubble[t].state
      BY <2>0, <2>2 DEF Receive, Show
    <3> QED
      BY <3>1, <2>1 DEF OneInFlight, Waiting
  <2>3. CASE ~(Receive(t) /\ Head(wire[t]).kind = "token")
    <3>1. PICK s \in {"final", "silent", "refused", "lost"} : \E x : Show(t, s, x)
      BY <1>3, <2>1, <2>3 DEF Read, Receive, ReadFails, Leave, Waiting
    <3>2. streaming' = FALSE
      BY <1>3, <2>3 DEF Read, Receive, ReadFails, Leave
    <3>3. bubble'[t].state # "waiting"
      BY <3>1, <2>0 DEF Show
    <3> QED
      BY <3>2, <3>3, <2>1, FlagDown
  <2> QED
    BY <2>2, <2>3
<1> QED
  BY <1>1, <1>2, <1>3, FlagFrame
     DEF Next, TurnStep, vars, clientVars

LEMMA FlagInit == Init => OneInFlight
BY DEF Init, OneInFlight, Waiting

(* Unless connections break after their last event, one reply streams at a   *)
(* time and the flag says so: whatever ends a stream puts the flag down, and *)
(* nothing else does.                                                        *)
THEOREM OneReplyAtATime ==
  ASSUME ~LateBreak
  PROVE  Spec => []OneInFlight
<1>1. Init => TypeOK /\ TurnsOK /\ OneInFlight
  BY TypeInit, TurnsInit, FlagInit
<1>2. TypeOK /\ TurnsOK /\ OneInFlight /\ [Next]_vars => (TypeOK /\ TurnsOK /\ OneInFlight)'
  BY TypeStep, TurnsStep, FlagStep
<1> QED
  BY <1>1, <1>2, PTL DEF Spec

(* The promise: every step is one of ChatReply, or nothing to it. *)
LEMMA PromiseInit == Init => Promise!Init
<1> SUFFICES ASSUME Init PROVE Promise!Init
  OBVIOUS
<1>1. OnRecord = {}
  BY DEF Init, OnRecord
<1>2. \A t \in Turns : Shown(t) = "none"
  BY DEF Init, Shown
<1> QED
  BY <1>1, <1>2 DEF Promise!Init

(* What the page shows of one turn moves, or nothing does. *)
LEMMA ShownMoves ==
  ASSUME NEW t \in Turns, \A u \in Turns \ {t} : bubble'[u] = bubble[u]
  PROVE  [u \in Turns |-> Shown(u)]' = [[u \in Turns |-> Shown(u)] EXCEPT ![t] = Shown(t)']
BY DEF Shown

LEMMA PromiseStep ==
  ASSUME ~LateBreak, TypeOK, TurnsOK, [Next]_vars
  PROVE  [Promise!Next]_(Promise!vars)
<1> DEFINE reply == [u \in Turns |-> Shown(u)]
<1>r. \A u \in Turns : reply[u] = Shown(u)
  OBVIOUS
<1>0. (\A u \in Turns : bubble'[u] = bubble[u]) => reply' = reply
  BY DEF Shown
<1>1. CASE UNCHANGED vars
  <2>1. OnRecord' = OnRecord /\ bubble' = bubble
    BY <1>1, LogSame DEF vars, storeVars, clientVars
  <2> QED
    BY <2>1, <1>0 DEF Promise!vars
<1>2. CASE Send
  <2>1. sent + 1 \in Turns /\ sent \in Nat /\ OnRecord' = OnRecord
    BY <1>2, LogSame, BoundsOK DEF TypeOK, Send, MaySend, Turns, storeVars
  <2>2. PICK t \in Turns : t = sent + 1
    BY <2>1
  <2>3. bubble'[t].state = "waiting" /\ \A u \in Turns \ {t} : bubble'[u] = bubble[u]
    BY <1>2, <2>2 DEF TypeOK, Send, Bubble
  <2>4. Shown(t)' = "asked"
    BY <2>3 DEF Shown
  <2>5. Shown(t) = "none"
    BY <2>1, <2>2 DEF TurnsOK, TurnOK, Shown
  <2>6. reply' = [reply EXCEPT ![t] = Shown(t)']
    BY <2>3, ShownMoves
  <2>7. Promise!Ask(t)
    BY <2>1, <2>4, <2>5, <2>6 DEF Promise!Ask, Promise!Becomes
  <2> QED
    BY <2>7 DEF Promise!Next
<1>3. ASSUME NEW t \in Turns, Read(t) \/ Leave(t)
      PROVE  [Promise!Next]_(Promise!vars)
  <2>0. TurnOK(t) /\ bubble \in [Turns -> Bubble] /\ wire[t] \in Seq(Event) /\ OnRecord' = OnRecord
    BY <1>3, LogSame DEF TurnsOK, TypeOK, Read, Receive, ReadFails, Leave, storeVars
  <2>1. Waiting(t) /\ \A u \in Turns \ {t} : bubble'[u] = bubble[u]
    BY <1>3, <2>0 DEF Read, Receive, ReadFails, Leave, TurnOK, Show, Waiting
  <2>2. Shown(t) = "asked"
    BY <2>1 DEF Shown, Waiting
  <2>3. CASE Receive(t) /\ Head(wire[t]).kind = "token"
    <3>1. bubble'[t].state = bubble[t].state
      BY <2>0, <2>3 DEF Receive, Show
    <3>2. reply' = reply
      BY <3>1, <2>1 DEF Shown
    <3> QED
      BY <3>2, <2>0 DEF Promise!vars
  <2>4. CASE Receive(t) /\ Head(wire[t]).kind # "token"
    <3>1. Head(wire[t]) = wire[t][1] /\ 1 \in 1..Len(wire[t])
      BY <2>0, <2>4, TailFacts DEF Receive
    <3>2. Head(wire[t]).kind = "done" <=> t \in OnRecord
      BY <3>1, <2>0, <2>4 DEF TurnOK, WireOK
    <3>3. PICK s \in {"final", "silent", "refused"} :
             (\E x : Show(t, s, x)) /\ (s = "final" <=> Head(wire[t]).kind = "done")
      BY <2>4 DEF Receive
    <3>4. bubble'[t].state = s
      BY <3>3, <2>0 DEF Show
    <3>5. Shown(t)' = IF s = "final" THEN "answered" ELSE s
      BY <3>3, <3>4 DEF Shown
    <3>6. reply' = [reply EXCEPT ![t] = Shown(t)']
      BY <2>1, ShownMoves
    <3>7. Promise!Settle(t)
      BY <3>2, <3>3, <3>5, <3>6, <2>0, <2>2 DEF Promise!Settle, Promise!Becomes
    <3> QED
      BY <3>7 DEF Promise!Next
  <2>5. CASE ReadFails(t) \/ Leave(t)
    <3>1. Shown(t)' = "lost"
      BY <2>0, <2>1, <2>5 DEF ReadFails, Leave, Show, Shown, Waiting
    <3>2. reply' = [reply EXCEPT ![t] = "lost"]
      BY <3>1, <2>1, ShownMoves
    <3>3. Promise!Settle(t)
      BY <3>2, <2>0, <2>2 DEF Promise!Settle, Promise!Becomes
    <3> QED
      BY <3>3 DEF Promise!Next
  <2> QED
    BY <1>3, <2>3, <2>4, <2>5 DEF Read
<1>4. ASSUME NEW t \in Turns, TurnStep(t), ~Read(t), ~Leave(t)
      PROVE  [Promise!Next]_(Promise!vars)
  <2>1. reply' = reply
    BY <1>4, <1>0, FlagFrame
  <2>2. CASE OnRecord' = OnRecord
    BY <2>1, <2>2 DEF Promise!vars
  <2>3. CASE gen[t] \in {"storing", "orphan reply"} /\ OnRecord' = OnRecord \cup {t}
    <3>1. TurnOK(t) /\ bubble[t].state \in BubbleStates
      BY DEF TurnsOK, TypeOK, Bubble
    <3>2. t \notin OnRecord
      BY <3>1, <2>3 DEF TurnOK
    <3>3. Shown(t) \in {"asked", "lost"}
      BY <3>1, <2>3 DEF TurnOK, Shown, BubbleStates
    <3>4. Promise!Keep(t)
      BY <3>2, <3>3, <2>1, <2>3 DEF Promise!Keep
    <3> QED
      BY <3>4 DEF Promise!Next
  <2> QED
    BY <1>4, <2>2, <2>3, StepRecord
<1> QED
  BY <1>1, <1>2, <1>3, <1>4 DEF Next, TurnStep

(* Unless connections break after their last event, the chat does what       *)
(* ChatReply says, step by step: a reply shown as final is on record, one    *)
(* refused or withheld never is, and what is settled stays so, whatever the  *)
(* producer, a late row or a lost connection still do.                       *)
THEOREM PromiseKept ==
  ASSUME ~LateBreak
  PROVE  Spec => Promise!Spec
<1>1. Init => TypeOK /\ TurnsOK /\ Promise!Init
  BY TypeInit, TurnsInit, PromiseInit
<1>2. TypeOK /\ TurnsOK /\ [Next]_vars =>
        /\ (TypeOK /\ TurnsOK)'
        /\ [Promise!Next]_(Promise!vars)
  BY TypeStep, TurnsStep, PromiseStep
<1> QED
  BY <1>1, <1>2, PTL DEF Spec, Promise!Spec

-----------------------------------------------------------------------------
(* From the model to the screen. *)

(* A queue or a wire: pieces numbered from n + 1 on, and nothing after       *)
(* anything else.                                                            *)
IsToken(x) == x.kind = "token"

Ordered(s, n) ==
  \A i \in 1..Len(s) : IF IsToken(s[i]) THEN s[i].n = n + i ELSE i = Len(s)

Tokens(s) == IF s # <<>> /\ ~IsToken(s[Len(s)]) THEN Len(s) - 1 ELSE Len(s)

LEMMA TokensType ==
  ASSUME NEW S, NEW s \in Seq(S)
  PROVE  /\ Tokens(s) \in Nat /\ Len(s) \in Nat /\ Tokens(s) <= Len(s)
         /\ Len(s) <= Tokens(s) + 1
         /\ s = <<>> => Tokens(s) = 0
<1>1. Len(s) \in Nat /\ (s = <<>> => Len(s) = 0) /\ (s # <<>> => Len(s) >= 1)
  OBVIOUS
<1> QED BY <1>1 DEF Tokens

LEMMA OrderedAppend ==
  ASSUME NEW S, NEW s \in Seq(S), NEW n \in Nat, NEW x \in S, Ordered(s, n), Tokens(s) = Len(s),
         IsToken(x) => x.n = n + Len(s) + 1
  PROVE  /\ Ordered(Append(s, x), n)
         /\ Tokens(Append(s, x)) = IF IsToken(x) THEN Len(s) + 1 ELSE Len(s)
<1> DEFINE q == Append(s, x)
<1>1. /\ q \in Seq(S) /\ Len(q) = Len(s) + 1 /\ q[Len(s) + 1] = x /\ Len(s) \in Nat
      /\ \A i \in 1..Len(s) : q[i] = s[i]
  BY AppendFacts
<1>3. \A i \in 1..Len(s) : IsToken(s[i])
  <2> SUFFICES ASSUME NEW i \in 1..Len(s), ~IsToken(s[i]) PROVE FALSE
    OBVIOUS
  <2>1. i = Len(s) /\ s # <<>>
    BY <1>1 DEF Ordered
  <2> QED BY <1>1, <2>1 DEF Tokens
<1> HIDE DEF q
<1>2. q # <<>>
  <2>1. Len(q) # 0
    BY <1>1
  <2> QED BY <2>1
<1>4. Ordered(q, n)
  <2> SUFFICES ASSUME NEW i \in 1..Len(q)
               PROVE  IF IsToken(q[i]) THEN q[i].n = n + i ELSE i = Len(q)
    BY DEF Ordered
  <2>1. CASE i \in 1..Len(s)
    BY <1>1, <1>3, <2>1 DEF Ordered
  <2>2. CASE i = Len(s) + 1
    BY <1>1, <2>2
  <2> QED BY <1>1, <2>1, <2>2
<1>5. Tokens(q) = IF IsToken(x) THEN Len(s) + 1 ELSE Len(s)
  BY <1>1, <1>2 DEF Tokens
<1> QED BY <1>4, <1>5 DEF q

LEMMA OrderedTail ==
  ASSUME NEW S, NEW s \in Seq(S), NEW n \in Nat, Ordered(s, n), s # <<>>
  PROVE  /\ IsToken(Head(s)) => /\ Head(s).n = n + 1 /\ Ordered(Tail(s), n + 1)
                                /\ Tokens(Tail(s)) = Tokens(s) - 1
         /\ ~IsToken(Head(s)) => Tail(s) = <<>> /\ Tokens(s) = 0 /\ Len(s) = 1
<1> DEFINE q == Tail(s)
<1>1. /\ Head(s) = s[1] /\ q \in Seq(S) /\ Len(s) \in Nat \ {0} /\ Len(q) = Len(s) - 1
      /\ \A i \in 1..Len(q) : q[i] = s[i + 1]
  BY TailFacts
<1>2. Len(q) = 0 => q = <<>>
  BY <1>1, LenZero
<1>3. q # <<>> => Len(q) >= 1
  BY <1>1
<1> HIDE DEF q
<1>4. ASSUME ~IsToken(Head(s)) PROVE q = <<>> /\ Tokens(s) = 0 /\ Len(s) = 1
  <2>1. Len(s) = 1
    BY <1>1, <1>4 DEF Ordered
  <2> QED BY <1>1, <1>2, <1>4, <2>1 DEF Tokens
<1>5. ASSUME IsToken(Head(s)) PROVE Head(s).n = n + 1 /\ Ordered(q, n + 1)
  <2>1. Head(s).n = n + 1
    BY <1>1, <1>5 DEF Ordered
  <2>2. ASSUME NEW i \in 1..Len(q)
        PROVE  IF IsToken(q[i]) THEN q[i].n = n + 1 + i ELSE i = Len(q)
    <3>1. i + 1 \in 1..Len(s) /\ q[i] = s[i + 1]
      BY <1>1
    <3>2. IF IsToken(s[i + 1]) THEN s[i + 1].n = n + (i + 1) ELSE i + 1 = Len(s)
      BY <3>1 DEF Ordered
    <3> QED BY <1>1, <3>1, <3>2
  <2> QED BY <2>1, <2>2 DEF Ordered
<1>6. ASSUME IsToken(Head(s)) PROVE Tokens(q) = Tokens(s) - 1
  <2>1. CASE Len(s) = 1
    BY <1>1, <1>2, <1>6, <2>1 DEF Tokens
  <2>2. CASE Len(s) # 1
    <3>1. Len(q) >= 1 /\ Len(q) \in 1..Len(q) /\ q[Len(q)] = s[Len(s)]
      BY <1>1, <2>2
    <3>2. q # <<>>
      BY <3>1
    <3> QED BY <1>1, <3>1, <3>2 DEF Tokens
  <2> QED BY <2>1, <2>2
<1> QED BY <1>4, <1>5, <1>6 DEF q

(* Nothing but tokens, where nothing follows the last.                       *)
LEMMA AllTokens ==
  ASSUME NEW S, NEW s \in Seq(S), \A i \in 1..Len(s) : IsToken(s[i])
  PROVE  Tokens(s) = Len(s)
<1>1. s # <<>> => Len(s) \in 1..Len(s)
  OBVIOUS
<1> QED BY <1>1 DEF Tokens

LEMMA UptoAppend ==
  ASSUME NEW n \in Nat
  PROVE  Append(Upto(n), n + 1) = Upto(n + 1) /\ Len(Upto(n)) = n
<1>1. Upto(n) \in Seq(Nat) /\ Len(Upto(n)) = n /\ \A i \in 1..n : Upto(n)[i] = i
  BY DEF Upto
<1>2. /\ Append(Upto(n), n + 1) \in Seq(Nat) /\ Len(Append(Upto(n), n + 1)) = n + 1
      /\ Append(Upto(n), n + 1)[n + 1] = n + 1
      /\ \A i \in 1..n : Append(Upto(n), n + 1)[i] = i
  BY <1>1, AppendFacts
<1>3. Upto(n + 1) \in Seq(Nat) /\ Len(Upto(n + 1)) = n + 1 /\ \A i \in 1..(n + 1) : Upto(n + 1)[i] = i
  BY DEF Upto
<1> DEFINE a == Append(Upto(n), n + 1)
           b == Upto(n + 1)
<1> HIDE DEF a, b
<1>4. a = b
  <2>1. \A i \in 1..(n + 1) : a[i] = b[i]
    BY <1>2, <1>3 DEF a, b
  <2>2. a \in Seq(Nat) /\ b \in Seq(Nat) /\ Len(a) = n + 1 /\ Len(b) = n + 1
    BY <1>2, <1>3 DEF a, b
  <2> QED BY <2>1, <2>2
<1> QED BY <1>1, <1>4 DEF a, b

(* How many pieces of the reply the generator has taken from the queue. *)
Passed(t) == fullText[t] - Tokens(queue[t])

QueueOK(t) ==
  /\ Passed(t) \in Nat
  /\ Ordered(queue[t], Passed(t))
  /\ gen[t] \in {"none", "question", "graph"} => prod[t] = "none"
  /\ prod[t] = "none" => fullText[t] = 0 /\ queue[t] = <<>>
  /\ gen[t] \in {"storing", "finishing", "orphan reply"} => prod[t] = "ended" /\ queue[t] = <<>>
  /\ prod[t] # "ended" => Tokens(queue[t]) = Len(queue[t])

(* A step leaves the queue of t alone. *)
QueueStays(t) == prod'[t] = prod[t] /\ fullText'[t] = fullText[t] /\ queue'[t] = queue[t]

LEMMA PassedStays ==
  ASSUME NEW t \in Turns, QueueStays(t)
  PROVE  Passed(t)' = Passed(t)
BY DEF QueueStays, Passed

LEMMA QueueKept ==
  ASSUME NEW t \in Turns, QueueOK(t), QueueStays(t),
         gen'[t] \in {"none", "question", "graph"} => gen[t] \in {"none", "question", "graph"},
         gen'[t] \in {"storing", "finishing", "orphan reply"} =>
           gen[t] \in {"storing", "finishing", "orphan reply"}
  PROVE  QueueOK(t)'
<1>1. Passed(t)' = Passed(t)
  BY PassedStays
<1> QED BY <1>1 DEF QueueOK, QueueStays

LEMMA StartQueue ==
  ASSUME TypeOK, NEW t \in Turns, QueueOK(t), StartProducer(t)
  PROVE  QueueOK(t)' /\ Passed(t)' = Passed(t)
<1>1. /\ prod'[t] = "running" /\ gen'[t] = "streaming" /\ fullText'[t] = fullText[t]
      /\ queue'[t] = queue[t] /\ gen[t] = "graph"
  BY DEF TypeOK, StartProducer, Goto
<1>2. Passed(t)' = Passed(t)
  BY <1>1 DEF Passed
<1>3. Tokens(queue[t]) = Len(queue[t])
  BY <1>1 DEF QueueOK
<1> QED BY <1>1, <1>2, <1>3 DEF QueueOK

(* The producer adds to the end of the queue, and takes nothing from it. *)
LEMMA ProduceQueue ==
  ASSUME TypeOK, NEW t \in Turns, QueueOK(t), ProduceToken(t) \/ ProduceEnd(t)
  PROVE  QueueOK(t)' /\ Passed(t)' = Passed(t) /\ prod[t] = "running" /\ fullText[t] <= fullText'[t]
<1>0. /\ queue[t] \in Seq(Item) /\ Passed(t) \in Nat /\ fullText[t] \in Nat
      /\ Len(queue[t]) \in Nat /\ prod[t] = "running" /\ gen'[t] = gen[t]
      /\ Tokens(queue[t]) = Len(queue[t])
  <2>1. queue[t] \in Seq(Item) /\ fullText[t] \in Nat
    BY BoundsOK DEF TypeOK
  <2>2. prod[t] = "running" /\ gen'[t] = gen[t]
    BY DEF ProduceToken, ProduceEnd
  <2> QED BY <2>1, <2>2, TokensType DEF QueueOK
<1>1. CASE ProduceToken(t)
  <2> DEFINE x == [kind |-> "token", n |-> fullText[t] + 1]
  <2>1. /\ queue'[t] = Append(queue[t], x) /\ fullText'[t] = fullText[t] + 1 /\ prod' = prod
        /\ fullText[t] < MaxChunks
    BY <1>1 DEF TypeOK, ProduceToken, HandOver
  <2>2. x \in Item
    BY <1>0, <2>1, BoundsOK DEF Item, Token
  <2>3. IsToken(x) /\ x.n = fullText[t] + 1
    BY DEF IsToken
  <2> HIDE DEF x
  <2>4. x.n = Passed(t) + Len(queue[t]) + 1
    BY <1>0, <2>3 DEF Passed
  <2>5. Ordered(Append(queue[t], x), Passed(t)) /\ Tokens(Append(queue[t], x)) = Len(queue[t]) + 1
    BY <1>0, <2>2, <2>3, <2>4, OrderedAppend DEF QueueOK
  <2>6. Len(queue'[t]) = Len(queue[t]) + 1
    BY <1>0, <2>1, <2>2, AppendFacts
  <2>7. Passed(t)' = Passed(t)
    BY <1>0, <2>1, <2>5 DEF Passed
  <2>8. prod'[t] = "running" /\ Ordered(queue'[t], Passed(t)) /\ Tokens(queue'[t]) = Len(queue'[t])
    BY <1>0, <2>1, <2>5, <2>6
  <2>9. gen[t] \notin {"none", "question", "graph", "storing", "finishing", "orphan reply"}
    BY <1>0 DEF QueueOK
  <2>10. fullText[t] <= fullText'[t]
    BY <1>0, <2>1
  <2> QED BY <1>0, <2>7, <2>8, <2>9, <2>10 DEF QueueOK
<1>2. CASE ProduceEnd(t)
  <2>1. PICK kind \in {"done", "error"} : HandOver(t, kind, 0)
    BY <1>2 DEF ProduceEnd
  <2> DEFINE x == [kind |-> kind, n |-> 0]
  <2>2. queue'[t] = Append(queue[t], x) /\ fullText' = fullText /\ prod'[t] = "ended"
    BY <1>2, <2>1 DEF TypeOK, ProduceEnd, HandOver
  <2>3. x \in Item /\ ~IsToken(x)
    BY DEF Item, IsToken
  <2> HIDE DEF x
  <2>4. Ordered(Append(queue[t], x), Passed(t)) /\ Tokens(Append(queue[t], x)) = Len(queue[t])
    BY <1>0, <2>3, OrderedAppend DEF QueueOK
  <2>5. Passed(t)' = Passed(t)
    BY <1>0, <2>2, <2>4 DEF Passed
  <2>6. Ordered(queue'[t], Passed(t))
    BY <2>2, <2>4
  <2>7. gen[t] \notin {"none", "question", "graph", "storing", "finishing", "orphan reply"}
    BY <1>0 DEF QueueOK
  <2>8. fullText[t] <= fullText'[t]
    BY <1>0, <2>2
  <2> QED BY <1>0, <2>2, <2>5, <2>6, <2>7, <2>8 DEF QueueOK
<1> QED BY <1>1, <1>2

(* The generator takes the next piece, or the end, before which all of the  *)
(* reply was taken.                                                         *)
LEMMA TakeQueue ==
  ASSUME TypeOK, NEW t \in Turns, QueueOK(t), Take(t)
  PROVE  /\ QueueOK(t)' /\ prod' = prod /\ fullText' = fullText
         /\ IsToken(Head(queue[t])) => Head(queue[t]).n = Passed(t) + 1 /\ Passed(t)' = Passed(t) + 1
         /\ ~IsToken(Head(queue[t])) => Passed(t)' = Passed(t)
<1>0. /\ queue[t] \in Seq(Item) /\ queue[t] # <<>> /\ Passed(t) \in Nat /\ fullText[t] \in Nat
      /\ queue'[t] = Tail(queue[t]) /\ prod' = prod /\ fullText' = fullText /\ gen[t] = "streaming"
      /\ queue'[t] \in Seq(Item)
  <2>1. queue[t] \in Seq(Item) /\ queue[t] # <<>> /\ fullText[t] \in Nat /\ gen[t] = "streaming"
    BY BoundsOK DEF TypeOK, Take
  <2>2. queue'[t] = Tail(queue[t]) /\ prod' = prod /\ fullText' = fullText
    BY DEF TypeOK, Take
  <2> QED BY <2>1, <2>2, TailFacts DEF QueueOK
<1>1. /\ Tokens(queue[t]) \in Nat /\ Len(queue[t]) \in Nat
      /\ Len(queue'[t]) = Len(queue[t]) - 1 /\ Len(queue'[t]) \in Nat
  BY <1>0, TokensType, TailFacts
<1>2. CASE IsToken(Head(queue[t]))
  <2>1. /\ Head(queue[t]).n = Passed(t) + 1 /\ Ordered(queue'[t], Passed(t) + 1)
        /\ Tokens(queue'[t]) = Tokens(queue[t]) - 1
    BY <1>0, <1>2, OrderedTail DEF QueueOK
  <2>2. Passed(t)' = Passed(t) + 1
    BY <1>0, <1>1, <2>1 DEF Passed
  <2>3. gen'[t] = "streaming"
    BY <1>0, <1>2 DEF Take, IsToken
  <2>4. prod[t] # "none"
    BY <1>0 DEF QueueOK
  <2> QED BY <1>0, <1>1, <1>2, <2>1, <2>2, <2>3, <2>4 DEF QueueOK
<1>3. CASE ~IsToken(Head(queue[t]))
  <2>1. queue'[t] = <<>> /\ Tokens(queue[t]) = 0 /\ Len(queue[t]) = 1
    BY <1>0, <1>3, OrderedTail DEF QueueOK
  <2>2. prod[t] = "ended"
    <3>1. Tokens(queue[t]) # Len(queue[t])
      BY <2>1
    <3> QED BY <3>1 DEF QueueOK
  <2>3. Tokens(queue'[t]) = 0 /\ Ordered(queue'[t], Passed(t))
    BY <2>1 DEF Tokens, Ordered
  <2>4. Passed(t)' = Passed(t)
    BY <1>0, <2>1, <2>3 DEF Passed
  <2>5. gen'[t] \in {"storing", "closed"}
    BY <1>0, <1>3 DEF TypeOK, Take, Goto, IsToken
  <2> QED BY <1>0, <1>3, <2>1, <2>2, <2>3, <2>4, <2>5 DEF QueueOK
<1> QED BY <1>2, <1>3

(* The reply to t is on record, and is n pieces long. *)
Recorded(t, n) == \E i \in 1..Len(log) : log[i] = [role |-> "assistant", turn |-> t, n |-> n]

(* A done event of n pieces may be sent: all of them were.                   *)
Complete(t, n) ==
  gen[t] = "closed" /\ prod[t] = "ended" /\ queue[t] = <<>> /\ n = fullText[t] /\ Recorded(t, n)

ShowsStart(t) == bubble[t].text = Upto(Len(bubble[t].text)) /\ Len(bubble[t].text) <= Passed(t)

ShowsAll(t) == bubble[t].text = Upto(Len(bubble[t].text)) /\ Recorded(t, Len(bubble[t].text))

(* What the generator took, the wire has or the screen shows. *)
ScreenOK(t) ==
  /\ t > sent => conn[t] = "none"
  /\ conn[t] = "none" => gen[t] = "none" /\ bubble[t].text = <<>> /\ bubble[t].state = "none"
  /\ conn[t] = "open" /\ ~Waiting(t) => gen[t] = "closed" /\ wire[t] = <<>>
  /\ conn[t] # "open" => wire[t] = <<>>
  /\ Ordered(wire[t], Len(bubble[t].text))
  /\ gen[t] # "closed" => Tokens(wire[t]) = Len(wire[t])
  /\ \A i \in 1..Len(wire[t]) : wire[t][i].kind = "done" => Complete(t, wire[t][i].n)
  /\ Waiting(t) => ShowsStart(t)
  /\ Waiting(t) /\ conn[t] = "open" => Len(bubble[t].text) + Tokens(wire[t]) = Passed(t)
  /\ gen[t] = "finishing" => Recorded(t, fullText[t])
  /\ bubble[t].state = "final" => ShowsAll(t)

PipeOK(t) == QueueOK(t) /\ ScreenOK(t)

PipeInv == \A t \in Turns : PipeOK(t)

(* Rows are added, never taken away. *)
LogGrows ==
  /\ Len(log) \in Nat /\ Len(log') \in Nat /\ Len(log) <= Len(log')
  /\ \A i \in 1..Len(log) : log'[i] = log[i]

LEMMA RecordGrows ==
  ASSUME LogGrows, NEW t, NEW n, Recorded(t, n)
  PROVE  Recorded(t, n)'
BY DEF LogGrows, Recorded

LEMMA LogRowGrows ==
  ASSUME TypeOK, NEW t \in Turns, NEW role \in {"user", "assistant"}, NEW n \in 0..MaxChunks,
         LogRow(t, role, n)
  PROVE  /\ LogGrows /\ Len(log') = Len(log) + 1
         /\ log'[Len(log) + 1] = [role |-> role, turn |-> t, n |-> n]
<1> DEFINE row == [role |-> role, turn |-> t, n |-> n]
<1>1. log \in Seq(Row) /\ row \in Row /\ log' = Append(log, row)
  BY DEF TypeOK, Row, LogRow
<1> HIDE DEF row
<1>2. /\ Len(log') = Len(log) + 1 /\ Len(log) \in Nat /\ log'[Len(log) + 1] = row
      /\ \A i \in 1..Len(log) : log'[i] = log[i]
  BY <1>1, AppendFacts
<1> QED BY <1>2 DEF LogGrows, row

LEMMA LogStaysGrows ==
  ASSUME TypeOK, log' = log
  PROVE  LogGrows
BY DEF TypeOK, LogGrows

LEMMA StepLog ==
  ASSUME TypeOK, NEW t \in Turns, TurnStep(t)
  PROVE  LogGrows
<1>1. fullText[t] \in 0..MaxChunks /\ 0 \in 0..MaxChunks
  BY BoundsOK DEF TypeOK
<1>2. CASE log' = log
  BY <1>2, LogStaysGrows
<1>3. CASE LogQuestion(t) \/ StoreReply(t) \/ WriteOrphan(t)
  BY <1>1, <1>3, LogRowGrows DEF LogQuestion, StoreReply, WriteOrphan
<1> QED
  BY <1>2, <1>3 DEF TurnStep, Serve, Read, Refuse, Accept, GraphFails, Silence, StartProducer,
     Take, TimeOut, Finish, Receive, ReadFails, ProduceToken, ProduceEnd, Raise, Cancel,
     EndOfStream, Break, Leave, storeVars

(* What the client sees of t is left alone, and the generator moves on. *)
LEMMA ScreenKept ==
  ASSUME TypeOK, NEW t \in Turns, ScreenOK(t), LogGrows,
         conn'[t] = conn[t], wire'[t] = wire[t], bubble'[t] = bubble[t], t > sent' => t > sent,
         gen'[t] = gen[t] \/ (gen[t] # "closed" /\ conn[t] # "none"),
         Passed(t) \in Nat, Passed(t)' \in Nat, Passed(t) <= Passed(t)',
         conn[t] = "open" => Passed(t)' = Passed(t),
         QueueStays(t) \/ prod[t] # "ended" \/ gen[t] # "closed",
         gen'[t] = "finishing" => Recorded(t, fullText[t])'
  PROVE  ScreenOK(t)'
<1>0. bubble[t].text \in Seq(1..MaxChunks) /\ Len(bubble[t].text) \in Nat
  BY DEF TypeOK, Bubble
<1>1. ASSUME NEW i \in 1..Len(wire[t]), wire[t][i].kind = "done"
      PROVE  Complete(t, wire[t][i].n)'
  <2>1. Complete(t, wire[t][i].n)
    BY <1>1 DEF ScreenOK
  <2>2. gen'[t] = "closed" /\ QueueStays(t)
    BY <2>1 DEF Complete
  <2> QED BY <2>1, <2>2, RecordGrows DEF Complete, QueueStays
<1>2. Waiting(t)' <=> Waiting(t)
  BY DEF Waiting
<1>3. Waiting(t)' => ShowsStart(t)'
  BY <1>0, <1>2 DEF ScreenOK, ShowsStart
<1>4. bubble'[t].state = "final" => ShowsAll(t)'
  BY RecordGrows DEF ScreenOK, ShowsAll
<1>5. /\ t > sent' => conn'[t] = "none"
      /\ conn'[t] = "none" => gen'[t] = "none" /\ bubble'[t].text = <<>> /\ bubble'[t].state = "none"
      /\ conn'[t] = "open" /\ ~Waiting(t)' => gen'[t] = "closed" /\ wire'[t] = <<>>
      /\ conn'[t] # "open" => wire'[t] = <<>>
  BY <1>2 DEF ScreenOK
<1>6. /\ Ordered(wire'[t], Len(bubble'[t].text))
      /\ gen'[t] # "closed" => Tokens(wire'[t]) = Len(wire'[t])
      /\ Waiting(t)' /\ conn'[t] = "open" => Len(bubble'[t].text) + Tokens(wire'[t]) = Passed(t)'
  BY <1>2 DEF ScreenOK
<1> QED BY <1>1, <1>3, <1>4, <1>5, <1>6 DEF ScreenOK

(* The generator yields: a piece it has just taken, or its last word. *)
LEMMA ScreenYields ==
  ASSUME TypeOK, NEW t \in Turns, ScreenOK(t), LogGrows, gen[t] # "closed", conn[t] # "none",
         NEW kind, NEW n, [kind |-> kind, n |-> n] \in Event, Yield(t, kind, n),
         bubble'[t] = bubble[t], sent' = sent, Passed(t) \in Nat,
         kind = "token" => n = Passed(t) + 1 /\ Passed(t)' = Passed(t) + 1 /\ gen'[t] = "streaming",
         kind # "token" => Passed(t)' = Passed(t) /\ gen'[t] = "closed",
         kind = "done" => Complete(t, n)'
  PROVE  ScreenOK(t)'
<1>1. CASE conn[t] # "open"
  <2>1. conn'[t] = conn[t] /\ wire'[t] = wire[t]
    BY <1>1 DEF Yield
  <2>2. Passed(t)' \in Nat /\ Passed(t) <= Passed(t)' /\ gen'[t] # "finishing"
    OBVIOUS
  <2> QED BY <1>1, <2>1, <2>2, ScreenKept
<1>2. CASE conn[t] = "open"
  <2> DEFINE e == [kind |-> kind, n |-> n]
  <2>0. Waiting(t)
    BY <1>2 DEF ScreenOK
  <2>1. /\ conn'[t] = "open" /\ wire'[t] = Append(wire[t], e) /\ wire[t] \in Seq(Event) /\ e \in Event
        /\ bubble[t].text \in Seq(1..MaxChunks) /\ Len(bubble[t].text) \in Nat /\ Len(wire[t]) \in Nat
        /\ t <= sent
    <3>1. conn'[t] = "open" /\ wire'[t] = Append(wire[t], e) /\ wire[t] \in Seq(Event)
      BY <1>2 DEF Yield, TypeOK
    <3>2. bubble[t].text \in Seq(1..MaxChunks)
      BY DEF TypeOK, Bubble
    <3>3. ~(t > sent)
      BY <1>2 DEF ScreenOK
    <3>4. t \in Nat /\ sent \in Nat
      BY BoundsOK DEF TypeOK, Turns
    <3> QED BY <3>1, <3>2, <3>3, <3>4
  <2>2. /\ Waiting(t) /\ Waiting(t)'
        /\ Ordered(wire[t], Len(bubble[t].text)) /\ Tokens(wire[t]) = Len(wire[t])
        /\ Len(bubble[t].text) + Len(wire[t]) = Passed(t) /\ ShowsStart(t)
    BY <1>2, <2>0 DEF ScreenOK, Waiting
  <2>3. e.kind = kind /\ e.n = n /\ (IsToken(e) <=> kind = "token")
    BY DEF IsToken
  <2> HIDE DEF e
  <2>4. IsToken(e) => e.n = Len(bubble[t].text) + Len(wire[t]) + 1
    BY <2>2, <2>3
  <2>5. /\ Ordered(wire'[t], Len(bubble[t].text))
        /\ Tokens(wire'[t]) = IF IsToken(e) THEN Len(wire[t]) + 1 ELSE Len(wire[t])
    BY <2>1, <2>2, <2>4, OrderedAppend
  <2>6. /\ Len(wire'[t]) = Len(wire[t]) + 1 /\ wire'[t][Len(wire[t]) + 1] = e
        /\ \A i \in 1..Len(wire[t]) : wire'[t][i] = wire[t][i]
    BY <2>1, AppendFacts
  <2>7. \A i \in 1..Len(wire[t]) : wire[t][i].kind # "done"
    BY DEF ScreenOK, Complete
  <2>8. ASSUME NEW i \in 1..Len(wire'[t]), wire'[t][i].kind = "done"
        PROVE  wire'[t][i].n = n /\ Complete(t, n)'
    <3>1. i = Len(wire[t]) + 1 /\ wire'[t][i] = e
      BY <2>1, <2>6, <2>7, <2>8
    <3>2. kind = "done" /\ wire'[t][i].n = n
      BY <2>3, <2>8, <3>1
    <3> QED BY <3>2
  <2>9. ShowsStart(t)'
    BY <2>1, <2>2 DEF ShowsStart
  <2>10. gen'[t] # "closed" => Tokens(wire'[t]) = Len(wire'[t])
    BY <2>3, <2>5, <2>6
  <2>11. Len(bubble'[t].text) + Tokens(wire'[t]) = Passed(t)'
    <3>1. Len(bubble'[t].text) = Len(bubble[t].text)
      OBVIOUS
    <3>2. CASE kind = "token"
      <4>1. Tokens(wire'[t]) = Len(wire[t]) + 1
        BY <2>3, <2>5, <3>2
      <4>2. Len(bubble[t].text) \in Nat /\ Len(wire[t]) \in Nat
        BY <2>1
      <4>3. Passed(t)' = Passed(t) + 1 /\ Len(bubble[t].text) + Len(wire[t]) = Passed(t)
        BY <2>2, <3>2
      <4>4. \A a, b, c \in Nat : a + b = c => a + (b + 1) = c + 1
        OBVIOUS
      <4>5. Len(bubble[t].text) + (Len(wire[t]) + 1) = Passed(t) + 1
        BY <4>2, <4>3, <4>4
      <4> QED BY <3>1, <4>1, <4>3, <4>5
    <3>3. CASE kind # "token"
      <4>1. Tokens(wire'[t]) = Len(wire[t])
        BY <2>3, <2>5, <3>3
      <4> QED BY <2>2, <3>1, <3>3, <4>1
    <3> QED BY <3>2, <3>3
  <2>12. bubble'[t].state # "final" /\ gen'[t] # "finishing"
    <3>1. bubble[t].state = "waiting"
      BY <2>2 DEF Waiting
    <3>2. bubble'[t].state # "final"
      BY <3>1
    <3>3. gen'[t] \in {"streaming", "closed"}
      OBVIOUS
    <3> QED BY <3>2, <3>3
  <2>13. Ordered(wire'[t], Len(bubble'[t].text))
    BY <2>5
  <2>14. ~(t > sent')
    BY <1>2 DEF ScreenOK
  <2>15. (\A i \in 1..Len(wire[t]) : wire[t][i].kind = "done" => Complete(t, wire[t][i].n))'
    <3> SUFFICES ASSUME NEW i \in 1..Len(wire'[t]), wire'[t][i].kind = "done"
                 PROVE  Complete(t, wire[t][i].n)'
      OBVIOUS
    <3>1. wire'[t][i].n = n
      BY <2>8
    <3>2. /\ gen'[t] = "closed" /\ prod'[t] = "ended" /\ queue'[t] = <<>> /\ n = fullText'[t]
          /\ \E k \in 1..Len(log') : log'[k] = [role |-> "assistant", turn |-> t, n |-> n]
      BY <2>8 DEF Complete, Recorded
    <3> QED BY <3>1, <3>2 DEF Complete, Recorded
  <2> QED BY <1>2, <2>1, <2>2, <2>15, <2>9, <2>10, <2>11, <2>12, <2>13, <2>14 DEF ScreenOK
<1> QED BY <1>1, <1>2

(* A connection that ends takes what was under way with it. *)
LEMMA ScreenCutOff ==
  ASSUME TypeOK, NEW t \in Turns, PipeOK(t), LogGrows, QueueStays(t), sent' = sent,
         conn[t] # "none", conn'[t] \in {"broken", "over"}, wire'[t] = <<>>,
         bubble'[t] = bubble[t] \/ bubble'[t].state \notin {"waiting", "final"},
         gen'[t] = gen[t] \/ gen'[t] = "closed"
  PROVE  ScreenOK(t)'
<1>1. Passed(t)' = Passed(t) /\ Tokens(wire'[t]) = 0 /\ Len(wire'[t]) = 0 /\ t <= sent
  <2>1. Passed(t)' = Passed(t)
    BY PassedStays
  <2>2. Len(wire'[t]) = 0 /\ Tokens(wire'[t]) = 0
    BY DEF Tokens
  <2>3. ~(t > sent) /\ t \in Nat /\ sent \in Nat
    BY BoundsOK DEF PipeOK, ScreenOK, TypeOK, Turns
  <2> QED BY <2>1, <2>2, <2>3
<1>2. Ordered(wire'[t], Len(bubble'[t].text))
  BY <1>1 DEF Ordered
<1>3. Waiting(t)' => ShowsStart(t)'
  <2>1. Waiting(t)' => bubble'[t] = bubble[t] /\ Waiting(t)
    BY DEF Waiting
  <2> QED BY <1>1, <2>1 DEF PipeOK, ScreenOK, ShowsStart
<1>4. bubble'[t].state = "final" => ShowsAll(t)'
  <2>1. bubble'[t].state = "final" => bubble'[t] = bubble[t]
    OBVIOUS
  <2> QED BY <2>1, RecordGrows DEF PipeOK, ScreenOK, ShowsAll
<1>5. gen'[t] = "finishing" => Recorded(t, fullText[t])'
  BY RecordGrows DEF PipeOK, ScreenOK, QueueStays
<1>6. \A i \in 1..Len(wire'[t]) : FALSE
  BY <1>1
<1>7. ~(t > sent') /\ conn'[t] # "none" /\ conn'[t] # "open"
  BY DEF PipeOK, ScreenOK
<1> QED BY <1>1, <1>2, <1>3, <1>4, <1>5, <1>6, <1>7 DEF ScreenOK

LEMMA StepQueue ==
  ASSUME TypeOK, NEW t \in Turns, TurnStep(t), NEW u \in Turns, ~StartProducer(t) \/ u # t,
         (~Take(t) /\ ~ProduceToken(t) /\ ~ProduceEnd(t)) \/ u # t
  PROVE  QueueStays(u)
<1>1. CASE UNCHANGED prodVars
  BY <1>1 DEF prodVars, QueueStays
<1>2. CASE StartProducer(t) \/ Take(t) \/ ProduceToken(t) \/ ProduceEnd(t)
  BY <1>2 DEF TypeOK, StartProducer, Take, ProduceToken, ProduceEnd, HandOver, QueueStays
<1> QED
  BY <1>1, <1>2 DEF TurnStep, Serve, Read, Refuse, Accept, LogQuestion, GraphFails, Silence,
     TimeOut, StoreReply, Finish, Receive, ReadFails, Raise, Cancel, WriteOrphan, EndOfStream,
     Break, Leave

LEMMA OtherPipes ==
  ASSUME TypeOK, PipeInv, NEW t \in Turns, TurnStep(t), NEW u \in Turns \ {t}
  PROVE  PipeOK(u)'
<1>1. QueueStays(u) /\ LogGrows /\ PipeOK(u)
  BY StepQueue, StepLog DEF PipeInv
<1>2. sent' = sent /\ bubble'[u] = bubble[u] /\ conn'[u] = conn[u] /\ wire'[u] = wire[u] /\ gen'[u] = gen[u]
  BY StepFrame
<1>3. QueueOK(u)'
  BY <1>1, <1>2, QueueKept DEF PipeOK
<1>4. Passed(u)' = Passed(u) /\ Passed(u) \in Nat
  BY <1>1, PassedStays DEF PipeOK, QueueOK
<1>5. gen'[u] = "finishing" => Recorded(u, fullText[u])'
  BY <1>1, <1>2, RecordGrows DEF PipeOK, ScreenOK, QueueStays
<1>6. ScreenOK(u)'
  BY <1>1, <1>2, <1>4, <1>5, ScreenKept DEF PipeOK
<1> QED BY <1>3, <1>6 DEF PipeOK

LEMMA SameIsAtMost == \A n \in Nat : n <= n
OBVIOUS

(* The generator moves on, and says nothing. *)
LEMMA MovePipe ==
  ASSUME TypeOK, NEW t \in Turns, PipeOK(t), LogGrows, QueueStays(t), gen[t] # "closed", conn[t] # "none",
         sent' = sent, conn'[t] = conn[t], wire'[t] = wire[t], bubble'[t] = bubble[t],
         gen'[t] \in {"none", "question", "graph"} => gen[t] \in {"none", "question", "graph"},
         gen'[t] \in {"storing", "finishing", "orphan reply"} =>
           gen[t] \in {"storing", "finishing", "orphan reply"},
         gen'[t] = "finishing" => Recorded(t, fullText[t])'
  PROVE  PipeOK(t)'
<1>1. QueueOK(t)'
  BY QueueKept DEF PipeOK
<1>2. Passed(t)' = Passed(t) /\ Passed(t) \in Nat /\ Passed(t)' \in Nat /\ Passed(t) <= Passed(t)'
  <2>1. Passed(t)' = Passed(t) /\ Passed(t) \in Nat
    BY PassedStays DEF PipeOK, QueueOK
  <2>2. \A n \in Nat : n <= n
    BY SameIsAtMost
  <2>3. Passed(t)' \in Nat
    BY <2>1
  <2>4. Passed(t) <= Passed(t)'
    BY <2>1, <2>2
  <2> QED BY <2>1, <2>3, <2>4
<1>3. ScreenOK(t) /\ (t > sent' => t > sent)
  BY DEF PipeOK
<1>4. ScreenOK(t)'
  BY <1>2, <1>3, ScreenKept
<1> QED BY <1>1, <1>4 DEF PipeOK

(* The generator's last word is that there is no reply. *)
LEMMA RefusePipe ==
  ASSUME TypeOK, NEW t \in Turns, PipeOK(t), LogGrows, QueueStays(t), gen[t] # "closed", conn[t] # "none",
         sent' = sent, bubble'[t] = bubble[t], gen'[t] = "closed",
         NEW kind \in {"status", "silent", "error"}, Yield(t, kind, 0)
  PROVE  PipeOK(t)'
<1>1. QueueOK(t)'
  BY QueueKept DEF PipeOK
<1>2. Passed(t)' = Passed(t) /\ Passed(t) \in Nat
  BY PassedStays DEF PipeOK, QueueOK
<1>3. [kind |-> kind, n |-> 0] \in Event
  BY BoundsOK DEF Event
<1>4. ScreenOK(t)'
  BY <1>2, <1>3, ScreenYields DEF PipeOK
<1> QED BY <1>1, <1>4 DEF PipeOK

LEMMA TakePipe ==
  ASSUME TypeOK, NEW t \in Turns, PipeOK(t), LogGrows, conn[t] # "none", Take(t)
  PROVE  PipeOK(t)'
<1>1. /\ QueueOK(t)' /\ prod' = prod /\ fullText' = fullText
      /\ IsToken(Head(queue[t])) => Head(queue[t]).n = Passed(t) + 1 /\ Passed(t)' = Passed(t) + 1
      /\ ~IsToken(Head(queue[t])) => Passed(t)' = Passed(t)
  BY TakeQueue DEF PipeOK
<1>2. /\ gen[t] = "streaming" /\ Head(queue[t]) \in Item /\ sent' = sent /\ bubble' = bubble
      /\ Passed(t) \in Nat
  <2>1. gen[t] = "streaming" /\ queue[t] # <<>> /\ sent' = sent /\ bubble' = bubble
    BY DEF Take, clientVars
  <2>2. queue[t] \in Seq(Item)
    BY DEF TypeOK
  <2> QED BY <2>1, <2>2, TailFacts DEF PipeOK, QueueOK
<1> DEFINE item == Head(queue[t])
<1>3. CASE item.kind = "token" /\ Yield(t, "token", item.n) /\ UNCHANGED gen
  <2>1. [kind |-> "token", n |-> item.n] \in Event
    BY <1>2, <1>3 DEF Item, Event, Token
  <2>2. item.n = Passed(t) + 1 /\ Passed(t)' = Passed(t) + 1
    BY <1>1, <1>3 DEF IsToken
  <2>3. ScreenOK(t)'
    BY <1>2, <1>3, <2>1, <2>2, ScreenYields DEF PipeOK
  <2> QED BY <1>1, <2>3 DEF PipeOK
<1>4. CASE item.kind = "done" /\ Goto(t, "storing") /\ UNCHANGED netVars
  <2>1. gen'[t] = "storing" /\ conn' = conn /\ wire' = wire
    BY <1>4 DEF TypeOK, Goto, netVars
  <2>2. Passed(t)' = Passed(t)
    BY <1>1, <1>4 DEF IsToken
  <2>3. ScreenOK(t)'
    BY <1>2, <2>1, <2>2, ScreenKept DEF PipeOK
  <2> QED BY <1>1, <2>3 DEF PipeOK
<1>5. CASE item.kind = "error" /\ Yield(t, "error", 0) /\ Goto(t, "closed")
  <2>1. gen'[t] = "closed" /\ [kind |-> "error", n |-> 0] \in Event
    BY <1>5, BoundsOK, Kinds DEF TypeOK, Goto
  <2>2. Passed(t)' = Passed(t)
    BY <1>1, <1>5 DEF IsToken
  <2>3. ScreenOK(t)'
    BY <1>2, <1>5, <2>1, <2>2, ScreenYields DEF PipeOK
  <2> QED BY <1>1, <2>3 DEF PipeOK
<1> QED BY <1>3, <1>4, <1>5 DEF Take

(* The steps of the generator. *)
LEMMA ServePipe ==
  ASSUME TypeOK, NEW t \in Turns, PipeOK(t), Serve(t)
  PROVE  PipeOK(t)'
<1> USE DEF clientVars, netVars, prodVars, storeVars
<1>0. /\ LogGrows /\ QueueOK(t) /\ ScreenOK(t) /\ gen \in [Turns -> GenStates]
      /\ fullText[t] \in 0..MaxChunks
  BY StepLog DEF TurnStep, PipeOK, TypeOK
<1>1. CASE Refuse(t) \/ GraphFails(t) \/ Silence(t) \/ TimeOut(t)
  <2>1. /\ gen[t] # "closed" /\ gen'[t] = "closed" /\ sent' = sent /\ bubble' = bubble
        /\ QueueStays(t)
    BY <1>0, <1>1 DEF Refuse, GraphFails, Silence, TimeOut, Goto, QueueStays
  <2>2. conn[t] # "none"
    BY <1>0, <1>1 DEF Refuse, GraphFails, Silence, TimeOut, ScreenOK
  <2>3. \E kind \in {"status", "silent", "error"} : Yield(t, kind, 0)
    BY <1>1 DEF Refuse, GraphFails, Silence, TimeOut
  <2> QED BY <1>0, <2>1, <2>2, <2>3, RefusePipe
<1>2. CASE Accept(t) \/ LogQuestion(t)
  <2>1. /\ gen[t] \in {"none", "question"} /\ gen'[t] \in {"question", "graph"}
        /\ sent' = sent /\ bubble' = bubble /\ conn' = conn /\ wire' = wire /\ QueueStays(t)
    BY <1>0, <1>2 DEF Accept, LogQuestion, Goto, QueueStays
  <2>2. conn[t] # "none"
    BY <1>0, <1>2 DEF Accept, LogQuestion, ScreenOK
  <2> QED BY <1>0, <2>1, <2>2, MovePipe
<1>3. CASE StartProducer(t)
  <2>1. /\ gen[t] = "graph" /\ gen'[t] = "streaming" /\ prod[t] # "ended"
        /\ sent' = sent /\ bubble' = bubble /\ conn' = conn /\ wire' = wire
    BY <1>0, <1>3 DEF StartProducer, Goto, QueueOK
  <2>2. QueueOK(t)' /\ Passed(t)' = Passed(t)
    BY <1>0, <1>3, StartQueue
  <2>3. Passed(t) \in Nat /\ Passed(t)' \in Nat /\ Passed(t) <= Passed(t)'
    BY <1>0, <2>2, SameIsAtMost DEF QueueOK
  <2>4. conn[t] # "none"
    BY <1>0, <2>1 DEF ScreenOK
  <2>5. ScreenOK(t)'
    BY <1>0, <2>1, <2>2, <2>3, <2>4, ScreenKept
  <2> QED BY <2>2, <2>5 DEF PipeOK
<1>4. CASE Take(t)
  <2>1. conn[t] # "none"
    BY <1>0, <1>4 DEF Take, ScreenOK
  <2> QED BY <1>0, <1>4, <2>1, TakePipe
<1>5. CASE StoreReply(t)
  <2>1. /\ gen[t] = "storing" /\ gen'[t] = "finishing"
        /\ sent' = sent /\ bubble' = bubble /\ conn' = conn /\ wire' = wire /\ QueueStays(t)
    BY <1>0, <1>5 DEF StoreReply, Goto, QueueStays
  <2>2. conn[t] # "none"
    BY <1>0, <2>1 DEF ScreenOK
  <2>3. LogRow(t, "assistant", fullText[t]) /\ fullText'[t] = fullText[t]
    BY <1>5 DEF StoreReply
  <2>4. Recorded(t, fullText[t])'
    <3>1. /\ Len(log') = Len(log) + 1 /\ Len(log) \in Nat
          /\ log'[Len(log) + 1] = [role |-> "assistant", turn |-> t, n |-> fullText[t]]
      BY <1>0, <2>3, LogRowGrows DEF LogGrows
    <3>2. Len(log) + 1 \in 1..Len(log')
      BY <3>1
    <3> QED BY <2>3, <3>1, <3>2 DEF Recorded
  <2> QED BY <1>0, <2>1, <2>2, <2>4, MovePipe
<1>6. CASE Finish(t)
  <2>1. /\ gen[t] = "finishing" /\ gen'[t] = "closed" /\ sent' = sent /\ bubble' = bubble
        /\ QueueStays(t) /\ log' = log
    BY <1>0, <1>6 DEF Finish, Goto, QueueStays
  <2>2. conn[t] # "none"
    BY <1>0, <2>1 DEF ScreenOK
  <2>3. PICK n \in 0..MaxChunks : n = fullText[t]
    BY <1>0
  <2>4. Yield(t, "done", n)
    BY <1>6, <2>3 DEF Finish
  <2>5. [kind |-> "done", n |-> n] \in Event
    BY DEF Event
  <2>6. prod[t] = "ended" /\ queue[t] = <<>> /\ Recorded(t, n)
    BY <1>0, <2>1, <2>3 DEF QueueOK, ScreenOK
  <2>7. Recorded(t, n)'
    BY <1>0, <2>6, RecordGrows
  <2>8. Complete(t, n)'
    BY <2>1, <2>3, <2>6, <2>7 DEF Complete, QueueStays
  <2>9. Passed(t)' = Passed(t) /\ Passed(t) \in Nat
    BY <1>0, <2>1, PassedStays DEF QueueOK
  <2>10. ScreenOK(t)'
    BY <1>0, <2>1, <2>2, <2>4, <2>5, <2>8, <2>9, ScreenYields
  <2>11. QueueOK(t)'
    BY <1>0, <2>1, QueueKept
  <2> QED BY <2>10, <2>11 DEF PipeOK
<1> QED BY <1>1, <1>2, <1>3, <1>4, <1>5, <1>6 DEF Serve

(* The steps of the producer, and the ends a generator comes to. *)
LEMMA BehindPipe ==
  ASSUME TypeOK, NEW t \in Turns, PipeOK(t),
         ProduceToken(t) \/ ProduceEnd(t) \/ Raise(t) \/ Cancel(t) \/ WriteOrphan(t)
  PROVE  PipeOK(t)'
<1> USE DEF clientVars, netVars, prodVars, storeVars
<1>0. LogGrows /\ QueueOK(t) /\ ScreenOK(t) /\ gen \in [Turns -> GenStates]
  BY StepLog DEF TurnStep, PipeOK, TypeOK
<1>1. CASE ProduceToken(t) \/ ProduceEnd(t)
  <2>1. QueueOK(t)' /\ Passed(t)' = Passed(t) /\ prod[t] = "running"
    BY <1>0, <1>1, ProduceQueue
  <2>2. Passed(t) \in Nat /\ Passed(t)' \in Nat /\ Passed(t) <= Passed(t)'
    BY <1>0, <2>1, SameIsAtMost DEF QueueOK
  <2>3. gen' = gen /\ sent' = sent /\ bubble' = bubble /\ conn' = conn /\ wire' = wire
    BY <1>1 DEF ProduceToken, ProduceEnd
  <2>4. gen'[t] # "finishing"
    BY <1>0, <2>1, <2>3 DEF QueueOK
  <2>5. ScreenOK(t)'
    BY <1>0, <2>1, <2>2, <2>3, <2>4, ScreenKept
  <2> QED BY <2>1, <2>5 DEF PipeOK
<1>2. CASE Cancel(t) \/ WriteOrphan(t)
  <2>1. sent' = sent /\ bubble' = bubble /\ conn' = conn /\ wire' = wire /\ QueueStays(t)
    BY <1>2 DEF Cancel, WriteOrphan, QueueStays
  <2>2. /\ gen[t] # "closed" /\ gen'[t] \in {"closed", "orphan question", "orphan reply"}
        /\ gen'[t] = "orphan reply" => gen[t] = "storing"
    BY <1>0, <1>2 DEF Cancel, WriteOrphan, Goto
  <2>3. conn[t] # "none"
    BY <1>0, <1>2 DEF Cancel, WriteOrphan, ScreenOK
  <2> QED BY <1>0, <2>1, <2>2, <2>3, MovePipe
<1>3. CASE Raise(t)
  <2>1. /\ gen[t] \in {"question", "storing"} /\ gen'[t] = "closed" /\ sent' = sent
        /\ bubble' = bubble /\ QueueStays(t)
    BY <1>0, <1>3 DEF Raise, Goto, QueueStays
  <2>2. conn[t] # "none"
    BY <1>0, <2>1 DEF ScreenOK
  <2>3. CASE conn[t] = "open"
    <3>1. conn'[t] = "broken" /\ wire'[t] = <<>>
      BY <1>3, <2>3 DEF Raise, TypeOK
    <3>2. ScreenOK(t)'
      BY <1>0, <2>1, <2>2, <3>1, ScreenCutOff
    <3>3. QueueOK(t)'
      BY <1>0, <2>1, QueueKept
    <3> QED BY <3>2, <3>3 DEF PipeOK
  <2>4. CASE conn[t] # "open"
    <3>1. conn' = conn /\ wire' = wire
      BY <1>3, <2>4 DEF Raise
    <3> QED BY <1>0, <2>1, <2>2, <3>1, MovePipe
  <2> QED BY <2>3, <2>4
<1> QED BY <1>1, <1>2, <1>3

LEMMA NothingThere ==
  ASSUME NEW s, Len(s) = 0
  PROVE  (\A i \in 1..Len(s) : FALSE) /\ \A n : Ordered(s, n)
BY DEF Ordered

LEMMA OnePieceLess ==
  \A a, b, c, d \in Nat : b = c - 1 /\ a + c = d => a + 1 <= d /\ (a + 1) + b = d
OBVIOUS

(* The client reads a piece ... *)
LEMMA ReceiveToken ==
  ASSUME TypeOK, NEW t \in Turns, ScreenOK(t), QueueStays(t), LogGrows, Passed(t) \in Nat,
         conn[t] = "open", wire[t] # <<>>, IsToken(Head(wire[t])), wire'[t] = Tail(wire[t]),
         bubble'[t] = [state |-> bubble[t].state, text |-> Append(bubble[t].text, Head(wire[t]).n)],
         sent' = sent, conn'[t] = conn[t], gen'[t] = gen[t]
  PROVE  ScreenOK(t)'
<1>0. Len(bubble[t].text) \in Nat
  BY DEF TypeOK, Bubble
<1>1. PICK n \in Nat : n = Len(bubble[t].text)
  BY <1>0
<1>2. wire[t] \in Seq(Event) /\ Ordered(wire[t], n)
  BY <1>1 DEF TypeOK, ScreenOK
<1>3. /\ Head(wire[t]).n = n + 1 /\ Ordered(wire'[t], n + 1) /\ Tokens(wire'[t]) = Tokens(wire[t]) - 1
  BY <1>2, OrderedTail
<1>4. /\ wire'[t] \in Seq(Event) /\ Len(wire'[t]) = Len(wire[t]) - 1 /\ Len(wire'[t]) \in Nat
      /\ \A i \in 1..Len(wire'[t]) : wire'[t][i] = wire[t][i + 1] /\ i + 1 \in 1..Len(wire[t])
  BY <1>2, TailFacts
<1>5. Waiting(t) /\ Waiting(t)' /\ ShowsStart(t) /\ n + Tokens(wire[t]) = Passed(t)
  BY <1>1 DEF ScreenOK, Waiting
<1>6. bubble'[t].text = Upto(n + 1) /\ Len(bubble'[t].text) = n + 1
  <2>1. bubble[t].text = Upto(n)
    BY <1>1, <1>5 DEF ShowsStart
  <2>2. bubble'[t].text = Append(Upto(n), n + 1)
    BY <1>3, <2>1
  <2>3. n + 1 \in Nat
    OBVIOUS
  <2> QED BY <2>2, <2>3, UptoAppend
<1>7. Passed(t)' = Passed(t)
  BY PassedStays
<1>8. n + 1 <= Passed(t) /\ (n + 1) + Tokens(wire'[t]) = Passed(t)
  <2>1. Tokens(wire'[t]) \in Nat /\ Tokens(wire[t]) \in Nat
    BY <1>2, <1>4, TokensType
  <2>2. Tokens(wire'[t]) = Tokens(wire[t]) - 1 /\ n + Tokens(wire[t]) = Passed(t)
    BY <1>3, <1>5
  <2> QED BY <2>1, <2>2, OnePieceLess
<1>9. Ordered(wire'[t], Len(bubble'[t].text))
  BY <1>3, <1>6
<1>10. gen'[t] # "closed" => Tokens(wire'[t]) = Len(wire'[t])
  BY <1>3, <1>4 DEF ScreenOK
<1>11. ShowsStart(t)'
  <2>1. Len(bubble'[t].text) <= Passed(t)'
    BY <1>6, <1>7, <1>8
  <2>2. bubble'[t].text = Upto(Len(bubble'[t].text))
    BY <1>6
  <2> QED BY <2>1, <2>2 DEF ShowsStart
<1>12. Len(bubble'[t].text) + Tokens(wire'[t]) = Passed(t)'
  BY <1>6, <1>7, <1>8
<1>13. bubble'[t].state # "final" /\ ~(t > sent') /\ conn'[t] = "open"
  BY <1>5 DEF ScreenOK, Waiting
<1>14. (\A i \in 1..Len(wire[t]) : wire[t][i].kind = "done" => Complete(t, wire[t][i].n))'
  <2> SUFFICES ASSUME NEW i \in 1..Len(wire'[t]), wire'[t][i].kind = "done"
               PROVE  Complete(t, wire[t][i].n)'
    OBVIOUS
  <2>1. Complete(t, wire'[t][i].n)
    BY <1>4 DEF ScreenOK
  <2>2. PICK m : m = wire'[t][i].n
    OBVIOUS
  <2>3. Recorded(t, m)'
    BY <2>1, <2>2, RecordGrows DEF Complete
  <2>4. gen'[t] = "closed" /\ prod'[t] = "ended" /\ queue'[t] = <<>> /\ m = fullText'[t]
    BY <2>1, <2>2 DEF Complete, QueueStays
  <2> QED BY <2>2, <2>3, <2>4 DEF Complete, Recorded
<1>15. gen'[t] = "finishing" => Recorded(t, fullText[t])'
  BY RecordGrows DEF ScreenOK, QueueStays
<1> QED BY <1>5, <1>9, <1>10, <1>11, <1>12, <1>13, <1>14, <1>15 DEF ScreenOK

(* ... or the last word, before which it has read every piece. *)
LEMMA ReceiveLast ==
  ASSUME TypeOK, NEW t \in Turns, PipeOK(t), QueueStays(t), LogGrows,
         conn[t] = "open", wire[t] # <<>>, ~IsToken(Head(wire[t])), wire'[t] = Tail(wire[t]),
         bubble'[t].state \in {"final", "silent", "refused"},
         bubble'[t].state = "final" =>
           /\ Head(wire[t]).kind = "done"
           /\ bubble'[t].text \in {bubble[t].text, Upto(Head(wire[t]).n)},
         bubble'[t].state # "final" => bubble'[t].text = <<>>,
         sent' = sent, conn'[t] = conn[t], gen'[t] = gen[t]
  PROVE  ScreenOK(t)'
<1>0. /\ wire[t] \in Seq(Event) /\ Ordered(wire[t], Len(bubble[t].text)) /\ ScreenOK(t)
      /\ Len(bubble[t].text) \in Nat
  <2>1. wire[t] \in Seq(Event) /\ Len(bubble[t].text) \in Nat
    BY DEF TypeOK, Bubble
  <2> QED BY <2>1 DEF PipeOK, ScreenOK
<1>1. wire'[t] = <<>> /\ Tokens(wire[t]) = 0 /\ Len(wire[t]) = 1 /\ Head(wire[t]) = wire[t][1]
  BY <1>0, OrderedTail, TailFacts
<1>2. gen[t] = "closed" /\ ~Waiting(t)' /\ ~(t > sent') /\ conn'[t] = "open"
  <2>1. gen[t] = "closed"
    BY <1>0, <1>1 DEF ScreenOK
  <2>2. ~Waiting(t)'
    BY DEF Waiting
  <2>3. ~(t > sent)
    BY <1>0 DEF ScreenOK
  <2> QED BY <2>1, <2>2, <2>3
<1>3. Waiting(t) /\ ShowsStart(t) /\ Len(bubble[t].text) + Tokens(wire[t]) = Passed(t)
  BY <1>0 DEF ScreenOK
<1>4. Len(wire'[t]) = 0 /\ Ordered(wire'[t], Len(bubble'[t].text)) /\ \A i \in 1..Len(wire'[t]) : FALSE
  <2>1. Len(wire'[t]) = 0
    BY <1>1
  <2> QED BY <2>1, NothingThere
<1>5. bubble'[t].state = "final" => ShowsAll(t)'
  <2> SUFFICES ASSUME bubble'[t].state = "final" PROVE ShowsAll(t)'
    OBVIOUS
  <2>1. PICK n : n = Head(wire[t]).n
    OBVIOUS
  <2>2. Complete(t, n)
    <3>1. wire[t][1].kind = "done" /\ 1 \in 1..Len(wire[t])
      BY <1>1
    <3> QED BY <1>0, <1>1, <2>1, <3>1 DEF ScreenOK
  <2>3. Tokens(queue[t]) = 0 /\ n = fullText[t] /\ fullText[t] \in Nat
    BY <2>2, BoundsOK DEF Complete, Tokens, TypeOK
  <2>4. Passed(t) = n
    BY <2>3 DEF Passed
  <2>5. Len(bubble[t].text) = n
    BY <1>0, <1>1, <1>3, <2>4
  <2>6. bubble[t].text = Upto(n) /\ bubble'[t].text = Upto(n)
    BY <1>3, <2>1, <2>5 DEF ShowsStart
  <2>7. Len(Upto(n)) = n
    BY <2>5, <2>6
  <2>8. Recorded(t, n)'
    BY <2>2, RecordGrows DEF Complete
  <2>9. bubble'[t].text = Upto(Len(bubble'[t].text)) /\ Len(bubble'[t].text) = n
    BY <2>6, <2>7
  <2> QED BY <2>8, <2>9 DEF ShowsAll, Recorded
<1> QED BY <1>1, <1>2, <1>4, <1>5 DEF ScreenOK

LEMMA ReceivePipe ==
  ASSUME TypeOK, NEW t \in Turns, PipeOK(t), Receive(t)
  PROVE  PipeOK(t)'
<1> USE DEF clientVars, netVars, prodVars, storeVars
<1>0. LogGrows /\ QueueOK(t) /\ ScreenOK(t) /\ Passed(t) \in Nat
  BY StepLog DEF TurnStep, Read, PipeOK, QueueOK
<1>1. /\ conn[t] = "open" /\ wire[t] # <<>> /\ wire'[t] = Tail(wire[t]) /\ bubble \in [Turns -> Bubble]
      /\ sent' = sent /\ conn' = conn /\ gen' = gen /\ QueueStays(t)
  BY DEF Receive, TypeOK, QueueStays
<1>2. QueueOK(t)'
  BY <1>0, <1>1, QueueKept
<1> DEFINE e == Head(wire[t])
           text == bubble[t].text
<1>3. CASE e.kind = "token" /\ Show(t, bubble[t].state, Append(text, e.n))
  <2>1. bubble'[t] = [state |-> bubble[t].state, text |-> Append(bubble[t].text, Head(wire[t]).n)]
    BY <1>1, <1>3 DEF Show
  <2>2. ScreenOK(t)'
    BY <1>0, <1>1, <1>3, <2>1, ReceiveToken DEF IsToken
  <2> QED BY <1>2, <2>2 DEF PipeOK
<1>4. CASE e.kind # "token" /\ \/ e.kind = "done" /\ \E x \in {text, Upto(e.n)} : Show(t, "final", x)
                               \/ \E s \in {"silent", "refused"} : Show(t, s, <<>>)
  <2>1. /\ bubble'[t].state \in {"final", "silent", "refused"}
        /\ bubble'[t].state = "final" => e.kind = "done" /\ bubble'[t].text \in {text, Upto(e.n)}
        /\ bubble'[t].state # "final" => bubble'[t].text = <<>>
    BY <1>1, <1>4 DEF Show
  <2>2. ScreenOK(t)'
    BY <1>0, <1>1, <1>4, <2>1, ReceiveLast DEF IsToken
  <2> QED BY <1>2, <2>2 DEF PipeOK
<1> QED BY <1>3, <1>4 DEF Receive

LEMMA EndPipe ==
  ASSUME TypeOK, NEW t \in Turns, PipeOK(t), ReadFails(t) \/ EndOfStream(t) \/ Break(t) \/ Leave(t)
  PROVE  PipeOK(t)'
<1> USE DEF clientVars, netVars, prodVars, storeVars
<1>0. /\ LogGrows /\ QueueOK(t) /\ ScreenOK(t) /\ bubble \in [Turns -> Bubble]
      /\ conn \in [Turns -> {"none", "open", "broken", "over"}] /\ wire \in [Turns -> Seq(Event)]
  BY StepLog DEF TurnStep, Read, PipeOK, TypeOK
<1>1. sent' = sent /\ gen' = gen /\ QueueStays(t) /\ conn[t] # "none" /\ conn'[t] \in {"broken", "over"}
  BY <1>0 DEF ReadFails, EndOfStream, Break, Leave, QueueStays
<1>2. wire'[t] = <<>>
  BY <1>0 DEF ReadFails, EndOfStream, Break, Leave, ScreenOK
<1>3. bubble'[t] = bubble[t] \/ bubble'[t].state \notin {"waiting", "final"}
  <2>1. CASE EndOfStream(t) \/ Break(t)
    BY <2>1 DEF EndOfStream, Break
  <2>2. CASE Leave(t)
    BY <1>0, <2>2 DEF Leave, Show
  <2>3. CASE ReadFails(t)
    <3>1. bubble[t] = [state |-> bubble[t].state, text |-> bubble[t].text]
      BY <1>0 DEF Bubble
    <3>2. \/ bubble'[t].state = "lost"
          \/ bubble'[t] = [state |-> bubble[t].state, text |-> bubble[t].text]
      <4>1. CASE client = "mobile"
        BY <1>0, <2>3, <4>1 DEF ReadFails, Show
      <4>2. CASE client # "mobile" /\ bubble[t].state = "waiting"
        BY <1>0, <2>3, <4>2 DEF ReadFails, Show
      <4>3. CASE client # "mobile" /\ bubble[t].state # "waiting"
        BY <1>0, <2>3, <4>3 DEF ReadFails, Show
      <4> QED BY <4>1, <4>2, <4>3
    <3>3. bubble'[t].state = "lost" \/ bubble'[t] = bubble[t]
      BY <3>1, <3>2, Zenon
    <3> QED BY <3>3
  <2> QED BY <2>1, <2>2, <2>3
<1>4. ScreenOK(t)'
  BY <1>0, <1>1, <1>2, <1>3, ScreenCutOff
<1>5. QueueOK(t)'
  BY <1>0, <1>1, QueueKept
<1> QED BY <1>4, <1>5 DEF PipeOK

LEMMA NoPieces == Upto(0) = <<>> /\ Len(Upto(0)) = 0
BY DEF Upto

(* A turn begins. *)
LEMMA SendPipe ==
  ASSUME TypeOK, PipeInv, Send, NEW t \in Turns
  PROVE  PipeOK(t)'
<1>1. /\ sent \in Nat /\ sent' = sent + 1 /\ sent + 1 \in Turns /\ gen' = gen /\ wire' = wire
      /\ QueueStays(t)
  BY BoundsOK DEF TypeOK, Send, MaySend, prodVars, Turns, QueueStays
<1>2. QueueOK(t) /\ ScreenOK(t) /\ LogGrows
  BY LogStaysGrows DEF PipeInv, PipeOK, Send, storeVars
<1>3. QueueOK(t)'
  BY <1>1, <1>2, QueueKept
<1>4. Passed(t) \in Nat /\ Passed(t)' = Passed(t)
  BY <1>1, <1>2, PassedStays DEF QueueOK
<1>5. CASE t = sent + 1
  <2>1. conn[t] = "none" /\ gen[t] = "none" /\ bubble[t].text = <<>> /\ wire[t] = <<>>
    BY <1>1, <1>2, <1>5 DEF ScreenOK
  <2>2. conn'[t] = "open" /\ bubble'[t].state = "waiting" /\ bubble'[t].text = <<>>
    BY <1>1, <1>5, <2>1 DEF TypeOK, Send, Bubble
  <2>3. fullText[t] = 0 /\ queue[t] = <<>>
    BY <1>2, <2>1 DEF QueueOK
  <2>4. Passed(t) = 0
    <3>1. Tokens(queue[t]) = 0
      BY <2>3 DEF Tokens
    <3> QED BY <2>3, <3>1 DEF Passed
  <2>5. Len(wire'[t]) = 0 /\ Tokens(wire'[t]) = 0 /\ Len(bubble'[t].text) = 0
    BY <1>1, <2>1, <2>2 DEF Tokens
  <2>6. (\A i \in 1..Len(wire'[t]) : FALSE) /\ Ordered(wire'[t], Len(bubble'[t].text))
    BY <2>5, NothingThere
  <2>7. Passed(t)' = 0
    BY <1>4, <2>4
  <2>8. ShowsStart(t)'
    BY <2>2, <2>5, <2>7, NoPieces DEF ShowsStart
  <2>9. ~(t > sent') /\ gen'[t] = "none" /\ Waiting(t)'
    BY <1>1, <1>5, <2>1, <2>2 DEF Waiting
  <2>10. Len(bubble'[t].text) + Tokens(wire'[t]) = Passed(t)'
    BY <2>5, <2>7
  <2>11. ScreenOK(t)'
    BY <2>2, <2>5, <2>6, <2>8, <2>9, <2>10 DEF ScreenOK
  <2> QED BY <1>3, <2>11 DEF PipeOK
<1>6. CASE t # sent + 1
  <2>1. conn'[t] = conn[t] /\ bubble'[t] = bubble[t]
    BY <1>1, <1>6 DEF TypeOK, Send
  <2>2. t > sent' => t > sent
    BY <1>1, <1>6 DEF Turns
  <2>3. gen'[t] = "finishing" => Recorded(t, fullText[t])'
    BY <1>1, <1>2, RecordGrows DEF ScreenOK, QueueStays
  <2>4. Passed(t)' \in Nat /\ Passed(t) <= Passed(t)'
    BY <1>4, SameIsAtMost
  <2>5. ScreenOK(t)'
    BY <1>1, <1>2, <1>4, <2>1, <2>2, <2>3, <2>4, ScreenKept
  <2> QED BY <1>3, <2>5 DEF PipeOK
<1> QED BY <1>5, <1>6

LEMMA PipeInit == Init => PipeInv
<1> SUFFICES ASSUME Init, NEW t \in Turns PROVE PipeOK(t)
  BY DEF PipeInv
<1>1. /\ conn[t] = "none" /\ gen[t] = "none" /\ wire[t] = <<>> /\ queue[t] = <<>>
      /\ fullText[t] = 0 /\ prod[t] = "none"
  BY DEF Init
<1>2. bubble[t].state = "none" /\ bubble[t].text = <<>>
  BY DEF Init
<1>3. Tokens(queue[t]) = 0 /\ Len(queue[t]) = 0 /\ Tokens(wire[t]) = 0 /\ Len(wire[t]) = 0
  BY <1>1 DEF Tokens
<1>4. Passed(t) = 0 /\ Passed(t) \in Nat
  BY <1>1, <1>3 DEF Passed
<1>5. /\ Ordered(queue[t], Passed(t)) /\ Ordered(wire[t], Len(bubble[t].text))
      /\ \A i \in 1..Len(wire[t]) : FALSE
  BY <1>3, NothingThere
<1>6. QueueOK(t)
  BY <1>1, <1>3, <1>4, <1>5 DEF QueueOK
<1>7. ScreenOK(t)
  BY <1>1, <1>2, <1>3, <1>5 DEF ScreenOK, Waiting
<1> QED BY <1>6, <1>7 DEF PipeOK

LEMMA PipeStutter ==
  ASSUME PipeInv, UNCHANGED vars
  PROVE  PipeInv'
<1> SUFFICES ASSUME NEW t \in Turns PROVE PipeOK(t)'
  BY DEF PipeInv
<1>1. QueueOK(t) /\ ScreenOK(t)
  BY DEF PipeInv, PipeOK
<1>2. /\ gen' = gen /\ prod' = prod /\ fullText' = fullText /\ queue' = queue
      /\ conn' = conn /\ wire' = wire /\ bubble' = bubble /\ sent' = sent /\ log' = log
  BY DEF vars, clientVars, netVars, prodVars, storeVars
<1>3. Passed(t)' = Passed(t) /\ (Waiting(t)' <=> Waiting(t))
  BY <1>2 DEF Passed, Waiting
<1>4. QueueOK(t)'
  BY <1>1, <1>2, <1>3 DEF QueueOK
<1>5. ShowsStart(t)' <=> ShowsStart(t)
  BY <1>2, <1>3 DEF ShowsStart
<1>6. ScreenOK(t)'
  BY <1>1, <1>2, <1>3, <1>5 DEF ScreenOK, ShowsAll, Complete, Recorded
<1> QED BY <1>4, <1>6 DEF PipeOK

LEMMA PipeStep ==
  ASSUME TypeOK, PipeInv, [Next]_vars
  PROVE  PipeInv'
<1>1. CASE UNCHANGED vars
  BY <1>1, PipeStutter
<1>2. CASE Send
  BY <1>2, SendPipe DEF PipeInv
<1>3. CASE \E t \in Turns : TurnStep(t)
  <2>1. PICK t \in Turns : TurnStep(t)
    BY <1>3
  <2>2. PipeOK(t)'
    <3>1. PipeOK(t)
      BY DEF PipeInv
    <3> QED BY <2>1, <3>1, ServePipe, BehindPipe, ReceivePipe, EndPipe DEF TurnStep, Read
  <2>3. \A u \in Turns \ {t} : PipeOK(u)'
    BY <2>1, OtherPipes
  <2> QED BY <2>2, <2>3 DEF PipeInv
<1> QED
  BY <1>1, <1>2, <1>3 DEF Next, TurnStep

LEMMA PipeAlways == Spec => []PipeInv
<1>1. Init => PipeInv
  BY PipeInit
<1>2. TypeOK /\ PipeInv /\ [Next]_vars => PipeInv'
  BY PipeStep
<1> QED
  BY <1>1, <1>2, TypeCorrect, PTL DEF Spec

(* Whatever breaks, whenever it breaks: what the user sees of a reply is its *)
(* beginning, and once final it is the whole reply, as it is on record.      *)
THEOREM ScreenShowsReply == Spec => []TextIsReply
<1>1. TypeOK /\ PipeInv => TextIsReply
  <2> SUFFICES ASSUME TypeOK, PipeInv, NEW t \in Turns
               PROVE  /\ Waiting(t) => /\ bubble[t].text = Upto(Len(bubble[t].text))
                                       /\ Len(bubble[t].text) <= fullText[t]
                      /\ bubble[t].state = "final" =>
                           \E i \in 1..Len(log) :
                             /\ log[i] = [role |-> "assistant", turn |-> t, n |-> Len(bubble[t].text)]
                             /\ bubble[t].text = Upto(Len(bubble[t].text))
    BY DEF TextIsReply
  <2>1. QueueOK(t) /\ ScreenOK(t)
    BY DEF PipeInv, PipeOK
  <2>2. Passed(t) <= fullText[t] /\ Len(bubble[t].text) \in Nat /\ fullText[t] \in Nat /\ Passed(t) \in Nat
    <3>1. fullText[t] \in Nat /\ queue[t] \in Seq(Item) /\ Len(bubble[t].text) \in Nat
      BY BoundsOK DEF TypeOK, Bubble
    <3>2. Tokens(queue[t]) \in Nat
      BY <3>1, TokensType
    <3>3. Passed(t) \in Nat
      BY <2>1 DEF QueueOK
    <3>4. Passed(t) <= fullText[t]
      BY <3>1, <3>2 DEF Passed
    <3> QED BY <3>1, <3>3, <3>4
  <2>3. Waiting(t) => ShowsStart(t)
    BY <2>1 DEF ScreenOK
  <2>4. bubble[t].state = "final" => ShowsAll(t)
    BY <2>1 DEF ScreenOK
  <2> QED BY <2>2, <2>3, <2>4 DEF ShowsStart, ShowsAll, Recorded
<1> QED
  BY <1>1, PipeAlways, TypeCorrect, PTL

-----------------------------------------------------------------------------
(* The order of the record. *)

(* As long as no connection was lost, the only reply on its way is the one   *)
(* to the last message, and the flag forbids the next.                       *)
SmoothTurn(t) ==
  /\ conn[t] # "broken"
  /\ conn[t] = "over" => gen[t] = "closed"
  /\ gen[t] \notin {"orphan question", "orphan reply"}
  /\ Waiting(t) => t = sent /\ streaming

Smooth == lost = 0 => \A t \in Turns : SmoothTurn(t)

(* A generator is at work for t. *)
Active(t) == gen[t] \notin {"none", "closed"}

LEMMA ActiveIsLast ==
  ASSUME PipeInv, Smooth, TypeOK, lost = 0, NEW t \in Turns, Active(t)
  PROVE  t = sent /\ conn[t] = "open" /\ Waiting(t)
<1>1. SmoothTurn(t) /\ ScreenOK(t)
  BY DEF Smooth, PipeInv, PipeOK
<1>2. conn[t] \in {"none", "open", "broken", "over"}
  BY DEF TypeOK
<1>3. conn[t] = "open"
  BY <1>1, <1>2 DEF SmoothTurn, ScreenOK, Active
<1> QED BY <1>1, <1>3 DEF SmoothTurn, ScreenOK, Active

LEMMA SmoothSteps ==
  ASSUME TypeOK, PipeInv, Smooth, NEW t \in Turns, TurnStep(t), lost' = 0
  PROVE  /\ lost = 0
         /\ Serve(t) \/ Receive(t) \/ ProduceToken(t) \/ ProduceEnd(t) \/ EndOfStream(t)
<1>1. lost \in Nat
  BY BoundsOK DEF TypeOK
<1>2. lost' = lost \/ lost' = lost + 1
  BY DEF TurnStep, Serve, Read, Refuse, Accept, LogQuestion, GraphFails, Silence, StartProducer,
     Take, TimeOut, StoreReply, Finish, Receive, ReadFails, ProduceToken, ProduceEnd, Raise,
     Cancel, WriteOrphan, EndOfStream, Break, Leave
<1>3. lost = 0 /\ lost' # lost + 1
  BY <1>1, <1>2
<1>4. SmoothTurn(t)
  BY <1>3 DEF Smooth
<1>5. ~Raise(t) /\ ~Break(t) /\ ~Leave(t)
  BY <1>3 DEF Raise, Break, Leave
<1>6. ~ReadFails(t) /\ ~Cancel(t) /\ ~WriteOrphan(t)
  BY <1>4 DEF ReadFails, Cancel, WriteOrphan, SmoothTurn
<1> QED BY <1>3, <1>5, <1>6 DEF TurnStep, Read

LEMMA SmoothTurns ==
  ASSUME TypeOK, PipeInv, Smooth, NEW t \in Turns, TurnStep(t), lost' = 0, NEW u \in Turns
  PROVE  SmoothTurn(u)'
<1> USE DEF clientVars, netVars
<1>0. /\ lost = 0 /\ SmoothTurn(t) /\ SmoothTurn(u) /\ ScreenOK(t) /\ ScreenOK(t)'
      /\ Serve(t) \/ Receive(t) \/ ProduceToken(t) \/ ProduceEnd(t) \/ EndOfStream(t)
  <2>1. PipeInv'
    BY PipeStep DEF Next, TurnStep
  <2> QED BY <2>1, SmoothSteps DEF Smooth, PipeInv, PipeOK
<1>1. CASE Serve(t) \/ ProduceToken(t) \/ ProduceEnd(t)
  <2>1. bubble' = bubble /\ streaming' = streaming /\ sent' = sent /\ conn' = conn
    BY <1>1 DEF Serve, Refuse, Accept, LogQuestion, GraphFails, Silence, StartProducer, Take,
       TimeOut, StoreReply, Finish, ProduceToken, ProduceEnd, Yield
  <2>2. \/ gen'[u] = gen[u]
        \/ u = t /\ gen[t] # "closed" /\ gen'[t] \notin {"orphan question", "orphan reply"}
    BY <1>1 DEF TypeOK, Serve, Refuse, Accept, LogQuestion, GraphFails, Silence, StartProducer, Take,
       TimeOut, StoreReply, Finish, ProduceToken, ProduceEnd, Goto
  <2> QED BY <1>0, <2>1, <2>2 DEF SmoothTurn, Waiting
<1>2. CASE EndOfStream(t)
  <2>1. /\ bubble' = bubble /\ streaming' = streaming /\ sent' = sent /\ gen' = gen
        /\ conn'[u] = conn[u] \/ (u = t /\ gen[t] = "closed" /\ conn'[t] = "over")
    BY <1>2 DEF EndOfStream, TypeOK
  <2> QED BY <1>0, <2>1 DEF SmoothTurn, Waiting
<1>3. CASE Receive(t)
  <2>1. Waiting(t) /\ sent' = sent /\ conn' = conn /\ gen' = gen
    BY <1>0, <1>3 DEF Receive, ScreenOK
  <2>2. t = sent
    BY <1>0, <2>1 DEF SmoothTurn
  <2>3. CASE u = t
    <3>1. streaming' = streaming \/ bubble'[t].state # "waiting"
      BY <1>3 DEF Receive, Show, TypeOK
    <3> QED BY <1>0, <2>1, <2>2, <2>3, <3>1 DEF SmoothTurn, Waiting
  <2>4. CASE u # t
    <3>1. bubble'[u] = bubble[u]
      BY <2>4, StepFrame
    <3> QED BY <1>0, <2>1, <2>2, <2>4, <3>1 DEF SmoothTurn, Waiting
  <2> QED BY <2>3, <2>4
<1> QED BY <1>0, <1>1, <1>2, <1>3

LEMMA SmoothSend ==
  ASSUME TypeOK, PipeInv, Smooth, Send, lost' = 0, NEW u \in Turns
  PROVE  SmoothTurn(u)'
<1>0. /\ sent \in Nat /\ sent' = sent + 1 /\ sent + 1 \in Turns /\ gen' = gen
      /\ ~streaming /\ streaming' = TRUE /\ lost = 0
  BY BoundsOK DEF TypeOK, Send, MaySend, Turns
<1>1. SmoothTurn(u) /\ ScreenOK(u)
  BY <1>0 DEF Smooth, PipeInv, PipeOK
<1>2. CASE u = sent + 1
  <2>1. conn'[u] = "open" /\ gen[u] = "none"
    BY <1>0, <1>1, <1>2 DEF TypeOK, Send, ScreenOK
  <2> QED BY <1>0, <1>2, <2>1 DEF SmoothTurn
<1>3. CASE u # sent + 1
  <2>1. conn'[u] = conn[u] /\ bubble'[u] = bubble[u]
    BY <1>3 DEF TypeOK, Send
  <2> QED BY <1>0, <1>1, <2>1 DEF SmoothTurn, Waiting
<1> QED BY <1>2, <1>3

LEMMA SmoothStep ==
  ASSUME TypeOK, PipeInv, Smooth, [Next]_vars
  PROVE  Smooth'
<1> SUFFICES ASSUME lost' = 0, NEW u \in Turns PROVE SmoothTurn(u)'
  BY DEF Smooth
<1>1. CASE UNCHANGED vars
  BY <1>1 DEF vars, clientVars, netVars, Smooth, SmoothTurn, Waiting
<1>2. CASE Send
  BY <1>2, SmoothSend
<1>3. CASE \E t \in Turns : TurnStep(t)
  BY <1>3, SmoothTurns
<1> QED
  BY <1>1, <1>2, <1>3 DEF Next, TurnStep

LEMMA SmoothInit == Init => Smooth
BY DEF Init, Smooth, SmoothTurn, Waiting

(* Where a generator is that has not put a reply on record, and where one is *)
(* whose question is there.                                                  *)
Unanswered ==
  {"none", "question", "graph", "streaming", "storing", "orphan question", "orphan reply"}

Asked == {"graph", "streaming", "storing", "orphan reply"}

IsReply(i) == log[i].role = "assistant"

IsQuestion(j, t) == log[j].role = "user" /\ log[j].turn = t

ReplyOK(i) ==
  /\ \E j \in 1..(i - 1) : IsQuestion(j, log[i].turn) /\ (lost = 0 => j = i - 1)
  /\ \A j \in 1..Len(log) : IsReply(j) /\ log[j].turn = log[i].turn => j = i
  /\ gen[log[i].turn] \notin Unanswered

QuestionOK(t) ==
  gen[t] \in Asked => \E j \in 1..Len(log) : IsQuestion(j, t) /\ (lost = 0 => j = Len(log))

RecordInv ==
  /\ \A i \in 1..Len(log) : IsReply(i) => ReplyOK(i)
  /\ \A t \in Turns : QuestionOK(t)

LEMMA RowTurn ==
  ASSUME TypeOK, NEW i \in 1..Len(log)
  PROVE  log[i].turn \in Turns
<1>1. log[i] \in Row
  BY DEF TypeOK
<1> QED BY <1>1 DEF Row

LEMMA RowParts ==
  ASSUME NEW row, NEW role, NEW t, NEW n, row = [role |-> role, turn |-> t, n |-> n]
  PROVE  row.role = role /\ row.turn = t
OBVIOUS

(* The places of a log that has one row more. *)
LEMMA Places ==
  ASSUME NEW n \in Nat, NEW m, m = n + 1
  PROVE  /\ m \in 1..m /\ \A i \in 1..n : i \in 1..m
         /\ \A i \in 1..m : i \in 1..n \/ i = m
         /\ \A i \in 1..n : \A j \in 1..(i - 1) : j \in 1..n
         /\ \A j \in 1..n : j \in 1..(m - 1)
         /\ n = m - 1
OBVIOUS

(* A step that writes no row. *)
LEMMA NoRow ==
  ASSUME TypeOK, RecordInv, log' = log, lost' = 0 => lost = 0,
         \A t \in Turns : gen'[t] \in Asked => gen[t] \in Asked,
         \A t \in Turns : gen'[t] \in Unanswered => gen[t] \in Unanswered
  PROVE  RecordInv'
<1>1. ASSUME NEW i \in 1..Len(log), IsReply(i)
      PROVE  ReplyOK(i)'
  <2>1. ReplyOK(i) /\ log[i].turn \in Turns
    BY <1>1, RowTurn DEF RecordInv
  <2> QED BY <2>1 DEF ReplyOK, IsReply, IsQuestion
<1>2. \A t \in Turns : QuestionOK(t)'
  BY DEF RecordInv, QuestionOK, IsQuestion
<1> QED BY <1>1, <1>2 DEF RecordInv, IsReply

(* A step that writes the question of t, or the reply to it. *)
LEMMA RowWritten ==
  ASSUME TypeOK, PipeInv, Smooth, RecordInv, NEW t \in Turns, Active(t), lost' = lost,
         NEW role \in {"user", "assistant"}, NEW n \in 0..MaxChunks, LogRow(t, role, n),
         \A u \in Turns \ {t} : gen'[u] = gen[u],
         role = "user" => gen[t] \in {"question", "orphan question"} /\ gen'[t] \in {"graph", "closed"},
         role = "assistant" => gen[t] \in Asked /\ gen'[t] \in {"finishing", "closed"}
  PROVE  RecordInv'
<1>0. /\ LogGrows /\ Len(log) \in Nat /\ Len(log') = Len(log) + 1
      /\ log'[Len(log) + 1] = [role |-> role, turn |-> t, n |-> n]
  BY LogRowGrows DEF LogGrows
<1>m. PICK m : m = Len(log) + 1
  OBVIOUS
<1>1. log'[m].role = role /\ log'[m].turn = t
  <2>1. log'[m] = [role |-> role, turn |-> t, n |-> n]
    BY <1>0, <1>m, Zenon
  <2>2. PICK row : row = [role |-> role, turn |-> t, n |-> n]
    OBVIOUS
  <2>3. row.role = role /\ row.turn = t
    BY <2>2, RowParts
  <2> QED BY <2>1, <2>2, <2>3, Zenon
<1>2. \A i \in 1..Len(log) : log'[i] = log[i] /\ log[i].turn \in Turns
  BY <1>0, RowTurn DEF LogGrows
<1>p. /\ Len(log') = m /\ m \in 1..m /\ \A i \in 1..Len(log) : i \in 1..m
      /\ \A i \in 1..m : i \in 1..Len(log) \/ i = m
      /\ \A i \in 1..Len(log) : \A j \in 1..(i - 1) : j \in 1..Len(log)
      /\ \A j \in 1..Len(log) : j \in 1..(m - 1)
      /\ Len(log) = m - 1
  BY <1>0, <1>m, Places, Zenon
<1>3. gen[t] \in Unanswered
  BY DEF Asked, Unanswered
<1>4. ASSUME NEW i \in 1..Len(log), IsReply(i)
      PROVE  ReplyOK(i)'
  <2>1. ReplyOK(i) /\ log[i].turn # t /\ log'[i] = log[i] /\ log[i].turn \in Turns
    BY <1>2, <1>3, <1>4 DEF RecordInv, ReplyOK
  <2>2. PICK j \in 1..(i - 1) : IsQuestion(j, log[i].turn) /\ (lost = 0 => j = i - 1)
    BY <2>1 DEF ReplyOK
  <2>3. j \in 1..Len(log)
    BY <1>p, Zenon
  <2>4. log'[j].role = "user" /\ log'[j].turn = log'[i].turn
    BY <1>2, <2>1, <2>2, <2>3 DEF IsQuestion
  <2>5. ASSUME NEW k \in 1..Len(log'), log'[k].role = "assistant", log'[k].turn = log'[i].turn
        PROVE  k = i
    <3>1. k # m
      BY <1>1, <2>1, <2>5, Zenon
    <3>2. k \in 1..Len(log)
      BY <1>p, <2>5, <3>1, Zenon
    <3>3. log'[k] = log[k]
      BY <1>2, <3>2
    <3> QED BY <2>1, <2>5, <3>2, <3>3 DEF ReplyOK, IsReply
  <2>6. gen'[log'[i].turn] \notin Unanswered
    BY <2>1 DEF ReplyOK
  <2> QED BY <2>2, <2>4, <2>5, <2>6 DEF ReplyOK, IsQuestion, IsReply
<1>5. ASSUME role = "assistant", NEW i, i = m
      PROVE  ReplyOK(i)'
  <2>1. PICK j \in 1..Len(log) : IsQuestion(j, t) /\ (lost = 0 => j = Len(log))
    BY <1>5 DEF RecordInv, QuestionOK
  <2>2. /\ j \in 1..(i - 1) /\ (lost' = 0 => j = i - 1)
        /\ log'[j].role = "user" /\ log'[j].turn = log'[i].turn
    BY <1>p, <1>1, <1>2, <1>5, <2>1, Zenon DEF IsQuestion
  <2>3. ASSUME NEW k \in 1..Len(log'), log'[k].role = "assistant", log'[k].turn = log'[i].turn
        PROVE  k = i
    <3>1. CASE k \in 1..Len(log)
      <4>1. IsReply(k) /\ log[k].turn = t
        BY <1>1, <1>2, <1>5, <2>3, <3>1 DEF IsReply
      <4> QED BY <1>3, <3>1, <4>1 DEF RecordInv, ReplyOK
    <3>2. CASE k \notin 1..Len(log)
      BY <1>p, <1>5, <2>3, <3>2, Zenon
    <3> QED BY <3>1, <3>2
  <2>4. gen'[log'[i].turn] \notin Unanswered
    BY <1>1, <1>5 DEF Unanswered
  <2> QED BY <2>2, <2>3, <2>4 DEF ReplyOK, IsQuestion, IsReply
<1>6. ASSUME NEW i \in 1..Len(log'), log'[i].role = "assistant"
      PROVE  ReplyOK(i)'
  <2>1. CASE i \in 1..Len(log)
    BY <1>2, <1>4, <1>6, <2>1 DEF IsReply
  <2>2. CASE i \notin 1..Len(log)
    <3>1. i = m
      BY <1>p, <1>6, <2>2, Zenon
    <3> QED BY <1>1, <1>5, <1>6, <3>1
  <2> QED BY <2>1, <2>2
<1>7. ASSUME NEW u \in Turns, gen'[u] \in Asked
      PROVE  \E j \in 1..Len(log') : /\ log'[j].role = "user" /\ log'[j].turn = u
                                     /\ lost' = 0 => j = Len(log')
  <2>1. CASE u = t
    <3>1. role = "user"
      BY <1>7, <2>1 DEF Asked
    <3> QED BY <1>p, <1>1, <2>1, <3>1, Zenon
  <2>2. CASE u # t
    <3>1. gen[u] \in Asked
      BY <1>7, <2>2
    <3>2. lost # 0
      <4>1. Active(u)
        BY <3>1 DEF Active, Asked
      <4> QED BY <2>2, <4>1, ActiveIsLast
    <3>3. PICK j \in 1..Len(log) : IsQuestion(j, u)
      BY <3>1 DEF RecordInv, QuestionOK
    <3>4. j \in 1..Len(log') /\ log'[j] = log[j]
      BY <1>p, <1>2, Zenon
    <3> QED BY <3>2, <3>3, <3>4 DEF IsQuestion
  <2> QED BY <2>1, <2>2
<1> QED BY <1>6, <1>7 DEF RecordInv, QuestionOK, IsReply, IsQuestion

LEMMA RecordStep ==
  ASSUME TypeOK, PipeInv, Smooth, RecordInv, [Next]_vars
  PROVE  RecordInv'
<1> USE DEF clientVars, netVars, prodVars, storeVars
<1>0. gen \in [Turns -> GenStates] /\ lost \in Nat /\ \A t \in Turns : fullText[t] \in 0..MaxChunks
  BY BoundsOK DEF TypeOK
<1>1. CASE UNCHANGED vars
  BY <1>1, NoRow DEF vars
<1>2. CASE Send
  BY <1>2, NoRow DEF Send
<1>3. ASSUME NEW t \in Turns, TurnStep(t)
      PROVE  RecordInv'
  <2>1. \A u \in Turns \ {t} : gen'[u] = gen[u]
    BY <1>3, StepFrame
  <2>2. CASE LogQuestion(t) \/ StoreReply(t) \/ WriteOrphan(t)
    <3>1. Active(t) /\ lost' = lost /\ 0 \in 0..MaxChunks
      <4>1. 0 \in 0..MaxChunks
        BY BoundsOK
      <4> QED BY <2>2, <4>1 DEF LogQuestion, StoreReply, WriteOrphan, Active
    <3>2. CASE /\ LogRow(t, "user", 0)
               /\ gen[t] \in {"question", "orphan question"} /\ gen'[t] \in {"graph", "closed"}
      BY <2>1, <3>1, <3>2, RowWritten
    <3>3. CASE /\ LogRow(t, "assistant", fullText[t])
               /\ gen[t] \in {"storing", "orphan reply"} /\ gen'[t] \in {"finishing", "closed"}
      BY <1>0, <2>1, <3>1, <3>3, RowWritten DEF Asked
    <3> QED BY <1>0, <2>2, <3>2, <3>3 DEF LogQuestion, StoreReply, WriteOrphan, Goto
  <2>3. CASE ~LogQuestion(t) /\ ~StoreReply(t) /\ ~WriteOrphan(t)
    <3>1. log' = log /\ (lost' = lost \/ lost' = lost + 1)
      BY <1>3, <2>3 DEF TurnStep, Serve, Read, Refuse, Accept, GraphFails, Silence, StartProducer,
         Take, TimeOut, Finish, Receive, ReadFails, ProduceToken, ProduceEnd, Raise, Cancel,
         EndOfStream, Break, Leave
    <3>2. /\ gen'[t] \in Asked => gen[t] \in Asked
          /\ gen'[t] \in Unanswered => gen[t] \in Unanswered
      <4> USE DEF Asked, Unanswered, Goto
      <4>1. CASE Serve(t)
        BY <1>0, <2>3, <4>1 DEF Serve, Refuse, Accept, GraphFails, Silence, StartProducer, Take,
           TimeOut, Finish
      <4>2. CASE Raise(t) \/ Cancel(t)
        BY <1>0, <4>2 DEF Raise, Cancel
      <4>3. CASE Read(t) \/ ProduceToken(t) \/ ProduceEnd(t) \/ EndOfStream(t) \/ Break(t) \/ Leave(t)
        BY <4>3 DEF Read, Receive, ReadFails, ProduceToken, ProduceEnd, EndOfStream, Break, Leave
      <4> QED BY <1>3, <2>3, <4>1, <4>2, <4>3 DEF TurnStep
    <3>3. lost' = 0 => lost = 0
      BY <1>0, <3>1
    <3> QED BY <2>1, <3>1, <3>2, <3>3, NoRow
  <2> QED BY <2>2, <2>3
<1> QED
  BY <1>1, <1>2, <1>3 DEF Next, TurnStep

LEMMA RecordInit == Init => RecordInv
<1> SUFFICES ASSUME Init PROVE RecordInv
  OBVIOUS
<1>1. Len(log) = 0
  BY DEF Init
<1>2. \A i \in 1..Len(log) : FALSE
  BY <1>1, NothingThere
<1>3. \A t \in Turns : gen[t] \notin Asked
  BY DEF Init, Asked
<1> QED BY <1>2, <1>3 DEF RecordInv, QuestionOK

LEMMA RecordAlways == Spec => [](Smooth /\ RecordInv)
<1>1. Init => Smooth /\ RecordInv
  BY SmoothInit, RecordInit
<1>2. TypeOK /\ PipeInv /\ Smooth /\ RecordInv /\ [Next]_vars => Smooth' /\ RecordInv'
  BY SmoothStep, RecordStep
<1> QED
  BY <1>1, <1>2, TypeCorrect, PipeAlways, PTL DEF Spec

(* However replies and lost connections interleave: each reply is on record  *)
(* once and after its question, and with no connection lost, right after.    *)
THEOREM RecordInOrder == Spec => []LogInOrder
<1>1. RecordInv => LogInOrder
  BY DEF RecordInv, ReplyOK, IsReply, IsQuestion, LogInOrder
<1> QED
  BY <1>1, RecordAlways, PTL

-----------------------------------------------------------------------------
(* The session remembers. *)

In(t) == \E i \in 1..Len(session) : session[i] = t

(* An event under way says that t is settled with a reply or with silence. *)
Says(t) == \E i \in 1..Len(wire[t]) : wire[t][i].kind \in {"done", "silent"}

MemoryOK(t) ==
  /\ bubble[t].state \in {"final", "silent"} => In(t)
  /\ Says(t) => In(t)
  /\ In(t) => t <= sent /\ gen[t] = "closed"
  /\ Active(t) => copy[t] = session

Rising == \A i, j \in 1..Len(session) : i < j => session[i] < session[j]

MemoryInv == lost = 0 => Rising /\ \A t \in Turns : MemoryOK(t)

LEMMA YieldSays ==
  ASSUME TypeOK, NEW t \in Turns, NEW kind, NEW n, [kind |-> kind, n |-> n] \in Event,
         Yield(t, kind, n), Says(t)'
  PROVE  Says(t) \/ kind \in {"done", "silent"}
<1> DEFINE e == [kind |-> kind, n |-> n]
<1>1. wire[t] \in Seq(Event) /\ e.kind = kind /\ e \in Event
  BY DEF TypeOK
<1>2. wire'[t] = wire[t] \/ wire'[t] = Append(wire[t], e)
  BY DEF Yield, TypeOK
<1>3. CASE wire'[t] = wire[t]
  BY <1>3 DEF Says
<1>4. CASE wire'[t] = Append(wire[t], e)
  <2> HIDE DEF e
  <2>1. /\ Len(wire'[t]) = Len(wire[t]) + 1 /\ Len(wire[t]) \in Nat /\ wire'[t][Len(wire[t]) + 1] = e
        /\ \A i \in 1..Len(wire[t]) : wire'[t][i] = wire[t][i]
    BY <1>1, <1>4, AppendFacts
  <2>2. PICK i \in 1..Len(wire'[t]) : wire'[t][i].kind \in {"done", "silent"}
    BY DEF Says
  <2>3. CASE i \in 1..Len(wire[t])
    BY <2>1, <2>2, <2>3 DEF Says
  <2>4. CASE i = Len(wire[t]) + 1
    BY <1>1, <2>1, <2>2, <2>4
  <2> QED BY <2>1, <2>3, <2>4
<1> QED BY <1>2, <1>3, <1>4

LEMMA TailSays ==
  ASSUME TypeOK, NEW t \in Turns, wire[t] # <<>>, wire'[t] = Tail(wire[t])
  PROVE  /\ Says(t)' => Says(t)
         /\ Head(wire[t]).kind \in {"done", "silent"} => Says(t)
<1>1. wire[t] \in Seq(Event)
  BY DEF TypeOK
<1>2. /\ Head(wire[t]) = wire[t][1] /\ 1 \in 1..Len(wire[t])
      /\ \A i \in 1..Len(wire'[t]) : i + 1 \in 1..Len(wire[t]) /\ wire'[t][i] = wire[t][i + 1]
  BY <1>1, TailFacts
<1> QED BY <1>2 DEF Says

(* The turn is added to the session as it is. *)
LEMMA InstallAdds ==
  ASSUME TypeOK, PipeInv, Smooth, MemoryInv, lost = 0, NEW t \in Turns, Active(t), Install(t)
  PROVE  Rising' /\ \A u \in Turns : In(u)' <=> In(u) \/ u = t
<1>1. session \in Seq(Turns) /\ copy[t] = session /\ ~In(t) /\ t = sent /\ Rising
  <2>1. MemoryOK(t) /\ Rising /\ session \in Seq(Turns)
    BY DEF MemoryInv, TypeOK
  <2>2. ~In(t) /\ copy[t] = session
    BY <2>1 DEF MemoryOK, Active
  <2> QED BY <2>1, <2>2, ActiveIsLast
<1>2. /\ Len(session') = Len(session) + 1 /\ Len(session) \in Nat /\ session'[Len(session) + 1] = t
      /\ \A i \in 1..Len(session) : session'[i] = session[i] /\ session[i] \in Turns
  BY <1>1, AppendFacts DEF Install
<1>3. \A i \in 1..Len(session) : session[i] < t
  <2> SUFFICES ASSUME NEW i \in 1..Len(session) PROVE session[i] < t
    OBVIOUS
  <2>1. PICK u \in Turns : u = session[i]
    BY <1>2
  <2>2. In(u) /\ u # t
    BY <1>1, <2>1 DEF In
  <2>3. u <= sent
    BY <2>2 DEF MemoryInv, MemoryOK
  <2>4. u \in Nat /\ t \in Nat
    BY BoundsOK DEF Turns
  <2> QED BY <1>1, <2>1, <2>2, <2>3, <2>4
<1>4. Rising'
  <2> SUFFICES ASSUME NEW i \in 1..Len(session'), NEW j \in 1..Len(session'), i < j
               PROVE  session'[i] < session'[j]
    BY DEF Rising
  <2>1. i \in 1..Len(session) /\ (j \in 1..Len(session) \/ j = Len(session) + 1)
    BY <1>2
  <2> QED BY <1>1, <1>2, <1>3, <2>1 DEF Rising
<1>5. ASSUME NEW u \in Turns
      PROVE  In(u)' <=> In(u) \/ u = t
  <2>1. In(u) => In(u)'
    <3> SUFFICES ASSUME In(u) PROVE In(u)'
      OBVIOUS
    <3>1. PICK i \in 1..Len(session) : session[i] = u
      BY DEF In
    <3>2. i \in 1..Len(session') /\ session'[i] = u
      BY <1>2, <3>1
    <3> QED BY <3>2 DEF In
  <2>2. In(t)'
    BY <1>2 DEF In
  <2>3. In(u)' => In(u) \/ u = t
    <3> SUFFICES ASSUME In(u)', u # t PROVE In(u)
      OBVIOUS
    <3>1. PICK i \in 1..Len(session') : session'[i] = u
      BY DEF In
    <3>2. i \in 1..Len(session)
      BY <1>2, <3>1
    <3> QED BY <1>2, <3>1, <3>2 DEF In
  <2> QED BY <2>1, <2>2, <2>3
<1> QED BY <1>4, <1>5

(* A step of t that adds a turn to the session. *)
LEMMA MemoryInstall ==
  ASSUME TypeOK, PipeInv, Smooth, MemoryInv, lost = 0, NEW t \in Turns, Silence(t) \/ Finish(t)
  PROVE  Rising' /\ \A u \in Turns : MemoryOK(u)'
<1>1. Active(t) /\ Install(t) /\ gen'[t] = "closed" /\ copy' = copy /\ sent' = sent /\ bubble' = bubble
  BY DEF Silence, Finish, Active, Goto, TypeOK, clientVars
<1>2. Rising' /\ \A u \in Turns : In(u)' <=> In(u) \/ u = t
  BY <1>1, InstallAdds
<1>3. t = sent
  BY <1>1, ActiveIsLast
<1>4. ASSUME NEW u \in Turns
      PROVE  MemoryOK(u)'
  <2>1. MemoryOK(u)
    BY DEF MemoryInv
  <2>2. CASE u = t
    <3>1. In(u)' /\ gen'[u] = "closed"
      BY <1>1, <1>2, <2>2
    <3>2. u <= sent'
      BY <1>1, <1>3, <2>2, SameIsAtMost, BoundsOK DEF Turns
    <3> QED BY <3>1, <3>2 DEF MemoryOK, Active
  <2>3. CASE u # t
    <3>1. bubble'[u] = bubble[u] /\ wire'[u] = wire[u] /\ gen'[u] = gen[u]
      BY <2>3, StepFrame DEF TurnStep, Serve
    <3>2. ~Active(u)
      BY <1>3, <2>3, ActiveIsLast
    <3>3. In(u)' <=> In(u)
      BY <1>2, <2>3
    <3> QED BY <1>1, <2>1, <3>1, <3>2, <3>3 DEF MemoryOK, Active, Says
  <2> QED BY <2>2, <2>3
<1> QED BY <1>2, <1>4

(* A step of t that leaves the session as it is: a turn in it is through. *)
LEMMA MemoryServe ==
  ASSUME TypeOK, NEW t \in Turns, MemoryOK(t), Serve(t), ~Silence(t), ~Finish(t)
  PROVE  MemoryOK(t)' /\ session' = session
<1> USE DEF clientVars, netVars, prodVars, storeVars
<1>0. gen \in [Turns -> GenStates] /\ copy \in [Turns -> Seq(Turns)]
  BY DEF TypeOK
<1>1. /\ session' = session /\ sent' = sent /\ bubble' = bubble /\ gen[t] # "closed"
      /\ Active(t)' => (Active(t) /\ copy'[t] = copy[t]) \/ copy'[t] = session
  BY <1>0 DEF Serve, Refuse, Accept, LogQuestion, GraphFails, StartProducer, Take, TimeOut,
     StoreReply, Goto, Active
<1>2. ~In(t) /\ ~In(t)'
  BY <1>1 DEF MemoryOK, In
<1>3. ~Says(t) /\ bubble[t].state \notin {"final", "silent"}
  BY <1>2 DEF MemoryOK
<1>4. ~Says(t)'
  <2>1. CASE wire' = wire
    BY <1>3, <2>1 DEF Says
  <2>2. CASE \E kind \in {"status", "error"} : Yield(t, kind, 0)
    <3>1. PICK kind \in {"status", "error"} : Yield(t, kind, 0)
      BY <2>2
    <3>2. [kind |-> kind, n |-> 0] \in Event
      BY BoundsOK DEF Event
    <3> QED BY <1>3, <3>1, <3>2, YieldSays
  <2>3. CASE Take(t) /\ Head(queue[t]).kind = "token" /\ Yield(t, "token", Head(queue[t]).n)
    <3>1. queue[t] \in Seq(Item) /\ queue[t] # <<>>
      BY <2>3 DEF Take, TypeOK
    <3>2. Head(queue[t]) \in Item
      BY <3>1, TailFacts
    <3>3. [kind |-> "token", n |-> Head(queue[t]).n] \in Event
      BY <2>3, <3>2 DEF Item, Event, Token
    <3> QED BY <1>3, <2>3, <3>3, YieldSays
  <2> QED
    BY <2>1, <2>2, <2>3 DEF Serve, Refuse, Accept, LogQuestion, GraphFails, StartProducer, Take,
       TimeOut, StoreReply
<1>5. Active(t)' => copy'[t] = session'
  BY <1>1 DEF MemoryOK
<1>6. bubble'[t].state \notin {"final", "silent"}
  BY <1>1, <1>3
<1> QED BY <1>1, <1>2, <1>4, <1>5, <1>6 DEF MemoryOK

LEMMA MemoryElse ==
  ASSUME TypeOK, NEW t \in Turns, MemoryOK(t),
         Receive(t) \/ ProduceToken(t) \/ ProduceEnd(t) \/ EndOfStream(t)
  PROVE  MemoryOK(t)' /\ session' = session
<1> USE DEF clientVars, netVars, prodVars, storeVars
<1>1. session' = session /\ sent' = sent /\ gen' = gen /\ copy' = copy
  BY DEF Receive, ProduceToken, ProduceEnd, EndOfStream
<1>2. (In(t)' <=> In(t)) /\ (Active(t)' <=> Active(t))
  BY <1>1 DEF In, Active
<1>3. CASE ProduceToken(t) \/ ProduceEnd(t) \/ EndOfStream(t)
  <2>1. wire' = wire /\ bubble' = bubble
    BY <1>3 DEF ProduceToken, ProduceEnd, EndOfStream
  <2> QED BY <1>1, <1>2, <2>1 DEF MemoryOK, Says
<1>4. CASE Receive(t)
  <2>1. wire[t] # <<>> /\ wire'[t] = Tail(wire[t]) /\ bubble \in [Turns -> Bubble]
    BY <1>4 DEF Receive, TypeOK
  <2>2. bubble'[t].state \in {"final", "silent"} =>
          \/ bubble[t].state \in {"final", "silent"}
          \/ Head(wire[t]).kind \in {"done", "silent"}
    BY <1>4, <2>1 DEF Receive, Show
  <2>3. /\ Says(t)' => Says(t)
        /\ Head(wire[t]).kind \in {"done", "silent"} => Says(t)
    BY <2>1, TailSays
  <2>4. bubble'[t].state \in {"final", "silent"} => In(t)
    BY <2>2, <2>3 DEF MemoryOK
  <2> QED BY <1>1, <1>2, <2>3, <2>4 DEF MemoryOK
<1> QED BY <1>3, <1>4

LEMMA CopyFrame ==
  ASSUME TypeOK, NEW t \in Turns, TurnStep(t), NEW u \in Turns \ {t}
  PROVE  copy'[u] = copy[u]
<1>1. copy' = copy \/ Accept(t)
  BY DEF TurnStep, Serve, Read, Refuse, LogQuestion, GraphFails, Silence, StartProducer, Take,
     TimeOut, StoreReply, Finish, Receive, ReadFails, ProduceToken, ProduceEnd, Raise, Cancel,
     WriteOrphan, EndOfStream, Break, Leave
<1> QED BY <1>1 DEF Accept, TypeOK

LEMMA MemoryStep ==
  ASSUME TypeOK, PipeInv, Smooth, MemoryInv, [Next]_vars
  PROVE  MemoryInv'
<1> SUFFICES ASSUME lost' = 0 PROVE Rising' /\ \A u \in Turns : MemoryOK(u)'
  BY DEF MemoryInv
<1> USE DEF clientVars, netVars, prodVars, storeVars
<1>1. CASE UNCHANGED vars
  <2>1. lost = 0 /\ Rising /\ \A u \in Turns : MemoryOK(u)
    BY <1>1 DEF vars, MemoryInv
  <2> QED BY <1>1, <2>1 DEF vars, Rising, MemoryOK, In, Says, Active
<1>2. CASE Send
  <2>1. /\ lost = 0 /\ session' = session /\ gen' = gen /\ copy' = copy /\ wire' = wire
        /\ sent \in Nat /\ sent' = sent + 1
    BY <1>2, BoundsOK DEF Send, TypeOK
  <2>2. Rising' /\ \A u \in Turns : MemoryOK(u)
    BY <2>1 DEF MemoryInv, Rising
  <2>3. ASSUME NEW u \in Turns
        PROVE  MemoryOK(u)'
    <3>1. bubble'[u].state \in {"final", "silent"} => bubble[u].state \in {"final", "silent"}
      BY <1>2 DEF Send, TypeOK, Bubble
    <3>2. /\ In(u)' <=> In(u)
          /\ Says(u)' <=> Says(u)
          /\ Active(u)' <=> Active(u)
      BY <2>1 DEF In, Says, Active
    <3>3. u <= sent => u <= sent'
      BY <2>1, BoundsOK DEF Turns
    <3> QED BY <2>1, <2>2, <3>1, <3>2, <3>3 DEF MemoryOK
  <2> QED BY <2>2, <2>3
<1>3. ASSUME NEW t \in Turns, TurnStep(t)
      PROVE  Rising' /\ \A u \in Turns : MemoryOK(u)'
  <2>1. lost = 0 /\ (Serve(t) \/ Receive(t) \/ ProduceToken(t) \/ ProduceEnd(t) \/ EndOfStream(t))
    BY <1>3, SmoothSteps
  <2>2. Rising /\ \A u \in Turns : MemoryOK(u)
    BY <2>1 DEF MemoryInv
  <2>3. CASE Silence(t) \/ Finish(t)
    BY <2>1, <2>3, MemoryInstall
  <2>4. CASE ~Silence(t) /\ ~Finish(t)
    <3>1. MemoryOK(t)' /\ session' = session
      BY <2>1, <2>2, <2>4, MemoryServe, MemoryElse
    <3>2. ASSUME NEW u \in Turns \ {t}
          PROVE  MemoryOK(u)'
      <4>1. /\ sent' = sent /\ bubble'[u] = bubble[u] /\ wire'[u] = wire[u] /\ gen'[u] = gen[u]
            /\ copy'[u] = copy[u]
        BY <1>3, StepFrame, CopyFrame
      <4>2. MemoryOK(u)
        BY <2>2
      <4> QED BY <3>1, <4>1, <4>2 DEF MemoryOK, In, Says, Active
    <3>3. Rising'
      BY <2>2, <3>1 DEF Rising
    <3> QED BY <3>1, <3>2, <3>3
  <2> QED BY <2>3, <2>4
<1> QED
  BY <1>1, <1>2, <1>3 DEF Next, TurnStep

LEMMA MemoryInit == Init => MemoryInv
<1> SUFFICES ASSUME Init PROVE Rising /\ \A t \in Turns : MemoryOK(t)
  BY DEF MemoryInv
<1>1. Len(session) = 0 /\ \A t \in Turns : Len(wire[t]) = 0
  BY DEF Init
<1>2. (\A i \in 1..Len(session) : FALSE) /\ \A t \in Turns : \A i \in 1..Len(wire[t]) : FALSE
  BY <1>1, NothingThere
<1>3. \A t \in Turns : bubble[t].state = "none" /\ gen[t] = "none"
  BY DEF Init
<1> QED BY <1>2, <1>3 DEF Rising, MemoryOK, In, Says, Active

(* With no connection lost, however late the model is and however fast the   *)
(* user writes, no turn settled with a reply or with silence drops out of    *)
(* the session, and they stand there in the order they came.                 *)
THEOREM SettledIsRemembered == Spec => []Remembered
<1>1. Init => MemoryInv
  BY MemoryInit
<1>2. TypeOK /\ PipeInv /\ Smooth /\ MemoryInv /\ [Next]_vars => MemoryInv'
  BY MemoryStep
<1>3. MemoryInv => Remembered
  BY DEF MemoryInv, MemoryOK, Rising, In, Remembered
<1> QED
  BY <1>1, <1>2, <1>3, TypeCorrect, PipeAlways, RecordAlways, PTL DEF Spec
==============================================================================
