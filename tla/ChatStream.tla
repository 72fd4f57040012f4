------------------------------ MODULE ChatStream ------------------------------
(***************************************************************************)
(* A message and its reply, between the client and the model.  The request  *)
(* handler (chat_message) answers with a stream of events made by a         *)
(* generator (event_stream) on the event loop; a thread (_producer) reads   *)
(* the model's reply and hands it over in a queue; the client, web page or  *)
(* mobile app, reads the stream and shows it.  Connections break, the model *)
(* stalls or fails, the user leaves and comes back.                         *)
(*                                                                          *)
(* The n-th piece of a reply is the number n, and a reply of n pieces the   *)
(* sequence 1..n.  A session is the sequence of the turns in its history.   *)
(***************************************************************************)
EXTENDS Naturals, Sequences

CONSTANTS
  Clients,    \* the clients considered: a subset of {"web", "mobile"}
  MaxTurns,   \* messages the user sends (bound)
  MaxChunks,  \* pieces of a reply (bound)
  MaxLost,    \* connections lost, by any cause (bound)
  LateBreak   \* may a connection break between its last event and its end?

ASSUME ClientsOK == Clients \subseteq {"web", "mobile"}
ASSUME BoundsOK == MaxTurns \in Nat /\ MaxChunks \in Nat /\ MaxLost \in Nat
ASSUME LateBreakOK == LateBreak \in BOOLEAN

Turns == 1..MaxTurns

VARIABLES
  client,     \* which client this is
  sent,       \* how many messages it has sent
  streaming,  \* its flag: a reply is being streamed, do not send
  bubble,     \* what it shows for the reply to each message
  conn,       \* the connection of each request, as the client's reader sees it
  wire,       \* events yielded and not yet read
  gen,        \* where the generator of each request is
  copy,       \* the request's copy of the session
  prod,       \* the producer thread of each request
  fullText,   \* how much of the reply it has collected
  queue,      \* what it has handed over and the generator has not taken
  log,        \* the rows of the messages table
  session,    \* the session in memory
  lost        \* connections lost so far

clientVars == <<client, sent, streaming, bubble>>
netVars == <<conn, wire>>
prodVars == <<prod, fullText, queue>>
storeVars == <<log, session>>
vars == <<clientVars, netVars, gen, copy, prodVars, storeVars, lost>>

Token == [kind : {"token"}, n : 1..MaxChunks]
Event == Token \cup [kind : {"status", "done", "silent", "error"}, n : 0..MaxChunks]
Item == Token \cup [kind : {"done", "error"}, n : {0}]
BubbleStates == {"none", "waiting", "final", "silent", "refused", "lost"}
Bubble == [state : BubbleStates, text : Seq(1..MaxChunks)]
Row == [role : {"user", "assistant"}, turn : Turns, n : 0..MaxChunks]

(* Mutant of Upto: pieces counted from zero. *)
BugUpto(n) == [i \in 1..n |-> i - 1]

Upto(n) == [i \in 1..n |-> i]

-----------------------------------------------------------------------------

Init ==
  /\ client \in Clients
  /\ sent = 0
  /\ streaming = FALSE
  /\ bubble = [t \in Turns |-> [state |-> "none", text |-> <<>>]]
  /\ conn = [t \in Turns |-> "none"]
  /\ wire = [t \in Turns |-> <<>>]
  /\ gen = [t \in Turns |-> "none"]
  /\ copy = [t \in Turns |-> <<>>]
  /\ prod = [t \in Turns |-> "none"]
  /\ fullText = [t \in Turns |-> 0]
  /\ queue = [t \in Turns |-> <<>>]
  /\ log = <<>>
  /\ session = <<>>
  /\ lost = 0

-----------------------------------------------------------------------------
(* The server. *)

(* Events yielded to a connection that is gone go nowhere. *)
Yield(t, kind, n) ==
  /\ wire' = IF conn[t] = "open"
             THEN [wire EXCEPT ![t] = Append(@, [kind |-> kind, n |-> n])]
             ELSE wire
  /\ UNCHANGED conn

Goto(t, pc) == gen' = [gen EXCEPT ![t] = pc]

LogRow(t, role, n) == log' = Append(log, [role |-> role, turn |-> t, n |-> n])

(* Mutant of Install: the turn is not added to the history. *)
BugInstall(t) == session' = copy[t]

(* The generator's copy replaces the session, with this turn at its end. *)
Install(t) == session' = Append(copy[t], t)

(* The request arrives, be the client still there or not, and is refused    *)
(* (too fast, not signed in, empty, no session), or accepted with a copy of *)
(* the session.                                                             *)
Refuse(t) ==
  /\ gen[t] = "none" /\ conn[t] # "none"
  /\ Yield(t, "status", 0)
  /\ Goto(t, "closed")
  /\ UNCHANGED <<clientVars, copy, prodVars, storeVars, lost>>

Accept(t) ==
  /\ gen[t] = "none" /\ conn[t] # "none"
  /\ copy' = [copy EXCEPT ![t] = session]
  /\ Goto(t, "question")
  /\ UNCHANGED <<clientVars, netVars, prodVars, storeVars, lost>>

(* The user's message is on record before the graph runs. *)
LogQuestion(t) ==
  /\ gen[t] = "question"
  /\ LogRow(t, "user", 0)
  /\ Goto(t, "graph")
  /\ UNCHANGED <<clientVars, netVars, copy, prodVars, session, lost>>

GraphFails(t) ==
  /\ gen[t] = "graph"
  /\ Yield(t, "error", 0)
  /\ Goto(t, "closed")
  /\ UNCHANGED <<clientVars, copy, prodVars, storeVars, lost>>

(* Anjo chooses not to answer. *)
Silence(t) ==
  /\ gen[t] = "graph"
  /\ Install(t)
  /\ Yield(t, "silent", 0)
  /\ Goto(t, "closed")
  /\ UNCHANGED <<clientVars, copy, prodVars, log, lost>>

StartProducer(t) ==
  /\ gen[t] = "graph"
  /\ prod' = [prod EXCEPT ![t] = "running"]
  /\ Goto(t, "streaming")
  /\ UNCHANGED <<clientVars, netVars, copy, fullText, queue, storeVars, lost>>

(* Mutant of HandOver: the last item comes first. *)
BugHandOver(t, kind, n) ==
  queue' = [queue EXCEPT ![t] = <<[kind |-> kind, n |-> n]>> \o @]

HandOver(t, kind, n) ==
  queue' = [queue EXCEPT ![t] = Append(@, [kind |-> kind, n |-> n])]

(* The producer thread.  It is not told when the generator gives up. *)
ProduceToken(t) ==
  /\ prod[t] = "running" /\ fullText[t] < MaxChunks
  /\ fullText' = [fullText EXCEPT ![t] = @ + 1]
  /\ HandOver(t, "token", fullText[t] + 1)
  /\ UNCHANGED <<clientVars, netVars, gen, copy, prod, storeVars, lost>>

ProduceEnd(t) ==
  /\ prod[t] = "running"
  /\ prod' = [prod EXCEPT ![t] = "ended"]
  /\ \E kind \in {"done", "error"} : HandOver(t, kind, 0)
  /\ UNCHANGED <<clientVars, netVars, gen, copy, fullText, storeVars, lost>>

(* The generator takes the next item: a token is passed on, the end of the  *)
(* reply goes to the store first, an error ends the stream.                 *)
Take(t) ==
  /\ gen[t] = "streaming" /\ queue[t] # <<>>
  /\ queue' = [queue EXCEPT ![t] = Tail(@)]
  /\ LET item == Head(queue[t]) IN
       \/ /\ item.kind = "token"
          /\ Yield(t, "token", item.n)
          /\ UNCHANGED gen
       \/ /\ item.kind = "done"
          /\ Goto(t, "storing")
          /\ UNCHANGED netVars
       \/ /\ item.kind = "error"
          /\ Yield(t, "error", 0)
          /\ Goto(t, "closed")
  /\ UNCHANGED <<clientVars, copy, prod, fullText, storeVars, lost>>

(* Mutants of TimeOut: the generator goes on after the error, or waits for  *)
(* ever.                                                                    *)
BugTimeOut(t) ==
  /\ gen[t] = "streaming" /\ queue[t] = <<>>
  /\ Yield(t, "error", 0)
  /\ UNCHANGED <<clientVars, gen, copy, prodVars, storeVars, lost>>

BugNoTimeOut(t) == FALSE

(* Nothing in the queue for 30 seconds. *)
TimeOut(t) ==
  /\ gen[t] = "streaming" /\ queue[t] = <<>>
  /\ Yield(t, "error", 0)
  /\ Goto(t, "closed")
  /\ UNCHANGED <<clientVars, copy, prodVars, storeVars, lost>>

(* The reply is put on record, by a thread of the pool ... *)
StoreReply(t) ==
  /\ gen[t] = "storing"
  /\ LogRow(t, "assistant", fullText[t])
  /\ Goto(t, "finishing")
  /\ UNCHANGED <<clientVars, netVars, copy, prodVars, session, lost>>

(* ... and then, without another await, the session is replaced and the     *)
(* client told.                                                             *)
Finish(t) ==
  /\ gen[t] = "finishing"
  /\ Install(t)
  /\ Yield(t, "done", fullText[t])
  /\ Goto(t, "closed")
  /\ UNCHANGED <<clientVars, copy, prodVars, log, lost>>

(* Writing a row raises: the response breaks off. *)
Raise(t) ==
  /\ gen[t] \in {"question", "storing"} /\ lost < MaxLost
  /\ Goto(t, "closed")
  /\ IF conn[t] = "open"
     THEN conn' = [conn EXCEPT ![t] = "broken"] /\ wire' = [wire EXCEPT ![t] = <<>>]
     ELSE UNCHANGED netVars
  /\ lost' = lost + 1
  /\ UNCHANGED <<clientVars, copy, prodVars, storeVars>>

(* The framework notices that the client is gone and cancels the generator  *)
(* at its await.  A row that a thread is writing is written all the same.   *)
Cancel(t) ==
  /\ conn[t] \in {"broken", "over"}
  /\ \/ gen[t] \in {"question", "graph", "streaming", "storing", "finishing"}
        /\ Goto(t, "closed")
     \/ gen[t] = "question" /\ Goto(t, "orphan question")
     \/ gen[t] = "storing" /\ Goto(t, "orphan reply")
  /\ UNCHANGED <<clientVars, netVars, copy, prodVars, storeVars, lost>>

WriteOrphan(t) ==
  /\ \/ gen[t] = "orphan question" /\ LogRow(t, "user", 0)
     \/ gen[t] = "orphan reply" /\ LogRow(t, "assistant", fullText[t])
  /\ Goto(t, "closed")
  /\ UNCHANGED <<clientVars, netVars, copy, prodVars, session, lost>>

-----------------------------------------------------------------------------
(* The client. *)

(* Mutant of MaySend: the flag is not looked at. *)
BugMaySend == sent < MaxTurns

MaySend == ~streaming /\ sent < MaxTurns

(* send: only when nothing is being streamed. *)
Send ==
  /\ MaySend
  /\ sent' = sent + 1
  /\ streaming' = TRUE
  /\ bubble' = [bubble EXCEPT ![sent + 1].state = "waiting"]
  /\ conn' = [conn EXCEPT ![sent + 1] = "open"]
  /\ UNCHANGED <<client, wire, gen, copy, prodVars, storeVars, lost>>

Show(t, state, text) == bubble' = [bubble EXCEPT ![t] = [state |-> state, text |-> text]]

(* One event is read from the stream and dispatched.  The mobile app takes  *)
(* the final text from the event, the page has put it together.             *)
Receive(t) ==
  /\ conn[t] = "open" /\ wire[t] # <<>>
  /\ wire' = [wire EXCEPT ![t] = Tail(@)]
  /\ LET e == Head(wire[t])
         text == bubble[t].text IN
       \/ /\ e.kind = "token"
          /\ Show(t, bubble[t].state, Append(text, e.n))
          /\ UNCHANGED streaming
       \/ /\ e.kind = "done"
          /\ Show(t, "final", IF client = "mobile" THEN Upto(e.n) ELSE text)
          /\ streaming' = FALSE
       \/ /\ e.kind = "silent"
          /\ Show(t, "silent", <<>>)
          /\ streaming' = FALSE
       \/ /\ e.kind \in {"error", "status"}
          /\ Show(t, "refused", <<>>)
          /\ streaming' = FALSE
  /\ UNCHANGED <<client, sent, conn, gen, copy, prodVars, storeVars, lost>>

(* The stream ends after its last event: the reading loop ends. *)
EndOfStream(t) ==
  /\ conn[t] = "open" /\ wire[t] = <<>> /\ gen[t] = "closed"
  /\ conn' = [conn EXCEPT ![t] = "over"]
  /\ UNCHANGED <<clientVars, wire, gen, copy, prodVars, storeVars, lost>>

(* The network drops the connection, with what is still under way. *)
Break(t) ==
  /\ conn[t] = "open" /\ lost < MaxLost
  /\ LateBreak \/ bubble[t].state = "waiting"
  /\ conn' = [conn EXCEPT ![t] = "broken"]
  /\ wire' = [wire EXCEPT ![t] = <<>>]
  /\ lost' = lost + 1
  /\ UNCHANGED <<clientVars, gen, copy, prodVars, storeVars>>

(* The read fails: the catch clause.  The mobile app writes the error over  *)
(* the bubble, the page leaves what it has.                                 *)
ReadFails(t) ==
  /\ conn[t] = "broken"
  /\ conn' = [conn EXCEPT ![t] = "over"]
  /\ IF client = "mobile" THEN Show(t, "lost", <<>>)
     ELSE Show(t, IF bubble[t].state = "waiting" THEN "lost" ELSE bubble[t].state,
               bubble[t].text)
  /\ streaming' = FALSE
  /\ UNCHANGED <<client, sent, wire, gen, copy, prodVars, storeVars, lost>>

(* The user leaves the chat while a reply streams, which aborts the         *)
(* request, and comes back to a chat with nothing in flight.                *)
Leave(t) ==
  /\ bubble[t].state = "waiting" /\ conn[t] = "open" /\ lost < MaxLost
  /\ conn' = [conn EXCEPT ![t] = "over"]
  /\ wire' = [wire EXCEPT ![t] = <<>>]
  /\ Show(t, "lost", bubble[t].text)
  /\ streaming' = FALSE
  /\ lost' = lost + 1
  /\ UNCHANGED <<client, sent, gen, copy, prodVars, storeVars>>

-----------------------------------------------------------------------------

Serve(t) ==
  \/ Refuse(t) \/ Accept(t) \/ LogQuestion(t)
  \/ GraphFails(t) \/ Silence(t) \/ StartProducer(t)
  \/ Take(t) \/ TimeOut(t) \/ StoreReply(t) \/ Finish(t)

Read(t) == Receive(t) \/ ReadFails(t)

Next ==
  \/ Send
  \/ \E t \in Turns :
       \/ Serve(t) \/ Read(t)
       \/ ProduceToken(t) \/ ProduceEnd(t)
       \/ Raise(t) \/ Cancel(t) \/ WriteOrphan(t)
       \/ EndOfStream(t) \/ Break(t) \/ Leave(t)

Spec == Init /\ [][Next]_vars

(* The event loop runs the generator, whose waits all end: the graph's      *)
(* calls by their own time-outs, the queue's by 30 seconds.  The client     *)
(* reads what has arrived, or learns that nothing will.  The model owes     *)
(* nothing.                                                                 *)
FairSpec == Spec /\ \A t \in Turns : WF_vars(Serve(t)) /\ WF_vars(Read(t))

-----------------------------------------------------------------------------
(* Properties. *)

GenStates == {"none", "question", "graph", "streaming", "storing", "finishing",
              "orphan question", "orphan reply", "closed"}

(* Every variable keeps its type.  No reply, in a queue, on the wire, in a   *)
(* row or on the screen, is longer than the producer made it.               *)
TypeOK ==
  /\ client \in Clients
  /\ sent \in 0..MaxTurns
  /\ streaming \in BOOLEAN
  /\ bubble \in [Turns -> Bubble]
  /\ conn \in [Turns -> {"none", "open", "broken", "over"}]
  /\ wire \in [Turns -> Seq(Event)]
  /\ gen \in [Turns -> GenStates]
  /\ copy \in [Turns -> Seq(Turns)]
  /\ prod \in [Turns -> {"none", "running", "ended"}]
  /\ fullText \in [Turns -> 0..MaxChunks]
  /\ queue \in [Turns -> Seq(Item)]
  /\ log \in Seq(Row)
  /\ session \in Seq(Turns)
  /\ lost \in 0..MaxLost

Waiting(t) == bubble[t].state = "waiting"

(* The flag that forbids sending is up exactly while one reply is awaited,   *)
(* and never two are: whatever ends a stream (its done event, a silence, a   *)
(* refusal, the time-out, a lost connection, leaving) puts the flag down.   *)
OneInFlight ==
  /\ streaming <=> \E t \in Turns : Waiting(t)
  /\ \A t, u \in Turns : Waiting(t) /\ Waiting(u) => t = u

(* While a reply streams, the user sees its first pieces in order, and when  *)
(* it is final, all of it: the text on the screen, put together by the page *)
(* or taken from the event by the app, is the text in the messages table.   *)
TextIsReply ==
  \A t \in Turns :
    LET text == bubble[t].text IN
    /\ Waiting(t) => text = Upto(Len(text)) /\ Len(text) <= fullText[t]
    /\ bubble[t].state = "final" =>
         \E i \in 1..Len(log) :
           log[i] = [role |-> "assistant", turn |-> t, n |-> Len(text)] /\ text = Upto(Len(text))

(* A reply is on record once, after its question; right after it as long as  *)
(* no connection was lost, for then no later message is accepted before the *)
(* generator is through, however late the model is.                         *)
LogInOrder ==
  \A i \in 1..Len(log) : log[i].role = "assistant" =>
    /\ \E j \in 1..(i - 1) :
         /\ log[j].role = "user" /\ log[j].turn = log[i].turn
         /\ lost = 0 => j = i - 1
    /\ \A j \in 1..Len(log) :
         log[j].role = "assistant" /\ log[j].turn = log[i].turn => j = i

(* As long as no connection was lost, the session remembers every turn the   *)
(* user saw settled with a reply or with silence, in the order they came:   *)
(* no generator installs an older copy over a newer turn.                   *)
Remembered ==
  lost = 0 =>
    /\ \A t \in Turns : bubble[t].state \in {"final", "silent"} =>
         \E i \in 1..Len(session) : session[i] = t
    /\ \A i, j \in 1..Len(session) : i < j => session[i] < session[j]

(* What the client shows, and what is on record, as ChatReply sees them. *)
Shown(t) == IF bubble[t].state = "waiting" THEN "asked"
            ELSE IF bubble[t].state = "final" THEN "answered"
            ELSE bubble[t].state

OnRecord == {t \in Turns : \E i \in 1..Len(log) : log[i].role = "assistant" /\ log[i].turn = t}

Promise == INSTANCE ChatReply WITH
  reply <- [t \in Turns |-> Shown(t)],
  kept <- OnRecord

(* The chat keeps its promise: a message is settled in the end and once; a   *)
(* reply shown as final is on record, one refused or withheld is not and    *)
(* never will be, though the producer may still be running.                 *)
KeepsPromise == Promise!FairSpec

(* The done event is the last word on a reply: what is shown as final stays. *)
FinalStays ==
  [][\A t \in Turns : bubble[t].state = "final" => bubble'[t] = bubble[t]]_vars
==============================================================================
