----------------------------- MODULE MemoryGraph -----------------------------
(***************************************************************************)
(* The graph of typed memory nodes: reflections add nodes, each statement   *)
(* committed on its own, while the user may delete any of them and the      *)
(* server may stop between two statements.  A fact supersedes the active    *)
(* ones of its category and leaves a contradiction node for each that said  *)
(* something else.                                                          *)
(*                                                                          *)
(* A reflection adds its nodes one by one, but a user's reflections do not  *)
(* wait for each other: one in mid-session runs beside that of the end      *)
(* handler or of the watcher.  Each of them is a writer.  A node's id is    *)
(* its number, and numbers are given in the order of created_at, which      *)
(* add_node takes before its first query.  Confidence is the same for every *)
(* node of a type.                                                          *)
(***************************************************************************)
EXTENDS Naturals, FiniteSets

CONSTANTS
  Writers,     \* reflections of one user that run at one time
  Contents,    \* what a fact may say
  CategoryOf,  \* the category of each, or Uncategorised
  Uncategorised,
  Threads,     \* what a node of another type may say
  Limit,       \* rows a query returns
  MaxNodes,    \* nodes made (bound)
  MaxDays      \* days that pass (bound)

ASSUME GraphOK == /\ DOMAIN CategoryOf = Contents
                  /\ Limit \in Nat \ {0} /\ MaxNodes \in Nat /\ MaxDays \in Nat

VARIABLES
  nodes,     \* the rows of the user
  made,      \* ids given so far
  today,     \* the date
  add,       \* the add_node each writer runs
  overflow,  \* did an add not see every active fact, for the limit?
  crossed,   \* pairs of facts of one category whose adds ran at one time
  current,   \* categories of which a fact was told, not deleted, and no add cut short
  gone       \* ids deleted, or of adds cut short

graphVars == <<nodes, made, today, add, overflow, crossed, current, gone>>

Ids == 1..MaxNodes
Days == 0..MaxDays
FactNode == [type : {"fact"}, content : Contents, id : Ids, day : Days, active : BOOLEAN]
ThreadNode == [type : {"thread"}, content : Threads, id : Ids, day : Days, active : BOOLEAN]
Conflict == [type : {"contradiction"}, content : Contents \X Contents, id : Ids, day : Days,
             active : BOOLEAN, old : Ids, new : Ids]
NoNote == [type |-> "none"]
Add == [pc : {"retire", "conflict", "note", "check", "insert"}, type : {"fact", "thread"},
        content : Contents \cup Threads, id : Ids, day : Days, todo : SUBSET FactNode,
        note : Conflict \cup {NoNote}]

NoAdd == [pc |-> "none"]

GraphInit ==
  /\ nodes = {} /\ made = 0 /\ today = 0 /\ add = [w \in Writers |-> NoAdd]
  /\ overflow = FALSE /\ crossed = {} /\ current = {} /\ gone = {}

Active(type) == {n \in nodes : n.type = type /\ n.active}

\* get_nodes: the newest active ones, up to the limit.
Recent(type) ==
  {n \in Active(type) : Cardinality({m \in Active(type) : m.id > n.id}) < Limit}

SameKind(c, d) == CategoryOf[c] = CategoryOf[d] /\ CategoryOf[c] # Uncategorised

Last(ns) == CHOOSE n \in ns : \A m \in ns : m.id <= n.id

(* Mutant of Supersedes: only a fact that says the same is retired. *)
BugSupersedes(content) == {n \in Recent("fact") : n.content = content}

\* The facts a new one supersedes.
Supersedes(content) == {n \in Recent("fact") : SameKind(n.content, content)}

\* Writers that run an add of a fact of the category of content.
Rivals(content) ==
  {v \in Writers : add[v].pc # "none" /\ add[v].type = "fact" /\ SameKind(add[v].content, content)}

\* add_node(type, content) starts: its time is taken, and of a fact the ones it supersedes.
Begin(w, type, content) ==
  LET old == IF type = "fact" THEN Supersedes(content) ELSE {}
      with == IF type = "fact" THEN Rivals(content) ELSE {}
  IN /\ add[w] = NoAdd /\ made < MaxNodes
     /\ made' = made + 1
     /\ add' = [add EXCEPT ![w] =
                  [pc |-> IF old = {} THEN "check" ELSE "retire", type |-> type,
                   content |-> content, id |-> made', day |-> today, todo |-> old, note |-> NoNote]]
     /\ overflow' = (overflow \/ Cardinality(Active("fact")) > Limit)
     /\ crossed' = crossed \cup {{add[v].id, made'} : v \in with}
     /\ UNCHANGED <<nodes, today, current, gone>>

\* The add of w with its next fact dealt with.
Rest(w) == add[w].todo \ {Last(add[w].todo)}
AfterOne(w) ==
  [add[w] EXCEPT !.pc = IF Rest(w) = {} THEN "check" ELSE "retire", !.todo = Rest(w), !.note = NoNote]

Retired(n, id) == IF n.id = id THEN [n EXCEPT !.active = FALSE] ELSE n

(* Mutant of Retire: the contradiction is noted and the fact stays. *)
BugRetire(w) ==
  /\ add[w].pc = "retire"
  /\ add' = [add EXCEPT ![w].pc = "conflict"]
  /\ UNCHANGED <<nodes, made, today, overflow, crossed, current, gone>>

\* supersede_node of the next old fact; what is said again is no contradiction.
Retire(w) ==
  /\ add[w].pc = "retire"
  /\ LET old == Last(add[w].todo)
     IN /\ nodes' = {Retired(n, old.id) : n \in nodes}
        /\ add' = [add EXCEPT ![w] = IF old.content = add[w].content THEN AfterOne(w)
                                     ELSE [add[w] EXCEPT !.pc = "conflict"]]
  /\ UNCHANGED <<made, today, overflow, crossed, current, gone>>

\* _maybe_add_contradiction: an active one that says the same is kept instead.
FindConflict(w) ==
  /\ add[w].pc = "conflict"
  /\ LET old == Last(add[w].todo)
         text == <<old.content, add[w].content>>
     IN IF \E n \in Recent("contradiction") : n.content = text
        THEN add' = [add EXCEPT ![w] = AfterOne(w)] /\ UNCHANGED made
        ELSE /\ made < MaxNodes
             /\ made' = made + 1
             /\ add' = [add EXCEPT ![w].pc = "note",
                         ![w].note = [type |-> "contradiction", content |-> text, id |-> made',
                                      day |-> today, active |-> TRUE, old |-> old.id,
                                      new |-> add[w].id]]
  /\ UNCHANGED <<nodes, today, overflow, crossed, current, gone>>

NoteConflict(w) ==
  /\ add[w].pc = "note"
  /\ nodes' = nodes \cup {add[w].note}
  /\ add' = [add EXCEPT ![w] = AfterOne(w)]
  /\ UNCHANGED <<made, today, overflow, crossed, current, gone>>

Told(type, content) ==
  IF type = "fact" /\ CategoryOf[content] # Uncategorised THEN {CategoryOf[content]} ELSE {}

\* The add of w returns.
Return(w) ==
  /\ add' = [add EXCEPT ![w] = NoAdd]
  /\ current' = current \cup Told(add[w].type, add[w].content)
  /\ UNCHANGED <<made, today, overflow, crossed, gone>>

\* "Check for duplicate content": what an active node of its type says is not repeated.
Check(w) ==
  /\ add[w].pc = "check"
  /\ \E n \in Recent(add[w].type) : n.content = add[w].content
  /\ Return(w)
  /\ UNCHANGED nodes

CheckNew(w) ==
  /\ add[w].pc = "check"
  /\ \A n \in Recent(add[w].type) : n.content # add[w].content
  /\ add' = [add EXCEPT ![w].pc = "insert"]
  /\ UNCHANGED <<nodes, made, today, overflow, crossed, current, gone>>

Insert(w) ==
  /\ add[w].pc = "insert"
  /\ nodes' = nodes \cup {[type |-> add[w].type, content |-> add[w].content, id |-> add[w].id,
                           day |-> add[w].day, active |-> TRUE]}
  /\ Return(w)

\* What the user deletes; a bulk deletion compares days with time stamps, so
\* that its last day is not part of it.
Remove(dead) ==
  /\ nodes' = nodes \ dead
  /\ current' = current \ UNION {Told(n.type, n.content) : n \in {m \in dead : m.active}}
  /\ gone' = gone \cup {n.id : n \in dead}
  /\ UNCHANGED <<made, today, add, overflow, crossed>>

DeleteNode(n) == n \in nodes /\ Remove({n})

BulkDelete(from, to) ==
  LET dead == {n \in nodes : from <= n.day /\ n.day < to} IN dead # {} /\ Remove(dead)

\* The server stops, or the database raises: the add is not taken up again.
CutShort(w) ==
  /\ add[w] # NoAdd
  /\ add' = [add EXCEPT ![w] = NoAdd]
  /\ current' = current \ Told(add[w].type, add[w].content)
  /\ gone' = gone \cup {add[w].id}
  /\ UNCHANGED <<nodes, made, today, overflow, crossed>>

NextDay ==
  /\ today < MaxDays /\ today' = today + 1
  /\ UNCHANGED <<nodes, made, add, overflow, crossed, current, gone>>

GraphNext ==
  \/ \E w \in Writers :
       \/ \E c \in Contents : Begin(w, "fact", c)
       \/ \E c \in Threads : Begin(w, "thread", c)
       \/ Retire(w) \/ FindConflict(w) \/ NoteConflict(w)
       \/ Check(w) \/ CheckNew(w) \/ Insert(w) \/ CutShort(w)
  \/ \E n \in nodes : DeleteNode(n)
  \/ \E from, to \in Days : BulkDelete(from, to)
  \/ NextDay

GraphSpec == GraphInit /\ [][GraphNext]_graphVars

------------------------------------------------------------------------------

GraphTypeOK ==
  /\ nodes \subseteq FactNode \cup ThreadNode \cup Conflict
  /\ made \in 0..MaxNodes /\ today \in Days
  /\ add \in [Writers -> Add \cup {NoAdd}]
  /\ overflow \in BOOLEAN
  /\ crossed \subseteq SUBSET (1..made)
  /\ current \subseteq {CategoryOf[c] : c \in Contents}
  /\ gone \subseteq 1..made

\* Does an add of a fact of this category run?
Telling(c) == \E w \in Writers : add[w] # NoAdd /\ Told(add[w].type, add[w].content) = {c}

(* "Auto-supersedes same-category facts": no category has two active facts, *)
(* but for an add that could not see them all for the limit, or for two     *)
(* whose adds ran at one time, each of which queried before the other was   *)
(* inserted; and a category someone told a fact of has one, unless an add   *)
(* that superseded it still runs or was cut short, or the user deleted it.  *)
OneCurrentFact ==
  /\ \A m, n \in Active("fact") :
       SameKind(m.content, n.content) => m = n \/ overflow \/ {m.id, n.id} \in crossed
  /\ \A c \in current : Telling(c) \/ \E n \in Active("fact") : CategoryOf[n.content] = c

(* "Auto-supersedes same-category facts", as the doc string of add_node has *)
(* it, whatever other reflection runs: no category has two active facts,    *)
(* but for the limit of the query.  This does not hold: two adds at one     *)
(* time break it, as TLC finds in the instance of memory.cfg.               *)
OneActive ==
  \A m, n \in Active("fact") : SameKind(m.content, n.content) => m = n \/ overflow

(* A contradiction speaks of the past: the fact it calls previous is not    *)
(* active at any moment it can be read, while the add that notes it runs,   *)
(* after a crash, or when it is kept for a later one; and the fact it calls *)
(* new is there, unless it was deleted or its add is not yet done, was cut  *)
(* short, or ran beside another of its category whose fact it then found.   *)
ConflictsArePast ==
  \A c \in Active("contradiction") :
    /\ \A n \in Active("fact") : n.id # c.old
    /\ \/ overflow \/ c.new \in gone
       \/ \E w \in Writers : add[w] # NoAdd /\ add[w].id = c.new
       \/ \E n \in nodes : n.id = c.new /\ n.type = "fact"
       \/ \E p \in crossed : c.new \in p
==============================================================================
