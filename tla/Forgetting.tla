---------------------------- MODULE Forgetting ----------------------------
(***************************************************************************)
(* Negotiated forgetting: the stores of a user are deleted one after the    *)
(* other and the core is saved without what is released, with a marker file *)
(* from the first to the last, so that the next request completes what was  *)
(* interrupted.  A request runs in the event loop, but jobs in threads and  *)
(* a turn that waits do not stop for it: a reflection, the quick facts, a   *)
(* letter, the drift, a message on its way to the history.                  *)
(*                                                                          *)
(* A store, or a part of the core, holds data from before the last request  *)
(* to forget, "old", data from after it, "new", both or none.  The vectors  *)
(* are not among the stores: their deletion raises before it deletes        *)
(* anything.  What is released of a part by degrees is in Relationship.     *)
(***************************************************************************)
EXTENDS Naturals, Sequences

CONSTANTS Stores,     \* such as history, reflection log, tables, journal, persona
          Order,      \* the order they are deleted in
          History,    \* the one whose deletion may raise through the request
          Jobs,       \* what may run beside a request
          Reach,      \* the stores each of them writes to, and whether the core
          Negotiable  \* the parts of the core the model decides of: opinion, residue

ASSUME StoresOK == /\ History \in Stores /\ "core" \notin Stores /\ Order \in Seq(Stores)
                   /\ \A s \in Stores : \E i \in 1..Len(Order) : Order[i] = s
                   /\ Reach \in [Jobs -> SUBSET (Stores \cup {"core"})]
                   /\ {"scaffold", "bond"} \cap Negotiable = {}

VARIABLES
  data,      \* what each store holds
  mind,      \* what each part of the core holds
  marker,    \* is there a .deleting file?
  forget,    \* where the request is
  busy,      \* what each job loaded, and how old what it works on is
  failed,    \* stores whose last deletion raised, which is logged
  rewritten, \* what got old data back from a job
  kept,      \* what the model would not release in the last request
  granted    \* did the last request end as it should?

forgetVars == <<data, mind, marker, forget, busy, failed, rewritten, kept, granted>>

\* The counts, notes and desires go, the attachment and the personality stay,
\* and the model decides of its opinion of the user and of the residue.
Parts == {"scaffold", "bond"} \cup Negotiable

Quiet == [pc |-> "idle"]
Aged(d) == IF d = {} THEN {} ELSE {"old"}
AgedMind(m) == [p \in Parts |-> Aged(m[p])]
NoJob == [age |-> "none"]

ForgetInit ==
  /\ \E d \in {{}, {"new"}} :
       data = [s \in Stores |-> d] /\ mind = [p \in Parts |-> d]
  /\ marker = FALSE /\ forget = Quiet /\ busy = [j \in Jobs |-> NoJob]
  /\ failed = {} /\ rewritten = {} /\ kept = {} /\ granted = FALSE

\* A turn is answered, or a session reflected on: the loop is free.
Live(s) ==
  /\ forget = Quiet
  /\ data' = [data EXCEPT ![s] = @ \cup {"new"}]
  /\ UNCHANGED <<mind, marker, forget, busy, failed, rewritten, kept, granted>>

\* What a job that begins during a request works on is from before it.
BeginJob(j) ==
  /\ busy[j] = NoJob
  /\ busy' = [busy EXCEPT ![j] = [age |-> IF forget = Quiet THEN "new" ELSE "old", core |-> mind]]
  /\ UNCHANGED <<data, mind, marker, forget, failed, rewritten, kept, granted>>

Rewritten(j, s) == IF busy[j].age = "old" THEN rewritten \cup {s} ELSE rewritten

JobWrites(j, s) ==
  /\ busy[j] # NoJob /\ s \in Reach[j]
  /\ data' = [data EXCEPT ![s] = @ \cup {busy[j].age}]
  /\ rewritten' = Rewritten(j, s)
  /\ UNCHANGED <<mind, marker, forget, busy, failed, kept, granted>>

\* The core is saved whole, as it was loaded but for what the job changed.
JobSaves(j) ==
  /\ busy[j] # NoJob /\ "core" \in Reach[j]
  /\ mind' = [p \in Parts |-> busy[j].core[p] \cup {busy[j].age}]
  /\ rewritten' = Rewritten(j, "core")
  /\ UNCHANGED <<data, marker, forget, busy, failed, kept, granted>>

JobEnds(j) ==
  /\ busy[j] # NoJob /\ busy' = [busy EXCEPT ![j] = NoJob]
  /\ UNCHANGED <<data, mind, marker, forget, failed, rewritten, kept, granted>>

\* All there is is old now.
AllAged ==
  /\ data' = [s \in Stores |-> Aged(data[s])] /\ mind' = AgedMind(mind)
  /\ busy' = [j \in Jobs |-> IF busy[j] = NoJob THEN NoJob
                              ELSE [age |-> "old", core |-> AgedMind(busy[j].core)]]
  /\ failed' = {} /\ rewritten' = {} /\ kept' = {} /\ granted' = FALSE

(* Mutant of Ask: an interrupted deletion is taken for one that ended. *)
BugAsk ==
  /\ forget = Quiet /\ AllAged
  /\ forget' = [pc |-> IF marker THEN "mark" ELSE "decide"] /\ marker' = ~marker

\* /forget
Ask ==
  /\ forget = Quiet /\ AllAged
  /\ forget' = IF marker THEN [pc |-> "complete", left |-> Order] ELSE [pc |-> "decide"]
  /\ marker' = TRUE

Due(s) == /\ forget.pc \in {"complete", "delete"}
          /\ forget.left # <<>> /\ s = Head(forget.left)

DeleteStore(s) ==
  /\ Due(s)
  /\ data' = [data EXCEPT ![s] = {}]
  /\ failed' = failed \ {s} /\ rewritten' = rewritten \ {s}
  /\ forget' = [forget EXCEPT !.left = Tail(@)]
  /\ UNCHANGED <<mind, marker, busy, kept, granted>>

\* Only the history's is not caught: the request ends, the marker stays.
DeletionRaises(s) ==
  /\ Due(s)
  /\ IF s = History
     THEN forget' = Quiet /\ UNCHANGED failed
     ELSE forget' = [forget EXCEPT !.left = Tail(@)] /\ failed' = failed \cup {s}
  /\ UNCHANGED <<data, mind, marker, busy, rewritten, kept, granted>>

\* _complete_deletion is through.
Completed ==
  /\ forget.pc = "complete" /\ forget.left = <<>>
  /\ marker' = FALSE /\ forget' = [pc |-> "mark"]
  /\ UNCHANGED <<data, mind, busy, failed, rewritten, kept, granted>>

MarkAgain ==
  /\ forget.pc = "mark"
  /\ marker' = TRUE /\ forget' = [pc |-> "decide"]
  /\ UNCHANGED <<data, mind, busy, failed, rewritten, kept, granted>>

\* The core is loaded and the model asked; if it fails, all is released.
Decide(keep) ==
  /\ forget.pc = "decide"
  /\ forget' = [pc |-> "delete", left |-> Order, core |-> mind] /\ kept' = keep
  /\ UNCHANGED <<data, mind, marker, busy, failed, rewritten, granted>>

\* The core without what is released and without the scaffolding.
Without(core) ==
  [p \in Parts |-> IF p = "scaffold" \/ p \in Negotiable \ kept THEN {} ELSE core[p]]

\* The core the request loaded is saved; the live session is dropped.
SaveMind ==
  /\ forget.pc = "delete" /\ forget.left = <<>>
  /\ mind' = Without(forget.core) /\ rewritten' = rewritten \ {"core"}
  /\ forget' = [pc |-> "unmark"]
  /\ UNCHANGED <<data, marker, busy, failed, kept, granted>>

Unmark ==
  /\ forget.pc = "unmark"
  /\ marker' = FALSE /\ granted' = TRUE /\ forget' = Quiet
  /\ UNCHANGED <<data, mind, busy, failed, rewritten, kept>>

\* The server stops, or a save raises: the request is over, the marker stays.
Interrupted ==
  /\ forget' = Quiet /\ busy' \in {busy, [j \in Jobs |-> NoJob]}
  /\ UNCHANGED <<data, mind, marker, failed, rewritten, kept, granted>>

ForgetNext ==
  \/ \E s \in Stores : Live(s) \/ DeleteStore(s) \/ DeletionRaises(s)
  \/ \E j \in Jobs :
       \/ BeginJob(j) \/ JobSaves(j) \/ JobEnds(j)
       \/ \E s \in Stores : JobWrites(j, s)
  \/ \E keep \in SUBSET Negotiable : Decide(keep)
  \/ Ask \/ Completed \/ MarkAgain \/ SaveMind \/ Unmark \/ Interrupted

ForgetSpec == ForgetInit /\ [][ForgetNext]_forgetVars

---------------------------------------------------------------------------

Ages == {"old", "new"}
Mind == [Parts -> SUBSET Ages]

ForgetTypeOK ==
  /\ data \in [Stores -> SUBSET Ages] /\ mind \in Mind
  /\ marker \in BOOLEAN /\ granted \in BOOLEAN
  /\ forget \in [pc : {"idle", "mark", "decide", "unmark"}]
                \cup [pc : {"complete"}, left : Seq(Stores)]
                \cup [pc : {"delete"}, left : Seq(Stores), core : Mind]
  /\ busy \in [Jobs -> [age : Ages, core : Mind] \cup {NoJob}]
  /\ failed \subseteq Stores /\ rewritten \subseteq Stores \cup {"core"}
  /\ kept \subseteq Negotiable

(* "Always deletes raw data", and "if crash occurs, next call will detect   *)
(* marker and complete deletion": as long as a store holds data from before *)
(* the request there is a marker, unless its deletion raised or a job that  *)
(* was under way put it back.  And a request that ended well left in the    *)
(* core only what the model would not release and what always stays, the    *)
(* attachment and the personality, unless such a job saved an older core.   *)
ForgottenIsGone ==
  /\ marker \/ \A s \in Stores \ (failed \cup rewritten) : "old" \notin data[s]
  /\ granted /\ "core" \notin rewritten =>
       \A p \in Parts \ (kept \cup {"bond"}) : "old" \notin mind[p]

(* "Always deletes raw data (history + embeddings)", as the doc string of   *)
(* negotiate_and_forget has it: once a request ended well, the history has  *)
(* nothing from before it.  This does not hold: a turn that was under way   *)
(* breaks it, as TLC finds in the instance of memory.cfg.                   *)
AlwaysDeleted == granted => "old" \notin data[History]
===========================================================================
