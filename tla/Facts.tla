-------------------------------- MODULE Facts --------------------------------
(***************************************************************************)
(* What is known of the user: a table of short facts, merged with new ones  *)
(* by background jobs (quick extraction and reflection), each of which      *)
(* reads the whole table and writes it back whole.  A fact of a category    *)
(* (age, job, home, ...) supersedes the ones of that category.              *)
(*                                                                          *)
(* A text is a fact and the number of times it was escaped: loading escapes *)
(* it again, which changes it if it has a character to escape.  The time of *)
(* a merge is its number.                                                   *)
(***************************************************************************)
EXTENDS Naturals, Sequences, FiniteSets

CONSTANTS
  FactNames,   \* facts the model may extract
  Category,    \* the category of each, or NoCategory
  NoCategory,
  Escaped,     \* the facts with a character that html.escape changes
  FactJobs,    \* tasks that merge
  Batches,     \* what one of them may extract: sequences of facts
  MaxActive,   \* _MAX_FACTS
  MaxSuperseded, \* _MAX_SUPERSEDED
  MaxMerges    \* merges started (bound)

ASSUME FactsOK == /\ Category \in [FactNames -> {Category[f] : f \in FactNames}]
                  /\ Escaped \subseteq FactNames
                  /\ Batches \subseteq Seq(FactNames)
                  /\ MaxActive \in Nat \ {0} /\ MaxSuperseded \in Nat /\ MaxMerges \in Nat

VARIABLES
  active,      \* the facts in use, newest batch first
  superseded,  \* the ones kept for the record
  merges,      \* merges started so far
  job,         \* where each task is
  cut          \* has one of the limits ever dropped a fact?

factVars == <<active, superseded, merges, job, cut>>

\* until is 0 as long as the fact is in use.
Fact == {r \in [fact : FactNames, esc : Nat, at : Nat, until : Nat] : r.fact \in Escaped \/ r.esc = 0}

Idle == [stage |-> "idle"]

Text(r) == <<r.fact, r.esc>>
Sanitized(f, esc) == IF f \in Escaped THEN esc + 1 ELSE esc

NewFact(f, at) == [fact |-> f, esc |-> Sanitized(f, 0), at |-> at, until |-> 0]
Reloaded(r) == [r EXCEPT !.esc = Sanitized(r.fact, r.esc)]

SameCategory(f, g) == Category[f] # NoCategory /\ Category[f] = Category[g]

\* A table of the first version of the program is a list of plain texts.
FactsInit ==
  /\ active \in {<<>>} \cup {[i \in DOMAIN b |-> [fact |-> b[i], esc |-> 0, at |-> 0, until |-> 0]] : b \in Batches}
  /\ superseded = {} /\ merges = 0 /\ cut = FALSE
  /\ job = [j \in FactJobs |-> Idle]

\* merge_facts takes its time, then reads the table.
BeginMerge(j, batch) ==
  /\ job[j] = Idle /\ merges < MaxMerges
  /\ merges' = merges + 1
  /\ job' = [job EXCEPT ![j] = [stage |-> "begun", now |-> merges', batch |-> batch]]
  /\ UNCHANGED <<active, superseded, cut>>

\* A table that cannot be decrypted is taken for an empty one.
LoadTable(j, readable) ==
  /\ job[j].stage = "begun"
  /\ job' = [job EXCEPT ![j] =
       [stage |-> "loaded", now |-> job[j].now, batch |-> job[j].batch,
        active |-> IF readable THEN [i \in DOMAIN active |-> Reloaded(active[i])] ELSE <<>>,
        superseded |-> IF readable THEN {Reloaded(r) : r \in superseded} ELSE {}]]
  /\ UNCHANGED <<active, superseded, merges, cut>>

\* The n-th of a set of places, and what a sequence has there, in its order: a
\* list comprehension.  (SelectSeq is recursive, so nothing is proved about it.)
Nth(places, n) == CHOOSE k \in places : Cardinality({i \in places : i <= k}) = n
Picked(s, places) == [n \in 1..Cardinality(places) |-> s[Nth(places, n)]]

\* The facts of the batch whose text is not in use.
ToAdd(w) ==
  LET known == {Text(w.active[i]) : i \in DOMAIN w.active}
      fresh == {i \in DOMAIN w.batch : Text(NewFact(w.batch[i], w.now)) \notin known}
      added == Picked(w.batch, fresh)
  IN [i \in DOMAIN added |-> NewFact(added[i], w.now)]

(* Mutant of Retires: only what the merge starts with is looked at. *)
BugRetires(w, r) ==
  Len(ToAdd(w)) > 0 /\ SameCategory(ToAdd(w)[1].fact, r.fact)

(* Another mutant of Retires: what is known already retires its category, too. *)
BugRetiresKnown(w, r) == \E i \in DOMAIN w.batch : SameCategory(w.batch[i], r.fact)

\* A fact in use is retired by an added one of its category.
Retires(w, r) == \E i \in DOMAIN ToAdd(w) : SameCategory(ToAdd(w)[i].fact, r.fact)

(* Mutant of Newest: the table of superseded facts is not cut. *)
BugNewest(rs) == {rs}

\* The _MAX_SUPERSEDED superseded last.
Newest(rs) ==
  {ks \in SUBSET rs : /\ Cardinality(ks) = IF Cardinality(rs) <= MaxSuperseded THEN Cardinality(rs) ELSE MaxSuperseded
                      /\ \A k \in ks, r \in rs \ ks : k.until >= r.until}

\* The whole table is written, whatever happened to it since it was read.
SaveTable(j) ==
  LET w == job[j]
      leaves == {i \in DOMAIN w.active : Retires(w, w.active[i])}
      all == ToAdd(w) \o Picked(w.active, DOMAIN w.active \ leaves)
      retired == {[w.active[i] EXCEPT !.until = w.now] : i \in leaves}
  IN /\ w.stage = "loaded"
     /\ active' = SubSeq(all, 1, IF Len(all) <= MaxActive THEN Len(all) ELSE MaxActive)
     /\ superseded' \in Newest(w.superseded \cup retired)
     /\ cut' = (cut \/ Len(all) > MaxActive \/ Cardinality(w.superseded \cup retired) > MaxSuperseded)
     /\ job' = [job EXCEPT ![j] = Idle]
     /\ UNCHANGED merges

\* The user asks to forget, or resets.
ClearFacts ==
  /\ active' = <<>> /\ superseded' = {}
  /\ UNCHANGED <<merges, job, cut>>

\* The server stops in the middle of whatever the jobs do.
FactsCrash ==
  /\ job' = [j \in FactJobs |-> Idle]
  /\ UNCHANGED <<active, superseded, merges, cut>>

FactsNext ==
  \/ \E j \in FactJobs : \/ \E b \in Batches : BeginMerge(j, b)
                         \/ \E readable \in BOOLEAN : LoadTable(j, readable)
                         \/ SaveTable(j)
  \/ ClearFacts
  \/ FactsCrash

FactsSpec == FactsInit /\ [][FactsNext]_factVars

------------------------------------------------------------------------------

(* Every variable has its type, and no table that a merge wrote is longer    *)
(* than _MAX_FACTS: one that is was written by the first version.           *)
FactsTypeOK ==
  /\ active \in Seq(Fact)
  /\ Len(active) > MaxActive => \A i \in DOMAIN active : active[i].at = 0
  /\ superseded \subseteq Fact /\ Cardinality(superseded) <= MaxSuperseded
  /\ merges \in 0..MaxMerges /\ cut \in BOOLEAN
  /\ \A j \in FactJobs : job[j].stage \in {"idle", "begun", "loaded"}

\* Two facts a merge does not leave side by side: of one category, or the same
\* words.  The same words are not recognised once loading has escaped them again.
Alike(f, g) == SameCategory(f, g) \/ (f = g /\ f \notin Escaped)

(* merge_facts supersedes "same-category old facts" and skips an "exact     *)
(* duplicate": two facts in use that are of one category or say the same    *)
(* come from one batch, however the jobs overlap and overwrite each other.  *)
(* Except words without a category that have a character to escape: these   *)
(* may be told twice (SaidOnce).                                            *)
OneVersion ==
  \A i, k \in DOMAIN active :
    Alike(active[i].fact, active[k].fact) => active[i].at = active[k].at

(* The same with no exception, "exact duplicate - skip" (facts.py), which    *)
(* does not hold: TLC refutes it in the instance of memory.cfg.              *)
SaidOnce ==
  \A i, k \in DOMAIN active :
    active[i].fact = active[k].fact => active[i].at = active[k].at

(* A fact is superseded by a fact: what took its place, at that very        *)
(* moment, is in the table, in use or superseded in turn, even if another   *)
(* job's table was written over the one it was added to (unless one of the  *)
(* limits has dropped some).                                                *)
Succeeded ==
  cut \/ \A r \in superseded :
           LET successor(s) == SameCategory(s.fact, r.fact) /\ s.at = r.until
           IN (\E i \in DOMAIN active : successor(active[i])) \/ (\E s \in superseded : successor(s))
==============================================================================
