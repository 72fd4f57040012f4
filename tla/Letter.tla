------------------------------- MODULE Letter -------------------------------
(***************************************************************************)
(* The letter of Our Story: written once the trust allows it, kept, and     *)
(* written again when it is old or the trust has moved.  Requests are       *)
(* threads; a set in memory is to let one of them at a time ask the model.  *)
(* Trust is in hundredths, and of the letter there is when and at which     *)
(* trust it was written.  One user.                                         *)
(***************************************************************************)
EXTENDS Integers

CONSTANTS
  Readers,    \* requests for the letter
  Trusts,     \* what the trust may be
  TrustNeeded, RegenDelta, RegenDays, \* the _LETTER_ thresholds of the code
  MaxAge      \* days a letter ages (bound)

ASSUME LetterOK == /\ Trusts \subseteq 0..100 /\ MaxAge \in Nat
                   /\ TrustNeeded \in Nat /\ RegenDelta \in Nat /\ RegenDays \in Nat

VARIABLES
  trust,      \* of the core on the disk
  letter,     \* the cached letter, or NoLetter
  generating, \* is the user in _GENERATING_LETTER?
  reader      \* where each request is, and what it read

letterVars == <<trust, letter, generating, reader>>

NoLetter == [age |-> -1, trust |-> -1]
Gone == [pc |-> "idle"]

LetterInit ==
  /\ trust \in Trusts /\ letter = NoLetter /\ generating = FALSE
  /\ reader = [r \in Readers |-> Gone]

Distance(s, t) == IF s < t THEN t - s ELSE s - t

Stale(l, now) == l = NoLetter \/ l.age > RegenDays \/ Distance(now, l.trust) > RegenDelta

\* Core and cache are read; a locked or a fresh letter is answered at once.
Look(r) ==
  /\ reader[r] = Gone /\ trust >= TrustNeeded /\ Stale(letter, trust)
  /\ reader' = [reader EXCEPT ![r] = [pc |-> "stale", trust |-> trust]]
  /\ UNCHANGED <<trust, letter, generating>>

(* Mutant of Claim: nobody looks whether the set has the user. *)
BugClaim(r) ==
  /\ reader[r].pc = "stale"
  /\ generating' = TRUE /\ reader' = [reader EXCEPT ![r].pc = "asking"]
  /\ UNCHANGED <<trust, letter>>

\* Under the lock; one that comes second serves what it read, or a 503.
Claim(r) ==
  /\ reader[r].pc = "stale"
  /\ IF generating
     THEN reader' = [reader EXCEPT ![r] = Gone] /\ UNCHANGED generating
     ELSE generating' = TRUE /\ reader' = [reader EXCEPT ![r].pc = "asking"]
  /\ UNCHANGED <<trust, letter>>

\* What is written replaces the cache, whatever came in between.
KeepLetter(r) ==
  /\ reader[r].pc = "asking"
  /\ letter' = [age |-> 0, trust |-> reader[r].trust]
  /\ reader' = [reader EXCEPT ![r].pc = "leaving"]
  /\ UNCHANGED <<trust, generating>>

(* Mutant of LetterFails: the claim is given up on success only. *)
BugLetterFails(r) ==
  /\ reader[r].pc = "asking"
  /\ reader' = [reader EXCEPT ![r] = Gone]
  /\ UNCHANGED <<trust, letter, generating>>

\* The model or the database raises: the old letter or a 500, after the claim is given up.
LetterFails(r) ==
  /\ reader[r].pc = "asking"
  /\ reader' = [reader EXCEPT ![r].pc = "leaving"]
  /\ UNCHANGED <<trust, letter, generating>>

\* The finally of get_letter, under the lock.
GiveUpClaim(r) ==
  /\ reader[r].pc = "leaving"
  /\ generating' = FALSE /\ reader' = [reader EXCEPT ![r] = Gone]
  /\ UNCHANGED <<trust, letter>>

\* A session is reflected on.
TrustMoves(t) == t # trust /\ trust' = t /\ UNCHANGED <<letter, generating, reader>>

LetterAges ==
  /\ letter # NoLetter /\ letter.age < MaxAge
  /\ letter' = [letter EXCEPT !.age = @ + 1]
  /\ UNCHANGED <<trust, generating, reader>>

\* Forgetting, a reset, the end of the account.
LetterDeleted == letter' = NoLetter /\ UNCHANGED <<trust, generating, reader>>

\* The set is in memory.
LetterRestart ==
  /\ generating' = FALSE /\ reader' = [r \in Readers |-> Gone]
  /\ UNCHANGED <<trust, letter>>

LetterNext ==
  \/ \E r \in Readers : Look(r) \/ Claim(r) \/ KeepLetter(r) \/ LetterFails(r) \/ GiveUpClaim(r)
  \/ \E t \in Trusts : TrustMoves(t)
  \/ LetterAges \/ LetterDeleted \/ LetterRestart

LetterSpec == LetterInit /\ [][LetterNext]_letterVars

-----------------------------------------------------------------------------

LetterTypeOK ==
  /\ trust \in Trusts /\ generating \in BOOLEAN
  /\ letter \in [age : 0..MaxAge, trust : Trusts] \cup {NoLetter}
  /\ reader \in [Readers -> [pc : {"stale", "asking", "leaving"}, trust : Trusts] \cup {Gone}]

Busy == {r \in Readers : reader[r].pc \in {"asking", "leaving"}}

(* "Prevent concurrent generation per user": one request at a time asks the *)
(* model, and the user is in the set exactly as long as one does, so that   *)
(* no failure keeps everyone from a new letter for good.                    *)
OneGeneration ==
  /\ \A r, s \in Busy : r = s
  /\ generating <=> Busy # {}
=============================================================================
