--------------------------- MODULE ReflectionLedger ---------------------------
(***************************************************************************)
(* What a user may expect to become of what they said, however the session  *)
(* or the server ends: a turn that was promised a reflection stays on the   *)
(* disk until a reflection has dealt with it, and reflections deal with     *)
(* what is on the disk.  Only while the end of a session hands its turns    *)
(* over may they be in memory alone: a crash at that moment takes the       *)
(* promise back, and nothing else does.                                     *)
(* SessionLifecycle implements this.                                        *)
(***************************************************************************)

CONSTANT Turns  \* what the user may say

VARIABLES promised, \* the turns that were promised a reflection
          disk,     \* the turns a crash would leave behind
          hand,     \* the turns that are being handed over
          dealt     \* the turns a reflection has dealt with

vars == <<promised, disk, hand, dealt>>

Init == promised = {} /\ disk = {} /\ hand = {} /\ dealt = {}

Kept == promised \subseteq disk \cup hand \cup dealt

\* Rows and files come and go; none that a promise needs is lost.
Write == disk' \in SUBSET Turns /\ Kept'

Tidy == Write /\ UNCHANGED <<promised, hand, dealt>>

\* Once a turn is on the disk, it is promised to be reflected on.
Promise(t) ==
  /\ Write /\ t \in disk'
  /\ promised' = promised \cup {t}
  /\ UNCHANGED <<hand, dealt>>

\* The end of a session takes its turns, then queues them on the disk.
Take  == hand \subseteq hand' /\ hand' \in SUBSET Turns /\ Write /\ UNCHANGED <<promised, dealt>>
Queue == hand' \subseteq hand /\ hand \subseteq hand' \cup disk' /\ Write /\ UNCHANGED <<promised, dealt>>

\* A reflection leaves what it reads where it is.
Deal ==
  /\ dealt' \in SUBSET Turns
  /\ dealt \subseteq dealt' /\ dealt' \subseteq dealt \cup disk
  /\ UNCHANGED <<promised, disk, hand>>

Crash == promised' = promised \ (hand \ disk) /\ hand' = {} /\ UNCHANGED <<disk, dealt>>

Next == Tidy \/ (\E t \in Turns : Promise(t)) \/ Take \/ Queue \/ Deal \/ Crash

Spec == Init /\ [][Next]_vars
===============================================================================
