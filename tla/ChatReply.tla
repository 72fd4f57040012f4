------------------------------ MODULE ChatReply ------------------------------
(***************************************************************************)
(* What a user may expect of the chat, whatever happens between the page    *)
(* and the model: a message that was sent is settled in the end, once, and  *)
(* what the page says of it agrees with what the server keeps.              *)
(* ChatStream implements this.                                              *)
(***************************************************************************)

CONSTANT Turns  \* the messages a user may send

VARIABLES reply,  \* what the page shows for each of them
          kept    \* those whose reply is on record

vars == <<reply, kept>>

Init == reply = [t \in Turns |-> "none"] /\ kept = {}

Becomes(t, s) == reply' = [reply EXCEPT ![t] = s] /\ UNCHANGED kept

Ask(t) == reply[t] = "none" /\ Becomes(t, "asked")

(* A reply is put on record while the page waits for it, or after the page *)
(* has lost the connection: then it is there when the history is loaded.   *)
Keep(t) ==
  /\ reply[t] \in {"asked", "lost"}
  /\ t \notin kept
  /\ kept' = kept \cup {t}
  /\ UNCHANGED reply

(* Only a reply on record is shown as final; one that is refused, or left  *)
(* unsaid, is not on record and never will be.                              *)
Settle(t) ==
  /\ reply[t] = "asked"
  /\ \/ t \in kept /\ Becomes(t, "answered")
     \/ t \notin kept /\ \E s \in {"silent", "refused"} : Becomes(t, s)
     \/ Becomes(t, "lost")

Next == \E t \in Turns : Ask(t) \/ Keep(t) \/ Settle(t)

Spec == Init /\ [][Next]_vars

FairSpec == Spec /\ \A t \in Turns : WF_vars(Settle(t))
==============================================================================
