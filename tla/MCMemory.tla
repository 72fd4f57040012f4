------------------------------ MODULE MCMemory ------------------------------
(***************************************************************************)
(* TLC instance of what is remembered: the facts, the graph of nodes, the   *)
(* outreach, the letter and forgetting.  They share no variable; as in      *)
(* MCService each behaviour is of one of them, chosen at the start.         *)
(***************************************************************************)
EXTENDS Facts, MemoryGraph, Outreach, Letter, Forgetting, TLC

VARIABLE focus

memoryVars == <<focus, factVars, graphVars, outreachVars, letterVars, forgetVars>>

MCFactCategory == [f \in FactNames |-> IF f \in {"tall", "mum's"} THEN "none" ELSE IF f = "oslo" THEN "home" ELSE "job"]
MCBatches == {<<"nurse">>, <<"pilot's">>, <<"oslo", "pilot's">>, <<"tall", "nurse">>, <<"mum's">>, <<"tall">>}
MCCategoryOf == [c \in Contents |-> IF c = "tall" THEN "none" ELSE "job"]
MCOrder == <<"history", "tables">>
MCReach == [j \in Jobs |-> IF j = "turn" THEN {"history"} ELSE {"tables", "core"}]

Symmetry == Permutations(Creators) \cup Permutations(Readers) \cup Permutations(Writers)

\* The components that do not move stand in one of their initial states.
MemoryInit ==
  /\ focus \in {"facts", "graph", "outreach", "letter", "forget"}
  /\ FactsInit /\ GraphInit /\ OutreachInit /\ LetterInit /\ ForgetInit
  /\ focus # "facts" => active = <<>>
  /\ focus # "outreach" => ~spoken
  /\ focus # "letter" => trust = TrustNeeded
  /\ focus # "forget" => mind = [p \in Parts |-> {}]

MemoryNext ==
  /\ UNCHANGED focus
  /\ \/ focus = "facts" /\ FactsNext /\ UNCHANGED <<graphVars, outreachVars, letterVars, forgetVars>>
     \/ focus = "graph" /\ GraphNext /\ UNCHANGED <<factVars, outreachVars, letterVars, forgetVars>>
     \/ focus = "outreach" /\ OutreachNext /\ UNCHANGED <<factVars, graphVars, letterVars, forgetVars>>
     \/ focus = "letter" /\ LetterNext /\ UNCHANGED <<factVars, graphVars, outreachVars, forgetVars>>
     \/ focus = "forget" /\ ForgetNext /\ UNCHANGED <<factVars, graphVars, outreachVars, letterVars>>

MemorySpec == MemoryInit /\ [][MemoryNext]_memoryVars

(* Every variable of the five components has its type. *)
TypeOK == FactsTypeOK /\ GraphTypeOK /\ OutreachTypeOK /\ LetterTypeOK /\ ForgetTypeOK
=============================================================================
