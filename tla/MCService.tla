------------------------------ MODULE MCService ------------------------------
(***************************************************************************)
(* TLC instance of three components that share no variable: the rate        *)
(* limiter, the accounts and the graph of a turn.  Each behaviour is of one *)
(* of them, chosen at the start, while the others stand still: their        *)
(* product would show nothing their sum does not.                           *)
(***************************************************************************)
EXTENDS RateLimit, Accounts, Turn, TLC

VARIABLE focus

serviceVars == <<focus, rlVars, accountVars, turnVars>>

MCMaxHits == [path \in Paths |-> IF path = "api_auth" THEN 1 ELSE 2]

\* The classifier's hard cases: an insult, an apology of someone hurt, push-back
\* of low sentiment, a friendly command, a sad remark, theory, small talk.
Msg(has, valence) == [has |-> has, valence |-> valence]
MCMessages == {Msg({"abuse"}, 10), Msg({"apology", "vulnerable"}, 40), Msg({"challenge"}, 20),
               Msg({"command"}, 70), Msg({}, 20), Msg({"casual"}, 60)}

NewCore == [stage |-> 1, valence |-> 1000, arousal |-> -1500, baseline |-> 0, respect |-> 8500,
            rapport |-> 8000, honesty |-> 9000, intellectual |-> 8000, longing |-> 0,
            trust |-> 1000, comfort |-> 0, followUp |-> FALSE, flirt |-> FALSE, tease |-> FALSE]
CloseCore == [NewCore EXCEPT !.stage = 4, !.valence = 4000, !.arousal = 3000, !.baseline = 3000,
                             !.longing = 4000, !.trust = 8000, !.comfort = 5000,
                             !.followUp = TRUE, !.flirt = TRUE, !.tease = TRUE]
MCCores == {NewCore, CloseCore}

Symmetry == Permutations(Names) \cup Permutations(Emails)

ServiceInit ==
  /\ focus \in {"limit", "accounts", "turn"}
  /\ RLInit /\ AccountsInit /\ TurnInit
  /\ focus # "accounts" => mailOn
  /\ focus # "turn" => session = FreshSession(NewCore, 0)

ServiceNext ==
  /\ UNCHANGED focus
  /\ \/ focus = "limit" /\ RLNext /\ UNCHANGED <<accountVars, turnVars>>
     \/ focus = "accounts" /\ AccountsNext /\ UNCHANGED <<rlVars, turnVars>>
     \/ focus = "turn" /\ TurnNext /\ UNCHANGED <<rlVars, accountVars>>

ServiceSpec == ServiceInit /\ [][ServiceNext]_serviceVars

(* Every variable of the three components has its type. *)
TypeOK == RLTypeOK /\ AccountsTypeOK /\ TurnTypeOK
==============================================================================
