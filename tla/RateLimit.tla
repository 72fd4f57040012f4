------------------------------ MODULE RateLimit ------------------------------
(***************************************************************************)
(* The rate limiter in front of every request (RateLimitMiddleware): one    *)
(* list of admission times per key, pruned by each request, shared by all   *)
(* rules that count under that key.                                         *)
(*                                                                          *)
(* Time is counted in ticks, TicksPerSecond of them to a second.  The list  *)
(* of a key is the set of the numbers of the admissions that are in it:     *)
(* time never goes back, so their order in the list is that of their        *)
(* numbers, and popping from the front while the front is too old removes   *)
(* exactly the ones that are.                                               *)
(***************************************************************************)
EXTENDS Integers, FiniteSets, Sequences

CONSTANTS
  Ips,            \* addresses requests come from
  Users,          \* users with a valid token
  Nobody,         \* no valid token
  Paths,          \* classes of paths: see Limited and ByAddress
  MaxHits,        \* admissions a window allows, for each class of paths
  Window,         \* the window of every rule, in seconds
  TicksPerSecond,
  MaxTicks        \* time the runs consider (bound)

ASSUME PathsOK == Paths \subseteq {"web_auth", "api_auth", "chat", "api", "page", "webhook"}
ASSUME RulesOK == /\ MaxHits \in [Paths -> Nat \ {0}]
                  /\ Window \in Nat \ {0} /\ TicksPerSecond \in Nat \ {0} /\ MaxTicks \in Nat
ASSUME KeysOK == Nobody \notin Users /\ Ips \cap Users = {}

VARIABLES
  rlClock,  \* time.monotonic()
  hits,     \* the list of each key
  log,      \* every admission a rule counted (for the properties)
  answer    \* the answer to the last request a rule counted or refused

rlVars == <<rlClock, hits, log, answer>>

Keys == Ips \cup Users
Span == Window * TicksPerSecond
Admission == [key : Keys, path : Paths, at : 0..MaxTicks]

\* What a refusal says, and of a request that was let through nothing.
NoRefusal == [refused |-> FALSE]
Refusal == [refused : {TRUE}, key : Keys, path : Paths, retry : Int, until : Int, full : BOOLEAN, n : Nat]

RLInit ==
  /\ rlClock = 0
  /\ hits = [k \in Keys |-> {}]
  /\ log = <<>>
  /\ answer = NoRefusal

\* The paths a rule counts: the web forms and the API, but no webhook.
Limited(path) == path \notin {"page", "webhook"}

\* The ones whose key is the address whoever is signed in.
ByAddress(path) == path \in {"web_auth", "api_auth"}

Key(path, ip, user) == IF ByAddress(path) \/ user = Nobody THEN ip ELSE user

(* Mutant of Fresh: the hit at the very start of the window is dropped. *)
BugFresh(key) == {n \in hits[key] : log[n].at > rlClock - Span}

(* Mutant of Fresh: nothing is pruned. *)
BugNoPrune(key) == hits[key]

\* The list of a key, pruned: the hit at the very start of the window stays.
Fresh(key) == {n \in hits[key] : log[n].at >= rlClock - Span}

Oldest(ns) == CHOOSE n \in ns : \A m \in ns : n <= m

(* Mutant of Retry: the rest of the window, rounded down. *)
BugRetry(first) == (Span - (rlClock - log[first].at)) \div TicksPerSecond

\* Retry-After, in whole seconds: more than the rest of the window.
Retry(first) == (Span - (rlClock - log[first].at)) \div TicksPerSecond + 1

Admit(path, ip, user) ==
  LET key == Key(path, ip, user)
      n == Len(log) + 1
  IN /\ Limited(path)
     /\ Cardinality(Fresh(key)) < MaxHits[path]
     /\ log' = Append(log, [key |-> key, path |-> path, at |-> rlClock])
     /\ hits' = [hits EXCEPT ![key] = Fresh(key) \cup {n}]
     /\ answer' = NoRefusal
     /\ UNCHANGED rlClock

Refuse(path, ip, user) ==
  LET key == Key(path, ip, user)
      retry == Retry(Oldest(Fresh(key)))
  IN /\ Limited(path)
     /\ Cardinality(Fresh(key)) >= MaxHits[path]
     /\ hits' = [hits EXCEPT ![key] = Fresh(key)]
     /\ answer' = [refused |-> TRUE, key |-> key, path |-> path, retry |-> retry,
                   until |-> rlClock + retry * TicksPerSecond,
                   full |-> Cardinality(Fresh(key)) = MaxHits[path], n |-> Len(log)]
     /\ UNCHANGED <<rlClock, log>>

\* Pages and webhooks go through uncounted.
PassThrough(path) == ~Limited(path) /\ answer' = NoRefusal /\ UNCHANGED <<rlClock, hits, log>>

Dispatch(path, ip, user) ==
  Admit(path, ip, user) \/ Refuse(path, ip, user) \/ PassThrough(path)

RLTick == rlClock < MaxTicks /\ rlClock' = rlClock + 1 /\ UNCHANGED <<hits, log, answer>>

RLNext ==
  \/ \E path \in Paths, ip \in Ips, user \in Users \cup {Nobody} : Dispatch(path, ip, user)
  \/ RLTick

RLSpec == RLInit /\ [][RLNext]_rlVars

------------------------------------------------------------------------------

RLTypeOK ==
  /\ rlClock \in 0..MaxTicks
  /\ log \in Seq(Admission)
  /\ hits \in [Keys -> SUBSET (1..Len(log))]
  /\ answer = NoRefusal \/ answer \in Refusal

\* The admissions of the key of admission n in the window that n ends.
InWindow(n) ==
  {m \in 1..n : log[m].key = log[n].key /\ log[m].at >= log[n].at - Span}

(* _check_rate_limit: an admission under a rule never makes more of them    *)
(* for its key, whatever their rules, than the rule allows in the 60        *)
(* seconds that end with it, both ends included, although the list it       *)
(* counts was pruned by requests at other times and under other rules.      *)
Budget == \A n \in 1..Len(log) : Cardinality(InWindow(n)) <= MaxHits[log[n].path]

(* Retry-After keeps its word: who waits as long as a refusal said, while   *)
(* nothing is admitted and no one else refused, is not refused again.       *)
(* (Under one rule; a key with more admissions than the rule allows, made   *)
(* under a more generous one, is promised too little.)                      *)
RetryHonest ==
  [][~(/\ answer.refused /\ answer.full /\ rlClock >= answer.until /\ answer.n = Len(log)
       /\ answer'.refused /\ answer' # answer
       /\ answer'.key = answer.key /\ answer'.path = answer.path)]_rlVars
==============================================================================
