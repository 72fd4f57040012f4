------------------------------ MODULE Accounts ------------------------------
(***************************************************************************)
(* Accounts and their sessions: the users table and the signed tokens of    *)
(* auth.py, the forms of the web and mobile routes that change them, the    *)
(* links sent by mail, and the restart of the server.                       *)
(*                                                                          *)
(* The k-th mailed token is the number k, 0 is the empty one, and a user_id *)
(* is the number of the verification token made with it.  Whoever acts on   *)
(* an account has the right password.  Time is in seconds: a token carries  *)
(* whole seconds, and two made for the same user in the same second are the *)
(* same token.  A users table that cannot be read, which verify_token takes *)
(* for one that has nothing against the token, is left out.  A mail is sent *)
(* to an address and only its owner follows the link in it.                 *)
(***************************************************************************)
EXTENDS Integers, FiniteSets

CONSTANTS
  Names,       \* user names
  Emails,      \* addresses
  NoEmail,     \* the empty address
  MaxLinks,    \* verification and reset tokens made, and so accounts (bound)
  MaxRequests, \* requests and restarts (bound)
  MaxSeconds,  \* time the runs consider (bound)
  Life,        \* seconds a session's token lives
  LinkLife     \* seconds a reset link lives

ASSUME AccountsOK == /\ NoEmail \notin Emails
                     /\ MaxLinks \in Nat /\ MaxRequests \in Nat /\ MaxSeconds \in Nat
                     /\ Life \in Nat \ {0} /\ LinkLife \in Nat \ {0}

VARIABLES
  mailOn,    \* is a mail service configured?
  now,       \* the clock
  requests,  \* requests made so far
  users,     \* the users table
  links,     \* how many mailed tokens were made
  sending,   \* mails a request is waiting for
  mailbox,   \* mails that have arrived
  issued,    \* session tokens handed out
  revoked,   \* _revoked_tokens, in memory
  saved,     \* the revoked_tokens table
  ended,     \* sessions that were ended, and that no fault of a store revived
  proven,    \* addresses shown to be their user's: pairs of user and address
  waived,    \* the same for addresses taken on trust
  stranded,  \* accounts a restart or a change of address may have locked out
  asked,     \* reset links asked for
  resets     \* passwords changed through one

accountVars == <<mailOn, now, requests, users, links, sending, mailbox, issued, revoked, saved,
                 ended, proven, waived, stranded, asked, resets>>
ghosts == <<ended, proven, waived, stranded, asked, resets>>

Uids == 1..MaxLinks
Seconds == 0..MaxSeconds
Links == 0..MaxLinks
Token == [uid : Uids, iat : Seconds]
User == [name : Names, email : Emails \cup {NoEmail}, verified : BOOLEAN, vtoken : Links,
         rtoken : Links, rexpiry : Nat, changed : {-1} \cup Seconds]
Mail == [kind : {"register", "change", "forgot"}, uid : Uids, name : Names, link : Links,
         to : Emails \cup {NoEmail}]

Arrived == {m.link : m \in mailbox}
Exp(t) == t.iat + Life

Exists(u) == u \in DOMAIN users

AccountsInit ==
  /\ mailOn \in BOOLEAN
  /\ now = 0 /\ requests = 0 /\ links = 0
  /\ users = <<>>
  /\ sending = {} /\ mailbox = {} /\ issued = {} /\ revoked = {} /\ saved = {}
  /\ ended = {} /\ proven = {} /\ waived = {} /\ stranded = {} /\ asked = {} /\ resets = {}

------------------------------------------------------------------------------
(* Tokens. *)

(* Mutant of Accepts: the token's age is not compared with the password's. *)
BugAccepts(t) ==
  /\ now <= Exp(t)
  /\ t \notin {r \in revoked : Exp(r) > now}
  /\ Exists(t.uid)

\* verify_token: the last second of its life is part of it, but a revocation
\* is pruned as that second starts, in the same call and before it is looked up.
Accepts(t) ==
  /\ now <= Exp(t)
  /\ t \notin {r \in revoked : Exp(r) > now}
  /\ Exists(t.uid)
  /\ t.iat >= users[t.uid].changed

\* Counts a request, of which the runs make no more than MaxRequests.
Requested == requests < MaxRequests /\ requests' = requests + 1

SignedIn(u) == \E t \in issued : t.uid = u /\ Accepts(t)

\* An account made before addresses were verified has no token left to verify.
CountsVerified(u) == users[u].verified \/ users[u].vtoken = 0

TokensOf(u) == {t \in issued : t.uid = u}

Login(u) ==
  /\ Exists(u)
  /\ mailOn => CountsVerified(u)
  /\ issued' = issued \cup {[uid |-> u, iat |-> now]}
  /\ Requested
  /\ UNCHANGED <<mailOn, now, users, links, sending, mailbox, revoked, saved, ghosts>>

\* Whatever the cookie holds is revoked; the table may fail to take it, and
\* then the next restart forgets it.
Logout(t, written) ==
  /\ t \in issued
  /\ revoked' = revoked \cup {t}
  /\ saved' = IF written THEN saved \cup {t} ELSE saved
  /\ ended' = IF written THEN ended \cup {t} ELSE ended
  /\ Requested
  /\ UNCHANGED <<mailOn, now, users, links, sending, mailbox, issued,
                 proven, waived, stranded, asked, resets>>

(* Mutant of Reload: the revocations are not loaded at start-up. *)
BugReload == {}

\* load_revoked_tokens_from_db.
Reload == {t \in saved : Exp(t) > now}

\* Requests waiting for a mail die with the server.  An account whose
\* registration was one of them is neither told nor verified.
Restart(loaded) ==
  /\ revoked' = IF loaded THEN Reload ELSE {}
  /\ ended' = IF loaded THEN ended
              ELSE {t \in ended : ~Exists(t.uid) \/ t.iat < users[t.uid].changed}
  /\ stranded' = stranded \cup {m.uid : m \in sending}
  /\ sending' = {}
  /\ Requested
  /\ UNCHANGED <<mailOn, now, users, links, mailbox, issued, saved, proven, waived, asked, resets>>

------------------------------------------------------------------------------
(* Accounts. *)

Taken(field, x, u) == \E v \in DOMAIN users : v # u /\ users[v][field] = x

Set(u, user) == users' = [v \in DOMAIN users \cup {u} |-> IF v = u THEN user ELSE users[v]]

\* register_user; the request then waits for the mail.
Register(name, email) ==
  LET u == links + 1
  IN /\ links < MaxLinks
     /\ ~Taken("name", name, u) /\ ~Taken("email", email, u)
     /\ Set(u, [name |-> name, email |-> email, verified |-> FALSE, vtoken |-> u,
                rtoken |-> 0, rexpiry |-> 0, changed |-> -1])
     /\ links' = u
     /\ sending' = sending \cup {[kind |-> "register", uid |-> u, name |-> name,
                                 link |-> u, to |-> email]}
     /\ Requested
     /\ UNCHANGED <<mailOn, now, mailbox, issued, revoked, saved, ghosts>>

\* The mail service took the mail, and it arrives; none goes to the empty address.
MailSent(m) ==
  /\ mailOn /\ m \in sending /\ m.to # NoEmail
  /\ sending' = sending \ {m}
  /\ mailbox' = mailbox \cup {m}
  /\ UNCHANGED <<mailOn, requests, now, users, links, issued, revoked, saved, ghosts>>

(* Mutant of ForceVerify: the outage is not made up for. *)
BugForceVerify(name) == users

\* force_verify_email goes by the name the form had.
ForceVerify(name) ==
  [u \in DOMAIN users |->
     IF users[u].name = name THEN [users[u] EXCEPT !.verified = TRUE, !.vtoken = 0] ELSE users[u]]

\* The call failed, or its answer was lost: then the mail arrives all the same.
\* Who registers is let in without; the other mails are not missed.
MailFails(m, arrives) ==
  /\ m \in sending /\ (arrives => mailOn /\ m.to # NoEmail)
  /\ sending' = sending \ {m}
  /\ mailbox' = IF arrives THEN mailbox \cup {m} ELSE mailbox
  /\ IF m.kind = "register"
     THEN /\ users' = ForceVerify(m.name)
          /\ issued' = issued \cup {[uid |-> m.uid, iat |-> now]}
          /\ waived' = waived \cup {<<u, users[u].email>> :
                                      u \in {v \in DOMAIN users : users[v].name = m.name}}
     ELSE UNCHANGED <<users, issued, waived>>
  /\ UNCHANGED <<mailOn, requests, now, links, revoked, saved, ended, proven, stranded, asked, resets>>

\* verify_email_token, with the link of a mail that has arrived: what it shows
\* is that the user reads what is sent to the address of that mail.
Verify(u, m) ==
  /\ m \in mailbox
  /\ Exists(u) /\ users[u].vtoken = m.link /\ ~users[u].verified
  /\ Set(u, [users[u] EXCEPT !.verified = TRUE, !.vtoken = 0])
  /\ proven' = proven \cup {<<u, m.to>>}
  /\ UNCHANGED <<mailOn, requests, now, links, sending, mailbox, issued, revoked, saved,
                 ended, waived, stranded, asked, resets>>

AdminVerify(u) ==
  /\ Exists(u)
  /\ Set(u, [users[u] EXCEPT !.verified = TRUE, !.vtoken = 0])
  /\ waived' = waived \cup {<<u, users[u].email>>}
  /\ Requested
  /\ UNCHANGED <<mailOn, now, links, sending, mailbox, issued, revoked, saved,
                 ended, proven, stranded, asked, resets>>

(* Mutant of Readdressed: a token not yet followed is kept for the new address. *)
BugReaddressed(user, email, link) ==
  [user EXCEPT !.email = email, !.verified = FALSE,
               !.vtoken = IF user.vtoken = 0 THEN link ELSE user.vtoken]

Readdressed(user, email, link) ==
  [user EXCEPT !.email = email, !.verified = FALSE, !.vtoken = link]

\* update_email: an empty address has no token, and so counts as verified.
UpdateEmail(u, email) ==
  LET link == IF email = NoEmail THEN 0 ELSE links + 1
  IN /\ Exists(u) /\ SignedIn(u) /\ link <= MaxLinks
     /\ ~Taken("email", email, u)
     /\ Set(u, Readdressed(users[u], email, link))
     /\ links' = IF link = 0 THEN links ELSE link
     /\ sending' = IF mailOn /\ link # 0
                   THEN sending \cup {[kind |-> "change", uid |-> u, name |-> users[u].name,
                                       link |-> link, to |-> email]}
                   ELSE sending
     /\ stranded' = stranded \cup {u}
     /\ Requested
     /\ UNCHANGED <<mailOn, now, mailbox, issued, revoked, saved, ended, proven, waived, asked, resets>>

UpdateUsername(u, name) ==
  /\ Exists(u) /\ SignedIn(u) /\ ~Taken("name", name, u)
  /\ Set(u, [users[u] EXCEPT !.name = name])
  /\ Requested
  /\ UNCHANGED <<mailOn, now, links, sending, mailbox, issued, revoked, saved, ghosts>>

\* A new password ends the sessions of the seconds before this one.
EndedByPassword(u) == {t \in TokensOf(u) : t.iat < now}

ChangePassword(u) ==
  /\ Exists(u) /\ SignedIn(u)
  /\ Set(u, [users[u] EXCEPT !.changed = now])
  /\ ended' = ended \cup EndedByPassword(u)
  /\ Requested
  /\ UNCHANGED <<mailOn, now, links, sending, mailbox, issued, revoked, saved,
                 proven, waived, stranded, asked, resets>>

\* By the user or by the administrator; what else is deleted is not here.
Delete(u) ==
  /\ Exists(u)
  /\ users' = [v \in DOMAIN users \ {u} |-> users[v]]
  /\ ended' = ended \cup TokensOf(u)
  /\ Requested
  /\ UNCHANGED <<mailOn, now, links, sending, mailbox, issued, revoked, saved,
                 proven, waived, stranded, asked, resets>>

------------------------------------------------------------------------------
(* Forgotten passwords. *)

\* generate_reset_token: the new link replaces the one before.  The form takes
\* the empty address too, and finds the account that has none.
Forgot(u) ==
  LET link == links + 1
  IN /\ Exists(u) /\ link <= MaxLinks
     /\ Set(u, [users[u] EXCEPT !.rtoken = link, !.rexpiry = now + LinkLife])
     /\ links' = link
     /\ sending' = sending \cup {[kind |-> "forgot", uid |-> u, name |-> users[u].name,
                                 link |-> link, to |-> users[u].email]}
     /\ asked' = asked \cup {[uid |-> u, link |-> link, at |-> now]}
     /\ Requested
     /\ UNCHANGED <<mailOn, now, mailbox, issued, revoked, saved, ended, proven, waived, stranded, resets>>

(* Mutant of Consumed: the link is not cleared. *)
BugConsumed(user) == [user EXCEPT !.changed = now]

Consumed(user) == [user EXCEPT !.rtoken = 0, !.rexpiry = 0, !.changed = now]

\* consume_reset_token: one transaction from the lookup to the update.
Reset(u, link) ==
  /\ Exists(u) /\ link \in Arrived /\ users[u].rtoken = link /\ users[u].rexpiry > now
  /\ Set(u, Consumed(users[u]))
  /\ ended' = ended \cup EndedByPassword(u)
  /\ resets' = resets \cup {[uid |-> u, link |-> link, at |-> now, links |-> links,
                             n |-> Cardinality(resets)]}
  /\ Requested
  /\ UNCHANGED <<mailOn, now, links, sending, mailbox, issued, revoked, saved,
                 proven, waived, stranded, asked>>

Tock ==
  /\ now < MaxSeconds /\ now' = now + 1
  /\ UNCHANGED <<mailOn, requests, users, links, sending, mailbox, issued, revoked, saved, ghosts>>

AccountsNext ==
  \/ \E u \in Uids : \/ Login(u) \/ AdminVerify(u) \/ ChangePassword(u)
                     \/ Delete(u) \/ Forgot(u)
                     \/ \E link \in Links : Reset(u, link)
                     \/ \E m \in mailbox : Verify(u, m)
                     \/ \E email \in Emails \cup {NoEmail} : UpdateEmail(u, email)
                     \/ \E name \in Names : UpdateUsername(u, name)
  \/ \E name \in Names, email \in Emails : Register(name, email)
  \/ \E t \in issued, written \in BOOLEAN : Logout(t, written)
  \/ \E m \in sending : MailSent(m) \/ \E arrives \in BOOLEAN : MailFails(m, arrives)
  \/ \E loaded \in BOOLEAN : Restart(loaded)
  \/ Tock

AccountsSpec == AccountsInit /\ [][AccountsNext]_accountVars

------------------------------------------------------------------------------

AccountsTypeOK ==
  /\ mailOn \in BOOLEAN /\ now \in Seconds /\ requests \in 0..MaxRequests /\ links \in Links
  /\ DOMAIN users \subseteq 1..links
  /\ \A u \in DOMAIN users : users[u] \in User
  /\ sending \subseteq Mail
  /\ mailbox \subseteq Mail /\ stranded \subseteq Uids
  /\ issued \subseteq Token /\ revoked \subseteq issued /\ saved \subseteq issued /\ ended \subseteq issued
  /\ proven \cup waived \subseteq Uids \X (Emails \cup {NoEmail})

(* A session that was ended is refused until its token's last second:       *)
(* ended by logging out, by a new password in a later second than the one   *)
(* it began in, or by deleting the account; across restarts, as long as     *)
(* the table of revocations took and gave back what it was told.            *)
EndedStaysEnded == \A t \in ended : Accepts(t) => now >= Exp(t)

(* An address counts as verified only if the user followed a link that was  *)
(* sent to this very address, or it was taken on trust (no mail could be    *)
(* sent at registration, or the administrator said so): never by a link     *)
(* sent to an earlier address, whichever of them arrives late.              *)
VerifiedIsProven ==
  \A u \in DOMAIN users : users[u].verified => <<u, users[u].email>> \in proven \cup waived

(* force_verify_email is there so that users are "not locked out" when mail *)
(* fails: whoever registered can log in, or will when their mail comes or   *)
(* fails, or has it; whatever the order of the mails and of the changes of  *)
(* name and password.  Not so if the server restarted before the mail was   *)
(* sent, or the address was changed since.                                  *)
NotLockedOut ==
  \A u \in DOMAIN users \ stranded :
    \/ ~mailOn
    \/ CountsVerified(u)
    \/ users[u].vtoken \in Arrived
    \/ \E m \in sending : m.kind = "register" /\ m.uid = u /\ m.link = users[u].vtoken /\ m.name = users[u].name

(* A reset link changes one password once, in time, and only if no newer    *)
(* one had been asked for.                                                  *)
LinkOnce ==
  \A r \in resets :
    /\ \A s \in resets : s # r => s.link # r.link
    /\ \E a \in asked : a.uid = r.uid /\ a.link = r.link /\ r.at < a.at + LinkLife
    /\ \A a \in asked : a.uid = r.uid /\ a.link <= r.links => a.link <= r.link
==============================================================================
