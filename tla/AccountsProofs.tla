--------------------------- MODULE AccountsProofs ---------------------------
(***************************************************************************)
(* Proofs about accounts: for any number of users, mails, requests and      *)
(* restarts, an address counts as verified only if it was shown to be the   *)
(* user's, what ended a session ends it for good, a reset link is good for  *)
(* one password, and who waits for a mail to be let in has it, or will.     *)
(***************************************************************************)
EXTENDS Accounts, TLAPS

(***************************************************************************)
(* What the forms do to a row of the users table                           *)
(***************************************************************************)

LEMMA VerifiedRow ==
  ASSUME NEW w \in User
  PROVE  LET v == [w EXCEPT !.verified = TRUE, !.vtoken = 0]
         IN v \in User /\ v.email = w.email /\ v.rtoken = w.rtoken /\ v.rexpiry = w.rexpiry
            /\ v.changed = w.changed
<1>1. 0 \in Links /\ TRUE \in BOOLEAN
  BY AccountsOK DEF Links
<1> HIDE DEF Links
<1> QED BY <1>1 DEF User

LEMMA ReaddressedRow ==
  ASSUME NEW w \in User, NEW email \in Emails \cup {NoEmail}, NEW link \in Links
  PROVE  LET v == Readdressed(w, email, link)
         IN v \in User /\ ~v.verified /\ v.rtoken = w.rtoken /\ v.rexpiry = w.rexpiry
            /\ v.changed = w.changed
BY DEF User, Readdressed

LEMMA RenamedRow ==
  ASSUME NEW w \in User, NEW name \in Names
  PROVE  LET v == [w EXCEPT !.name = name]
         IN v \in User /\ v.email = w.email /\ v.verified = w.verified /\ v.rtoken = w.rtoken
            /\ v.rexpiry = w.rexpiry /\ v.changed = w.changed
BY DEF User

LEMMA ConsumedRow ==
  ASSUME NEW w \in User, NEW s \in Seconds, now = s
  PROVE  LET v == Consumed(w)
         IN v \in User /\ v.email = w.email /\ v.verified = w.verified /\ v.rtoken = 0
            /\ v.changed = now
<1>1. 0 \in Links /\ 0 \in Nat
  BY AccountsOK DEF Links
<1>2. now \in {-1} \cup Seconds
  OBVIOUS
<1> QED BY <1>1, <1>2 DEF User, Consumed

LEMMA NewRow ==
  ASSUME NEW u \in Uids, NEW name \in Names, NEW email \in Emails
  PROVE  LET v == [name |-> name, email |-> email, verified |-> FALSE, vtoken |-> u,
                   rtoken |-> 0, rexpiry |-> 0, changed |-> -1]
         IN v \in User /\ ~v.verified /\ v.rtoken = 0 /\ v.changed = -1
BY AccountsOK DEF User, Links, Uids

LEMMA SetRow ==
  ASSUME NEW u, NEW w, Set(u, w)
  PROVE  /\ DOMAIN users' = DOMAIN users \cup {u} /\ users'[u] = w
         /\ \A v \in DOMAIN users : v # u => users'[v] = users[v]
BY DEF Set
(***************************************************************************)
(* What a step may do to the users table                                   *)
(***************************************************************************)

TableOK ==
  /\ links \in Links /\ now \in Seconds
  /\ DOMAIN users \subseteq 1..links
  /\ \A u \in DOMAIN users : users[u] \in User /\ users[u].changed <= now
  /\ issued \subseteq Token /\ \A t \in issued : t.uid \in 1..links
  /\ sending \subseteq Mail /\ \A m \in sending : m.uid \in 1..links

\* A new account: its number is new, nothing is verified, nobody asked for a link.
NewAccount(u) ==
  /\ u = links + 1 /\ links' = u
  /\ ~users'[u].verified /\ users'[u].changed = -1 /\ users'[u].rtoken = 0

\* An account that stays: its address is verified only by a mail or on trust,
\* its password changes now, its reset link stays, goes, or is a new one.
StayingAccount(u) ==
  /\ users'[u].changed \in {users[u].changed, now}
  /\ users'[u].verified =>
       \/ users[u].verified /\ users'[u].email = users[u].email
       \/ <<u, users'[u].email>> \in waived'
       \/ \E m \in mailbox : /\ m.link = users[u].vtoken /\ users'[u].email = users[u].email
                            /\ <<u, m.to>> \in proven'
  /\ \/ users'[u].rtoken = users[u].rtoken /\ users'[u].rexpiry = users[u].rexpiry
     \/ users'[u].rtoken = 0
     \/ /\ links' = links + 1 /\ users'[u].rtoken = links' /\ users'[u].rexpiry = now + LinkLife
        /\ asked' = asked \cup {[uid |-> u, link |-> links', at |-> now]}

TableStep ==
  /\ links' \in Links /\ links <= links' /\ now' \in Seconds /\ now <= now'
  /\ DOMAIN users' \subseteq 1..links'
  /\ \A u \in DOMAIN users' : users'[u] \in User /\ users'[u].changed <= now'
  /\ \A u \in DOMAIN users' : (u \in DOMAIN users /\ StayingAccount(u)) \/ NewAccount(u)

LEMMA UntouchedTable ==
  ASSUME TableOK, UNCHANGED <<users, links>>, now' \in Seconds, now <= now'
  PROVE  TableStep
<1>1. \A w \in User : w.changed \in Int
  BY AccountsOK DEF User, Seconds
<1>2. \A u \in DOMAIN users : users[u] \in User /\ users[u].changed <= now
  BY DEF TableOK
<1>3. now \in Int /\ now' \in Int /\ links \in Int
  BY AccountsOK DEF TableOK, Seconds, Links
<1>4. \A u \in DOMAIN users : users[u] \in User /\ users[u].changed <= now'
  BY <1>1, <1>2, <1>3
<1>5. \A u \in DOMAIN users' : u \in DOMAIN users /\ StayingAccount(u)
  BY DEF StayingAccount
<1>6. links' \in Links /\ links <= links' /\ DOMAIN users' \subseteq 1..links'
  BY <1>3 DEF TableOK
<1> QED BY <1>4, <1>5, <1>6 DEF TableStep

\* One row is rewritten, in one of the ways above.
LEMMA RewrittenRow ==
  ASSUME TableOK, NEW u \in DOMAIN users, NEW w \in User, Set(u, w),
         links' \in Links, links <= links', UNCHANGED now,
         w.changed <= now, StayingAccount(u)
  PROVE  TableStep
<1>1. /\ DOMAIN users' = DOMAIN users /\ users'[u] = w
      /\ \A v \in DOMAIN users : v # u => users'[v] = users[v]
  BY SetRow
<1>2. \A v \in DOMAIN users : StayingAccount(v)
  BY <1>1 DEF StayingAccount
<1>3. 1..links \subseteq 1..links'
  BY AccountsOK DEF TableOK, Links
<1>4. now' \in Seconds /\ now <= now'
  BY AccountsOK DEF TableOK, Seconds
<1> QED BY <1>1, <1>2, <1>3, <1>4 DEF TableOK, TableStep

LEMMA RegisterTable ==
  ASSUME TableOK, NEW name \in Names, NEW email \in Emails, Register(name, email)
  PROVE  TableStep
<1> DEFINE u == links + 1
           w == [name |-> name, email |-> email, verified |-> FALSE, vtoken |-> u,
                 rtoken |-> 0, rexpiry |-> 0, changed |-> -1]
<1>1. Set(u, w) /\ links' = u /\ links < MaxLinks /\ UNCHANGED now
  BY DEF Register
<1>2. u \in Uids /\ links' \in Links /\ links <= links' /\ 1..links \subseteq 1..links' /\ u \in 1..links'
  BY <1>1, AccountsOK DEF TableOK, Links, Uids
<1>3. w \in User /\ ~w.verified /\ w.rtoken = 0 /\ w.changed = -1
  BY <1>2, NewRow
<1> HIDE DEF w
<1>4. /\ DOMAIN users' = DOMAIN users \cup {u} /\ users'[u] = w
      /\ \A v \in DOMAIN users : v # u => users'[v] = users[v]
  BY <1>1, SetRow
<1>5. \A v \in DOMAIN users : v # u
  BY <1>1, AccountsOK DEF TableOK, Links
<1>6. \A v \in DOMAIN users : StayingAccount(v)
  BY <1>4, <1>5 DEF StayingAccount
<1>7. NewAccount(u)
  BY <1>1, <1>3, <1>4 DEF NewAccount
<1>8. now \in Nat /\ now' \in Seconds /\ now <= now' /\ w.changed <= now'
  BY <1>1, <1>3, AccountsOK DEF TableOK, Seconds
<1> HIDE DEF u
<1> QED BY <1>1, <1>2, <1>3, <1>4, <1>5, <1>6, <1>7, <1>8 DEF TableOK, TableStep

\* Those of the name are verified, and on the list of who is trusted.
LEMMA MailFailsTable ==
  ASSUME TableOK, NEW m \in sending, NEW arrives \in BOOLEAN, MailFails(m, arrives)
  PROVE  TableStep
<1>0. now' \in Seconds /\ now <= now' /\ UNCHANGED <<now, links>>
  BY AccountsOK DEF MailFails, TableOK, Seconds
<1>1. CASE m.kind # "register"
  BY <1>0, <1>1, UntouchedTable DEF MailFails
<1>2. CASE m.kind = "register"
  <2>1. /\ users' = ForceVerify(m.name)
        /\ waived' = waived \cup {<<u, users[u].email>> : u \in {v \in DOMAIN users : users[v].name = m.name}}
    BY <1>2 DEF MailFails
  <2>2. DOMAIN users' = DOMAIN users
    BY <2>1 DEF ForceVerify
  <2>3. ASSUME NEW u \in DOMAIN users
        PROVE  users'[u] \in User /\ users'[u].changed <= now' /\ StayingAccount(u)
    <3>0. users[u] \in User /\ users[u].changed <= now
      BY DEF TableOK
    <3>1. CASE users[u].name # m.name
      <4>1. users'[u] = users[u]
        BY <2>1, <3>1 DEF ForceVerify
      <4> QED BY <1>0, <3>0, <4>1 DEF StayingAccount
    <3>2. CASE users[u].name = m.name
      <4>1. users'[u] = [users[u] EXCEPT !.verified = TRUE, !.vtoken = 0]
        BY <2>1, <3>2 DEF ForceVerify
      <4>2. /\ users'[u] \in User /\ users'[u].email = users[u].email /\ users'[u].rtoken = users[u].rtoken
            /\ users'[u].rexpiry = users[u].rexpiry /\ users'[u].changed = users[u].changed
        BY <3>0, <4>1, VerifiedRow
      <4>3. <<u, users'[u].email>> \in waived'
        BY <2>1, <3>2, <4>2
      <4> QED BY <1>0, <3>0, <4>2, <4>3 DEF StayingAccount
    <3> QED BY <3>1, <3>2
  <2> QED BY <1>0, <2>2, <2>3, AccountsOK DEF TableOK, TableStep, Links
<1> QED BY <1>1, <1>2

\* The two ways to be verified: by the link of a mail, or by the administrator.
Followed(u) == \E m \in mailbox : m.link = users[u].vtoken /\ <<u, m.to>> \in proven'

LEMMA VerifyTable ==
  ASSUME TableOK, NEW u \in Uids, AdminVerify(u) \/ \E m \in mailbox : Verify(u, m)
  PROVE  TableStep
<1> DEFINE w == [users[u] EXCEPT !.verified = TRUE, !.vtoken = 0]
<1>1. /\ u \in DOMAIN users /\ Set(u, w) /\ UNCHANGED <<now, links>>
      /\ <<u, users[u].email>> \in waived' \/ Followed(u)
  BY DEF Verify, AdminVerify, Exists, Followed
<1>2. users[u] \in User /\ users[u].changed <= now
  BY <1>1 DEF TableOK
<1>3. /\ w \in User /\ w.email = users[u].email /\ w.rtoken = users[u].rtoken
      /\ w.rexpiry = users[u].rexpiry /\ w.changed = users[u].changed
  BY <1>2, VerifiedRow
<1> HIDE DEF w
<1>4. StayingAccount(u)
  BY <1>1, <1>3, SetRow DEF StayingAccount, Followed
<1>5. links' \in Links /\ links <= links'
  BY <1>1, AccountsOK DEF TableOK, Links
<1> QED BY <1>1, <1>2, <1>3, <1>4, <1>5, RewrittenRow

LEMMA EmailTable ==
  ASSUME TableOK, NEW u \in Uids, NEW email \in Emails \cup {NoEmail}, UpdateEmail(u, email)
  PROVE  TableStep
<1> DEFINE link == IF email = NoEmail THEN 0 ELSE links + 1
           w == Readdressed(users[u], email, link)
<1>1. /\ u \in DOMAIN users /\ link <= MaxLinks /\ Set(u, w) /\ UNCHANGED now
      /\ links' = IF link = 0 THEN links ELSE link
  BY DEF UpdateEmail, Exists
<1>2. link \in Links /\ links' \in Links /\ links <= links'
  BY <1>1, AccountsOK DEF TableOK, Links
<1>3. users[u] \in User /\ users[u].changed <= now
  BY <1>1 DEF TableOK
<1> HIDE DEF link
<1>4. /\ w \in User /\ ~w.verified /\ w.rtoken = users[u].rtoken
      /\ w.rexpiry = users[u].rexpiry /\ w.changed = users[u].changed
  BY <1>2, <1>3, ReaddressedRow
<1> HIDE DEF w
<1>5. StayingAccount(u)
  BY <1>1, <1>4, SetRow DEF StayingAccount
<1> QED BY <1>1, <1>2, <1>3, <1>4, <1>5, RewrittenRow

LEMMA NameTable ==
  ASSUME TableOK, NEW u \in Uids, NEW name \in Names, UpdateUsername(u, name)
  PROVE  TableStep
<1> DEFINE w == [users[u] EXCEPT !.name = name]
<1>1. u \in DOMAIN users /\ Set(u, w) /\ UNCHANGED <<now, links>>
  BY DEF UpdateUsername, Exists
<1>2. users[u] \in User /\ users[u].changed <= now
  BY <1>1 DEF TableOK
<1>3. /\ w \in User /\ w.email = users[u].email /\ w.verified = users[u].verified
      /\ w.rtoken = users[u].rtoken /\ w.rexpiry = users[u].rexpiry /\ w.changed = users[u].changed
  BY <1>2, RenamedRow
<1> HIDE DEF w
<1>4. StayingAccount(u)
  BY <1>1, <1>3, SetRow DEF StayingAccount
<1>5. links' \in Links /\ links <= links'
  BY <1>1, AccountsOK DEF TableOK, Links
<1> QED BY <1>1, <1>2, <1>3, <1>4, <1>5, RewrittenRow

LEMMA PasswordTable ==
  ASSUME TableOK, NEW u \in Uids, ChangePassword(u)
  PROVE  TableStep
<1> DEFINE w == [users[u] EXCEPT !.changed = now]
<1>1. u \in DOMAIN users /\ Set(u, w) /\ UNCHANGED <<now, links>>
  BY DEF ChangePassword, Exists
<1>2. users[u] \in User /\ now \in Seconds
  BY <1>1 DEF TableOK
<1>3. /\ w \in User /\ w.email = users[u].email /\ w.verified = users[u].verified
      /\ w.rtoken = users[u].rtoken /\ w.rexpiry = users[u].rexpiry /\ w.changed = now
  BY <1>2 DEF User
<1> HIDE DEF w
<1>4. StayingAccount(u)
  BY <1>1, <1>3, SetRow DEF StayingAccount
<1>5. links' \in Links /\ links <= links' /\ w.changed <= now
  BY <1>1, <1>3, AccountsOK DEF TableOK, Links, Seconds
<1> QED BY <1>1, <1>3, <1>4, <1>5, RewrittenRow

LEMMA DeleteTable ==
  ASSUME TableOK, NEW u \in Uids, Delete(u)
  PROVE  TableStep
<1>1. users' = [v \in DOMAIN users \ {u} |-> users[v]] /\ UNCHANGED <<now, links>>
  BY DEF Delete
<1>2. \A v \in DOMAIN users' : v \in DOMAIN users /\ users'[v] = users[v]
  BY <1>1
<1>3. \A v \in DOMAIN users' : StayingAccount(v)
  BY <1>2 DEF StayingAccount
<1>4. links' \in Links /\ links <= links' /\ now' \in Seconds /\ now <= now'
  BY <1>1, AccountsOK DEF TableOK, Links, Seconds
<1> QED BY <1>1, <1>2, <1>3, <1>4 DEF TableOK, TableStep

LEMMA ForgotTable ==
  ASSUME TableOK, NEW u \in Uids, Forgot(u)
  PROVE  /\ TableStep /\ u \in DOMAIN users /\ DOMAIN users' = DOMAIN users
         /\ users'[u].rtoken = links + 1 /\ users'[u].rexpiry = now + LinkLife
         /\ \A v \in DOMAIN users : v # u => users'[v] = users[v]
<1> DEFINE w == [users[u] EXCEPT !.rtoken = links + 1, !.rexpiry = now + LinkLife]
<1>1. /\ u \in DOMAIN users /\ links + 1 <= MaxLinks /\ Set(u, w) /\ links' = links + 1 /\ UNCHANGED now
      /\ asked' = asked \cup {[uid |-> u, link |-> links', at |-> now]}
  BY DEF Forgot, Exists
<1>2. /\ links + 1 \in Links /\ links <= links + 1 /\ now + LinkLife \in Nat
  BY <1>1, AccountsOK DEF TableOK, Links, Seconds
<1>3. users[u] \in User /\ users[u].changed <= now
  BY <1>1 DEF TableOK
<1>4. /\ w \in User /\ w.email = users[u].email /\ w.verified = users[u].verified
      /\ w.rtoken = links + 1 /\ w.rexpiry = now + LinkLife /\ w.changed = users[u].changed
  BY <1>2, <1>3 DEF User
<1> HIDE DEF w
<1>5. StayingAccount(u)
  BY <1>1, <1>4, SetRow DEF StayingAccount
<1> QED BY <1>1, <1>2, <1>3, <1>4, <1>5, RewrittenRow, SetRow

LEMMA ResetTable ==
  ASSUME TableOK, NEW u \in Uids, NEW link \in Links, Reset(u, link)
  PROVE  TableStep /\ u \in DOMAIN users /\ users'[u].rtoken = 0 /\ users'[u].changed = now
<1> DEFINE w == Consumed(users[u])
<1>1. u \in DOMAIN users /\ Set(u, w) /\ UNCHANGED <<now, links>>
  BY DEF Reset, Exists
<1>2. users[u] \in User /\ now \in Seconds
  BY <1>1 DEF TableOK
<1>3. /\ w \in User /\ w.email = users[u].email /\ w.verified = users[u].verified
      /\ w.rtoken = 0 /\ w.changed = now
  BY <1>2, ConsumedRow
<1> HIDE DEF w
<1>4. StayingAccount(u)
  BY <1>1, <1>3, SetRow DEF StayingAccount
<1>5. links' \in Links /\ links <= links' /\ w.changed <= now
  BY <1>1, <1>3, AccountsOK DEF TableOK, Links, Seconds
<1> QED BY <1>1, <1>3, <1>4, <1>5, RewrittenRow, SetRow

LEMMA StepTable ==
  ASSUME TableOK, [AccountsNext]_accountVars
  PROVE  TableStep
<1>1. ASSUME UNCHANGED <<users, links, now>> PROVE TableStep
  BY <1>1, UntouchedTable, AccountsOK DEF TableOK, Seconds
<1>2. ASSUME NEW u \in Uids, Login(u) PROVE TableStep
  BY <1>1, <1>2 DEF Login
<1>3. ASSUME NEW t \in issued, NEW written \in BOOLEAN, Logout(t, written) PROVE TableStep
  BY <1>1, <1>3 DEF Logout
<1>4. ASSUME NEW loaded \in BOOLEAN, Restart(loaded) PROVE TableStep
  BY <1>1, <1>4 DEF Restart
<1>5. ASSUME NEW m \in sending, MailSent(m) PROVE TableStep
  BY <1>1, <1>5 DEF MailSent
<1>6. CASE Tock
  <2>1. UNCHANGED <<users, links>> /\ now' \in Seconds /\ now <= now'
    BY <1>6, AccountsOK DEF Tock, TableOK, Seconds
  <2> QED BY <2>1, UntouchedTable
<1>7. CASE UNCHANGED accountVars
  BY <1>1, <1>7 DEF accountVars
<1> QED
  BY <1>2, <1>3, <1>4, <1>5, <1>6, <1>7, RegisterTable, MailFailsTable, VerifyTable, EmailTable,
     NameTable, PasswordTable, DeleteTable, ForgotTable, ResetTable DEF AccountsNext
LEMMA TableInit == AccountsInit => TableOK
BY AccountsOK DEF AccountsInit, TableOK, Links, Seconds

\* Tokens and mails are for accounts there have been.
LEMMA TableKept == ASSUME TableOK, [AccountsNext]_accountVars PROVE TableOK'
<1>0. TableStep /\ 1..links \subseteq 1..links'
  BY StepTable, AccountsOK DEF TableStep, TableOK, Links
<1>1. ASSUME issued' \subseteq issued, sending' \subseteq sending PROVE TableOK'
  BY <1>0, <1>1 DEF TableOK, TableStep
<1>2. ASSUME NEW u \in 1..links, issued' = issued \cup {[uid |-> u, iat |-> now]},
             sending' \subseteq sending
      PROVE  TableOK'
  <2>1. u \in Uids /\ [uid |-> u, iat |-> now] \in Token
    BY AccountsOK DEF TableOK, Links, Uids, Token
  <2> QED BY <1>0, <1>2, <2>1 DEF TableOK, TableStep
<1>3. ASSUME NEW m \in Mail, m.uid \in 1..links', sending' = sending \cup {m}, issued' = issued
      PROVE  TableOK'
  BY <1>0, <1>3 DEF TableOK, TableStep
<1>4. ASSUME NEW u \in Uids, Login(u) PROVE TableOK'
  <2>1. u \in 1..links
    BY <1>4 DEF Login, Exists, TableOK
  <2> QED BY <1>2, <1>4, <2>1 DEF Login
<1>5. ASSUME NEW name \in Names, NEW email \in Emails, Register(name, email) PROVE TableOK'
  <2> DEFINE m == [kind |-> "register", uid |-> links + 1, name |-> name, link |-> links + 1, to |-> email]
  <2>1. links' = links + 1 /\ links < MaxLinks /\ sending' = sending \cup {m} /\ issued' = issued
    BY <1>5 DEF Register
  <2>2. m \in Mail /\ m.uid \in 1..links'
    BY <2>1, AccountsOK DEF TableOK, Links, Uids, Mail
  <2> HIDE DEF m
  <2> QED BY <1>3, <2>1, <2>2
<1>6. ASSUME NEW m \in sending, NEW arrives \in BOOLEAN, MailFails(m, arrives) PROVE TableOK'
  <2>1. m.uid \in 1..links /\ sending' \subseteq sending
    BY <1>6 DEF MailFails, TableOK
  <2>2. issued' = issued \/ issued' = issued \cup {[uid |-> m.uid, iat |-> now]}
    BY <1>6 DEF MailFails
  <2> QED BY <1>1, <1>2, <2>1, <2>2
<1>7. ASSUME NEW u \in Uids, NEW email \in Emails \cup {NoEmail}, UpdateEmail(u, email) PROVE TableOK'
  <2> DEFINE link == IF email = NoEmail THEN 0 ELSE links + 1
             m == [kind |-> "change", uid |-> u, name |-> users[u].name, link |-> link, to |-> email]
  <2>1. /\ u \in DOMAIN users /\ link <= MaxLinks /\ issued' = issued
        /\ sending' = sending \/ sending' = sending \cup {m}
    BY <1>7 DEF UpdateEmail, Exists
  <2>2. users[u].name \in Names /\ link \in Links
    BY <2>1, AccountsOK DEF TableOK, User, Links
  <2>3. m \in Mail /\ m.uid \in 1..links'
    BY <1>0, <2>1, <2>2 DEF Mail, TableOK
  <2> HIDE DEF m
  <2> QED BY <1>1, <1>3, <2>1, <2>3
<1>8. ASSUME NEW u \in Uids, Forgot(u) PROVE TableOK'
  <2> DEFINE m == [kind |-> "forgot", uid |-> u, name |-> users[u].name, link |-> links + 1, to |-> users[u].email]
  <2>1. /\ u \in DOMAIN users /\ links + 1 <= MaxLinks /\ issued' = issued
        /\ sending' = sending \cup {m}
    BY <1>8 DEF Forgot, Exists
  <2>2. users[u].name \in Names /\ links + 1 \in Links /\ users[u].email \in Emails \cup {NoEmail}
    BY <2>1, AccountsOK DEF TableOK, User, Links
  <2>3. m \in Mail /\ m.uid \in 1..links'
    BY <1>0, <2>1, <2>2 DEF Mail, TableOK
  <2> HIDE DEF m
  <2> QED BY <1>3, <2>1, <2>3
<1>9. ASSUME NEW u \in Uids,
             \/ AdminVerify(u) \/ ChangePassword(u) \/ Delete(u)
             \/ \E m \in mailbox : Verify(u, m)
             \/ \E link \in Links : Reset(u, link)
             \/ \E name \in Names : UpdateUsername(u, name)
      PROVE  TableOK'
  BY <1>1, <1>9 DEF Verify, AdminVerify, ChangePassword, Delete, Reset, UpdateUsername
<1>10. CASE \/ \E t \in issued, written \in BOOLEAN : Logout(t, written)
            \/ \E m \in sending : MailSent(m)
            \/ \E loaded \in BOOLEAN : Restart(loaded)
            \/ Tock \/ UNCHANGED accountVars
  BY <1>1, <1>10 DEF Logout, MailSent, Restart, Tock, accountVars
<1> QED BY <1>4, <1>5, <1>6, <1>7, <1>8, <1>9, <1>10 DEF AccountsNext

(***************************************************************************)
(* Verified addresses                                                      *)
(***************************************************************************)

MailOK == \A m \in sending \cup mailbox : m.link \in 1..links

LEMMA MailKept ==
  ASSUME TableOK, MailOK, [AccountsNext]_accountVars
  PROVE  MailOK'
<1>0. 1..links \subseteq 1..links' /\ links \in Nat
  BY StepTable, AccountsOK DEF TableStep, TableOK, Links
<1>1. ASSUME sending' \subseteq sending, mailbox' = mailbox PROVE MailOK'
  BY <1>0, <1>1 DEF MailOK
<1>2. ASSUME NEW m \in sending, sending' \subseteq sending, mailbox' \subseteq mailbox \cup {m}
      PROVE  MailOK'
  BY <1>0, <1>2 DEF MailOK
<1>3. ASSUME NEW m, m.link = links + 1, links' = links + 1, sending' \subseteq sending \cup {m},
             mailbox' = mailbox
      PROVE  MailOK'
  BY <1>0, <1>3 DEF MailOK
<1>4. ASSUME NEW name \in Names, NEW email \in Emails, Register(name, email) PROVE MailOK'
  BY <1>3, <1>4 DEF Register
<1>5. ASSUME NEW u \in Uids, NEW email \in Emails \cup {NoEmail}, UpdateEmail(u, email) PROVE MailOK'
  <2>1. CASE email = NoEmail
    BY <1>1, <1>5, <2>1 DEF UpdateEmail
  <2>2. CASE email # NoEmail
    <3> DEFINE m == [kind |-> "change", uid |-> u, name |-> users[u].name, link |-> links + 1, to |-> email]
    <3>1. links + 1 # 0 /\ m.link = links + 1
      BY <1>0
    <3>2. links' = links + 1 /\ sending' \subseteq sending \cup {m} /\ mailbox' = mailbox
      BY <1>5, <2>2, <3>1 DEF UpdateEmail
    <3> HIDE DEF m
    <3> QED BY <1>3, <3>1, <3>2
  <2> QED BY <2>1, <2>2
<1>6. ASSUME NEW u \in Uids, Forgot(u) PROVE MailOK'
  BY <1>3, <1>6 DEF Forgot
<1>7. ASSUME NEW m \in sending, MailSent(m) \/ \E arrives \in BOOLEAN : MailFails(m, arrives) PROVE MailOK'
  BY <1>2, <1>7 DEF MailSent, MailFails
<1> QED
  BY <1>1, <1>4, <1>5, <1>6, <1>7 DEF AccountsNext, Login, Verify, AdminVerify, ChangePassword, Delete,
     Reset, UpdateUsername, Logout, Restart, Tock, accountVars, ghosts

\* The token an account waits for was sent to the address it has now.
Addressed ==
  \A u \in DOMAIN users :
    /\ users[u].vtoken <= links
    /\ \A m \in sending \cup mailbox : m.link = users[u].vtoken => m.to = users[u].email

\* What was proven or taken on trust stays so.
LEMMA TrustGrows ==
  ASSUME [AccountsNext]_accountVars
  PROVE  proven \subseteq proven' /\ waived \subseteq waived'
BY DEF AccountsNext, Login, Verify, AdminVerify, ChangePassword, Delete, Forgot, Reset, UpdateEmail,
       UpdateUsername, Register, Logout, MailSent, MailFails, Restart, Tock, accountVars, ghosts

AddressInv == TableOK /\ MailOK /\ Addressed /\ VerifiedIsProven

\* A row keeps its token and address, or has no token, or one of this step.
LEMMA AddressedKept ==
  ASSUME AddressInv, links' \in Nat, links <= links',
         \A m \in (sending \cup mailbox)' :
            m \in sending \cup mailbox \/ (m \in sending' /\ links' = links + 1 /\ m.link = links'),
         \A v \in DOMAIN users' :
            \/ users'[v].vtoken = 0
            \/ /\ v \in DOMAIN users
               /\ users'[v].vtoken = users[v].vtoken /\ users'[v].email = users[v].email
            \/ /\ links' = links + 1 /\ users'[v].vtoken = links'
               /\ \A m \in sending' : m.link = links' => m.to = users'[v].email
  PROVE  Addressed'
<1>0. links \in Nat
  BY AccountsOK DEF AddressInv, TableOK, Links
<1>1. \A m \in sending \cup mailbox : m.link \in 1..links
  BY DEF AddressInv, MailOK
<1> SUFFICES ASSUME NEW v \in DOMAIN users'
             PROVE  /\ users'[v].vtoken <= links'
                    /\ \A m \in (sending \cup mailbox)' : m.link = users'[v].vtoken => m.to = users'[v].email
  BY DEF Addressed
<1>2. CASE users'[v].vtoken = 0
  BY <1>0, <1>1, <1>2
<1>3. CASE /\ v \in DOMAIN users
           /\ users'[v].vtoken = users[v].vtoken /\ users'[v].email = users[v].email
  <2>1. users[v].vtoken \in Int
    BY <1>3, AccountsOK DEF AddressInv, TableOK, User, Links
  <2>2. /\ users[v].vtoken <= links
        /\ \A m \in sending \cup mailbox : m.link = users[v].vtoken => m.to = users[v].email
    BY <1>3 DEF AddressInv, Addressed
  <2> QED BY <1>0, <1>3, <2>1, <2>2
<1>4. CASE /\ links' = links + 1 /\ users'[v].vtoken = links'
           /\ \A m \in sending' : m.link = links' => m.to = users'[v].email
  BY <1>0, <1>1, <1>4
<1> QED BY <1>2, <1>3, <1>4

\* The three forms that send a mail.
LEMMA RegisterAddressed ==
  ASSUME AddressInv, NEW name \in Names, NEW email \in Emails, Register(name, email)
  PROVE  Addressed'
<1> DEFINE w == [name |-> name, email |-> email, verified |-> FALSE, vtoken |-> links + 1,
                 rtoken |-> 0, rexpiry |-> 0, changed |-> -1]
           n == [kind |-> "register", uid |-> links + 1, name |-> name, link |-> links + 1, to |-> email]
<1>0. links \in Nat /\ \A m \in sending : m.link # links + 1
  BY AccountsOK DEF AddressInv, TableOK, Links, MailOK
<1>1. /\ Set(links + 1, w) /\ links' = links + 1 /\ sending' = sending \cup {n} /\ mailbox' = mailbox
  BY DEF Register
<1>2. w.vtoken = links + 1 /\ w.email = email /\ n.link = links + 1 /\ n.to = email
  OBVIOUS
<1> HIDE DEF w, n
<1>3. /\ DOMAIN users' = DOMAIN users \cup {links + 1} /\ users'[links + 1] = w
      /\ \A v \in DOMAIN users : v # links + 1 => users'[v] = users[v]
  BY <1>1, SetRow
<1>4. \A m \in sending' : m.link = links' => m.to = email
  BY <1>0, <1>1, <1>2
<1> QED BY <1>0, <1>1, <1>2, <1>3, <1>4, AddressedKept

LEMMA EmailAddressed ==
  ASSUME AddressInv, NEW u \in Uids, NEW email \in Emails \cup {NoEmail}, UpdateEmail(u, email)
  PROVE  Addressed'
<1> DEFINE link == IF email = NoEmail THEN 0 ELSE links + 1
           w == Readdressed(users[u], email, link)
           n == [kind |-> "change", uid |-> u, name |-> users[u].name, link |-> link, to |-> email]
<1>0. links \in Nat /\ \A m \in sending : m.link # links + 1
  BY AccountsOK DEF AddressInv, TableOK, Links, MailOK
<1>1. /\ u \in DOMAIN users /\ Set(u, w) /\ mailbox' = mailbox
      /\ links' = IF link = 0 THEN links ELSE link
      /\ sending' = sending \/ (link # 0 /\ sending' = sending \cup {n})
  BY DEF UpdateEmail, Exists
<1>2. w.vtoken = link /\ w.email = email /\ n.link = link /\ n.to = email
  <2>1. users[u] \in User
    BY <1>1 DEF AddressInv, TableOK
  <2> HIDE DEF link
  <2> QED BY <2>1 DEF User, Readdressed
<1>3. link = 0 \/ link = links + 1
  OBVIOUS
<1> HIDE DEF w, n, link
<1>4. /\ DOMAIN users' = DOMAIN users /\ users'[u] = w
      /\ \A v \in DOMAIN users : v # u => users'[v] = users[v]
  BY <1>1, SetRow
<1>5. \A m \in sending' : m.link = links + 1 => m.to = email
  BY <1>0, <1>1, <1>2
<1> QED BY <1>0, <1>1, <1>2, <1>3, <1>4, <1>5, AddressedKept

LEMMA ForgotAddressed ==
  ASSUME AddressInv, NEW u \in Uids, Forgot(u)
  PROVE  Addressed'
<1> DEFINE w == [users[u] EXCEPT !.rtoken = links + 1, !.rexpiry = now + LinkLife]
           n == [kind |-> "forgot", uid |-> u, name |-> users[u].name, link |-> links + 1,
                 to |-> users[u].email]
<1>0. links \in Nat
  BY AccountsOK DEF AddressInv, TableOK, Links
<1>1. /\ u \in DOMAIN users /\ Set(u, w) /\ links' = links + 1 /\ mailbox' = mailbox
      /\ sending' = sending \cup {n}
  BY DEF Forgot, Exists
<1>2. w.vtoken = users[u].vtoken /\ w.email = users[u].email /\ n.link = links + 1
  <2>1. users[u] \in User
    BY <1>1 DEF AddressInv, TableOK
  <2> QED BY <2>1 DEF User
<1> HIDE DEF w, n
<1>3. /\ DOMAIN users' = DOMAIN users /\ users'[u] = w
      /\ \A v \in DOMAIN users : v # u => users'[v] = users[v]
  BY <1>1, SetRow
<1> QED BY <1>0, <1>1, <1>2, <1>3, AddressedKept

LEMMA AddressedStep ==
  ASSUME AddressInv, [AccountsNext]_accountVars
  PROVE  Addressed'
<1>0. links' \in Nat /\ links <= links'
  BY StepTable, AccountsOK DEF AddressInv, TableStep, Links
<1>1. ASSUME (sending \cup mailbox)' \subseteq sending \cup mailbox,
             \A v \in DOMAIN users' :
                \/ users'[v].vtoken = 0
                \/ /\ v \in DOMAIN users
                   /\ users'[v].vtoken = users[v].vtoken /\ users'[v].email = users[v].email
      PROVE  Addressed'
  BY <1>0, <1>1, AddressedKept
<1>2. ASSUME NEW u \in DOMAIN users, NEW w, Set(u, w), UNCHANGED <<sending, mailbox>>,
             w.vtoken = 0 \/ (w.vtoken = users[u].vtoken /\ w.email = users[u].email)
      PROVE  Addressed'
  <2>1. /\ DOMAIN users' = DOMAIN users /\ users'[u] = w
        /\ \A v \in DOMAIN users : v # u => users'[v] = users[v]
    BY <1>2, SetRow
  <2>2. (sending \cup mailbox)' \subseteq sending \cup mailbox
    BY <1>2
  <2>3. ASSUME NEW v \in DOMAIN users'
        PROVE  \/ users'[v].vtoken = 0
               \/ /\ v \in DOMAIN users
                  /\ users'[v].vtoken = users[v].vtoken /\ users'[v].email = users[v].email
    BY <1>2, <2>1
  <2> QED BY <1>1, <2>2, <2>3
<1>3. ASSUME NEW u \in Uids, AdminVerify(u) \/ \E m \in mailbox : Verify(u, m) PROVE Addressed'
  <2> DEFINE w == [users[u] EXCEPT !.verified = TRUE, !.vtoken = 0]
  <2>1. u \in DOMAIN users /\ Set(u, w) /\ UNCHANGED <<sending, mailbox>>
    BY <1>3 DEF AdminVerify, Verify, Exists
  <2>2. w.vtoken = 0
    BY <2>1 DEF AddressInv, TableOK, User
  <2> HIDE DEF w
  <2> QED BY <1>2, <2>1, <2>2
<1>4. ASSUME NEW u \in Uids, NEW name \in Names, UpdateUsername(u, name) PROVE Addressed'
  <2> DEFINE w == [users[u] EXCEPT !.name = name]
  <2>1. u \in DOMAIN users /\ Set(u, w) /\ UNCHANGED <<sending, mailbox>>
    BY <1>4 DEF UpdateUsername, Exists
  <2>2. w.vtoken = users[u].vtoken /\ w.email = users[u].email
    BY <2>1 DEF AddressInv, TableOK, User
  <2> HIDE DEF w
  <2> QED BY <1>2, <2>1, <2>2
<1>5. ASSUME NEW u \in Uids, ChangePassword(u) PROVE Addressed'
  <2> DEFINE w == [users[u] EXCEPT !.changed = now]
  <2>1. u \in DOMAIN users /\ Set(u, w) /\ UNCHANGED <<sending, mailbox>>
    BY <1>5 DEF ChangePassword, Exists
  <2>2. w.vtoken = users[u].vtoken /\ w.email = users[u].email
    BY <2>1 DEF AddressInv, TableOK, User
  <2> HIDE DEF w
  <2> QED BY <1>2, <2>1, <2>2
<1>6. ASSUME NEW u \in Uids, NEW link \in Links, Reset(u, link) PROVE Addressed'
  <2> DEFINE w == Consumed(users[u])
  <2>1. u \in DOMAIN users /\ Set(u, w) /\ UNCHANGED <<sending, mailbox>>
    BY <1>6 DEF Reset, Exists
  <2>2. w.vtoken = users[u].vtoken /\ w.email = users[u].email
    BY <2>1 DEF AddressInv, TableOK, User, Consumed
  <2> HIDE DEF w
  <2> QED BY <1>2, <2>1, <2>2
<1>7. ASSUME NEW u \in Uids, Delete(u) PROVE Addressed'
  <2>1. users' = [v \in DOMAIN users \ {u} |-> users[v]] /\ UNCHANGED <<sending, mailbox>>
    BY <1>7 DEF Delete
  <2> QED BY <1>1, <2>1
<1>8. ASSUME NEW m \in sending, NEW arrives \in BOOLEAN, MailFails(m, arrives) PROVE Addressed'
  <2>1. (sending \cup mailbox)' \subseteq sending \cup mailbox
    BY <1>8 DEF MailFails
  <2>2. CASE users' = users
    BY <1>1, <2>1, <2>2
  <2>3. CASE users' = ForceVerify(m.name)
    <3>1. ASSUME NEW v \in DOMAIN users'
          PROVE  v \in DOMAIN users /\ (users'[v].vtoken = 0 \/ users'[v] = users[v])
      <4>1. v \in DOMAIN users
        BY <2>3 DEF ForceVerify
      <4>2. users'[v] = users[v] \/ users'[v] = [users[v] EXCEPT !.verified = TRUE, !.vtoken = 0]
        BY <2>3, <4>1 DEF ForceVerify
      <4> QED BY <4>1, <4>2 DEF AddressInv, TableOK, User
    <3> QED BY <1>1, <2>1, <3>1
  <2> QED BY <1>8, <2>2, <2>3 DEF MailFails
<1>9. ASSUME NEW m \in sending, MailSent(m) PROVE Addressed'
  <2>1. users' = users /\ (sending \cup mailbox)' \subseteq sending \cup mailbox
    BY <1>9 DEF MailSent
  <2> QED BY <1>1, <2>1
<1>10. CASE \/ \E u \in Uids : Login(u)
            \/ \E t \in issued, written \in BOOLEAN : Logout(t, written)
            \/ \E loaded \in BOOLEAN : Restart(loaded)
            \/ Tock \/ UNCHANGED accountVars
  <2>1. users' = users /\ (sending \cup mailbox)' \subseteq sending \cup mailbox
    BY <1>10 DEF Login, Logout, Restart, Tock, accountVars
  <2> QED BY <1>1, <2>1
<1> QED BY <1>3, <1>4, <1>5, <1>6, <1>7, <1>8, <1>9, <1>10, RegisterAddressed, EmailAddressed,
           ForgotAddressed DEF AccountsNext

LEMMA ProvenStep ==
  ASSUME AddressInv, [AccountsNext]_accountVars
  PROVE  VerifiedIsProven'
<1> SUFFICES ASSUME NEW u \in DOMAIN users', users'[u].verified
             PROVE  <<u, users'[u].email>> \in proven' \cup waived'
  BY DEF VerifiedIsProven
<1>1. u \in DOMAIN users /\ StayingAccount(u)
  BY StepTable DEF TableStep, NewAccount, AddressInv
<1>2. CASE users[u].verified /\ users'[u].email = users[u].email
  BY <1>1, <1>2, TrustGrows DEF AddressInv, VerifiedIsProven
<1>3. ASSUME NEW m \in mailbox, m.link = users[u].vtoken, users'[u].email = users[u].email,
             <<u, m.to>> \in proven'
      PROVE  <<u, users'[u].email>> \in proven'
  <2>1. m.to = users[u].email
    BY <1>1, <1>3 DEF AddressInv, Addressed
  <2> QED BY <1>3, <2>1
<1> QED BY <1>1, <1>2, <1>3 DEF StayingAccount

(* update_email, verify_email_token, force_verify_email: an account's       *)
(* address counts as verified only if a link sent to this very address was  *)
(* followed, or it was taken on trust, in whatever order the mails arrive,  *)
(* fail and are followed, and names and addresses change hands.  Why a link *)
(* sent to an earlier address does no harm: the token an account waits for  *)
(* is in no mail but those to the address it has now.                       *)
THEOREM OnlyProvenAddresses == AccountsSpec => []VerifiedIsProven
<1>1. AccountsInit => AddressInv
  <2> SUFFICES ASSUME AccountsInit PROVE AddressInv
    OBVIOUS
  <2>1. DOMAIN users = {} /\ sending = {} /\ mailbox = {}
    BY DEF AccountsInit
  <2> QED BY <2>1, TableInit DEF AddressInv, MailOK, Addressed, VerifiedIsProven
<1>2. AddressInv /\ [AccountsNext]_accountVars => AddressInv'
  BY TableKept, MailKept, AddressedStep, ProvenStep DEF AddressInv
<1>3. AddressInv => VerifiedIsProven
  BY DEF AddressInv
<1> QED BY <1>1, <1>2, <1>3, PTL DEF AccountsSpec

(***************************************************************************)
(* Ended sessions                                                          *)
(***************************************************************************)

\* Why a token is refused: it is revoked, and was written down, until it is too
\* old; or its account is no more, or has a newer password.
Refused(t) ==
  \/ t \in saved /\ (t \in revoked \/ Exp(t) <= now)
  \/ ~Exists(t.uid)
  \/ Exists(t.uid) /\ t.iat < users[t.uid].changed

EndedInv == TableOK /\ ended \subseteq issued /\ \A t \in ended : Refused(t)

LEMMA EndedInit == AccountsInit => EndedInv
<1>1. AccountsInit => ended = {}
  BY DEF AccountsInit
<1> QED BY <1>1, TableInit DEF EndedInv
\* A missing account stays missing, and passwords do not grow older.
LEMMA LockedStays ==
  ASSUME EndedInv, [AccountsNext]_accountVars, NEW t \in issued,
         ~Exists(t.uid) \/ (Exists(t.uid) /\ t.iat < users[t.uid].changed)
  PROVE  Refused(t)'
<1>1. TableStep /\ t.uid \in 1..links /\ t.iat \in Int /\ now \in Int /\ links \in Int
  BY StepTable, AccountsOK DEF EndedInv, TableOK, Token, Seconds, Links
<1>2. CASE t.uid \notin DOMAIN users'
  BY <1>2 DEF Refused, Exists
<1>3. CASE t.uid \in DOMAIN users'
  <2>1. t.uid \in DOMAIN users /\ StayingAccount(t.uid)
    BY <1>1, <1>3 DEF TableStep, NewAccount
  <2>2. t.iat < users[t.uid].changed /\ users[t.uid].changed <= now /\ users[t.uid].changed \in Int
    BY <2>1, AccountsOK DEF Exists, EndedInv, TableOK, User, Seconds
  <2>3. t.iat < users'[t.uid].changed
    BY <1>1, <2>1, <2>2 DEF StayingAccount
  <2> QED BY <1>3, <2>3 DEF Refused, Exists
<1> QED BY <1>2, <1>3

\* A revocation that was written down is there after a restart, or too old.
LEMMA RevokedStays ==
  ASSUME EndedInv, [AccountsNext]_accountVars, NEW t \in issued, t \in ended', Refused(t)
  PROVE  Refused(t)'
<1>0. TableStep
  BY StepTable DEF EndedInv
<1>1. CASE ~Exists(t.uid) \/ (Exists(t.uid) /\ t.iat < users[t.uid].changed)
  BY <1>1, LockedStays
<1>2. CASE t \in saved /\ (t \in revoked \/ Exp(t) <= now)
  <2>1. saved \subseteq saved'
    BY DEF AccountsNext, Login, Verify, AdminVerify, ChangePassword, Delete, Forgot, Reset, UpdateEmail,
       UpdateUsername, Register, Logout, MailSent, MailFails, Restart, Tock, accountVars, ghosts
  <2>2. Exp(t) \in Int /\ now \in Int /\ now' \in Int /\ now <= now'
    BY <1>0, AccountsOK DEF TableStep, EndedInv, TableOK, Token, Seconds, Exp
  <2>3. Exp(t) <= now => Refused(t)'
    BY <1>2, <2>1, <2>2 DEF Refused, Exp
  <2>4. t \in revoked' => Refused(t)'
    BY <1>2, <2>1 DEF Refused
  <2>5. ASSUME NEW loaded \in BOOLEAN, Restart(loaded) PROVE Refused(t)'
    <3>1. CASE loaded
      <4>1. revoked' = {s \in saved : Exp(s) > now}
        BY <2>5, <3>1 DEF Restart, Reload
      <4> QED BY <1>2, <2>2, <2>3, <2>4, <4>1
    <3>2. CASE ~loaded
      <4>1. ended' = {s \in ended : ~Exists(s.uid) \/ s.iat < users[s.uid].changed}
        BY <2>5, <3>2 DEF Restart
      <4>2. ~Exists(t.uid) \/ (Exists(t.uid) /\ t.iat < users[t.uid].changed)
        BY <4>1
      <4> QED BY <4>2, LockedStays
    <3> QED BY <3>1, <3>2
  <2>6. revoked \subseteq revoked' \/ \E loaded \in BOOLEAN : Restart(loaded)
    BY DEF AccountsNext, Login, Verify, AdminVerify, ChangePassword, Delete, Forgot, Reset, UpdateEmail,
       UpdateUsername, Register, Logout, MailSent, MailFails, Tock, accountVars, ghosts
  <2> QED BY <1>2, <2>3, <2>4, <2>5, <2>6
<1> QED BY <1>1, <1>2 DEF Refused

LEMMA EndedStep ==
  ASSUME EndedInv, [AccountsNext]_accountVars
  PROVE  EndedInv'
<1>0. TableOK' /\ TableStep /\ now \in Int
  BY TableKept, StepTable, AccountsOK DEF EndedInv, TableOK, Seconds
<1>1. issued \subseteq issued'
  BY DEF AccountsNext, Login, Verify, AdminVerify, ChangePassword, Delete, Forgot, Reset, UpdateEmail,
     UpdateUsername, Register, Logout, MailSent, MailFails, Restart, Tock, accountVars, ghosts
<1>2. ASSUME NEW E \in SUBSET issued, ended' \subseteq ended \cup E, \A t \in E : Refused(t)'
      PROVE  EndedInv'
  <2>1. ended' \subseteq issued'
    BY <1>1, <1>2 DEF EndedInv
  <2>2. ASSUME NEW t \in ended' PROVE Refused(t)'
    BY <1>2, <2>2, RevokedStays DEF EndedInv
  <2> QED BY <1>0, <2>1, <2>2 DEF EndedInv
<1>3. ASSUME ended' \subseteq ended PROVE EndedInv'
  <2>1. /\ {} \in SUBSET issued /\ ended' \subseteq ended \cup {}
        /\ \A t \in {} : Refused(t)'
    BY <1>3
  <2> QED BY <1>2, <2>1
<1>4. ASSUME NEW t \in issued, NEW written \in BOOLEAN, Logout(t, written) PROVE EndedInv'
  <2>1. CASE written
    <3>1. ended' = ended \cup {t} /\ t \in saved' /\ t \in revoked'
      BY <1>4, <2>1 DEF Logout
    <3>2. Refused(t)'
      BY <3>1 DEF Refused
    <3>3. /\ {t} \in SUBSET issued /\ ended' \subseteq ended \cup {t}
          /\ \A s \in {t} : Refused(s)'
      BY <3>1, <3>2
    <3> QED BY <1>2, <3>3
  <2>2. CASE ~written
    BY <1>3, <1>4, <2>2 DEF Logout
  <2> QED BY <2>1, <2>2
<1>5. ASSUME NEW u \in Uids, ended' = ended \cup EndedByPassword(u), u \in DOMAIN users',
             users'[u].changed = now
      PROVE  EndedInv'
  <2>1. ASSUME NEW t \in EndedByPassword(u) PROVE Refused(t)'
    BY <1>5, <2>1 DEF EndedByPassword, TokensOf, Refused, Exists
  <2> QED BY <1>2, <1>5, <2>1 DEF EndedByPassword, TokensOf
<1>6. ASSUME NEW u \in Uids, ChangePassword(u) PROVE EndedInv'
  <2>1. u \in DOMAIN users /\ Set(u, [users[u] EXCEPT !.changed = now])
        /\ ended' = ended \cup EndedByPassword(u)
    BY <1>6 DEF ChangePassword, Exists
  <2>2. users[u] \in User /\ [users[u] EXCEPT !.changed = now].changed = now
    BY <2>1 DEF EndedInv, TableOK, User
  <2> QED BY <1>5, <2>1, <2>2, SetRow
<1>7. ASSUME NEW u \in Uids, NEW link \in Links, Reset(u, link) PROVE EndedInv'
  <2>1. u \in DOMAIN users /\ users'[u].changed = now /\ u \in DOMAIN users'
    BY <1>7, ResetTable, SetRow DEF EndedInv, Reset
  <2> QED BY <1>5, <1>7, <2>1 DEF Reset
<1>8. ASSUME NEW u \in Uids, Delete(u) PROVE EndedInv'
  <2>1. ended' = ended \cup TokensOf(u) /\ u \notin DOMAIN users'
    BY <1>8 DEF Delete
  <2>2. ASSUME NEW t \in TokensOf(u) PROVE Refused(t)'
    BY <2>1, <2>2 DEF TokensOf, Refused, Exists
  <2> QED BY <1>2, <2>1, <2>2 DEF TokensOf
<1> QED
  BY <1>3, <1>4, <1>6, <1>7, <1>8 DEF AccountsNext, Login, Verify, AdminVerify, Forgot, UpdateEmail,
     UpdateUsername, Register, MailSent, MailFails, Restart, Tock, accountVars, ghosts

(* verify_token: a session ended by a logout that was written down, by a    *)
(* new password or with its account is not accepted before the last second  *)
(* of its token, whatever restarts of the server come in between.           *)
THEOREM EndedForGood == AccountsSpec => []EndedStaysEnded
<1>1. EndedInv => EndedStaysEnded
  <2> SUFFICES ASSUME EndedInv, NEW t \in ended, Accepts(t)
               PROVE  now >= Exp(t)
    BY DEF EndedStaysEnded
  <2>1. Refused(t) /\ Exp(t) \in Int /\ now \in Int
    BY AccountsOK DEF EndedInv, TableOK, Token, Seconds, Exp
  <2>2. Exists(t.uid) /\ t.iat >= users[t.uid].changed
        /\ t.iat \in Int /\ users[t.uid].changed \in Int
    BY AccountsOK DEF Accepts, Exists, EndedInv, TableOK, Token, User, Seconds
  <2>3. t \notin {r \in revoked : Exp(r) > now}
    BY DEF Accepts
  <2> QED BY <2>1, <2>2, <2>3 DEF Refused
<1> QED
  BY EndedInit, EndedStep, <1>1, PTL DEF AccountsSpec
(***************************************************************************)
(* Reset links                                                             *)
(***************************************************************************)

\* No two links are alike, and the one an account has is the last it asked for.
AskedOK ==
  /\ \A a \in asked : a.link \in 1..links
  /\ \A a, b \in asked : a.link = b.link => a = b
  /\ \A u \in DOMAIN users : users[u].rtoken # 0 =>
       /\ \E a \in asked : a.uid = u /\ a.link = users[u].rtoken /\ users[u].rexpiry = a.at + LinkLife
       /\ \A a \in asked : a.uid = u => a.link <= users[u].rtoken

\* No account has a link that was used.
UsedOK ==
  /\ \A r \in resets : r.link \in 1..r.links /\ r.links \in 1..links
  /\ \A r \in resets, u \in DOMAIN users : users[u].rtoken # r.link

LinkInv == TableOK /\ MailOK /\ AskedOK /\ UsedOK /\ LinkOnce

LEMMA LinkInit == AccountsInit => LinkInv
<1> SUFFICES ASSUME AccountsInit PROVE LinkInv
  OBVIOUS
<1>1. DOMAIN users = {} /\ mailbox = {} /\ sending = {} /\ asked = {} /\ resets = {}
  BY DEF AccountsInit
<1> QED BY <1>1, TableInit DEF LinkInv, MailOK, AskedOK, UsedOK, LinkOnce

LEMMA OtherLinks ==
  ASSUME LinkInv, TableStep, asked' = asked, resets' = resets
  PROVE  AskedOK' /\ UsedOK' /\ LinkOnce'
<1>0. links \in Nat /\ links' \in Nat /\ links <= links'
  BY AccountsOK DEF TableStep, LinkInv, TableOK, Links
<1>1. ASSUME NEW u \in DOMAIN users'
      PROVE  \/ users'[u].rtoken = 0
             \/ /\ u \in DOMAIN users /\ users'[u].rtoken = users[u].rtoken
                /\ users'[u].rexpiry = users[u].rexpiry
  <2>1. CASE NewAccount(u)
    BY <2>1 DEF NewAccount
  <2>2. CASE u \in DOMAIN users /\ StayingAccount(u)
    <3>1. [uid |-> u, link |-> links', at |-> now] \in asked => links' \in 1..links
      BY DEF LinkInv, AskedOK
    <3> QED BY <1>0, <2>2, <3>1 DEF StayingAccount
  <2> QED BY <2>1, <2>2 DEF TableStep
<1>2. AskedOK'
  BY <1>0, <1>1 DEF LinkInv, AskedOK
<1>3. UsedOK'
  BY <1>0, <1>1 DEF LinkInv, UsedOK
<1>4. LinkOnce'
  BY DEF LinkInv, LinkOnce
<1> QED BY <1>2, <1>3, <1>4

LEMMA ForgotLinks ==
  ASSUME LinkInv, NEW u \in Uids, Forgot(u)
  PROVE  AskedOK' /\ UsedOK' /\ LinkOnce'
<1> DEFINE b == [uid |-> u, link |-> links + 1, at |-> now]
<1>0. links \in Nat
  BY AccountsOK DEF LinkInv, TableOK, Links
<1>1. links' = links + 1 /\ asked' = asked \cup {b} /\ resets' = resets
  BY DEF Forgot
<1>2. /\ DOMAIN users' = DOMAIN users /\ u \in DOMAIN users /\ users'[u].rtoken = links + 1
      /\ users'[u].rexpiry = now + LinkLife
      /\ \A v \in DOMAIN users : v # u => users'[v] = users[v]
  BY ForgotTable DEF LinkInv
<1>3. b.uid = u /\ b.link = links + 1 /\ b.at = now
  OBVIOUS
<1> HIDE DEF b
<1>4. \A a \in asked : a.link \in 1..links
  BY DEF LinkInv, AskedOK
<1>5. \A a \in asked' : a.link \in 1..links'
  BY <1>0, <1>1, <1>3, <1>4
<1>6. \A a, c \in asked' : a.link = c.link => a = c
  BY <1>0, <1>1, <1>3, <1>4 DEF LinkInv, AskedOK
<1>7. ASSUME NEW v \in DOMAIN users', users'[v].rtoken # 0
      PROVE  /\ \E a \in asked' : a.uid = v /\ a.link = users'[v].rtoken /\ users'[v].rexpiry = a.at + LinkLife
             /\ \A a \in asked' : a.uid = v => a.link <= users'[v].rtoken
  <2>1. CASE v = u
    BY <1>0, <1>1, <1>2, <1>3, <1>4, <2>1
  <2>2. CASE v # u
    BY <1>1, <1>2, <1>3, <1>7, <2>2 DEF LinkInv, AskedOK
  <2> QED BY <2>1, <2>2
<1>8. \A r \in resets : r.link \in 1..r.links /\ r.links \in 1..links
  BY DEF LinkInv, UsedOK
<1>9. UsedOK'
  BY <1>0, <1>1, <1>2, <1>8 DEF LinkInv, UsedOK
<1>10. LinkOnce'
  BY <1>0, <1>1, <1>3, <1>8 DEF LinkInv, LinkOnce
<1> QED BY <1>5, <1>6, <1>7, <1>9, <1>10 DEF AskedOK

LEMMA ResetLinks ==
  ASSUME LinkInv, NEW u \in Uids, NEW link \in Links, Reset(u, link)
  PROVE  AskedOK' /\ UsedOK' /\ LinkOnce'
<1> DEFINE q == [uid |-> u, link |-> link, at |-> now, links |-> links, n |-> Cardinality(resets)]
<1>0. links \in Nat /\ now \in Int
  BY AccountsOK DEF LinkInv, TableOK, Links, Seconds
<1>1. /\ u \in DOMAIN users /\ users[u].rtoken = link /\ users[u].rexpiry > now /\ link \in 1..links
      /\ asked' = asked /\ links' = links /\ resets' = resets \cup {q}
  BY DEF Reset, Exists, LinkInv, MailOK, Arrived
<1>2. /\ DOMAIN users' = DOMAIN users /\ users'[u].rtoken = 0
      /\ \A v \in DOMAIN users : v # u => users'[v] = users[v]
  <2>1. TableOK /\ Set(u, Consumed(users[u]))
    BY DEF LinkInv, Reset
  <2>2. users'[u].rtoken = 0
    BY <2>1, ResetTable
  <2> QED BY <1>1, <2>1, <2>2, SetRow
<1>3. q.uid = u /\ q.link = link /\ q.at = now /\ q.links = links
  OBVIOUS
<1> HIDE DEF q
<1>4. AskedOK'
  BY <1>1, <1>2 DEF LinkInv, AskedOK
<1>5. PICK a \in asked : a.uid = u /\ a.link = link /\ users[u].rexpiry = a.at + LinkLife
  BY <1>0, <1>1 DEF LinkInv, AskedOK
<1>6. \A v \in DOMAIN users : v # u => users[v].rtoken # link
  BY <1>0, <1>1, <1>5 DEF LinkInv, AskedOK
<1>7. UsedOK'
  BY <1>0, <1>1, <1>2, <1>3, <1>6 DEF LinkInv, UsedOK
<1>8. \A r \in resets : r.link # link
  BY <1>1 DEF LinkInv, UsedOK
<1>9. ASSUME NEW r \in resets'
      PROVE  /\ \A s \in resets' : s # r => s.link # r.link
             /\ \E c \in asked' : c.uid = r.uid /\ c.link = r.link /\ r.at < c.at + LinkLife
             /\ \A c \in asked' : c.uid = r.uid /\ c.link <= r.links => c.link <= r.link
  <2>1. CASE r \in resets
    BY <1>1, <1>3, <1>8, <2>1 DEF LinkInv, LinkOnce
  <2>2. CASE r = q
    <3>1. \A c \in asked : c.uid = u => c.link <= link
      BY <1>0, <1>1 DEF LinkInv, AskedOK
    <3> QED BY <1>0, <1>1, <1>3, <1>5, <1>8, <2>2, <3>1
  <2> QED BY <1>1, <2>1, <2>2
<1> QED BY <1>4, <1>7, <1>9 DEF LinkOnce

LEMMA LinkStep ==
  ASSUME LinkInv, [AccountsNext]_accountVars
  PROVE  LinkInv'
<1>1. TableOK' /\ MailOK' /\ TableStep
  BY TableKept, MailKept, StepTable DEF LinkInv
<1>2. ASSUME NEW u \in Uids, Forgot(u) PROVE LinkInv'
  BY <1>1, <1>2, ForgotLinks DEF LinkInv
<1>3. ASSUME NEW u \in Uids, NEW link \in Links, Reset(u, link) PROVE LinkInv'
  BY <1>1, <1>3, ResetLinks DEF LinkInv
<1>4. ASSUME asked' = asked, resets' = resets PROVE LinkInv'
  BY <1>1, <1>4, OtherLinks DEF LinkInv
<1> QED
  BY <1>2, <1>3, <1>4 DEF AccountsNext, Login, Verify, AdminVerify, ChangePassword, Delete, UpdateEmail,
     UpdateUsername, Register, Logout, MailSent, MailFails, Restart, Tock, accountVars, ghosts

(* consume_reset_token: a link changes one password once, before it         *)
(* expires, and never after a newer one was asked for, however many links   *)
(* are asked for, by whom, and in whatever order their mails arrive.        *)
THEOREM LinksUsedOnce == AccountsSpec => []LinkOnce
<1>1. LinkInv => LinkOnce
  BY DEF LinkInv
<1> QED
  BY LinkInit, LinkStep, <1>1, PTL DEF AccountsSpec

(***************************************************************************)
(* Who registered gets in                                                  *)
(***************************************************************************)

\* Knocks at the door and is not let in.
Knocking(u) == u \notin stranded /\ ~CountsVerified(u)

\* Has no session, has not changed its name since, and its mail is here or comes.
Expected(u) ==
  /\ TokensOf(u) = {}
  /\ \A m \in sending : m.kind = "register" /\ m.uid = u => m.name = users[u].name
  /\ \/ users[u].vtoken \in Arrived
     \/ \E m \in sending : m.kind = "register" /\ m.uid = u /\ m.link = users[u].vtoken

DoorInv == TableOK /\ (mailOn => \A u \in DOMAIN users : Knocking(u) => Expected(u))

\* Whoever has a session is not in front of the door.
LEMMA InsideKnowsTheDoor ==
  ASSUME DoorInv, mailOn, NEW u \in DOMAIN users, SignedIn(u)
  PROVE  ~Knocking(u)
BY DEF DoorInv, SignedIn, Expected, TokensOf

\* An account is left alone: its row, its sessions, and its mail unless it arrived.
Alone(u) ==
  /\ u \in DOMAIN users
  /\ users'[u].name = users[u].name /\ users'[u].verified = users[u].verified
  /\ users'[u].vtoken = users[u].vtoken
  /\ \A t \in issued' : t.uid = u => t \in issued
  /\ \A m \in sending' : m.kind = "register" /\ m.uid = u => m \in sending
  /\ \A m \in sending : m.kind = "register" /\ m.uid = u => m \in sending' \/ m.link \in Arrived'

LEMMA AloneStep ==
  ASSUME DoorInv, mailOn, NEW u, Alone(u), stranded \subseteq stranded', mailbox \subseteq mailbox',
         Knocking(u)'
  PROVE  Expected(u)'
<1>1. Knocking(u) /\ u \in DOMAIN users
  BY DEF Alone, Knocking, CountsVerified
<1>2. Expected(u)
  BY <1>1 DEF DoorInv
<1>3. TokensOf(u)' = {}
  BY <1>2 DEF Alone, Expected, TokensOf
<1>4. \A m \in sending' : m.kind = "register" /\ m.uid = u => m.name = users'[u].name
  BY <1>2 DEF Alone, Expected
<1>5. \/ users'[u].vtoken \in Arrived'
      \/ \E m \in sending' : m.kind = "register" /\ m.uid = u /\ m.link = users'[u].vtoken
  BY <1>2 DEF Alone, Expected, Arrived
<1> QED BY <1>3, <1>4, <1>5 DEF Expected

\* One account's row is rewritten and its mail at most replaced by a change of address.
LEMMA OthersAlone ==
  ASSUME NEW u, NEW w, Set(u, w), issued' = issued, mailbox' = mailbox,
         sending \subseteq sending', \A m \in sending' : m.kind = "register" => m \in sending,
         NEW v \in DOMAIN users, v # u
  PROVE  Alone(v)
BY SetRow DEF Alone

\* The row of u keeps its name and its standing.
LEMMA SameStanding ==
  ASSUME NEW u \in DOMAIN users, NEW w, Set(u, w), issued' = issued, mailbox' = mailbox,
         sending \subseteq sending', \A m \in sending' : m.kind = "register" => m \in sending,
         w.name = users[u].name, w.verified = users[u].verified, w.vtoken = users[u].vtoken,
         NEW v \in DOMAIN users'
  PROVE  Alone(v)
<1>1. DOMAIN users' = DOMAIN users /\ users'[u] = w
  BY SetRow
<1>2. CASE v = u
  BY <1>1, <1>2 DEF Alone
<1>3. CASE v # u
  BY <1>1, <1>3, OthersAlone
<1> QED BY <1>2, <1>3

Door == \A u \in DOMAIN users' : Knocking(u)' => Expected(u)'

LEMMA RegisterDoor ==
  ASSUME DoorInv, mailOn, NEW name \in Names, NEW email \in Emails, Register(name, email)
  PROVE  Door
<1>0. PICK u : u = links + 1
  OBVIOUS
<1> DEFINE w == [name |-> name, email |-> email, verified |-> FALSE, vtoken |-> u,
                 rtoken |-> 0, rexpiry |-> 0, changed |-> -1]
           n == [kind |-> "register", uid |-> u, name |-> name, link |-> u, to |-> email]
<1>1. /\ Set(u, w) /\ sending' = sending \cup {n} /\ UNCHANGED <<issued, mailbox, stranded>>
  BY <1>0 DEF Register, ghosts
<1>2. n.kind = "register" /\ n.uid = u /\ n.name = name /\ n.link = u /\ w.name = name /\ w.vtoken = u
  OBVIOUS
<1>3. /\ \A v \in DOMAIN users : v # u
      /\ \A t \in issued : t.uid # u
      /\ \A m \in sending : m.uid # u
  BY <1>0, AccountsOK DEF DoorInv, TableOK, Links
<1> HIDE DEF w, n
<1>4. /\ DOMAIN users' = DOMAIN users \cup {u} /\ users'[u] = w
      /\ \A v \in DOMAIN users : v # u => users'[v] = users[v]
  BY <1>1, SetRow
<1>5. ASSUME NEW v \in DOMAIN users PROVE Alone(v)
  BY <1>1, <1>2, <1>3, <1>4 DEF Alone
<1>6. Expected(u)'
  <2>1. TokensOf(u)' = {}
    BY <1>1, <1>3 DEF TokensOf
  <2>2. \A m \in sending' : m.kind = "register" /\ m.uid = u => m.name = users'[u].name
    BY <1>1, <1>2, <1>3, <1>4
  <2>3. \E m \in sending' : m.kind = "register" /\ m.uid = u /\ m.link = users'[u].vtoken
    BY <1>1, <1>2, <1>4
  <2> QED BY <2>1, <2>2, <2>3 DEF Expected
<1> QED BY <1>1, <1>4, <1>5, <1>6, AloneStep DEF Door

LEMMA MailSentDoor ==
  ASSUME DoorInv, mailOn, NEW m \in sending, MailSent(m)
  PROVE  Door
<1>1. /\ sending' = sending \ {m} /\ mailbox' = mailbox \cup {m}
      /\ UNCHANGED <<users, issued, stranded>>
  BY DEF MailSent, ghosts
<1>2. ASSUME NEW v \in DOMAIN users' PROVE Alone(v)
  BY <1>1 DEF Alone, Arrived
<1> QED BY <1>1, <1>2, AloneStep DEF Door

LEMMA MailFailsDoor ==
  ASSUME DoorInv, mailOn, NEW m \in sending, NEW arrives \in BOOLEAN, MailFails(m, arrives)
  PROVE  Door
<1>0. /\ sending' = sending \ {m} /\ mailbox \subseteq mailbox' /\ UNCHANGED stranded
  BY DEF MailFails
<1>1. CASE m.kind # "register"
  <2>1. users' = users /\ issued' = issued
    BY <1>1 DEF MailFails
  <2>2. ASSUME NEW v \in DOMAIN users' PROVE Alone(v)
    BY <1>0, <1>1, <2>1 DEF Alone
  <2> QED BY <1>0, <2>2, AloneStep DEF Door
<1>2. CASE m.kind = "register"
  <2>1. users' = ForceVerify(m.name) /\ issued' = issued \cup {[uid |-> m.uid, iat |-> now]}
    BY <1>2 DEF MailFails
  <2>2. DOMAIN users' = DOMAIN users
    BY <2>1 DEF ForceVerify
  <2>3. ASSUME NEW v \in DOMAIN users, users[v].name = m.name PROVE ~Knocking(v)'
    <3>1. users'[v] = [users[v] EXCEPT !.verified = TRUE, !.vtoken = 0]
      BY <2>1, <2>3 DEF ForceVerify
    <3>2. users'[v].verified
      BY <3>1 DEF DoorInv, TableOK, User
    <3> QED BY <3>2 DEF Knocking, CountsVerified
  <2>4. ASSUME NEW v \in DOMAIN users, users[v].name # m.name, m.uid # v PROVE Alone(v)
    <3>1. users'[v] = users[v]
      BY <2>1, <2>4 DEF ForceVerify
    <3> QED BY <1>0, <2>1, <2>4, <3>1 DEF Alone
  <2>5. ASSUME NEW v \in DOMAIN users, users[v].name # m.name, m.uid = v PROVE ~Knocking(v)'
    <3>1. users'[v] = users[v]
      BY <2>1, <2>5 DEF ForceVerify
    <3>2. ~Knocking(v)
      BY <1>2, <2>5 DEF DoorInv, Expected
    <3> QED BY <1>0, <3>1, <3>2 DEF Knocking, CountsVerified
  <2> QED BY <1>0, <2>2, <2>3, <2>4, <2>5, AloneStep DEF Door
<1> QED BY <1>1, <1>2

LEMMA VerifyDoor ==
  ASSUME DoorInv, mailOn, NEW u \in Uids, AdminVerify(u) \/ \E m \in mailbox : Verify(u, m)
  PROVE  Door
<1> DEFINE w == [users[u] EXCEPT !.verified = TRUE, !.vtoken = 0]
<1>1. u \in DOMAIN users /\ Set(u, w) /\ UNCHANGED <<sending, mailbox, issued, stranded>>
  BY DEF Verify, AdminVerify, Exists
<1>2. w.verified
  BY <1>1 DEF DoorInv, TableOK, User
<1> HIDE DEF w
<1>3. DOMAIN users' = DOMAIN users /\ ~Knocking(u)'
  BY <1>1, <1>2, SetRow DEF Knocking, CountsVerified
<1>4. ASSUME NEW v \in DOMAIN users', v # u PROVE Alone(v)
  BY <1>1, <1>3, <1>4, OthersAlone
<1> QED BY <1>1, <1>3, <1>4, AloneStep DEF Door

LEMMA EmailDoor ==
  ASSUME DoorInv, mailOn, NEW u \in Uids, NEW email \in Emails \cup {NoEmail}, UpdateEmail(u, email)
  PROVE  Door
<1> DEFINE link == IF email = NoEmail THEN 0 ELSE links + 1
           w == Readdressed(users[u], email, link)
           n == [kind |-> "change", uid |-> u, name |-> users[u].name, link |-> link, to |-> email]
<1>1. /\ u \in DOMAIN users /\ Set(u, w) /\ UNCHANGED <<mailbox, issued>>
      /\ stranded' = stranded \cup {u} /\ (sending' = sending \/ sending' = sending \cup {n})
  BY DEF UpdateEmail, Exists
<1>2. n.kind # "register"
  OBVIOUS
<1> HIDE DEF w, n, link
<1>3. DOMAIN users' = DOMAIN users /\ ~Knocking(u)'
  BY <1>1, SetRow DEF Knocking
<1>4. ASSUME NEW v \in DOMAIN users', v # u PROVE Alone(v)
  BY <1>1, <1>2, <1>3, <1>4, OthersAlone
<1> QED BY <1>1, <1>3, <1>4, AloneStep DEF Door

\* Only who is signed in changes name, and so nobody whose mail goes by the old one.
LEMMA NameDoor ==
  ASSUME DoorInv, mailOn, NEW u \in Uids, NEW name \in Names, UpdateUsername(u, name)
  PROVE  Door
<1> DEFINE w == [users[u] EXCEPT !.name = name]
<1>1. u \in DOMAIN users /\ Set(u, w) /\ SignedIn(u) /\ UNCHANGED <<sending, mailbox, issued, stranded>>
  BY DEF UpdateUsername, Exists, ghosts
<1>2. w.verified = users[u].verified /\ w.vtoken = users[u].vtoken
  BY <1>1 DEF DoorInv, TableOK, User
<1> HIDE DEF w
<1>3. DOMAIN users' = DOMAIN users /\ users'[u] = w
  BY <1>1, SetRow
<1>4. ~Knocking(u)'
  BY <1>1, <1>2, <1>3, InsideKnowsTheDoor DEF Knocking, CountsVerified
<1>5. ASSUME NEW v \in DOMAIN users', v # u PROVE Alone(v)
  BY <1>1, <1>3, <1>5, OthersAlone
<1> QED BY <1>1, <1>4, <1>5, AloneStep DEF Door

LEMMA PasswordDoor ==
  ASSUME DoorInv, mailOn, NEW u \in Uids, ChangePassword(u) \/ \E link \in Links : Reset(u, link)
  PROVE  Door
<1>1. PICK w : /\ u \in DOMAIN users /\ Set(u, w) /\ UNCHANGED <<sending, mailbox, issued, stranded>>
               /\ w.name = users[u].name /\ w.verified = users[u].verified /\ w.vtoken = users[u].vtoken
  <2>1. u \in DOMAIN users /\ UNCHANGED <<sending, mailbox, issued, stranded>>
    BY DEF ChangePassword, Reset, Exists
  <2>2. users[u] \in User
    BY <2>1 DEF DoorInv, TableOK
  <2>3. CASE ChangePassword(u)
    <3> DEFINE w == [users[u] EXCEPT !.changed = now]
    <3>1. Set(u, w)
      BY <2>3 DEF ChangePassword
    <3>2. w.name = users[u].name /\ w.verified = users[u].verified /\ w.vtoken = users[u].vtoken
      BY <2>2 DEF User
    <3> HIDE DEF w
    <3> QED BY <2>1, <3>1, <3>2
  <2>4. CASE \E link \in Links : Reset(u, link)
    <3> DEFINE w == Consumed(users[u])
    <3>1. Set(u, w)
      BY <2>4 DEF Reset
    <3>2. w.name = users[u].name /\ w.verified = users[u].verified /\ w.vtoken = users[u].vtoken
      BY <2>2 DEF User, Consumed
    <3> HIDE DEF w
    <3> QED BY <2>1, <3>1, <3>2
  <2> QED BY <2>3, <2>4
<1>2. ASSUME NEW v \in DOMAIN users' PROVE Alone(v)
  BY <1>1, SameStanding
<1> QED BY <1>1, <1>2, AloneStep DEF Door

LEMMA ForgotDoor ==
  ASSUME DoorInv, mailOn, NEW u \in Uids, Forgot(u)
  PROVE  Door
<1> DEFINE w == [users[u] EXCEPT !.rtoken = links + 1, !.rexpiry = now + LinkLife]
           n == [kind |-> "forgot", uid |-> u, name |-> users[u].name, link |-> links + 1,
                to |-> users[u].email]
<1>1. /\ u \in DOMAIN users /\ Set(u, w) /\ UNCHANGED <<mailbox, issued, stranded>>
      /\ sending' = sending \cup {n}
  BY DEF Forgot, Exists
<1>2. users[u] \in User
  BY <1>1 DEF DoorInv, TableOK
<1>3. n.kind # "register" /\ w.name = users[u].name /\ w.verified = users[u].verified /\ w.vtoken = users[u].vtoken
  BY <1>2 DEF User
<1> HIDE DEF w, n
<1>4. sending \subseteq sending' /\ \A m \in sending' : m.kind = "register" => m \in sending
  BY <1>1, <1>3
<1>5. ASSUME NEW v \in DOMAIN users' PROVE Alone(v)
  BY <1>1, <1>3, <1>4, SameStanding
<1> QED BY <1>1, <1>5, AloneStep DEF Door

LEMMA DeleteDoor ==
  ASSUME DoorInv, mailOn, NEW u \in Uids, Delete(u)
  PROVE  Door
<1>1. users' = [v \in DOMAIN users \ {u} |-> users[v]] /\ UNCHANGED <<sending, mailbox, issued, stranded>>
  BY DEF Delete
<1>2. ASSUME NEW v \in DOMAIN users' PROVE Alone(v)
  BY <1>1 DEF Alone
<1> QED BY <1>1, <1>2, AloneStep DEF Door

LEMMA LoginDoor ==
  ASSUME DoorInv, mailOn, NEW u \in Uids, Login(u)
  PROVE  Door
<1>1. /\ u \in DOMAIN users /\ CountsVerified(u) /\ issued' = issued \cup {[uid |-> u, iat |-> now]}
      /\ UNCHANGED <<users, sending, mailbox, stranded>>
  BY DEF Login, Exists, ghosts
<1>2. ~Knocking(u)'
  BY <1>1 DEF Knocking, CountsVerified
<1>3. ASSUME NEW v \in DOMAIN users', v # u PROVE Alone(v)
  BY <1>1, <1>3 DEF Alone
<1> QED BY <1>1, <1>2, <1>3, AloneStep DEF Door

\* The restart loses mails, and the accounts they were for are counted as stranded.
LEMMA RestartDoor ==
  ASSUME DoorInv, mailOn, NEW loaded \in BOOLEAN, Restart(loaded)
  PROVE  Door
<1>1. /\ sending' = {} /\ stranded' = stranded \cup {m.uid : m \in sending}
      /\ UNCHANGED <<users, mailbox, issued>>
  BY DEF Restart
<1>2. ASSUME NEW v \in DOMAIN users', Knocking(v)' PROVE Alone(v)
  BY <1>1, <1>2 DEF Alone, Knocking
<1> QED BY <1>1, <1>2, AloneStep DEF Door

LEMMA DoorStep ==
  ASSUME DoorInv, [AccountsNext]_accountVars
  PROVE  DoorInv'
<1>1. TableOK' /\ mailOn' = mailOn
  <2>1. mailOn' = mailOn
    BY DEF AccountsNext, Login, Verify, AdminVerify, ChangePassword, Delete, Forgot, Reset, UpdateEmail,
       UpdateUsername, Register, Logout, MailSent, MailFails, Restart, Tock, accountVars
  <2> QED BY <2>1, TableKept DEF DoorInv
<1> SUFFICES ASSUME mailOn PROVE Door
  BY <1>1 DEF DoorInv, Door
<1>2. ASSUME UNCHANGED <<users, sending, mailbox, issued, stranded>> PROVE Door
  <2>1. ASSUME NEW v \in DOMAIN users' PROVE Alone(v)
    BY <1>2 DEF Alone
  <2> QED BY <1>2, <2>1, AloneStep DEF Door
<1>3. CASE \/ \E t \in issued, written \in BOOLEAN : Logout(t, written)
           \/ Tock \/ UNCHANGED accountVars
  BY <1>2, <1>3 DEF Logout, Tock, accountVars, ghosts
<1> QED
  BY <1>3, RegisterDoor, MailSentDoor, MailFailsDoor, VerifyDoor, EmailDoor, NameDoor, PasswordDoor,
     ForgotDoor, DeleteDoor, LoginDoor, RestartDoor DEF AccountsNext

(* force_verify_email: whoever registered can log in, or has a mail that    *)
(* lets them in, or waits for one that will or will be made up for,         *)
(* whatever the order of mails, outages, new names and passwords, unless    *)
(* the server restarted before the mail or the address was changed since.   *)
(* Why a new name does no harm, though force_verify_email goes by the old   *)
(* one: who waits in front of the door has no session to change it with.    *)
THEOREM NobodyLockedOut == AccountsSpec => []NotLockedOut
<1>1. AccountsInit => DoorInv
  <2>1. AccountsInit => DOMAIN users = {}
    BY DEF AccountsInit
  <2> QED BY <2>1, TableInit DEF DoorInv
<1>2. DoorInv => NotLockedOut
  <2> SUFFICES ASSUME DoorInv, NEW u \in DOMAIN users \ stranded, mailOn, ~CountsVerified(u)
               PROVE  \/ users[u].vtoken \in Arrived
                      \/ \E m \in sending : /\ m.kind = "register" /\ m.uid = u
                                            /\ m.link = users[u].vtoken /\ m.name = users[u].name
    BY DEF NotLockedOut
  <2>1. Expected(u)
    BY DEF DoorInv, Knocking
  <2> QED BY <2>1 DEF Expected
<1> QED BY <1>1, <1>2, DoorStep, PTL DEF AccountsSpec

(***************************************************************************)
(* Types                                                                   *)
(***************************************************************************)

Addresses == Uids \X (Emails \cup {NoEmail})

KnownTokens == revoked \subseteq issued /\ saved \subseteq issued /\ ended \subseteq issued

Trust == proven \subseteq Addresses /\ waived \subseteq Addresses

MailTypes == mailbox \subseteq Mail /\ stranded \subseteq Uids

AccountTypes ==
  TableOK /\ mailOn \in BOOLEAN /\ requests \in 0..MaxRequests /\ MailTypes /\ KnownTokens /\ Trust

LEMMA TokensKnown ==
  ASSUME KnownTokens, [AccountsNext]_accountVars
  PROVE  KnownTokens'
<1>1. issued \subseteq issued'
  BY DEF AccountsNext, Login, Verify, AdminVerify, ChangePassword, Delete, Forgot, Reset, UpdateEmail,
     UpdateUsername, Register, Logout, MailSent, MailFails, Restart, Tock, accountVars, ghosts
<1>2. saved' \subseteq issued
  BY DEF KnownTokens, AccountsNext, Login, Verify, AdminVerify, ChangePassword, Delete, Forgot, Reset,
     UpdateEmail, UpdateUsername, Register, Logout, MailSent, MailFails, Restart, Tock, accountVars, ghosts
<1>3. revoked' \subseteq issued
  BY DEF KnownTokens, AccountsNext, Login, Verify, AdminVerify, ChangePassword, Delete, Forgot, Reset,
     UpdateEmail, UpdateUsername, Register, Logout, MailSent, MailFails, Restart, Reload, Tock,
     accountVars, ghosts
<1>4. ended' \subseteq issued
  BY DEF KnownTokens, AccountsNext, Login, Verify, AdminVerify, ChangePassword, Delete, Forgot, Reset,
     UpdateEmail, UpdateUsername, Register, Logout, MailSent, MailFails, Restart, Tock, accountVars, ghosts,
     TokensOf, EndedByPassword
<1> QED BY <1>1, <1>2, <1>3, <1>4 DEF KnownTokens

LEMMA TrustTyped ==
  ASSUME TableOK, MailTypes, Trust, [AccountsNext]_accountVars
  PROVE  Trust'
<1>1. \A u \in DOMAIN users : u \in Uids /\ <<u, users[u].email>> \in Addresses
  <2>1. \A w \in User : w.email \in Emails \cup {NoEmail}
    BY DEF User
  <2>2. DOMAIN users \subseteq Uids
    BY AccountsOK DEF TableOK, Uids, Links
  <2> QED BY <2>1, <2>2 DEF TableOK, Addresses
<1>2. proven' \subseteq Addresses
  <2>1. ASSUME NEW u \in Uids, NEW m \in mailbox, Verify(u, m) PROVE proven' \subseteq Addresses
    <3>1. m.to \in Emails \cup {NoEmail}
      BY DEF MailTypes, Mail
    <3> QED BY <2>1, <3>1 DEF Verify, Trust, Addresses
  <2> QED BY <2>1 DEF Trust, AccountsNext, Login, AdminVerify, ChangePassword, Delete, Forgot, Reset,
     UpdateEmail, UpdateUsername, Register, Logout, MailSent, MailFails, Restart, Tock, accountVars, ghosts
<1>3. waived' \subseteq Addresses
  <2>1. ASSUME NEW u \in Uids, AdminVerify(u) PROVE waived' \subseteq Addresses
    BY <1>1, <2>1 DEF AdminVerify, Exists, Trust
  <2>2. ASSUME NEW m \in sending, NEW arrives \in BOOLEAN, MailFails(m, arrives)
        PROVE  waived' \subseteq Addresses
    <3>1. CASE m.kind = "register"
      BY <1>1, <2>2, <3>1 DEF MailFails, Trust
    <3>2. CASE m.kind # "register"
      BY <2>2, <3>2 DEF MailFails, Trust
    <3> QED BY <3>1, <3>2
  <2> QED BY <2>1, <2>2 DEF Trust, AccountsNext, Login, Verify, ChangePassword, Delete, Forgot, Reset,
     UpdateEmail, UpdateUsername, Register, Logout, MailSent, Restart, Tock, accountVars, ghosts
<1> QED BY <1>2, <1>3 DEF Trust

LEMMA MailTyped ==
  ASSUME TableOK, MailTypes, [AccountsNext]_accountVars
  PROVE  MailTypes'
<1>1. \A m \in sending : m \in Mail /\ m.uid \in Uids
  BY DEF TableOK, Mail
<1>2. ASSUME NEW m \in sending, MailSent(m) \/ \E arrives \in BOOLEAN : MailFails(m, arrives)
      PROVE  MailTypes'
  <2>1. mailbox' \subseteq mailbox \cup {m} /\ stranded' = stranded
    BY <1>2 DEF MailSent, MailFails, ghosts
  <2> QED BY <1>1, <2>1 DEF MailTypes
<1>3. ASSUME NEW loaded \in BOOLEAN, Restart(loaded) PROVE MailTypes'
  <2>1. mailbox' = mailbox /\ stranded' = stranded \cup {m.uid : m \in sending}
    BY <1>3 DEF Restart
  <2> QED BY <1>1, <2>1 DEF MailTypes
<1>4. ASSUME NEW u \in Uids, NEW email \in Emails \cup {NoEmail}, UpdateEmail(u, email) PROVE MailTypes'
  BY <1>4 DEF UpdateEmail, MailTypes
<1>5. ASSUME mailbox' = mailbox, stranded' = stranded PROVE MailTypes'
  BY <1>5 DEF MailTypes
<1> QED
  BY <1>2, <1>3, <1>4, <1>5 DEF AccountsNext, Login, Verify, AdminVerify, ChangePassword, Delete, Forgot,
     Reset, UpdateUsername, Register, Logout, Tock, accountVars, ghosts

LEMMA AccountTypesStep ==
  ASSUME AccountTypes, [AccountsNext]_accountVars
  PROVE  AccountTypes'
<1>1. TableOK' /\ MailTypes' /\ KnownTokens' /\ Trust'
  BY TableKept, MailTyped, TokensKnown, TrustTyped DEF AccountTypes
<1>2. mailOn' = mailOn
  BY DEF AccountsNext, Login, Verify, AdminVerify, ChangePassword, Delete, Forgot, Reset, UpdateEmail,
     UpdateUsername, Register, Logout, MailSent, MailFails, Restart, Tock, accountVars
<1>3. requests' = requests \/ Requested
  BY DEF AccountsNext, Login, Verify, AdminVerify, ChangePassword, Delete, Forgot, Reset, UpdateEmail,
     UpdateUsername, Register, Logout, MailSent, MailFails, Restart, Tock, accountVars
<1>4. requests' \in 0..MaxRequests
  BY <1>3, AccountsOK DEF AccountTypes, Requested
<1> QED BY <1>1, <1>2, <1>4 DEF AccountTypes

(* auth.py: the table, the mails and the tokens are what the forms make of  *)
(* them, and only tokens that were handed out are revoked or ended.         *)
THEOREM AccountsTypeCorrect == AccountsSpec => []AccountsTypeOK
<1>1. AccountsInit => AccountTypes
  <2> SUFFICES ASSUME AccountsInit PROVE AccountTypes
    OBVIOUS
  <2>1. MailTypes /\ KnownTokens /\ Trust
    BY DEF AccountsInit, MailTypes, KnownTokens, Trust
  <2>2. mailOn \in BOOLEAN
    BY DEF AccountsInit
  <2>3. requests \in 0..MaxRequests
    BY AccountsOK DEF AccountsInit
  <2> QED BY <2>1, <2>2, <2>3, TableInit DEF AccountTypes
<1>2. AccountTypes => AccountsTypeOK
  BY DEF AccountTypes, TableOK, MailTypes, KnownTokens, Trust, Addresses, AccountsTypeOK
<1> QED BY <1>1, <1>2, AccountTypesStep, PTL DEF AccountsSpec
=============================================================================
