---------------------------- MODULE AccountsProofs ----------------------------
(***************************************************************************)
(* Theorems about Accounts, for any number of users, addresses, codes,     *)
(* links and requests, about Groups, for any number of groups, policies,   *)
(* images, administrators and edits, and about both together.              *)
(***************************************************************************)
EXTENDS MCAccounts, Sequences, FiniteSetTheorems, TLAPS

-----------------------------------------------------------------------------
(* Types, with what the steps of a request rely on: a request that is about *)
(* to store a session names a user, one that uses a link names that link.  *)

Distinct == \A u, v \in Users : Exists(u) /\ Exists(v) /\ u # v => users[u].email # users[v].email

ReqTyped ==
  /\ req \in [Requests -> ReqRecords]
  /\ \A r \in Requests :
       /\ req[r].pc = "session" => req[r].user \in Users
       /\ req[r].pc = "use" => req[r].link \in Links

LinksTyped == links \in [Links -> LinkRecords]

RestTyped ==
  /\ claimed \in Users \cup {None}
  /\ mode \in Modes
  /\ invites \in [Invites -> InviteRecords]
  /\ sessions \subseteq Users \X (0 .. MaxPw)
  /\ events \in 0 .. MaxEvents
  /\ joined \in [Invites -> Nat]
  /\ late \subseteq Users \X (0 .. MaxPw)
  /\ uses \in [Links -> Nat]

TypeInv == users \in [Users -> UserRecords] /\ Distinct /\ ReqTyped /\ LinksTyped /\ RestTyped

LEMMA Bounds ==
  /\ MaxEvents \in Nat /\ MaxPw \in Nat
  /\ \A n \in 0 .. MaxEvents : n < MaxEvents => n + 1 \in 0 .. MaxEvents
  /\ \A n \in 0 .. MaxPw : n < MaxPw => n + 1 \in 0 .. MaxPw
BY AccountsAssumption DEF AccountsAssumption

LEMMA EventTyped == RestTyped /\ Event => events' \in 0 .. MaxEvents
BY Bounds DEF RestTyped, Event

LEMMA NobodyIs == Nobody \in UserRecords /\ Nobody.st = "none" /\ ~Nobody.admin /\ Nobody.pw = 0
BY Bounds DEF Nobody, UserRecords

LEMMA IdleIs == Idle \in ReqRecords /\ Idle.pc = "idle"
BY Bounds DEF Idle, ReqRecords

\* A request moves on, or ends.
LEMMA Moves ==
  ASSUME ReqTyped, NEW r \in Requests, NEW x \in ReqRecords, req' = [req EXCEPT ![r] = x],
         x.pc = "session" => x.user \in Users, x.pc = "use" => x.link \in Links
  PROVE  ReqTyped'
BY DEF ReqTyped

LEMMA Ends ==
  ASSUME ReqTyped, NEW r \in Requests, Finish(r)
  PROVE  ReqTyped'
BY Moves, IdleIs DEF Finish

\* A link is issued.
LEMMA IssuedTyped ==
  ASSUME LinksTyped, NEW l \in Links, NEW u \in Users \cup {None}, NEW purpose \in Purposes,
         NEW email \in Emails \cup {None}
  PROVE  Issued(links, l, u, purpose, email) \in [Links -> LinkRecords]
<1>1. [st |-> "valid", user |-> u, purpose |-> purpose, email |-> email] \in LinkRecords
  BY DEF LinkRecords
<1>2. ASSUME NEW k \in Links PROVE [links[k] EXCEPT !.st = "used"] \in LinkRecords
  BY DEF LinksTyped, LinkRecords
<1> QED BY <1>1, <1>2 DEF Issued, LinksTyped

\* One user's row changes, and keeps an address no other existing user has.
LEMMA UserStep ==
  ASSUME users \in [Users -> UserRecords], Distinct, NEW u \in Users, NEW x \in UserRecords,
         users' = [users EXCEPT ![u] = x],
         \/ x.st \notin {"active", "banned"}
         \/ Exists(u) /\ x.email = users[u].email
         \/ ~EmailTaken(x.email)
  PROVE  /\ users' \in [Users -> UserRecords] /\ Distinct'
         /\ users'[u] = x /\ \A v \in Users \ {u} : users'[v] = users[v]
<1>1. /\ users' \in [Users -> UserRecords] /\ users'[u] = x
      /\ \A v \in Users \ {u} : users'[v] = users[v]
  OBVIOUS
<1>2. ASSUME NEW v \in Users \ {u}, Exists(u)', Exists(v)' PROVE users'[u].email # users'[v].email
  <2>1. Exists(v) /\ users'[v].email = users[v].email /\ x.st \in {"active", "banned"}
    BY <1>1, <1>2 DEF Exists
  <2> QED BY <1>1, <2>1 DEF Distinct, EmailTaken
<1>3. ASSUME NEW v \in Users \ {u}, NEW w \in Users \ {u}, Exists(v)', Exists(w)', v # w
      PROVE  users'[v].email # users'[w].email
  BY <1>1, <1>3 DEF Exists, Distinct
<1> QED BY <1>1, <1>2, <1>3 DEF Distinct

-----------------------------------------------------------------------------
(* Each action preserves the types.                                        *)

\* The forms in which a user's row changes: of the password, of the address,
\* of the standing.
Repassworded(u) == [users[u] EXCEPT !.pw = @ + 1]
Readdressed(u, e) == [users[u] EXCEPT !.email = e, !.verified = TRUE]
Verified(u) == [users[u] EXCEPT !.verified = TRUE]
Standing(u, st) == [users[u] EXCEPT !.st = st]

LEMMA UserForms ==
  ASSUME users \in [Users -> UserRecords], NEW u \in Users
  PROVE  /\ users[u].pw < MaxPw => Repassworded(u) \in UserRecords
         /\ Repassworded(u).st = users[u].st /\ Repassworded(u).email = users[u].email
         /\ Repassworded(u).admin = users[u].admin
         /\ \A e \in Emails \cup {None} :
              /\ Readdressed(u, e) \in UserRecords /\ Readdressed(u, e).st = users[u].st
              /\ Readdressed(u, e).email = e /\ Readdressed(u, e).admin = users[u].admin
              /\ Readdressed(u, e).pw = users[u].pw
         /\ Verified(u) \in UserRecords /\ Verified(u).st = users[u].st
         /\ Verified(u).email = users[u].email /\ Verified(u).admin = users[u].admin
         /\ Verified(u).pw = users[u].pw
         /\ \A st \in {"active", "banned"} :
              /\ Standing(u, st) \in UserRecords /\ Standing(u, st).st = st
              /\ Standing(u, st).email = users[u].email /\ Standing(u, st).admin = users[u].admin
              /\ Standing(u, st).pw = users[u].pw
<1>1. users[u] \in UserRecords
  OBVIOUS
<1>2. users[u].pw < MaxPw => users[u].pw + 1 \in 0 .. MaxPw
  BY <1>1, Bounds DEF UserRecords
<1> QED BY <1>1, <1>2 DEF UserRecords, Repassworded, Readdressed, Verified, Standing

\* A password is replaced; a row that is not there is not touched.
LEMMA RepasswordStep ==
  ASSUME users \in [Users -> UserRecords], Distinct, NEW u, users' = [users EXCEPT ![u].pw = @ + 1],
         users[u].pw < MaxPw
  PROVE  users' \in [Users -> UserRecords] /\ Distinct'
<1>1. CASE u \in Users
  <2>1. users' = [users EXCEPT ![u] = Repassworded(u)]
    BY DEF Repassworded
  <2>2. /\ Repassworded(u) \in UserRecords /\ Repassworded(u).st = users[u].st
        /\ Repassworded(u).email = users[u].email
    BY <1>1, UserForms
  <2> QED BY <1>1, <2>1, <2>2, UserStep DEF Exists
<1>2. CASE u \notin Users
  <2>1. users' = users
    BY <1>2
  <2> QED BY <2>1 DEF Distinct, Exists
<1> QED BY <1>1, <1>2

LEMMA LinkUseTypes ==
  ASSUME TypeInv, NEW r \in Requests, LinkUse(r)
  PROVE  TypeInv'
<1> DEFINE l == req[r].link
           u == links[l].user
<1>1. l \in Links /\ links[l] \in LinkRecords /\ ReqTyped'
  <2>1. l \in Links /\ ReqTyped'
    BY Ends DEF LinkUse, At, TypeInv, ReqTyped
  <2> QED BY <2>1 DEF TypeInv, LinksTyped
<1>2. links' \in [Links -> LinkRecords]
  <2>1. ASSUME NEW k \in Links PROVE [links[k] EXCEPT !.st = "used"] \in LinkRecords
    BY DEF TypeInv, LinksTyped, LinkRecords
  <2>2. \/ links' = links
        \/ links' = [k \in Links |-> IF k \in Consumes(l) THEN [links[k] EXCEPT !.st = "used"] ELSE links[k]]
    BY DEF LinkUse
  <2> QED BY <2>1, <2>2 DEF TypeInv, LinksTyped
<1>3. /\ sessions' \subseteq sessions /\ uses' \in [Links -> Nat]
      /\ UNCHANGED <<claimed, mode, invites, events, joined, late>>
  <2>1. \A x : SessionsWithout(x) \subseteq sessions
    BY DEF SessionsWithout
  <2>2. [uses EXCEPT ![l] = @ + 1] \in [Links -> Nat] /\ uses \in [Links -> Nat]
    BY <1>1 DEF TypeInv, RestTyped
  <2>3. /\ sessions' = sessions \/ \E x : sessions' = SessionsWithout(x)
        /\ uses' = uses \/ uses' = [uses EXCEPT ![l] = @ + 1]
        /\ UNCHANGED <<claimed, mode, invites, events, joined, late>>
    BY DEF LinkUse
  <2> QED BY <2>1, <2>2, <2>3
<1>4. \/ users' = users
      \/ users' = [users EXCEPT ![u].verified = TRUE]
      \/ users' = [users EXCEPT ![u].email = links[l].email, ![u].verified = TRUE]
         /\ ~EmailTaken(links[l].email)
      \/ users' = [users EXCEPT ![u].pw = @ + 1] /\ users[u].pw < MaxPw
  BY DEF LinkUse
<1> HIDE DEF l, u
<1>5. users' \in [Users -> UserRecords] /\ Distinct'
  <2>1. CASE users' = users
    BY <2>1 DEF TypeInv, Distinct, Exists
  <2>2. CASE users' = [users EXCEPT ![u].pw = @ + 1] /\ users[u].pw < MaxPw
    BY <2>2, RepasswordStep DEF TypeInv
  <2>3. CASE users' = [users EXCEPT ![u].verified = TRUE] /\ u \in Users
    <3>1. users' = [users EXCEPT ![u] = Verified(u)]
      BY <2>3 DEF Verified
    <3>2. /\ Verified(u) \in UserRecords /\ Verified(u).st = users[u].st
          /\ Verified(u).email = users[u].email
      BY <2>3, UserForms DEF TypeInv
    <3> QED BY <2>3, <3>1, <3>2, UserStep DEF TypeInv, Exists
  <2>4. CASE /\ users' = [users EXCEPT ![u].email = links[l].email, ![u].verified = TRUE]
             /\ ~EmailTaken(links[l].email) /\ u \in Users
    <3> DEFINE e == links[l].email
    <3>1. e \in Emails \cup {None}
      BY <1>1 DEF LinkRecords
    <3>2. users' = [users EXCEPT ![u] = Readdressed(u, e)]
      BY <2>4 DEF Readdressed, TypeInv
    <3>3. Readdressed(u, e) \in UserRecords /\ Readdressed(u, e).email = e
      BY <2>4, <3>1, UserForms DEF TypeInv
    <3> HIDE DEF e
    <3>4. ~EmailTaken(Readdressed(u, e).email)
      BY <2>4, <3>3 DEF e
    <3> QED BY <2>4, <3>2, <3>3, <3>4, UserStep DEF TypeInv
  <2>5. CASE u \notin Users
    <3>1. users' = users
      BY <1>4, <2>5 DEF TypeInv
    <3> QED BY <2>1, <3>1
  <2> QED BY <1>4, <2>1, <2>2, <2>3, <2>4, <2>5
<1> QED BY <1>1, <1>2, <1>3, <1>5 DEF TypeInv, LinksTyped, RestTyped

LEMMA RequestLinkTypes ==
  ASSUME TypeInv, NEW u \in Users, RequestLink(u)
  PROVE  TypeInv'
<1>1. LinksTyped'
  BY IssuedTyped DEF RequestLink, TypeInv, LinksTyped
<1>2. events' \in 0 .. MaxEvents
  BY EventTyped DEF RequestLink, TypeInv
<1> QED BY <1>1, <1>2 DEF RequestLink, TypeInv, RestTyped, history, Distinct, Exists, ReqTyped

LEMMA ExpireLinkTypes ==
  ASSUME TypeInv, NEW l \in Links, ExpireLink(l)
  PROVE  TypeInv'
<1>1. LinksTyped'
  <2>1. [links[l] EXCEPT !.st = "expired"] \in LinkRecords
    BY DEF TypeInv, LinksTyped, LinkRecords
  <2>2. links' = [links EXCEPT ![l] = [links[l] EXCEPT !.st = "expired"]]
    BY DEF ExpireLink
  <2> QED BY <2>1, <2>2 DEF TypeInv, LinksTyped
<1>2. events' \in 0 .. MaxEvents
  BY EventTyped DEF ExpireLink, TypeInv
<1> QED BY <1>1, <1>2 DEF ExpireLink, TypeInv, RestTyped, history, Distinct, Exists, ReqTyped

\* RegisterCommit that creates user u.
Newcomer(r, u) == [Nobody EXCEPT !.st = "active", !.email = req[r].email, !.admin = Claims(u),
                                 !.invite = req[r].invite]

Admits(r, u) ==
  LET i == req[r].invite IN
  /\ ~EmailTaken(req[r].email) /\ (i # None => Redeemable(i))
  /\ users[u].st = "none"
  /\ users' = [users EXCEPT ![u] = Newcomer(r, u)]
  /\ claimed' = IF Claims(u) THEN u ELSE claimed
  /\ invites' = IF i = None THEN invites ELSE [invites EXCEPT ![i].by = u]
  /\ joined' = IF i = None THEN joined ELSE [joined EXCEPT ![i] = @ + 1]
  /\ req' = [req EXCEPT ![r] = [Idle EXCEPT !.pc = "welcome", !.user = u]]

LEMMA RegisterCases ==
  ASSUME NEW r \in Requests, RegisterCommit(r)
  PROVE  /\ UNCHANGED <<mode, links, sessions, events, late, uses>>
         /\ \/ Finish(r) /\ UNCHANGED <<users, claimed, invites, joined>>
            \/ \E u \in Users : Admits(r, u)
BY Zenon DEF RegisterCommit, Admits, Newcomer

LEMMA NewcomerIs ==
  ASSUME ReqTyped, NEW r \in Requests, NEW u \in Users
  PROVE  /\ Newcomer(r, u) \in UserRecords /\ Newcomer(r, u).st = "active"
         /\ Newcomer(r, u).email = req[r].email /\ Newcomer(r, u).pw = 0
         /\ (Newcomer(r, u).admin <=> claimed = None)
<1> DEFINE c == Claims(u)
<1>1. c \in BOOLEAN /\ (c <=> claimed = None)
  BY DEF Claims
<1>2. req[r].email \in Emails \cup {None} /\ req[r].invite \in Invites \cup {None}
  BY DEF ReqTyped, ReqRecords
<1>3. Newcomer(r, u) = [Nobody EXCEPT !.st = "active", !.email = req[r].email, !.admin = c,
                                      !.invite = req[r].invite]
  BY DEF Newcomer
<1> HIDE DEF c
<1> QED BY <1>1, <1>2, <1>3, NobodyIs DEF UserRecords

LEMMA RegisterTypes ==
  ASSUME TypeInv, NEW r \in Requests, RegisterCommit(r)
  PROVE  TypeInv'
<1>1. CASE Finish(r) /\ UNCHANGED <<users, claimed, invites, joined>>
  <2>1. ReqTyped'
    BY <1>1, Ends DEF TypeInv
  <2> QED BY <1>1, <2>1, RegisterCases DEF TypeInv, LinksTyped, RestTyped, Distinct, Exists
<1>2. ASSUME NEW u \in Users, Admits(r, u) PROVE TypeInv'
  <2>1. req[r].invite \in Invites \cup {None}
    BY DEF TypeInv, ReqTyped, ReqRecords
  <2>2. /\ Newcomer(r, u) \in UserRecords /\ ~EmailTaken(Newcomer(r, u).email)
    BY <1>2, NewcomerIs DEF Admits, TypeInv
  <2>3. users' \in [Users -> UserRecords] /\ Distinct'
    BY <1>2, <2>2, UserStep DEF TypeInv, Admits
  <2> DEFINE y == [Idle EXCEPT !.pc = "welcome", !.user = u]
  <2>4. y \in ReqRecords /\ y.pc = "welcome"
    BY IdleIs DEF ReqRecords
  <2>5. req' = [req EXCEPT ![r] = y]
    BY <1>2 DEF Admits
  <2> HIDE DEF y
  <2>6. ReqTyped'
    BY <2>4, <2>5, Moves DEF TypeInv
  <2>7. /\ invites' \in [Invites -> InviteRecords] /\ joined' \in [Invites -> Nat]
        /\ claimed' \in Users \cup {None}
    <3>1. \A k \in Invites : [invites[k] EXCEPT !.by = u] \in InviteRecords
      BY DEF TypeInv, RestTyped, InviteRecords
    <3> QED BY <1>2, <2>1, <3>1 DEF TypeInv, RestTyped, Admits
  <2> QED BY <2>3, <2>6, <2>7, RegisterCases DEF TypeInv, LinksTyped, RestTyped
<1> QED BY <1>1, <1>2, RegisterCases

\* Steps that only move a request.
LEMMA ReqOnly ==
  ASSUME TypeInv, ReqTyped', UNCHANGED <<tables, history>>, events' \in 0 .. MaxEvents
  PROVE  TypeInv'
BY DEF TypeInv, tables, history, RestTyped, LinksTyped, Distinct, Exists

LEMMA ReadTypes ==
  ASSUME TypeInv, NEW r \in Requests,
         RegisterRead(r) \/ RevokeRead(r) \/ LinkRead(r) \/ ChangePasswordRead(r)
  PROVE  TypeInv'
<1>1. events' \in 0 .. MaxEvents /\ UNCHANGED <<tables, history>>
  BY EventTyped DEF RegisterRead, RevokeRead, LinkRead, ChangePasswordRead, TypeInv
<1>2. ASSUME NEW x \in ReqRecords, req' = [req EXCEPT ![r] = x], x.pc # "session",
             x.pc = "use" => x.link \in Links
      PROVE  TypeInv'
  BY <1>1, <1>2, Moves, ReqOnly DEF TypeInv
<1>3. CASE RegisterRead(r)
  <2>1. PICK e \in Emails, i \in Invites \cup {None} :
          req' = [req EXCEPT ![r] = [Idle EXCEPT !.pc = "register", !.email = e, !.invite = i]]
    BY <1>3 DEF RegisterRead
  <2> DEFINE x == [Idle EXCEPT !.pc = "register", !.email = e, !.invite = i]
  <2>2. x \in ReqRecords /\ x.pc = "register"
    BY IdleIs DEF ReqRecords
  <2> HIDE DEF x
  <2> QED BY <1>2, <2>1, <2>2 DEF x
<1>4. CASE RevokeRead(r)
  <2>1. PICK i \in Invites : req' = [req EXCEPT ![r] = [Idle EXCEPT !.pc = "revoke", !.invite = i]]
    BY <1>4 DEF RevokeRead
  <2> DEFINE x == [Idle EXCEPT !.pc = "revoke", !.invite = i]
  <2>2. x \in ReqRecords /\ x.pc = "revoke"
    BY IdleIs DEF ReqRecords
  <2> HIDE DEF x
  <2> QED BY <1>2, <2>1, <2>2 DEF x
<1>5. CASE LinkRead(r)
  <2>1. PICK l \in Links : req' = [req EXCEPT ![r] = [Idle EXCEPT !.pc = "use", !.link = l]]
    BY <1>5 DEF LinkRead
  <2> DEFINE x == [Idle EXCEPT !.pc = "use", !.link = l]
  <2>2. x \in ReqRecords /\ x.pc = "use" /\ x.link = l
    BY IdleIs DEF ReqRecords
  <2> HIDE DEF x
  <2> QED BY <1>2, <2>1, <2>2 DEF x
<1>6. CASE ChangePasswordRead(r)
  <2>1. PICK u \in Users : req' = [req EXCEPT ![r] = [Idle EXCEPT !.pc = "change", !.user = u]]
    BY <1>6 DEF ChangePasswordRead
  <2> DEFINE x == [Idle EXCEPT !.pc = "change", !.user = u]
  <2>2. x \in ReqRecords /\ x.pc = "change"
    BY IdleIs DEF ReqRecords
  <2> HIDE DEF x
  <2> QED BY <1>2, <2>1, <2>2 DEF x
<1> QED BY <1>3, <1>4, <1>5, <1>6

\* The request that a login or an unknown OIDC user goes on with.
LEMMA SessionReq ==
  ASSUME NEW u \in Users, NEW n \in 0 .. MaxPw
  PROVE  /\ [Idle EXCEPT !.pc = "session", !.user = u, !.pw = n] \in ReqRecords
         /\ [Idle EXCEPT !.pc = "session", !.user = u, !.pw = n].pc = "session"
         /\ [Idle EXCEPT !.pc = "session", !.user = u, !.pw = n].user = u
         /\ [Idle EXCEPT !.pc = "session", !.user = u] \in ReqRecords
         /\ [Idle EXCEPT !.pc = "session", !.user = u].pc = "session"
         /\ [Idle EXCEPT !.pc = "session", !.user = u].user = u
BY IdleIs DEF ReqRecords

LEMMA LoginTypes ==
  ASSUME TypeInv, NEW r \in Requests, Login(r) \/ LoginRefused(r)
  PROVE  TypeInv'
<1>1. CASE LoginRefused(r)
  <2>1. ReqTyped' /\ events' \in 0 .. MaxEvents /\ UNCHANGED <<tables, history>>
    BY <1>1, Ends DEF LoginRefused, TypeInv, RestTyped
  <2> QED BY <2>1, ReqOnly
<1>2. CASE Login(r)
  <2>1. PICK u \in Users : req' = [req EXCEPT ![r] = [Idle EXCEPT !.pc = "session", !.user = u, !.pw = users[u].pw]]
    BY <1>2 DEF Login
  <2>2. users[u].pw \in 0 .. MaxPw
    BY DEF TypeInv, UserRecords
  <2>3. ReqTyped'
    BY <2>1, <2>2, SessionReq, Moves DEF TypeInv
  <2>4. events' \in 0 .. MaxEvents /\ UNCHANGED <<tables, history>>
    BY <1>2, EventTyped DEF Login, TypeInv, RestTyped
  <2> QED BY <2>3, <2>4, ReqOnly
<1> QED BY <1>1, <1>2

\* The row of a user whom OIDC creates.
Stranger(e, verified) == [Nobody EXCEPT !.st = "active", !.email = e, !.verified = verified]

LEMMA StrangerIs ==
  ASSUME NEW e \in Emails, NEW verified \in BOOLEAN
  PROVE  /\ Stranger(e, verified) \in UserRecords /\ Stranger(e, verified).st = "active"
         /\ Stranger(e, verified).email = e /\ ~Stranger(e, verified).admin
         /\ Stranger(e, verified).pw = 0
BY NobodyIs DEF UserRecords, Stranger

LEMMA OidcTypes ==
  ASSUME TypeInv, NEW r \in Requests, OidcCreate(r)
  PROVE  TypeInv'
<1>1. PICK u \in Users, e \in Emails, verified \in BOOLEAN :
        /\ users[u].st = "none" /\ ~EmailTaken(e)
        /\ users' = [users EXCEPT ![u] = Stranger(e, verified)]
        /\ req' = [req EXCEPT ![r] = [Idle EXCEPT !.pc = "session", !.user = u]]
  BY DEF OidcCreate, Stranger
<1>2. users' \in [Users -> UserRecords] /\ Distinct'
  BY <1>1, StrangerIs, UserStep DEF TypeInv
<1>3. ReqTyped'
  <2>1. 0 \in 0 .. MaxPw
    BY Bounds
  <2> DEFINE x == [Idle EXCEPT !.pc = "session", !.user = u]
  <2>2. x \in ReqRecords /\ x.pc = "session" /\ x.user = u
    BY <2>1, SessionReq
  <2>3. req' = [req EXCEPT ![r] = x]
    BY <1>1
  <2> HIDE DEF x
  <2> QED BY <2>2, <2>3, Moves DEF TypeInv
<1>4. events' \in 0 .. MaxEvents
  BY EventTyped DEF OidcCreate, TypeInv
<1> QED BY <1>2, <1>3, <1>4 DEF OidcCreate, TypeInv, history, RestTyped, LinksTyped

LEMMA SendTypes ==
  ASSUME TypeInv, NEW r \in Requests, SendVerifyEmail(r)
  PROVE  TypeInv'
<1>1. req[r] \in ReqRecords
  BY DEF TypeInv, ReqTyped
<1>2. LinksTyped'
  <2>1. req[r].user \in Users \cup {None}
    BY <1>1 DEF ReqRecords
  <2> QED BY <2>1, IssuedTyped DEF SendVerifyEmail, TypeInv, LinksTyped
<1>3. ReqTyped'
  <2> DEFINE x == [req[r] EXCEPT !.pc = "login"]
  <2>1. x \in ReqRecords /\ x.pc = "login"
    BY <1>1 DEF ReqRecords
  <2>2. req' = [req EXCEPT ![r] = x]
    BY DEF SendVerifyEmail
  <2> HIDE DEF x
  <2> QED BY <2>1, <2>2, Moves DEF TypeInv
<1> QED BY <1>2, <1>3 DEF SendVerifyEmail, TypeInv, history, RestTyped, Distinct, Exists

LEMMA CreateSessionTypes ==
  ASSUME TypeInv, NEW r \in Requests, CreateSession(r)
  PROVE  TypeInv'
<1>1. ReqTyped'
  BY Ends DEF CreateSession, TypeInv
<1>2. <<req[r].user, req[r].pw>> \in Users \X (0 .. MaxPw)
  BY DEF CreateSession, At, TypeInv, ReqTyped, ReqRecords
<1>3. sessions' \subseteq Users \X (0 .. MaxPw) /\ late' \subseteq Users \X (0 .. MaxPw)
  BY <1>2 DEF CreateSession, TypeInv, RestTyped
<1> QED BY <1>1, <1>3 DEF CreateSession, TypeInv, RestTyped, LinksTyped, Distinct, Exists

LEMMA ChangePasswordTypes ==
  ASSUME TypeInv, NEW r \in Requests, ChangePassword(r)
  PROVE  TypeInv'
<1>1. ReqTyped'
  BY Ends DEF ChangePassword, TypeInv
<1>2. users' \in [Users -> UserRecords] /\ Distinct'
  <2>1. CASE users' = users
    BY <2>1 DEF TypeInv, Distinct, Exists
  <2>2. CASE users' # users
    BY <2>2, RepasswordStep DEF ChangePassword, TypeInv
  <2> QED BY <2>1, <2>2
<1>3. sessions' \subseteq sessions
  BY DEF ChangePassword, SessionsWithout
<1> QED BY <1>1, <1>2, <1>3 DEF ChangePassword, TypeInv, RestTyped, LinksTyped, history

LEMMA RevokeTypes ==
  ASSUME TypeInv, NEW r \in Requests, RevokeInvite(r)
  PROVE  TypeInv'
<1>1. ReqTyped'
  BY Ends DEF RevokeInvite, TypeInv
<1>2. invites' \in [Invites -> InviteRecords]
  <2>1. ASSUME NEW i PROVE [invites EXCEPT ![i].st = "revoked"] \in [Invites -> InviteRecords]
    <3>1. CASE i \in Invites
      <4>1. [invites[i] EXCEPT !.st = "revoked"] \in InviteRecords
        BY <3>1 DEF TypeInv, RestTyped, InviteRecords
      <4> QED BY <4>1 DEF TypeInv, RestTyped
    <3>2. CASE i \notin Invites
      BY <3>2 DEF TypeInv, RestTyped
    <3> QED BY <3>1, <3>2
  <2> QED BY <2>1 DEF RevokeInvite, TypeInv, RestTyped
<1> QED BY <1>1, <1>2 DEF RevokeInvite, TypeInv, RestTyped, LinksTyped, Distinct, Exists, history

LEMMA InviteTypes ==
  ASSUME TypeInv, NEW i \in Invites, CreateInvites(i) \/ ExpireInvite(i)
  PROVE  TypeInv'
<1>1. events' \in 0 .. MaxEvents
  BY EventTyped DEF CreateInvites, ExpireInvite, TypeInv
<1>2. invites' \in [Invites -> InviteRecords]
  <2>1. \A st \in {"live", "expired"} : [invites[i] EXCEPT !.st = st] \in InviteRecords
    BY DEF TypeInv, RestTyped, InviteRecords
  <2>2. PICK st \in {"live", "expired"} : invites' = [invites EXCEPT ![i] = [invites[i] EXCEPT !.st = st]]
    BY DEF CreateInvites, ExpireInvite
  <2> QED BY <2>1, <2>2 DEF TypeInv, RestTyped
<1> QED BY <1>1, <1>2 DEF CreateInvites, ExpireInvite, TypeInv, RestTyped, LinksTyped, ReqTyped,
                       Distinct, Exists, history

LEMMA AdminTypes ==
  ASSUME TypeInv, NEW u \in Users, ResetPassword(u) \/ UpdateUser(u)
  PROVE  TypeInv'
<1>1. events' \in 0 .. MaxEvents
  BY EventTyped DEF ResetPassword, UpdateUser, TypeInv
<1>2. users' \in [Users -> UserRecords] /\ Distinct'
  <2>1. CASE ResetPassword(u)
    BY <2>1, RepasswordStep DEF ResetPassword, TypeInv
  <2>2. CASE UpdateUser(u)
    <3>1. PICK st \in {"active", "banned"} : users' = [users EXCEPT ![u] = Standing(u, st)]
      BY <2>2 DEF UpdateUser, Standing
    <3>2. Standing(u, st) \in UserRecords /\ Standing(u, st).email = users[u].email
      BY UserForms DEF TypeInv
    <3> QED BY <2>2, <3>1, <3>2, UserStep DEF TypeInv, UpdateUser
  <2> QED BY <2>1, <2>2
<1>3. sessions' \subseteq sessions
  BY DEF ResetPassword, UpdateUser, SessionsWithout
<1> QED BY <1>1, <1>2, <1>3 DEF ResetPassword, UpdateUser, TypeInv, RestTyped, LinksTyped, ReqTyped,
                            history

LEMMA DeleteTypes ==
  ASSUME TypeInv, NEW u \in Users, DeleteAccount(u)
  PROVE  TypeInv'
<1>1. events' \in 0 .. MaxEvents
  BY EventTyped DEF DeleteAccount, TypeInv
<1> DEFINE x == [Nobody EXCEPT !.st = "deleted"]
<1>2. x \in UserRecords /\ x.st = "deleted"
  BY NobodyIs DEF UserRecords
<1>3. users' = [users EXCEPT ![u] = x]
  BY DEF DeleteAccount
<1> HIDE DEF x
<1>4. users' \in [Users -> UserRecords] /\ Distinct'
  BY <1>2, <1>3, UserStep DEF TypeInv
<1>5. LinksTyped'
  <2>1. \A l \in Links : [links[l] EXCEPT !.st = "deleted"] \in LinkRecords
    BY DEF TypeInv, LinksTyped, LinkRecords
  <2> QED BY <2>1 DEF DeleteAccount, TypeInv, LinksTyped
<1>6. sessions' \subseteq sessions
  BY DEF DeleteAccount, SessionsWithout
<1> QED BY <1>1, <1>4, <1>5, <1>6 DEF DeleteAccount, TypeInv, RestTyped, ReqTyped, history

LEMMA StepTypes ==
  ASSUME TypeInv, [Next]_vars
  PROVE  TypeInv'
<1>1. ASSUME NEW s \in sessions, Logout(s) PROVE TypeInv'
  <2>1. events' \in 0 .. MaxEvents
    BY <1>1, EventTyped DEF Logout, TypeInv
  <2> QED BY <1>1, <2>1 DEF Logout, TypeInv, RestTyped, LinksTyped, ReqTyped, Distinct, Exists, history
<1>2. CASE SetRegistrationMode
  <2>1. events' \in 0 .. MaxEvents
    BY <1>2, EventTyped DEF SetRegistrationMode, TypeInv
  <2> QED BY <1>2, <2>1 DEF SetRegistrationMode, TypeInv, RestTyped, LinksTyped, ReqTyped, Distinct,
                          Exists, history
<1>3. CASE UNCHANGED vars
  BY <1>3 DEF vars, tables, history, TypeInv, RestTyped, LinksTyped, ReqTyped, Distinct, Exists
<1> QED BY <1>1, <1>2, <1>3, LinkUseTypes, RequestLinkTypes, ExpireLinkTypes, RegisterTypes, ReadTypes,
           LoginTypes, OidcTypes, SendTypes, CreateSessionTypes, ChangePasswordTypes, RevokeTypes,
           InviteTypes, AdminTypes, DeleteTypes, Zenon DEF Next

LEMMA InitTypes == Init => TypeInv
<1> SUFFICES ASSUME Init PROVE TypeInv
  OBVIOUS
<1>1. users \in [Users -> UserRecords] /\ Distinct
  BY NobodyIs DEF Init, Distinct, Exists
<1>2. ReqTyped
  BY IdleIs DEF Init, ReqTyped
<1>3. NoLink \in LinkRecords /\ [st |-> "none", by |-> None] \in InviteRecords
  BY DEF NoLink, LinkRecords, InviteRecords
<1> QED BY <1>1, <1>2, <1>3, Bounds DEF Init, TypeInv, LinksTyped, RestTyped, Modes

\* Rows, links and requests stay well formed, and no two accounts that exist
\* share an address, however registrations and changes of address overlap.
THEOREM AccountsTypes == Spec => []TypeInv
<1>1. Init => TypeInv
  BY InitTypes
<1>2. TypeInv /\ [Next]_vars => TypeInv'
  BY StepTypes
<1> QED BY <1>1, <1>2, PTL DEF Spec

\* The type invariant of Accounts, the accounts' half of AccessTypeOK.
THEOREM AccountsTypeOK == Spec => []TypeOK
<1>1. TypeInv => TypeOK
  BY DEF TypeInv, Distinct, ReqTyped, LinksTyped, RestTyped, TypeOK
<1> QED BY <1>1, AccountsTypes, PTL

-----------------------------------------------------------------------------
(* The administrator.  Of a step it matters how the row of one user changes *)
(* and whether the claim is made.                                          *)

\* A step that leaves everybody's office and the administrator's standing.
LEMMA AdminKept ==
  ASSUME users \in [Users -> UserRecords], OneAdministrator, claimed' = claimed,
         claimed \in Users \cup {None},
         \A v \in Users : /\ users'[v].admin = users[v].admin
                          /\ v = claimed => users'[v].st = users[v].st
  PROVE  OneAdministrator'
<1>1. {v \in Users : users'[v].admin} = {v \in Users : users[v].admin}
  OBVIOUS
<1> QED BY <1>1 DEF OneAdministrator

\* A row other than the administrator's becomes one that is not an administrator.
LEMMA AdminOther ==
  ASSUME TypeInv, OneAdministrator, claimed' = claimed, NEW u \in Users, NEW x,
         users' = [users EXCEPT ![u] = x], u # claimed, ~x.admin
  PROVE  OneAdministrator'
<1>1. ~users[u].admin
  BY DEF OneAdministrator
<1>2. /\ users'[u] = x /\ \A v \in Users \ {u} : users'[v] = users[v]
      /\ users \in [Users -> UserRecords] /\ claimed \in Users \cup {None}
  BY DEF TypeInv, RestTyped
<1>3. {v \in Users : users'[v].admin} = {v \in Users : users[v].admin}
  BY <1>1, <1>2
<1> QED BY <1>2, <1>3 DEF OneAdministrator

LEMMA RegisterAdmin ==
  ASSUME TypeInv, OneAdministrator, NEW r \in Requests, NEW u \in Users, Admits(r, u)
  PROVE  OneAdministrator'
<1> DEFINE x == Newcomer(r, u)
<1>1. /\ x.st = "active" /\ (x.admin <=> claimed = None) /\ users' = [users EXCEPT ![u] = x]
      /\ users[u].st = "none" /\ claimed' = IF claimed = None THEN u ELSE claimed
  BY NewcomerIs DEF TypeInv, Admits, Claims
<1> HIDE DEF x
<1>2. u # claimed
  BY <1>1, AccountsAssumption DEF OneAdministrator, AccountsAssumption
<1>3. CASE claimed # None
  BY <1>1, <1>2, <1>3, AdminOther
<1>4. CASE claimed = None
  <2>1. /\ users'[u] = x /\ \A v \in Users \ {u} : users'[v] = users[v]
        /\ u # None /\ claimed' = u
    BY <1>1, <1>4, AccountsAssumption DEF TypeInv, AccountsAssumption
  <2>2. \A v \in Users : ~users[v].admin
    BY <1>4 DEF OneAdministrator
  <2>3. {v \in Users : users'[v].admin} = {u}
    BY <1>1, <1>4, <2>1, <2>2
  <2> QED BY <1>1, <2>1, <2>3 DEF OneAdministrator
<1> QED BY <1>3, <1>4

LEMMA StepAdmin ==
  ASSUME TypeInv, OneAdministrator, [Next]_vars
  PROVE  OneAdministrator'
<1>1. users \in [Users -> UserRecords] /\ claimed \in Users \cup {None}
  BY DEF TypeInv, RestTyped
<1>2. ASSUME UNCHANGED <<users, claimed>> PROVE OneAdministrator'
  BY <1>2 DEF OneAdministrator
<1>3. ASSUME NEW u, users[u].pw < MaxPw, users' = [users EXCEPT ![u].pw = @ + 1], claimed' = claimed
      PROVE  OneAdministrator'
  <2>1. CASE u \in Users
    <3>1. users' = [users EXCEPT ![u] = Repassworded(u)]
      BY <1>3 DEF Repassworded
    <3>2. Repassworded(u).st = users[u].st /\ Repassworded(u).admin = users[u].admin
      BY <1>1, <2>1, UserForms
    <3> QED BY <1>1, <1>3, <2>1, <3>1, <3>2, AdminKept
  <2>2. CASE u \notin Users
    BY <1>1, <1>2, <1>3, <2>2
  <2> QED BY <2>1, <2>2
<1>4. ASSUME NEW r \in Requests, LinkUse(r) PROVE OneAdministrator'
  <2> DEFINE l == req[r].link
             u == links[l].user
             e == links[l].email
  <2>1. l \in Links /\ links[l] \in LinkRecords /\ claimed' = claimed
    BY <1>4 DEF LinkUse, At, TypeInv, ReqTyped, LinksTyped
  <2>2. e \in Emails \cup {None}
    BY <2>1 DEF LinkRecords
  <2>3. \/ users' = users
        \/ users' = [users EXCEPT ![u] = Verified(u)]
        \/ users' = [users EXCEPT ![u] = Readdressed(u, e)]
        \/ users' = [users EXCEPT ![u].pw = @ + 1] /\ users[u].pw < MaxPw
    <3>1. \/ users' = users
          \/ users' = [users EXCEPT ![u].verified = TRUE]
          \/ users' = [users EXCEPT ![u].email = e, ![u].verified = TRUE]
          \/ users' = [users EXCEPT ![u].pw = @ + 1] /\ users[u].pw < MaxPw
      BY <1>4 DEF LinkUse
    <3> QED BY <1>1, <3>1 DEF Verified, Readdressed
  <2> HIDE DEF l, u, e
  <2>4. CASE /\ users' \in {users, [users EXCEPT ![u] = Verified(u)], [users EXCEPT ![u] = Readdressed(u, e)]}
             /\ u \notin Users
    BY <1>1, <1>2, <2>1, <2>4
  <2>5. CASE /\ users' \in {users, [users EXCEPT ![u] = Verified(u)], [users EXCEPT ![u] = Readdressed(u, e)]}
             /\ u \in Users
    <3>1. /\ Verified(u).st = users[u].st /\ Verified(u).admin = users[u].admin
          /\ Readdressed(u, e).st = users[u].st /\ Readdressed(u, e).admin = users[u].admin
      BY <1>1, <2>2, <2>5, UserForms
    <3> QED BY <1>1, <1>2, <2>1, <2>5, <3>1, AdminKept
  <2> QED BY <1>3, <2>1, <2>3, <2>4, <2>5
<1>5. ASSUME NEW r \in Requests, RegisterCommit(r) PROVE OneAdministrator'
  BY <1>2, <1>5, RegisterCases, RegisterAdmin
<1>6. ASSUME NEW r \in Requests, OidcCreate(r) PROVE OneAdministrator'
  <2>1. PICK u \in Users, e \in Emails, verified \in BOOLEAN :
          users[u].st = "none" /\ users' = [users EXCEPT ![u] = Stranger(e, verified)]
    BY <1>6 DEF OidcCreate, Stranger
  <2>2. u # claimed /\ claimed' = claimed
    BY <1>1, <1>6, <2>1, AccountsAssumption DEF OneAdministrator, OidcCreate, AccountsAssumption
  <2> QED BY <2>1, <2>2, StrangerIs, AdminOther
<1>7. ASSUME NEW r \in Requests, ChangePassword(r) PROVE OneAdministrator'
  BY <1>2, <1>3, <1>7 DEF ChangePassword
<1>8. ASSUME NEW u \in Users, ResetPassword(u) PROVE OneAdministrator'
  BY <1>3, <1>8 DEF ResetPassword
<1>9. ASSUME NEW u \in Users, UpdateUser(u) PROVE OneAdministrator'
  <2>1. PICK actor \in Users, st \in {"active", "banned"} :
          /\ users[actor].admin /\ users[actor].st = "active"
          /\ users' = [users EXCEPT ![u] = Standing(u, st)]
          /\ st = "banned" => actor # u
          /\ st = "active" => users[u].st = "banned"
    BY <1>9 DEF UpdateUser, Standing
  <2>2. actor = claimed /\ claimed' = claimed
    BY <1>9, <2>1 DEF OneAdministrator, UpdateUser
  <2>3. u # claimed
    BY <2>1, <2>2
  <2>4. Standing(u, st).admin = users[u].admin
    BY <1>1, UserForms
  <2> QED BY <1>1, <2>1, <2>2, <2>3, <2>4, AdminKept
<1>10. ASSUME NEW u \in Users, DeleteAccount(u) PROVE OneAdministrator'
  <2>1. /\ users' = [users EXCEPT ![u] = [Nobody EXCEPT !.st = "deleted"]] /\ claimed' = claimed
        /\ ~users[u].admin
    BY <1>10 DEF DeleteAccount
  <2>2. ~[Nobody EXCEPT !.st = "deleted"].admin
    BY DEF Nobody
  <2>3. u # claimed
    BY <2>1, AccountsAssumption DEF OneAdministrator, AccountsAssumption
  <2> QED BY <2>1, <2>2, <2>3, AdminOther
<1>11. ASSUME NEW r \in Requests,
              RegisterRead(r) \/ SendVerifyEmail(r) \/ RevokeRead(r) \/ RevokeInvite(r) \/ Login(r)
                \/ LoginRefused(r) \/ CreateSession(r) \/ ChangePasswordRead(r) \/ LinkRead(r)
       PROVE  UNCHANGED <<users, claimed>>
  BY <1>11 DEF RegisterRead, SendVerifyEmail, RevokeRead, RevokeInvite, Login, LoginRefused,
               CreateSession, ChangePasswordRead, LinkRead, tables
<1>12. ASSUME \/ \E u \in Users : RequestLink(u)
              \/ \E l \in Links : ExpireLink(l)
              \/ \E i \in Invites : CreateInvites(i) \/ ExpireInvite(i)
              \/ \E s \in sessions : Logout(s)
              \/ SetRegistrationMode \/ UNCHANGED vars
       PROVE  UNCHANGED <<users, claimed>>
  BY <1>12 DEF RequestLink, ExpireLink, CreateInvites, ExpireInvite, Logout, SetRegistrationMode,
               vars, tables
<1> QED BY <1>2, <1>4, <1>5, <1>6, <1>7, <1>8, <1>9, <1>10, <1>11, <1>12, Zenon DEF Next

\* From the first registration on there is exactly one administrator, active,
\* whatever registrations, bans and deletions overlap.
THEOREM AdministratorIsOne == Spec => []OneAdministrator
<1>1. Init => OneAdministrator
  BY DEF Init, OneAdministrator, Nobody
<1>2. TypeInv /\ OneAdministrator /\ [Next]_vars => OneAdministrator'
  BY StepAdmin
<1> QED BY <1>1, <1>2, AccountsTypes, PTL DEF Spec

-----------------------------------------------------------------------------
(* Sessions.                                                               *)

Knows(s) == Exists(s[1]) /\ (s[2] = users[s[1]].pw \/ s \in late)

LEMMA SessionsAre == SessionsKnowThePassword <=> \A s \in sessions : Knows(s)
BY DEF SessionsKnowThePassword, Knows

\* A user's sessions survive a change of his row that keeps him and his password.
LEMMA KnowsStill ==
  ASSUME NEW s, Knows(s), Exists(s[1])', users'[s[1]].pw = users[s[1]].pw, late \subseteq late'
  PROVE  Knows(s)'
BY DEF Knows

\* A step that changes one user's row and no other user's sessions.
LEMMA SessionStep ==
  ASSUME TypeInv, SessionsKnowThePassword, NEW u, NEW x, users' = [users EXCEPT ![u] = x],
         sessions' \subseteq sessions, late' = late,
         \/ \A s \in sessions' : s[1] # u
         \/ Exists(u) => x.st \in {"active", "banned"} /\ x.pw = users[u].pw
  PROVE  SessionsKnowThePassword'
<1> SUFFICES ASSUME NEW s \in sessions' PROVE Knows(s)'
  BY DEF SessionsKnowThePassword, Knows
<1>1. s \in sessions /\ Knows(s) /\ s[1] \in Users
  BY SessionsAre DEF TypeInv, RestTyped
<1>2. users \in [Users -> UserRecords] /\ Exists(s[1])
  BY <1>1 DEF TypeInv, Knows
<1>3. CASE s[1] # u
  <2>1. users'[s[1]] = users[s[1]]
    BY <1>1, <1>2, <1>3
  <2> QED BY <1>1, <1>2, <2>1, KnowsStill DEF Exists
<1>4. CASE s[1] = u
  <2>1. users'[u] = x /\ x.st \in {"active", "banned"} /\ x.pw = users[u].pw
    BY <1>1, <1>2, <1>4
  <2> QED BY <1>1, <1>4, <2>1, KnowsStill DEF Exists
<1> QED BY <1>3, <1>4

LEMMA SessionsGone == \A u : SessionsWithout(u) \subseteq sessions /\ \A s \in SessionsWithout(u) : s[1] # u
BY DEF SessionsWithout

LEMMA StepSessions ==
  ASSUME TypeInv, SessionsKnowThePassword, [Next]_vars
  PROVE  SessionsKnowThePassword'
<1>1. users \in [Users -> UserRecords]
  BY DEF TypeInv
<1>2. ASSUME users' = users, late' = late, sessions' \subseteq sessions
      PROVE  SessionsKnowThePassword'
  BY <1>2 DEF SessionsKnowThePassword, Exists
<1>3. ASSUME NEW u, users' = [users EXCEPT ![u].pw = @ + 1], sessions' = SessionsWithout(u), late' = late
      PROVE  SessionsKnowThePassword'
  <2> DEFINE x == [users[u] EXCEPT !.pw = @ + 1]
  <2>1. users' = [users EXCEPT ![u] = x]
    BY <1>3
  <2> HIDE DEF x
  <2> QED BY <1>3, <2>1, SessionsGone, SessionStep
<1>4. ASSUME NEW r \in Requests, LinkUse(r) PROVE SessionsKnowThePassword'
  <2> DEFINE l == req[r].link
             u == links[l].user
             e == links[l].email
  <2>1. late' = late
    BY <1>4 DEF LinkUse
  <2>2. \/ users' = users /\ sessions' = sessions
        \/ users' = [users EXCEPT ![u].verified = TRUE] /\ sessions' = sessions
        \/ users' = [users EXCEPT ![u].email = e, ![u].verified = TRUE] /\ sessions' = SessionsWithout(u)
        \/ users' = [users EXCEPT ![u].pw = @ + 1] /\ sessions' = SessionsWithout(u)
    BY <1>4 DEF LinkUse
  <2> HIDE DEF l, u, e
  <2>3. CASE users' = [users EXCEPT ![u].verified = TRUE] /\ sessions' = sessions
    <3>1. users' = [users EXCEPT ![u] = Verified(u)]
      BY <2>3 DEF Verified
    <3>2. CASE u \in Users
      <4>1. Verified(u).st = users[u].st /\ Verified(u).pw = users[u].pw
        BY <1>1, <3>2, UserForms
      <4> QED BY <2>1, <2>3, <3>1, <4>1, SessionStep DEF Exists
    <3>3. CASE u \notin Users
      BY <1>1, <1>2, <2>1, <2>3, <3>3
    <3> QED BY <3>2, <3>3
  <2>4. CASE /\ users' = [users EXCEPT ![u].email = e, ![u].verified = TRUE]
             /\ sessions' = SessionsWithout(u)
    <3>1. users' = [users EXCEPT ![u] = Readdressed(u, e)]
      BY <1>1, <2>4 DEF Readdressed
    <3> QED BY <2>1, <2>4, <3>1, SessionsGone, SessionStep
  <2> QED BY <1>2, <1>3, <2>1, <2>2, <2>3, <2>4
<1>5. ASSUME NEW r \in Requests, RegisterCommit(r) PROVE SessionsKnowThePassword'
  <2>1. sessions' = sessions /\ late' = late
    BY <1>5, RegisterCases
  <2>2. ASSUME NEW u \in Users, Admits(r, u) PROVE SessionsKnowThePassword'
    <3>1. users' = [users EXCEPT ![u] = Newcomer(r, u)] /\ ~Exists(u)
      BY <2>2 DEF Admits, Exists
    <3> QED BY <2>1, <3>1, SessionStep
  <2> QED BY <1>2, <1>5, <2>1, <2>2, RegisterCases
<1>6. ASSUME NEW r \in Requests, OidcCreate(r) PROVE SessionsKnowThePassword'
  <2>1. PICK u \in Users, e \in Emails, verified \in BOOLEAN :
          users[u].st = "none" /\ users' = [users EXCEPT ![u] = Stranger(e, verified)]
    BY <1>6 DEF OidcCreate, Stranger
  <2>2. ~Exists(u) /\ sessions' = sessions /\ late' = late
    BY <1>6, <2>1 DEF OidcCreate, history, Exists
  <2> QED BY <2>1, <2>2, SessionStep
<1>7. ASSUME NEW r \in Requests, ChangePassword(r) PROVE SessionsKnowThePassword'
  BY <1>2, <1>3, <1>7 DEF ChangePassword, history
<1>8. ASSUME NEW u \in Users, ResetPassword(u) PROVE SessionsKnowThePassword'
  BY <1>3, <1>8 DEF ResetPassword, history
<1>9. ASSUME NEW u \in Users, UpdateUser(u) PROVE SessionsKnowThePassword'
  <2>1. PICK st \in {"active", "banned"} : users' = [users EXCEPT ![u] = Standing(u, st)]
    BY <1>9 DEF UpdateUser, Standing
  <2>2. Standing(u, st).st = st /\ Standing(u, st).pw = users[u].pw
    BY <1>1, UserForms
  <2>3. sessions' = sessions /\ late' = late
    BY <1>9 DEF UpdateUser, history
  <2> QED BY <2>1, <2>2, <2>3, SessionStep
<1>10. ASSUME NEW u \in Users, DeleteAccount(u) PROVE SessionsKnowThePassword'
  <2>1. PICK x : users' = [users EXCEPT ![u] = x]
    BY <1>10 DEF DeleteAccount
  <2>2. sessions' = SessionsWithout(u) /\ late' = late
    BY <1>10 DEF DeleteAccount, history
  <2> QED BY <2>1, <2>2, SessionsGone, SessionStep
<1>11. ASSUME NEW r \in Requests, CreateSession(r) PROVE SessionsKnowThePassword'
  <2> DEFINE s == <<req[r].user, req[r].pw>>
  <2>1. users' = users /\ late \subseteq late'
    BY <1>11 DEF CreateSession
  <2>2. ASSUME NEW t \in sessions PROVE Knows(t)'
    <3>1. Knows(t)
      BY SessionsAre
    <3> QED BY <2>1, <3>1 DEF Knows, Exists
  <2>3. \/ sessions' = sessions
        \/ /\ sessions' = sessions \cup {s} /\ Exists(s[1])
           /\ late' = IF s[2] # users[s[1]].pw THEN late \cup {s} ELSE late
    BY <1>11 DEF CreateSession
  <2> HIDE DEF s
  <2>4. ASSUME NEW t \in sessions' PROVE Knows(t)'
    BY <2>1, <2>2, <2>3 DEF Knows, Exists
  <2> QED BY <2>4 DEF SessionsKnowThePassword, Knows
<1>12. ASSUME NEW s \in sessions, Logout(s) PROVE SessionsKnowThePassword'
  BY <1>2, <1>12 DEF Logout, history
<1>13. ASSUME NEW r \in Requests,
              RegisterRead(r) \/ SendVerifyEmail(r) \/ RevokeRead(r) \/ RevokeInvite(r) \/ Login(r)
                \/ LoginRefused(r) \/ ChangePasswordRead(r) \/ LinkRead(r)
       PROVE  UNCHANGED <<users, sessions, late>>
  BY <1>13 DEF RegisterRead, SendVerifyEmail, RevokeRead, RevokeInvite, Login, LoginRefused,
               ChangePasswordRead, LinkRead, tables, history
<1>14. ASSUME \/ \E u \in Users : RequestLink(u)
              \/ \E l \in Links : ExpireLink(l)
              \/ \E i \in Invites : CreateInvites(i) \/ ExpireInvite(i)
              \/ SetRegistrationMode \/ UNCHANGED vars
       PROVE  UNCHANGED <<users, sessions, late>>
  BY <1>14 DEF RequestLink, ExpireLink, CreateInvites, ExpireInvite, SetRegistrationMode,
               vars, tables, history
<1> QED BY <1>2, <1>4, <1>5, <1>6, <1>7, <1>8, <1>9, <1>10, <1>11, <1>12, <1>13, <1>14, Zenon DEF Next

\* Every session knows its user's present password, however many logins,
\* changes, resets and deletions overlap, unless it was stored by a login that
\* had verified the former one.
THEOREM SessionsKnow == Spec => []SessionsKnowThePassword
<1>1. Init => SessionsKnowThePassword
  BY DEF Init, SessionsKnowThePassword
<1>2. TypeInv /\ SessionsKnowThePassword /\ [Next]_vars => SessionsKnowThePassword'
  BY StepSessions
<1> QED BY <1>1, <1>2, AccountsTypes, PTL DEF Spec

-----------------------------------------------------------------------------
(* Codes.  A use of a link spends at least one valid link: its own, or for *)
(* a reset some reset link of the same user.  Spent links stay spent.      *)

Over == {"used", "deleted"}

Spent(u) == {l \in Links : links[l].user = u /\ links[l].purpose = "reset" /\ links[l].st \in Over}

LinkAt(l) ==
  /\ links[l].st = "none" => links[l] = NoLink /\ uses[l] = 0
  /\ links[l].purpose # "reset" => uses[l] <= 1 /\ (uses[l] = 1 => links[l].st \in Over)
  /\ \A u \in Users : links[l].user = u /\ links[l].purpose = "reset" => uses[l] <= Cardinality(Spent(u))

OneValid ==
  \A k, l \in Links : k # l /\ links[k].st = "valid" /\ links[l].st = "valid"
       => <<links[k].user, links[k].purpose>> # <<links[l].user, links[l].purpose>>

LinkInv == (\A l \in Links : LinkAt(l)) /\ OneValid

InviteInv ==
  \A i \in Invites :
    /\ joined[i] <= 1
    /\ joined[i] = 1 <=> invites[i].by # None
    /\ invites[i].st = "revoked" => joined[i] = 0

LEMMA SpentCount ==
  ASSUME NEW S \in SUBSET Links, NEW T \in SUBSET Links
  PROVE  /\ IsFiniteSet(S) /\ Cardinality(S) \in Nat /\ Cardinality(T) \in Nat
         /\ S \subseteq T => Cardinality(S) <= Cardinality(T)
         /\ S \subseteq T /\ S # T => Cardinality(S) + 1 <= Cardinality(T)
<1>1. IsFiniteSet(S) /\ IsFiniteSet(T)
  BY AccountsAssumption, FS_Subset DEF AccountsAssumption
<1>2. Cardinality(S) \in Nat /\ Cardinality(T) \in Nat
  BY <1>1, FS_CardinalityType
<1>3. S \subseteq T => Cardinality(S) <= Cardinality(T)
  BY <1>1, FS_Subset
<1>4. S \subseteq T /\ S # T => Cardinality(S) + 1 <= Cardinality(T)
  <2> SUFFICES ASSUME S \subseteq T, S # T PROVE Cardinality(S) < Cardinality(T)
    BY <1>2
  <2>1. Cardinality(S) <= Cardinality(T) /\ (Cardinality(S) = Cardinality(T) => S = T)
    BY <1>1, FS_Subset
  <2> QED BY <1>2, <2>1
<1> QED BY <1>1, <1>2, <1>3, <1>4

\* A change of a link: it is issued, or keeps its user and its kind and stays
\* spent if it was.
Changes(k) ==
  /\ links'[k].st = "none" => links'[k] = links[k]
  /\ \/ links[k].st = "none"
     \/ /\ links'[k].user = links[k].user /\ links'[k].purpose = links[k].purpose
        /\ links[k].st \in Over => links'[k].st \in Over

LEMMA SpentStays ==
  ASSUME \A k \in Links : Changes(k), NEW u
  PROVE  Spent(u) \subseteq Spent(u)'
BY DEF Changes, Spent, Over

LEMMA LinksChange ==
  ASSUME TypeInv, LinkInv, uses' = uses, \A k \in Links : Changes(k), OneValid'
  PROVE  LinkInv'
<1> SUFFICES ASSUME NEW l \in Links PROVE LinkAt(l)'
  BY DEF LinkInv
<1>1. LinkAt(l) /\ Changes(l) /\ uses[l] \in Nat
  BY DEF LinkInv, TypeInv, RestTyped
<1>2. (links[l].st = "none" => links[l] = NoLink /\ uses[l] = 0)'
  BY <1>1 DEF LinkAt, Changes
<1>3. (links[l].purpose # "reset" => uses[l] <= 1 /\ (uses[l] = 1 => links[l].st \in Over))'
  <2>1. CASE links[l].st = "none"
    BY <1>1, <2>1 DEF LinkAt
  <2>2. CASE links[l].st # "none"
    BY <1>1, <2>2 DEF LinkAt, Changes, Over
  <2> QED BY <2>1, <2>2
<1>4. ASSUME NEW u \in Users, links'[l].user = u, links'[l].purpose = "reset"
      PROVE  uses'[l] <= Cardinality(Spent(u)')
  <2>1. /\ Cardinality(Spent(u)) \in Nat /\ Cardinality(Spent(u)') \in Nat
        /\ Cardinality(Spent(u)) <= Cardinality(Spent(u)')
    <3>1. Spent(u) \in SUBSET Links /\ Spent(u)' \in SUBSET Links
      BY DEF Spent
    <3> QED BY <3>1, SpentStays, SpentCount
  <2>2. CASE links[l].st = "none"
    BY <1>1, <2>1, <2>2 DEF LinkAt
  <2>3. CASE links[l].st # "none"
    <3>1. uses[l] <= Cardinality(Spent(u))
      BY <1>1, <1>4, <2>3 DEF LinkAt, Changes
    <3> QED BY <1>1, <2>1, <3>1
  <2> QED BY <2>2, <2>3
<1> QED BY <1>2, <1>3, <1>4 DEF LinkAt

LEMMA IssueLinks ==
  ASSUME TypeInv, LinkInv, NEW l \in Links, links[l].st = "none", NEW u, NEW purpose, NEW email,
         links' = Issued(links, l, u, purpose, email), uses' = uses
  PROVE  LinkInv'
<1>1. /\ links'[l] = [st |-> "valid", user |-> u, purpose |-> purpose, email |-> email]
      /\ \A k \in Links \ {l} :
           links'[k] = IF links[k].st \in {"valid", "expired"} /\ links[k].user = u /\ links[k].purpose = purpose
                         THEN [links[k] EXCEPT !.st = "used"] ELSE links[k]
  BY DEF Issued
<1>2. \A k \in Links : links[k] \in LinkRecords
  BY DEF TypeInv, LinksTyped
<1>3. ASSUME NEW k \in Links \ {l}
      PROVE  /\ links'[k].user = links[k].user /\ links'[k].purpose = links[k].purpose
             /\ links'[k] = links[k] \/ links'[k].st = "used"
             /\ links'[k].st = "valid" => links'[k] = links[k] /\ ~(links[k].user = u /\ links[k].purpose = purpose)
  <2>1. CASE links[k].st \in {"valid", "expired"} /\ links[k].user = u /\ links[k].purpose = purpose
    <3>1. links'[k] = [links[k] EXCEPT !.st = "used"] /\ links[k] \in LinkRecords
      BY <1>1, <1>2, <2>1
    <3> QED BY <3>1 DEF LinkRecords
  <2>2. CASE ~(links[k].st \in {"valid", "expired"} /\ links[k].user = u /\ links[k].purpose = purpose)
    BY <1>1, <2>2
  <2> QED BY <2>1, <2>2
<1>4. \A k \in Links : Changes(k)
  BY <1>1, <1>3 DEF Changes, Over
<1>5. OneValid'
  BY <1>1, <1>3 DEF LinkInv, OneValid
<1> QED BY <1>4, <1>5, LinksChange

\* A step that only ends links.
LEMMA EndLinks ==
  ASSUME TypeInv, LinkInv, uses' = uses,
         \A k \in Links : \/ links'[k] = links[k]
                          \/ /\ links[k].st # "none" /\ links'[k].st \in {"used", "expired", "deleted"}
                             /\ links[k].st \in Over => links'[k].st \in Over
                             /\ links'[k].user = links[k].user /\ links'[k].purpose = links[k].purpose
  PROVE  LinkInv'
<1>1. \A k \in Links : Changes(k)
  BY DEF Changes
<1>2. OneValid'
  BY DEF LinkInv, OneValid
<1> QED BY <1>1, <1>2, LinksChange

LEMMA UseLinks ==
  ASSUME TypeInv, LinkInv, NEW l \in Links, Consumes(l) # {},
         links' = [k \in Links |-> IF k \in Consumes(l) THEN [links[k] EXCEPT !.st = "used"] ELSE links[k]],
         uses' = [uses EXCEPT ![l] = @ + 1]
  PROVE  LinkInv'
<1>1. \A k \in Links : links[k] \in LinkRecords /\ uses[k] \in Nat /\ LinkAt(k)
  BY DEF TypeInv, LinksTyped, RestTyped, LinkInv
<1>2. /\ \A k \in Consumes(l) : k \in Links /\ links[k].st = "valid"
      /\ links[l].purpose = "reset" => \A k \in Consumes(l) : links[k].purpose = "reset" /\ links[k].user = links[l].user
      /\ links[l].purpose # "reset" => Consumes(l) = {l}
  BY DEF Consumes
<1>3. ASSUME NEW k \in Links
      PROVE  /\ links'[k].user = links[k].user /\ links'[k].purpose = links[k].purpose
             /\ IF k \in Consumes(l) THEN links'[k].st = "used" ELSE links'[k] = links[k]
  <2>1. CASE k \in Consumes(l)
    <3>1. links'[k] = [links[k] EXCEPT !.st = "used"]
      BY <2>1
    <3> QED BY <1>1, <2>1, <3>1 DEF LinkRecords
  <2>2. CASE k \notin Consumes(l)
    BY <2>2
  <2> QED BY <2>1, <2>2
<1>4. \A k \in Links : Changes(k)
  BY <1>2, <1>3 DEF Changes, Over
<1>5. OneValid'
  BY <1>3 DEF LinkInv, OneValid
<1>6. uses'[l] = uses[l] + 1 /\ \A k \in Links \ {l} : uses'[k] = uses[k]
  BY DEF TypeInv, RestTyped
<1>7. ASSUME NEW k \in Links PROVE LinkAt(k)'
  <2>1. LinkAt(k) /\ uses[k] \in Nat
    BY <1>1
  <2>2. CASE k # l
    <3>1. (links[k].st = "none" => links[k] = NoLink /\ uses[k] = 0)'
      BY <1>3, <1>6, <2>1, <2>2 DEF LinkAt
    <3>2. (links[k].purpose # "reset" => uses[k] <= 1 /\ (uses[k] = 1 => links[k].st \in Over))'
      BY <1>3, <1>6, <2>1, <2>2 DEF LinkAt, Over
    <3>3. ASSUME NEW u \in Users, links'[k].user = u, links'[k].purpose = "reset"
          PROVE  uses'[k] <= Cardinality(Spent(u)')
      <4>1. /\ Cardinality(Spent(u)) \in Nat /\ Cardinality(Spent(u)') \in Nat
            /\ Cardinality(Spent(u)) <= Cardinality(Spent(u)')
        <5>1. Spent(u) \in SUBSET Links /\ Spent(u)' \in SUBSET Links
          BY DEF Spent
        <5> QED BY <1>4, <5>1, SpentStays, SpentCount
      <4>2. uses[k] <= Cardinality(Spent(u))
        BY <1>3, <2>1, <3>3 DEF LinkAt
      <4> QED BY <1>6, <2>1, <2>2, <4>1, <4>2
    <3> QED BY <3>1, <3>2, <3>3 DEF LinkAt
  <2>3. CASE k = l
    <3>1. (links[k].st = "none" => links[k] = NoLink /\ uses[k] = 0)'
      <4>1. links'[l].st # "none"
        <5>1. CASE l \in Consumes(l)
          BY <1>3, <5>1
        <5>2. CASE l \notin Consumes(l)
          <6>1. links[l].purpose = "reset"
            BY <1>2, <5>2
          <6>2. PICK m \in Consumes(l) : links[m].user = links[l].user /\ links[m].purpose = "reset"
            BY <1>2, <6>1
          <6>3. links[l].st # "none"
            <7> SUFFICES ASSUME links[l] = NoLink PROVE FALSE
              BY <1>1 DEF LinkAt
            <7> QED BY <6>1, AccountsAssumption DEF AccountsAssumption, NoLink
          <6> QED BY <1>3, <5>2, <6>3
        <5> QED BY <5>1, <5>2
      <4> QED BY <2>3, <4>1
    <3>2. (links[k].purpose # "reset" => uses[k] <= 1 /\ (uses[k] = 1 => links[k].st \in Over))'
      <4> SUFFICES ASSUME links[l].purpose # "reset" PROVE uses'[l] <= 1 /\ links'[l].st \in Over
        BY <1>3, <2>3
      <4>1. l \in Consumes(l) /\ links[l].st = "valid"
        BY <1>2
      <4>2. uses[l] = 0
        BY <1>1, <4>1 DEF LinkAt, Over
      <4> QED BY <1>3, <1>6, <4>1, <4>2 DEF Over
    <3>3. ASSUME NEW u \in Users, links'[k].user = u, links'[k].purpose = "reset"
          PROVE  uses'[k] <= Cardinality(Spent(u)')
      <4>1. links[l].user = u /\ links[l].purpose = "reset"
        BY <1>3, <2>3, <3>3
      <4>2. PICK m \in Consumes(l) : TRUE
        OBVIOUS
      <4>3. m \in Links /\ links[m].st = "valid" /\ links[m].user = u /\ links[m].purpose = "reset"
        BY <1>2, <4>1, <4>2
      <4>4. m \notin Spent(u) /\ m \in Spent(u)'
        BY <1>3, <4>2, <4>3 DEF Spent, Over
      <4>5. /\ Cardinality(Spent(u)) \in Nat /\ Cardinality(Spent(u)') \in Nat
            /\ Cardinality(Spent(u)) + 1 <= Cardinality(Spent(u)')
        <5>1. Spent(u) \in SUBSET Links /\ Spent(u)' \in SUBSET Links
          BY DEF Spent
        <5> QED BY <1>4, <4>4, <5>1, SpentStays, SpentCount
      <4>6. uses[l] <= Cardinality(Spent(u))
        BY <1>1, <4>1 DEF LinkAt
      <4> QED BY <1>1, <1>6, <2>3, <4>5, <4>6
    <3> QED BY <3>1, <3>2, <3>3 DEF LinkAt
  <2> QED BY <2>2, <2>3
<1> QED BY <1>5, <1>7 DEF LinkInv

LEMMA StepLinks ==
  ASSUME TypeInv, LinkInv, [Next]_vars
  PROVE  LinkInv'
<1>1. ASSUME UNCHANGED <<links, uses>> PROVE LinkInv'
  BY <1>1 DEF LinkInv, LinkAt, OneValid, Spent
<1>2. ASSUME NEW u \in Users, RequestLink(u) PROVE LinkInv'
  BY <1>2, IssueLinks DEF RequestLink, history
<1>3. ASSUME NEW r \in Requests, SendVerifyEmail(r) PROVE LinkInv'
  <2>1. uses' = uses
    BY <1>3 DEF SendVerifyEmail, history
  <2>2. \/ links' = links
        \/ \E l \in Links : links[l].st = "none" /\ links' = Issued(links, l, req[r].user, "verify", None)
    BY <1>3 DEF SendVerifyEmail
  <2> QED BY <1>1, <2>1, <2>2, IssueLinks
<1>4. ASSUME NEW r \in Requests, LinkUse(r) PROVE LinkInv'
  <2> DEFINE l == req[r].link
  <2>1. l \in Links
    BY <1>4 DEF LinkUse, At, TypeInv, ReqTyped
  <2>2. \/ UNCHANGED <<links, uses>>
        \/ /\ Consumes(l) # {}
           /\ links' = [k \in Links |-> IF k \in Consumes(l) THEN [links[k] EXCEPT !.st = "used"] ELSE links[k]]
           /\ uses' = [uses EXCEPT ![l] = @ + 1]
    BY <1>4 DEF LinkUse
  <2> HIDE DEF l
  <2> QED BY <1>1, <2>1, <2>2, UseLinks
<1>5. ASSUME NEW l \in Links, ExpireLink(l) PROVE LinkInv'
  <2>1. /\ uses' = uses /\ links[l].st = "valid" /\ links[l] \in LinkRecords
        /\ links' = [links EXCEPT ![l] = [links[l] EXCEPT !.st = "expired"]]
    BY <1>5 DEF ExpireLink, history, TypeInv, LinksTyped
  <2>2. /\ links'[l].st = "expired" /\ links'[l].user = links[l].user
        /\ links'[l].purpose = links[l].purpose /\ \A k \in Links \ {l} : links'[k] = links[k]
    BY <2>1 DEF TypeInv, LinksTyped, LinkRecords
  <2> QED BY <2>1, <2>2, EndLinks DEF Over
<1>6. ASSUME NEW u \in Users, DeleteAccount(u) PROVE LinkInv'
  <2>1. /\ uses' = uses
        /\ links' = [l \in Links |-> IF links[l].user = u THEN [links[l] EXCEPT !.st = "deleted"] ELSE links[l]]
    BY <1>6 DEF DeleteAccount, history
  <2>2. ASSUME NEW k \in Links
        PROVE  \/ links'[k] = links[k]
               \/ /\ links[k].st # "none" /\ links'[k].st = "deleted"
                  /\ links'[k].user = links[k].user /\ links'[k].purpose = links[k].purpose
    <3>1. links[k] \in LinkRecords /\ LinkAt(k)
      BY DEF TypeInv, LinksTyped, LinkInv
    <3>2. CASE links[k].user = u
      <4>1. links[k].st # "none"
        BY <3>1, <3>2, AccountsAssumption DEF LinkAt, NoLink, AccountsAssumption
      <4>2. links'[k] = [links[k] EXCEPT !.st = "deleted"]
        BY <2>1, <3>2
      <4> QED BY <3>1, <4>1, <4>2 DEF LinkRecords
    <3>3. CASE links[k].user # u
      BY <2>1, <3>3
    <3> QED BY <3>2, <3>3
  <2> QED BY <2>1, <2>2, EndLinks DEF Over
<1>7. ASSUME NEW r \in Requests,
             RegisterRead(r) \/ RevokeRead(r) \/ RevokeInvite(r) \/ Login(r) \/ LoginRefused(r)
               \/ ChangePasswordRead(r) \/ LinkRead(r)
      PROVE  UNCHANGED <<links, uses>>
  BY <1>7 DEF RegisterRead, RevokeRead, RevokeInvite, Login, LoginRefused, ChangePasswordRead,
              LinkRead, tables, history
<1>8. ASSUME NEW r \in Requests, OidcCreate(r) \/ CreateSession(r) \/ ChangePassword(r)
      PROVE  UNCHANGED <<links, uses>>
  BY <1>8 DEF OidcCreate, CreateSession, ChangePassword, history
<1>9. ASSUME NEW r \in Requests, RegisterCommit(r) PROVE UNCHANGED <<links, uses>>
  BY <1>9, RegisterCases
<1>10. ASSUME \/ \E u \in Users : ResetPassword(u) \/ UpdateUser(u)
              \/ \E i \in Invites : CreateInvites(i) \/ ExpireInvite(i)
              \/ \E s \in sessions : Logout(s)
              \/ SetRegistrationMode \/ UNCHANGED vars
       PROVE  UNCHANGED <<links, uses>>
  BY <1>10 DEF ResetPassword, UpdateUser, CreateInvites, ExpireInvite, Logout, SetRegistrationMode,
               vars, tables, history
<1> QED BY <1>1, <1>2, <1>3, <1>4, <1>5, <1>6, <1>7, <1>8, <1>9, <1>10, Zenon DEF Next

LEMMA StepInvites ==
  ASSUME TypeInv, InviteInv, [Next]_vars
  PROVE  InviteInv'
<1>1. ASSUME UNCHANGED <<invites, joined>> PROVE InviteInv'
  BY <1>1 DEF InviteInv
<1>2. invites \in [Invites -> InviteRecords] /\ joined \in [Invites -> Nat]
  BY DEF TypeInv, RestTyped
<1>3. ASSUME NEW i \in Invites, NEW st \in {"live", "expired", "revoked"},
             invites' = [invites EXCEPT ![i].st = st], joined' = joined,
             st = "revoked" => invites[i].by = None
      PROVE  InviteInv'
  <2>1. /\ invites'[i].st = st /\ invites'[i].by = invites[i].by
        /\ \A k \in Invites \ {i} : invites'[k] = invites[k]
    BY <1>2, <1>3 DEF InviteRecords
  <2>2. invites[i].by = None => joined[i] = 0
    BY <1>2 DEF InviteInv
  <2> QED BY <1>3, <2>1, <2>2 DEF InviteInv
<1>4. ASSUME NEW r \in Requests, NEW u \in Users, Admits(r, u) PROVE InviteInv'
  <2> DEFINE i == req[r].invite
  <2>1. i \in Invites \cup {None}
    BY DEF TypeInv, ReqTyped, ReqRecords
  <2>2. CASE i = None
    BY <1>1, <1>4, <2>2 DEF Admits
  <2>3. CASE i # None
    <3>1. /\ i \in Invites /\ invites[i].st = "live" /\ invites[i].by = None
          /\ invites' = [invites EXCEPT ![i].by = u] /\ joined' = [joined EXCEPT ![i] = @ + 1]
          /\ u # None
      BY <1>4, <2>1, <2>3, AccountsAssumption DEF Admits, Redeemable, AccountsAssumption
    <3> HIDE DEF i
    <3>2. /\ invites'[i].st = "live" /\ invites'[i].by = u
          /\ joined[i] = 0 /\ joined'[i] = 1
          /\ \A k \in Invites \ {i} : invites'[k] = invites[k] /\ joined'[k] = joined[k]
      <4>1. joined[i] = 0
        BY <1>2, <3>1 DEF InviteInv
      <4> QED BY <1>2, <3>1, <4>1 DEF InviteRecords
    <3> QED BY <3>1, <3>2 DEF InviteInv
  <2> QED BY <2>2, <2>3
<1>5. ASSUME NEW r \in Requests, RegisterCommit(r) PROVE InviteInv'
  BY <1>1, <1>4, <1>5, RegisterCases
<1>6. ASSUME NEW r \in Requests, RevokeInvite(r) PROVE InviteInv'
  <2> DEFINE i == req[r].invite
  <2>1. /\ joined' = joined
        /\ invites' = IF invites[i].by = None THEN [invites EXCEPT ![i].st = "revoked"] ELSE invites
    BY <1>6 DEF RevokeInvite, history
  <2> HIDE DEF i
  <2>2. CASE i \in Invites
    BY <1>1, <1>3, <2>1, <2>2
  <2>3. CASE i \notin Invites
    BY <1>1, <1>2, <2>1, <2>3
  <2> QED BY <2>2, <2>3
<1>7. ASSUME NEW i \in Invites, CreateInvites(i) \/ ExpireInvite(i) PROVE InviteInv'
  BY <1>3, <1>7 DEF CreateInvites, ExpireInvite, history
<1>8. ASSUME NEW r \in Requests,
             RegisterRead(r) \/ RevokeRead(r) \/ Login(r) \/ LoginRefused(r)
               \/ ChangePasswordRead(r) \/ LinkRead(r)
      PROVE  UNCHANGED <<invites, joined>>
  BY <1>8 DEF RegisterRead, RevokeRead, Login, LoginRefused, ChangePasswordRead, LinkRead, tables,
              history
<1>9. ASSUME NEW r \in Requests,
             SendVerifyEmail(r) \/ LinkUse(r) \/ OidcCreate(r) \/ CreateSession(r) \/ ChangePassword(r)
      PROVE  UNCHANGED <<invites, joined>>
  BY <1>9 DEF SendVerifyEmail, LinkUse, OidcCreate, CreateSession, ChangePassword, history
<1>10. ASSUME \/ \E u \in Users : RequestLink(u) \/ ResetPassword(u) \/ UpdateUser(u) \/ DeleteAccount(u)
              \/ \E l \in Links : ExpireLink(l)
              \/ \E s \in sessions : Logout(s)
              \/ SetRegistrationMode \/ UNCHANGED vars
       PROVE  UNCHANGED <<invites, joined>>
  BY <1>10 DEF RequestLink, ResetPassword, UpdateUser, DeleteAccount, ExpireLink, Logout,
               SetRegistrationMode, vars, tables, history
<1> QED BY <1>1, <1>5, <1>6, <1>7, <1>8, <1>9, <1>10, Zenon DEF Next

\* What was used up stays so: an invite admits one account and none after its
\* revocation, a verification or a change of address happens once per link, and
\* resets are never more than the reset links spent, for any number of requests.
THEOREM CodesAreSpentOnce == Spec => []CodesWorkOnce
<1>1. Init => LinkInv /\ InviteInv
  <2> SUFFICES ASSUME Init PROVE LinkInv /\ InviteInv
    OBVIOUS
  <2>1. \A l \in Links : links[l] = NoLink /\ uses[l] = 0
    BY DEF Init
  <2>2. NoLink.st = "none" /\ NoLink.user = None /\ None \notin Users
    BY AccountsAssumption DEF NoLink
  <2>3. ASSUME NEW l \in Links PROVE LinkAt(l)
    BY <2>1, <2>2 DEF LinkAt
  <2>4. OneValid
    BY <2>1, <2>2 DEF OneValid
  <2>5. InviteInv
    BY DEF Init, InviteInv
  <2> QED BY <2>3, <2>4, <2>5 DEF LinkInv
<1>2. TypeInv /\ LinkInv /\ InviteInv /\ [Next]_vars => LinkInv' /\ InviteInv'
  BY StepLinks, StepInvites
<1>3. TypeInv /\ LinkInv /\ InviteInv => CodesWorkOnce
  <2> SUFFICES ASSUME TypeInv, LinkInv, InviteInv PROVE CodesWorkOnce
    OBVIOUS
  <2>1. \A l \in Links : links[l].purpose # "reset" => uses[l] <= 1
    BY DEF LinkInv, LinkAt
  <2>2. ASSUME NEW u \in Users
        PROVE  LET mine == {l \in Links : links[l].user = u /\ links[l].purpose = "reset"}
               IN \A n \in 1 .. 2 : (\E l \in mine : uses[l] = n) =>
                    Cardinality({l \in mine : links[l].st \in {"used", "deleted"}}) >= n
    <3> DEFINE mine == {l \in Links : links[l].user = u /\ links[l].purpose = "reset"}
    <3>1. {l \in mine : links[l].st \in {"used", "deleted"}} = Spent(u)
      BY DEF Spent, Over
    <3>2. ASSUME NEW n \in 1 .. 2, NEW l \in mine, uses[l] = n
          PROVE  Cardinality(Spent(u)) >= n
      <4>1. uses[l] <= Cardinality(Spent(u)) /\ uses[l] \in Nat
        BY DEF LinkInv, LinkAt, TypeInv, RestTyped
      <4>2. Cardinality(Spent(u)) \in Nat
        <5>1. Spent(u) \in SUBSET Links
          BY DEF Spent
        <5> QED BY <5>1, SpentCount
      <4> QED BY <3>2, <4>1, <4>2
    <3> QED BY <3>1, <3>2
  <2>3. OneValid
    BY DEF LinkInv
  <2>4. InviteInv
    OBVIOUS
  <2> QED BY <2>1, <2>2, <2>3, <2>4 DEF CodesWorkOnce, OneValid, InviteInv
<1> QED BY <1>1, <1>2, <1>3, AccountsTypes, PTL DEF Spec

-----------------------------------------------------------------------------
(* Groups and policies.  What an administrator has read is a row of the     *)
(* work, and holds as long as the row is not stale or is told of what was   *)
(* written since.                                                          *)

\* What a request under way has seen of the groups ...
ValidRow(row) == G!ValidLifecycle(row.def, row.max)

GroupWork(w) ==
  /\ w.pc = "newgroup" => w.g \in G!GroupIds /\ group[w.g].st = "none" /\ ValidRow(G!Patched(G!NoGroup, w.edit))
  /\ w.pc \in {"group", "user", "dropgroup"} => w.g \in G!GroupIds /\ group[w.g].st # "none"
  /\ w.pc = "group" /\ w.stale = FALSE /\ G!Live(w.g) => ValidRow(G!Patched(group[w.g], w.edit))
  /\ w.pc = "dropgroup" /\ member = w.g => <<"user", 1>> \in w.since

\* ... of the policies ...
PolicyWork(w) ==
  /\ w.pc \in {"disable", "policy", "referees", "droppolicy", "commit"} => w.p \in G!PolicyIds
  /\ w.pc = "policy" => w.cfg.secret = w.cfg.endpoint /\ w.cfg.st = "live"
  /\ w.pc \in {"referees", "droppolicy"} =>
       \A i \in G!Images : image[i].st = "live" /\ image[i].policy = w.p => <<"file", i>> \in w.since
  /\ w.pc = "droppolicy" =>
       \A g \in G!GroupIds : G!Live(g) /\ w.p \in G!Range(group[g].allowed) => <<"group", g>> \in w.since

\* ... and of the limits images are under.
ImageWork(w) ==
  /\ w.pc \in {"resolve", "commit", "expiry"} => w.i \in G!Images
  /\ w.pc \in {"resolve", "commit", "expiry"} /\ w.stale = FALSE /\ G!Live(member) => G!Within(w.exp, G!CapOf(group[member]))
  /\ w.pc = "clamp" /\ w.stale = FALSE /\ G!Live(member) => w.exp = G!CapOf(group[member])

WorkHolds == \A a \in Admins, w \in G!WorkRecords : work[a] = w => GroupWork(w) /\ PolicyWork(w) /\ ImageWork(w)

\* Two requests never insert the same group.
Apart ==
  \A a, b \in Admins : a # b /\ work[a].pc = "newgroup" /\ work[b].pc = "newgroup" => work[a].g # work[b].g

TablesHold ==
  /\ group[member].st # "none"
  /\ \A i \in G!Images : image[i].st = "live" => image[i].policy \in G!PolicyIds

GroupsInv == G!TypeOK /\ TablesHold /\ G!RulesHold /\ WorkHolds /\ Apart

-----------------------------------------------------------------------------
LEMMA NothingIs ==
  /\ G!AnyEnd \in Endpoints /\ G!NoPolicy \in G!PolicyRecords /\ G!NoPolicy.secret = G!NoPolicy.endpoint
  /\ <<>> \in G!Lists /\ <<1>> \in G!Lists /\ 1 \in G!GroupIds /\ 1 \in G!PolicyIds
  /\ G!NoGroup \in G!GroupRecords /\ G!NoGroup.st = "none" /\ G!NoGroup.allowed = <<>> /\ G!NoImage \in G!ImageRecords
  /\ G!NoEdit \in G!EditRecords /\ G!NoWork \in G!WorkRecords
<1>1. G!AnyEnd \in Endpoints
  BY GroupsAssumption DEF G!AnyEnd
<1>2. G!NoPolicy \in G!PolicyRecords /\ G!NoPolicy.secret = G!NoPolicy.endpoint
  BY <1>1 DEF G!NoPolicy, G!PolicyRecords
<1>3. 1 \in G!GroupIds /\ 1 \in G!PolicyIds /\ NumPolicies \in Nat
  BY GroupsAssumption DEF G!GroupIds, G!PolicyIds
<1>4. <<>> \in G!Lists
  <2>1. <<>> \in [1 .. 0 -> G!PolicyIds] /\ G!IsInjective(<<>>)
    BY DEF G!IsInjective
  <2> QED BY <1>3, <2>1 DEF G!Lists
<1>5. <<1>> \in G!Lists
  <2>1. <<1>> \in [1 .. 1 -> G!PolicyIds] /\ G!IsInjective(<<1>>)
    BY <1>3 DEF G!IsInjective
  <2>2. 1 \in 0 .. NumPolicies
    BY GroupsAssumption
  <2> QED BY <2>1, <2>2 DEF G!Lists
<1>6. G!NoGroup \in G!GroupRecords /\ G!NoGroup.st = "none" /\ G!NoGroup.allowed = <<>>
  BY <1>4 DEF G!NoGroup, G!GroupRecords, G!Durations
<1>7. G!NoImage \in G!ImageRecords
  BY <1>3 DEF G!NoImage, G!ImageRecords, G!Durations
<1>8. G!NoEdit \in G!EditRecords
  BY DEF G!NoEdit, G!EditRecords
<1>9. G!NoWork \in G!WorkRecords
  BY <1>2, <1>4, <1>8, GroupsAssumption DEF G!NoWork, G!WorkRecords, G!Durations
<1> QED BY <1>1, <1>2, <1>3, <1>4, <1>5, <1>6, <1>7, <1>8, <1>9

LEMMA NoWorkHolds == GroupWork(G!NoWork) /\ PolicyWork(G!NoWork) /\ ImageWork(G!NoWork) /\ G!NoWork.pc = "idle"
BY DEF G!NoWork, GroupWork, PolicyWork, ImageWork

LEMMA NoWorkHoldsNext == GroupWork(G!NoWork)' /\ PolicyWork(G!NoWork)' /\ ImageWork(G!NoWork)'
BY DEF G!NoWork, GroupWork, PolicyWork, ImageWork, G!NoPolicy, G!NoEdit

LEMMA Rows ==
  ASSUME G!TypeOK
  PROVE  /\ \A g \in G!GroupIds : group[g] \in G!GroupRecords /\ group[g].allowed \in G!Lists
         /\ \A a \in Admins : work[a] \in G!WorkRecords
         /\ DOMAIN group = G!GroupIds /\ DOMAIN policy = G!PolicyIds /\ DOMAIN image = G!Images /\ DOMAIN work = Admins
         /\ member \in G!GroupIds
BY DEF G!TypeOK, G!GroupRecords

LEMMA PatchedTyped ==
  ASSUME NEW row \in G!GroupRecords, NEW e \in G!EditRecords
  PROVE  /\ G!Patched(row, e) \in G!GroupRecords /\ G!Patched(row, e).st = row.st
         /\ G!Patched(row, e).allowed = IF e.allowed = <<G!Keep>> THEN row.allowed ELSE e.allowed
BY DEF G!Patched, G!GroupRecords, G!EditRecords, G!Durations, G!Keep

LEMMA CapTyped ==
  ASSUME NEW row \in G!GroupRecords
  PROVE  G!CapOf(row) \in G!Durations
BY DEF G!CapOf, G!GroupRecords, G!Durations

LEMMA GroupsInit == G!Init => GroupsInv
<1> SUFFICES ASSUME G!Init PROVE GroupsInv
  OBVIOUS
<1>1. G!TypeOK
  <2>1. [G!NoGroup EXCEPT !.st = "live", !.allowed = <<1>>] \in G!GroupRecords
    BY NothingIs DEF G!GroupRecords
  <2>2. [G!NoPolicy EXCEPT !.st = "live", !.enabled = TRUE] \in G!PolicyRecords
    BY NothingIs DEF G!PolicyRecords
  <2> QED BY <2>1, <2>2, NothingIs, GroupsAssumption DEF G!Init, G!TypeOK
<1>2. group[1].st = "live" /\ \A g \in G!GroupIds : g # 1 => group[g] = G!NoGroup
  BY NothingIs DEF G!Init, G!NoGroup
<1>3. \A g \in G!GroupIds : G!ValidLifecycle(group[g].def, group[g].max)
  BY NothingIs DEF G!Init, G!NoGroup, G!ValidLifecycle
<1>4. \A i \in G!Images : image[i].st = "none"
  BY DEF G!Init, G!NoImage
<1>5. policy[1].st = "live" /\ group[1].allowed = <<1>>
  BY NothingIs DEF G!Init, G!NoGroup, G!NoPolicy
<1>6. \A p \in G!PolicyIds : policy[p].secret = policy[p].endpoint
  BY NothingIs DEF G!Init, G!NoPolicy
<1>7. WorkHolds /\ Apart
  BY NoWorkHolds DEF WorkHolds, Apart, G!Init
<1>8. G!LimitsAgree /\ G!ImagesWithinCap /\ G!SecretsFollowEndpoints
  BY <1>3, <1>4, <1>6 DEF G!LimitsAgree, G!ImagesWithinCap, G!SecretsFollowEndpoints, G!Beyond
<1>9. G!ReferencesHold
  <2>1. G!AllLive(<<1>>)
    BY <1>5 DEF G!AllLive, G!Range
  <2>2. G!Live(member)
    BY <1>2 DEF G!Live, G!Init
  <2>3. ASSUME NEW g \in G!GroupIds, G!Live(g) PROVE G!AllLive(group[g].allowed)
    <3>1. g = 1
      BY <1>2, <2>3, NothingIs DEF G!Live
    <3> QED BY <1>5, <2>1, <3>1
  <2> QED BY <1>4, <2>2, <2>3 DEF G!ReferencesHold
<1>10. TablesHold
  BY <1>2, <1>4 DEF TablesHold, G!Init
<1> QED BY <1>1, <1>7, <1>8, <1>9, <1>10 DEF GroupsInv, G!RulesHold

\* What only concerns the tables.
Tables == <<group, policy, member, image, fk, mixed, former, crossed>>

LEMMA TablesKeep ==
  ASSUME GroupsInv, UNCHANGED Tables
  PROVE  /\ TablesHold' /\ G!RulesHold'
         /\ \A w : GroupWork(w) <=> GroupWork(w)'
         /\ \A w : PolicyWork(w) <=> PolicyWork(w)'
         /\ \A w : ImageWork(w) <=> ImageWork(w)'
<1>1. /\ TablesHold'
  BY DEF GroupsInv, Tables, TablesHold
<1>2. G!RulesHold'
  BY DEF GroupsInv, Tables, G!RulesHold, G!LimitsAgree, G!ImagesWithinCap, G!ReferencesHold, G!SecretsFollowEndpoints,
         G!Live, G!AllLive, G!Beyond, G!Within
<1>3. \A w : GroupWork(w) <=> GroupWork(w)'
  BY DEF Tables, GroupWork, G!Live
<1>4. \A w : PolicyWork(w) <=> PolicyWork(w)'
  BY DEF Tables, PolicyWork, G!Live
<1>5. \A w : ImageWork(w) <=> ImageWork(w)'
  BY DEF Tables, ImageWork, G!Live
<1> QED BY <1>1, <1>2, <1>3, <1>4, <1>5

\* One request goes on, and the tables are left alone.
LEMMA OneGoesOn ==
  ASSUME GroupsInv, NEW a \in Admins, NEW r \in G!WorkRecords, work' = [work EXCEPT ![a] = r], UNCHANGED Tables,
         edits' \in 0 .. MaxEdits,
         GroupWork(r), PolicyWork(r), ImageWork(r),
         r.pc = "newgroup" => \A b \in Admins : b # a /\ work[b].pc = "newgroup" => work[b].g # r.g
  PROVE  GroupsInv'
<1>1. work \in [Admins -> G!WorkRecords]
  BY DEF GroupsInv, G!TypeOK
<1>2. work'[a] = r /\ (\A b \in Admins : b # a => work'[b] = work[b]) /\ work' \in [Admins -> G!WorkRecords]
  BY <1>1
<1>3. G!TypeOK'
  BY <1>2 DEF GroupsInv, G!TypeOK, Tables
<1>4. WorkHolds'
  <2>1. \A b \in Admins, w \in G!WorkRecords : work'[b] = w => GroupWork(w) /\ PolicyWork(w) /\ ImageWork(w)
    BY <1>2 DEF GroupsInv, WorkHolds
  <2>2. \A b \in Admins, w \in G!WorkRecords : work'[b] = w => GroupWork(w)' /\ PolicyWork(w)' /\ ImageWork(w)'
    BY <2>1, TablesKeep
  <2> QED BY <2>2 DEF WorkHolds
<1>5. Apart'
  BY <1>2 DEF GroupsInv, Apart
<1> QED BY <1>3, <1>4, <1>5, TablesKeep DEF GroupsInv

LEMMA BeginsKeeps ==
  ASSUME GroupsInv, NEW a \in Admins, NEW r \in G!WorkRecords, G!Begins(a, r),
         GroupWork(r), PolicyWork(r), ImageWork(r),
         r.pc = "newgroup" => \A b \in Admins : b # a /\ work[b].pc = "newgroup" => work[b].g # r.g
  PROVE  GroupsInv'
<1>1. work' = [work EXCEPT ![a] = r] /\ UNCHANGED Tables
  BY DEF G!Begins, Tables
<1>2. edits' \in 0 .. MaxEdits
  BY GroupsAssumption DEF G!Begins, GroupsInv, G!TypeOK
<1> QED BY <1>1, <1>2, OneGoesOn

LEMMA EndsKeeps ==
  ASSUME GroupsInv, NEW a \in Admins, G!Ends(a), UNCHANGED <<Tables, edits>>
  PROVE  GroupsInv'
<1>1. work' = [work EXCEPT ![a] = G!NoWork] /\ UNCHANGED Tables /\ edits' \in 0 .. MaxEdits
  BY DEF G!Ends, GroupsInv, G!TypeOK
<1> QED BY <1>1, NothingIs, NoWorkHolds, OneGoesOn

LEMMA BeginsGroups ==
  ASSUME GroupsInv, NEW a \in Admins,
         \/ \E g \in G!GroupIds, e \in Edits : G!BeginCreateGroup(a, g, e) \/ G!BeginUpdateGroup(a, g, e)
         \/ \E g \in G!GroupIds : G!BeginDeleteGroup(a, g) \/ G!BeginUpdateUser(a, g)
  PROVE  GroupsInv'
<1>1. G!GroupIds \subseteq 0 .. NumGroups
  BY GroupsAssumption DEF G!GroupIds
<1>2. Edits \subseteq G!EditRecords
  BY GroupsAssumption
<1>3. ASSUME NEW g \in G!GroupIds, NEW e \in Edits, G!BeginCreateGroup(a, g, e) PROVE GroupsInv'
  <2> DEFINE r == [G!NoWork EXCEPT !.pc = "newgroup", !.g = g, !.edit = e]
  <2>1. r \in G!WorkRecords /\ r.pc = "newgroup" /\ r.g = g /\ r.edit = e
    BY <1>1, <1>2, NothingIs DEF G!WorkRecords
  <2>2. group[g].st = "none" /\ ValidRow(G!Patched(G!NoGroup, e)) /\ G!Begins(a, r)
        /\ \A b \in Admins : ~(work[b].pc = "newgroup" /\ work[b].g = g)
    BY <1>3 DEF G!BeginCreateGroup, G!Accepts, ValidRow
  <2> HIDE DEF r
  <2>3. GroupWork(r) /\ PolicyWork(r) /\ ImageWork(r)
    BY <2>1, <2>2 DEF GroupWork, PolicyWork, ImageWork
  <2> QED BY <2>1, <2>2, <2>3, BeginsKeeps
<1>4. ASSUME NEW g \in G!GroupIds, NEW e \in Edits, G!BeginUpdateGroup(a, g, e) PROVE GroupsInv'
  <2> DEFINE r == [G!NoWork EXCEPT !.pc = "group", !.g = g, !.edit = e]
  <2>1. r \in G!WorkRecords /\ r.pc = "group" /\ r.g = g /\ r.edit = e
    BY <1>1, <1>2, NothingIs DEF G!WorkRecords
  <2>2. G!Live(g) /\ ValidRow(G!Patched(group[g], e)) /\ G!Begins(a, r)
    BY <1>4 DEF G!BeginUpdateGroup, G!Accepts, ValidRow
  <2> HIDE DEF r
  <2>3. GroupWork(r) /\ PolicyWork(r) /\ ImageWork(r)
    BY <2>1, <2>2 DEF GroupWork, PolicyWork, ImageWork, G!Live
  <2> QED BY <2>1, <2>2, <2>3, BeginsKeeps
<1>5. ASSUME NEW g \in G!GroupIds, G!BeginDeleteGroup(a, g) PROVE GroupsInv'
  <2> DEFINE r == [G!NoWork EXCEPT !.pc = "dropgroup", !.g = g]
  <2>1. r \in G!WorkRecords /\ r.pc = "dropgroup" /\ r.g = g
    BY <1>1, NothingIs DEF G!WorkRecords
  <2>2. G!Live(g) /\ member # g /\ G!Begins(a, r)
    BY <1>5 DEF G!BeginDeleteGroup
  <2> HIDE DEF r
  <2>3. GroupWork(r) /\ PolicyWork(r) /\ ImageWork(r)
    BY <2>1, <2>2 DEF GroupWork, PolicyWork, ImageWork, G!Live
  <2> QED BY <2>1, <2>2, <2>3, BeginsKeeps
<1>6. ASSUME NEW g \in G!GroupIds, G!BeginUpdateUser(a, g) PROVE GroupsInv'
  <2> DEFINE r == [G!NoWork EXCEPT !.pc = "user", !.g = g]
  <2>1. r \in G!WorkRecords /\ r.pc = "user" /\ r.g = g
    BY <1>1, NothingIs DEF G!WorkRecords
  <2>2. G!Live(g) /\ G!Begins(a, r)
    BY <1>6 DEF G!BeginUpdateUser
  <2> HIDE DEF r
  <2>3. GroupWork(r) /\ PolicyWork(r) /\ ImageWork(r)
    BY <2>1, <2>2 DEF GroupWork, PolicyWork, ImageWork, G!Live
  <2> QED BY <2>1, <2>2, <2>3, BeginsKeeps
<1> QED BY <1>3, <1>4, <1>5, <1>6

LEMMA BeginsPolicies ==
  ASSUME GroupsInv, NEW a \in Admins,
         \/ \E p \in G!PolicyIds, enabled, masked \in BOOLEAN, e \in Endpoints : G!BeginUpdatePolicy(a, p, enabled, e, masked)
         \/ \E p \in G!PolicyIds : G!BeginDeletePolicy(a, p)
  PROVE  GroupsInv'
<1>1. G!PolicyIds \subseteq 0 .. NumPolicies
  BY GroupsAssumption DEF G!PolicyIds
<1>2. ASSUME NEW p \in G!PolicyIds, NEW enabled \in BOOLEAN, NEW masked \in BOOLEAN, NEW e \in Endpoints,
             G!BeginUpdatePolicy(a, p, enabled, e, masked)
      PROVE  GroupsInv'
  <2> DEFINE cfg == [st |-> "live", enabled |-> enabled, endpoint |-> e, secret |-> IF masked THEN policy[p].secret ELSE e]
             r == [G!NoWork EXCEPT !.pc = "policy", !.p = p, !.cfg = cfg]
  <2>1. policy[p] \in G!PolicyRecords /\ policy[p].secret = policy[p].endpoint
    BY DEF GroupsInv, G!TypeOK, G!RulesHold, G!SecretsFollowEndpoints
  <2>2. masked => e = policy[p].endpoint
    BY <1>2 DEF G!BeginUpdatePolicy, G!MaskKeeps
  <2>3. cfg \in G!PolicyRecords /\ cfg.secret = cfg.endpoint /\ cfg.st = "live"
    BY <2>1, <2>2 DEF G!PolicyRecords
  <2>4. G!Begins(a, r)
    BY <1>2 DEF G!BeginUpdatePolicy
  <2> HIDE DEF cfg
  <2>5. r \in G!WorkRecords /\ r.pc = "policy" /\ r.p = p /\ r.cfg = cfg
    BY <1>1, <2>3, NothingIs DEF G!WorkRecords
  <2> HIDE DEF r
  <2>6. GroupWork(r) /\ PolicyWork(r) /\ ImageWork(r)
    BY <2>3, <2>5 DEF GroupWork, PolicyWork, ImageWork
  <2> QED BY <2>4, <2>5, <2>6, BeginsKeeps
<1>3. ASSUME NEW p \in G!PolicyIds, G!BeginDeletePolicy(a, p) PROVE GroupsInv'
  <2> DEFINE r == [G!NoWork EXCEPT !.pc = "referees", !.p = p]
  <2>1. r \in G!WorkRecords /\ r.pc = "referees" /\ r.p = p
    BY <1>1, NothingIs DEF G!WorkRecords
  <2>2. ~G!InUse(p) /\ G!Begins(a, r)
    BY <1>3 DEF G!BeginDeletePolicy
  <2> HIDE DEF r
  <2>3. GroupWork(r) /\ PolicyWork(r) /\ ImageWork(r)
    BY <2>1, <2>2 DEF GroupWork, PolicyWork, ImageWork, G!InUse
  <2> QED BY <2>1, <2>2, <2>3, BeginsKeeps
<1> QED BY <1>2, <1>3

LEMMA ListIs ==
  ASSUME NEW l \in G!Lists
  PROVE  l \in Seq(G!PolicyIds) /\ G!Range(l) \subseteq G!PolicyIds /\ (l # <<>> => Head(l) \in G!PolicyIds)
<1>1. PICK n \in 0 .. NumPolicies : l \in [1 .. n -> G!PolicyIds]
  BY DEF G!Lists
<1>2. n \in Nat
  BY <1>1
<1>3. l \in Seq(G!PolicyIds)
  BY <1>1, <1>2
<1> QED BY <1>3 DEF G!Range

LEMMA BeginsImages ==
  ASSUME GroupsInv, NEW a \in Admins,
         \/ \E i \in G!Images, exp \in G!Durations : G!BeginUpload(a, i, exp) \/ G!BeginUpdateExpiry(a, i, exp)
         \/ G!BeginApplyLifecycle(a)
  PROVE  GroupsInv'
<1>1. G!Images \subseteq 0 .. NumImages
  BY GroupsAssumption DEF G!Images
<1>2. group[member] \in G!GroupRecords /\ group[member].allowed \in G!Lists /\ G!CapOf(group[member]) \in G!Durations
  BY Rows, CapTyped DEF GroupsInv
<1>3. ASSUME NEW i \in G!Images, NEW exp \in G!Durations, G!BeginUpload(a, i, exp) PROVE GroupsInv'
  <2> DEFINE row == group[member]
             cap == G!CapOf(row)
             e == IF exp = 0 /\ cap > 0 THEN G!DefaultExpiry(row.def, cap) ELSE exp
             r == [G!NoWork EXCEPT !.pc = "resolve", !.i = i, !.allowed = row.allowed, !.exp = e]
  <2>1. e \in G!Durations /\ G!Within(e, cap)
    <3>1. row.def \in G!Durations /\ (exp = 0 \/ G!Within(exp, cap))
      BY <1>2, <1>3 DEF G!BeginUpload, G!GroupRecords
    <3>2. cap \in G!Durations
      BY <1>2
    <3> HIDE DEF cap
    <3> QED BY <3>1, <3>2 DEF G!Within, G!DefaultExpiry, G!Durations
  <2>2. G!Begins(a, r)
    BY <1>3 DEF G!BeginUpload
  <2> HIDE DEF e
  <2>3. r \in G!WorkRecords /\ r.pc = "resolve" /\ r.i = i /\ r.exp = e
    BY <1>1, <1>2, <2>1, NothingIs DEF G!WorkRecords
  <2> HIDE DEF r
  <2>4. GroupWork(r) /\ PolicyWork(r) /\ ImageWork(r)
    BY <2>1, <2>3 DEF GroupWork, PolicyWork, ImageWork
  <2> QED BY <2>2, <2>3, <2>4, BeginsKeeps
<1>4. ASSUME NEW i \in G!Images, NEW exp \in G!Durations, G!BeginUpdateExpiry(a, i, exp) PROVE GroupsInv'
  <2> DEFINE r == [G!NoWork EXCEPT !.pc = "expiry", !.i = i, !.exp = exp]
  <2>1. r \in G!WorkRecords /\ r.pc = "expiry" /\ r.i = i /\ r.exp = exp
    BY <1>1, NothingIs DEF G!WorkRecords
  <2>2. G!Within(exp, G!CapOf(group[member])) /\ G!Begins(a, r)
    BY <1>4 DEF G!BeginUpdateExpiry
  <2> HIDE DEF r
  <2>3. GroupWork(r) /\ PolicyWork(r) /\ ImageWork(r)
    BY <2>1, <2>2 DEF GroupWork, PolicyWork, ImageWork
  <2> QED BY <2>1, <2>2, <2>3, BeginsKeeps
<1>5. CASE G!BeginApplyLifecycle(a)
  <2> DEFINE cap == G!CapOf(group[member])
  <2>1. PICK list \in SUBSET G!Images : G!Begins(a, [G!NoWork EXCEPT !.pc = "clamp", !.exp = cap, !.left = list, !.covers = list])
    BY <1>5 DEF G!BeginApplyLifecycle
  <2> DEFINE r == [G!NoWork EXCEPT !.pc = "clamp", !.exp = cap, !.left = list, !.covers = list]
  <2>2. r \in G!WorkRecords /\ r.pc = "clamp" /\ r.exp = cap
    BY <1>2, NothingIs DEF G!WorkRecords
  <2>3. G!Begins(a, r)
    BY <2>1
  <2> HIDE DEF r
  <2>4. GroupWork(r) /\ PolicyWork(r) /\ ImageWork(r)
    BY <2>2 DEF GroupWork, PolicyWork, ImageWork
  <2> QED BY <2>2, <2>3, <2>4, BeginsKeeps
<1> QED BY <1>3, <1>4, <1>5

\* What a request that is under way has shown of itself.
LEMMA WorkIs ==
  ASSUME GroupsInv, NEW a \in Admins
  PROVE  /\ work[a] \in G!WorkRecords /\ GroupWork(work[a]) /\ PolicyWork(work[a]) /\ ImageWork(work[a])
         /\ work \in [Admins -> G!WorkRecords]
BY DEF GroupsInv, WorkHolds, G!TypeOK

LEMMA GoesOnKeeps ==
  ASSUME GroupsInv, NEW a \in Admins, G!DeletePolicyGroups(a) \/ \E explicit \in 0 .. NumPolicies : G!ResolvePolicy(a, explicit)
  PROVE  GroupsInv'
<1>1. work[a] \in G!WorkRecords /\ GroupWork(work[a]) /\ PolicyWork(work[a]) /\ ImageWork(work[a])
      /\ work \in [Admins -> G!WorkRecords]
  BY WorkIs
<1>2. edits' \in 0 .. MaxEdits /\ UNCHANGED <<Tables, edits>>
  BY DEF G!DeletePolicyGroups, G!ResolvePolicy, GroupsInv, G!TypeOK, Tables
<1>3. ASSUME work' = [work EXCEPT ![a] = G!NoWork] PROVE GroupsInv'
  BY <1>2, <1>3, EndsKeeps DEF G!Ends
<1>4. CASE G!DeletePolicyGroups(a)
  <2>1. CASE G!InUseByGroup(work[a].p)
    BY <1>1, <1>3, <1>4, <2>1 DEF G!DeletePolicyGroups
  <2>2. CASE ~G!InUseByGroup(work[a].p)
    <3> PICK r : r = work'[a]
      OBVIOUS
    <3>1. work' = [work EXCEPT ![a] = r] /\ work[a].pc = "referees"
      BY <1>1, <1>4 DEF G!DeletePolicyGroups
    <3>2. r \in G!WorkRecords /\ r.pc = "droppolicy" /\ r.p = work[a].p /\ r.since = work[a].since \ ({"group"} \X G!GroupIds)
      BY <1>1, <1>4, <2>2 DEF G!DeletePolicyGroups, G!WorkRecords
    <3>3. PolicyWork(r)
      BY <1>1, <2>2, <3>1, <3>2 DEF PolicyWork, G!InUseByGroup
    <3>4. GroupWork(r) /\ ImageWork(r)
      BY <3>2 DEF GroupWork, ImageWork
    <3> QED BY <1>2, <3>1, <3>2, <3>3, <3>4, OneGoesOn
  <2> QED BY <2>1, <2>2
<1>5. ASSUME NEW explicit \in 0 .. NumPolicies, G!ResolvePolicy(a, explicit) PROVE GroupsInv'
  <2> DEFINE list == work[a].allowed
             choice == IF explicit = 0 THEN G!PickPolicy(list) ELSE {p \in G!Range(list) : p = explicit /\ G!Usable(p)}
             p == CHOOSE p \in choice : TRUE
             r == [work[a] EXCEPT !.pc = "commit", !.p = p]
  <2>1. choice \subseteq G!PolicyIds
    <3>1. list \in G!Lists
      BY <1>1 DEF G!WorkRecords
    <3> HIDE DEF list
    <3>2. G!Range(list) \subseteq G!PolicyIds /\ (list # <<>> => Head(list) \in G!PolicyIds)
      BY <3>1, ListIs
    <3>3. G!PickPolicy(list) \subseteq G!PolicyIds
      BY <3>2 DEF G!PickPolicy
    <3> QED BY <3>2, <3>3
  <2>2. work[a].pc = "resolve" /\ work' = [work EXCEPT ![a] = IF choice = {} THEN G!NoWork ELSE r]
    BY <1>1, <1>5 DEF G!ResolvePolicy
  <2> HIDE DEF choice
  <2>3. CASE choice = {}
    BY <1>3, <2>2, <2>3
  <2>4. CASE choice # {}
    <3>1. p \in G!PolicyIds
      BY <2>1, <2>4
    <3> HIDE DEF p
    <3>2. p \in 0 .. NumPolicies
      BY <3>1, GroupsAssumption DEF G!PolicyIds
    <3>3. r \in G!WorkRecords /\ r.pc = "commit" /\ r.p = p /\ r.i = work[a].i /\ r.exp = work[a].exp /\ r.stale = work[a].stale
      BY <1>1, <3>2 DEF G!WorkRecords
    <3>4. work' = [work EXCEPT ![a] = r]
      BY <2>2, <2>4
    <3> HIDE DEF r
    <3>5. GroupWork(r) /\ PolicyWork(r) /\ ImageWork(r)
      BY <1>1, <2>2, <3>1, <3>3 DEF GroupWork, PolicyWork, ImageWork
    <3> QED BY <1>2, <3>3, <3>4, <3>5, OneGoesOn
  <2> QED BY <2>3, <2>4
<1> QED BY <1>4, <1>5

\* Policies that were there stay, and their secrets are theirs.
LEMMA PoliciesChange ==
  ASSUME GroupsInv, NEW a \in Admins, NEW r \in G!WorkRecords, work' = [work EXCEPT ![a] = r],
         UNCHANGED <<group, member, image, fk, mixed, former, crossed>>, edits' \in 0 .. MaxEdits,
         GroupWork(r), PolicyWork(r), ImageWork(r), r.pc # "newgroup",
         policy' \in [G!PolicyIds -> G!PolicyRecords],
         \A p \in G!PolicyIds : /\ policy[p].st = "live" => policy'[p].st = "live"
                              /\ policy'[p].secret = policy'[p].endpoint
  PROVE  GroupsInv'
<1>1. work \in [Admins -> G!WorkRecords]
  BY DEF GroupsInv, G!TypeOK
<1>2. work'[a] = r /\ (\A b \in Admins : b # a => work'[b] = work[b]) /\ work' \in [Admins -> G!WorkRecords]
  BY <1>1
<1>3. G!TypeOK'
  BY <1>2 DEF GroupsInv, G!TypeOK
<1>4. WorkHolds'
  <2>1. \A b \in Admins, w \in G!WorkRecords : work'[b] = w => GroupWork(w) /\ PolicyWork(w) /\ ImageWork(w)
    BY <1>2 DEF GroupsInv, WorkHolds
  <2>2. ASSUME NEW b \in Admins, NEW w \in G!WorkRecords, work'[b] = w PROVE GroupWork(w)' /\ PolicyWork(w)' /\ ImageWork(w)'
    <3>1. GroupWork(w) /\ PolicyWork(w) /\ ImageWork(w)
      BY <2>1, <2>2
    <3> QED BY <3>1 DEF GroupWork, PolicyWork, ImageWork, G!Live
  <2> QED BY <2>2 DEF WorkHolds
<1>5. Apart'
  BY <1>2 DEF GroupsInv, Apart
<1>6. TablesHold'
  BY DEF GroupsInv, TablesHold
<1>7. G!LimitsAgree' /\ G!ImagesWithinCap' /\ G!SecretsFollowEndpoints'
  BY DEF GroupsInv, G!RulesHold, G!LimitsAgree, G!ImagesWithinCap, G!SecretsFollowEndpoints, G!Live, G!Beyond, G!Within
<1>8. G!ReferencesHold'
  <2>1. \A i \in G!Images : image'[i].st = "live" /\ policy'[image'[i].policy].st # "live" => ~fk' /\ <<"file", i>> \in crossed'
    BY DEF GroupsInv, G!RulesHold, G!ReferencesHold, TablesHold
  <2>2. ~G!Live(member)' => ~fk' /\ <<"user", 1>> \in crossed'
    BY DEF GroupsInv, G!RulesHold, G!ReferencesHold, G!Live
  <2>3. ASSUME NEW g \in G!GroupIds, G!Live(g)', G!AllLive(group[g].allowed) PROVE G!AllLive(group[g].allowed)'
    <3>1. group[g].allowed \in G!Lists
      BY Rows DEF GroupsInv
    <3>2. G!Range(group[g].allowed) \subseteq G!PolicyIds
      BY <3>1, ListIs
    <3> QED BY <2>3, <3>2 DEF G!AllLive
  <2>4. \A g \in G!GroupIds : G!Live(g)' /\ ~G!AllLive(group[g].allowed)' => <<"group", g>> \in crossed'
    BY <2>3 DEF GroupsInv, G!RulesHold, G!ReferencesHold, G!Live
  <2> QED BY <2>1, <2>2, <2>4 DEF G!ReferencesHold
<1> QED BY <1>3, <1>4, <1>5, <1>6, <1>7, <1>8 DEF GroupsInv, G!RulesHold

LEMMA PolicyWrites ==
  ASSUME GroupsInv, NEW a \in Admins,
         \/ \E p \in G!PolicyIds, enabled \in BOOLEAN, e \in Endpoints : G!CreatePolicy(a, p, enabled, e)
         \/ G!DisablePolicy(a) \/ G!UpdatePolicy(a)
  PROVE  GroupsInv'
<1>1. work[a] \in G!WorkRecords /\ PolicyWork(work[a]) /\ work \in [Admins -> G!WorkRecords]
  BY WorkIs
<1>2. policy \in [G!PolicyIds -> G!PolicyRecords] /\ \A p \in G!PolicyIds : policy[p].secret = policy[p].endpoint
  BY DEF GroupsInv, G!TypeOK, G!RulesHold, G!SecretsFollowEndpoints
<1>3. ASSUME NEW p \in G!PolicyIds, NEW enabled \in BOOLEAN, NEW e \in Endpoints, G!CreatePolicy(a, p, enabled, e) PROVE GroupsInv'
  <2> DEFINE r == IF enabled THEN G!NoWork ELSE [G!NoWork EXCEPT !.pc = "disable", !.p = p]
  <2>1. p \in 0 .. NumPolicies
    BY GroupsAssumption DEF G!PolicyIds
  <2>2. r \in G!WorkRecords /\ r.pc \in {"idle", "disable"} /\ (r.pc = "disable" => r.p = p)
    <3>1. CASE enabled
      BY <3>1, NothingIs, NoWorkHolds
    <3>2. CASE ~enabled
      BY <2>1, <3>2, NothingIs DEF G!WorkRecords
    <3> QED BY <3>1, <3>2
  <2>3. work' = [work EXCEPT ![a] = r] /\ edits' \in 0 .. MaxEdits
    <3>1. work' = [work EXCEPT ![a] = r]
      BY <1>3 DEF G!CreatePolicy
    <3>2. edits < MaxEdits /\ edits' = edits + 1 /\ edits \in 0 .. MaxEdits
      BY <1>3 DEF G!CreatePolicy, GroupsInv, G!TypeOK
    <3>3. edits' \in 0 .. MaxEdits
      BY <3>2, GroupsAssumption
    <3> QED BY <3>1, <3>3
  <2> HIDE DEF r
  <2>4. GroupWork(r) /\ PolicyWork(r) /\ ImageWork(r)
    BY <2>2 DEF GroupWork, PolicyWork, ImageWork
  <2>5. policy' \in [G!PolicyIds -> G!PolicyRecords]
    BY <1>2, <1>3 DEF G!CreatePolicy, G!PolicyRecords
  <2>6. \A q \in G!PolicyIds : /\ policy[q].st = "live" => policy'[q].st = "live"
                             /\ policy'[q].secret = policy'[q].endpoint
    BY <1>2, <1>3 DEF G!CreatePolicy
  <2>7. UNCHANGED <<group, member, image, fk, mixed, former, crossed>>
    BY <1>3 DEF G!CreatePolicy
  <2> QED BY <2>2, <2>3, <2>4, <2>5, <2>6, <2>7, PoliciesChange
<1>4. CASE G!DisablePolicy(a) \/ G!UpdatePolicy(a)
  <2> DEFINE p == work[a].p
  <2>1. p \in G!PolicyIds /\ work[a].cfg \in G!PolicyRecords /\ policy[p] \in G!PolicyRecords
    BY <1>1, <1>2, <1>4 DEF G!DisablePolicy, G!UpdatePolicy, PolicyWork, G!WorkRecords
  <2>2. work' = [work EXCEPT ![a] = G!NoWork] /\ edits' \in 0 .. MaxEdits
        /\ UNCHANGED <<group, member, image, fk, mixed, former, crossed>>
    BY <1>4 DEF G!DisablePolicy, G!UpdatePolicy, G!Ends, GroupsInv, G!TypeOK
  <2>3. \/ policy' = policy \/ policy' = [policy EXCEPT ![p] = [policy[p] EXCEPT !.enabled = FALSE]]
        \/ /\ policy' = [policy EXCEPT ![p] = work[a].cfg]
           /\ work[a].cfg.secret = work[a].cfg.endpoint /\ work[a].cfg.st = "live"
    BY <1>1, <1>2, <1>4 DEF G!DisablePolicy, G!UpdatePolicy, PolicyWork
  <2>4. [policy[p] EXCEPT !.enabled = FALSE] \in G!PolicyRecords
    BY <2>1 DEF G!PolicyRecords
  <2>5. policy' \in [G!PolicyIds -> G!PolicyRecords]
    BY <1>2, <2>1, <2>3, <2>4
  <2>6. \A q \in G!PolicyIds : /\ policy[q].st = "live" => policy'[q].st = "live"
                             /\ policy'[q].secret = policy'[q].endpoint
    BY <1>2, <2>1, <2>3 DEF G!PolicyRecords
  <2> QED BY <2>2, <2>5, <2>6, NothingIs, NoWorkHolds, PoliciesChange
<1> QED BY <1>3, <1>4

\* The row of a policy goes: whoever refers to it has done so since it was
\* looked for.
LEMMA DeletePolicyKeeps ==
  ASSUME GroupsInv, NEW a \in Admins, G!DeletePolicy(a)
  PROVE  GroupsInv'
<1> DEFINE p == work[a].p
           since == work[a].since
<1>1. work[a] \in G!WorkRecords /\ PolicyWork(work[a]) /\ work \in [Admins -> G!WorkRecords]
  BY WorkIs
<1>2. p \in G!PolicyIds /\ work[a].pc = "droppolicy" /\ since \in SUBSET G!References
  BY <1>1 DEF G!DeletePolicy, PolicyWork, G!WorkRecords
<1>3. UNCHANGED <<group, member, image, fk, edits, mixed, former>> /\ G!Ends(a)
  BY DEF G!DeletePolicy
<1>4. CASE ~(policy[p].st = "live" /\ ~(fk /\ G!InUse(p)))
  BY <1>3, <1>4, EndsKeeps DEF G!DeletePolicy, Tables
<1>5. CASE policy[p].st = "live" /\ ~(fk /\ G!InUse(p))
  <2>1. policy' = [policy EXCEPT ![p] = [G!NoPolicy EXCEPT !.st = "gone"]] /\ crossed' = crossed \cup (since \ {<<"user", 1>>})
    BY <1>5 DEF G!DeletePolicy
  <2>2. [G!NoPolicy EXCEPT !.st = "gone"] \in G!PolicyRecords /\ [G!NoPolicy EXCEPT !.st = "gone"].secret = [G!NoPolicy EXCEPT !.st = "gone"].endpoint
    BY NothingIs DEF G!PolicyRecords
  <2>3. work'[a] = G!NoWork /\ (\A b \in Admins : b # a => work'[b] = work[b]) /\ work' \in [Admins -> G!WorkRecords]
    BY <1>1, <1>3, NothingIs DEF G!Ends
  <2>4. policy' \in [G!PolicyIds -> G!PolicyRecords] /\ \A q \in G!PolicyIds : q # p => policy'[q] = policy[q]
    BY <1>2, <2>1, <2>2 DEF GroupsInv, G!TypeOK
  <2>5. G!TypeOK'
    BY <1>2, <1>3, <2>1, <2>3, <2>4 DEF GroupsInv, G!TypeOK
  <2>6. WorkHolds'
    <3>1. ASSUME NEW b \in Admins, NEW w \in G!WorkRecords, work'[b] = w PROVE GroupWork(w)' /\ PolicyWork(w)' /\ ImageWork(w)'
      <4>1. GroupWork(w) /\ PolicyWork(w) /\ ImageWork(w)
        BY <2>3, <3>1, NoWorkHolds DEF GroupsInv, WorkHolds
      <4> QED BY <1>3, <4>1 DEF GroupWork, PolicyWork, ImageWork, G!Live
    <3> QED BY <3>1 DEF WorkHolds
  <2>7. Apart'
    BY <2>3, NoWorkHolds DEF GroupsInv, Apart
  <2>8. TablesHold'
    BY <1>3 DEF GroupsInv, TablesHold
  <2>9. G!LimitsAgree' /\ G!ImagesWithinCap'
    BY <1>3 DEF GroupsInv, G!RulesHold, G!LimitsAgree, G!ImagesWithinCap, G!Live, G!Beyond, G!Within
  <2>10. G!SecretsFollowEndpoints'
    BY <1>2, <2>1, <2>2, <2>4 DEF GroupsInv, G!RulesHold, G!SecretsFollowEndpoints, G!TypeOK
  <2>11. G!ReferencesHold'
    <3>1. ASSUME NEW i \in G!Images, image[i].st = "live", policy'[image[i].policy].st # "live"
          PROVE  ~fk /\ <<"file", i>> \in crossed'
      <4>1. image[i].policy \in G!PolicyIds
        BY <3>1 DEF GroupsInv, TablesHold
      <4>2. CASE image[i].policy = p
        BY <1>1, <1>2, <1>5, <2>1, <3>1, <4>2 DEF PolicyWork, G!InUse
      <4>3. CASE image[i].policy # p
        BY <2>1, <2>4, <3>1, <4>1, <4>3 DEF GroupsInv, G!RulesHold, G!ReferencesHold
      <4> QED BY <4>2, <4>3
    <3>2. ASSUME NEW g \in G!GroupIds, G!Live(g), ~G!AllLive(group[g].allowed)' PROVE <<"group", g>> \in crossed'
      <4>1. group[g].allowed \in G!Lists
        BY Rows DEF GroupsInv
      <4>2. G!Range(group[g].allowed) \subseteq G!PolicyIds
        BY <4>1, ListIs
      <4>3. CASE p \in G!Range(group[g].allowed)
        BY <1>1, <1>2, <2>1, <3>2, <4>3 DEF PolicyWork
      <4>4. CASE p \notin G!Range(group[g].allowed)
        <5>1. ~G!AllLive(group[g].allowed)
          BY <1>3, <2>4, <3>2, <4>2, <4>4 DEF G!AllLive
        <5> QED BY <2>1, <3>2, <5>1 DEF GroupsInv, G!RulesHold, G!ReferencesHold
      <4> QED BY <4>3, <4>4
    <3>3. ~G!Live(member) => ~fk /\ <<"user", 1>> \in crossed'
      BY <2>1 DEF GroupsInv, G!RulesHold, G!ReferencesHold
    <3> QED BY <1>3, <3>1, <3>2, <3>3 DEF G!ReferencesHold, G!Live
  <2> QED BY <2>5, <2>6, <2>7, <2>8, <2>9, <2>10, <2>11 DEF GroupsInv, G!RulesHold
<1> QED BY <1>4, <1>5

\* A request that is told of a reference, or that what it read is stale.
Carried(w, v) ==
  /\ v \in G!WorkRecords /\ v.pc = w.pc /\ v.g = w.g /\ v.p = w.p /\ v.i = w.i
  /\ v.edit = w.edit /\ v.exp = w.exp /\ v.cfg = w.cfg
  /\ w.since \subseteq v.since /\ (v.stale = FALSE => w.stale = FALSE)

\* All requests but one are carried over, and that one is at rest.
AllCarried(a) ==
  /\ work' \in [Admins -> G!WorkRecords] /\ work'[a] = G!NoWork
  /\ \A b \in Admins : b # a => Carried(work[b], work'[b])

LEMMA CarriedHold ==
  ASSUME NEW w, NEW v, Carried(w, v)
  PROVE  /\ GroupWork(w) => GroupWork(v)
         /\ PolicyWork(w) => PolicyWork(v)
         /\ ImageWork(w) => ImageWork(v)
BY DEF Carried, GroupWork, PolicyWork, ImageWork

\* What holds of the work that is carried over; the steps show that it still
\* holds of the tables they write.
LEMMA CarriedWork ==
  ASSUME GroupsInv, NEW a \in Admins, AllCarried(a), NEW b \in Admins, NEW v \in G!WorkRecords, work'[b] = v
  PROVE  /\ GroupWork(v) /\ PolicyWork(v) /\ ImageWork(v)
         /\ b # a => Carried(work[b], v)
<1>1. CASE b = a
  BY <1>1, NoWorkHolds DEF AllCarried
<1>2. CASE b # a
  <2>1. work[b] \in G!WorkRecords /\ GroupWork(work[b]) /\ PolicyWork(work[b]) /\ ImageWork(work[b])
    BY WorkIs
  <2>2. Carried(work[b], v)
    BY <1>2 DEF AllCarried
  <2> QED BY <2>1, <2>2, CarriedHold
<1> QED BY <1>1, <1>2

LEMMA CarriedApart ==
  ASSUME GroupsInv, NEW a \in Admins, AllCarried(a)
  PROVE  Apart'
BY NoWorkHolds DEF GroupsInv, Apart, AllCarried, Carried

LEMMA EndsCarries ==
  ASSUME GroupsInv, NEW a \in Admins, G!Ends(a)
  PROVE  AllCarried(a)
<1>1. work \in [Admins -> G!WorkRecords]
  BY DEF GroupsInv, G!TypeOK
<1> QED BY <1>1, NothingIs DEF AllCarried, Carried, G!Ends

LEMMA RefersCarries ==
  ASSUME GroupsInv, NEW a \in Admins, NEW ref \in G!References,
         work' = [b \in Admins |-> IF b = a THEN G!NoWork ELSE [work[b] EXCEPT !.since = @ \cup {ref}]]
  PROVE  AllCarried(a) /\ \A b \in Admins : b # a => ref \in work'[b].since
<1>1. \A b \in Admins : work[b] \in G!WorkRecords
  BY DEF GroupsInv, G!TypeOK
<1>2. ASSUME NEW w \in G!WorkRecords
      PROVE  Carried(w, [w EXCEPT !.since = @ \cup {ref}]) /\ ref \in [w EXCEPT !.since = @ \cup {ref}].since
  BY DEF Carried, G!WorkRecords
<1>3. \A b \in Admins : b # a => work'[b] = [work[b] EXCEPT !.since = @ \cup {ref}]
  OBVIOUS
<1>4. \A b \in Admins : b # a => Carried(work[b], work'[b]) /\ ref \in work'[b].since
  BY <1>1, <1>2, <1>3
<1>5. work' \in [Admins -> G!WorkRecords] /\ work'[a] = G!NoWork
  BY <1>4, NothingIs DEF Carried
<1> QED BY <1>4, <1>5 DEF AllCarried

\* What a request has read is stale, and more references are told of.
LEMMA StaleCarries ==
  ASSUME NEW w \in G!WorkRecords, NEW more \in SUBSET G!References, NEW v,
         v = [w EXCEPT !.stale = TRUE, !.since = w.since \cup more]
  PROVE  Carried(w, v) /\ v.stale = TRUE /\ more \subseteq v.since
BY DEF Carried, G!WorkRecords

-----------------------------------------------------------------------------
LEMMA CommitUploadKeeps ==
  ASSUME GroupsInv, NEW a \in Admins, G!CommitUpload(a)
  PROVE  GroupsInv'
<1> DEFINE i == work[a].i
           p == work[a].p
           there == policy[p].st = "live"
<1>1. /\ work[a] \in G!WorkRecords /\ work[a].pc = "commit" /\ i \in G!Images /\ p \in G!PolicyIds
      /\ work[a].stale = FALSE /\ G!Live(member) => G!Within(work[a].exp, G!CapOf(group[member]))
  BY WorkIs DEF G!CommitUpload, PolicyWork, ImageWork
<1>2. UNCHANGED <<group, policy, member, fk, edits, mixed>>
  BY DEF G!CommitUpload
<1>3. CASE fk /\ ~there
  BY <1>2, <1>3, EndsKeeps DEF G!CommitUpload, Tables
<1>4. CASE ~(fk /\ ~there)
  <2> DEFINE ref == <<"file", i>>
  <2>1. /\ image' = [image EXCEPT ![i] = [st |-> "live", exp |-> work[a].exp, policy |-> p]]
        /\ former' = IF work[a].stale THEN former \cup {i} ELSE former \ {i}
        /\ work' = [b \in Admins |-> IF b = a THEN G!NoWork ELSE [work[b] EXCEPT !.since = @ \cup {ref}]]
        /\ crossed' = IF there THEN crossed \ {ref} ELSE crossed \cup {ref}
    BY <1>4 DEF G!CommitUpload, G!Refers
  <2>2. ref \in G!References
    BY <1>1 DEF G!References
  <2>3. AllCarried(a) /\ \A b \in Admins : b # a => ref \in work'[b].since
    BY <2>1, <2>2, RefersCarries
  <2>4. /\ image'[i].st = "live" /\ image'[i].exp = work[a].exp /\ image'[i].policy = p
        /\ \A j \in G!Images : j # i => image'[j] = image[j]
    BY <1>1, <2>1 DEF GroupsInv, G!TypeOK
  <2>5. image' \in [G!Images -> G!ImageRecords]
    <3>1. [st |-> "live", exp |-> work[a].exp, policy |-> p] \in G!ImageRecords
      BY <1>1 DEF G!WorkRecords, G!ImageRecords
    <3> QED BY <1>1, <2>1, <3>1 DEF GroupsInv, G!TypeOK
  <2>6. former' \subseteq G!Images /\ crossed' \subseteq G!References
    BY <1>1, <2>1, <2>2 DEF GroupsInv, G!TypeOK
  <2>7. G!TypeOK'
    BY <1>2, <2>3, <2>5, <2>6 DEF GroupsInv, G!TypeOK, AllCarried
  <2>8. WorkHolds'
    <3>1. ASSUME NEW b \in Admins, NEW v \in G!WorkRecords, work'[b] = v
          PROVE  GroupWork(v)' /\ PolicyWork(v)' /\ ImageWork(v)'
      <4>1. GroupWork(v) /\ PolicyWork(v) /\ ImageWork(v) /\ (b # a => ref \in v.since)
        BY <2>3, <3>1, CarriedWork
      <4>2. b = a => v.pc = "idle"
        BY <2>3, <3>1, NoWorkHolds DEF AllCarried
      <4>3. PolicyWork(v)'
        BY <1>2, <2>4, <4>1, <4>2 DEF PolicyWork, G!Live
      <4> QED BY <1>2, <4>1, <4>3 DEF GroupWork, ImageWork, G!Live
    <3> QED BY <3>1 DEF WorkHolds
  <2>9. TablesHold'
    BY <1>1, <1>2, <2>4 DEF GroupsInv, TablesHold
  <2>10. G!LimitsAgree' /\ G!SecretsFollowEndpoints'
    BY <1>2 DEF GroupsInv, G!RulesHold, G!LimitsAgree, G!SecretsFollowEndpoints, G!Live
  <2>11. G!ImagesWithinCap'
    <3>1. ASSUME NEW j \in G!Images, G!Live(member), G!Beyond(j, G!CapOf(group[member]))' PROVE j \in former'
      <4>1. CASE j = i
        <5>1. work[a].stale \in BOOLEAN /\ ~G!Within(work[a].exp, G!CapOf(group[member]))
          BY <1>1, <1>2, <2>4, <3>1, <4>1 DEF G!Beyond, G!WorkRecords
        <5> QED BY <1>1, <2>1, <3>1, <4>1, <5>1
      <4>2. CASE j # i
        <5>1. G!Beyond(j, G!CapOf(group[member]))
          BY <1>2, <2>4, <3>1, <4>2 DEF G!Beyond
        <5> QED BY <2>1, <3>1, <4>2, <5>1 DEF GroupsInv, G!RulesHold, G!ImagesWithinCap
      <4> QED BY <4>1, <4>2
    <3> QED BY <1>2, <3>1 DEF G!ImagesWithinCap, G!Live
  <2>12. G!ReferencesHold'
    <3>1. ASSUME NEW j \in G!Images, image'[j].st = "live", policy[image'[j].policy].st # "live"
          PROVE  ~fk /\ <<"file", j>> \in crossed'
      <4>1. CASE j = i
        BY <1>4, <2>1, <2>4, <3>1, <4>1
      <4>2. CASE j # i
        <5>1. ~fk /\ <<"file", j>> \in crossed
          BY <2>4, <3>1, <4>2 DEF GroupsInv, G!RulesHold, G!ReferencesHold
        <5> QED BY <2>1, <4>2, <5>1
      <4> QED BY <4>1, <4>2
    <3>2. ~G!Live(member) => ~fk /\ <<"user", 1>> \in crossed'
      BY <2>1 DEF GroupsInv, G!RulesHold, G!ReferencesHold
    <3>3. \A g \in G!GroupIds : G!Live(g) /\ ~G!AllLive(group[g].allowed) => <<"group", g>> \in crossed'
      BY <2>1 DEF GroupsInv, G!RulesHold, G!ReferencesHold
    <3> QED BY <1>2, <3>1, <3>2, <3>3 DEF G!ReferencesHold, G!Live, G!AllLive
  <2> QED BY <2>3, <2>7, <2>8, <2>9, <2>10, <2>11, <2>12, CarriedApart DEF GroupsInv, G!RulesHold
<1> QED BY <1>3, <1>4

\* An image gets another expiry: nothing refers to it otherwise than before.
LEMMA ExpiryKeeps ==
  ASSUME GroupsInv, NEW a \in Admins, NEW i \in G!Images, NEW exp \in G!Durations,
         image' = [image EXCEPT ![i].exp = exp],
         UNCHANGED <<group, policy, member, fk, edits, mixed, crossed>>, former' \subseteq G!Images,
         work' \in [Admins -> G!WorkRecords],
         \A b \in Admins : work'[b] = G!NoWork \/ Carried(work[b], work'[b]),
         \A j \in G!Images : j # i => (j \in former' <=> j \in former),
         G!Live(member) /\ image[i].st = "live" /\ ~G!Within(exp, G!CapOf(group[member])) => i \in former'
  PROVE  GroupsInv'
<1>1. /\ image'[i].st = image[i].st /\ image'[i].exp = exp /\ image'[i].policy = image[i].policy
      /\ \A j \in G!Images : j # i => image'[j] = image[j]
  BY DEF GroupsInv, G!TypeOK, G!ImageRecords
<1>2. image' \in [G!Images -> G!ImageRecords]
  <2>1. image \in [G!Images -> G!ImageRecords]
    BY DEF GroupsInv, G!TypeOK
  <2>2. [image[i] EXCEPT !.exp = exp] \in G!ImageRecords
    BY <2>1 DEF G!ImageRecords
  <2> QED BY <2>1, <2>2
<1>3. G!TypeOK'
  BY <1>2 DEF GroupsInv, G!TypeOK
<1>4. WorkHolds'
  <2>1. ASSUME NEW b \in Admins, NEW v \in G!WorkRecords, work'[b] = v
        PROVE  GroupWork(v)' /\ PolicyWork(v)' /\ ImageWork(v)'
    <3>1. GroupWork(v) /\ PolicyWork(v) /\ ImageWork(v)
      BY <2>1, NoWorkHolds, WorkIs, CarriedHold
    <3>2. \A j \in G!Images : image'[j].st = image[j].st /\ image'[j].policy = image[j].policy
      BY <1>1
    <3>3. PolicyWork(v)'
      BY <3>1, <3>2 DEF PolicyWork, G!Live
    <3> QED BY <3>1, <3>3 DEF GroupWork, ImageWork, G!Live
  <2> QED BY <2>1 DEF WorkHolds
<1>5. Apart'
  BY NoWorkHolds DEF GroupsInv, Apart, Carried
<1>6. TablesHold'
  BY <1>1 DEF GroupsInv, TablesHold
<1>7. G!LimitsAgree' /\ G!SecretsFollowEndpoints'
  BY DEF GroupsInv, G!RulesHold, G!LimitsAgree, G!SecretsFollowEndpoints, G!Live
<1>8. G!ImagesWithinCap'
  <2>1. ASSUME NEW j \in G!Images, G!Live(member), G!Beyond(j, G!CapOf(group[member]))' PROVE j \in former'
    <3>1. CASE j = i
      BY <1>1, <2>1, <3>1 DEF G!Beyond
    <3>2. CASE j # i
      BY <1>1, <2>1, <3>2 DEF G!Beyond, GroupsInv, G!RulesHold, G!ImagesWithinCap
    <3> QED BY <3>1, <3>2
  <2> QED BY <2>1 DEF G!ImagesWithinCap, G!Live
<1>9. G!ReferencesHold'
  <2>1. \A j \in G!Images : image'[j].st = image[j].st /\ image'[j].policy = image[j].policy
    BY <1>1
  <2> QED BY <2>1 DEF GroupsInv, G!RulesHold, G!ReferencesHold, G!Live, G!AllLive
<1> QED BY <1>3, <1>4, <1>5, <1>6, <1>7, <1>8, <1>9 DEF GroupsInv, G!RulesHold

LEMMA UpdateExpiryKeeps ==
  ASSUME GroupsInv, NEW a \in Admins, G!UpdateExpiry(a)
  PROVE  GroupsInv'
<1> DEFINE i == work[a].i
<1>1. /\ work[a] \in G!WorkRecords /\ i \in G!Images /\ work[a].exp \in G!Durations /\ work[a].stale \in BOOLEAN
      /\ work[a].stale = FALSE /\ G!Live(member) => G!Within(work[a].exp, G!CapOf(group[member]))
  BY WorkIs DEF G!UpdateExpiry, ImageWork, G!WorkRecords
<1>2. /\ image' = [image EXCEPT ![i].exp = work[a].exp]
      /\ former' = IF work[a].stale THEN former \cup {i} ELSE former \ {i}
      /\ work' = [b \in Admins |-> IF b = a THEN G!NoWork ELSE [work[b] EXCEPT !.covers = @ \ {i}]]
      /\ UNCHANGED <<group, policy, member, fk, edits, mixed, crossed>>
  BY DEF G!UpdateExpiry
<1>3. ASSUME NEW w \in G!WorkRecords PROVE Carried(w, [w EXCEPT !.covers = @ \ {i}])
  BY DEF Carried, G!WorkRecords
<1>4. \A b \in Admins : work'[b] = G!NoWork \/ Carried(work[b], work'[b])
  BY <1>2, <1>3, WorkIs
<1>5. work' \in [Admins -> G!WorkRecords]
  BY <1>2, <1>4, NothingIs DEF Carried
<1>6. former' \subseteq G!Images
  BY <1>1, <1>2 DEF GroupsInv, G!TypeOK
<1>7. PICK exp \in G!Durations : exp = work[a].exp
  BY <1>1
<1> HIDE DEF i
<1> QED BY <1>1, <1>2, <1>4, <1>5, <1>6, <1>7, ExpiryKeeps

LEMMA ApplyLifecycleKeeps ==
  ASSUME GroupsInv, NEW a \in Admins, G!ApplyLifecycle(a)
  PROVE  GroupsInv'
<1>1. /\ work[a] \in G!WorkRecords /\ work[a].exp \in G!Durations /\ work[a].stale \in BOOLEAN /\ work[a].left \subseteq G!Images
      /\ work \in [Admins -> G!WorkRecords]
      /\ work[a].stale = FALSE /\ G!Live(member) => work[a].exp = G!CapOf(group[member])
  BY WorkIs DEF G!ApplyLifecycle, ImageWork, G!WorkRecords
<1>2. PICK i \in work[a].left :
       /\ image' = IF G!Beyond(i, work[a].exp) THEN [image EXCEPT ![i].exp = work[a].exp] ELSE image
       /\ former' = IF i \in work[a].covers /\ ~work[a].stale THEN former \ {i} ELSE former
       /\ work' = [work EXCEPT ![a] = IF @.left = {i} THEN G!NoWork ELSE [work[a] EXCEPT !.left = @ \ {i}]]
  BY DEF G!ApplyLifecycle
<1>3. UNCHANGED <<group, policy, member, fk, edits, mixed, crossed>> /\ i \in G!Images
  BY <1>1 DEF G!ApplyLifecycle
<1>4. ASSUME NEW w \in G!WorkRecords PROVE Carried(w, [w EXCEPT !.left = @ \ {i}]) /\ Carried(w, w)
  BY DEF Carried, G!WorkRecords
<1>5. \A b \in Admins : work'[b] = G!NoWork \/ Carried(work[b], work'[b])
  <2>1. work'[a] = G!NoWork \/ work'[a] = [work[a] EXCEPT !.left = @ \ {i}]
    BY <1>1, <1>2
  <2>2. \A b \in Admins : b # a => work'[b] = work[b]
    BY <1>1, <1>2
  <2> QED BY <1>1, <1>4, <2>1, <2>2
<1>6. work' \in [Admins -> G!WorkRecords]
  <2>1. work' = [b \in Admins |-> work'[b]]
    BY <1>1, <1>2
  <2> QED BY <1>5, <2>1, NothingIs DEF Carried
<1>7. image[i] \in G!ImageRecords /\ image[i].exp \in G!Durations /\ G!CapOf(group[member]) \in G!Durations
  <2>1. image[i] \in G!ImageRecords /\ group[member] \in G!GroupRecords
    BY <1>3 DEF GroupsInv, G!TypeOK
  <2> QED BY <2>1, CapTyped DEF G!ImageRecords
<1>8. former' \subseteq G!Images /\ (\A j \in G!Images : j # i => (j \in former' <=> j \in former))
  BY <1>2 DEF GroupsInv, G!TypeOK
<1>9. PICK exp \in G!Durations : exp = IF G!Beyond(i, work[a].exp) THEN work[a].exp ELSE image[i].exp
  BY <1>1, <1>7
<1>10. image' = [image EXCEPT ![i].exp = exp]
  BY <1>2, <1>3, <1>9 DEF GroupsInv, G!TypeOK, G!ImageRecords
<1>11. ASSUME G!Live(member), image[i].st = "live", ~G!Within(exp, G!CapOf(group[member])) PROVE i \in former'
  <2> DEFINE cap == G!CapOf(group[member])
  <2>1. ~G!Within(image[i].exp, cap)
    <3>1. CASE G!Beyond(i, work[a].exp)
      <4>1. exp = work[a].exp /\ ~G!Within(image[i].exp, work[a].exp)
        BY <1>9, <3>1 DEF G!Beyond
      <4>2. cap \in G!Durations
        BY <1>7
      <4> HIDE DEF cap
      <4> QED BY <1>1, <1>7, <1>11, <4>1, <4>2 DEF G!Within, G!Durations, cap
    <3>2. CASE ~G!Beyond(i, work[a].exp)
      BY <1>9, <1>11, <3>2
    <3> QED BY <3>1, <3>2
  <2>2. i \in former
    BY <1>3, <1>11, <2>1 DEF GroupsInv, G!RulesHold, G!ImagesWithinCap, G!Beyond
  <2>3. CASE work[a].stale
    BY <1>2, <2>2, <2>3
  <2>4. CASE ~work[a].stale
    <3>1. work[a].exp = cap
      BY <1>1, <1>11, <2>4
    <3>2. G!Beyond(i, work[a].exp)
      BY <1>11, <2>1, <3>1 DEF G!Beyond
    <3>3. exp = cap /\ cap \in G!Durations
      BY <1>7, <1>9, <3>1, <3>2
    <3> HIDE DEF cap
    <3>4. G!Within(exp, cap)
      BY <3>3 DEF G!Within, G!Durations
    <3> QED BY <1>11, <3>4 DEF cap
  <2> QED BY <1>1, <2>3, <2>4
<1> QED BY <1>3, <1>5, <1>6, <1>8, <1>10, <1>11, ExpiryKeeps

-----------------------------------------------------------------------------
LEMMA CreateGroupKeeps ==
  ASSUME GroupsInv, NEW a \in Admins, G!CreateGroup(a)
  PROVE  GroupsInv'
<1> DEFINE g == work[a].g
           e == work[a].edit
           row == [G!Patched(G!NoGroup, e) EXCEPT !.st = "live"]
           ref == <<"group", g>>
<1>1. /\ work[a] \in G!WorkRecords /\ work[a].pc = "newgroup" /\ g \in G!GroupIds /\ group[g].st = "none"
      /\ ValidRow(G!Patched(G!NoGroup, e)) /\ e \in G!EditRecords
  BY WorkIs DEF G!CreateGroup, GroupWork, G!WorkRecords
<1>2. /\ row \in G!GroupRecords /\ row.st = "live" /\ G!ValidLifecycle(row.def, row.max)
  <2>1. G!Patched(G!NoGroup, e) \in G!GroupRecords
    BY <1>1, NothingIs, PatchedTyped
  <2> HIDE DEF e
  <2> QED BY <1>1, <2>1 DEF G!GroupRecords, ValidRow, e
<1>3. /\ group' = [group EXCEPT ![g] = row]
      /\ work' = [b \in Admins |-> IF b = a THEN G!NoWork ELSE [work[b] EXCEPT !.since = @ \cup {ref}]]
      /\ crossed' = IF G!AllLive(row.allowed) THEN crossed \ {ref} ELSE crossed \cup {ref}
      /\ UNCHANGED <<policy, member, image, fk, edits, mixed, former>>
  BY DEF G!CreateGroup, G!Refers
<1> HIDE DEF row
<1>4. ref \in G!References
  BY <1>1 DEF G!References
<1>5. AllCarried(a) /\ \A b \in Admins : b # a => ref \in work'[b].since
  BY <1>3, <1>4, RefersCarries
<1>6. group' \in [G!GroupIds -> G!GroupRecords] /\ group'[g] = row /\ \A h \in G!GroupIds : h # g => group'[h] = group[h]
  BY <1>1, <1>2, <1>3 DEF GroupsInv, G!TypeOK
<1>7. G!TypeOK'
  BY <1>3, <1>4, <1>5, <1>6 DEF GroupsInv, G!TypeOK, AllCarried
<1>8. member # g /\ member \in G!GroupIds /\ group'[member] = group[member]
  BY <1>1, <1>6 DEF GroupsInv, TablesHold, G!TypeOK
<1>9. WorkHolds'
  <2>1. ASSUME NEW b \in Admins, NEW v \in G!WorkRecords, work'[b] = v
        PROVE  GroupWork(v)' /\ PolicyWork(v)' /\ ImageWork(v)'
    <3>1. GroupWork(v) /\ PolicyWork(v) /\ ImageWork(v) /\ (b # a => ref \in v.since /\ Carried(work[b], v))
      BY <1>5, <2>1, CarriedWork
    <3>2. b = a => v.pc = "idle"
      BY <1>5, <2>1, NoWorkHolds DEF AllCarried
    <3>3. v.pc = "newgroup" => v.g # g
      BY <1>1, <3>1, <3>2 DEF GroupsInv, Apart, Carried
    <3>4. v.pc \in {"group", "user", "dropgroup"} => v.g # g /\ v.g \in G!GroupIds
      BY <1>1, <3>1 DEF GroupWork
    <3>5. GroupWork(v)'
      BY <1>3, <1>6, <3>1, <3>3, <3>4 DEF GroupWork, G!Live
    <3>6. PolicyWork(v)'
      BY <1>3, <1>6, <3>1, <3>2 DEF PolicyWork, G!Live
    <3>7. ImageWork(v)'
      BY <1>3, <1>8, <3>1 DEF ImageWork, G!Live
    <3> QED BY <3>5, <3>6, <3>7
  <2> QED BY <2>1 DEF WorkHolds
<1>10. TablesHold'
  BY <1>3, <1>8 DEF GroupsInv, TablesHold
<1>11. G!LimitsAgree'
  <2>1. \A h \in G!GroupIds : h # g => (G!Live(h)' /\ ~G!ValidLifecycle(group'[h].def, group'[h].max) => h \in mixed)
    BY <1>6 DEF GroupsInv, G!RulesHold, G!LimitsAgree, G!Live
  <2> QED BY <1>2, <1>3, <1>6, <2>1 DEF G!LimitsAgree
<1>12. G!ImagesWithinCap' /\ G!SecretsFollowEndpoints'
  BY <1>3, <1>8 DEF GroupsInv, G!RulesHold, G!ImagesWithinCap, G!SecretsFollowEndpoints, G!Live, G!Beyond
<1>13. G!ReferencesHold'
  <2>1. ASSUME NEW h \in G!GroupIds, G!Live(h)', ~G!AllLive(group'[h].allowed) PROVE <<"group", h>> \in crossed'
    <3>1. CASE h = g
      BY <1>3, <1>6, <2>1, <3>1
    <3>2. CASE h # g
      <4>1. <<"group", h>> \in crossed
        BY <1>6, <2>1, <3>2 DEF GroupsInv, G!RulesHold, G!ReferencesHold, G!Live
      <4> QED BY <1>3, <3>2, <4>1
    <3> QED BY <3>1, <3>2
  <2>2. ~G!Live(member) => ~fk /\ <<"user", 1>> \in crossed'
    BY <1>3 DEF GroupsInv, G!RulesHold, G!ReferencesHold
  <2>3. \A i \in G!Images : image[i].st = "live" /\ policy[image[i].policy].st # "live" => ~fk /\ <<"file", i>> \in crossed'
    BY <1>3 DEF GroupsInv, G!RulesHold, G!ReferencesHold
  <2> QED BY <1>3, <1>8, <2>1, <2>2, <2>3 DEF G!ReferencesHold, G!Live, G!AllLive
<1> QED BY <1>5, <1>7, <1>9, <1>10, <1>11, <1>12, <1>13, CarriedApart DEF GroupsInv, G!RulesHold

LEMMA UpdateGroupKeeps ==
  ASSUME GroupsInv, NEW a \in Admins, G!UpdateGroup(a)
  PROVE  GroupsInv'
<1> DEFINE g == work[a].g
           e == work[a].edit
           row == G!Patched(group[g], e)
           ref == <<"group", g>>
           lists == e.allowed # <<G!Keep>>
<1>1. /\ work[a] \in G!WorkRecords /\ work[a].pc = "group" /\ g \in G!GroupIds /\ group[g].st # "none"
      /\ work[a].stale \in BOOLEAN
      /\ work[a].stale = FALSE /\ G!Live(g) => ValidRow(row)
      /\ e \in G!EditRecords
  BY WorkIs DEF G!UpdateGroup, GroupWork, G!WorkRecords
<1>2. UNCHANGED <<policy, member, image, fk, edits>>
  BY DEF G!UpdateGroup
<1>3. CASE ~G!Live(g)
  BY <1>2, <1>3, EndsKeeps DEF G!UpdateGroup, Tables
<1>4. CASE G!Live(g)
  <2>1. /\ group' = [group EXCEPT ![g] = row]
        /\ mixed' = IF G!ValidLifecycle(row.def, row.max) THEN mixed \ {g}
                    ELSE IF work[a].stale THEN mixed \cup {g} ELSE mixed
        /\ work' = [b \in Admins |->
             IF b = a THEN G!NoWork
             ELSE [work[b] EXCEPT !.stale = TRUE, !.since = IF ~lists THEN @ ELSE @ \cup {ref}]]
        /\ crossed' = IF ~lists THEN crossed ELSE IF G!AllLive(row.allowed) THEN crossed \ {ref} ELSE crossed \cup {ref}
        /\ IF g = member THEN G!LimitsMove(G!CapOf(group[g]), G!CapOf(row)) ELSE UNCHANGED former
    BY <1>4 DEF G!UpdateGroup
  <2>2. /\ group[g] \in G!GroupRecords /\ row \in G!GroupRecords /\ row.st = "live"
        /\ row.allowed = IF lists THEN e.allowed ELSE group[g].allowed
    <3>1. group[g] \in G!GroupRecords
      BY <1>1 DEF GroupsInv, G!TypeOK
    <3> HIDE DEF e
    <3> QED BY <1>1, <1>4, <3>1, PatchedTyped DEF G!Live, e
  <2> HIDE DEF row
  <2>3. ref \in G!References
    BY <1>1 DEF G!References
  <2>4. ASSUME NEW b \in Admins, b # a
        PROVE  /\ Carried(work[b], work'[b]) /\ work'[b].stale = TRUE /\ (lists => ref \in work'[b].since)
    <3>1. work[b] \in G!WorkRecords /\ work'[b] = [work[b] EXCEPT !.stale = TRUE, !.since = IF ~lists THEN @ ELSE @ \cup {ref}]
      BY <2>1, <2>4, WorkIs
    <3> HIDE DEF lists, ref
    <3>2. CASE lists
      <4>1. work'[b] = [work[b] EXCEPT !.stale = TRUE, !.since = work[b].since \cup {ref}]
        BY <3>1, <3>2 DEF G!WorkRecords
      <4>2. {ref} \in SUBSET G!References
        BY <2>3
      <4> QED BY <3>1, <4>1, <4>2, StaleCarries
    <3>3. CASE ~lists
      <4>1. work'[b] = [work[b] EXCEPT !.stale = TRUE, !.since = work[b].since \cup {}]
        BY <3>1, <3>3 DEF G!WorkRecords
      <4> QED BY <3>1, <3>3, <4>1, StaleCarries
    <3> QED BY <3>2, <3>3
  <2>5. AllCarried(a)
    <3>1. work' = [b \in Admins |-> work'[b]] /\ work'[a] = G!NoWork
      BY <2>1
    <3> QED BY <2>4, <3>1, NothingIs DEF AllCarried, Carried
  <2>6. group' \in [G!GroupIds -> G!GroupRecords] /\ group'[g] = row /\ \A h \in G!GroupIds : h # g => group'[h] = group[h]
    BY <1>1, <2>1, <2>2 DEF GroupsInv, G!TypeOK
  <2>7. former' \subseteq G!Images /\ mixed' \subseteq G!GroupIds /\ crossed' \subseteq G!References
    BY <1>1, <2>1, <2>3 DEF GroupsInv, G!TypeOK, G!LimitsMove
  <2>8. G!TypeOK'
    BY <1>2, <2>5, <2>6, <2>7 DEF GroupsInv, G!TypeOK, AllCarried
  <2>9. \A h \in G!GroupIds : group'[h].st = group[h].st
    BY <1>4, <2>2, <2>6 DEF G!Live
  <2>10. WorkHolds'
    <3>1. ASSUME NEW b \in Admins, NEW v \in G!WorkRecords, work'[b] = v
          PROVE  GroupWork(v)' /\ PolicyWork(v)' /\ ImageWork(v)'
      <4>1. /\ GroupWork(v) /\ PolicyWork(v) /\ ImageWork(v)
            /\ b = a => v.pc = "idle"
            /\ b # a => v.stale = TRUE /\ (lists => ref \in v.since)
        BY <2>4, <2>5, <3>1, CarriedWork, NoWorkHolds DEF AllCarried
      <4>2. GroupWork(v)'
        BY <1>2, <2>9, <4>1 DEF GroupWork, G!Live
      <4>3. PolicyWork(v)'
        <5>1. ASSUME v.pc = "droppolicy", NEW h \in G!GroupIds, G!Live(h)', v.p \in G!Range(group'[h].allowed)
              PROVE  <<"group", h>> \in v.since
          <6>1. G!Live(h)
            BY <2>9, <5>1 DEF G!Live
          <6>2. CASE h = g /\ lists
            BY <4>1, <5>1, <6>2
          <6>3. CASE ~(h = g /\ lists)
            <7>1. group'[h].allowed = group[h].allowed
              BY <2>2, <2>6, <6>3
            <7> QED BY <4>1, <5>1, <6>1, <7>1 DEF PolicyWork
          <6> QED BY <6>2, <6>3
        <5> QED BY <1>2, <4>1, <5>1 DEF PolicyWork
      <4>4. ImageWork(v)'
        BY <4>1 DEF ImageWork
      <4> QED BY <4>2, <4>3, <4>4
    <3> QED BY <3>1 DEF WorkHolds
  <2>11. TablesHold'
    BY <1>2, <2>9 DEF GroupsInv, TablesHold, G!TypeOK
  <2>12. G!LimitsAgree'
    <3>1. ASSUME NEW h \in G!GroupIds, G!Live(h)', ~G!ValidLifecycle(group'[h].def, group'[h].max) PROVE h \in mixed'
      <4>1. CASE h = g
        <5>1. ~G!ValidLifecycle(row.def, row.max)
          BY <2>6, <3>1, <4>1
        <5>2. work[a].stale = TRUE
          BY <1>1, <1>4, <5>1 DEF ValidRow
        <5> QED BY <2>1, <4>1, <5>1, <5>2
      <4>2. CASE h # g
        <5>1. h \in mixed
          BY <2>6, <3>1, <4>2 DEF GroupsInv, G!RulesHold, G!LimitsAgree, G!Live
        <5> QED BY <2>1, <4>2, <5>1
      <4> QED BY <4>1, <4>2
    <3> QED BY <3>1 DEF G!LimitsAgree
  <2>13. G!ImagesWithinCap'
    <3>1. ASSUME NEW i \in G!Images, G!Live(member)', G!Beyond(i, G!CapOf(group'[member])) PROVE i \in former'
      <4>1. G!Live(member) /\ image[i].st = "live"
        BY <1>2, <2>9, <3>1 DEF G!Live, G!Beyond, GroupsInv, G!TypeOK
      <4>2. CASE G!CapOf(group'[member]) = G!CapOf(group[member]) /\ former' = former
        BY <3>1, <4>1, <4>2 DEF GroupsInv, G!RulesHold, G!ImagesWithinCap
      <4>3. CASE ~(G!CapOf(group'[member]) = G!CapOf(group[member]) /\ former' = former)
        <5>1. g = member
          BY <2>1, <2>6, <4>3 DEF GroupsInv, G!TypeOK
        <5>2. former' = former \/ former' = {j \in G!Images : image[j].st = "live"}
          BY <2>1, <5>1 DEF G!LimitsMove
        <5>3. G!CapOf(group[g]) # G!CapOf(row) \/ former' = former
          BY <2>1, <5>1 DEF G!LimitsMove
        <5>4. former' = {j \in G!Images : image[j].st = "live"} \/ G!CapOf(group[g]) = G!CapOf(row)
          BY <2>1, <5>1 DEF G!LimitsMove
        <5> QED BY <2>6, <4>1, <4>3, <5>1, <5>2, <5>3, <5>4
      <4> QED BY <4>2, <4>3
    <3>2. \A i \in G!Images : G!Beyond(i, G!CapOf(group[member]))' <=> G!Beyond(i, G!CapOf(group'[member]))
      BY <1>2 DEF G!Beyond
    <3> QED BY <1>2, <3>1, <3>2 DEF G!ImagesWithinCap
  <2>14. G!SecretsFollowEndpoints'
    BY <1>2 DEF GroupsInv, G!RulesHold, G!SecretsFollowEndpoints
  <2>15. G!ReferencesHold'
    <3>1. ASSUME NEW h \in G!GroupIds, G!Live(h)', ~G!AllLive(group'[h].allowed) PROVE <<"group", h>> \in crossed'
      <4>1. CASE h = g /\ lists
        BY <2>1, <2>6, <3>1, <4>1
      <4>2. CASE ~(h = g /\ lists)
        <5>1. group'[h].allowed = group[h].allowed /\ G!Live(h)
          BY <2>2, <2>6, <2>9, <3>1, <4>2 DEF G!Live
        <5>2. <<"group", h>> \in crossed
          BY <3>1, <5>1 DEF GroupsInv, G!RulesHold, G!ReferencesHold
        <5>3. lists => h # g
          BY <4>2
        <5> QED BY <2>1, <5>2, <5>3
      <4> QED BY <4>1, <4>2
    <3>2. ~G!Live(member)' => ~fk /\ <<"user", 1>> \in crossed'
      BY <1>2, <2>1, <2>9 DEF GroupsInv, G!RulesHold, G!ReferencesHold, G!Live, G!TypeOK
    <3>3. \A i \in G!Images : image[i].st = "live" /\ policy[image[i].policy].st # "live" => ~fk /\ <<"file", i>> \in crossed'
      BY <2>1 DEF GroupsInv, G!RulesHold, G!ReferencesHold
    <3> QED BY <1>2, <3>1, <3>2, <3>3 DEF G!ReferencesHold, G!AllLive
  <2> QED BY <2>5, <2>8, <2>10, <2>11, <2>12, <2>13, <2>14, <2>15, CarriedApart DEF GroupsInv, G!RulesHold
<1> QED BY <1>3, <1>4

\* The group goes: whoever was put into it has been since it was counted.
LEMMA DeleteGroupKeeps ==
  ASSUME GroupsInv, NEW a \in Admins, G!DeleteGroup(a)
  PROVE  GroupsInv'
<1> DEFINE g == work[a].g
           ref == <<"group", g>>
           user == <<"user", 1>>
           row == [G!NoGroup EXCEPT !.st = "gone"]
<1>1. /\ work[a] \in G!WorkRecords /\ work[a].pc = "dropgroup" /\ g \in G!GroupIds /\ group[g].st # "none"
      /\ member = g => user \in work[a].since
  BY WorkIs DEF G!DeleteGroup, GroupWork
<1>2. UNCHANGED <<policy, member, image, fk, edits>> /\ G!Ends(a)
  BY DEF G!DeleteGroup
<1>3. CASE ~(G!Live(g) /\ ~(fk /\ member = g))
  BY <1>2, <1>3, EndsKeeps DEF G!DeleteGroup, Tables
<1>4. CASE G!Live(g) /\ ~(fk /\ member = g)
  <2>1. /\ group' = [group EXCEPT ![g] = row]
        /\ crossed' = (crossed \ {ref}) \cup (work[a].since \cap {user})
        /\ mixed' = mixed \ {g}
        /\ IF g = member THEN G!LimitsMove(G!CapOf(group[g]), 0) ELSE UNCHANGED former
    BY <1>4 DEF G!DeleteGroup
  <2>2. row \in G!GroupRecords /\ row.st = "gone"
    BY NothingIs DEF G!GroupRecords
  <2> HIDE DEF row
  <2>3. ref \in G!References /\ user \in G!References
    BY <1>1 DEF G!References
  <2>4. AllCarried(a)
    BY <1>2, EndsCarries
  <2>5. group' \in [G!GroupIds -> G!GroupRecords] /\ group'[g] = row /\ \A h \in G!GroupIds : h # g => group'[h] = group[h]
    BY <1>1, <2>1, <2>2 DEF GroupsInv, G!TypeOK
  <2>6. former' \subseteq G!Images /\ mixed' \subseteq G!GroupIds /\ crossed' \subseteq G!References
    BY <1>1, <2>1, <2>3 DEF GroupsInv, G!TypeOK, G!LimitsMove
  <2>7. G!TypeOK'
    BY <1>2, <2>4, <2>5, <2>6 DEF GroupsInv, G!TypeOK, AllCarried
  <2>8. /\ member \in G!GroupIds
        /\ \A h \in G!GroupIds : G!Live(h)' => h # g /\ G!Live(h) /\ group'[h] = group[h]
        /\ \A h \in G!GroupIds : group'[h].st = "none" <=> group[h].st = "none"
    <3>1. member \in G!GroupIds
      BY DEF GroupsInv, G!TypeOK
    <3>3. \A h \in G!GroupIds : (group'[h].st = "live" => h # g /\ group'[h] = group[h])
      BY <2>2, <2>5
    <3>4. \A h \in G!GroupIds : group'[h].st = "none" <=> group[h].st = "none"
      BY <1>1, <2>2, <2>5
    <3> QED BY <3>1, <3>3, <3>4 DEF G!Live
  <2>9. WorkHolds'
    <3>1. ASSUME NEW b \in Admins, NEW v \in G!WorkRecords, work'[b] = v
          PROVE  GroupWork(v)' /\ PolicyWork(v)' /\ ImageWork(v)'
      <4>1. GroupWork(v) /\ PolicyWork(v) /\ ImageWork(v)
        BY <2>4, <3>1, CarriedWork
      <4>2. GroupWork(v)'
        BY <1>2, <2>8, <4>1 DEF GroupWork
      <4>3. PolicyWork(v)'
        BY <1>2, <2>8, <4>1 DEF PolicyWork
      <4>4. ImageWork(v)'
        BY <1>2, <2>8, <4>1 DEF ImageWork
      <4> QED BY <4>2, <4>3, <4>4
    <3> QED BY <3>1 DEF WorkHolds
  <2>10. TablesHold'
    BY <1>2, <2>8 DEF GroupsInv, TablesHold
  <2>11. G!LimitsAgree'
    BY <2>1, <2>8 DEF GroupsInv, G!RulesHold, G!LimitsAgree
  <2>12. G!ImagesWithinCap'
    <3>1. CASE member = g
      BY <1>2, <2>8, <3>1 DEF G!ImagesWithinCap
    <3>2. CASE member # g
      <4>1. group'[member] = group[member] /\ former' = former
        BY <2>1, <2>5, <2>8, <3>2
      <4> QED BY <1>2, <4>1 DEF GroupsInv, G!RulesHold, G!ImagesWithinCap, G!Live, G!Beyond
    <3> QED BY <3>1, <3>2
  <2>13. G!SecretsFollowEndpoints'
    BY <1>2 DEF GroupsInv, G!RulesHold, G!SecretsFollowEndpoints
  <2>14. G!ReferencesHold'
    <3>1. \A h \in G!GroupIds : G!Live(h)' /\ ~G!AllLive(group'[h].allowed) => <<"group", h>> \in crossed'
      <4>1. ASSUME NEW h \in G!GroupIds, G!Live(h)', ~G!AllLive(group'[h].allowed) PROVE <<"group", h>> \in crossed'
        <5>1. h # g /\ <<"group", h>> \in crossed
          BY <2>8, <4>1 DEF GroupsInv, G!RulesHold, G!ReferencesHold
        <5> QED BY <2>1, <5>1
      <4> QED BY <4>1
    <3>2. ~G!Live(member)' => ~fk /\ user \in crossed'
      <4>1. CASE member = g
        BY <1>1, <1>4, <2>1, <4>1
      <4>2. CASE member # g
        <5>1. G!Live(member)' <=> G!Live(member)
          BY <1>2, <2>5, <2>8, <4>2 DEF G!Live
        <5> QED BY <2>1, <5>1 DEF GroupsInv, G!RulesHold, G!ReferencesHold
      <4> QED BY <4>1, <4>2
    <3>3. \A i \in G!Images : image[i].st = "live" /\ policy[image[i].policy].st # "live" => ~fk /\ <<"file", i>> \in crossed'
      BY <2>1 DEF GroupsInv, G!RulesHold, G!ReferencesHold
    <3> QED BY <1>2, <3>1, <3>2, <3>3 DEF G!ReferencesHold, G!AllLive
  <2> QED BY <2>4, <2>7, <2>9, <2>10, <2>11, <2>12, <2>13, <2>14, CarriedApart DEF GroupsInv, G!RulesHold
<1> QED BY <1>3, <1>4

\* The user moves: what was decided under the old group is stale.
LEMMA UpdateUserKeeps ==
  ASSUME GroupsInv, NEW a \in Admins, G!UpdateUser(a)
  PROVE  GroupsInv'
<1> DEFINE g == work[a].g
           user == <<"user", 1>>
<1>1. work[a] \in G!WorkRecords /\ work[a].pc = "user" /\ g \in G!GroupIds /\ group[g].st # "none"
  BY WorkIs DEF G!UpdateUser, GroupWork
<1>2. UNCHANGED <<group, policy, image, fk, edits, mixed>>
  BY DEF G!UpdateUser
<1>3. CASE fk /\ ~G!Live(g)
  BY <1>2, <1>3, EndsKeeps DEF G!UpdateUser, Tables
<1>4. CASE ~(fk /\ ~G!Live(g))
  <2>1. /\ member' = g /\ G!LimitsMove(member, g)
        /\ work' = [b \in Admins |-> IF b = a THEN G!NoWork
                      ELSE [work[b] EXCEPT !.stale = TRUE, !.since = @ \cup {user}]]
        /\ crossed' = IF G!Live(g) THEN crossed \ {user} ELSE crossed \cup {user}
    BY <1>4 DEF G!UpdateUser
  <2>2. user \in G!References
    BY DEF G!References
  <2>3. ASSUME NEW b \in Admins, b # a
        PROVE  Carried(work[b], work'[b]) /\ work'[b].stale = TRUE /\ user \in work'[b].since
    <3>1. work[b] \in G!WorkRecords /\ work'[b] = [work[b] EXCEPT !.stale = TRUE, !.since = work[b].since \cup {user}]
      BY <2>1, <2>3, WorkIs
    <3>2. {user} \in SUBSET G!References
      BY <2>2
    <3> HIDE DEF user
    <3> QED BY <3>1, <3>2, StaleCarries
  <2>4. AllCarried(a)
    <3>1. work' = [b \in Admins |-> work'[b]] /\ work'[a] = G!NoWork
      BY <2>1
    <3> QED BY <2>3, <3>1, NothingIs DEF AllCarried, Carried
  <2>5. former' \subseteq G!Images /\ crossed' \subseteq G!References
    BY <2>1, <2>2 DEF GroupsInv, G!TypeOK, G!LimitsMove
  <2>6. G!TypeOK'
    BY <1>1, <1>2, <2>1, <2>4, <2>5 DEF GroupsInv, G!TypeOK, AllCarried
  <2>7. WorkHolds'
    <3>1. ASSUME NEW b \in Admins, NEW v \in G!WorkRecords, work'[b] = v
          PROVE  GroupWork(v)' /\ PolicyWork(v)' /\ ImageWork(v)'
      <4>1. /\ GroupWork(v) /\ PolicyWork(v) /\ ImageWork(v)
            /\ b = a => v.pc = "idle"
            /\ b # a => v.stale = TRUE /\ user \in v.since
        BY <2>3, <2>4, <3>1, CarriedWork, NoWorkHolds DEF AllCarried
      <4>2. GroupWork(v)'
        BY <1>2, <4>1 DEF GroupWork, G!Live
      <4>3. PolicyWork(v)'
        BY <1>2, <4>1 DEF PolicyWork, G!Live
      <4>4. ImageWork(v)'
        BY <4>1 DEF ImageWork
      <4> QED BY <4>2, <4>3, <4>4
    <3> QED BY <3>1 DEF WorkHolds
  <2>8. TablesHold'
    BY <1>1, <1>2, <2>1 DEF GroupsInv, TablesHold
  <2>9. G!LimitsAgree' /\ G!SecretsFollowEndpoints'
    BY <1>2 DEF GroupsInv, G!RulesHold, G!LimitsAgree, G!SecretsFollowEndpoints, G!Live
  <2>10. G!ImagesWithinCap'
    <3>1. ASSUME NEW i \in G!Images, G!Live(g), G!Beyond(i, G!CapOf(group[g])) PROVE i \in former'
      <4>1. CASE member = g
        BY <2>1, <3>1, <4>1 DEF G!LimitsMove, GroupsInv, G!RulesHold, G!ImagesWithinCap
      <4>2. CASE member # g
        BY <2>1, <3>1, <4>2 DEF G!LimitsMove, G!Beyond
      <4> QED BY <4>1, <4>2
    <3> QED BY <1>2, <2>1, <3>1 DEF G!ImagesWithinCap, G!Live, G!Beyond
  <2>11. G!ReferencesHold'
    <3>1. ~G!Live(g) => ~fk /\ user \in crossed'
      BY <1>4, <2>1
    <3>2. \A h \in G!GroupIds : G!Live(h) /\ ~G!AllLive(group[h].allowed) => <<"group", h>> \in crossed'
      BY <2>1 DEF GroupsInv, G!RulesHold, G!ReferencesHold
    <3>3. \A i \in G!Images : image[i].st = "live" /\ policy[image[i].policy].st # "live" => ~fk /\ <<"file", i>> \in crossed'
      BY <2>1 DEF GroupsInv, G!RulesHold, G!ReferencesHold
    <3> QED BY <1>2, <2>1, <3>1, <3>2, <3>3 DEF G!ReferencesHold, G!Live, G!AllLive
  <2> QED BY <2>4, <2>6, <2>7, <2>8, <2>9, <2>10, <2>11, CarriedApart DEF GroupsInv, G!RulesHold
<1> QED BY <1>3, <1>4

-----------------------------------------------------------------------------
LEMMA GroupsStep == GroupsInv /\ [G!Next]_(G!desk) => GroupsInv'
<1> SUFFICES ASSUME GroupsInv, [G!Next]_(G!desk) PROVE GroupsInv'
  OBVIOUS
<1>1. CASE UNCHANGED G!desk
  <2>1. UNCHANGED Tables /\ UNCHANGED <<work, edits>>
    BY <1>1 DEF G!desk, Tables
  <2>2. G!TypeOK'
    BY <2>1 DEF GroupsInv, G!TypeOK, Tables
  <2>3. WorkHolds' /\ Apart'
    BY <2>1, TablesKeep DEF GroupsInv, WorkHolds, Apart
  <2> QED BY <2>1, <2>2, <2>3, TablesKeep DEF GroupsInv
<1>2. CASE G!Next
  <2> PICK a \in Admins :
    \/ \E g \in G!GroupIds, e \in Edits : G!BeginCreateGroup(a, g, e) \/ G!BeginUpdateGroup(a, g, e)
    \/ \E g \in G!GroupIds : G!BeginDeleteGroup(a, g) \/ G!BeginUpdateUser(a, g)
    \/ G!CreateGroup(a) \/ G!UpdateGroup(a) \/ G!DeleteGroup(a) \/ G!UpdateUser(a)
    \/ \E p \in G!PolicyIds, enabled \in BOOLEAN, e \in Endpoints : G!CreatePolicy(a, p, enabled, e)
    \/ \E p \in G!PolicyIds, enabled, masked \in BOOLEAN, e \in Endpoints : G!BeginUpdatePolicy(a, p, enabled, e, masked)
    \/ \E p \in G!PolicyIds : G!BeginDeletePolicy(a, p)
    \/ G!DisablePolicy(a) \/ G!UpdatePolicy(a) \/ G!DeletePolicyGroups(a) \/ G!DeletePolicy(a)
    \/ \E i \in G!Images, exp \in G!Durations : G!BeginUpload(a, i, exp) \/ G!BeginUpdateExpiry(a, i, exp)
    \/ \E explicit \in 0 .. NumPolicies : G!ResolvePolicy(a, explicit)
    \/ G!CommitUpload(a) \/ G!UpdateExpiry(a) \/ G!BeginApplyLifecycle(a) \/ G!ApplyLifecycle(a)
    BY <1>2, Zenon DEF G!Next
  <2>1. CASE \/ \E g \in G!GroupIds, e \in Edits : G!BeginCreateGroup(a, g, e) \/ G!BeginUpdateGroup(a, g, e)
             \/ \E g \in G!GroupIds : G!BeginDeleteGroup(a, g) \/ G!BeginUpdateUser(a, g)
    BY <2>1, BeginsGroups, Zenon
  <2>2. CASE G!CreateGroup(a) \/ G!UpdateGroup(a) \/ G!DeleteGroup(a) \/ G!UpdateUser(a)
    BY <2>2, CreateGroupKeeps, UpdateGroupKeeps, DeleteGroupKeeps, UpdateUserKeeps, Zenon
  <2>3. CASE \/ \E p \in G!PolicyIds, enabled \in BOOLEAN, e \in Endpoints : G!CreatePolicy(a, p, enabled, e)
             \/ G!DisablePolicy(a) \/ G!UpdatePolicy(a)
    BY <2>3, PolicyWrites, Zenon
  <2>4. CASE \/ \E p \in G!PolicyIds, enabled, masked \in BOOLEAN, e \in Endpoints : G!BeginUpdatePolicy(a, p, enabled, e, masked)
             \/ \E p \in G!PolicyIds : G!BeginDeletePolicy(a, p)
    BY <2>4, BeginsPolicies, Zenon
  <2>5. CASE G!DeletePolicyGroups(a) \/ \E explicit \in 0 .. NumPolicies : G!ResolvePolicy(a, explicit)
    BY <2>5, GoesOnKeeps, Zenon
  <2>6. CASE \/ \E i \in G!Images, exp \in G!Durations : G!BeginUpload(a, i, exp) \/ G!BeginUpdateExpiry(a, i, exp)
             \/ G!BeginApplyLifecycle(a)
    BY <2>6, BeginsImages, Zenon
  <2>7. CASE G!DeletePolicy(a) \/ G!CommitUpload(a) \/ G!UpdateExpiry(a) \/ G!ApplyLifecycle(a)
    BY <2>7, DeletePolicyKeeps, CommitUploadKeeps, UpdateExpiryKeeps, ApplyLifecycleKeeps, Zenon
  <2> QED BY <2>1, <2>2, <2>3, <2>4, <2>5, <2>6, <2>7, Zenon
<1> QED BY <1>1, <1>2

\* Groups: the rules administrators set hold for what was decided under them,
\* though no transaction spans a check and its write: a default that exceeds
\* its maximum was combined by edits that overlapped, an image that outlives
\* its owner's cap was admitted under other limits, a reference to what is
\* gone was written while a deletion was under way and where no foreign key
\* was, and a secret goes to the end it was typed for.
THEOREM GroupsCorrect == G!Spec => []GroupsInv
<1>1. G!Init => GroupsInv
  BY GroupsInit
<1>2. GroupsInv /\ [G!Next]_(G!desk) => GroupsInv'
  BY GroupsStep
<1> QED BY <1>1, <1>2, PTL DEF G!Spec

-----------------------------------------------------------------------------
(* Both together.                                                          *)

\* Accounts and Groups in one process are Accounts, and they are Groups: what
\* is proved of each holds of both.
THEOREM AccessIsBoth == Access => Spec /\ G!Spec
<1>1. AccessInit => Init /\ G!Init
  BY DEF AccessInit
<1>2. [AccessNext]_<<part, vars, desk>> => [Next]_vars /\ [G!Next]_(G!desk)
  BY DEF AccessNext, desk, G!desk
<1> QED BY <1>1, <1>2, PTL DEF Access, Spec, G!Spec

\* Rows of accounts, groups and policies, requests in flight and what was
\* recorded of them keep their types, whichever part is followed.
THEOREM AccessTypes == Access => []AccessTypeOK
<1>1. TypeOK /\ GroupsInv => AccessTypeOK
  BY DEF AccessTypeOK, GroupsInv
<1> QED BY <1>1, AccessIsBoth, AccountsTypeOK, GroupsCorrect, PTL

\* The rules of groups and policies hold in the composition that is checked:
\* limits agree, images stay within their cap, references hold and secrets
\* follow their end, each with the exceptions the code really leaves.
THEOREM RulesAlwaysHold == Access => []RulesHold
<1>1. GroupsInv => RulesHold
  BY DEF RulesHold, GroupsInv
<1> QED BY <1>1, AccessIsBoth, GroupsCorrect, PTL

=============================================================================
