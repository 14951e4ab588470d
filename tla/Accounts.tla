------------------------------ MODULE Accounts ------------------------------
(***************************************************************************)
(* Accounts: registration with invite codes and the claim of the first     *)
(* administrator, sessions, passwords, and the one-time links that reset a *)
(* password, verify an address or change it; administrators ban users and  *)
(* revoke codes, users delete their accounts.                              *)
(*                                                                         *)
(* A database transaction is one step; a request stops between a read and  *)
(* the transaction that relies on it.  A password is the number of times   *)
(* it was changed; a session is named by its user and the password its     *)
(* login verified.  Requests for a link are one step: what they check is   *)
(* not affected by anything that could come before the link is stored.     *)
(***************************************************************************)
EXTENDS Integers, FiniteSets

CONSTANTS
  Users,      \* pool of user rows
  Emails,     \* addresses
  Invites,    \* pool of invite codes
  Links,      \* pool of one-time links
  Requests,   \* requests in flight
  None,       \* "no value"
  Purposes,   \* kinds of links that are in use in the instance
  MaxPw,      \* bound on password changes of a user
  MaxEvents   \* bound on operations begun and links and codes expired, in all

Modes == {"open", "invite", "closed"}

ASSUME AccountsAssumption ==
  /\ None \notin Users \cup Invites \cup Links \cup Emails \cup {"verify", "reset", "change"}
  /\ Purposes \subseteq {"verify", "reset", "change"}
  /\ IsFiniteSet(Links)
  /\ MaxPw \in Nat /\ MaxEvents \in Nat

VARIABLES
  users,     \* the users table
  claimed,   \* the first_admin_claimed setting
  mode,      \* the registration_mode setting
  invites,   \* the invite_codes table
  links,     \* the auth_tokens table
  sessions,  \* the sessions table: <<user, password verified>>
  req,       \* the requests
  events,    \* operations begun and expiries so far
  joined,    \* history: accounts each code admitted
  late,      \* history: sessions stored after the password they verified had changed
  uses       \* history: what each link was used for successfully

tables == <<users, claimed, mode, invites, links, sessions>>
history == <<joined, late, uses>>
vars == <<tables, req, events, history>>

UserRecords == [st: {"none", "active", "banned", "deleted"}, email: Emails \cup {None},
                pw: 0 .. MaxPw, admin: BOOLEAN, verified: BOOLEAN, invite: Invites \cup {None}]
InviteRecords == [st: {"none", "live", "expired", "revoked"}, by: Users \cup {None}]
LinkRecords == [st: {"none", "valid", "used", "expired", "deleted"}, user: Users \cup {None},
                purpose: Purposes \cup {None}, email: Emails \cup {None}]
ReqRecords == [pc: {"idle", "register", "welcome", "login", "session", "change", "use", "revoke"},
               user: Users \cup {None}, email: Emails \cup {None}, invite: Invites \cup {None},
               link: Links \cup {None}, pw: 0 .. MaxPw]

Nobody == [st |-> "none", email |-> None, pw |-> 0, admin |-> FALSE, verified |-> FALSE,
           invite |-> None]
NoLink == [st |-> "none", user |-> None, purpose |-> None, email |-> None]
Idle == [pc |-> "idle", user |-> None, email |-> None, invite |-> None, link |-> None, pw |-> 0]

Init ==
  /\ users = [u \in Users |-> Nobody]
  /\ claimed = None
  /\ mode \in Modes \ {"closed"}
  /\ invites = [i \in Invites |-> [st |-> "none", by |-> None]]
  /\ links = [l \in Links |-> NoLink]
  /\ sessions = {}
  /\ req = [r \in Requests |-> Idle]
  /\ events = 0
  /\ joined = [i \in Invites |-> 0]
  /\ late = {}
  /\ uses = [l \in Links |-> 0]

At(r, step) == req[r].pc = step
Finish(r) == req' = [req EXCEPT ![r] = Idle]
Exists(u) == users[u].st \in {"active", "banned"}
Event == events < MaxEvents /\ events' = events + 1

-----------------------------------------------------------------------------
(* One-time links.                                                         *)

\* createAuthTokenPayload: a new link voids the older ones of its kind.
Issued(old, l, u, purpose, email) ==
  [k \in Links |->
     IF k = l THEN [st |-> "valid", user |-> u, purpose |-> purpose, email |-> email]
     ELSE IF old[k].st \in {"valid", "expired"} /\ old[k].user = u /\ old[k].purpose = purpose
       THEN [old[k] EXCEPT !.st = "used"] ELSE old[k]]

\* ForgotPassword, ResendVerification and RequestChangeEmail.
RequestLink(u) ==
  /\ Exists(u) /\ Event
  /\ \E l \in Links, purpose \in Purposes, email \in Emails \cup {None} :
       /\ links[l].st = "none"
       /\ purpose = "verify" => ~users[u].verified
       /\ IF purpose = "change"
            THEN email # None /\ \A v \in Users : Exists(v) => users[v].email # email
            ELSE email = None
       /\ links' = Issued(links, l, u, purpose, email)
  /\ UNCHANGED <<users, claimed, mode, invites, sessions, req, history>>

\* The link is looked up: unused and not expired.
LinkRead(r) ==
  /\ At(r, "idle") /\ Event
  /\ \E l \in Links :
       /\ links[l].st = "valid"
       /\ req' = [req EXCEPT ![r] = [Idle EXCEPT !.pc = "use", !.link = l]]
  /\ UNCHANGED <<tables, history>>

\* The links a use marks: its own, or every valid reset link of the user.
Consumes(l) ==
  IF links[l].purpose = "reset"
    THEN {k \in Links : links[k].st = "valid" /\ links[k].purpose = "reset"
                          /\ links[k].user = links[l].user}
    ELSE {l} \cap {k \in Links : links[k].st = "valid"}

\* The sessions that stay when a user's are deleted: all of them.
SessionsKept(u) == sessions

\* DELETE FROM sessions WHERE user_id = ?
SessionsWithout(u) == {s \in sessions : s[1] # u}

EmailTakenNever(e) == FALSE

\* The unique index on users.email, and the checks before it.
EmailTaken(e) == \E v \in Users : Exists(v) /\ users[v].email = e

\* VerifyEmail, ConfirmChangeEmail and ResetPasswordByToken: the transaction
\* gives up when it marks no link or when the new address is taken.
LinkUse(r) ==
  /\ At(r, "use")
  /\ LET l == req[r].link
         u == links[l].user
         purpose == links[l].purpose IN
     \/ /\ \/ links[l].st = "deleted"
           \/ Consumes(l) = {}
           \/ purpose = "change" /\ EmailTaken(links[l].email)
        /\ UNCHANGED <<users, links, sessions, uses>>
     \/ /\ links[l].st # "deleted"
        /\ Consumes(l) # {}
        /\ links' = [k \in Links |-> IF k \in Consumes(l) THEN [links[k] EXCEPT !.st = "used"] ELSE links[k]]
        /\ uses' = [uses EXCEPT ![l] = @ + 1]
        /\ \/ /\ purpose = "verify"
              /\ users' = [users EXCEPT ![u].verified = TRUE]
              /\ UNCHANGED sessions
           \/ /\ purpose = "change" /\ ~EmailTaken(links[l].email)
              /\ users' = [users EXCEPT ![u].email = links[l].email, ![u].verified = TRUE]
              /\ sessions' = SessionsWithout(u)
           \/ /\ purpose = "reset" /\ users[u].pw < MaxPw
              /\ users' = [users EXCEPT ![u].pw = @ + 1]
              /\ sessions' = SessionsWithout(u)
  /\ Finish(r)
  /\ UNCHANGED <<claimed, mode, invites, events, joined, late>>

ExpireLink(l) ==
  /\ links[l].st = "valid" /\ Event
  /\ links' = [links EXCEPT ![l].st = "expired"]
  /\ UNCHANGED <<users, claimed, mode, invites, sessions, req, history>>

-----------------------------------------------------------------------------
(* Registration.                                                           *)

\* The mode is read before the transaction; only "invite" looks at the code.
RegisterRead(r) ==
  /\ At(r, "idle") /\ Event
  /\ mode # "closed"
  /\ \E e \in Emails, i \in Invites \cup {None} :
       /\ (i # None) <=> (mode = "invite")
       /\ req' = [req EXCEPT ![r] = [Idle EXCEPT !.pc = "register", !.email = e, !.invite = i]]
  /\ UNCHANGED <<tables, history>>

\* A code is looked at, but not whether it was used.
RedeemableUsed(i) == invites[i].st = "live"

\* The conditional update that redeems a code.
Redeemable(i) == invites[i].st = "live" /\ invites[i].by = None

\* The first administrator is whoever registers.
ClaimsAnyway(u) == TRUE

\* ON CONFLICT DO NOTHING on the key of the claim.
Claims(u) == claimed = None

\* The transaction of RegisterWithMeta: any refusal undoes all of it.
RegisterCommit(r) ==
  /\ At(r, "register")
  /\ LET e == req[r].email
         i == req[r].invite IN
     \/ /\ EmailTaken(e) \/ (i # None /\ ~Redeemable(i))
        /\ Finish(r)
        /\ UNCHANGED <<users, claimed, invites, joined>>
     \/ /\ ~EmailTaken(e)
        /\ i # None => Redeemable(i)
        /\ \E u \in Users :
             /\ users[u].st = "none"
             /\ users' = [users EXCEPT ![u] = [Nobody EXCEPT !.st = "active", !.email = e,
                                                 !.admin = Claims(u), !.invite = i]]
             /\ claimed' = IF Claims(u) THEN u ELSE claimed
             /\ invites' = IF i = None THEN invites ELSE [invites EXCEPT ![i].by = u]
             /\ joined' = IF i = None THEN joined ELSE [joined EXCEPT ![i] = @ + 1]
             /\ req' = [req EXCEPT ![r] = [Idle EXCEPT !.pc = "welcome", !.user = u]]
  /\ UNCHANGED <<mode, links, sessions, events, late, uses>>

\* sendVerifyEmail stores a link, or fails with a log line; then Login follows.
SendVerifyEmail(r) ==
  /\ At(r, "welcome")
  /\ LET u == req[r].user IN
     \/ UNCHANGED links
     \/ /\ "verify" \in Purposes /\ Exists(u)
        /\ \E l \in Links :
             /\ links[l].st = "none"
             /\ links' = Issued(links, l, u, "verify", None)
  /\ req' = [req EXCEPT ![r].pc = "login"]
  /\ UNCHANGED <<users, claimed, mode, invites, sessions, events, history>>

CreateInvites(i) ==
  /\ invites[i].st = "none" /\ Event
  /\ invites' = [invites EXCEPT ![i].st = "live"]
  /\ UNCHANGED <<users, claimed, mode, links, sessions, req, history>>

ExpireInvite(i) ==
  /\ invites[i].st = "live" /\ Event
  /\ invites' = [invites EXCEPT ![i].st = "expired"]
  /\ UNCHANGED <<users, claimed, mode, links, sessions, req, history>>

\* RevokeInvite reads a code that is not used ...
RevokeRead(r) ==
  /\ At(r, "idle") /\ Event
  /\ \E i \in Invites :
       /\ invites[i].st \in {"live", "expired"} /\ invites[i].by = None
       /\ req' = [req EXCEPT ![r] = [Idle EXCEPT !.pc = "revoke", !.invite = i]]
  /\ UNCHANGED <<tables, history>>

\* ... and deletes it if it still is not.
RevokeInvite(r) ==
  /\ At(r, "revoke")
  /\ LET i == req[r].invite IN
     invites' = IF invites[i].by = None THEN [invites EXCEPT ![i].st = "revoked"] ELSE invites
  /\ Finish(r)
  /\ UNCHANGED <<users, claimed, mode, links, sessions, events, history>>

-----------------------------------------------------------------------------
(* Sessions and passwords.                                                 *)

\* Login reads the user and verifies the password, after a registration or on
\* its own; OIDC finds the user by address instead.
Login(r) ==
  /\ \/ At(r, "idle") /\ Event
     \/ At(r, "login") /\ UNCHANGED events
  /\ \E u \in Users :
       /\ At(r, "login") => u = req[r].user
       /\ users[u].st = "active"
       /\ req' = [req EXCEPT ![r] = [Idle EXCEPT !.pc = "session", !.user = u, !.pw = users[u].pw]]
  /\ UNCHANGED <<tables, history>>

\* A registration whose user was banned or deleted before its login.
LoginRefused(r) ==
  /\ At(r, "login")
  /\ users[req[r].user].st # "active"
  /\ Finish(r)
  /\ UNCHANGED <<tables, events, history>>

\* Exchange creates an unknown user whatever the registration mode is, and
\* claims no administrator.
OidcCreate(r) ==
  /\ At(r, "idle") /\ Event
  /\ \E u \in Users, e \in Emails, verified \in BOOLEAN :
       /\ users[u].st = "none" /\ ~EmailTaken(e)
       /\ users' = [users EXCEPT ![u] = [Nobody EXCEPT !.st = "active", !.email = e,
                                           !.verified = verified]]
       /\ req' = [req EXCEPT ![r] = [Idle EXCEPT !.pc = "session", !.user = u]]
  /\ UNCHANGED <<claimed, mode, invites, links, sessions, history>>

\* CreateSession: refused by the foreign key once the user is gone.
CreateSession(r) ==
  /\ At(r, "session")
  /\ LET u == req[r].user
         s == <<u, req[r].pw>> IN
     IF Exists(u)
       THEN /\ sessions' = sessions \cup {s}
            /\ late' = IF s[2] # users[u].pw THEN late \cup {s} ELSE late
       ELSE UNCHANGED <<sessions, late>>
  /\ Finish(r)
  /\ UNCHANGED <<users, claimed, mode, invites, links, events, joined, uses>>

Logout(s) ==
  /\ s \in sessions /\ Event
  /\ sessions' = sessions \ {s}
  /\ UNCHANGED <<users, claimed, mode, invites, links, req, history>>

\* ChangePassword verifies the old password ...
ChangePasswordRead(r) ==
  /\ At(r, "idle") /\ Event
  /\ \E u \in Users :
       /\ users[u].st = "active" /\ users[u].pw < MaxPw
       /\ req' = [req EXCEPT ![r] = [Idle EXCEPT !.pc = "change", !.user = u]]
  /\ UNCHANGED <<tables, history>>

\* ... and stores the new one, whatever the old one has become, and logs the
\* user out everywhere.
ChangePassword(r) ==
  /\ At(r, "change")
  /\ LET u == req[r].user IN
     IF Exists(u) /\ users[u].pw < MaxPw
       THEN /\ users' = [users EXCEPT ![u].pw = @ + 1]
            /\ sessions' = SessionsWithout(u)
       ELSE UNCHANGED <<users, sessions>>
  /\ Finish(r)
  /\ UNCHANGED <<claimed, mode, invites, links, events, history>>

-----------------------------------------------------------------------------
(* Administration and deletion.                                            *)

\* adminsvc.ResetPassword
ResetPassword(u) ==
  /\ Exists(u) /\ users[u].pw < MaxPw /\ Event
  /\ users' = [users EXCEPT ![u].pw = @ + 1]
  /\ sessions' = SessionsWithout(u)
  /\ UNCHANGED <<claimed, mode, invites, links, req, history>>

\* UpdateUser: an administrator, and there is one, does not ban himself.
UpdateUser(u) ==
  /\ Exists(u) /\ Event
  /\ \E actor \in Users :
       /\ users[actor].admin /\ users[actor].st = "active"
       /\ \/ users[u].st = "active" /\ actor # u /\ users' = [users EXCEPT ![u].st = "banned"]
          \/ users[u].st = "banned" /\ users' = [users EXCEPT ![u].st = "active"]
  /\ UNCHANGED <<claimed, mode, invites, links, sessions, req, history>>

SetRegistrationMode ==
  /\ Event
  /\ mode' \in Modes \ {mode}
  /\ UNCHANGED <<users, claimed, invites, links, sessions, req, history>>

\* DeleteAccount, refused to administrators, and DeleteUserData.
DeleteAccount(u) ==
  /\ users[u].st = "active" /\ ~users[u].admin /\ Event
  /\ users' = [users EXCEPT ![u] = [Nobody EXCEPT !.st = "deleted"]]
  /\ links' = [l \in Links |-> IF links[l].user = u THEN [links[l] EXCEPT !.st = "deleted"] ELSE links[l]]
  /\ sessions' = SessionsWithout(u)
  /\ UNCHANGED <<claimed, mode, invites, req, history>>

Next ==
  \/ \E r \in Requests :
       \/ RegisterRead(r) \/ RegisterCommit(r) \/ SendVerifyEmail(r)
       \/ RevokeRead(r) \/ RevokeInvite(r)
       \/ Login(r) \/ LoginRefused(r) \/ OidcCreate(r) \/ CreateSession(r)
       \/ ChangePasswordRead(r) \/ ChangePassword(r)
       \/ LinkRead(r) \/ LinkUse(r)
  \/ \E u \in Users : RequestLink(u) \/ ResetPassword(u) \/ UpdateUser(u) \/ DeleteAccount(u)
  \/ \E l \in Links : ExpireLink(l)
  \/ \E i \in Invites : CreateInvites(i) \/ ExpireInvite(i)
  \/ \E s \in sessions : Logout(s)
  \/ SetRegistrationMode

Spec == Init /\ [][Next]_vars

-----------------------------------------------------------------------------
(* Properties.                                                             *)

TypeOK ==
  /\ users \in [Users -> UserRecords]
  /\ \A u, v \in Users : Exists(u) /\ Exists(v) /\ u # v => users[u].email # users[v].email
  /\ claimed \in Users \cup {None}
  /\ mode \in Modes
  /\ invites \in [Invites -> InviteRecords]
  /\ links \in [Links -> LinkRecords]
  /\ sessions \subseteq Users \X (0 .. MaxPw)
  /\ req \in [Requests -> ReqRecords]
  /\ events \in 0 .. MaxEvents
  /\ joined \in [Invites -> Nat]
  /\ late \subseteq Users \X (0 .. MaxPw)
  /\ uses \in [Links -> Nat]

\* From the first registration on there is one administrator, who neither
\* deletes nor bans himself, so that he is never locked out of the instance.
OneAdministrator ==
  /\ {u \in Users : users[u].admin} = {claimed} \ {None}
  /\ claimed # None => users[claimed].st = "active"

\* A session knows the user's present password: changing or resetting it logs
\* out every device.  The exceptions are logins that had verified the former
\* password and stored their session after the change (Login, ChangePassword,
\* ResetPassword, ResetPasswordByToken).
SessionsKnowThePassword ==
  \A s \in sessions : Exists(s[1]) /\ (s[2] = users[s[1]].pw \/ s \in late)

\* Codes work once.  An invite admits one account, however many registrations
\* present it at once, and none after an administrator was told that it is
\* revoked (the redemption in RegisterWithMeta against the conditional delete
\* in RevokeInvite).  Two uses of a verification link or of a change of address
\* never both succeed; every reset spends a link of the user, though a reset
\* that read its link before another spent it may spend a newer one instead.
CodesWorkOnce ==
  /\ \A i \in Invites :
       /\ joined[i] <= 1
       /\ joined[i] = 1 <=> invites[i].by # None
       /\ invites[i].st = "revoked" => joined[i] = 0
  /\ \A l \in Links : links[l].purpose # "reset" => uses[l] <= 1
  /\ \A u \in Users :
       LET mine == {l \in Links : links[l].user = u /\ links[l].purpose = "reset"}
       IN \A n \in 1 .. 2 : (\E l \in mine : uses[l] = n) =>
            Cardinality({l \in mine : links[l].st \in {"used", "deleted"}}) >= n
  /\ \A k, l \in Links : k # l /\ links[k].st = "valid" /\ links[l].st = "valid"
       => <<links[k].user, links[k].purpose>> # <<links[l].user, links[l].purpose>>

=============================================================================
