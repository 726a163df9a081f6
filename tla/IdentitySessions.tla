-------------------------- MODULE IdentitySessions --------------------------
(***************************************************************************)
(* Human accounts: registration, mailed links, sessions with rotating      *)
(* refresh tokens, membership of workspaces and its administration.        *)
(*                                                                         *)
(*   cloud-identity/src/lib.rs   the handlers; a request is several        *)
(*                               transactions, and requests interleave     *)
(*   cloud-db/src/identity.rs    one transaction each                      *)
(*                                                                         *)
(* A workspace is named by the user whose registration creates it.  A      *)
(* login, an invited registration and a context switch each start a        *)
(* session family of their own, so a family is one session.  A session and *)
(* its refresh tokens expire at the same time (refresh_ttl, and min with   *)
(* the session's expiry when a token is rotated).                          *)
(***************************************************************************)
EXTENDS Naturals, FiniteSets

CONSTANTS
  Users,          \* e-mail addresses, and the workspaces they may found
  DemoUsers,      \* the configured development demo account, if any
  Assignable,     \* the roles parse_assignable_role lets an owner give
  Clients,        \* requests being served at one time
  MaxSessions,    \* bound on human_sessions
  MaxTokens,      \* bound on human_refresh_tokens
  MaxLinks,       \* bound on human_action_tokens
  MaxInvitations, \* bound on organization_invitations
  MaxPassword     \* bound on password changes of a user

ASSUME UsersAssumption == Users # {} /\ DemoUsers \subseteq Users
ASSUME RolesAssumption == "TENANT_ADMIN" \in Assignable /\ "OWNER" \notin Assignable
                          /\ "NONE" \notin Assignable
ASSUME LimitsAssumption ==
  {MaxSessions, MaxTokens, MaxLinks, MaxInvitations, MaxPassword} \subseteq Nat

VARIABLES
  users,       \* human_users
  members,     \* organization_memberships: workspace -> user
  sessions,    \* human_sessions
  refresh,     \* human_refresh_tokens
  links,       \* human_action_tokens, and whether the mail arrived
  invitations, \* organization_invitations, and whether the mail arrived
  clients,     \* the requests under way, with what each has read
  condemned    \* ghost: sessions that existed when something ended them

accounts == <<users, members, invitations, links>>
vars == <<users, members, sessions, refresh, links, invitations, clients, condemned>>

-----------------------------------------------------------------------------
(***************************************************************************)
(* State                                                                   *)
(***************************************************************************)
Roles       == {"OWNER"} \cup Assignable
Sessions    == 1..MaxSessions
Tokens      == 1..MaxTokens
Links       == 1..MaxLinks
Invitations == 1..MaxInvitations
Steps       == {"IDLE", "SUPERSEDE", "INSERT", "MAIL", "ROLLBACK", "MARK", "MEMBERSHIP",
                "OPEN", "RESET", "ACT", "SWITCH_CHECK", "SWITCH_WRITE", "INVITE_MAIL",
                "WITHDRAW"}

UserRows == [status : {"ABSENT", "PENDING", "ACTIVE"}, password : 0..MaxPassword,
             demo : BOOLEAN]
MemberRows == [role : Roles \cup {"NONE"}, active : BOOLEAN]
SessionRows == [state : {"ABSENT", "LIVE", "ENDED"}, user : Users, org : Users,
                roles : SUBSET Roles]   \* the roles of the access tokens issued
TokenRows == [session : 0..MaxSessions, used : BOOLEAN]
LinkRows == [state : {"ABSENT", "LIVE", "CONSUMED"}, user : Users,
             purpose : {"VERIFY", "RESET"}, mailed : BOOLEAN]
InvitationRows == [state : {"ABSENT", "OPEN", "ACCEPTED", "REVOKED"}, org : Users,
                   user : Users, role : Roles, mailed : BOOLEAN]
\* What a request carries: ref is a session, a link or an invitation.
Requests == [pc : Steps, user : Users, org : Users, role : Roles, ref : Nat,
             purpose : {"VERIFY", "RESET"}, registering : BOOLEAN]

Someone == CHOOSE u \in Users : TRUE
Idle == [pc |-> "IDLE", user |-> Someone, org |-> Someone, role |-> "OWNER", ref |-> 0,
         purpose |-> "VERIFY", registering |-> FALSE]
NoMember == [role |-> "NONE", active |-> FALSE]

Init ==
  /\ users = [u \in Users |-> [status |-> "ABSENT", password |-> 0, demo |-> FALSE]]
  /\ members = [o \in Users |-> [u \in Users |-> NoMember]]
  /\ sessions = [s \in Sessions |-> [state |-> "ABSENT", user |-> Someone,
                                     org |-> Someone, roles |-> {}]]
  /\ refresh = [t \in Tokens |-> [session |-> 0, used |-> FALSE]]
  /\ links = [l \in Links |-> [state |-> "ABSENT", user |-> Someone,
                               purpose |-> "VERIFY", mailed |-> FALSE]]
  /\ invitations = [i \in Invitations |->
       [state |-> "ABSENT", org |-> Someone, user |-> Someone, role |-> "OWNER",
        mailed |-> FALSE]]
  /\ clients = [c \in Clients |-> Idle]
  /\ condemned = {}

\* The next row of a table: rows are allocated in order and never removed.
Fresh(table, free(_)) ==
  {i \in DOMAIN table : free(table[i]) /\ \A j \in 1..(i - 1) : ~free(table[j])}
FreshSession == Fresh(sessions, LAMBDA r : r.state = "ABSENT")
FreshToken == Fresh(refresh, LAMBDA r : r.session = 0)
FreshLink == Fresh(links, LAMBDA r : r.state = "ABSENT")
FreshInvitation == Fresh(invitations, LAMBDA r : r.state = "ABSENT")

IsMember(o, u) == members[o][u].role # "NONE"
IsActiveMember(o, u) == IsMember(o, u) /\ members[o][u].active
Founded == {o \in Users : \E u \in Users : IsMember(o, u)}

LiveOf(S) == {s \in S : sessions[s].state = "LIVE"}
SessionsOf(u) == {s \in Sessions : sessions[s].state # "ABSENT" /\ sessions[s].user = u}
SessionsIn(o, u) == {s \in SessionsOf(u) : sessions[s].org = o}

\* UPDATE human_sessions SET revoked_at = COALESCE(revoked_at, now)
Ended(S) == [s \in Sessions |->
               IF s \in LiveOf(S) THEN [sessions[s] EXCEPT !.state = "ENDED"]
                                  ELSE sessions[s]]

Goto(c, step) == clients' = [clients EXCEPT ![c].pc = step]
Done(c) == clients' = [clients EXCEPT ![c] = Idle]
At(c, step) == clients[c].pc = step

-----------------------------------------------------------------------------
(***************************************************************************)
(* Registration and mailed links                                           *)
(***************************************************************************)
\* The account, its workspace and its owner, in one transaction.
FoundWorkspace(u, status, demo) ==
  /\ users' = [users EXCEPT ![u].status = status, ![u].demo = demo]
  /\ members' = [members EXCEPT ![u][u] = [role |-> "OWNER", active |-> TRUE]]

\* An address that is taken is answered like one that is not.
Register(c, u) ==
  /\ At(c, "IDLE")
  /\ users[u].status = "ABSENT"
  /\ FoundWorkspace(u, "PENDING", FALSE)
  /\ clients' = [clients EXCEPT ![c] = [Idle EXCEPT !.pc = "SUPERSEDE", !.user = u,
                                                    !.registering = TRUE]]
  /\ UNCHANGED <<sessions, refresh, links, invitations, condemned>>

\* The demo account is created, or gets the configured password again; an
\* account that is not marked as the demo account is left alone.
BootstrapDemo(u) ==
  /\ u \in DemoUsers
  /\ \/ /\ users[u].status = "ABSENT"
        /\ FoundWorkspace(u, "ACTIVE", TRUE)
        /\ UNCHANGED <<sessions, condemned>>
     \/ /\ users[u].demo
        /\ users[u].password < MaxPassword
        /\ users' = [users EXCEPT ![u].status = "ACTIVE", ![u].password = @ + 1]
        /\ sessions' = Ended(SessionsOf(u))
        /\ condemned' = condemned \cup SessionsOf(u)
        /\ UNCHANGED members
  /\ UNCHANGED <<refresh, links, invitations, clients>>

\* An unknown address is answered like a known one.
RequestLink(c, u, purpose, statuses) ==
  /\ At(c, "IDLE")
  /\ users[u].status \in statuses
  /\ clients' = [clients EXCEPT ![c] = [Idle EXCEPT !.pc = "SUPERSEDE", !.user = u,
                                                    !.purpose = purpose]]
  /\ UNCHANGED <<accounts, sessions, refresh, condemned>>

RequestEmailVerification(c, u) == RequestLink(c, u, "VERIFY", {"PENDING"})
RequestPasswordReset(c, u) == RequestLink(c, u, "RESET", {"PENDING", "ACTIVE"})

\* create_action_token: two statements, each a transaction.
SupersedeLinks(c) ==
  /\ At(c, "SUPERSEDE")
  /\ links' = [l \in Links |->
       IF /\ links[l].state = "LIVE"
          /\ links[l].user = clients[c].user
          /\ links[l].purpose = clients[c].purpose
       THEN [links[l] EXCEPT !.state = "CONSUMED"] ELSE links[l]]
  /\ Goto(c, "INSERT")
  /\ UNCHANGED <<users, members, invitations, sessions, refresh, condemned>>

InsertLink(c) ==
  /\ At(c, "INSERT")
  /\ \E l \in FreshLink :
       /\ links' = [links EXCEPT ![l] = [state |-> "LIVE", user |-> clients[c].user,
                                         purpose |-> clients[c].purpose, mailed |-> FALSE]]
       /\ clients' = [clients EXCEPT ![c].pc = "MAIL", ![c].ref = l]
  /\ UNCHANGED <<users, members, invitations, sessions, refresh, condemned>>

\* A delivery that is reported as failed may have arrived.
SendLink(c, delivered, reported) ==
  /\ At(c, "MAIL")
  /\ reported => delivered
  /\ links' = [links EXCEPT ![clients[c].ref].mailed = delivered]
  /\ IF clients[c].registering /\ ~reported THEN Goto(c, "ROLLBACK") ELSE Done(c)
  /\ UNCHANGED <<users, members, invitations, sessions, refresh, condemned>>

\* rollback_pending_registration: DELETE FROM tenants meets the foreign keys of
\* the subscription and the node pool that the registration itself provisioned
\* (provision_initial_sdwan_trial), so the transaction is always rolled back.
RollbackRegistration(c) ==
  /\ At(c, "ROLLBACK")
  /\ Done(c)
  /\ UNCHANGED <<accounts, sessions, refresh, condemned>>

\* consume_action_token, a transaction of its own before the one it allows.
ConsumeLink(c, l, purpose, step) ==
  /\ At(c, "IDLE")
  /\ links[l].state = "LIVE" /\ links[l].mailed /\ links[l].purpose = purpose
  /\ links' = [links EXCEPT ![l].state = "CONSUMED"]
  /\ clients' = [clients EXCEPT ![c] = [Idle EXCEPT !.pc = step, !.user = links[l].user]]
  /\ UNCHANGED <<users, members, invitations, sessions, refresh, condemned>>

VerifyEmail(c, l) == ConsumeLink(c, l, "VERIFY", "MARK")
ResetPassword(c, l) == ConsumeLink(c, l, "RESET", "RESET")

MarkVerified(c) ==
  /\ At(c, "MARK")
  /\ users' = [users EXCEPT ![clients[c].user].status = "ACTIVE"]
  /\ Goto(c, "MEMBERSHIP")
  /\ UNCHANGED <<members, links, invitations, sessions, refresh, condemned>>

\* update_password_and_revoke_sessions
UpdatePassword(c) ==
  /\ At(c, "RESET")
  /\ LET u == clients[c].user IN
       /\ users[u].password < MaxPassword
       /\ users' = [users EXCEPT ![u].password = @ + 1]
       /\ sessions' = Ended(SessionsOf(u))
       /\ condemned' = condemned \cup SessionsOf(u)
  /\ Done(c)
  /\ UNCHANGED <<members, links, invitations, refresh>>

-----------------------------------------------------------------------------
(***************************************************************************)
(* Sessions                                                                *)
(***************************************************************************)
\* The right password for a verified, active account.
Login(c, u) ==
  /\ At(c, "IDLE")
  /\ users[u].status = "ACTIVE"
  /\ clients' = [clients EXCEPT ![c] = [Idle EXCEPT !.pc = "MEMBERSHIP", !.user = u]]
  /\ UNCHANGED <<accounts, sessions, refresh, condemned>>

\* primary_membership; which of the active ones is oldest is left open.
ReadMembership(c, o) ==
  /\ At(c, "MEMBERSHIP")
  /\ IsActiveMember(o, clients[c].user)
  /\ clients' = [clients EXCEPT ![c].pc = "OPEN", ![c].org = o,
                                ![c].role = members[o][clients[c].user].role]
  /\ UNCHANGED <<accounts, sessions, refresh, condemned>>

\* Mutated form of NewSession: the role is read again from a membership that may
\* be gone.
NewSessionRereading(c) ==
  [state |-> "LIVE", user |-> clients[c].user, org |-> clients[c].org,
   roles |-> {members[clients[c].org][clients[c].user].role}]
\* The row written by create_session and replace_context_session: the role is
\* the one that was read with the membership.
NewSession(c) == [state |-> "LIVE", user |-> clients[c].user, org |-> clients[c].org,
                  roles |-> {clients[c].role}]

OpenSession(c) ==
  /\ At(c, "OPEN")
  /\ \E s \in FreshSession, t \in FreshToken :
       /\ sessions' = [sessions EXCEPT ![s] = NewSession(c)]
       /\ refresh' = [refresh EXCEPT ![t] = [session |-> s, used |-> FALSE]]
  /\ Done(c)
  /\ UNCHANGED <<accounts, condemned>>

\* What rotate_refresh_token refuses, once its joins have found the token.
Spent(t) == refresh[t].used \/ sessions[refresh[t].session].state = "ENDED"

\* Mutated form of Rotated: the presented token stays usable.
RotatedKeepingOld(t, n) ==
  [refresh EXCEPT ![n] = [session |-> refresh[t].session, used |-> FALSE]]
\* The presented token is used up and replaced by token n.
Rotated(t, n) == [refresh EXCEPT ![t].used = TRUE,
                                 ![n] = [session |-> refresh[t].session, used |-> FALSE]]

\* rotate_refresh_token: anyone who was ever given the token may present it,
\* the rightful client again when its answer was lost.
Refresh(t) ==
  LET s == refresh[t].session IN
    /\ s # 0
    /\ IsActiveMember(sessions[s].org, sessions[s].user)
    /\ \/ /\ Spent(t)
          /\ sessions' = Ended({s})
          /\ UNCHANGED refresh
       \/ /\ ~Spent(t)
          /\ \E n \in FreshToken :
               refresh' = Rotated(t, n)
          /\ sessions' = [sessions EXCEPT ![s].roles =
                            @ \cup {members[sessions[s].org][sessions[s].user].role}]
    /\ condemned' = IF refresh[t].used THEN condemned \cup {s} ELSE condemned
    /\ UNCHANGED <<accounts, clients>>

\* session_is_active, for an access token of session s with this role.
SessionIsActive(s, role) ==
  /\ sessions[s].state = "LIVE"
  /\ users[sessions[s].user].status = "ACTIVE"
  /\ members[sessions[s].org][sessions[s].user] = [role |-> role, active |-> TRUE]

\* require_access_token: what the rest of the request goes by.
Authenticate(c, s, role) ==
  /\ At(c, "IDLE")
  /\ role \in sessions[s].roles
  /\ SessionIsActive(s, role)
  /\ clients' = [clients EXCEPT ![c] =
       [Idle EXCEPT !.pc = "ACT", !.user = sessions[s].user, !.org = sessions[s].org,
                    !.role = role, !.ref = s]]
  /\ UNCHANGED <<accounts, sessions, refresh, condemned>>

EndSession(c, s) ==
  /\ At(c, "ACT")
  /\ s \in SessionsOf(clients[c].user)
  /\ sessions' = Ended({s})
  /\ condemned' = condemned \cup {s}
  /\ Done(c)
  /\ UNCHANGED <<accounts, refresh>>

Logout(c) == EndSession(c, clients[c].ref)
RevokeSession(c, s) == EndSession(c, s)

SwitchContext(c, o) ==
  /\ At(c, "ACT")
  /\ IsActiveMember(o, clients[c].user)
  /\ clients' = [clients EXCEPT ![c].pc = "SWITCH_CHECK", ![c].org = o,
                                ![c].role = members[o][clients[c].user].role]
  /\ UNCHANGED <<accounts, sessions, refresh, condemned>>

\* replace_context_session reads the previous session with EXISTS(SELECT ...)
\* FOR UPDATE, which locks no row of the subquery, and then writes.
SwitchCheck(c) ==
  /\ At(c, "SWITCH_CHECK")
  /\ IF sessions[clients[c].ref].state = "LIVE" THEN Goto(c, "SWITCH_WRITE") ELSE Done(c)
  /\ UNCHANGED <<accounts, sessions, refresh, condemned>>

SwitchWrite(c) ==
  /\ At(c, "SWITCH_WRITE")
  /\ \E s \in FreshSession, t \in FreshToken :
       /\ sessions' = [Ended({clients[c].ref}) EXCEPT ![s] = NewSession(c)]
       /\ refresh' = [refresh EXCEPT ![t] = [session |-> s, used |-> FALSE]]
  /\ condemned' = condemned \cup {clients[c].ref}
  /\ Done(c)
  /\ UNCHANGED accounts

\* refresh_ttl has passed.
Expire(s) ==
  /\ sessions[s].state = "LIVE"
  /\ sessions' = Ended({s})
  /\ condemned' = condemned \cup {s}
  /\ UNCHANGED <<accounts, refresh, clients>>

-----------------------------------------------------------------------------
(***************************************************************************)
(* Administration of the members                                           *)
(***************************************************************************)
\* require_permission: as authenticated, not as it is now.
ActsAsOwner(c) == At(c, "ACT") /\ clients[c].role = "OWNER"

\* Earlier open invitations of the address are revoked in the same transaction.
Invited(i, o, u, role) ==
  [j \in Invitations |->
     IF j = i
     THEN [state |-> "OPEN", org |-> o, user |-> u, role |-> role, mailed |-> FALSE]
     ELSE IF /\ invitations[j].state = "OPEN"
             /\ invitations[j].org = o /\ invitations[j].user = u
     THEN [invitations[j] EXCEPT !.state = "REVOKED"]
     ELSE invitations[j]]

InviteMember(c, u, role) ==
  /\ ActsAsOwner(c)
  /\ ~IsMember(clients[c].org, u)
  /\ \E i \in FreshInvitation :
       /\ invitations' = Invited(i, clients[c].org, u, role)
       /\ clients' = [clients EXCEPT ![c] = [Idle EXCEPT !.pc = "INVITE_MAIL", !.ref = i]]
  /\ UNCHANGED <<users, members, links, sessions, refresh, condemned>>

SendInvitation(c, delivered, reported) ==
  /\ At(c, "INVITE_MAIL")
  /\ reported => delivered
  /\ invitations' = [invitations EXCEPT ![clients[c].ref].mailed = delivered]
  /\ IF reported THEN Done(c) ELSE Goto(c, "WITHDRAW")
  /\ UNCHANGED <<users, members, links, sessions, refresh, condemned>>

WithdrawInvitation(c) ==
  /\ At(c, "WITHDRAW")
  /\ invitations' = [invitations EXCEPT ![clients[c].ref].state =
                       IF @ = "OPEN" THEN "REVOKED" ELSE @]
  /\ Done(c)
  /\ UNCHANGED <<users, members, links, sessions, refresh, condemned>>

\* The row of an accepted invitation and its membership.
Join(i) ==
  /\ invitations[i].state = "OPEN" /\ invitations[i].mailed
  /\ ~IsMember(invitations[i].org, invitations[i].user)
  /\ invitations' = [invitations EXCEPT ![i].state = "ACCEPTED"]
  /\ members' = [members EXCEPT ![invitations[i].org][invitations[i].user] =
                   [role |-> invitations[i].role, active |-> TRUE]]

AcceptInvitation(c, i) ==
  /\ At(c, "ACT")
  /\ invitations[i].user = clients[c].user
  /\ Join(i)
  /\ Done(c)
  /\ UNCHANGED <<users, links, sessions, refresh, condemned>>

RegisterFromInvitation(c, i) ==
  /\ At(c, "IDLE")
  /\ users[invitations[i].user].status = "ABSENT"
  /\ Join(i)
  /\ users' = [users EXCEPT ![invitations[i].user].status = "ACTIVE"]
  /\ clients' = [clients EXCEPT ![c] =
       [Idle EXCEPT !.pc = "OPEN", !.user = invitations[i].user,
                    !.org = invitations[i].org, !.role = invitations[i].role]]
  /\ UNCHANGED <<links, sessions, refresh, condemned>>

\* Mutated form of RevokeMembershipSessions: only the owner's sessions end.
RevokeOwnSessionsOnly(o, S) ==
  Ended(UNION {SessionsIn(o, u) : u \in {v \in S : members[o][v].role = "OWNER"}})
\* revoke_membership_sessions
RevokeMembershipSessions(o, S) == Ended(UNION {SessionsIn(o, u) : u \in S})

\* The three changes of one membership share the guard role <> OWNER.
ChangeMember(c, u, row) ==
  LET o == clients[c].org IN
    /\ ActsAsOwner(c)
    /\ IsMember(o, u)
    /\ members[o][u].role # "OWNER"
    /\ members' = [members EXCEPT ![o][u] = row]
    /\ sessions' = RevokeMembershipSessions(o, {u})
    /\ condemned' = condemned \cup SessionsIn(o, u)
    /\ Done(c)
    /\ UNCHANGED <<users, links, invitations, refresh>>

UpdateMemberRole(c, u, role) ==
  ChangeMember(c, u, [members[clients[c].org][u] EXCEPT !.role = role])
SetMemberActive(c, u, active) ==
  ChangeMember(c, u, [members[clients[c].org][u] EXCEPT !.active = active])
RemoveMember(c, u) == ChangeMember(c, u, NoMember)

\* Mutated form of MayBecomeOwner: a suspended member will do.
MayBecomeOwnerSuspended(o, u) == IsMember(o, u)
\* The new owner's row is locked while it is ACTIVE.
MayBecomeOwner(o, u) == IsActiveMember(o, u)

\* The present owner is demoted only if it still is the owner.
TransferOwnership(c, u) ==
  LET o == clients[c].org
      owner == clients[c].user IN
    /\ ActsAsOwner(c)
    /\ u # owner
    /\ MayBecomeOwner(o, u)
    /\ members[o][owner].role = "OWNER"
    /\ members' = [members EXCEPT ![o][owner].role = "TENANT_ADMIN",
                                  ![o][u].role = "OWNER"]
    /\ sessions' = RevokeMembershipSessions(o, {owner, u})
    /\ condemned' = condemned \cup SessionsIn(o, owner) \cup SessionsIn(o, u)
    /\ Done(c)
    /\ UNCHANGED <<users, links, invitations, refresh>>

\* A request ends where it stands: refused, timed out, or its process died.
Abandon(c) ==
  /\ ~At(c, "IDLE")
  /\ Done(c)
  /\ UNCHANGED <<accounts, sessions, refresh, condemned>>

-----------------------------------------------------------------------------
PublicRequest(c) ==
  \/ \E u \in Users : Register(c, u) \/ Login(c, u)
  \/ \E u \in Users : RequestEmailVerification(c, u) \/ RequestPasswordReset(c, u)
  \/ \E l \in Links : VerifyEmail(c, l) \/ ResetPassword(c, l)
  \/ \E i \in Invitations : RegisterFromInvitation(c, i)
  \/ \E s \in Sessions, r \in Roles : Authenticate(c, s, r)

PublicStep(c) ==
  \/ SupersedeLinks(c) \/ InsertLink(c) \/ RollbackRegistration(c)
  \/ \E d, r \in BOOLEAN : SendLink(c, d, r) \/ SendInvitation(c, d, r)
  \/ MarkVerified(c) \/ UpdatePassword(c)
  \/ \E o \in Users : ReadMembership(c, o)
  \/ OpenSession(c)

MemberStep(c) ==
  \/ Logout(c) \/ \E s \in Sessions : RevokeSession(c, s)
  \/ \E o \in Users : SwitchContext(c, o)
  \/ SwitchCheck(c) \/ SwitchWrite(c)
  \/ \E i \in Invitations : AcceptInvitation(c, i)
  \/ WithdrawInvitation(c)
  \/ \E u \in Users, r \in Assignable : InviteMember(c, u, r) \/ UpdateMemberRole(c, u, r)
  \/ \E u \in Users, a \in BOOLEAN : SetMemberActive(c, u, a)
  \/ \E u \in Users : RemoveMember(c, u) \/ TransferOwnership(c, u)

Next ==
  \/ \E c \in Clients : PublicRequest(c) \/ PublicStep(c) \/ MemberStep(c) \/ Abandon(c)
  \/ \E t \in Tokens : Refresh(t)
  \/ \E s \in Sessions : Expire(s)
  \/ \E u \in Users : BootstrapDemo(u)

Spec == Init /\ [][Next]_vars

-----------------------------------------------------------------------------
(***************************************************************************)
(* Properties                                                              *)
(***************************************************************************)
\* Every table row and every request has its type.
TypeOK ==
  /\ users \in [Users -> UserRows]
  /\ members \in [Users -> [Users -> MemberRows]]
  /\ sessions \in [Sessions -> SessionRows]
  /\ refresh \in [Tokens -> TokenRows]
  /\ links \in [Links -> LinkRows]
  /\ invitations \in [Invitations -> InvitationRows]
  /\ clients \in [Clients -> Requests]
  /\ condemned \subseteq Sessions

\* Whatever owners that act on an authentication of some time ago do to each
\* other's workspace, it keeps exactly one owner, and that owner is active and
\* can therefore sign in and administer it.
OneOwner ==
  \A o \in Founded :
    \E u \in Users :
      /\ members[o][u] = [role |-> "OWNER", active |-> TRUE]
      /\ \A v \in Users \ {u} : members[o][v].role # "OWNER"

\* A session that existed when its membership changed, its password was reset,
\* its user ended it, or one of its refresh tokens was presented a second time,
\* authenticates nothing any more, whatever it is later joined with: a
\* membership that comes back, an invitation accepted, the ownership returned.
CondemnedAreDead ==
  \A s \in condemned : \A role \in sessions[s].roles : ~SessionIsActive(s, role)

\* Of the refresh tokens of a session that is alive at most one still rotates,
\* so a copied token and the original cannot both be kept in use.
OneLiveToken ==
  \A s \in LiveOf(Sessions) :
    Cardinality({t \in Tokens : refresh[t].session = s /\ ~Spent(t)}) <= 1
=============================================================================
