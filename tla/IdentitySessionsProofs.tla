----------------------- MODULE IdentitySessionsProofs -----------------------
(***************************************************************************)
(* Proofs about accounts, workspaces and sessions, for any set of users    *)
(* and assignable roles and any number of requests served at one time.     *)
(***************************************************************************)
EXTENDS IdentitySessions, FiniteSetTheorems, TLAPS

\* The limits one by one, as the leaves use them.
LEMMA Limits ==
  /\ MaxSessions \in Nat /\ MaxTokens \in Nat /\ MaxLinks \in Nat
  /\ MaxInvitations \in Nat /\ MaxPassword \in Nat
BY LimitsAssumption

USE UsersAssumption, RolesAssumption, Limits

-----------------------------------------------------------------------------
(***************************************************************************)
(* Rows                                                                    *)
(***************************************************************************)
LEMMA IdleType == Idle \in Requests /\ Idle.pc = "IDLE"
<1>1. Someone \in Users
  BY DEF Someone
<1> QED
  BY <1>1 DEF Idle, Requests, Steps, Roles

\* Rows are allocated where there was none.
LEMMA FreshRows ==
  /\ \A s \in FreshSession : s \in DOMAIN sessions /\ sessions[s].state = "ABSENT"
  /\ \A t \in FreshToken : t \in DOMAIN refresh /\ refresh[t].session = 0
  /\ \A l \in FreshLink : l \in DOMAIN links /\ links[l].state = "ABSENT"
  /\ \A i \in FreshInvitation : i \in DOMAIN invitations /\ invitations[i].state = "ABSENT"
BY DEF FreshSession, FreshToken, FreshLink, FreshInvitation, Fresh

\* Ending sessions ends the live ones among them and changes nothing else.
LEMMA EndedRows ==
  ASSUME TypeOK, NEW S
  PROVE  /\ Ended(S) \in [Sessions -> SessionRows]
         /\ \A s \in Sessions :
              /\ s \in S /\ sessions[s].state = "LIVE" => Ended(S)[s].state = "ENDED"
              /\ ~(s \in S /\ sessions[s].state = "LIVE") => Ended(S)[s] = sessions[s]
<1>1. ASSUME NEW s \in Sessions
      PROVE  [sessions[s] EXCEPT !.state = "ENDED"] \in SessionRows
             /\ [sessions[s] EXCEPT !.state = "ENDED"].state = "ENDED"
  <2> DEFINE r == sessions[s]
  <2>1. r \in SessionRows
    BY DEF TypeOK
  <2> HIDE DEF r
  <2>2. [r EXCEPT !.state = "ENDED"] \in SessionRows /\ [r EXCEPT !.state = "ENDED"].state = "ENDED"
    BY <2>1 DEF SessionRows
  <2> QED
    BY <2>2 DEF r
<1> QED
  BY <1>1 DEF Ended, LiveOf, TypeOK

\* What a request becomes.
LEMMA ClientSet ==
  ASSUME TypeOK, NEW c \in Clients, NEW r \in Requests, clients' = [clients EXCEPT ![c] = r]
  PROVE  clients' \in [Clients -> Requests]
BY DEF TypeOK

LEMMA GotoType ==
  ASSUME TypeOK, NEW c \in Clients, NEW step \in Steps, Goto(c, step)
  PROVE  clients' \in [Clients -> Requests]
BY DEF Goto, TypeOK, Requests

LEMMA DoneType ==
  ASSUME TypeOK, NEW c \in Clients, Done(c)
  PROVE  clients' \in [Clients -> Requests]
BY IdleType DEF Done, TypeOK

\* A request at one of these steps has authenticated with a session.
Acting == {"ACT", "SWITCH_CHECK", "SWITCH_WRITE"}
\* Requests and refresh tokens name sessions that exist.
RefInv ==
  /\ \A c \in Clients : clients[c].pc \in Acting =>
       clients[c].ref \in Sessions /\ sessions[clients[c].ref].state # "ABSENT"
  /\ \A t \in Tokens : refresh[t].session # 0 => sessions[refresh[t].session].state # "ABSENT"
TypeInv == TypeOK /\ RefInv

LEMMA TypeInit == Init => TypeInv
<1> SUFFICES ASSUME Init PROVE TypeInv
  OBVIOUS
<1>1. Someone \in Users
  BY DEF Someone
<1>2. /\ users \in [Users -> UserRows]
      /\ members \in [Users -> [Users -> MemberRows]]
  BY DEF Init, UserRows, MemberRows, NoMember
<1>3. /\ sessions \in [Sessions -> SessionRows]
      /\ refresh \in [Tokens -> TokenRows]
  BY <1>1 DEF Init, SessionRows, TokenRows
<1>4. /\ links \in [Links -> LinkRows]
      /\ invitations \in [Invitations -> InvitationRows]
  BY <1>1 DEF Init, LinkRows, InvitationRows, Roles
<1>5. clients \in [Clients -> Requests] /\ condemned \subseteq Sessions /\ RefInv
  BY IdleType DEF Init, RefInv, Acting
<1> QED
  BY <1>2, <1>3, <1>4, <1>5 DEF TypeInv, TypeOK

-----------------------------------------------------------------------------
(***************************************************************************)
(* Types                                                                   *)
(***************************************************************************)
\* One edited row of a table.
LEMMA RowWrite ==
  ASSUME NEW S, NEW R, NEW rows \in [S -> R], NEW i, NEW r, i \in S => r \in R
  PROVE  [rows EXCEPT ![i] = r] \in [S -> R]
OBVIOUS

LEMMA UserEdit ==
  ASSUME NEW rows \in [Users -> UserRows], NEW u,
         NEW s \in {"ABSENT", "PENDING", "ACTIVE"}, NEW d \in BOOLEAN, NEW p \in 0..MaxPassword
  PROVE  /\ [rows EXCEPT ![u].status = s] \in [Users -> UserRows]
         /\ [rows EXCEPT ![u].status = s, ![u].demo = d] \in [Users -> UserRows]
         /\ [rows EXCEPT ![u].password = p] \in [Users -> UserRows]
<1>1. ASSUME NEW r \in UserRows
      PROVE  /\ [r EXCEPT !.status = s] \in UserRows
             /\ [r EXCEPT !.demo = d] \in UserRows
             /\ [r EXCEPT !.password = p] \in UserRows
  BY DEF UserRows
<1>2. \A v \in Users : rows[v] \in UserRows
  OBVIOUS
<1>3. [rows EXCEPT ![u].status = s] \in [Users -> UserRows]
  BY <1>1, <1>2, RowWrite
<1>4. [rows EXCEPT ![u].password = p] \in [Users -> UserRows]
  BY <1>1, <1>2, RowWrite
<1>5. PICK next : next = [rows EXCEPT ![u].status = s]
  OBVIOUS
<1>6. [next EXCEPT ![u].demo = d] \in [Users -> UserRows]
  <2>1. next \in [Users -> UserRows] /\ \A v \in Users : next[v] \in UserRows
    BY <1>3, <1>5
  <2> QED
    BY <1>1, <2>1, RowWrite
<1>7. [rows EXCEPT ![u].status = s, ![u].demo = d] = [next EXCEPT ![u].demo = d]
  BY <1>5
<1> QED
  BY <1>3, <1>4, <1>6, <1>7

LEMMA LinkEdit ==
  ASSUME NEW r \in LinkRows, NEW s \in {"ABSENT", "LIVE", "CONSUMED"}, NEW m \in BOOLEAN
  PROVE  [r EXCEPT !.state = s] \in LinkRows /\ [r EXCEPT !.mailed = m] \in LinkRows
BY DEF LinkRows

LEMMA InvitationEdit ==
  ASSUME NEW r \in InvitationRows, NEW s \in {"ABSENT", "OPEN", "ACCEPTED", "REVOKED"},
         NEW m \in BOOLEAN
  PROVE  /\ [r EXCEPT !.state = s] \in InvitationRows
         /\ [r EXCEPT !.mailed = m] \in InvitationRows
BY DEF InvitationRows

LEMMA LinksEdit ==
  ASSUME NEW rows \in [Links -> LinkRows], NEW l,
         NEW s \in {"ABSENT", "LIVE", "CONSUMED"}, NEW m \in BOOLEAN
  PROVE  /\ [rows EXCEPT ![l].state = s] \in [Links -> LinkRows]
         /\ [rows EXCEPT ![l].mailed = m] \in [Links -> LinkRows]
<1>1. l \in Links => /\ [rows[l] EXCEPT !.state = s] \in LinkRows
                     /\ [rows[l] EXCEPT !.mailed = m] \in LinkRows
  BY LinkEdit
<1> QED
  BY <1>1, RowWrite

LEMMA InvitationsEdit ==
  ASSUME NEW rows \in [Invitations -> InvitationRows], NEW i,
         NEW s \in {"ABSENT", "OPEN", "ACCEPTED", "REVOKED"}, NEW m \in BOOLEAN
  PROVE  /\ [rows EXCEPT ![i].state = s] \in [Invitations -> InvitationRows]
         /\ [rows EXCEPT ![i].mailed = m] \in [Invitations -> InvitationRows]
<1>1. i \in Invitations => /\ [rows[i] EXCEPT !.state = s] \in InvitationRows
                           /\ [rows[i] EXCEPT !.mailed = m] \in InvitationRows
  BY InvitationEdit
<1> QED
  BY <1>1, RowWrite

LEMMA FoundType ==
  ASSUME TypeOK, NEW u \in Users, NEW status \in {"PENDING", "ACTIVE"}, NEW demo \in BOOLEAN,
         FoundWorkspace(u, status, demo)
  PROVE  /\ users' \in [Users -> UserRows]
         /\ members' \in [Users -> [Users -> MemberRows]]
<1>1. users' \in [Users -> UserRows]
  <2>1. PICK p : p \in 0..MaxPassword
    BY Limits
  <2> QED
    BY <2>1, UserEdit DEF FoundWorkspace, TypeOK
<1>2. members' \in [Users -> [Users -> MemberRows]]
  BY DEF FoundWorkspace, TypeOK, MemberRows, Roles
<1> QED
  BY <1>1, <1>2

LEMMA JoinType ==
  ASSUME TypeOK, NEW i \in Invitations, Join(i)
  PROVE  /\ invitations' \in [Invitations -> InvitationRows]
         /\ members' \in [Users -> [Users -> MemberRows]]
<1>1. invitations' \in [Invitations -> InvitationRows]
  BY InvitationsEdit DEF Join, TypeOK
<1>2. members' \in [Users -> [Users -> MemberRows]]
  BY DEF Join, TypeOK, MemberRows, InvitationRows
<1> QED
  BY <1>1, <1>2

LEMMA PublicRequestType ==
  ASSUME TypeInv, NEW c \in Clients, PublicRequest(c)
  PROVE  TypeOK'
<1> USE DEF TypeInv, accounts
<1>1. ASSUME NEW u \in Users, Register(c, u) PROVE TypeOK'
  <2>1. [Idle EXCEPT !.pc = "SUPERSEDE", !.user = u, !.registering = TRUE] \in Requests
    BY IdleType DEF Requests, Steps
  <2>2. clients' \in [Clients -> Requests]
    BY <1>1, <2>1, ClientSet DEF Register
  <2>3. /\ users' \in [Users -> UserRows]
        /\ members' \in [Users -> [Users -> MemberRows]]
    BY <1>1, FoundType DEF Register
  <2> QED
    BY <1>1, <2>2, <2>3 DEF Register, TypeOK
<1>2. ASSUME NEW u \in Users, Login(c, u) PROVE TypeOK'
  <2>1. [Idle EXCEPT !.pc = "MEMBERSHIP", !.user = u] \in Requests
    BY IdleType DEF Requests, Steps
  <2>2. clients' \in [Clients -> Requests]
    BY <1>2, <2>1, ClientSet DEF Login
  <2> QED
    BY <1>2, <2>2 DEF Login, TypeOK
<1>3. ASSUME NEW u \in Users, NEW purpose \in {"VERIFY", "RESET"}, NEW statuses,
             RequestLink(c, u, purpose, statuses) PROVE TypeOK'
  <2>1. [Idle EXCEPT !.pc = "SUPERSEDE", !.user = u, !.purpose = purpose] \in Requests
    BY IdleType DEF Requests, Steps
  <2>2. clients' \in [Clients -> Requests]
    BY <1>3, <2>1, ClientSet DEF RequestLink
  <2> QED
    BY <1>3, <2>2 DEF RequestLink, TypeOK
<1>4. ASSUME NEW l \in Links, NEW purpose, NEW step \in {"MARK", "RESET"}, ConsumeLink(c, l, purpose, step)
      PROVE TypeOK'
  <2>0. links[l].user \in Users
    BY DEF TypeOK, LinkRows
  <2>1. [Idle EXCEPT !.pc = step, !.user = links[l].user] \in Requests
    BY <2>0, IdleType DEF Requests, Steps
  <2>2. clients' \in [Clients -> Requests]
    BY <1>4, <2>1, ClientSet DEF ConsumeLink
  <2>3. links' \in [Links -> LinkRows]
    BY <1>4, LinksEdit DEF ConsumeLink, TypeOK
  <2> QED
    BY <1>4, <2>2, <2>3 DEF ConsumeLink, TypeOK
<1>5. ASSUME NEW i \in Invitations, RegisterFromInvitation(c, i) PROVE TypeOK'
  <2> DEFINE r == [Idle EXCEPT !.pc = "OPEN", !.user = invitations[i].user,
                               !.org = invitations[i].org, !.role = invitations[i].role]
  <2>0. invitations[i].user \in Users /\ invitations[i].org \in Users /\ invitations[i].role \in Roles
    BY DEF TypeOK, InvitationRows
  <2>1. r \in Requests
    BY <2>0, IdleType DEF Requests, Steps
  <2>2. clients' \in [Clients -> Requests]
    BY <1>5, <2>1, ClientSet DEF RegisterFromInvitation
  <2>3. users' \in [Users -> UserRows]
    <3>1. 0 \in 0..MaxPassword
      BY Limits
    <3> QED
      BY <1>5, <3>1, UserEdit DEF RegisterFromInvitation, TypeOK
  <2> QED
    BY <1>5, <2>2, <2>3, JoinType DEF RegisterFromInvitation, TypeOK
<1>6. ASSUME NEW s \in Sessions, NEW role \in Roles, Authenticate(c, s, role) PROVE TypeOK'
  <2> DEFINE r == [Idle EXCEPT !.pc = "ACT", !.user = sessions[s].user, !.org = sessions[s].org,
                               !.role = role, !.ref = s]
  <2>0. sessions[s].user \in Users /\ sessions[s].org \in Users /\ s \in Nat
    BY DEF TypeOK, SessionRows, Sessions
  <2>1. r \in Requests
    BY <2>0, IdleType DEF Requests, Steps
  <2>2. clients' \in [Clients -> Requests]
    BY <1>6, <2>1, ClientSet DEF Authenticate
  <2> QED
    BY <1>6, <2>2 DEF Authenticate, TypeOK
<1> QED
  BY <1>1, <1>2, <1>3, <1>4, <1>5, <1>6
  DEF PublicRequest, RequestEmailVerification, RequestPasswordReset, VerifyEmail, ResetPassword

LEMMA NewSessionType ==
  ASSUME TypeOK, NEW c \in Clients
  PROVE  NewSession(c) \in SessionRows /\ NewSession(c).state = "LIVE"
BY DEF NewSession, TypeOK, Requests, SessionRows

LEMMA NewTokenType ==
  ASSUME NEW s \in Sessions
  PROVE  [session |-> s, used |-> FALSE] \in TokenRows
BY DEF TokenRows, Sessions

LEMMA MemberRole ==
  ASSUME TypeOK, NEW o \in Users, NEW u \in Users
  PROVE  /\ members[o][u] \in MemberRows
         /\ IsMember(o, u) => members[o][u].role \in Roles
BY DEF TypeOK, MemberRows, IsMember

LEMMA PublicStepType ==
  ASSUME TypeInv, NEW c \in Clients, PublicStep(c)
  PROVE  TypeOK'
<1> USE DEF TypeInv, accounts
<1>0. clients[c] \in Requests
  BY DEF TypeOK
<1>1. CASE SupersedeLinks(c)
  <2>1. clients' \in [Clients -> Requests]
    BY <1>1, GotoType DEF SupersedeLinks, Steps
  <2>2. links' \in [Links -> LinkRows]
    <3>1. \A l \in Links : /\ links[l] \in LinkRows
                           /\ [links[l] EXCEPT !.state = "CONSUMED"] \in LinkRows
      BY LinkEdit DEF TypeOK
    <3>2. \A l \in Links :
            (IF /\ links[l].state = "LIVE"
                /\ links[l].user = clients[c].user
                /\ links[l].purpose = clients[c].purpose
             THEN [links[l] EXCEPT !.state = "CONSUMED"] ELSE links[l]) \in LinkRows
      BY <3>1
    <3> QED
      BY <1>1, <3>2 DEF SupersedeLinks
  <2> QED
    BY <1>1, <2>1, <2>2 DEF SupersedeLinks, TypeOK
<1>2. CASE InsertLink(c)
  <2>1. PICK l \in FreshLink :
       /\ links' = [links EXCEPT ![l] = [state |-> "LIVE", user |-> clients[c].user,
                                         purpose |-> clients[c].purpose, mailed |-> FALSE]]
       /\ clients' = [clients EXCEPT ![c].pc = "MAIL", ![c].ref = l]
    BY <1>2 DEF InsertLink
  <2>2. l \in Links /\ l \in Nat
    BY FreshRows DEF TypeOK, Links
  <2>3. clients' \in [Clients -> Requests]
    <3> DEFINE b == clients[c]
               r == [b EXCEPT !.pc = "MAIL", !.ref = l]
    <3>1. clients' = [clients EXCEPT ![c] = r]
      BY <2>1
    <3>2. r \in Requests
      <4> HIDE DEF b
      <4>1. b \in Requests
        BY <1>0 DEF b
      <4> QED
        BY <2>2, <4>1 DEF Requests, Steps
    <3> HIDE DEF r
    <3> QED
      BY <3>1, <3>2, ClientSet
  <2>4. links' \in [Links -> LinkRows]
    BY <1>0, <2>1, <2>2 DEF TypeOK, LinkRows, Requests
  <2> QED
    BY <1>2, <2>3, <2>4 DEF InsertLink, TypeOK
<1>3. CASE RollbackRegistration(c)
  BY <1>3, DoneType DEF RollbackRegistration, TypeOK
<1>4. ASSUME NEW d \in BOOLEAN, NEW r \in BOOLEAN, SendLink(c, d, r) PROVE TypeOK'
  <2>1. clients' \in [Clients -> Requests]
    BY <1>4, DoneType, GotoType DEF SendLink, Steps
  <2>2. links' \in [Links -> LinkRows]
    <3>1. links \in [Links -> LinkRows] /\ \A l \in Links : links[l] \in LinkRows
      BY DEF TypeOK
    <3>2. links' = [links EXCEPT ![clients[c].ref].mailed = d]
      BY <1>4 DEF SendLink
    <3> QED
      BY <3>1, <3>2, LinksEdit
  <2> QED
    BY <1>4, <2>1, <2>2 DEF SendLink, TypeOK
<1>5. ASSUME NEW d \in BOOLEAN, NEW r \in BOOLEAN, SendInvitation(c, d, r) PROVE TypeOK'
  <2>1. clients' \in [Clients -> Requests]
    BY <1>5, DoneType, GotoType DEF SendInvitation, Steps
  <2>2. invitations' \in [Invitations -> InvitationRows]
    <3>1. /\ invitations \in [Invitations -> InvitationRows]
          /\ \A i \in Invitations : invitations[i] \in InvitationRows
      BY DEF TypeOK
    <3>2. invitations' = [invitations EXCEPT ![clients[c].ref].mailed = d]
      BY <1>5 DEF SendInvitation
    <3> QED
      BY <3>1, <3>2, InvitationsEdit
  <2> QED
    BY <1>5, <2>1, <2>2 DEF SendInvitation, TypeOK
<1>6. CASE MarkVerified(c)
  <2>1. clients' \in [Clients -> Requests]
    BY <1>6, GotoType DEF MarkVerified, Steps
  <2>2. users' \in [Users -> UserRows]
    <3>1. 0 \in 0..MaxPassword
      BY Limits
    <3> QED
      BY <1>6, <3>1, UserEdit DEF MarkVerified, TypeOK
  <2> QED
    BY <1>6, <2>1, <2>2 DEF MarkVerified, TypeOK
<1>7. CASE UpdatePassword(c)
  <2>1. clients' \in [Clients -> Requests]
    BY <1>7, DoneType DEF UpdatePassword
  <2>2. users' \in [Users -> UserRows]
    <3> DEFINE u == clients[c].user
               p == users[u].password + 1
    <3>1. u \in Users /\ users[u].password \in 0..MaxPassword
      BY <1>0 DEF Requests, TypeOK, UserRows
    <3>2. users' = [users EXCEPT ![u].password = p] /\ p \in 0..MaxPassword
      BY <1>7, <3>1 DEF UpdatePassword
    <3> HIDE DEF u, p
    <3> QED
      BY <3>2, UserEdit DEF TypeOK
  <2>3. sessions' \in [Sessions -> SessionRows] /\ condemned' \subseteq Sessions
    BY <1>7, EndedRows DEF UpdatePassword, SessionsOf, TypeOK
  <2> QED
    BY <1>7, <2>1, <2>2, <2>3 DEF UpdatePassword, TypeOK
<1>8. ASSUME NEW o \in Users, ReadMembership(c, o) PROVE TypeOK'
  <2> DEFINE b == clients[c]
             role == members[o][clients[c].user].role
             r == [b EXCEPT !.pc = "OPEN", !.org = o, !.role = role]
  <2>1. clients' = [clients EXCEPT ![c] = r]
    BY <1>8 DEF ReadMembership
  <2>2. role \in Roles
    BY <1>0, <1>8, MemberRole DEF ReadMembership, IsActiveMember, Requests
  <2>3. r \in Requests
    <3> HIDE DEF b, role
    <3>1. b \in Requests
      BY <1>0 DEF b
    <3> QED
      BY <2>2, <3>1 DEF Requests, Steps
  <2> HIDE DEF r
  <2>4. clients' \in [Clients -> Requests]
    BY <2>1, <2>3, ClientSet
  <2> QED
    BY <1>8, <2>4 DEF ReadMembership, TypeOK
<1>9. CASE OpenSession(c)
  <2>1. PICK s \in FreshSession, t \in FreshToken :
       /\ sessions' = [sessions EXCEPT ![s] = NewSession(c)]
       /\ refresh' = [refresh EXCEPT ![t] = [session |-> s, used |-> FALSE]]
    BY <1>9 DEF OpenSession
  <2>2. s \in Sessions /\ t \in Tokens
    BY FreshRows DEF TypeOK
  <2>3. sessions' \in [Sessions -> SessionRows]
    BY <2>1, <2>2, NewSessionType DEF TypeOK
  <2>4. refresh' \in [Tokens -> TokenRows]
    BY <2>1, <2>2, NewTokenType DEF TypeOK
  <2>5. clients' \in [Clients -> Requests]
    BY <1>9, DoneType DEF OpenSession
  <2> QED
    BY <1>9, <2>3, <2>4, <2>5 DEF OpenSession, TypeOK
<1> QED
  BY <1>1, <1>2, <1>3, <1>4, <1>5, <1>6, <1>7, <1>8, <1>9 DEF PublicStep

\* Ownership goes from one member to another; no other membership is touched.
LEMMA TransferEffect ==
  ASSUME TypeInv, NEW c \in Clients, NEW u \in Users, TransferOwnership(c, u)
  PROVE  /\ members' \in [Users -> [Users -> MemberRows]]
         /\ \A p, v \in Users :
              LET o == clients[c].org
                  owner == clients[c].user IN
              /\ p = o /\ v = owner => members'[p][v].role = "TENANT_ADMIN"
              /\ p = o /\ v = u => /\ members'[p][v].role = "OWNER"
                                   /\ members'[p][v].active = members[p][v].active
              /\ p # o \/ v \notin {owner, u} => members'[p][v] = members[p][v]
<1> DEFINE o == clients[c].org
           owner == clients[c].user
           r1 == [members[o][owner] EXCEPT !.role = "TENANT_ADMIN"]
           r2 == [members[o][u] EXCEPT !.role = "OWNER"]
<1>1. o \in Users /\ owner \in Users /\ u # owner
  BY DEF TransferOwnership, TypeInv, TypeOK, Requests
<1>2. /\ r1 \in MemberRows /\ r1.role = "TENANT_ADMIN"
      /\ r2 \in MemberRows /\ r2.role = "OWNER" /\ r2.active = members[o][u].active
  <2>1. members[o][owner] \in MemberRows /\ members[o][u] \in MemberRows
    BY <1>1, MemberRole DEF TypeInv
  <2>2. ASSUME NEW b \in MemberRows, NEW role \in Roles
        PROVE  LET r == [b EXCEPT !.role = role] IN r \in MemberRows /\ r.role = role /\ r.active = b.active
    BY DEF MemberRows
  <2> QED
    BY <2>1, <2>2 DEF Roles
<1>3. members' = [members EXCEPT ![o] = [members[o] EXCEPT ![owner] = r1, ![u] = r2]]
  <2>1. members' = [members EXCEPT ![o][owner].role = "TENANT_ADMIN", ![o][u].role = "OWNER"]
    BY DEF TransferOwnership
  <2> QED
    BY <1>1, <2>1 DEF TypeInv, TypeOK
<1> HIDE DEF r1, r2
<1> QED
  BY <1>1, <1>2, <1>3 DEF TypeInv, TypeOK

LEMMA MemberStepType ==
  ASSUME TypeInv, NEW c \in Clients, MemberStep(c)
  PROVE  TypeOK'
<1> USE DEF TypeInv, accounts
<1>0. clients[c] \in Requests /\ clients[c].org \in Users /\ clients[c].user \in Users
  BY DEF TypeOK, Requests
<1>1. ASSUME NEW s, EndSession(c, s) PROVE TypeOK'
  <2>1. clients' \in [Clients -> Requests]
    BY <1>1, DoneType DEF EndSession
  <2>2. sessions' \in [Sessions -> SessionRows] /\ condemned' \subseteq Sessions
    BY <1>1, EndedRows DEF EndSession, SessionsOf, TypeOK
  <2> QED
    BY <1>1, <2>1, <2>2 DEF EndSession, TypeOK
<1>2. ASSUME NEW o \in Users, SwitchContext(c, o) PROVE TypeOK'
  <2> DEFINE b == clients[c]
             role == members[o][clients[c].user].role
             r == [b EXCEPT !.pc = "SWITCH_CHECK", !.org = o, !.role = role]
  <2>1. clients' = [clients EXCEPT ![c] = r]
    BY <1>2 DEF SwitchContext
  <2>2. role \in Roles
    BY <1>0, <1>2, MemberRole DEF SwitchContext, IsActiveMember
  <2>3. r \in Requests
    <3> HIDE DEF b, role
    <3>1. b \in Requests
      BY <1>0 DEF b
    <3> QED
      BY <2>2, <3>1 DEF Requests, Steps
  <2> HIDE DEF r
  <2>4. clients' \in [Clients -> Requests]
    BY <2>1, <2>3, ClientSet
  <2> QED
    BY <1>2, <2>4 DEF SwitchContext, TypeOK
<1>3. CASE SwitchCheck(c)
  <2>1. clients' \in [Clients -> Requests]
    BY <1>3, DoneType, GotoType DEF SwitchCheck, Steps
  <2> QED
    BY <1>3, <2>1 DEF SwitchCheck, TypeOK
<1>4. CASE SwitchWrite(c)
  <2>1. PICK s \in FreshSession, t \in FreshToken :
       /\ sessions' = [Ended({clients[c].ref}) EXCEPT ![s] = NewSession(c)]
       /\ refresh' = [refresh EXCEPT ![t] = [session |-> s, used |-> FALSE]]
    BY <1>4 DEF SwitchWrite
  <2>2. s \in Sessions /\ t \in Tokens
    BY FreshRows DEF TypeOK
  <2>3. sessions' \in [Sessions -> SessionRows]
    BY <2>1, <2>2, NewSessionType, EndedRows
  <2>4. refresh' \in [Tokens -> TokenRows]
    BY <2>1, <2>2, NewTokenType DEF TypeOK
  <2>5. clients' \in [Clients -> Requests]
    BY <1>4, DoneType DEF SwitchWrite
  <2>6. condemned' \subseteq Sessions
    BY <1>4 DEF SwitchWrite, RefInv, Acting, At, TypeOK
  <2> QED
    BY <1>4, <2>3, <2>4, <2>5, <2>6 DEF SwitchWrite, TypeOK
<1>5. ASSUME NEW i \in Invitations, AcceptInvitation(c, i) PROVE TypeOK'
  BY <1>5, JoinType, DoneType DEF AcceptInvitation, TypeOK
<1>6. CASE WithdrawInvitation(c)
  <2>1. invitations' \in [Invitations -> InvitationRows]
    <3>1. CASE clients[c].ref \in Invitations
      <4>1. PICK state \in {"OPEN", "REVOKED", "ACCEPTED", "ABSENT"} :
              invitations' = [invitations EXCEPT ![clients[c].ref].state = state]
        BY <1>6, <3>1 DEF WithdrawInvitation, TypeOK, InvitationRows
      <4>2. /\ invitations \in [Invitations -> InvitationRows]
            /\ \A i \in Invitations : invitations[i] \in InvitationRows
        BY DEF TypeOK
      <4> QED
        BY <4>1, <4>2, InvitationsEdit
    <3>2. CASE clients[c].ref \notin Invitations
      <4>1. invitations' = invitations
        BY <1>6, <3>2 DEF WithdrawInvitation, TypeOK
      <4> QED
        BY <4>1 DEF TypeOK
    <3> QED
      BY <3>1, <3>2
  <2> QED
    BY <1>6, <2>1, DoneType DEF WithdrawInvitation, TypeOK
<1>7. ASSUME NEW u \in Users, NEW role \in Assignable, InviteMember(c, u, role) PROVE TypeOK'
  <2>1. PICK i \in FreshInvitation :
       /\ invitations' = Invited(i, clients[c].org, u, role)
       /\ clients' = [clients EXCEPT ![c] = [Idle EXCEPT !.pc = "INVITE_MAIL", !.ref = i]]
    BY <1>7 DEF InviteMember
  <2>2. i \in Invitations /\ i \in Nat
    BY FreshRows DEF TypeOK, Invitations
  <2>3. invitations' \in [Invitations -> InvitationRows]
    <3> DEFINE o == clients[c].org
               new == [state |-> "OPEN", org |-> o, user |-> u, role |-> role, mailed |-> FALSE]
    <3>1. o \in Users /\ role \in Roles
      BY <1>0 DEF Requests, Roles
    <3>2. new \in InvitationRows
      <4> HIDE DEF o
      <4> QED
        BY <3>1 DEF InvitationRows
    <3>3. \A j \in Invitations :
            /\ invitations[j] \in InvitationRows
            /\ [invitations[j] EXCEPT !.state = "REVOKED"] \in InvitationRows
      BY InvitationEdit DEF TypeOK
    <3>4. ASSUME NEW j \in Invitations
          PROVE  (IF j = i THEN new
                  ELSE IF /\ invitations[j].state = "OPEN"
                          /\ invitations[j].org = o /\ invitations[j].user = u
                  THEN [invitations[j] EXCEPT !.state = "REVOKED"]
                  ELSE invitations[j]) \in InvitationRows
      <4> HIDE DEF new
      <4> QED
        BY <3>2, <3>3
    <3> QED
      BY <2>1, <3>4 DEF Invited
  <2>4. [Idle EXCEPT !.pc = "INVITE_MAIL", !.ref = i] \in Requests
    BY <2>2, IdleType DEF Requests, Steps
  <2>5. clients' \in [Clients -> Requests]
    BY <2>1, <2>4, ClientSet
  <2> QED
    BY <1>7, <2>3, <2>5 DEF InviteMember, TypeOK
<1>8. ASSUME NEW u \in Users, NEW row \in MemberRows, ChangeMember(c, u, row) PROVE TypeOK'
  <2>1. members' \in [Users -> [Users -> MemberRows]]
    BY <1>0, <1>8 DEF ChangeMember, TypeOK
  <2>2. sessions' \in [Sessions -> SessionRows] /\ condemned' \subseteq Sessions
    BY <1>8, EndedRows DEF ChangeMember, RevokeMembershipSessions, SessionsIn, SessionsOf, TypeOK
  <2>3. clients' \in [Clients -> Requests]
    BY <1>8, DoneType DEF ChangeMember
  <2> QED
    BY <1>8, <2>1, <2>2, <2>3 DEF ChangeMember, TypeOK
<1>9. ASSUME NEW u \in Users, NEW role \in Assignable, UpdateMemberRole(c, u, role) PROVE TypeOK'
  <2>1. [members[clients[c].org][u] EXCEPT !.role = role] \in MemberRows
    BY <1>0, MemberRole DEF MemberRows, Roles
  <2> QED
    BY <1>8, <1>9, <2>1 DEF UpdateMemberRole
<1>10. ASSUME NEW u \in Users, NEW a \in BOOLEAN, SetMemberActive(c, u, a) PROVE TypeOK'
  <2>1. [members[clients[c].org][u] EXCEPT !.active = a] \in MemberRows
    BY <1>0, MemberRole DEF MemberRows
  <2> QED
    BY <1>8, <1>10, <2>1 DEF SetMemberActive
<1>11. ASSUME NEW u \in Users, RemoveMember(c, u) PROVE TypeOK'
  <2>1. NoMember \in MemberRows
    BY DEF NoMember, MemberRows
  <2> QED
    BY <1>8, <1>11, <2>1 DEF RemoveMember
<1>12. ASSUME NEW u \in Users, TransferOwnership(c, u) PROVE TypeOK'
  <2>1. members' \in [Users -> [Users -> MemberRows]]
    BY <1>12, TransferEffect
  <2>2. sessions' \in [Sessions -> SessionRows] /\ condemned' \subseteq Sessions
    BY <1>12, EndedRows DEF TransferOwnership, RevokeMembershipSessions, SessionsIn, SessionsOf, TypeOK
  <2>3. clients' \in [Clients -> Requests]
    BY <1>12, DoneType DEF TransferOwnership
  <2> QED
    BY <1>12, <2>1, <2>2, <2>3 DEF TransferOwnership, TypeOK
<1> QED
  BY <1>1, <1>2, <1>3, <1>4, <1>5, <1>6, <1>7, <1>9, <1>10, <1>11, <1>12
  DEF MemberStep, Logout, RevokeSession

\* A refresh token that is presented: reuse ends the session, use rotates.
LEMMA RefreshEffect ==
  ASSUME TypeInv, NEW t \in Tokens, Refresh(t)
  PROVE  LET s == refresh[t].session IN
         /\ s \in Sessions /\ sessions[s].state # "ABSENT"
         /\ UNCHANGED <<users, members, invitations, links, clients>>
         /\ \/ /\ Spent(t) /\ sessions' = Ended({s}) /\ UNCHANGED refresh
               /\ condemned' \subseteq condemned \cup {s}
            \/ /\ ~Spent(t) /\ UNCHANGED condemned
               /\ \A q \in Sessions : sessions'[q].state = sessions[q].state
               /\ sessions' \in [Sessions -> SessionRows]
               /\ refresh' \in [Tokens -> TokenRows]
               /\ \E n \in Tokens :
                    /\ refresh[n].session = 0
                    /\ \A m \in Tokens :
                         /\ refresh'[m].session = IF m = n THEN s ELSE refresh[m].session
                         /\ refresh'[m].used = IF m = n THEN FALSE ELSE m = t \/ refresh[m].used
<1> DEFINE s == refresh[t].session
<1>1. /\ s \in Sessions /\ sessions[s].state # "ABSENT" /\ sessions[s].org \in Users
      /\ sessions[s].user \in Users
  <2>1. s # 0 /\ s \in 0..MaxSessions
    BY DEF Refresh, TypeInv, TypeOK, TokenRows
  <2>2. s \in Sessions
    BY <2>1 DEF Sessions
  <2> QED
    BY <2>1, <2>2 DEF TypeInv, TypeOK, RefInv, SessionRows
<1>2. UNCHANGED <<users, members, invitations, links, clients>>
  BY DEF Refresh, accounts
<1>3. CASE Spent(t)
  BY <1>1, <1>2, <1>3 DEF Refresh
<1>4. CASE ~Spent(t)
  <2>1. PICK n \in FreshToken : refresh' = Rotated(t, n)
    BY <1>4 DEF Refresh
  <2>2. n \in Tokens /\ refresh[n].session = 0 /\ n # t
    BY <1>1, FreshRows DEF TypeInv, TypeOK, Sessions
  <2> DEFINE role == members[sessions[s].org][sessions[s].user].role
  <2>3. sessions' = [sessions EXCEPT ![s].roles = @ \cup {role}]
    BY <1>4 DEF Refresh
  <2>4. role \in Roles
    BY <1>1, MemberRole DEF Refresh, IsActiveMember, TypeInv
  <2>5. condemned' = condemned
    BY <1>4 DEF Refresh, Spent
  <2>6. /\ sessions' \in [Sessions -> SessionRows]
        /\ \A q \in Sessions : sessions'[q].state = sessions[q].state
    <3> DEFINE b == sessions[s]
               r == [b EXCEPT !.roles = @ \cup {role}]
    <3>1. b \in SessionRows
      BY <1>1 DEF TypeInv, TypeOK
    <3>2. sessions' = [sessions EXCEPT ![s] = r]
      BY <2>3
    <3>3. r \in SessionRows /\ r.state = b.state
      <4> HIDE DEF b, role, s
      <4> QED
        BY <2>4, <3>1 DEF SessionRows
    <3> HIDE DEF r
    <3> QED
      BY <1>1, <3>2, <3>3 DEF TypeInv, TypeOK
  <2>7. /\ refresh' = [refresh EXCEPT ![t].used = TRUE, ![n] = [session |-> s, used |-> FALSE]]
        /\ [session |-> s, used |-> FALSE] \in TokenRows
    BY <1>1, <2>1, NewTokenType DEF Rotated
  <2>8. /\ refresh' \in [Tokens -> TokenRows]
        /\ \A m \in Tokens :
             /\ refresh'[m].session = IF m = n THEN s ELSE refresh[m].session
             /\ refresh'[m].used = IF m = n THEN FALSE ELSE m = t \/ refresh[m].used
    <3> HIDE DEF s
    <3> QED
      BY <2>2, <2>7 DEF TypeInv, TypeOK, TokenRows
  <2> QED
    BY <1>1, <1>2, <1>4, <2>2, <2>5, <2>6, <2>8
<1> QED
  BY <1>3, <1>4

LEMMA OtherType ==
  ASSUME TypeInv,
         \/ \E t \in Tokens : Refresh(t)
         \/ \E s \in Sessions : Expire(s)
         \/ \E u \in Users : BootstrapDemo(u)
         \/ \E c \in Clients : Abandon(c)
  PROVE  TypeOK'
<1> USE DEF TypeInv, accounts
<1>1. ASSUME NEW t \in Tokens, Refresh(t) PROVE TypeOK'
  <2>1. /\ sessions' \in [Sessions -> SessionRows]
        /\ refresh' \in [Tokens -> TokenRows]
        /\ condemned' \subseteq Sessions
    <3>1. CASE Spent(t)
      <4>1. /\ refresh[t].session \in Sessions
            /\ sessions' = Ended({refresh[t].session}) /\ UNCHANGED refresh
            /\ condemned' \subseteq condemned \cup {refresh[t].session}
        BY <1>1, <3>1, RefreshEffect
      <4> QED
        BY <4>1, EndedRows DEF TypeOK
    <3>2. CASE ~Spent(t)
      BY <1>1, <3>2, RefreshEffect DEF TypeOK
    <3> QED
      BY <3>1, <3>2
  <2>2. UNCHANGED <<users, members, invitations, links, clients>>
    BY <1>1, RefreshEffect
  <2> QED
    BY <2>1, <2>2 DEF TypeOK
<1>2. ASSUME NEW s \in Sessions, Expire(s) PROVE TypeOK'
  BY <1>2, EndedRows DEF Expire, TypeOK
<1>3. ASSUME NEW u \in Users, BootstrapDemo(u) PROVE TypeOK'
  <2>1. CASE users[u].status = "ABSENT" /\ FoundWorkspace(u, "ACTIVE", TRUE) /\ UNCHANGED <<sessions, condemned>>
    BY <1>3, <2>1, FoundType DEF BootstrapDemo, TypeOK
  <2>2. CASE /\ users[u].password < MaxPassword
             /\ users' = [users EXCEPT ![u].status = "ACTIVE", ![u].password = @ + 1]
             /\ sessions' = Ended(SessionsOf(u))
             /\ condemned' = condemned \cup SessionsOf(u)
             /\ UNCHANGED members
    <3>1. users' \in [Users -> UserRows]
      <4> DEFINE p == users[u].password + 1
                 b == users[u]
                 r == [b EXCEPT !.status = "ACTIVE", !.password = p]
      <4>1. b \in UserRows /\ users[u].password \in 0..MaxPassword
        BY DEF TypeOK, UserRows
      <4>2. p \in 0..MaxPassword
        BY <2>2, <4>1
      <4>3. users' = [users EXCEPT ![u] = r]
        BY <2>2
      <4> HIDE DEF p, b
      <4>4. r \in UserRows
        BY <4>1, <4>2 DEF UserRows
      <4> HIDE DEF r
      <4> QED
        BY <4>3, <4>4 DEF TypeOK
    <3>2. sessions' \in [Sessions -> SessionRows] /\ condemned' \subseteq Sessions
      BY <2>2, EndedRows DEF SessionsOf, TypeOK
    <3> QED
      BY <1>3, <2>2, <3>1, <3>2 DEF BootstrapDemo, TypeOK
  <2> QED
    BY <1>3, <2>1, <2>2 DEF BootstrapDemo
<1>4. ASSUME NEW c \in Clients, Abandon(c) PROVE TypeOK'
  BY <1>4, DoneType DEF Abandon, TypeOK
<1> QED
  BY <1>1, <1>2, <1>3, <1>4

-----------------------------------------------------------------------------
(***************************************************************************)
(* What the steps do to sessions and requests                              *)
(***************************************************************************)
\* Sessions are ended, and those that existed are condemned at most with them.
Ending(S) ==
  /\ sessions' = Ended(S)
  /\ condemned' \subseteq condemned \cup {s \in Sessions : s \in S /\ sessions[s].state # "ABSENT"}
  /\ UNCHANGED refresh
\* A new session gets its first refresh token; another may end with it.
Opening(S) ==
  /\ condemned' \subseteq condemned \cup {s \in Sessions : s \in S /\ sessions[s].state # "ABSENT"}
  /\ \E s \in Sessions, t \in Tokens :
       /\ sessions[s].state = "ABSENT" /\ refresh[t].session = 0
       /\ \A q \in Sessions :
            /\ q = s => sessions'[q].state = "LIVE"
            /\ q # s => sessions'[q] = Ended(S)[q]
       /\ \A m \in Tokens :
            /\ m = t => refresh'[m].session = s
            /\ m # t => refresh'[m] = refresh[m]

LEMMA SessionKinds ==
  ASSUME TypeInv, [Next]_vars
  PROVE  \/ UNCHANGED <<sessions, refresh, condemned>>
         \/ \E t \in Tokens : Refresh(t)
         \/ \E S \in SUBSET Sessions : Ending(S) \/ Opening(S)
<1>1. ASSUME NEW c \in Clients, PublicRequest(c) PROVE UNCHANGED <<sessions, refresh, condemned>>
  BY <1>1 DEF PublicRequest, Register, Login, RequestEmailVerification, RequestPasswordReset,
     RequestLink, VerifyEmail, ResetPassword, ConsumeLink, RegisterFromInvitation, Authenticate
<1>2. ASSUME NEW c \in Clients, PublicStep(c)
      PROVE  UNCHANGED <<sessions, refresh, condemned>> \/ UpdatePassword(c) \/ OpenSession(c)
  BY <1>2 DEF PublicStep, SupersedeLinks, InsertLink, RollbackRegistration, SendLink,
     SendInvitation, MarkVerified, ReadMembership
<1>3. ASSUME NEW c \in Clients, MemberStep(c)
      PROVE  \/ UNCHANGED <<sessions, refresh, condemned>> \/ SwitchWrite(c)
             \/ \E s : EndSession(c, s)
             \/ \E u \in Users : (\E row : ChangeMember(c, u, row)) \/ TransferOwnership(c, u)
  BY <1>3 DEF MemberStep, Logout, RevokeSession, SwitchContext, SwitchCheck, AcceptInvitation,
     WithdrawInvitation, InviteMember, UpdateMemberRole, SetMemberActive, RemoveMember
<1>4. ASSUME NEW c \in Clients, UpdatePassword(c) PROVE Ending(SessionsOf(clients[c].user))
  BY <1>4 DEF UpdatePassword, Ending, SessionsOf
<1>5. ASSUME NEW c \in Clients, NEW s, EndSession(c, s) PROVE Ending({s}) /\ s \in Sessions
  BY <1>5 DEF EndSession, Ending, SessionsOf
<1>6. ASSUME NEW c \in Clients, NEW u \in Users, NEW row, ChangeMember(c, u, row)
      PROVE  Ending(UNION {SessionsIn(clients[c].org, v) : v \in {u}})
  BY <1>6 DEF ChangeMember, RevokeMembershipSessions, Ending, SessionsIn, SessionsOf
<1>7. ASSUME NEW c \in Clients, NEW u \in Users, TransferOwnership(c, u)
      PROVE  Ending(UNION {SessionsIn(clients[c].org, v) : v \in {clients[c].user, u}})
  BY <1>7 DEF TransferOwnership, RevokeMembershipSessions, Ending, SessionsIn, SessionsOf
<1>8. ASSUME NEW s \in Sessions, Expire(s) PROVE Ending({s})
  BY <1>8 DEF Expire, Ending
<1>9. ASSUME NEW u \in Users, BootstrapDemo(u)
      PROVE  UNCHANGED <<sessions, refresh, condemned>> \/ Ending(SessionsOf(u))
  BY <1>9 DEF BootstrapDemo, Ending, SessionsOf
<1>10. ASSUME NEW c \in Clients, OpenSession(c) PROVE Opening({})
  <2>1. PICK s \in FreshSession, t \in FreshToken :
       /\ sessions' = [sessions EXCEPT ![s] = NewSession(c)]
       /\ refresh' = [refresh EXCEPT ![t] = [session |-> s, used |-> FALSE]]
    BY <1>10 DEF OpenSession
  <2>2. s \in Sessions /\ t \in Tokens /\ sessions[s].state = "ABSENT" /\ refresh[t].session = 0
    BY FreshRows DEF TypeInv, TypeOK
  <2>3. \A q \in Sessions : Ended({})[q] = sessions[q]
    BY EndedRows DEF TypeInv
  <2>4. \A q \in Sessions : (q = s => sessions'[q].state = "LIVE") /\ (q # s => sessions'[q] = Ended({})[q])
    BY <2>1, <2>2, <2>3, NewSessionType DEF TypeInv, TypeOK
  <2>5. \A m \in Tokens : (m = t => refresh'[m].session = s) /\ (m # t => refresh'[m] = refresh[m])
    BY <2>1, <2>2 DEF TypeInv, TypeOK
  <2> QED
    BY <1>10, <2>2, <2>4, <2>5 DEF Opening, OpenSession
<1>11. ASSUME NEW c \in Clients, SwitchWrite(c) PROVE Opening({clients[c].ref}) /\ clients[c].ref \in Sessions
  <2>1. PICK s \in FreshSession, t \in FreshToken :
       /\ sessions' = [Ended({clients[c].ref}) EXCEPT ![s] = NewSession(c)]
       /\ refresh' = [refresh EXCEPT ![t] = [session |-> s, used |-> FALSE]]
    BY <1>11 DEF SwitchWrite
  <2>2. s \in Sessions /\ t \in Tokens /\ sessions[s].state = "ABSENT" /\ refresh[t].session = 0
    BY FreshRows DEF TypeInv, TypeOK
  <2>3. \A q \in Sessions : /\ q = s => sessions'[q].state = "LIVE"
                            /\ q # s => sessions'[q] = Ended({clients[c].ref})[q]
    BY <2>1, <2>2, NewSessionType, EndedRows DEF TypeInv
  <2>4. \A m \in Tokens : (m = t => refresh'[m].session = s) /\ (m # t => refresh'[m] = refresh[m])
    BY <2>1, <2>2 DEF TypeInv, TypeOK
  <2>5. clients[c].ref \in Sessions /\ sessions[clients[c].ref].state # "ABSENT"
    BY <1>11 DEF SwitchWrite, At, TypeInv, RefInv, Acting
  <2> QED
    BY <1>11, <2>2, <2>3, <2>4, <2>5 DEF Opening, SwitchWrite
<1>12. CASE UNCHANGED vars
  BY <1>12 DEF vars
<1>13. ASSUME NEW c \in Clients, Abandon(c) PROVE UNCHANGED <<sessions, refresh, condemned>>
  BY <1>13 DEF Abandon
<1>14. \A o, u : SessionsIn(o, u) \subseteq Sessions /\ SessionsOf(u) \subseteq Sessions
  BY DEF SessionsIn, SessionsOf
<1>15. ASSUME NEW c \in Clients, PublicStep(c) \/ MemberStep(c)
       PROVE  UNCHANGED <<sessions, refresh, condemned>> \/ \E S \in SUBSET Sessions : Ending(S) \/ Opening(S)
  <2>1. \A u, v : UNION {SessionsIn(clients[c].org, w) : w \in {u, v}} \in SUBSET Sessions
                  /\ UNION {SessionsIn(clients[c].org, w) : w \in {u}} \in SUBSET Sessions
    BY <1>14
  <2>2. CASE PublicStep(c)
    BY <1>2, <1>4, <1>10, <1>14, <2>2
  <2>3. CASE MemberStep(c)
    BY <1>3, <1>5, <1>6, <1>7, <1>11, <2>1, <2>3
  <2> QED
    BY <1>15, <2>2, <2>3
<1> QED
  BY <1>1, <1>8, <1>9, <1>12, <1>13, <1>14, <1>15 DEF Next

\* A session is opened, and ended, and never anything else.
LEMMA SessionMoves ==
  ASSUME TypeInv, [Next]_vars, NEW s \in Sessions
  PROVE  \/ sessions'[s].state = sessions[s].state
         \/ sessions[s].state = "ABSENT" /\ sessions'[s].state = "LIVE"
         \/ sessions[s].state = "LIVE" /\ sessions'[s].state = "ENDED"
<1>1. ASSUME NEW S, sessions'[s] = Ended(S)[s]
      PROVE  \/ sessions'[s].state = sessions[s].state
             \/ sessions[s].state = "LIVE" /\ sessions'[s].state = "ENDED"
  BY <1>1, EndedRows DEF TypeInv
<1>2. ASSUME NEW t \in Tokens, Refresh(t)
      PROVE  sessions'[s].state = sessions[s].state \/ sessions'[s] = Ended({refresh[t].session})[s]
  BY <1>2, RefreshEffect
<1> QED
  BY <1>1, <1>2, SessionKinds DEF Ending, Opening

\* A request that acts with a session has just authenticated, or did so before.
ClientMoves ==
  \A c \in Clients : clients'[c].pc \in Acting =>
    \/ /\ clients[c].pc \in Acting /\ clients'[c].ref = clients[c].ref
       /\ clients'[c].pc = "ACT" => clients'[c] = clients[c]
    \/ /\ clients'[c].ref \in Sessions /\ sessions[clients'[c].ref].state = "LIVE"
       /\ clients'[c].org \in Founded

LEMMA OtherwiseEngaged ==
  ASSUME TypeOK, NEW c \in Clients, NEW r, clients' = [clients EXCEPT ![c] = r], r.pc \notin Acting
  PROVE  ClientMoves
BY DEF ClientMoves, TypeOK

LEMMA GotoMoves ==
  ASSUME TypeOK, NEW c \in Clients, NEW step \in Steps \ Acting, Goto(c, step)
  PROVE  ClientMoves
BY DEF Goto, ClientMoves, TypeOK, Requests

LEMMA DoneMoves ==
  ASSUME TypeOK, NEW c \in Clients, Done(c)
  PROVE  ClientMoves
BY IdleType, OtherwiseEngaged DEF Done, Acting

LEMMA ClientStep ==
  ASSUME TypeInv, [Next]_vars
  PROVE  ClientMoves
<1> USE DEF TypeInv
<1>1. ASSUME NEW c \in Clients, PublicRequest(c) PROVE ClientMoves
  <2>1. ASSUME NEW u \in Users, Register(c, u) PROVE ClientMoves
    <3>1. [Idle EXCEPT !.pc = "SUPERSEDE", !.user = u, !.registering = TRUE].pc = "SUPERSEDE"
      BY IdleType DEF Requests
    <3> QED
      BY <2>1, <3>1, OtherwiseEngaged DEF Register, Acting
  <2>2. ASSUME NEW u \in Users, Login(c, u) PROVE ClientMoves
    <3>1. [Idle EXCEPT !.pc = "MEMBERSHIP", !.user = u].pc = "MEMBERSHIP"
      BY IdleType DEF Requests
    <3> QED
      BY <2>2, <3>1, OtherwiseEngaged DEF Login, Acting
  <2>3. ASSUME NEW u \in Users, NEW purpose, NEW statuses, RequestLink(c, u, purpose, statuses) PROVE ClientMoves
    <3>1. [Idle EXCEPT !.pc = "SUPERSEDE", !.user = u, !.purpose = purpose].pc = "SUPERSEDE"
      BY IdleType DEF Requests
    <3> QED
      BY <2>3, <3>1, OtherwiseEngaged DEF RequestLink, Acting
  <2>4. ASSUME NEW l \in Links, NEW purpose, NEW step \in {"MARK", "RESET"}, ConsumeLink(c, l, purpose, step)
        PROVE  ClientMoves
    <3>1. [Idle EXCEPT !.pc = step, !.user = links[l].user].pc = step
      BY IdleType DEF Requests
    <3> QED
      BY <2>4, <3>1, OtherwiseEngaged DEF ConsumeLink, Acting
  <2>5. ASSUME NEW i \in Invitations, RegisterFromInvitation(c, i) PROVE ClientMoves
    <3>1. [Idle EXCEPT !.pc = "OPEN", !.user = invitations[i].user,
                       !.org = invitations[i].org, !.role = invitations[i].role].pc = "OPEN"
      BY IdleType DEF Requests
    <3> QED
      BY <2>5, <3>1, OtherwiseEngaged DEF RegisterFromInvitation, Acting
  <2>6. ASSUME NEW s \in Sessions, NEW role \in Roles, Authenticate(c, s, role) PROVE ClientMoves
    <3> DEFINE r == [Idle EXCEPT !.pc = "ACT", !.user = sessions[s].user, !.org = sessions[s].org,
                                 !.role = role, !.ref = s]
    <3>1. clients' = [clients EXCEPT ![c] = r]
      BY <2>6 DEF Authenticate
    <3>2. r.pc = "ACT" /\ r.org = sessions[s].org /\ r.ref = s
      BY IdleType DEF Requests
    <3>3. sessions[s].state = "LIVE" /\ sessions[s].org \in Founded
      <4>1. sessions[s].org \in Users /\ sessions[s].user \in Users /\ role # "NONE"
        BY DEF TypeOK, SessionRows, Roles
      <4> QED
        BY <2>6, <4>1 DEF Authenticate, SessionIsActive, Founded, IsMember
    <3> HIDE DEF r
    <3> QED
      BY <3>1, <3>2, <3>3 DEF ClientMoves, TypeOK
  <2> QED
    BY <1>1, <2>1, <2>2, <2>3, <2>4, <2>5, <2>6
    DEF PublicRequest, RequestEmailVerification, RequestPasswordReset, VerifyEmail, ResetPassword
<1>2. ASSUME NEW c \in Clients, PublicStep(c) PROVE ClientMoves
  <2>1. CASE SupersedeLinks(c)
    BY <2>1, GotoMoves DEF SupersedeLinks, Steps, Acting
  <2>2. CASE InsertLink(c)
    <3>1. PICK l : clients' = [clients EXCEPT ![c].pc = "MAIL", ![c].ref = l]
      BY <2>2 DEF InsertLink
    <3> DEFINE b == clients[c]
               r == [b EXCEPT !.pc = "MAIL", !.ref = l]
    <3>2. clients' = [clients EXCEPT ![c] = r] /\ b \in Requests
      BY <3>1 DEF TypeOK
    <3> HIDE DEF b
    <3>3. r.pc = "MAIL"
      BY <3>2 DEF Requests
    <3> HIDE DEF r
    <3> QED
      BY <3>2, <3>3, OtherwiseEngaged DEF Acting
  <2>3. ASSUME NEW d, NEW r, SendLink(c, d, r) \/ SendInvitation(c, d, r) PROVE ClientMoves
    BY <2>3, GotoMoves, DoneMoves DEF SendLink, SendInvitation, Steps, Acting
  <2>4. CASE MarkVerified(c)
    BY <2>4, GotoMoves DEF MarkVerified, Steps, Acting
  <2>5. ASSUME NEW o \in Users, ReadMembership(c, o) PROVE ClientMoves
    <3> DEFINE b == clients[c]
               role == members[o][clients[c].user].role
               r == [b EXCEPT !.pc = "OPEN", !.org = o, !.role = role]
    <3>1. clients' = [clients EXCEPT ![c] = r] /\ b \in Requests
      BY <2>5 DEF TypeOK, ReadMembership
    <3> HIDE DEF b, role
    <3>2. r.pc = "OPEN"
      BY <3>1 DEF Requests
    <3> HIDE DEF r
    <3> QED
      BY <3>1, <3>2, OtherwiseEngaged DEF Acting
  <2>6. CASE RollbackRegistration(c) \/ UpdatePassword(c) \/ OpenSession(c)
    BY <2>6, DoneMoves DEF RollbackRegistration, UpdatePassword, OpenSession
  <2> QED
    BY <1>2, <2>1, <2>2, <2>3, <2>4, <2>5, <2>6 DEF PublicStep
<1>3. ASSUME NEW c \in Clients, MemberStep(c) PROVE ClientMoves
  <2>1. ASSUME NEW o \in Users, SwitchContext(c, o) PROVE ClientMoves
    <3> DEFINE b == clients[c]
               role == members[o][clients[c].user].role
               r == [b EXCEPT !.pc = "SWITCH_CHECK", !.org = o, !.role = role]
    <3>1. clients' = [clients EXCEPT ![c] = r] /\ b \in Requests /\ b.pc = "ACT"
      BY <2>1 DEF TypeOK, SwitchContext, At
    <3>2. r.pc = "SWITCH_CHECK" /\ r.ref = b.ref
      <4> HIDE DEF b, role
      <4> QED
        BY <3>1 DEF Requests
    <3> HIDE DEF r
    <3> QED
      BY <3>1, <3>2 DEF ClientMoves, Acting, TypeOK
  <2>2. CASE SwitchCheck(c)
    <3>1. CASE Goto(c, "SWITCH_WRITE")
      BY <2>2, <3>1 DEF SwitchCheck, At, Goto, ClientMoves, Acting, TypeOK, Requests
    <3> QED
      BY <2>2, <3>1, DoneMoves DEF SwitchCheck
  <2>3. ASSUME NEW u \in Users, NEW role, InviteMember(c, u, role) PROVE ClientMoves
    <3>1. PICK i : clients' = [clients EXCEPT ![c] = [Idle EXCEPT !.pc = "INVITE_MAIL", !.ref = i]]
      BY <2>3 DEF InviteMember
    <3>2. [Idle EXCEPT !.pc = "INVITE_MAIL", !.ref = i].pc = "INVITE_MAIL"
      BY IdleType DEF Requests
    <3> QED
      BY <3>1, <3>2, OtherwiseEngaged DEF Acting
  <2>4. CASE Done(c)
    BY <2>4, DoneMoves
  <2> QED
    BY <1>3, <2>1, <2>2, <2>3, <2>4
    DEF MemberStep, Logout, RevokeSession, EndSession, SwitchWrite, AcceptInvitation, WithdrawInvitation,
        UpdateMemberRole, SetMemberActive, RemoveMember, ChangeMember, TransferOwnership
<1>4. ASSUME NEW c \in Clients, Abandon(c) PROVE ClientMoves
  BY <1>4, DoneMoves DEF Abandon
<1>5. ASSUME UNCHANGED clients PROVE ClientMoves
  BY <1>5 DEF ClientMoves
<1> QED
  BY <1>1, <1>2, <1>3, <1>4, <1>5 DEF Next, Refresh, Expire, BootstrapDemo, vars

LEMMA TypeStep == TypeInv /\ [Next]_vars => TypeInv'
<1> SUFFICES ASSUME TypeInv, [Next]_vars PROVE TypeInv'
  OBVIOUS
<1>1. TypeOK'
  <2>1. CASE UNCHANGED vars
    BY <2>1 DEF vars, TypeInv, TypeOK
  <2> QED
    BY <2>1, PublicRequestType, PublicStepType, MemberStepType, OtherType DEF Next
<1>2. ASSUME NEW s \in Sessions, sessions[s].state # "ABSENT" PROVE sessions'[s].state # "ABSENT"
  BY <1>2, SessionMoves
<1>3. ASSUME NEW c \in Clients, clients'[c].pc \in Acting
      PROVE  clients'[c].ref \in Sessions /\ sessions'[clients'[c].ref].state # "ABSENT"
  <2>1. clients'[c].ref \in Sessions /\ sessions[clients'[c].ref].state # "ABSENT"
    BY <1>3, ClientStep DEF ClientMoves, TypeInv, RefInv
  <2> QED
    BY <1>2, <2>1
<1>4. ASSUME NEW t \in Tokens, refresh'[t].session # 0
      PROVE  sessions'[refresh'[t].session].state # "ABSENT"
  <2>0. \A m \in Tokens : refresh[m].session # 0 =>
          refresh[m].session \in Sessions /\ sessions[refresh[m].session].state # "ABSENT"
    BY DEF TypeInv, TypeOK, RefInv, TokenRows, Sessions
  <2>1. CASE UNCHANGED refresh
    BY <1>2, <1>4, <2>0, <2>1
  <2>2. ASSUME NEW m \in Tokens, Refresh(m) PROVE refresh'[t].session \in {refresh[t].session, refresh[m].session}
    BY <2>2, RefreshEffect
  <2>3. ASSUME NEW m \in Tokens, Refresh(m) PROVE refresh[m].session # 0
    BY <2>3 DEF Refresh
  <2>4. ASSUME NEW S, Opening(S)
        PROVE  \/ refresh'[t].session = refresh[t].session
               \/ refresh'[t].session \in Sessions /\ sessions'[refresh'[t].session].state = "LIVE"
    BY <2>4 DEF Opening
  <2> QED
    BY <1>2, <1>4, <2>0, <2>1, <2>2, <2>3, <2>4, SessionKinds DEF Ending
<1> QED
  BY <1>1, <1>3, <1>4 DEF TypeInv, RefInv

LEMMA TypeInductive == Spec => []TypeInv
BY TypeInit, TypeStep, PTL DEF Spec

\* Every row of the identity tables and every request under way has its type;
\* in particular a session is only ever given the role of a membership.
THEOREM TypeCorrect == Spec => []TypeOK
BY TypeInductive, PTL DEF TypeInv

-----------------------------------------------------------------------------
(***************************************************************************)
(* Sessions that were ended                                                *)
(***************************************************************************)
CondemnedInv == \A s \in condemned : sessions[s].state = "ENDED"

LEMMA CondemnedStep == TypeInv /\ CondemnedInv /\ [Next]_vars => CondemnedInv'
<1> SUFFICES ASSUME TypeInv, CondemnedInv, [Next]_vars PROVE CondemnedInv'
  OBVIOUS
<1>0. condemned \subseteq Sessions
  BY DEF TypeInv, TypeOK
<1>1. \A s \in condemned : sessions'[s].state = "ENDED"
  BY <1>0, SessionMoves DEF CondemnedInv
<1>2. CASE UNCHANGED <<sessions, refresh, condemned>>
  BY <1>2 DEF CondemnedInv
<1>3. ASSUME NEW t \in Tokens, Refresh(t) PROVE CondemnedInv'
  <2> DEFINE s == refresh[t].session
  <2>1. CASE Spent(t)
    <3>1. /\ s \in Sessions /\ sessions[s].state # "ABSENT" /\ sessions' = Ended({s})
          /\ condemned' \subseteq condemned \cup {s}
      BY <1>3, <2>1, RefreshEffect
    <3>2. sessions[s].state \in {"LIVE", "ENDED"}
      BY <3>1 DEF TypeInv, TypeOK, SessionRows
    <3>3. sessions'[s].state = "ENDED"
      BY <3>1, <3>2, EndedRows DEF TypeInv
    <3> QED
      BY <1>1, <3>1, <3>3 DEF CondemnedInv
  <2>2. CASE ~Spent(t)
    BY <1>1, <1>3, <2>2, RefreshEffect DEF CondemnedInv
  <2> QED
    BY <2>1, <2>2
<1>4. ASSUME NEW S \in SUBSET Sessions, Ending(S) \/ Opening(S) PROVE CondemnedInv'
  <2>1. condemned' \subseteq condemned \cup {s \in Sessions : s \in S /\ sessions[s].state # "ABSENT"}
    BY <1>4 DEF Ending, Opening
  <2>2. ASSUME NEW s \in Sessions, s \in S, sessions[s].state # "ABSENT"
        PROVE  sessions'[s].state = "ENDED"
    <3>1. Ended(S)[s].state = "ENDED"
      <4>1. sessions[s].state \in {"LIVE", "ENDED"}
        BY <2>2 DEF TypeInv, TypeOK, SessionRows
      <4> QED
        BY <2>2, <4>1, EndedRows DEF TypeInv
    <3>2. sessions'[s] = Ended(S)[s]
      BY <1>4, <2>2 DEF Ending, Opening
    <3> QED
      BY <3>1, <3>2
  <2> QED
    BY <1>1, <2>1, <2>2 DEF CondemnedInv
<1> QED
  BY <1>2, <1>3, <1>4, SessionKinds

\* A session that existed when its membership changed, its password was reset, its
\* user ended it or a used refresh token of it came back, authenticates nothing any
\* more, whatever happens afterwards: it is ended in the same transaction, and an
\* ended session is never live again.
THEOREM CondemnedStayDead == Spec => []CondemnedAreDead
<1>1. Init => CondemnedInv
  BY DEF Init, CondemnedInv
<1>2. CondemnedInv => CondemnedAreDead
  BY DEF CondemnedInv, CondemnedAreDead, SessionIsActive
<1> QED
  BY <1>1, <1>2, CondemnedStep, TypeInductive, PTL DEF Spec

-----------------------------------------------------------------------------
(***************************************************************************)
(* Refresh tokens                                                          *)
(***************************************************************************)
\* A session has at most one refresh token that was not used.
TokenInv ==
  \A t, m \in Tokens :
    refresh[t].session # 0 /\ refresh[t].session = refresh[m].session /\ ~refresh[t].used /\ ~refresh[m].used
      => t = m

LEMMA TokenStep == TypeInv /\ TokenInv /\ [Next]_vars => TokenInv'
<1> SUFFICES ASSUME TypeInv, TokenInv, [Next]_vars PROVE TokenInv'
  OBVIOUS
<1>1. CASE UNCHANGED refresh
  BY <1>1 DEF TokenInv
<1>2. ASSUME NEW t \in Tokens, Refresh(t), ~Spent(t) PROVE TokenInv'
  <2>1. PICK n \in Tokens :
         /\ refresh[n].session = 0
         /\ \A m \in Tokens :
              /\ refresh'[m].session = IF m = n THEN refresh[t].session ELSE refresh[m].session
              /\ refresh'[m].used = IF m = n THEN FALSE ELSE m = t \/ refresh[m].used
    BY <1>2, RefreshEffect
  <2>2. refresh[t].session # 0 /\ ~refresh[t].used
    BY <1>2 DEF Refresh, Spent
  <2>3. ASSUME NEW m \in Tokens, m # n, refresh'[m].session = refresh[t].session PROVE refresh'[m].used
    BY <2>1, <2>2, <2>3 DEF TokenInv
  <2>4. ASSUME NEW a \in Tokens, NEW b \in Tokens, refresh'[a].session # 0,
               refresh'[a].session = refresh'[b].session, ~refresh'[a].used, ~refresh'[b].used
        PROVE  a = b
    <3>1. CASE a # n /\ b # n
      BY <2>1, <2>4, <3>1 DEF TokenInv
    <3>2. CASE a = n \/ b = n
      BY <2>1, <2>3, <2>4, <3>2
    <3> QED
      BY <3>1, <3>2
  <2> QED
    BY <2>4 DEF TokenInv
<1>3. ASSUME NEW S, Opening(S) PROVE TokenInv'
  <2>1. PICK s \in Sessions, t \in Tokens :
       /\ sessions[s].state = "ABSENT" /\ refresh[t].session = 0
       /\ \A m \in Tokens :
            /\ m = t => refresh'[m].session = s
            /\ m # t => refresh'[m] = refresh[m]
    BY <1>3 DEF Opening
  <2>2. \A m \in Tokens : refresh[m].session # s
    BY <2>1 DEF TypeInv, RefInv, Sessions
  <2> QED
    BY <2>1, <2>2 DEF TokenInv
<1>4. ASSUME NEW t \in Tokens, Refresh(t), Spent(t) PROVE UNCHANGED refresh
  BY <1>4, RefreshEffect
<1> QED
  BY <1>1, <1>2, <1>3, <1>4, SessionKinds DEF Ending

\* Of the refresh tokens of a live session at most one still rotates, whoever
\* presents them and however often: rotation uses up the old one with the row of
\* the new one.
THEOREM OneTokenIsLive == Spec => []OneLiveToken
<1>1. Init => TokenInv
  BY DEF Init, TokenInv
<1>2. TypeInv /\ TokenInv => OneLiveToken
  <2> SUFFICES ASSUME TokenInv, NEW s \in Sessions
               PROVE  Cardinality({t \in Tokens : refresh[t].session = s /\ ~Spent(t)}) <= 1
    BY DEF OneLiveToken, LiveOf
  <2> DEFINE T == {t \in Tokens : refresh[t].session = s /\ ~Spent(t)}
  <2> SUFFICES Cardinality(T) <= 1
    OBVIOUS
  <2>1. CASE T = {}
    <3> HIDE DEF T
    <3>1. Cardinality(T) = 0
      BY <2>1, FS_EmptySet
    <3> QED
      BY <3>1
  <2>2. CASE T # {}
    <3>1. PICK t : t \in T
      BY <2>2
    <3>2. T = {t}
      BY <3>1 DEF TokenInv, Spent, Sessions
    <3> HIDE DEF T
    <3>3. Cardinality(T) = 1
      BY <3>2, FS_Singleton
    <3> QED
      BY <3>3
  <2> QED
    BY <2>1, <2>2
<1> QED
  BY <1>1, <1>2, TokenStep, TypeInductive, PTL DEF Spec

-----------------------------------------------------------------------------
(***************************************************************************)
(* Owners                                                                  *)
(***************************************************************************)
HasOneOwner(o) ==
  \E u \in Users : /\ members[o][u].role = "OWNER" /\ members[o][u].active
                   /\ \A v \in Users \ {u} : members[o][v].role # "OWNER"
\* A workspace is founded by an account that exists, has one owner, and is what an
\* invitation or an acting request is about; an invitation never makes an owner.
WorkspaceInv ==
  /\ \A o \in Founded : users[o].status # "ABSENT" /\ HasOneOwner(o)
  /\ \A i \in Invitations : invitations[i].state # "ABSENT" =>
       invitations[i].org \in Founded /\ invitations[i].role \in Assignable
  /\ \A c \in Clients : At(c, "ACT") => clients[c].org \in Founded

\* The steps that change memberships.
LEMMA MemberKinds ==
  ASSUME TypeInv, [Next]_vars
  PROVE  \/ UNCHANGED members
         \/ \E u \in Users, status \in {"PENDING", "ACTIVE"}, demo \in BOOLEAN :
              users[u].status = "ABSENT" /\ FoundWorkspace(u, status, demo)
         \/ \E i \in Invitations : Join(i)
         \/ \E c \in Clients, u \in Users, row \in MemberRows :
              row.role # "OWNER" /\ ChangeMember(c, u, row)
         \/ \E c \in Clients, u \in Users : TransferOwnership(c, u)
<1>1. ASSUME NEW c \in Clients, PublicRequest(c)
      PROVE  \/ UNCHANGED members
             \/ \E u \in Users : users[u].status = "ABSENT" /\ FoundWorkspace(u, "PENDING", FALSE)
             \/ \E i \in Invitations : Join(i)
  BY <1>1 DEF PublicRequest, Register, Login, RequestEmailVerification, RequestPasswordReset,
     RequestLink, VerifyEmail, ResetPassword, ConsumeLink, RegisterFromInvitation, Authenticate, accounts
<1>2. ASSUME NEW c \in Clients, PublicStep(c) PROVE UNCHANGED members
  BY <1>2 DEF PublicStep, SupersedeLinks, InsertLink, RollbackRegistration, SendLink,
     SendInvitation, MarkVerified, UpdatePassword, ReadMembership, OpenSession, accounts
<1>3. ASSUME NEW c \in Clients, MemberStep(c)
      PROVE  \/ UNCHANGED members
             \/ \E i \in Invitations : Join(i)
             \/ \E u \in Users, r \in Assignable : UpdateMemberRole(c, u, r)
             \/ \E u \in Users, a \in BOOLEAN : SetMemberActive(c, u, a)
             \/ \E u \in Users : RemoveMember(c, u) \/ TransferOwnership(c, u)
  BY <1>3 DEF MemberStep, Logout, RevokeSession, EndSession, SwitchContext, SwitchCheck, SwitchWrite,
     AcceptInvitation, WithdrawInvitation, InviteMember, accounts
<1>4. ASSUME NEW c \in Clients, NEW u \in Users,
             \/ \E r \in Assignable : UpdateMemberRole(c, u, r)
             \/ \E a \in BOOLEAN : SetMemberActive(c, u, a)
             \/ RemoveMember(c, u)
      PROVE  \E row \in MemberRows : row.role # "OWNER" /\ ChangeMember(c, u, row)
  <2> DEFINE b == members[clients[c].org][u]
  <2>1. b \in MemberRows
    BY MemberRole DEF TypeInv, TypeOK, Requests
  <2>2. ASSUME NEW r \in Assignable, UpdateMemberRole(c, u, r)
        PROVE  [b EXCEPT !.role = r] \in MemberRows /\ [b EXCEPT !.role = r].role # "OWNER"
    <3> HIDE DEF b
    <3> QED
      BY <2>1 DEF MemberRows, Roles
  <2>3. ASSUME NEW a \in BOOLEAN, SetMemberActive(c, u, a)
        PROVE  [b EXCEPT !.active = a] \in MemberRows /\ [b EXCEPT !.active = a].role # "OWNER"
    <3>1. b.role # "OWNER"
      BY <2>3 DEF SetMemberActive, ChangeMember
    <3> HIDE DEF b
    <3> QED
      BY <2>1, <3>1 DEF MemberRows
  <2>4. NoMember \in MemberRows /\ NoMember.role # "OWNER"
    BY DEF NoMember, MemberRows
  <2> QED
    BY <1>4, <2>2, <2>3, <2>4 DEF UpdateMemberRole, SetMemberActive, RemoveMember
<1>5. ASSUME NEW u \in Users, BootstrapDemo(u)
      PROVE  UNCHANGED members \/ (users[u].status = "ABSENT" /\ FoundWorkspace(u, "ACTIVE", TRUE))
  BY <1>5 DEF BootstrapDemo
<1>6. ASSUME \/ \E c \in Clients : Abandon(c)
             \/ \E t \in Tokens : Refresh(t)
             \/ \E s \in Sessions : Expire(s)
             \/ UNCHANGED vars
      PROVE  UNCHANGED members
  BY <1>6 DEF Abandon, Refresh, Expire, accounts, vars
<1> QED
  BY <1>1, <1>2, <1>3, <1>4, <1>5, <1>6 DEF Next

\* An account that exists stays.
LEMMA UsersStay ==
  ASSUME TypeInv, [Next]_vars, NEW o \in Users, users[o].status # "ABSENT"
  PROVE  users'[o].status # "ABSENT"
<1>1. CASE UNCHANGED users
  BY <1>1
<1>2. ASSUME NEW u \in Users, NEW status \in {"PENDING", "ACTIVE"}, NEW demo, FoundWorkspace(u, status, demo)
      PROVE  users'[o].status # "ABSENT"
  BY <1>2 DEF FoundWorkspace, TypeInv, TypeOK, UserRows
<1>3. ASSUME NEW c \in Clients, NEW i \in Invitations, RegisterFromInvitation(c, i)
      PROVE  users'[o].status # "ABSENT"
  BY <1>3 DEF RegisterFromInvitation, TypeInv, TypeOK, UserRows
<1>4. ASSUME NEW c \in Clients, MarkVerified(c) PROVE users'[o].status # "ABSENT"
  BY <1>4 DEF MarkVerified, TypeInv, TypeOK, UserRows
<1>5. ASSUME NEW c \in Clients, UpdatePassword(c) PROVE users'[o].status # "ABSENT"
  BY <1>5 DEF UpdatePassword, TypeInv, TypeOK, UserRows
<1>6. ASSUME NEW u \in Users, BootstrapDemo(u) PROVE users'[o].status # "ABSENT"
  <2>1. CASE users' = [users EXCEPT ![u].status = "ACTIVE", ![u].password = @ + 1]
    BY <2>1 DEF TypeInv, TypeOK, UserRows
  <2> QED
    BY <1>2, <1>6, <2>1 DEF BootstrapDemo
<1>7. ASSUME NEW c \in Clients, PublicRequest(c)
      PROVE  \/ UNCHANGED users
             \/ \E u \in Users : FoundWorkspace(u, "PENDING", FALSE)
             \/ \E i \in Invitations : RegisterFromInvitation(c, i)
  BY <1>7 DEF PublicRequest, Register, Login, RequestEmailVerification, RequestPasswordReset,
     RequestLink, VerifyEmail, ResetPassword, ConsumeLink, Authenticate, accounts
<1>8. ASSUME NEW c \in Clients, PublicStep(c) PROVE UNCHANGED users \/ MarkVerified(c) \/ UpdatePassword(c)
  BY <1>8 DEF PublicStep, SupersedeLinks, InsertLink, RollbackRegistration, SendLink,
     SendInvitation, ReadMembership, OpenSession, accounts
<1>9. ASSUME NEW c \in Clients, MemberStep(c) PROVE UNCHANGED users
  BY <1>9 DEF MemberStep, Logout, RevokeSession, EndSession, SwitchContext, SwitchCheck, SwitchWrite,
     AcceptInvitation, WithdrawInvitation, InviteMember, UpdateMemberRole, SetMemberActive, RemoveMember,
     ChangeMember, TransferOwnership, accounts
<1>10. ASSUME \/ \E c \in Clients : Abandon(c)
              \/ \E t \in Tokens : Refresh(t)
              \/ \E s \in Sessions : Expire(s)
              \/ UNCHANGED vars
      PROVE  UNCHANGED users
  BY <1>10 DEF Abandon, Refresh, Expire, accounts, vars
<1> QED
  BY <1>1, <1>2, <1>3, <1>4, <1>5, <1>6, <1>7, <1>8, <1>9, <1>10 DEF Next

\* An invitation is there already, or is made by an owner who acts.
LEMMA InvitationMoves ==
  ASSUME TypeInv, [Next]_vars, NEW i \in Invitations, invitations'[i].state # "ABSENT"
  PROVE  \/ /\ invitations[i].state # "ABSENT" /\ invitations'[i].org = invitations[i].org
            /\ invitations'[i].role = invitations[i].role
         \/ \E c \in Clients : /\ At(c, "ACT") /\ invitations'[i].org = clients[c].org
                               /\ invitations'[i].role \in Assignable
<1> DEFINE Same == /\ invitations[i].state # "ABSENT" /\ invitations'[i].org = invitations[i].org
                   /\ invitations'[i].role = invitations[i].role
<1>0. invitations[i] \in InvitationRows
  BY DEF TypeInv, TypeOK
<1>1. CASE UNCHANGED invitations
  BY <1>1
<1>2. ASSUME NEW j \in Invitations, Join(j) PROVE Same
  BY <1>2 DEF Join, TypeInv, TypeOK, InvitationRows
<1>3. ASSUME NEW c \in Clients, NEW d, NEW r, SendInvitation(c, d, r) PROVE Same
  BY <1>3 DEF SendInvitation, TypeInv, TypeOK, InvitationRows
<1>4. ASSUME NEW c \in Clients, WithdrawInvitation(c) PROVE Same
  <2>1. CASE clients[c].ref = i
    <3>1. PICK state : /\ invitations' = [invitations EXCEPT ![i].state = state]
                       /\ invitations[i].state = "ABSENT" => state = "ABSENT"
      BY <1>4, <2>1 DEF WithdrawInvitation
    <3> QED
      BY <3>1 DEF TypeInv, TypeOK, InvitationRows
  <2>2. CASE clients[c].ref # i
    <3>1. invitations'[i] = invitations[i]
      BY <1>4, <2>2 DEF WithdrawInvitation, TypeInv, TypeOK
    <3> QED
      BY <3>1
  <2> QED
    BY <2>1, <2>2
<1>5. ASSUME NEW c \in Clients, NEW u \in Users, NEW role \in Assignable, InviteMember(c, u, role)
      PROVE  \/ Same
             \/ At(c, "ACT") /\ invitations'[i].org = clients[c].org /\ invitations'[i].role \in Assignable
  <2>1. PICK j \in Invitations : invitations' = Invited(j, clients[c].org, u, role)
    BY <1>5, FreshRows DEF InviteMember, TypeInv, TypeOK
  <2>2. At(c, "ACT")
    BY <1>5 DEF InviteMember, ActsAsOwner
  <2>3. CASE i = j
    BY <2>1, <2>2, <2>3 DEF Invited
  <2>4. CASE i # j
    <3>1. invitations'[i] \in {invitations[i], [invitations[i] EXCEPT !.state = "REVOKED"]}
          /\ (invitations[i].state # "OPEN" => invitations'[i] = invitations[i])
      BY <2>1, <2>4 DEF Invited
    <3> QED
      BY <1>0, <3>1 DEF InvitationRows
  <2> QED
    BY <2>3, <2>4
<1>6. ASSUME NEW c \in Clients, PublicRequest(c) PROVE UNCHANGED invitations \/ \E j \in Invitations : Join(j)
  BY <1>6 DEF PublicRequest, Register, Login, RequestEmailVerification, RequestPasswordReset,
     RequestLink, VerifyEmail, ResetPassword, ConsumeLink, RegisterFromInvitation, Authenticate, accounts
<1>7. ASSUME NEW c \in Clients, PublicStep(c) PROVE UNCHANGED invitations \/ \E d, r : SendInvitation(c, d, r)
  BY <1>7 DEF PublicStep, SupersedeLinks, InsertLink, RollbackRegistration, SendLink,
     MarkVerified, UpdatePassword, ReadMembership, OpenSession, accounts
<1>8. ASSUME NEW c \in Clients, MemberStep(c)
      PROVE  \/ UNCHANGED invitations \/ \E j \in Invitations : Join(j)
             \/ WithdrawInvitation(c) \/ \E u \in Users, role \in Assignable : InviteMember(c, u, role)
  BY <1>8 DEF MemberStep, Logout, RevokeSession, EndSession, SwitchContext, SwitchCheck, SwitchWrite,
     AcceptInvitation, UpdateMemberRole, SetMemberActive, RemoveMember, ChangeMember, TransferOwnership, accounts
<1>9. ASSUME \/ \E c \in Clients : Abandon(c)
             \/ \E t \in Tokens : Refresh(t)
             \/ \E s \in Sessions : Expire(s)
             \/ \E u \in Users : BootstrapDemo(u)
             \/ UNCHANGED vars
      PROVE  UNCHANGED invitations
  BY <1>9 DEF Abandon, Refresh, Expire, BootstrapDemo, accounts, vars
<1> QED
  BY <1>1, <1>2, <1>3, <1>4, <1>5, <1>6, <1>7, <1>8, <1>9 DEF Next

\* One action at a time: a workspace that has one owner keeps one, and a workspace
\* that is founded, or was already, has one.
LEMMA OwnerStep ==
  ASSUME TypeInv, WorkspaceInv, [Next]_vars, NEW o \in Users
  PROVE  /\ HasOneOwner(o) => HasOneOwner(o)'
         /\ o \in Founded' => HasOneOwner(o)' /\ users'[o].status # "ABSENT"
<1>0. /\ o \in Founded => HasOneOwner(o) /\ users[o].status # "ABSENT"
      /\ HasOneOwner(o) => o \in Founded
  BY DEF WorkspaceInv, HasOneOwner, Founded, IsMember
<1>1. CASE UNCHANGED members
  <2>1. HasOneOwner(o)' = HasOneOwner(o) /\ Founded' = Founded
    BY <1>1 DEF HasOneOwner, Founded, IsMember
  <2> QED
    BY <1>0, <2>1, UsersStay
<1>2. ASSUME NEW u \in Users, NEW status \in {"PENDING", "ACTIVE"}, NEW demo \in BOOLEAN,
             users[u].status = "ABSENT", FoundWorkspace(u, status, demo)
      PROVE  /\ HasOneOwner(o) => HasOneOwner(o)'
             /\ o \in Founded' => HasOneOwner(o)' /\ users'[o].status # "ABSENT"
  <2>1. members' = [members EXCEPT ![u][u] = [role |-> "OWNER", active |-> TRUE]]
    BY <1>2 DEF FoundWorkspace
  <2>2. CASE o = u
    <3>1. \A v \in Users : members[o][v].role = "NONE"
      BY <1>0, <1>2, <2>2 DEF Founded, IsMember
    <3>2. /\ members'[o][o] = [role |-> "OWNER", active |-> TRUE]
          /\ \A v \in Users \ {o} : members'[o][v] = members[o][v]
      BY <2>1, <2>2 DEF TypeInv, TypeOK
    <3>3. HasOneOwner(o)'
      BY <3>1, <3>2 DEF HasOneOwner
    <3>4. users'[o].status = status
      BY <1>2, <2>2 DEF FoundWorkspace, TypeInv, TypeOK, UserRows
    <3> QED
      BY <3>3, <3>4
  <2>3. CASE o # u
    <3>1. members'[o] = members[o]
      BY <2>1, <2>3 DEF TypeInv, TypeOK
    <3>2. HasOneOwner(o)' = HasOneOwner(o) /\ (o \in Founded' <=> o \in Founded)
      BY <3>1 DEF HasOneOwner, Founded, IsMember
    <3> QED
      BY <1>0, <3>2, UsersStay
  <2> QED
    BY <2>2, <2>3
<1>3. ASSUME NEW i \in Invitations, Join(i)
      PROVE  /\ HasOneOwner(o) => HasOneOwner(o)'
             /\ o \in Founded' => HasOneOwner(o)' /\ users'[o].status # "ABSENT"
  <2> DEFINE p == invitations[i].org
             u == invitations[i].user
             role == invitations[i].role
  <2>1. p \in Users /\ u \in Users /\ p \in Founded /\ role # "OWNER" /\ ~IsMember(p, u)
    BY <1>3 DEF Join, WorkspaceInv, TypeInv, TypeOK, InvitationRows
  <2>2. members' = [members EXCEPT ![p][u] = [role |-> role, active |-> TRUE]]
    BY <1>3 DEF Join
  <2> HIDE DEF p, u, role
  <2>3. /\ members'[p][u].role # "OWNER"
        /\ \A q, v \in Users : ~(q = p /\ v = u) => members'[q][v] = members[q][v]
    BY <2>1, <2>2 DEF TypeInv, TypeOK
  <2>4. HasOneOwner(o) => HasOneOwner(o)'
    BY <2>1, <2>3 DEF HasOneOwner, IsMember
  <2>5. o \in Founded' => o \in Founded
    BY <2>1, <2>3 DEF Founded, IsMember
  <2> QED
    BY <1>0, <2>4, <2>5, UsersStay
<1>4. ASSUME NEW c \in Clients, NEW u \in Users, NEW row \in MemberRows, row.role # "OWNER", ChangeMember(c, u, row)
      PROVE  /\ HasOneOwner(o) => HasOneOwner(o)'
             /\ o \in Founded' => HasOneOwner(o)' /\ users'[o].status # "ABSENT"
  <2> DEFINE p == clients[c].org
  <2>1. p \in Users /\ members[p][u].role # "OWNER" /\ IsMember(p, u)
    BY <1>4 DEF ChangeMember, TypeInv, TypeOK, Requests
  <2>2. members' = [members EXCEPT ![p][u] = row]
    BY <1>4 DEF ChangeMember
  <2> HIDE DEF p
  <2>3. /\ members'[p][u] = row
        /\ \A q, v \in Users : ~(q = p /\ v = u) => members'[q][v] = members[q][v]
    BY <2>1, <2>2 DEF TypeInv, TypeOK
  <2>4. HasOneOwner(o) => HasOneOwner(o)'
    BY <1>4, <2>1, <2>3 DEF HasOneOwner
  <2>5. o \in Founded' => o \in Founded
    BY <2>1, <2>3 DEF Founded, IsMember
  <2> QED
    BY <1>0, <2>4, <2>5, UsersStay
<1>5. ASSUME NEW c \in Clients, NEW u \in Users, TransferOwnership(c, u)
      PROVE  /\ HasOneOwner(o) => HasOneOwner(o)'
             /\ o \in Founded' => HasOneOwner(o)' /\ users'[o].status # "ABSENT"
  <2> DEFINE p == clients[c].org
             owner == clients[c].user
  <2>1. /\ p \in Users /\ owner \in Users /\ u # owner
        /\ members[p][owner].role = "OWNER" /\ IsActiveMember(p, u)
    BY <1>5 DEF TransferOwnership, MayBecomeOwner, TypeInv, TypeOK, Requests
  <2>2. \A q, v \in Users :
          /\ q = p /\ v = owner => members'[q][v].role = "TENANT_ADMIN"
          /\ q = p /\ v = u => /\ members'[q][v].role = "OWNER"
                               /\ members'[q][v].active = members[q][v].active
          /\ q # p \/ v \notin {owner, u} => members'[q][v] = members[q][v]
    BY <1>5, TransferEffect
  <2> HIDE DEF p, owner
  <2>3. CASE o = p
    <3>1. HasOneOwner(o)
      BY <1>0, <2>1, <2>3 DEF Founded, IsMember
    <3>2. \A v \in Users \ {owner} : members[o][v].role # "OWNER"
      BY <2>1, <2>3, <3>1 DEF HasOneOwner
    <3>3. members'[o][u].role = "OWNER" /\ members'[o][u].active
      BY <2>1, <2>2, <2>3 DEF IsActiveMember
    <3>4. \A v \in Users \ {u} : members'[o][v].role # "OWNER"
      BY <2>1, <2>2, <2>3, <3>2
    <3> QED
      BY <1>0, <3>1, <3>3, <3>4, UsersStay DEF HasOneOwner
  <2>4. CASE o # p
    <3>1. \A v \in Users : members'[o][v] = members[o][v]
      BY <2>2, <2>4
    <3>2. (HasOneOwner(o) => HasOneOwner(o)') /\ (o \in Founded' => o \in Founded)
      BY <3>1 DEF HasOneOwner, Founded, IsMember
    <3> QED
      BY <1>0, <3>2, UsersStay
  <2> QED
    BY <2>3, <2>4
<1> QED
  BY <1>1, <1>2, <1>3, <1>4, <1>5, MemberKinds

LEMMA WorkspaceStep == TypeInv /\ WorkspaceInv /\ [Next]_vars => WorkspaceInv'
<1> SUFFICES ASSUME TypeInv, WorkspaceInv, [Next]_vars PROVE WorkspaceInv'
  OBVIOUS
<1>1. ASSUME NEW o \in Founded' PROVE users'[o].status # "ABSENT" /\ HasOneOwner(o)'
  BY <1>1, OwnerStep DEF Founded
<1>2. ASSUME NEW o \in Founded PROVE o \in Founded'
  <2>1. o \in Users /\ HasOneOwner(o)'
    BY OwnerStep DEF WorkspaceInv, Founded
  <2> QED
    BY <2>1 DEF HasOneOwner, Founded, IsMember
<1>3. ASSUME NEW i \in Invitations, invitations'[i].state # "ABSENT"
      PROVE  invitations'[i].org \in Founded' /\ invitations'[i].role \in Assignable
  BY <1>2, <1>3, InvitationMoves DEF WorkspaceInv
<1>4. ASSUME NEW c \in Clients, clients'[c].pc = "ACT" PROVE clients'[c].org \in Founded'
  <2>1. (clients[c].pc = "ACT" /\ clients'[c] = clients[c]) \/ clients'[c].org \in Founded
    BY <1>4, ClientStep DEF ClientMoves, Acting
  <2> QED
    BY <1>2, <2>1 DEF WorkspaceInv, At
<1> QED
  BY <1>1, <1>3, <1>4 DEF WorkspaceInv, At

\* Whatever owners that act on an authentication of some time ago do, a workspace
\* keeps exactly one owner, and that one is active: the owner's membership is
\* changed by a transfer alone, and a transfer is to an active member.
THEOREM WorkspacesHaveOneOwner == Spec => []OneOwner
<1>1. Init => WorkspaceInv
  BY IdleType DEF Init, WorkspaceInv, Founded, IsMember, NoMember, At
<1>2. TypeInv /\ WorkspaceInv => OneOwner
  <2> SUFFICES ASSUME TypeInv, NEW o \in Founded, NEW u \in Users, members[o][u].role = "OWNER", members[o][u].active
               PROVE  members[o][u] = [role |-> "OWNER", active |-> TRUE]
    BY DEF WorkspaceInv, HasOneOwner, OneOwner
  <2>1. members[o][u] \in [role : Roles \cup {"NONE"}, active : BOOLEAN]
    BY MemberRole DEF TypeInv, Founded, MemberRows
  <2> QED
    BY <2>1
<1> QED
  BY <1>1, <1>2, WorkspaceStep, TypeInductive, PTL DEF Spec

=============================================================================
