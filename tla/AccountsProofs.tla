---------------------------- MODULE AccountsProofs ----------------------------
(***************************************************************************)
(* Theorems of Accounts, for any accounts and any number of requests under *)
(* way: no step locks the last superadmin out, and nobody raises an        *)
(* account or changes one above them, but by what they read before it      *)
(* changed, and while it is invited and any Admin may invite it again.     *)
(*                                                                         *)
(* Two facts make the properties inductive.  BootstrapAdmin raises an      *)
(* account without looking at its overrides or at the requests, which is   *)
(* sound because it only does so for the only account there is: OthersExist *)
(* says that then nobody can be managing it.  And ReadAsLed keeps, from    *)
(* the decision to the transaction, what the decision was taken from.      *)
(*                                                                         *)
(* And of Sessions, the logins of one of these accounts, for any number of *)
(* attempts, sessions, links and passwords and any limits.  Its properties *)
(* follow once the logins that are verified and have no session yet count  *)
(* like sessions, and those admitted that may still fail like failures.    *)
(***************************************************************************)
EXTENDS Accounts, Sessions, FiniteSetTheorems, TLAPS

OthersExist ==
    /\ \A r \in Requests, u \in Users :
          u \in requests[r].target => \E v \in Users \ {u} : Exists(v)
    /\ \A u \in Users : users[u].overrides => \E v \in Users \ {u} : Exists(v)

ReadAsLed ==
    \A r \in Requests, u \in Users :
        u \in requests[r].target => requests[r].leads \/ requests[r].stale \/ ~Elevated(users[u])

IInv == AccountsSound /\ OthersExist /\ ReadAsLed

UserType == [status : Statuses \cup {"absent"}, role : Roles, password : BOOLEAN,
             overrides : BOOLEAN, invitations : Nat]
RequestType == [step : {"idle", "update", "permit", "invite"}, leads : BOOLEAN,
                target : {{}} \cup {{u} : u \in Users}, invited : BOOLEAN, stale : BOOLEAN]

\* A request goes on as it was, but what it read may have become old.
GoesOn(q, u) ==
    /\ requests'[q].step = requests[q].step
    /\ requests'[q].target = requests[q].target
    /\ requests'[q].leads = requests[q].leads
    /\ requests[q].stale => requests'[q].stale
    /\ u \in requests[q].target => requests'[q].stale

LEMMA TypesOf ==
  ASSUME IInv
  PROVE  /\ users \in [Users -> UserType] /\ requests \in [Requests -> RequestType]
         /\ crossed \subseteq Users
BY DEF IInv, AccountsSound, TypeOK, UserType, RequestType

LEMMA InitIInv == Init => IInv
BY DEF Init, IInv, AccountsSound, TypeOK, OverridesAreUsers, OneInvitation, OthersExist, ReadAsLed,
       Absent, Idle, Statuses, Roles, Exists, Elevated

----------------------------------------------------------------------------
(* Rows that several columns of are written *)

LEMMA Invited ==
  ASSUME NEW user \in UserType, NEW newStatus \in Statuses, NEW role \in Roles,
         NEW overrides \in BOOLEAN, NEW n \in Nat
  PROVE  [user EXCEPT !.status = newStatus, !.role = role, !.overrides = overrides,
                       !.invitations = n] \in UserType
BY DEF UserType

LEMMA Bootstrapped ==
  ASSUME NEW user \in UserType, NEW newStatus \in Statuses, NEW role \in Roles, NEW n \in Nat
  PROVE  [user EXCEPT !.status = newStatus, !.role = role, !.invitations = n] \in UserType
BY DEF UserType

LEMMA Accepted ==
  ASSUME NEW user \in UserType, NEW newStatus \in Statuses, NEW chosen \in BOOLEAN, NEW n \in Nat
  PROVE  [user EXCEPT !.status = newStatus, !.password = chosen, !.invitations = n] \in UserType
BY DEF UserType

----------------------------------------------------------------------------
(* What the handlers' steps do to the rows and to the other requests *)

LEMMA Changed ==
  ASSUME IInv, NEW u \in Users, NEW user \in UserType, Change(u, user)
  PROVE  /\ users' \in [Users -> UserType] /\ users'[u] = user
         /\ \A v \in Users \ {u} : users'[v] = users[v]
BY TypesOf DEF Change

LEMMA Ended ==
  ASSUME IInv, NEW r \in Requests, NEW u \in Users, EndChanging(r, u)
  PROVE  /\ requests' \in [Requests -> RequestType] /\ requests'[r] = Idle
         /\ \A q \in Requests \ {r} : GoesOn(q, u)
<1>1. \A q \in Requests :
        [requests[q] EXCEPT !.stale = requests[q].stale \/ u \in requests[q].target] \in RequestType
  BY TypesOf DEF RequestType
<1>2. Idle \in RequestType
  BY DEF Idle, RequestType
<1>3. requests' \in [Requests -> RequestType] /\ requests'[r] = Idle
  BY <1>1, <1>2 DEF EndChanging
<1>4. ASSUME NEW q \in Requests \ {r} PROVE GoesOn(q, u)
  <2>1. requests'[q] = [requests[q] EXCEPT !.stale = requests[q].stale \/ u \in requests[q].target]
    BY <1>4 DEF EndChanging
  <2>2. requests[q] \in RequestType
    BY TypesOf
  <2> QED
    BY <2>1, <2>2 DEF GoesOn, RequestType
<1> QED
  BY <1>3, <1>4

\* One row changes, and every request but those that end goes on.
LEMMA RowChanges ==
  ASSUME IInv, NEW u \in Users, NEW user \in UserType, Change(u, user), user.status # "absent",
         requests' \in [Requests -> RequestType],
         \A q \in Requests : requests'[q] = Idle \/ GoesOn(q, u),
         crossed' \subseteq Users, crossed \ {u} \subseteq crossed',
         Elevated(user) /\ user.overrides => u \in crossed',
         user.invitations <= 1,
         user.overrides => \E v \in Users \ {u} : Exists(v)
  PROVE  IInv'
<1>1. /\ users \in [Users -> UserType] /\ users' \in [Users -> UserType] /\ users'[u] = user
      /\ \A v \in Users \ {u} : users'[v] = users[v]
  BY TypesOf, Changed
<1>2. \A v \in Users : Exists(v) => users'[v].status # "absent"
  BY <1>1 DEF Exists
<1>3. \A q \in Requests, v \in Users : v \in requests'[q].target =>
         /\ GoesOn(q, u) /\ v \in requests[q].target
  BY DEF GoesOn, Idle
<1>4. TypeOK'
  <2>1. \A q \in Requests, v \in Users : v \in requests'[q].target =>
          users'[v].status # "absent" /\ requests'[q].step \in {"update", "permit"}
    BY <1>2, <1>3 DEF IInv, AccountsSound, TypeOK, GoesOn
  <2>2. \A v \in Users : users'[v].status = "absent" => users'[v] = Absent
    BY <1>1 DEF IInv, AccountsSound, TypeOK, Exists
  <2> QED
    BY <1>1, <2>1, <2>2 DEF TypeOK, Exists, UserType, RequestType
<1>5. OverridesAreUsers' /\ OneInvitation'
  BY <1>1 DEF IInv, AccountsSound, OverridesAreUsers, OneInvitation, Elevated
<1>6. OthersExist'
  <2>1. ASSUME NEW q \in Requests, NEW v \in Users, v \in requests'[q].target
        PROVE  \E x \in Users \ {v} : users'[x].status # "absent"
    BY <1>2, <1>3, <2>1 DEF IInv, OthersExist
  <2>2. ASSUME NEW v \in Users, users'[v].overrides
        PROVE  \E x \in Users \ {v} : users'[x].status # "absent"
    <3>1. \E x \in Users \ {v} : Exists(x)
      BY <1>1, <2>2 DEF IInv, OthersExist
    <3> QED
      BY <1>2, <3>1
  <2> QED
    BY <2>1, <2>2 DEF OthersExist, Exists
<1>7. ReadAsLed'
  <2>1. ASSUME NEW q \in Requests, NEW v \in Users, v \in requests'[q].target
        PROVE  requests'[q].leads \/ requests'[q].stale \/ ~Elevated(users'[v])
    <3>1. GoesOn(q, u) /\ v \in requests[q].target
      BY <1>3, <2>1
    <3>2. CASE v = u
      BY <3>1, <3>2 DEF GoesOn
    <3>3. CASE v # u
      BY <1>1, <3>1, <3>3 DEF GoesOn, IInv, ReadAsLed, Elevated
    <3> QED
      BY <3>2, <3>3
  <2> QED
    BY <2>1 DEF ReadAsLed, Elevated
<1> QED
  BY <1>4, <1>5, <1>6, <1>7 DEF IInv, AccountsSound

----------------------------------------------------------------------------
(* The steps *)

\* A request begins, with what it read, or ends before its transaction.
LEMMA RequestStep ==
  ASSUME IInv, NEW r \in Requests, StartUpdate(r) \/ StartInvite(r) \/ EndEarly(r)
  PROVE  IInv'
<1>1. UNCHANGED <<users, crossed>>
  BY DEF StartUpdate, StartInvite, EndEarly
<1>2. PICK request \in RequestType :
        /\ requests' = [requests EXCEPT ![r] = request]
        /\ \A u \in request.target :
              /\ request.step \in {"update", "permit"}
              /\ Exists(u)
              /\ request.leads \/ ~Elevated(users[u])
              /\ \E v \in Users \ {u} : Exists(v)
  <2>1. CASE StartUpdate(r)
    <3>1. PICK actor \in Users, target \in Users, step \in {"update", "permit"} :
            /\ Active(actor) /\ Found(target) /\ CanManageAccount(actor, target)
            /\ Begin(r, [Idle EXCEPT !.step = step, !.leads = IsSuperAdmin(actor), !.target = {target},
                                     !.invited = step = "update" /\ users[target].status = "invited"])
      BY <2>1 DEF StartUpdate
    <3> DEFINE request == [Idle EXCEPT !.step = step, !.leads = IsSuperAdmin(actor), !.target = {target},
                                       !.invited = step = "update" /\ users[target].status = "invited"]
    <3>2. /\ request \in RequestType /\ request.step = step /\ request.target = {target}
          /\ request.leads = IsSuperAdmin(actor)
      BY DEF Idle, RequestType, IsSuperAdmin
    <3>3. actor # target /\ Exists(actor) /\ Exists(target)
      BY <3>1 DEF CanManageAccount, Active, Exists, Found
    <3>4. IsSuperAdmin(actor) \/ ~Elevated(users[target])
      BY <3>1 DEF CanManageAccount
    <3>5. requests' = [requests EXCEPT ![r] = request]
      BY <3>1 DEF Begin
    <3> HIDE DEF request
    <3> QED
      BY <3>2, <3>3, <3>4, <3>5
  <2>2. CASE StartInvite(r)
    <3>1. PICK actor \in Users :
            requests' = [requests EXCEPT ![r] = [Idle EXCEPT !.step = "invite", !.leads = IsSuperAdmin(actor)]]
      BY <2>2 DEF StartInvite, Begin
    <3> DEFINE request == [Idle EXCEPT !.step = "invite", !.leads = IsSuperAdmin(actor)]
    <3>2. request \in RequestType /\ request.target = {}
      BY DEF Idle, RequestType, IsSuperAdmin
    <3> QED
      BY <3>1, <3>2
  <2>3. CASE EndEarly(r)
    <3>1. Idle \in RequestType /\ Idle.target = {}
      BY DEF Idle, RequestType
    <3> QED
      BY <2>3, <3>1 DEF EndEarly, End
  <2> QED
    BY <2>1, <2>2, <2>3
<1>3. /\ requests' \in [Requests -> RequestType] /\ requests'[r] = request
      /\ \A q \in Requests \ {r} : requests'[q] = requests[q]
  BY <1>2, TypesOf
<1>4. TypeOK'
  BY <1>1, <1>2, <1>3 DEF IInv, AccountsSound, TypeOK, Exists, RequestType
<1>5. OverridesAreUsers' /\ OneInvitation'
  BY <1>1 DEF IInv, AccountsSound, OverridesAreUsers, OneInvitation, Elevated
<1>6. OthersExist'
  BY <1>1, <1>2, <1>3 DEF IInv, OthersExist, Exists
<1>7. ReadAsLed'
  BY <1>1, <1>2, <1>3 DEF IInv, ReadAsLed, Elevated
<1> QED
  BY <1>4, <1>5, <1>6, <1>7 DEF IInv, AccountsSound

\* What a request with a target finds: the account, and another one.
LEMMA TargetExists ==
  ASSUME IInv, NEW r \in Requests, NEW u \in requests[r].target
  PROVE  u \in Users /\ requests[r].target = {u} /\ Exists(u) /\ \E v \in Users \ {u} : Exists(v)
<1>1. u \in Users /\ requests[r].target = {u}
  BY TypesOf DEF RequestType
<1> QED
  BY <1>1 DEF IInv, AccountsSound, TypeOK, OthersExist

LEMMA UpdateStep == ASSUME IInv, NEW r \in Requests, UpdateAccess(r) PROVE IInv'
<1>1. PICK u \in requests[r].target, newStatus \in Statuses, role \in Roles :
        LET kept == KeptOverrides(users[u], role)
        IN  /\ Change(u, [users[u] EXCEPT !.status = newStatus, !.role = role, !.overrides = kept])
            /\ crossed' = IF kept THEN crossed ELSE crossed \ {u}
            /\ EndChanging(r, u)
  BY DEF UpdateAccess
<1> DEFINE kept == KeptOverrides(users[u], role)
           user == [users[u] EXCEPT !.status = newStatus, !.role = role, !.overrides = kept]
<1>2. u \in Users /\ \E v \in Users \ {u} : Exists(v)
  BY TargetExists
<1>3. users[u] \in UserType /\ kept \in BOOLEAN
  BY <1>2, TypesOf DEF KeptOverrides, UserType
<1>4. /\ user \in UserType /\ user.status = newStatus /\ user.role = role /\ user.overrides = kept
      /\ user.invitations = users[u].invitations
  BY <1>3 DEF UserType
<1>5. user.status # "absent" /\ user.invitations <= 1
  BY <1>2, <1>4 DEF Statuses, IInv, AccountsSound, OneInvitation
<1>6. Elevated(user) /\ user.overrides => u \in crossed'
  BY <1>1, <1>2, <1>4 DEF KeptOverrides, Elevated, IInv, AccountsSound, OverridesAreUsers
<1>7. Change(u, user) /\ EndChanging(r, u) /\ crossed \ {u} \subseteq crossed' /\ crossed' \subseteq Users
  BY <1>1, TypesOf
<1>8. /\ requests' \in [Requests -> RequestType]
      /\ \A q \in Requests : requests'[q] = Idle \/ GoesOn(q, u)
  BY <1>2, <1>7, Ended
<1> HIDE DEF user, kept
<1> QED
  BY <1>2, <1>4, <1>5, <1>6, <1>7, <1>8, RowChanges

LEMMA PermitStep == ASSUME IInv, NEW r \in Requests, SetPermissionOverrides(r) PROVE IInv'
<1>1. PICK u \in requests[r].target :
        /\ Change(u, [users[u] EXCEPT !.overrides = TRUE])
        /\ crossed' = IF Elevated(users[u]) THEN crossed \cup {u} ELSE crossed
        /\ EndChanging(r, u)
  BY DEF SetPermissionOverrides
<1> DEFINE user == [users[u] EXCEPT !.overrides = TRUE]
<1>2. u \in Users /\ Exists(u) /\ \E v \in Users \ {u} : Exists(v)
  BY TargetExists
<1>3. /\ user \in UserType /\ user.status = users[u].status /\ user.role = users[u].role
      /\ user.invitations = users[u].invitations
  BY <1>2, TypesOf DEF UserType
<1>4. user.status # "absent" /\ user.invitations <= 1
  BY <1>2, <1>3 DEF Exists, IInv, AccountsSound, OneInvitation
<1>5. /\ Elevated(user) /\ user.overrides => u \in crossed'
      /\ crossed \ {u} \subseteq crossed' /\ crossed' \subseteq Users
  BY <1>1, <1>2, <1>3, TypesOf DEF Elevated
<1>6. /\ requests' \in [Requests -> RequestType]
      /\ \A q \in Requests : requests'[q] = Idle \/ GoesOn(q, u)
  BY <1>1, <1>2, Ended
<1> HIDE DEF user
<1>7. Change(u, user)
  BY <1>1 DEF user
<1> QED
  BY <1>2, <1>3, <1>4, <1>5, <1>6, <1>7, RowChanges

LEMMA InviteStep == ASSUME IInv, NEW r \in Requests, CreateManagedInvitation(r) PROVE IInv'
<1>1. PICK u \in Users, role \in Roles :
        /\ Change(u, [users[u] EXCEPT !.status = "invited", !.role = role, !.overrides = FALSE,
                                      !.invitations = LinksLeft(u) + 1])
        /\ crossed' = crossed \ {u}
        /\ EndChanging(r, u)
  BY DEF CreateManagedInvitation
<1> DEFINE user == [users[u] EXCEPT !.status = "invited", !.role = role, !.overrides = FALSE,
                                    !.invitations = LinksLeft(u) + 1]
<1>2. users[u] \in UserType /\ LinksLeft(u) + 1 = 1
  BY TypesOf DEF LinksLeft
<1>3. /\ user \in UserType /\ user.status = "invited" /\ ~user.overrides /\ user.invitations = 1
  <2>1. "invited" \in Statuses /\ FALSE \in BOOLEAN /\ LinksLeft(u) + 1 \in Nat
    BY <1>2 DEF Statuses
  <2>2. user \in UserType
    BY <1>2, <2>1, Invited, Zenon
  <2>3. user.status = "invited" /\ user.overrides = FALSE /\ user.invitations = LinksLeft(u) + 1
    BY <1>2 DEF UserType
  <2> QED
    BY <1>2, <2>2, <2>3
<1>4. /\ requests' \in [Requests -> RequestType]
      /\ \A q \in Requests : requests'[q] = Idle \/ GoesOn(q, u)
  BY <1>1, Ended
<1>5. Change(u, user) /\ crossed \ {u} \subseteq crossed' /\ crossed' \subseteq Users
  BY <1>1, TypesOf
<1> HIDE DEF user
<1> QED
  BY <1>3, <1>4, <1>5, RowChanges

LEMMA LinkStep == ASSUME IInv, NEW u \in Users, AcceptInvitation(u) \/ InvitationExpires(u) PROVE IInv'
<1>1. PICK user \in UserType :
        /\ Change(u, user) /\ user.status # "absent" /\ user.invitations <= 1
        /\ user.role = users[u].role /\ user.overrides = users[u].overrides
        /\ InvitationExpires(u) => user.status = users[u].status
  <2>1. users[u] \in UserType /\ users[u].invitations \in {0, 1}
    BY TypesOf DEF UserType, IInv, AccountsSound, OneInvitation
  <2>2. CASE AcceptInvitation(u)
    <3> DEFINE user == [users[u] EXCEPT !.status = "active", !.password = TRUE, !.invitations = 0]
    <3>1. /\ user \in UserType /\ user.status = "active" /\ user.invitations = 0
          /\ user.role = users[u].role /\ user.overrides = users[u].overrides
      BY <2>1 DEF UserType, Statuses
    <3>2. Change(u, user)
      BY <2>2 DEF AcceptInvitation
    <3>3. users[u].status = "invited"
      BY <2>2 DEF AcceptInvitation, Acceptable
    <3>4. InvitationExpires(u) => users[u].status = "active"
      BY <2>1, <3>1, <3>2, TypesOf DEF InvitationExpires, Change, UserType
    <3> HIDE DEF user
    <3> QED
      BY <3>1, <3>2, <3>3, <3>4
  <2>3. CASE InvitationExpires(u)
    <3> DEFINE user == [users[u] EXCEPT !.invitations = users[u].invitations - 1]
    <3>1. users[u].invitations = 1
      BY <2>1, <2>3 DEF InvitationExpires
    <3>2. /\ user \in UserType /\ user.status = users[u].status /\ user.invitations = 0
          /\ user.role = users[u].role /\ user.overrides = users[u].overrides
      BY <2>1, <3>1 DEF UserType
    <3>3. Change(u, user)
      BY <2>3 DEF InvitationExpires
    <3>4. users[u].status # "absent"
      BY <3>1 DEF IInv, AccountsSound, TypeOK, Exists, Absent
    <3> HIDE DEF user
    <3> QED
      BY <3>2, <3>3, <3>4
  <2> QED
    BY <2>2, <2>3
<1>2. crossed' = crossed
  BY DEF AcceptInvitation, InvitationExpires
<1>3. /\ users \in [Users -> UserType] /\ users' \in [Users -> UserType] /\ users'[u] = user
      /\ \A v \in Users \ {u} : users'[v] = users[v]
  BY <1>1, TypesOf, Changed
<1>4. /\ requests' \in [Requests -> RequestType]
      /\ \A q \in Requests : /\ requests'[q].step = requests[q].step
                             /\ requests'[q].target = requests[q].target
                             /\ requests'[q].leads = requests[q].leads
                             /\ requests[q].stale => requests'[q].stale
  <2>1. CASE UNCHANGED requests
    BY <2>1, TypesOf
  <2>2. CASE requests' = [q \in Requests |->
               [requests[q] EXCEPT !.stale = requests[q].stale \/ u \in requests[q].target]]
    <3>1. ASSUME NEW q \in Requests
          PROVE  /\ requests[q] \in RequestType
                 /\ requests'[q] = [requests[q] EXCEPT !.stale = requests[q].stale \/ u \in requests[q].target]
      BY <2>2, TypesOf
    <3>2. \A q \in Requests : requests'[q] \in RequestType
      BY <3>1 DEF RequestType
    <3>3. requests' \in [Requests -> RequestType]
      BY <2>2, <3>2
    <3> QED
      BY <3>1, <3>3 DEF RequestType
  <2> QED
    BY <2>1, <2>2 DEF AcceptInvitation, InvitationExpires
<1>5. TypeOK'
  <2>1. /\ crossed' \subseteq Users /\ users'[u].status # "absent"
        /\ \A v \in Users : Exists(v) => users'[v].status # "absent"
    BY <1>1, <1>2, <1>3, TypesOf DEF Exists
  <2>2. \A q \in Requests, v \in Users : v \in requests'[q].target =>
          users'[v].status # "absent" /\ requests'[q].step \in {"update", "permit"}
    BY <1>4, <2>1 DEF IInv, AccountsSound, TypeOK
  <2>3. \A v \in Users : users'[v].status = "absent" => users'[v] = Absent
    BY <1>3, <2>1 DEF IInv, AccountsSound, TypeOK, Exists
  <2> QED
    BY <1>3, <1>4, <2>1, <2>2, <2>3 DEF TypeOK, Exists, UserType, RequestType
<1>6. OverridesAreUsers' /\ OneInvitation'
  BY <1>1, <1>2, <1>3 DEF IInv, AccountsSound, OverridesAreUsers, OneInvitation, Elevated
<1>7. OthersExist'
  BY <1>1, <1>3, <1>4 DEF IInv, OthersExist, Exists
<1>8. ReadAsLed'
  BY <1>1, <1>3, <1>4 DEF IInv, ReadAsLed, Elevated
<1> QED
  BY <1>5, <1>6, <1>7, <1>8 DEF IInv, AccountsSound

\* The bootstrap meets no request and no overrides: there is no other account.
LEMMA BootstrapStep == ASSUME IInv, NEW u \in Users, BootstrapAdmin(u) PROVE IInv'
<1> DEFINE user == [users[u] EXCEPT !.status = "invited", !.role = "super_admin",
                                    !.invitations = users[u].invitations + 1]
<1>1. users[u].invitations = 0 /\ \A v \in Users \ {u} : ~Exists(v)
  BY DEF BootstrapAdmin, IInv, AccountsSound, TypeOK, Absent
<1>2. users[u].overrides = FALSE
  BY <1>1, TypesOf DEF IInv, OthersExist, UserType
<1>3. users[u] \in UserType
  BY TypesOf
<1>4. user \in UserType /\ user.status = "invited" /\ ~user.overrides /\ user.invitations = 1
  <2>1. "invited" \in Statuses /\ "super_admin" \in Roles
        /\ users[u].invitations + 1 \in Nat /\ users[u].invitations + 1 = 1
    BY <1>1 DEF Statuses, Roles
  <2>2. user \in UserType
    BY <1>3, <2>1, Bootstrapped, Zenon
  <2>3. /\ user.status = "invited" /\ user.overrides = users[u].overrides
        /\ user.invitations = users[u].invitations + 1
    BY <1>3 DEF UserType
  <2> QED
    BY <1>2, <2>1, <2>2, <2>3
<1>5. Change(u, user) /\ UNCHANGED <<requests, crossed>>
  BY DEF BootstrapAdmin
<1>6. \A q \in Requests : GoesOn(q, u)
  BY <1>1, <1>5 DEF IInv, OthersExist, GoesOn
<1> HIDE DEF user
<1> QED
  BY <1>4, <1>5, <1>6, TypesOf, RowChanges

LEMMA StepIInv == IInv /\ [Next]_vars => IInv'
<1> SUFFICES ASSUME IInv, [Next]_vars PROVE IInv'
  OBVIOUS
<1>1. CASE UNCHANGED vars
  BY <1>1 DEF vars, IInv, AccountsSound, TypeOK, OverridesAreUsers, OneInvitation, OthersExist,
     ReadAsLed, Exists, Elevated
<1>2. ASSUME NEW r \in Requests, Handle(r) PROVE IInv'
  BY <1>2, RequestStep, UpdateStep, PermitStep, InviteStep DEF Handle
<1>3. ASSUME NEW u \in Users, AcceptInvitation(u) \/ InvitationExpires(u) \/ BootstrapAdmin(u)
      PROVE  IInv'
  BY <1>3, LinkStep, BootstrapStep
<1> QED
  BY <1>1, <1>2, <1>3 DEF Next

----------------------------------------------------------------------------
(* The theorems *)

\* The properties with what makes them inductive.
THEOREM Invariant == Spec => []IInv
<1> QED
  BY InitIInv, StepIInv, PTL DEF Spec

\* Overrides belong to Users but for the race with a promotion, and of all
\* the links mailed to an address at most one works, whatever administrators
\* and the bootstrap do at once.
THEOREM AccountsAreSound == Spec => []AccountsSound
<1>1. IInv => AccountsSound
  BY DEF IInv
<1> QED
  BY <1>1, Invariant, PTL

\* Of two active superadmins one remains: a set with more than one member has
\* a member other than u.
LEMMA AnotherRemains ==
  ASSUME NEW S \in SUBSET Users, NEW u, Cardinality(S) > 1
  PROVE  \E v \in S : v # u
<1> SUFFICES ASSUME S \subseteq {u} PROVE FALSE
  OBVIOUS
<1>1. IsFiniteSet({u}) /\ Cardinality({u}) = 1
  BY FS_Singleton
<1>2. IsFiniteSet(S) /\ Cardinality(S) <= 1
  BY <1>1, FS_Subset
<1>3. Cardinality(S) \in Nat
  BY <1>2, FS_CardinalityType
<1> QED
  BY <1>2, <1>3

\* Once a superadmin is active, one always is: the transaction of UpdateAccess
\* counts the active superadmins in which it removes one.
THEOREM SuperAdminStays == Spec => SuperAdminRemains
<1>1. ASSUME IInv, [Next]_vars, ActiveSuperAdmins # {} PROVE ActiveSuperAdmins' # {}
  <2>1. CASE users' = users
    BY <1>1, <2>1 DEF ActiveSuperAdmins, Active, IsSuperAdmin
  <2>2. ASSUME NEW u \in Users, NEW user \in UserType, Change(u, user),
               \/ ~Active(u)
               \/ ~IsSuperAdmin(u)
               \/ user.status = "active" /\ user.role = "super_admin"
               \/ \E v \in ActiveSuperAdmins : v # u
        PROVE  ActiveSuperAdmins' # {}
    <3>1. \A v \in Users \ {u} : users'[v] = users[v]
      BY <1>1, <2>2, Changed
    <3>2. users'[u] = user
      BY <1>1, <2>2, Changed
    <3> QED
      BY <1>1, <2>2, <3>1, <3>2 DEF ActiveSuperAdmins, Active, IsSuperAdmin
  <2>3. ASSUME NEW r \in Requests, UpdateAccess(r) PROVE ActiveSuperAdmins' # {}
    <3>1. PICK u \in requests[r].target, newStatus \in Statuses, role \in Roles :
            /\ IsSuperAdmin(u) /\ (newStatus # "active" \/ role # "super_admin")
                  => Cardinality(ActiveSuperAdmins) > 1
            /\ Change(u, [users[u] EXCEPT !.status = newStatus, !.role = role,
                                          !.overrides = KeptOverrides(users[u], role)])
      BY <2>3 DEF UpdateAccess, CanRemoveActiveSuperAdmin
    <3> DEFINE user == [users[u] EXCEPT !.status = newStatus, !.role = role,
                                        !.overrides = KeptOverrides(users[u], role)]
    <3>2. u \in Users /\ users[u] \in UserType
      BY <1>1, TargetExists, TypesOf
    <3>3. user \in UserType /\ user.status = newStatus /\ user.role = role
      BY <3>2 DEF UserType, KeptOverrides
    <3>4. Cardinality(ActiveSuperAdmins) > 1 => \E v \in ActiveSuperAdmins : v # u
      BY AnotherRemains DEF ActiveSuperAdmins
    <3>5. Change(u, user)
      BY <3>1
    <3> HIDE DEF user
    <3> QED
      BY <2>2, <3>1, <3>2, <3>3, <3>4, <3>5
  <2>4. ASSUME NEW r \in Requests, SetPermissionOverrides(r) PROVE ActiveSuperAdmins' # {}
    <3>1. PICK u \in requests[r].target : Change(u, [users[u] EXCEPT !.overrides = TRUE])
      BY <2>4 DEF SetPermissionOverrides
    <3>2. u \in Users /\ users[u] \in UserType
      BY <1>1, TargetExists, TypesOf
    <3>3. /\ [users[u] EXCEPT !.overrides = TRUE] \in UserType
          /\ [users[u] EXCEPT !.overrides = TRUE].status = users[u].status
          /\ [users[u] EXCEPT !.overrides = TRUE].role = users[u].role
      BY <3>2 DEF UserType
    <3> QED
      BY <2>2, <3>1, <3>2, <3>3 DEF Active, IsSuperAdmin
  <2>5. ASSUME NEW r \in Requests, CreateManagedInvitation(r) PROVE ActiveSuperAdmins' # {}
    <3>1. PICK u \in Users, role \in Roles :
            /\ users[u].status \in {"absent", "invited"}
            /\ Change(u, [users[u] EXCEPT !.status = "invited", !.role = role, !.overrides = FALSE,
                                          !.invitations = LinksLeft(u) + 1])
      BY <2>5 DEF CreateManagedInvitation
    <3>2. [users[u] EXCEPT !.status = "invited", !.role = role, !.overrides = FALSE,
                           !.invitations = LinksLeft(u) + 1] \in UserType
      <4>1. users[u] \in UserType /\ LinksLeft(u) + 1 \in Nat
        BY <1>1, TypesOf DEF LinksLeft
      <4> QED
        BY <4>1, Invited DEF Statuses
    <3> QED
      BY <2>2, <3>1, <3>2 DEF Active
  <2>6. ASSUME NEW u \in Users, AcceptInvitation(u) \/ BootstrapAdmin(u) PROVE ActiveSuperAdmins' # {}
    <3>1. users[u] \in UserType
      BY <1>1, TypesOf
    <3>2. ~Active(u)
      BY <1>1, <2>6 DEF AcceptInvitation, Acceptable, BootstrapAdmin, Active, Exists
    <3>3. \E user \in UserType : Change(u, user)
      <4>1. /\ [users[u] EXCEPT !.status = "active", !.password = TRUE, !.invitations = 0] \in UserType
            /\ [users[u] EXCEPT !.status = "invited", !.role = "super_admin",
                                !.invitations = users[u].invitations + 1] \in UserType
        <5>1. /\ {"active", "invited"} \subseteq Statuses /\ "super_admin" \in Roles
              /\ users[u].invitations + 1 \in Nat /\ 0 \in Nat
          BY <3>1 DEF Statuses, Roles, UserType
        <5> QED
          BY <3>1, <5>1, Accepted, Bootstrapped
      <4> QED
        BY <2>6, <4>1 DEF AcceptInvitation, BootstrapAdmin
    <3> QED
      BY <2>2, <3>2, <3>3
  <2>7. ASSUME NEW u \in Users, InvitationExpires(u) PROVE ActiveSuperAdmins' # {}
    <3>1. users[u] \in UserType /\ users[u].invitations > 0
      BY <1>1, <2>7, TypesOf DEF InvitationExpires
    <3>2. /\ [users[u] EXCEPT !.invitations = users[u].invitations - 1] \in UserType
          /\ [users[u] EXCEPT !.invitations = users[u].invitations - 1].status = users[u].status
          /\ [users[u] EXCEPT !.invitations = users[u].invitations - 1].role = users[u].role
      BY <3>1 DEF UserType
    <3>3. Change(u, [users[u] EXCEPT !.invitations = users[u].invitations - 1])
      BY <2>7 DEF InvitationExpires
    <3> QED
      BY <2>2, <3>2, <3>3 DEF Active, IsSuperAdmin
  <2>8. ASSUME NEW r \in Requests, StartUpdate(r) \/ StartInvite(r) \/ EndEarly(r)
        PROVE  ActiveSuperAdmins' # {}
    BY <2>1, <2>8 DEF StartUpdate, StartInvite, EndEarly
  <2> QED
    BY <1>1, <2>1, <2>3, <2>4, <2>5, <2>6, <2>7, <2>8 DEF Next, Handle, vars
<1>2. IInv /\ [Next]_vars => [ActiveSuperAdmins # {} => ActiveSuperAdmins' # {}]_vars
  BY <1>1
<1> QED
  BY <1>2, Invariant, PTL DEF Spec, SuperAdminRemains

\* A request that acts upon an account, by a transaction that is its last step.
LEMMA ActsWhenItEnds ==
  ASSUME IInv, NEW r \in Requests, NEW u \in Users, EndChanging(r, u),
         requests[r].step \in {"update", "permit", "invite"},
         u \in requests[r].target \/ requests[r].step = "invite"
  PROVE  ActsOn(r, u)
<1>1. requests'[r] = Idle
  BY Ended
<1>2. requests[r] # Idle
  BY DEF Idle
<1> QED
  BY <1>1, <1>2 DEF ActsOn

\* Whoever is Admin or Superadmin became it by a Superadmin or the bootstrap, and
\* is changed by a Superadmin or by what was decided before the account changed;
\* an invited one also when it accepts, and when any Admin invites the address
\* again, which makes it a User (updateUserAccess, CreateManagedInvitation).
THEOREM LeadersChangeElevated == Spec => ElevatedChangedByLeaders
<1> DEFINE Allowed(u) ==
             /\ Elevated(users[u]) =>
                   \/ Led(u) \/ Outrun(u)
                   \/ /\ users[u].status = "invited"
                      /\ Joins(u) \/ Alone(u) \/ (users'[u].status = "invited" /\ ~Elevated(users'[u]))
             /\ Elevated(users'[u]) /\ users'[u].role # users[u].role => Led(u) \/ Alone(u)
<1>1. ASSUME IInv, [Next]_vars, NEW u \in Users, Standing(users'[u]) # Standing(users[u])
      PROVE  Allowed(u)
  <2>1. users'[u] # users[u] /\ users[u] \in UserType
    BY <1>1, TypesOf DEF Standing
  <2>2. ASSUME NEW v \in Users, NEW user \in UserType, Change(v, user) PROVE v = u /\ users'[u] = user
    BY <1>1, <2>1, <2>2, Changed
  <2>3. ASSUME NEW r \in Requests, UpdateAccess(r) PROVE Allowed(u)
    <3>1. PICK v \in requests[r].target, newStatus \in Statuses, role \in Roles :
            /\ CanAssignRole(requests[r].leads, role)
            /\ Change(v, [users[v] EXCEPT !.status = newStatus, !.role = role,
                                          !.overrides = KeptOverrides(users[v], role)])
            /\ EndChanging(r, v)
      BY <2>3 DEF UpdateAccess
    <3> DEFINE user == [users[v] EXCEPT !.status = newStatus, !.role = role,
                                        !.overrides = KeptOverrides(users[v], role)]
    <3>2. v \in Users /\ users[v] \in UserType
      BY <1>1, TargetExists, TypesOf
    <3>3. user \in UserType /\ user.role = role
      BY <3>2 DEF UserType, KeptOverrides
    <3>4. Change(v, user)
      BY <3>1
    <3> HIDE DEF user
    <3>5. v = u /\ users'[u].role = role
      BY <2>2, <3>2, <3>3, <3>4
    <3>6. requests[r].step = "update"
      BY <2>3 DEF UpdateAccess
    <3>7. ActsOn(r, u)
      BY <1>1, <3>1, <3>5, <3>6, ActsWhenItEnds
    <3>8. Elevated(users[u]) => Led(u) \/ Outrun(u)
      BY <1>1, <3>1, <3>5, <3>7 DEF IInv, ReadAsLed, Led, Outrun
    <3>9. Elevated(users'[u]) => Led(u)
      BY <3>1, <3>5, <3>7 DEF CanAssignRole, Elevated, Led
    <3> QED
      BY <3>8, <3>9
  <2>4. ASSUME NEW r \in Requests, SetPermissionOverrides(r) PROVE Allowed(u)
    <3>1. PICK v \in requests[r].target : /\ Change(v, [users[v] EXCEPT !.overrides = TRUE])
                                          /\ EndChanging(r, v)
      BY <2>4 DEF SetPermissionOverrides
    <3>2. v \in Users /\ users[v] \in UserType
      BY <1>1, TargetExists, TypesOf
    <3>3. /\ [users[v] EXCEPT !.overrides = TRUE] \in UserType
          /\ [users[v] EXCEPT !.overrides = TRUE].role = users[v].role
      BY <3>2 DEF UserType
    <3>4. v = u /\ users'[u].role = users[u].role
      BY <2>2, <3>1, <3>2, <3>3
    <3>5. requests[r].step = "permit"
      BY <2>4 DEF SetPermissionOverrides
    <3>6. ActsOn(r, u)
      BY <1>1, <3>1, <3>4, <3>5, ActsWhenItEnds
    <3>7. Elevated(users[u]) => Led(u) \/ Outrun(u)
      BY <1>1, <3>1, <3>4, <3>6 DEF IInv, ReadAsLed, Led, Outrun
    <3> QED
      BY <3>4, <3>7
  <2>5. ASSUME NEW r \in Requests, CreateManagedInvitation(r) PROVE Allowed(u)
    <3>1. PICK v \in Users, role \in Roles :
            /\ CanAssignRole(requests[r].leads, role)
            /\ users[v].status \in {"absent", "invited"}
            /\ Change(v, [users[v] EXCEPT !.status = "invited", !.role = role, !.overrides = FALSE,
                                          !.invitations = LinksLeft(v) + 1])
            /\ EndChanging(r, v)
      BY <2>5 DEF CreateManagedInvitation
    <3> DEFINE user == [users[v] EXCEPT !.status = "invited", !.role = role, !.overrides = FALSE,
                                        !.invitations = LinksLeft(v) + 1]
    <3>2. users[v] \in UserType /\ LinksLeft(v) + 1 \in Nat
      BY <1>1, TypesOf DEF LinksLeft
    <3>3. user \in UserType
      BY <3>2, Invited DEF Statuses
    <3>4. user.status = "invited" /\ user.role = role
      BY <3>2 DEF UserType
    <3>5. Change(v, user)
      BY <3>1
    <3> HIDE DEF user
    <3>6. v = u /\ users'[u].status = "invited" /\ users'[u].role = role
      BY <2>2, <3>3, <3>4, <3>5
    <3>7. requests[r].step = "invite"
      BY <2>5 DEF CreateManagedInvitation
    <3>8. ActsOn(r, u)
      BY <1>1, <3>1, <3>6, <3>7, ActsWhenItEnds
    <3>9. Elevated(users'[u]) => Led(u)
      BY <3>1, <3>6, <3>8 DEF CanAssignRole, Elevated, Led
    <3>10. Elevated(users[u]) => users[u].status = "invited"
      BY <1>1, <3>1, <3>6 DEF IInv, AccountsSound, TypeOK, Exists, Absent, Elevated
    <3> QED
      BY <3>6, <3>9, <3>10
  <2>6. ASSUME NEW v \in Users, AcceptInvitation(v) PROVE Allowed(u)
    <3> DEFINE user == [users[v] EXCEPT !.status = "active", !.password = TRUE, !.invitations = 0]
    <3>1. users[v] \in UserType
      BY <1>1, TypesOf
    <3>2. /\ user.status = "active" /\ user.role = users[v].role
          /\ user.overrides = users[v].overrides
      BY <3>1 DEF UserType
    <3>3. user \in UserType
      BY <3>1, Accepted DEF Statuses
    <3>4. Change(v, user)
      BY <2>6 DEF AcceptInvitation
    <3> HIDE DEF user
    <3>5. v = u /\ users'[u] = user
      BY <2>2, <3>3, <3>4
    <3>6. users[u].status = "invited" /\ Joins(u)
      BY <2>6, <3>2, <3>5 DEF AcceptInvitation, Acceptable, Joins
    <3>7. users'[u].role = users[u].role
      BY <3>2, <3>5
    <3> QED
      BY <3>6, <3>7
  <2>7. ASSUME NEW v \in Users, InvitationExpires(v) PROVE Allowed(u)
    <3> DEFINE user == [users[v] EXCEPT !.invitations = users[v].invitations - 1]
    <3>1. users[v] \in UserType /\ users[v].invitations > 0
      BY <1>1, <2>7, TypesOf DEF InvitationExpires
    <3>2. user \in UserType
      BY <3>1 DEF UserType
    <3>3. user.status = users[v].status /\ user.role = users[v].role /\ user.overrides = users[v].overrides
      BY <3>1 DEF UserType
    <3>4. Change(v, user)
      BY <2>7 DEF InvitationExpires
    <3> HIDE DEF user
    <3>5. v = u /\ users'[u] = user
      BY <2>2, <3>2, <3>4
    <3> QED
      BY <1>1, <3>3, <3>5 DEF Standing
  <2>8. ASSUME NEW v \in Users, BootstrapAdmin(v) PROVE Allowed(u)
    <3>1. PICK user \in UserType : Change(v, user)
      <4>1. /\ "invited" \in Statuses /\ "super_admin" \in Roles
            /\ users[v] \in UserType /\ users[v].invitations + 1 \in Nat
        BY <1>1, TypesOf DEF Statuses, Roles, UserType
      <4>2. [users[v] EXCEPT !.status = "invited", !.role = "super_admin",
                             !.invitations = users[v].invitations + 1] \in UserType
        BY <4>1, Bootstrapped
      <4> QED
        BY <2>8, <4>2 DEF BootstrapAdmin
    <3>2. v = u
      BY <2>2, <3>1
    <3>3. Alone(u) /\ (Exists(u) => users[u].status = "invited")
      BY <2>8, <3>2 DEF BootstrapAdmin, Alone
    <3>4. Elevated(users[u]) => Exists(u)
      BY <1>1 DEF IInv, AccountsSound, TypeOK, Exists, Absent, Elevated
    <3> QED
      BY <3>3, <3>4
  <2>9. ASSUME NEW r \in Requests, StartUpdate(r) \/ StartInvite(r) \/ EndEarly(r) PROVE Allowed(u)
    BY <2>1, <2>9 DEF StartUpdate, StartInvite, EndEarly
  <2> HIDE DEF Allowed
  <2> QED
    BY <1>1, <2>1, <2>3, <2>4, <2>5, <2>6, <2>7, <2>8, <2>9 DEF Next, Handle, vars
<1>2. IInv /\ [Next]_vars =>
        [\A u \in Users : Standing(users'[u]) # Standing(users[u]) => Allowed(u)]_vars
  BY <1>1
<1>3. [][\A u \in Users : Standing(users'[u]) # Standing(users[u]) => Allowed(u)]_vars
        => ElevatedChangedByLeaders
  BY DEF ElevatedChangedByLeaders
<1> HIDE DEF Allowed
<1> QED
  BY <1>2, <1>3, Invariant, PTL DEF Spec

----------------------------------------------------------------------------
(* Sessions *)

\* Whatever changed the password or closed the account has met every login and
\* session that knew the account as it was.
KnownOrCrossed ==
    /\ \A s \in Live : sessions[s].password = password \/ sessions[s].crossed
    /\ \A r \in Attempts : At(r, "verified") => attempts[r].password = password \/ attempts[r].crossed

CrossedUnlessActive ==
    ~AccountActive => /\ \A s \in Live : sessions[s].crossed
                      /\ \A r \in Attempts : At(r, "verified") => attempts[r].crossed

OneLiveLink == \A k, l \in Links : links[k] = "live" /\ links[l] = "live" => k = l
UsesCounted == \A l \in Links : uses[l] = IF links[l] = "used" THEN 1 ELSE 0

\* The attempts that were admitted and may still fail.
Admitted == {r \in Attempts : attempts[r].step \in {"allowed", "refused"}}
AdmittedFor(e) == {r \in Admitted : attempts[r].email = e}

\* A failure was admitted before it was written: the rows written and those that
\* may still be written are within the bound.
Throttled ==
    /\ IsFiniteSet(FailureRows)
    /\ \A e \in Emails : failures[e] + Cardinality(AdmittedFor(e)) < PairLimit + Cardinality(Attempts)
    /\ FromHere + Cardinality(Admitted) < IpLimit + Cardinality(Attempts)

SessionsInv ==
    /\ SessionsTypeOK
    /\ KnownOrCrossed
    /\ CrossedUnlessActive
    /\ OneLiveLink
    /\ UsesCounted
    /\ Throttled

AttemptType == [step : {"idle", "allowed", "refused", "verified", "opened", "reset"},
                email : Emails, password : Versions, crossed : BOOLEAN, link : {0} \cup Links]
\* What an attempt refers to.
Proper(x) == /\ x.step \in {"verified", "opened"} => x.email = Account
             /\ x.step = "reset" => x.link \in Links
SessionType == [state : {"none", "live", "revoked"}, password : Versions, crossed : BOOLEAN]

LEMMA SessionsTypes ==
  ASSUME SessionsTypeOK
  PROVE  /\ status \in {"active", "disabled", "invited"} /\ password \in Nat /\ password <= MaxPasswords
         /\ failures \in [Emails -> Nat]
         /\ sessions \in [Opened -> SessionType]
         /\ links \in [Links -> {"none", "live", "used", "expired"}]
         /\ uses \in [Links -> Nat]
         /\ attempts \in [Attempts -> AttemptType]
         /\ \A r \in Attempts : Proper(attempts[r])
         /\ MaxPasswords \in Nat
<1>1. password \in Nat /\ password <= MaxPasswords /\ MaxPasswords \in Nat
  BY SessionsAssumption DEF SessionsTypeOK, Versions
<1>2. \A r \in Attempts : Proper(attempts[r])
  BY DEF SessionsTypeOK, Proper
<1> QED
  BY <1>1, <1>2 DEF SessionsTypeOK, AttemptType, SessionType

LEMMA NoAttemptIsIdle ==
  /\ NoAttempt \in AttemptType /\ NoAttempt.step = "idle" /\ ~NoAttempt.crossed
  /\ 0 \in Versions
<1>1. 0 \in Versions
  BY SessionsAssumption DEF Versions
<1> QED
  BY <1>1, SessionsAssumption DEF NoAttempt, AttemptType

----------------------------------------------------------------------------
(* The throttle: nothing is written that was not admitted *)

LEMMA AdmittedAreAttempts ==
  /\ IsFiniteSet(Attempts) /\ Cardinality(Attempts) \in Nat
  /\ IsFiniteSet(Admitted) /\ Cardinality(Admitted) \in Nat
  /\ Cardinality(Admitted) <= Cardinality(Attempts)
  /\ \A e : /\ IsFiniteSet(AdmittedFor(e)) /\ Cardinality(AdmittedFor(e)) \in Nat
            /\ Cardinality(AdmittedFor(e)) <= Cardinality(Attempts)
<1>1. IsFiniteSet(Attempts)
  BY SessionsAssumption
<1>2. Admitted \in SUBSET Attempts /\ \A e : AdmittedFor(e) \in SUBSET Attempts
  BY DEF Admitted, AdmittedFor
<1>3. IsFiniteSet(Admitted) /\ Cardinality(Admitted) <= Cardinality(Attempts)
  BY <1>1, <1>2, FS_Subset
<1>4. \A e : IsFiniteSet(AdmittedFor(e)) /\ Cardinality(AdmittedFor(e)) <= Cardinality(Attempts)
  BY <1>1, <1>2, FS_Subset
<1> QED
  BY <1>1, <1>3, <1>4, FS_CardinalityType

\* No failure written and nobody admitted.
LEMMA NothingAdmitted ==
  ASSUME SessionsTypeOK, SessionsTypeOK', Throttled,
         \A e \in Emails : failures'[e] <= failures[e],
         \A q \in Attempts : q \in Admitted' =>
            q \in Admitted /\ attempts'[q].email = attempts[q].email
  PROVE  Throttled'
<1>1. failures \in [Emails -> Nat] /\ failures' \in [Emails -> Nat]
  BY DEF SessionsTypeOK
<1>2. FailureRows' \in SUBSET FailureRows
  <2>1. ASSUME NEW e \in Emails PROVE {e} \X (1 .. failures'[e]) \subseteq {e} \X (1 .. failures[e])
    <3>1. failures'[e] \in Nat /\ failures[e] \in Nat /\ failures'[e] <= failures[e]
      BY <1>1
    <3>2. 1 .. failures'[e] \subseteq 1 .. failures[e]
      BY <3>1
    <3> QED
      BY <3>2
  <2> QED
    BY <2>1 DEF FailureRows
<1>3. IsFiniteSet(FailureRows)
  BY DEF Throttled
<1>4. IsFiniteSet(FailureRows') /\ Cardinality(FailureRows') <= Cardinality(FailureRows)
  BY <1>2, <1>3, FS_Subset
<1>5. Cardinality(FailureRows') \in Nat /\ Cardinality(FailureRows) \in Nat
  BY <1>3, <1>4, FS_CardinalityType
<1>6. Admitted' \in SUBSET Admitted /\ \A e \in Emails : AdmittedFor(e)' \in SUBSET AdmittedFor(e)
  <2>1. Admitted' \subseteq Attempts
    BY DEF Admitted
  <2> QED
    BY <2>1 DEF AdmittedFor
<1>7. Cardinality(Admitted') <= Cardinality(Admitted) /\ Cardinality(Admitted') \in Nat
  BY <1>6, AdmittedAreAttempts, FS_Subset, FS_CardinalityType
<1>8. ASSUME NEW e \in Emails
      PROVE  Cardinality(AdmittedFor(e)') <= Cardinality(AdmittedFor(e)) /\ Cardinality(AdmittedFor(e)') \in Nat
  <2>1. IsFiniteSet(AdmittedFor(e)) /\ AdmittedFor(e)' \in SUBSET AdmittedFor(e)
    BY <1>6, AdmittedAreAttempts
  <2> HIDE DEF AdmittedFor
  <2> QED
    BY <2>1, FS_Subset, FS_CardinalityType
<1>9. ASSUME NEW e \in Emails
      PROVE  failures'[e] + Cardinality(AdmittedFor(e)') < PairLimit + Cardinality(Attempts)
  <2>1. failures[e] + Cardinality(AdmittedFor(e)) < PairLimit + Cardinality(Attempts)
    BY DEF Throttled
  <2>2. failures'[e] <= failures[e] /\ failures'[e] \in Nat /\ failures[e] \in Nat
    BY <1>1
  <2> QED
    BY <1>8, <2>1, <2>2, AdmittedAreAttempts, SessionsAssumption
<1>10. FromHere' + Cardinality(Admitted') < IpLimit + Cardinality(Attempts)
  <2>1. Cardinality(FailureRows) + Cardinality(Admitted) < IpLimit + Cardinality(Attempts)
    BY DEF Throttled, FromHere
  <2> QED
    BY <1>4, <1>5, <1>7, <2>1, AdmittedAreAttempts, SessionsAssumption DEF FromHere
<1> QED
  BY <1>4, <1>9, <1>10 DEF Throttled

\* Whoever is admitted finds the failures below the limits, and all attempts
\* together may still add one each.
LEMMA AdmissionKeepsThrottled ==
  ASSUME SessionsTypeOK, Throttled, NEW r \in Attempts, StartLogin(r)
  PROVE  Throttled'
<1>1. PICK e \in Emails :
        /\ LoginAllowed(e)
        /\ attempts' = [attempts EXCEPT ![r] = [NoAttempt EXCEPT !.step = "allowed", !.email = e]]
  BY DEF StartLogin
<1>2. failures' = failures
  BY DEF StartLogin
<1> DEFINE x == [NoAttempt EXCEPT !.step = "allowed", !.email = e]
<1>3. x.step = "allowed" /\ x.email = e
  BY DEF NoAttempt
<1>4. attempts' = [attempts EXCEPT ![r] = x]
  BY <1>1
<1> HIDE DEF x
<1>5. attempts'[r].email = e /\ \A q \in Attempts \ {r} : attempts'[q] = attempts[q]
  BY <1>3, <1>4, SessionsTypes
<1>6. FailureRows' = FailureRows
  BY <1>2 DEF FailureRows
<1>7. ASSUME NEW d \in Emails
      PROVE  failures'[d] + Cardinality(AdmittedFor(d)') < PairLimit + Cardinality(Attempts)
  <2>1. failures[d] \in Nat /\ failures'[d] = failures[d]
    BY <1>2, SessionsTypes
  <2>2. CASE d = e
    <3>1. failures[d] < PairLimit
      BY <1>1, <2>2 DEF LoginAllowed
    <3>2. AdmittedFor(d)' \in SUBSET Attempts
      BY DEF AdmittedFor, Admitted
    <3>3. Cardinality(AdmittedFor(d)') <= Cardinality(Attempts) /\ Cardinality(AdmittedFor(d)') \in Nat
      BY <3>2, AdmittedAreAttempts, FS_Subset, FS_CardinalityType
    <3> QED
      BY <2>1, <3>1, <3>3, AdmittedAreAttempts, SessionsAssumption
  <2>3. CASE d # e
    <3>1. AdmittedFor(d)' \in SUBSET AdmittedFor(d)
      BY <1>5, <2>3 DEF AdmittedFor, Admitted
    <3>2. Cardinality(AdmittedFor(d)') <= Cardinality(AdmittedFor(d)) /\ Cardinality(AdmittedFor(d)') \in Nat
      BY <3>1, AdmittedAreAttempts, FS_Subset, FS_CardinalityType
    <3>3. failures[d] + Cardinality(AdmittedFor(d)) < PairLimit + Cardinality(Attempts)
      BY DEF Throttled
    <3> QED
      BY <2>1, <3>2, <3>3, AdmittedAreAttempts, SessionsAssumption
  <2> QED
    BY <2>2, <2>3
<1>8. FromHere' + Cardinality(Admitted') < IpLimit + Cardinality(Attempts)
  <2>1. Cardinality(FailureRows) < IpLimit
    BY <1>1 DEF LoginAllowed, FromHere
  <2>2. Admitted' \in SUBSET Attempts
    BY DEF Admitted
  <2>3. Cardinality(Admitted') <= Cardinality(Attempts) /\ Cardinality(Admitted') \in Nat
    BY <2>2, AdmittedAreAttempts, FS_Subset, FS_CardinalityType
  <2>4. Cardinality(FailureRows) \in Nat
    BY FS_CardinalityType DEF Throttled
  <2> QED
    BY <1>6, <2>1, <2>3, <2>4, AdmittedAreAttempts, SessionsAssumption DEF FromHere
<1> QED
  BY <1>6, <1>7, <1>8 DEF Throttled

\* A failure that is written was admitted, and is not any more.
LEMMA FailureKeepsThrottled ==
  ASSUME SessionsTypeOK, Throttled, NEW r \in Attempts, RecordLoginFailure(r)
  PROVE  Throttled'
<1> DEFINE e == attempts[r].email
           row == <<e, failures[e] + 1>>
<1>1. /\ attempts[r].step = "refused" /\ e \in Emails
      /\ failures' = [failures EXCEPT ![e] = @ + 1]
      /\ attempts' = [attempts EXCEPT ![r] = NoAttempt]
  BY SessionsTypes DEF RecordLoginFailure, At, EndAttempt, AttemptType
<1>2. failures \in [Emails -> Nat]
  BY SessionsTypes
<1>3. attempts'[r].step = "idle" /\ \A q \in Attempts \ {r} : attempts'[q] = attempts[q]
  BY <1>1, SessionsTypes, NoAttemptIsIdle
<1>4. FailureRows' \in SUBSET (FailureRows \cup {row})
  <2>1. ASSUME NEW d \in Emails
        PROVE  {d} \X (1 .. failures'[d]) \subseteq ({d} \X (1 .. failures[d])) \cup {row}
    <3>1. CASE d # e
      BY <1>1, <1>2, <3>1
    <3>2. CASE d = e
      <4>1. failures'[d] = failures[d] + 1 /\ failures[d] \in Nat
        BY <1>1, <1>2, <3>2
      <4>2. 1 .. failures'[d] = (1 .. failures[d]) \cup {failures[d] + 1}
        BY <4>1
      <4> QED
        BY <3>2, <4>2
    <3> QED
      BY <3>1, <3>2
  <2> HIDE DEF row
  <2> QED
    BY <2>1 DEF FailureRows
<1> HIDE DEF row
<1>5. IsFiniteSet(FailureRows)
  BY DEF Throttled
<1>6. /\ IsFiniteSet(FailureRows \cup {row}) /\ Cardinality(FailureRows) \in Nat
      /\ Cardinality(FailureRows \cup {row}) <= Cardinality(FailureRows) + 1
      /\ Cardinality(FailureRows \cup {row}) \in Nat
  <2>1. Cardinality(FailureRows) \in Nat
    BY <1>5, FS_CardinalityType
  <2>2. /\ IsFiniteSet(FailureRows \cup {row})
        /\ Cardinality(FailureRows \cup {row}) =
              IF row \in FailureRows THEN Cardinality(FailureRows) ELSE Cardinality(FailureRows) + 1
    BY <1>5, FS_AddElement
  <2> QED
    BY <2>1, <2>2
<1>7. /\ IsFiniteSet(FailureRows') /\ Cardinality(FailureRows') <= Cardinality(FailureRows \cup {row})
      /\ Cardinality(FailureRows') \in Nat
  BY <1>4, <1>6, FS_Subset, FS_CardinalityType
<1>8. Admitted' = Admitted \ {r} /\ r \in Admitted
  BY <1>1, <1>3 DEF Admitted
<1>9. Cardinality(Admitted') = Cardinality(Admitted) - 1
  BY <1>8, AdmittedAreAttempts, FS_RemoveElement
<1>10. ASSUME NEW d \in Emails
       PROVE  failures'[d] + Cardinality(AdmittedFor(d)') < PairLimit + Cardinality(Attempts)
  <2>1. failures[d] + Cardinality(AdmittedFor(d)) < PairLimit + Cardinality(Attempts)
    BY DEF Throttled
  <2>2. AdmittedFor(d)' = AdmittedFor(d) \ {r}
    BY <1>3, <1>8 DEF AdmittedFor, Admitted
  <2>3. Cardinality(AdmittedFor(d)') = IF r \in AdmittedFor(d) THEN Cardinality(AdmittedFor(d)) - 1
                                       ELSE Cardinality(AdmittedFor(d))
    BY <2>2, AdmittedAreAttempts, FS_RemoveElement
  <2>4. CASE d = e
    <3>1. r \in AdmittedFor(d)
      BY <1>8, <2>4 DEF AdmittedFor
    <3>2. failures'[d] = failures[d] + 1 /\ failures[d] \in Nat
      BY <1>1, <1>2, <2>4
    <3> QED
      BY <2>1, <2>3, <3>1, <3>2, AdmittedAreAttempts, SessionsAssumption
  <2>5. CASE d # e
    <3>1. r \notin AdmittedFor(d)
      BY <2>5 DEF AdmittedFor
    <3>2. failures'[d] = failures[d]
      BY <1>1, <1>2, <2>5
    <3> QED
      BY <2>1, <2>3, <3>1, <3>2
  <2> QED
    BY <2>4, <2>5
<1>11. FromHere' + Cardinality(Admitted') < IpLimit + Cardinality(Attempts)
  <2>1. Cardinality(FailureRows) + Cardinality(Admitted) < IpLimit + Cardinality(Attempts)
    BY DEF Throttled, FromHere
  <2> QED
    BY <1>6, <1>7, <1>9, <2>1, AdmittedAreAttempts, SessionsAssumption DEF FromHere
<1> QED
  BY <1>7, <1>10, <1>11 DEF Throttled

----------------------------------------------------------------------------
(* The account, its sessions and its links *)

\* All of the invariant but the throttle.
AccountInv ==
    /\ SessionsTypeOK
    /\ KnownOrCrossed
    /\ CrossedUnlessActive
    /\ OneLiveLink
    /\ UsesCounted

LEMMA SessionsInvInit == SessionsInit => SessionsInv
<1> SUFFICES ASSUME SessionsInit PROVE SessionsInv
  OBVIOUS
<1>1. /\ NoSession \in SessionType /\ NoSession.state = "none"
  BY NoAttemptIsIdle DEF NoSession, SessionType
<1>2. /\ status = "active" /\ password = 0
      /\ failures \in [Emails -> Nat] /\ \A e \in Emails : failures[e] = 0
      /\ sessions \in [Opened -> SessionType] /\ \A s \in Opened : sessions[s].state = "none"
      /\ links \in [Links -> {"none", "live", "used", "expired"}] /\ \A l \in Links : links[l] = "none"
      /\ uses \in [Links -> Nat] /\ \A l \in Links : uses[l] = 0
      /\ attempts \in [Attempts -> AttemptType] /\ \A r \in Attempts : attempts[r].step = "idle"
  BY <1>1, NoAttemptIsIdle DEF SessionsInit
<1>3. SessionsTypeOK
  BY <1>2, NoAttemptIsIdle DEF SessionsTypeOK, SessionType, AttemptType
<1>4. KnownOrCrossed /\ CrossedUnlessActive /\ OneLiveLink /\ UsesCounted
  BY <1>2 DEF KnownOrCrossed, CrossedUnlessActive, OneLiveLink, UsesCounted, Live, At, AccountActive
<1>5. Admitted = {} /\ \A e : AdmittedFor(e) = {}
  BY <1>2 DEF Admitted, AdmittedFor
<1>6. FailureRows = {}
  <2>1. \A e \in Emails : 1 .. failures[e] = {}
    BY <1>2
  <2> QED
    BY <2>1 DEF FailureRows
<1>7. Throttled
  BY <1>2, <1>5, <1>6, FS_EmptySet, AdmittedAreAttempts, SessionsAssumption DEF Throttled, FromHere
<1> QED
  BY <1>3, <1>4, <1>7 DEF SessionsInv

\* One attempt goes on, and only a login that was verified now may be verified.
LEMMA AttemptStep ==
  ASSUME AccountInv, NEW r \in Attempts, NEW x \in AttemptType,
         attempts' = [attempts EXCEPT ![r] = x],
         UNCHANGED <<status, password, sessions, links, uses>>, failures' \in [Emails -> Nat],
         Proper(x),
         x.step = "verified" => (x.password = password \/ x.crossed) /\ (AccountActive \/ x.crossed)
  PROVE  AccountInv'
<1>1. /\ attempts' \in [Attempts -> AttemptType] /\ attempts'[r] = x
      /\ \A q \in Attempts \ {r} : attempts'[q] = attempts[q]
  BY SessionsTypes DEF AccountInv
<1>2. \A q \in Attempts : Proper(attempts[q])
  BY SessionsTypes DEF AccountInv
<1>3. \A q \in Attempts : Proper(attempts'[q])
  BY <1>1, <1>2
<1>4. SessionsTypeOK'
  BY <1>1, <1>3 DEF AccountInv, SessionsTypeOK, AttemptType, Proper
<1>5. Live' = Live
  BY DEF Live
<1>6. KnownOrCrossed'
  BY <1>1, <1>5 DEF AccountInv, KnownOrCrossed, At
<1>7. CrossedUnlessActive'
  BY <1>1, <1>5 DEF AccountInv, CrossedUnlessActive, At, AccountActive
<1>8. OneLiveLink' /\ UsesCounted'
  BY DEF AccountInv, OneLiveLink, UsesCounted
<1> QED
  BY <1>4, <1>6, <1>7, <1>8 DEF AccountInv

\* What ends the sessions finds the logins that were verified before.
LEMMA CrossingMarks ==
  ASSUME SessionsTypeOK
  PROVE  /\ Crossing \in [Attempts -> AttemptType]
         /\ \A q \in Attempts : /\ Crossing[q].step = attempts[q].step
                                /\ Crossing[q].email = attempts[q].email
                                /\ Crossing[q].link = attempts[q].link
                                /\ Crossing[q].step = "verified" => Crossing[q].crossed
<1>1. ASSUME NEW q \in Attempts
      PROVE  /\ Crossing[q] \in AttemptType
             /\ Crossing[q].step = attempts[q].step
             /\ Crossing[q].email = attempts[q].email
             /\ Crossing[q].link = attempts[q].link
             /\ Crossing[q].step = "verified" => Crossing[q].crossed
  <2> DEFINE x == [attempts[q] EXCEPT !.crossed = TRUE]
  <2>1. attempts[q] \in AttemptType
    BY SessionsTypes
  <2>2. x \in AttemptType /\ x.step = attempts[q].step /\ x.email = attempts[q].email
        /\ x.link = attempts[q].link /\ x.crossed
    BY <2>1 DEF AttemptType
  <2>3. Crossing[q] = IF attempts[q].step = "verified" THEN x ELSE attempts[q]
    BY DEF Crossing, At
  <2> HIDE DEF x
  <2> QED
    BY <2>1, <2>2, <2>3
<1>2. Crossing = [q \in Attempts |-> Crossing[q]]
  BY DEF Crossing
<1> HIDE DEF Crossing
<1> QED
  BY <1>1, <1>2

LEMMA RevokedIsNotLive ==
  ASSUME SessionsTypeOK, NEW s \in Opened
  PROVE  Revoked(s) \in SessionType /\ Revoked(s).state # "live"
<1>1. sessions[s] \in SessionType
  BY SessionsTypes
<1> QED
  BY <1>1 DEF Revoked, SessionType

\* Of all live links one stays at most: every change to the links outdates the others.
LEMMA OtherLinksOutdated ==
  ASSUME SessionsTypeOK, NEW l \in Links, NEW x \in {"live", "used"},
         links' = [k \in Links |-> IF k = l THEN x ELSE Outdated(k)]
  PROVE  /\ links' \in [Links -> {"none", "live", "used", "expired"}]
         /\ links'[l] = x
         /\ \A k \in Links \ {l} : links'[k] # "live" /\ (links'[k] = "used" <=> links[k] = "used")
BY SessionsTypes DEF Outdated

----------------------------------------------------------------------------
(* The steps *)

LEMMA LoginSteps ==
  ASSUME SessionsInv, NEW r \in Attempts,
         StartLogin(r) \/ Verify(r) \/ RecordLoginFailure(r) \/ ClearLoginFailures(r)
            \/ AttemptEndsEarly(r) \/ StartReset(r)
  PROVE  SessionsInv'
<1>1. AccountInv /\ Throttled
  BY DEF SessionsInv, AccountInv
<1>2. attempts[r] \in AttemptType /\ attempts \in [Attempts -> AttemptType] /\ failures \in [Emails -> Nat]
  BY SessionsTypes DEF SessionsInv
<1>3. CASE StartLogin(r)
  <2>1. PICK e \in Emails : attempts' = [attempts EXCEPT ![r] = [NoAttempt EXCEPT !.step = "allowed", !.email = e]]
    BY <1>3 DEF StartLogin
  <2> DEFINE x == [NoAttempt EXCEPT !.step = "allowed", !.email = e]
  <2>2. x \in AttemptType /\ x.step = "allowed" /\ Proper(x)
    BY NoAttemptIsIdle DEF AttemptType, Proper
  <2>3. attempts' = [attempts EXCEPT ![r] = x]
    BY <2>1
  <2> HIDE DEF x
  <2>4. UNCHANGED <<status, password, failures, sessions, links, uses>>
    BY <1>3 DEF StartLogin
  <2>5. AccountInv'
    BY <1>1, <1>2, <2>2, <2>3, <2>4, AttemptStep
  <2>6. Throttled'
    BY <1>1, <1>3, AdmissionKeepsThrottled DEF AccountInv
  <2> QED
    BY <2>5, <2>6 DEF SessionsInv, AccountInv
<1>4. CASE Verify(r)
  <2>1. UNCHANGED <<status, password, failures, sessions, links, uses>> /\ attempts[r].step = "allowed"
    BY <1>4 DEF Verify, At
  <2>2. PICK x \in AttemptType :
          /\ attempts' = [attempts EXCEPT ![r] = x]
          /\ x.email = attempts[r].email
          /\ x.step \in {"verified", "refused"}
          /\ x.step = "verified" => x.email = Account /\ AccountActive /\ x.password = password
    <3>1. CASE CanVerify(attempts[r].email)
                 /\ attempts' = [attempts EXCEPT ![r].step = "verified", ![r].password = password]
      <4> DEFINE y == [attempts[r] EXCEPT !.step = "verified", !.password = password]
      <4>1. password \in Versions
        BY DEF SessionsInv, SessionsTypeOK
      <4>2. y \in AttemptType /\ y.email = attempts[r].email /\ y.step = "verified" /\ y.password = password
        BY <1>2, <4>1 DEF AttemptType
      <4>3. attempts' = [attempts EXCEPT ![r] = y]
        BY <1>2, <3>1
      <4> HIDE DEF y
      <4> QED
        BY <3>1, <4>2, <4>3 DEF CanVerify
    <3>2. CASE Go(r, "refused")
      <4> DEFINE y == [attempts[r] EXCEPT !.step = "refused"]
      <4>1. y \in AttemptType /\ y.email = attempts[r].email /\ y.step = "refused"
        BY <1>2 DEF AttemptType
      <4>2. attempts' = [attempts EXCEPT ![r] = y]
        BY <3>2 DEF Go
      <4> HIDE DEF y
      <4> QED
        BY <4>1, <4>2
    <3> QED
      BY <1>4, <3>1, <3>2 DEF Verify
  <2>3. AccountInv'
    BY <1>1, <1>2, <2>1, <2>2, AttemptStep DEF Proper
  <2>4. \A q \in Attempts : q \in Admitted' => q \in Admitted /\ attempts'[q].email = attempts[q].email
    BY <1>2, <2>1, <2>2 DEF Admitted
  <2>5. \A e \in Emails : failures'[e] <= failures[e]
    BY <1>2, <2>1
  <2>6. Throttled'
    BY <1>1, <2>3, <2>4, <2>5, NothingAdmitted DEF AccountInv
  <2> QED
    BY <2>3, <2>6 DEF SessionsInv, AccountInv
<1>5. CASE RecordLoginFailure(r)
  <2>1. /\ UNCHANGED <<status, password, sessions, links, uses>>
        /\ attempts' = [attempts EXCEPT ![r] = NoAttempt]
        /\ failures' \in [Emails -> Nat]
    <3>1. attempts[r].email \in Emails
      BY <1>2 DEF AttemptType
    <3>2. failures' = [failures EXCEPT ![attempts[r].email] = @ + 1]
      BY <1>5 DEF RecordLoginFailure
    <3> QED
      BY <1>2, <1>5, <3>1, <3>2 DEF RecordLoginFailure, EndAttempt
  <2>2. AccountInv'
    BY <1>1, <2>1, NoAttemptIsIdle, AttemptStep DEF Proper
  <2>3. Throttled'
    BY <1>1, <1>5, FailureKeepsThrottled DEF AccountInv
  <2> QED
    BY <2>2, <2>3 DEF SessionsInv, AccountInv
<1>6. CASE ClearLoginFailures(r) \/ AttemptEndsEarly(r)
  <2>1. /\ UNCHANGED <<status, password, sessions, links, uses>>
        /\ attempts' = [attempts EXCEPT ![r] = NoAttempt]
        /\ failures' \in [Emails -> Nat]
        /\ \A e \in Emails : failures'[e] <= failures[e]
    BY <1>2, <1>6 DEF ClearLoginFailures, AttemptEndsEarly, EndAttempt
  <2>2. AccountInv'
    BY <1>1, <2>1, NoAttemptIsIdle, AttemptStep DEF Proper
  <2>3. \A q \in Attempts : q \in Admitted' => q \in Admitted /\ attempts'[q].email = attempts[q].email
    BY <1>2, <2>1, NoAttemptIsIdle DEF Admitted
  <2>4. Throttled'
    BY <1>1, <2>1, <2>2, <2>3, NothingAdmitted DEF AccountInv
  <2> QED
    BY <2>2, <2>4 DEF SessionsInv, AccountInv
<1>7. CASE StartReset(r)
  <2>1. PICK l \in Links : attempts' = [attempts EXCEPT ![r] = [NoAttempt EXCEPT !.step = "reset", !.link = l]]
    BY <1>7 DEF StartReset
  <2> DEFINE x == [NoAttempt EXCEPT !.step = "reset", !.link = l]
  <2>2. x \in AttemptType /\ x.step = "reset" /\ Proper(x)
    BY NoAttemptIsIdle DEF AttemptType, Proper
  <2>3. attempts' = [attempts EXCEPT ![r] = x]
    BY <2>1
  <2> HIDE DEF x
  <2>4. UNCHANGED <<status, password, failures, sessions, links, uses>>
    BY <1>7 DEF StartReset
  <2>5. AccountInv'
    BY <1>1, <1>2, <2>2, <2>3, <2>4, AttemptStep
  <2>6. \A q \in Attempts : q \in Admitted' => q \in Admitted /\ attempts'[q].email = attempts[q].email
    BY <1>2, <2>2, <2>3 DEF Admitted
  <2>7. \A e \in Emails : failures'[e] <= failures[e]
    BY <1>2, <2>4
  <2>8. Throttled'
    BY <1>1, <2>5, <2>6, <2>7, NothingAdmitted DEF AccountInv
  <2> QED
    BY <2>5, <2>8 DEF SessionsInv, AccountInv
<1> QED
  BY <1>3, <1>4, <1>5, <1>6, <1>7

\* The session a login opens knows what the login knew.
LEMMA CreateSessionKeeps ==
  ASSUME SessionsInv, NEW r \in Attempts, CreateSession(r)
  PROVE  SessionsInv'
<1>1. PICK s \in Opened :
        sessions' = [sessions EXCEPT ![s] = [state |-> "live", password |-> attempts[r].password,
                                             crossed |-> attempts[r].crossed]]
  BY DEF CreateSession
<1>2. /\ attempts[r] \in AttemptType /\ attempts \in [Attempts -> AttemptType]
      /\ failures \in [Emails -> Nat] /\ sessions \in [Opened -> SessionType]
      /\ attempts[r].step = "verified" /\ attempts[r].email = Account
  BY SessionsTypes DEF SessionsInv, CreateSession, At, Proper
<1> DEFINE new == [state |-> "live", password |-> attempts[r].password, crossed |-> attempts[r].crossed]
           x == [attempts[r] EXCEPT !.step = "opened"]
<1>3. /\ new \in SessionType /\ new.password = attempts[r].password
      /\ new.crossed <=> attempts[r].crossed
  BY <1>2 DEF SessionType, AttemptType
<1>4. x \in AttemptType /\ x.step = "opened" /\ x.email = Account
  BY <1>2 DEF AttemptType
<1>5. sessions' = [sessions EXCEPT ![s] = new] /\ attempts' = [attempts EXCEPT ![r] = x]
  BY <1>1 DEF CreateSession, Go
<1>6. UNCHANGED <<status, password, failures, links, uses>>
  BY DEF CreateSession
<1> HIDE DEF new, x
<1>7. /\ sessions' \in [Opened -> SessionType] /\ sessions'[s] = new
      /\ \A t \in Opened \ {s} : sessions'[t] = sessions[t]
      /\ attempts' \in [Attempts -> AttemptType] /\ attempts'[r] = x
      /\ \A q \in Attempts \ {r} : attempts'[q] = attempts[q]
  BY <1>2, <1>3, <1>4, <1>5
<1>8. SessionsTypeOK'
  <2>1. \A q \in Attempts : Proper(attempts[q])
    BY SessionsTypes DEF SessionsInv
  <2>2. \A q \in Attempts : Proper(attempts'[q])
    BY <1>4, <1>7, <2>1 DEF Proper
  <2> QED
    BY <1>6, <1>7, <2>2 DEF SessionsInv, SessionsTypeOK, SessionType, AttemptType, Proper
<1>9. \A q \in Attempts : attempts'[q].step = "verified" => attempts'[q] = attempts[q]
  BY <1>4, <1>7
<1>10. Live' \subseteq Live \cup {s}
  BY <1>7 DEF Live
<1>11. KnownOrCrossed'
  <2>1. sessions'[s].password = password \/ sessions'[s].crossed
    BY <1>2, <1>3, <1>7 DEF SessionsInv, KnownOrCrossed, At
  <2>2. \A t \in Opened \ {s} : t \in Live' => sessions'[t].password = password \/ sessions'[t].crossed
    BY <1>7, <1>10 DEF SessionsInv, KnownOrCrossed
  <2> QED
    BY <1>6, <1>7, <1>9, <2>1, <2>2 DEF SessionsInv, KnownOrCrossed, At, Live
<1>12. CrossedUnlessActive'
  <2>1. ~AccountActive => sessions'[s].crossed
    BY <1>2, <1>3, <1>7 DEF SessionsInv, CrossedUnlessActive, At
  <2>2. \A t \in Opened \ {s} : ~AccountActive /\ t \in Live' => sessions'[t].crossed
    BY <1>7, <1>10 DEF SessionsInv, CrossedUnlessActive
  <2> QED
    BY <1>6, <1>7, <1>9, <2>1, <2>2 DEF SessionsInv, CrossedUnlessActive, At, Live, AccountActive
<1>13. OneLiveLink' /\ UsesCounted'
  BY <1>6 DEF SessionsInv, OneLiveLink, UsesCounted
<1>14. Throttled'
  <2>1. \A q \in Attempts : q \in Admitted' => q \in Admitted /\ attempts'[q].email = attempts[q].email
    BY <1>4, <1>7 DEF Admitted
  <2>2. \A e \in Emails : failures'[e] <= failures[e]
    BY <1>2, <1>6
  <2> QED
    BY <1>8, <2>1, <2>2, NothingAdmitted DEF SessionsInv
<1> QED
  BY <1>8, <1>11, <1>12, <1>13, <1>14 DEF SessionsInv

\* Steps that move no attempt and write no failure keep the throttle.
LEMMA AttemptsAtRest ==
  ASSUME SessionsTypeOK, SessionsTypeOK', Throttled,
         \A q \in Attempts : attempts'[q].step \in {attempts[q].step, "idle"}
                             /\ (attempts'[q].step # "idle" => attempts'[q].email = attempts[q].email),
         \A e \in Emails : failures'[e] <= failures[e]
  PROVE  Throttled'
BY NothingAdmitted DEF Admitted

\* The password is set anew and every session ended: left are the logins that
\* were verified before.
LEMMA ResetKeeps ==
  ASSUME SessionsInv, NEW r \in Attempts, ResetPassword(r)
  PROVE  SessionsInv'
<1> DEFINE l == attempts[r].link
<1>1. /\ attempts[r].step = "reset" /\ links[l] = "live"
      /\ password < MaxPasswords /\ password' = password + 1
      /\ links' = [k \in Links |-> IF k = l THEN "used" ELSE Outdated(k)]
      /\ uses' = [uses EXCEPT ![l] = @ + 1]
      /\ sessions' = [s \in Opened |-> Revoked(s)]
      /\ attempts' = [Crossing EXCEPT ![r] = NoAttempt]
      /\ UNCHANGED <<status, failures>>
  BY DEF ResetPassword, StillUsable, Usable, At
<1>2. l \in Links /\ \A q \in Attempts : Proper(attempts[q])
  BY <1>1, SessionsTypes DEF SessionsInv, Proper
<1> HIDE DEF l
<1>3. /\ links' \in [Links -> {"none", "live", "used", "expired"}] /\ links'[l] = "used"
      /\ \A k \in Links \ {l} : links'[k] # "live" /\ (links'[k] = "used" <=> links[k] = "used")
  BY <1>1, <1>2, OtherLinksOutdated DEF SessionsInv
<1>4. sessions' \in [Opened -> SessionType] /\ Live' = {}
  BY <1>1, RevokedIsNotLive DEF SessionsInv, Live
<1>5. /\ attempts' \in [Attempts -> AttemptType]
      /\ \A q \in Attempts : Proper(attempts'[q])
      /\ \A q \in Attempts : attempts'[q].step = "verified" => attempts'[q].crossed
      /\ \A q \in Attempts : attempts'[q].step \in {attempts[q].step, "idle"}
                             /\ (attempts'[q].step # "idle" => attempts'[q].email = attempts[q].email)
  <2>1. \A q \in Attempts : attempts'[q] = IF q = r THEN NoAttempt ELSE Crossing[q]
    BY <1>1, CrossingMarks DEF SessionsInv
  <2> QED
    BY <1>1, <1>2, <2>1, CrossingMarks, NoAttemptIsIdle DEF SessionsInv, Proper
<1>6. password' \in Versions
  BY <1>1, SessionsTypes DEF SessionsInv, Versions
<1>6a. /\ uses' \in [Links -> Nat]
       /\ \A k \in Links : uses'[k] = IF k = l THEN uses[k] + 1 ELSE uses[k]
  BY <1>1, <1>2, SessionsTypes DEF SessionsInv
<1>7. SessionsTypeOK'
  BY <1>1, <1>3, <1>4, <1>5, <1>6, <1>6a DEF SessionsInv, SessionsTypeOK, SessionType, AttemptType, Proper
<1>8. KnownOrCrossed' /\ CrossedUnlessActive'
  BY <1>4, <1>5 DEF KnownOrCrossed, CrossedUnlessActive, At
<1>9. OneLiveLink'
  BY <1>3 DEF OneLiveLink
<1>10. UsesCounted'
  BY <1>1, <1>2, <1>3, <1>6a DEF SessionsInv, UsesCounted
<1>11. Throttled'
  <2>1. \A e \in Emails : failures'[e] <= failures[e]
    BY <1>1, SessionsTypes DEF SessionsInv
  <2> QED
    BY <1>5, <1>7, <2>1, AttemptsAtRest DEF SessionsInv
<1> QED
  BY <1>7, <1>8, <1>9, <1>10, <1>11 DEF SessionsInv

\* Disabling ends every session, an invitation crosses every one; both find the
\* logins that were verified before.
LEMMA ClosingKeeps ==
  ASSUME SessionsInv, Disable \/ Invite
  PROVE  SessionsInv'
<1>1. UNCHANGED <<password, failures, links, uses>> /\ attempts' = Crossing /\ status' \in {"disabled", "invited"}
  BY DEF Disable, Invite
<1>2. /\ sessions' \in [Opened -> SessionType]
      /\ \A s \in Live' : sessions'[s].crossed
  <2>1. CASE Disable
    BY <2>1, RevokedIsNotLive DEF SessionsInv, Disable, Live
  <2>2. CASE Invite
    <3>1. ASSUME NEW s \in Opened
          PROVE  sessions'[s] \in SessionType /\ (sessions'[s].state = "live" => sessions'[s].crossed)
      <4> DEFINE x == [sessions[s] EXCEPT !.crossed = TRUE]
      <4>1. sessions[s] \in SessionType
        BY SessionsTypes DEF SessionsInv
      <4>2. x \in SessionType /\ x.crossed
        BY <4>1 DEF SessionType
      <4>3. sessions'[s] = IF sessions[s].state = "live" THEN x ELSE sessions[s]
        BY <2>2 DEF Invite, Live
      <4> HIDE DEF x
      <4> QED
        BY <4>1, <4>2, <4>3
    <3>2. sessions' = [s \in Opened |-> sessions'[s]]
      BY <2>2 DEF Invite
    <3> QED
      BY <3>1, <3>2 DEF Live
  <2> QED
    BY <2>1, <2>2
<1>3. \A q \in Attempts : Proper(attempts[q])
  BY SessionsTypes DEF SessionsInv
<1>4. /\ attempts' \in [Attempts -> AttemptType]
      /\ \A q \in Attempts : Proper(attempts'[q])
      /\ \A q \in Attempts : attempts'[q].step = "verified" => attempts'[q].crossed
      /\ \A q \in Attempts : attempts'[q].step = attempts[q].step /\ attempts'[q].email = attempts[q].email
  BY <1>1, <1>3, CrossingMarks DEF SessionsInv, Proper
<1>5. SessionsTypeOK'
  BY <1>1, <1>2, <1>4 DEF SessionsInv, SessionsTypeOK, SessionType, AttemptType, Proper
<1>6. KnownOrCrossed' /\ CrossedUnlessActive'
  BY <1>2, <1>4 DEF KnownOrCrossed, CrossedUnlessActive, At
<1>7. OneLiveLink' /\ UsesCounted'
  BY <1>1 DEF SessionsInv, OneLiveLink, UsesCounted
<1>8. Throttled'
  <2>1. \A e \in Emails : failures'[e] <= failures[e]
    BY <1>1, SessionsTypes DEF SessionsInv
  <2> QED
    BY <1>4, <1>5, <2>1, AttemptsAtRest DEF SessionsInv
<1> QED
  BY <1>5, <1>6, <1>7, <1>8 DEF SessionsInv

\* An account comes back when nothing of before is left that is not marked.
LEMMA OpeningKeeps ==
  ASSUME SessionsInv, Enable \/ InvitationAccepted
  PROVE  SessionsInv'
<1>1. /\ UNCHANGED <<failures, sessions, links, uses, attempts>> /\ status' = "active" /\ ~AccountActive
      /\ password' \in {password, password + 1} /\ password' \in Versions /\ password' >= password
  <2>1. password \in Nat /\ password <= MaxPasswords /\ MaxPasswords \in Nat
    BY SessionsTypes DEF SessionsInv
  <2> QED
    BY <2>1 DEF Enable, InvitationAccepted, AccountActive, Versions
<1>2. SessionsTypeOK'
  BY <1>1 DEF SessionsInv, SessionsTypeOK
<1>3. KnownOrCrossed'
  BY <1>1 DEF SessionsInv, CrossedUnlessActive, KnownOrCrossed, Live, At
<1>4. CrossedUnlessActive'
  BY <1>1 DEF CrossedUnlessActive, AccountActive
<1>5. OneLiveLink' /\ UsesCounted'
  BY <1>1 DEF SessionsInv, OneLiveLink, UsesCounted
<1>6. Throttled'
  BY <1>1 DEF SessionsInv, Throttled, FailureRows, FromHere, Admitted, AdmittedFor
<1> QED
  BY <1>2, <1>3, <1>4, <1>5, <1>6 DEF SessionsInv

LEMMA LinkSteps ==
  ASSUME SessionsInv, RequestPasswordReset \/ \E l \in Links : LinkExpires(l)
  PROVE  SessionsInv'
<1>1. UNCHANGED <<status, password, failures, sessions, uses, attempts>>
  BY DEF RequestPasswordReset, CreatePasswordReset, LinkExpires
<1>2. /\ links' \in [Links -> {"none", "live", "used", "expired"}]
      /\ OneLiveLink'
      /\ \A k \in Links : links'[k] = "used" <=> links[k] = "used"
  <2>1. CASE RequestPasswordReset
    <3>1. PICK l \in Links : /\ links[l] = "none"
                             /\ links' = [k \in Links |-> IF k = l THEN "live" ELSE Outdated(k)]
      BY <2>1 DEF RequestPasswordReset, CreatePasswordReset
    <3>2. /\ links' \in [Links -> {"none", "live", "used", "expired"}] /\ links'[l] = "live"
          /\ \A k \in Links \ {l} : links'[k] # "live" /\ (links'[k] = "used" <=> links[k] = "used")
      BY <3>1, OtherLinksOutdated DEF SessionsInv
    <3> QED
      BY <3>1, <3>2 DEF OneLiveLink
  <2>2. CASE \E l \in Links : LinkExpires(l)
    <3>1. PICK l \in Links : links[l] = "live" /\ links' = [links EXCEPT ![l] = "expired"]
      BY <2>2 DEF LinkExpires
    <3> QED
      BY <3>1, SessionsTypes DEF SessionsInv, OneLiveLink
  <2> QED
    BY <2>1, <2>2
<1>3. SessionsTypeOK' /\ KnownOrCrossed' /\ CrossedUnlessActive'
  BY <1>1, <1>2 DEF SessionsInv, SessionsTypeOK, KnownOrCrossed, CrossedUnlessActive, Live, At, AccountActive
<1>4. UsesCounted'
  BY <1>1, <1>2 DEF SessionsInv, UsesCounted
<1>5. Throttled'
  BY <1>1 DEF SessionsInv, Throttled, FailureRows, FromHere, Admitted, AdmittedFor
<1> QED
  BY <1>2, <1>3, <1>4, <1>5 DEF SessionsInv

LEMMA TimePasses ==
  ASSUME SessionsInv, (\E e \in Emails : FailureForgotten(e)) \/ (\E s \in Opened : RevokeSession(s))
  PROVE  SessionsInv'
<1>1. /\ UNCHANGED <<status, password, links, uses, attempts>>
      /\ failures' \in [Emails -> Nat] /\ \A e \in Emails : failures'[e] <= failures[e]
      /\ sessions' \in [Opened -> SessionType]
      /\ \A s \in Live' : s \in Live /\ sessions'[s] = sessions[s]
  <2>1. failures \in [Emails -> Nat] /\ sessions \in [Opened -> SessionType]
    BY SessionsTypes DEF SessionsInv
  <2>2. CASE \E e \in Emails : FailureForgotten(e)
    BY <2>1, <2>2 DEF FailureForgotten, Live
  <2>3. CASE \E s \in Opened : RevokeSession(s)
    <3>1. PICK s \in Opened : RevokeSession(s)
      BY <2>3
    <3>2. sessions' = [sessions EXCEPT ![s] = Revoked(s)] /\ UNCHANGED <<status, password, failures, links, uses, attempts>>
      BY <3>1 DEF RevokeSession
    <3>3. Revoked(s) \in SessionType /\ Revoked(s).state # "live"
      BY RevokedIsNotLive DEF SessionsInv
    <3> QED
      BY <2>1, <3>2, <3>3 DEF Live
  <2> QED
    BY <2>2, <2>3
<1>2. SessionsTypeOK'
  BY <1>1 DEF SessionsInv, SessionsTypeOK, SessionType
<1>3. KnownOrCrossed' /\ CrossedUnlessActive'
  BY <1>1 DEF SessionsInv, KnownOrCrossed, CrossedUnlessActive, At, AccountActive
<1>4. OneLiveLink' /\ UsesCounted'
  BY <1>1 DEF SessionsInv, OneLiveLink, UsesCounted
<1>5. Throttled'
  BY <1>1, <1>2, AttemptsAtRest DEF SessionsInv
<1> QED
  BY <1>2, <1>3, <1>4, <1>5 DEF SessionsInv

LEMMA SessionsStep ==
  ASSUME SessionsInv, [SessionsNext]_sessionsVars
  PROVE  SessionsInv'
<1>1. CASE UNCHANGED sessionsVars
  BY <1>1 DEF sessionsVars, SessionsInv, SessionsTypeOK, KnownOrCrossed, CrossedUnlessActive, OneLiveLink,
              UsesCounted, Throttled, FailureRows, FromHere, Admitted, AdmittedFor, Live, At, AccountActive
<1>2. ASSUME NEW r \in Attempts, HandleAttempt(r) PROVE SessionsInv'
  BY <1>2, LoginSteps, CreateSessionKeeps, ResetKeeps DEF HandleAttempt
<1>3. CASE Disable \/ Invite
  BY <1>3, ClosingKeeps
<1>4. CASE Enable \/ InvitationAccepted
  BY <1>4, OpeningKeeps
<1>5. CASE RequestPasswordReset \/ \E l \in Links : LinkExpires(l)
  BY <1>5, LinkSteps
<1>6. CASE (\E e \in Emails : FailureForgotten(e)) \/ (\E s \in Opened : RevokeSession(s))
  BY <1>6, TimePasses
<1> QED
  BY <1>1, <1>2, <1>3, <1>4, <1>5, <1>6 DEF SessionsNext

LEMMA SessionsInvIsInductive == SessionsSpec => []SessionsInv
<1>1. SessionsInv /\ [SessionsNext]_sessionsVars => SessionsInv'
  BY SessionsStep
<1> QED
  BY <1>1, SessionsInvInit, PTL DEF SessionsSpec

\* A live session knows the password of now, and none outlives the disabling of
\* the account, but for what crossed the change (CreateSession, ResetPassword,
\* UpdateAccess).
THEOREM SessionsAreSound == SessionsSpec => []SessionsSound
<1>1. SessionsInv => SessionsSound
  BY DEF SessionsInv, SessionsSound, SessionsKnowThePassword, NoneSurvivesDisabling,
         KnownOrCrossed, CrossedUnlessActive, AccountActive
<1> QED
  BY <1>1, SessionsInvIsInductive, PTL

\* Of the links sent one works at most. Each that is marked used has set the
\* password exactly once, every other one never, however many recoveries had read
\* it as usable (CreatePasswordReset, ResetPassword).
THEOREM ResetLinksWorkOnce == SessionsSpec => []LinksWorkOnce
<1>1. ASSUME SessionsInv PROVE LinksWorkOnce
  <2> DEFINE live == {l \in Links : links[l] = "live"}
  <2>1. Cardinality(live) <= 1
    <3>1. CASE live = {}
      BY <3>1, FS_EmptySet
    <3>2. CASE live # {}
      <4>1. PICK l \in Links : live = {l}
        BY <1>1, <3>2 DEF SessionsInv, OneLiveLink
      <4>2. Cardinality({l}) = 1
        BY FS_Singleton, Zenon
      <4> HIDE DEF live
      <4> QED
        BY <4>1, <4>2
    <3> QED
      BY <3>1, <3>2
  <2>2. \A l \in Links : uses[l] = IF links[l] = "used" THEN 1 ELSE 0
    BY <1>1 DEF SessionsInv, UsesCounted
  <2> QED
    BY <2>1, <2>2 DEF LinksWorkOnce
<1> QED
  BY <1>1, SessionsInvIsInductive, PTL

\* However many attempts run at once, the failures exceed a limit by no more than
\* what was admitted before they were written (LoginAllowed, RecordLoginFailure).
THEOREM ThrottleBoundsFailures == SessionsSpec => []FailuresAreBounded
<1>1. ASSUME SessionsInv PROVE FailuresAreBounded
  <2>1. /\ \A e \in Emails : failures[e] + Cardinality(AdmittedFor(e)) < PairLimit + Cardinality(Attempts)
        /\ FromHere + Cardinality(Admitted) < IpLimit + Cardinality(Attempts)
        /\ FromHere \in Nat
    BY <1>1, FS_CardinalityType DEF SessionsInv, Throttled, FromHere
  <2>2. \A e \in Emails : failures[e] \in Nat
    BY <1>1 DEF SessionsInv, SessionsTypeOK
  <2> QED
    BY <2>1, <2>2, AdmittedAreAttempts, SessionsAssumption DEF FailuresAreBounded
<1> QED
  BY <1>1, SessionsInvIsInductive, PTL
=============================================================================
