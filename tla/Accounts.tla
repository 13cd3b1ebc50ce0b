------------------------------ MODULE Accounts ------------------------------
(***************************************************************************)
(* The accounts of the back office: invited, activated by a link, managed  *)
(* by administrators and by the superadmins above them.                    *)
(*                                                                         *)
(* A handler reads who acts (the session) and whom it acts upon            *)
(* (ManagedUserByID), decides by what it read, and only then runs the      *)
(* store's transaction. That one is serializable and so is one step; what  *)
(* the decision was taken from may be old by then.                         *)
(***************************************************************************)
EXTENDS Naturals, FiniteSets

CONSTANTS
    Users,      \* e-mail addresses: an account each, once invited
    Requests    \* requests that may be under way at once

ASSUME UsersAssumption == IsFiniteSet(Users)

VARIABLES
    users,      \* the row of each address, its role, overrides and invitations
    requests,
    crossed     \* history: accounts given overrides on what was read before a promotion

vars == <<users, requests, crossed>>

Roles == {"user", "admin", "super_admin"}
Statuses == {"invited", "active", "disabled"}
Elevated(user) == user.role \in {"admin", "super_admin"}
Exists(u) == users[u].status # "absent"

\* overrides: it has rows in user_permission_overrides. invitations: how many
\* of its links are neither used nor expired.
Absent == [status |-> "absent", role |-> "user", password |-> FALSE, overrides |-> FALSE, invitations |-> 0]
Idle == [step |-> "idle", leads |-> FALSE, target |-> {}, invited |-> FALSE, stale |-> FALSE]

TypeOK ==
    /\ users \in [Users -> [status : Statuses \cup {"absent"}, role : Roles, password : BOOLEAN,
                            overrides : BOOLEAN, invitations : Nat]]
    /\ requests \in [Requests -> [step : {"idle", "update", "permit", "invite"}, leads : BOOLEAN,
                                  target : {{}} \cup {{u} : u \in Users},
                                  invited : BOOLEAN, stale : BOOLEAN]]
    /\ \A r \in Requests, u \in Users :
          u \in requests[r].target => Exists(u) /\ requests[r].step \in {"update", "permit"}
    /\ \A u \in Users : ~Exists(u) => users[u] = Absent
    /\ crossed \subseteq Users

Init ==
    /\ users = [u \in Users |-> Absent]
    /\ requests = [r \in Requests |-> Idle]
    /\ crossed = {}

----------------------------------------------------------------------------
(* The rules of package access, by what was read of the two accounts *)

Active(u) == users[u].status = "active"
IsSuperAdmin(u) == users[u].role = "super_admin"
ActiveSuperAdmins == {u \in Users : Active(u) /\ IsSuperAdmin(u)}

ManageAny(actor, target) == actor # target /\ Elevated(users[actor])     \* mutant
CanManageAccount(actor, target) ==
    /\ actor # target
    /\ \/ IsSuperAdmin(actor)
       \/ users[actor].role = "admin" /\ ~Elevated(users[target])

CanAssignRole(leads, role) == leads \/ role = "user"

CanRemoveOne(count) == count >= 1                                        \* mutant
CanRemoveActiveSuperAdmin(count) == count > 1

----------------------------------------------------------------------------
(* The handlers: what they read before the transaction *)

Begin(r, request) == requests[r] = Idle /\ requests' = [requests EXCEPT ![r] = request]
End(r) == requests' = [requests EXCEPT ![r] = Idle]

\* What another request read of u is old from now on.
EndChanging(r, u) ==
    requests' = [q \in Requests |-> IF q = r THEN Idle
                                    ELSE [requests[q] EXCEPT !.stale = @ \/ u \in requests[q].target]]
Change(u, user) == users' = [users EXCEPT ![u] = user]

\* ManagedUserByID
Found(u) == Exists(u)

\* updateUserAccess, in its modes "profile" and "permissions"
StartUpdate(r) ==
    /\ \E actor, target \in Users :
          /\ Active(actor) /\ Found(target) /\ CanManageAccount(actor, target)
          /\ \E step \in {"update", "permit"} :
                /\ step = "permit" => ~Elevated(users[target])
                /\ Begin(r, [Idle EXCEPT !.step = step, !.leads = IsSuperAdmin(actor), !.target = {target},
                                         !.invited = step = "update" /\ users[target].status = "invited"])
    /\ UNCHANGED <<users, crossed>>

\* inviteUser: the account invited is not read before
StartInvite(r) ==
    /\ \E actor \in Users :
          /\ Active(actor) /\ Elevated(users[actor])
          /\ Begin(r, [Idle EXCEPT !.step = "invite", !.leads = IsSuperAdmin(actor)])
    /\ UNCHANGED <<users, crossed>>

\* The form is refused, the client leaves, the process ends, a serialization failure.
EndEarly(r) == requests[r] # Idle /\ End(r) /\ UNCHANGED <<users, crossed>>

----------------------------------------------------------------------------
(* Store.UpdateAccess *)

LeftAsTheyAre(user, role) == user.overrides                              \* mutant
KeptOverrides(user, role) == user.overrides /\ user.role = role

UpdateAccess(r) ==
    /\ requests[r].step = "update"
    /\ \E u \in requests[r].target, status \in Statuses, role \in Roles :
          /\ CanAssignRole(requests[r].leads, role)
          /\ ~(requests[r].invited /\ status = "active")
          /\ IsSuperAdmin(u) /\ (status # "active" \/ role # "super_admin")
                => CanRemoveActiveSuperAdmin(Cardinality(ActiveSuperAdmins))
          /\ LET kept == KeptOverrides(users[u], role)
             IN  /\ Change(u, [users[u] EXCEPT !.status = status, !.role = role, !.overrides = kept])
                 /\ crossed' = IF kept THEN crossed ELSE crossed \ {u}
          /\ EndChanging(r, u)

(* Store.SetPermissionOverrides: of the account as it is now it reads nothing *)
SetPermissionOverrides(r) ==
    /\ requests[r].step = "permit"
    /\ \E u \in requests[r].target :
          /\ Change(u, [users[u] EXCEPT !.overrides = TRUE])
          /\ crossed' = IF Elevated(users[u]) THEN crossed \cup {u} ELSE crossed
          /\ EndChanging(r, u)

(* Store.CreateManagedInvitation *)
LinksLeft(u) == 0
CreateManagedInvitation(r) ==
    /\ requests[r].step = "invite"
    /\ \E u \in Users, role \in Roles :
          /\ CanAssignRole(requests[r].leads, role)
          /\ users[u].status \in {"absent", "invited"}
          /\ Change(u, [users[u] EXCEPT !.status = "invited", !.role = role, !.overrides = FALSE,
                                        !.invitations = LinksLeft(u) + 1])
          /\ crossed' = crossed \ {u}
          /\ EndChanging(r, u)

(* Store.AcceptInvitation, and a link's time running out *)
Acceptable(u) == users[u].invitations > 0 /\ users[u].status = "invited"
AcceptInvitation(u) ==
    /\ Acceptable(u)
    /\ Change(u, [users[u] EXCEPT !.status = "active", !.password = TRUE, !.invitations = 0])
    /\ requests' = [q \in Requests |-> [requests[q] EXCEPT !.stale = @ \/ u \in requests[q].target]]
    /\ UNCHANGED crossed

InvitationExpires(u) ==
    /\ users[u].invitations > 0
    /\ Change(u, [users[u] EXCEPT !.invitations = @ - 1])
    /\ UNCHANGED <<requests, crossed>>

(* Store.BootstrapAdmin, at every start of the command *)
BootstrapAdmin(u) ==
    /\ \/ \A v \in Users : ~Exists(v)
       \/ /\ {v \in Users : Exists(v)} = {u}
          /\ users[u].status = "invited" /\ users[u].invitations = 0
    /\ Change(u, [users[u] EXCEPT !.status = "invited", !.role = "super_admin", !.invitations = @ + 1])
    /\ UNCHANGED <<requests, crossed>>

----------------------------------------------------------------------------

Handle(r) == StartUpdate(r) \/ StartInvite(r) \/ EndEarly(r) \/ UpdateAccess(r)
                \/ SetPermissionOverrides(r) \/ CreateManagedInvitation(r)
Next ==
    \/ \E r \in Requests : Handle(r)
    \/ \E u \in Users : AcceptInvitation(u) \/ InvitationExpires(u) \/ BootstrapAdmin(u)

Spec == Init /\ [][Next]_vars

----------------------------------------------------------------------------
(* Properties *)

\* Once a superadmin is active, one always is: not even two superadmins who
\* disable or demote each other at once lock everybody out. UpdateAccess counts
\* inside the serializable transaction that writes.
SuperAdminRemains == [][ActiveSuperAdmins # {} => ActiveSuperAdmins' # {}]_vars

\* What an account may do, and which request's transaction acts upon it now.
Standing(user) == <<user.status, user.role, user.overrides>>
ActsOn(r, u) ==
    /\ requests[r] # Idle /\ requests'[r] = Idle
    /\ u \in requests[r].target \/ requests[r].step = "invite"
Led(u) == \E r \in Requests : ActsOn(r, u) /\ requests[r].leads
Outrun(u) == \E r \in Requests : ActsOn(r, u) /\ requests[r].stale

\* The person accepts; BootstrapAdmin finds no other account.
Joins(u) ==
    /\ users[u].invitations > 0 /\ users'[u].status = "active"
    /\ users'[u].role = users[u].role /\ users'[u].overrides = users[u].overrides
Alone(u) == \A v \in Users \ {u} : ~Exists(v)

\* An account becomes Admin or Superadmin by a Superadmin or by the bootstrap, and
\* such an account is changed by a Superadmin, or by a transaction that decided on
\* what it had read before the account changed. Only while it is invited it is not
\* protected: CreateManagedInvitation does not read whom it invites, so any Admin
\* who invites the address again makes it a User. The comment of
\* access.CanManageAccount says otherwise.
ElevatedChangedByLeaders ==
    [][\A u \in Users : Standing(users'[u]) # Standing(users[u]) =>
          /\ Elevated(users[u]) =>
                \/ Led(u) \/ Outrun(u)
                \/ /\ users[u].status = "invited"
                   /\ Joins(u) \/ Alone(u) \/ (users'[u].status = "invited" /\ ~Elevated(users'[u]))
          /\ Elevated(users'[u]) /\ users'[u].role # users[u].role => Led(u) \/ Alone(u)]_vars

\* Overrides are a User's: a promotion drops them. Only when the account was
\* promoted between the handler's IsUser and the transaction do they remain.
OverridesAreUsers ==
    \A u \in Users : Elevated(users[u]) /\ users[u].overrides => u \in crossed

\* Of all the links mailed to one address at most one works, whoever sent them:
\* a new invitation or the bootstrap.
OneInvitation == \A u \in Users : users[u].invitations <= 1

\* Both, for every account, whatever the administrators decide by what they read.
AccountsSound == TypeOK /\ OverridesAreUsers /\ OneInvitation

=============================================================================
