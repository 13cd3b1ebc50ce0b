------------------------------ MODULE Sessions ------------------------------
(***************************************************************************)
(* How a person gets in and is kept out: the login with its two throttles, *)
(* the sessions it opens, the recovery of the password by mail and what an *)
(* administrator's disabling does to all of them. One account that exists, *)
(* and the other addresses somebody may try from the same place.           *)
(*                                                                         *)
(* The login is four statements of their own: the count of the failures,   *)
(* the credentials, the session, the cleaning of the failures. Recovery    *)
(* reads the link and hashes the password before its transaction.          *)
(***************************************************************************)
EXTENDS Naturals, FiniteSets

CONSTANTS
    Emails,         \* addresses tried from one IP address
    Account,        \* the one of them that has an account
    Attempts,       \* attempts that may be under way at once
    Opened,         \* sessions that may be opened
    MaxResets,      \* bound: links of recovery asked for
    MaxPasswords,   \* bound: passwords set after the first
    PairLimit,      \* loginRatePairLimit
    IpLimit         \* loginRateIPLimit

ASSUME SessionsAssumption ==
    /\ Account \in Emails /\ IsFiniteSet(Emails) /\ IsFiniteSet(Attempts)
    /\ MaxResets \in Nat /\ MaxPasswords \in Nat /\ PairLimit \in Nat \ {0} /\ IpLimit \in Nat \ {0}

VARIABLES
    status,         \* of the account
    password,       \* how often it was set anew: which password is the current one
    failures,       \* login_failures of the last fifteen minutes
    sessions,
    links,          \* password_reset_tokens
    uses,           \* history: passwords set by each link
    attempts

sessionsVars == <<status, password, failures, sessions, links, uses, attempts>>

Links == 1 .. MaxResets
Versions == 0 .. MaxPasswords
NoSession == [state |-> "none", password |-> 0, crossed |-> FALSE]
NoAttempt == [step |-> "idle", email |-> Account, password |-> 0, crossed |-> FALSE, link |-> 0]

SessionsTypeOK ==
    /\ status \in {"active", "disabled", "invited"}
    /\ password \in Versions
    /\ failures \in [Emails -> Nat]
    /\ sessions \in [Opened -> [state : {"none", "live", "revoked"}, password : Versions, crossed : BOOLEAN]]
    /\ links \in [Links -> {"none", "live", "used", "expired"}]
    /\ uses \in [Links -> Nat]
    /\ attempts \in [Attempts -> [step : {"idle", "allowed", "refused", "verified", "opened", "reset"},
                                  email : Emails, password : Versions, crossed : BOOLEAN,
                                  link : {0} \cup Links]]
    /\ \A r \in Attempts : /\ attempts[r].step \in {"verified", "opened"} => attempts[r].email = Account
                           /\ attempts[r].step = "reset" => attempts[r].link \in Links

SessionsInit ==
    /\ status = "active" /\ password = 0
    /\ failures = [e \in Emails |-> 0]
    /\ sessions = [s \in Opened |-> NoSession]
    /\ links = [l \in Links |-> "none"] /\ uses = [l \in Links |-> 0]
    /\ attempts = [r \in Attempts |-> NoAttempt]

----------------------------------------------------------------------------
(* Helpers *)

At(r, step) == attempts[r].step = step
Go(r, step) == attempts' = [attempts EXCEPT ![r].step = step]
EndAttempt(r) == attempts' = [attempts EXCEPT ![r] = NoAttempt]
Live == {s \in Opened : sessions[s].state = "live"}

AccountActive == status = "active"
FailureRows == UNION {{e} \X (1 .. failures[e]) : e \in Emails}
FromHere == Cardinality(FailureRows)

Kept(s) == sessions[s]                                      \* mutant
Revoked(s) == [sessions[s] EXCEPT !.state = IF @ = "live" THEN "revoked" ELSE @]

\* A login that has read the credentials and has not opened its session yet
\* will open it past whatever revokes the sessions now.
Crossing == [r \in Attempts |->
                IF At(r, "verified") THEN [attempts[r] EXCEPT !.crossed = TRUE] ELSE attempts[r]]

----------------------------------------------------------------------------
(* login *)

BelowOrAt(e) == failures[e] <= PairLimit /\ FromHere < IpLimit    \* mutant
LoginAllowed(e) == failures[e] < PairLimit /\ FromHere < IpLimit
StartLogin(r) ==
    /\ At(r, "idle")
    /\ \E e \in Emails :
          /\ LoginAllowed(e)
          /\ attempts' = [attempts EXCEPT ![r] = [NoAttempt EXCEPT !.step = "allowed", !.email = e]]
    /\ UNCHANGED <<status, password, failures, sessions, links, uses>>

\* FindCredentials: an unknown address, an account that is not active or a wrong
\* password is refused the same way.
CanVerify(e) == e = Account /\ AccountActive
Verify(r) ==
    /\ At(r, "allowed")
    /\ \/ /\ CanVerify(attempts[r].email)
          /\ attempts' = [attempts EXCEPT ![r].step = "verified", ![r].password = password]
       \/ Go(r, "refused")
    /\ UNCHANGED <<status, password, failures, sessions, links, uses>>

RecordLoginFailure(r) ==
    /\ At(r, "refused")
    /\ failures' = [failures EXCEPT ![attempts[r].email] = @ + 1]
    /\ EndAttempt(r)
    /\ UNCHANGED <<status, password, sessions, links, uses>>

CreateSession(r) ==
    /\ At(r, "verified")
    /\ \E s \in Opened :
          /\ sessions[s].state = "none"
          /\ sessions' = [sessions EXCEPT ![s] = [state |-> "live", password |-> attempts[r].password,
                                                  crossed |-> attempts[r].crossed]]
    /\ Go(r, "opened")
    /\ UNCHANGED <<status, password, failures, links, uses>>

ClearLoginFailures(r) ==
    /\ At(r, "opened")
    /\ failures' = [failures EXCEPT ![attempts[r].email] = 0]
    /\ EndAttempt(r)
    /\ UNCHANGED <<status, password, sessions, links, uses>>

\* The client leaves, the process ends, a statement fails.
AttemptEndsEarly(r) ==
    ~At(r, "idle") /\ EndAttempt(r) /\ UNCHANGED <<status, password, failures, sessions, links, uses>>

\* Fifteen minutes after a failure
FailureForgotten(e) ==
    /\ failures[e] > 0
    /\ failures' = [failures EXCEPT ![e] = @ - 1]
    /\ UNCHANGED <<status, password, sessions, links, uses, attempts>>

\* logout, or the session's time is over
RevokeSession(s) ==
    /\ sessions[s].state = "live"
    /\ sessions' = [sessions EXCEPT ![s] = Revoked(s)]
    /\ UNCHANGED <<status, password, failures, links, uses, attempts>>

----------------------------------------------------------------------------
(* Recovery: requestPasswordReset, resetPassword *)

Outdated(l) == IF links[l] = "live" THEN "expired" ELSE links[l]

CreatePasswordReset(l) ==
    /\ AccountActive
    /\ links' = [k \in Links |-> IF k = l THEN "live" ELSE Outdated(k)]
    /\ UNCHANGED <<status, password, failures, sessions, uses, attempts>>

\* Every request makes a token; of an unknown or inactive account nothing is stored.
RequestPasswordReset ==
    \E l \in Links :
        /\ links[l] = "none" /\ \A k \in 1 .. l - 1 : links[k] # "none"
        /\ CreatePasswordReset(l)

Usable(l) == links[l] = "live" /\ AccountActive
StartReset(r) ==
    /\ At(r, "idle")
    /\ \E l \in Links :
          /\ Usable(l)
          /\ attempts' = [attempts EXCEPT ![r] = [NoAttempt EXCEPT !.step = "reset", !.link = l]]
    /\ UNCHANGED <<status, password, failures, sessions, links, uses>>

UsableWhenRead(l) == AccountActive                          \* mutant: the link is not looked at again
StillUsable(l) == Usable(l)
ResetPassword(r) ==
    /\ At(r, "reset")
    /\ LET l == attempts[r].link
       IN  /\ StillUsable(l) /\ password < MaxPasswords
           /\ password' = password + 1
           /\ links' = [k \in Links |-> IF k = l THEN "used" ELSE Outdated(k)]
           /\ uses' = [uses EXCEPT ![l] = @ + 1]
    /\ sessions' = [s \in Opened |-> Revoked(s)]
    /\ attempts' = [Crossing EXCEPT ![r] = NoAttempt]
    /\ UNCHANGED <<status, failures>>

\* An hour after it was sent
LinkExpires(l) ==
    /\ links[l] = "live"
    /\ links' = [links EXCEPT ![l] = "expired"]
    /\ UNCHANGED <<status, password, failures, sessions, uses, attempts>>

----------------------------------------------------------------------------
(* Store.UpdateAccess, of this account: only "disabled" revokes sessions *)

Disable ==
    /\ status' = "disabled"
    /\ sessions' = [s \in Opened |-> Revoked(s)]
    /\ attempts' = Crossing
    /\ UNCHANGED <<password, failures, links, uses>>

\* The handler refuses to make active what it read as invited, but another
\* administrator may have put the account back to "invited" since.
Enable ==
    /\ ~AccountActive /\ status' = "active"
    /\ UNCHANGED <<password, failures, sessions, links, uses, attempts>>

\* Back to "invited", the sessions as they are: SessionUser refuses them for now.
Invite ==
    /\ status' = "invited"
    /\ sessions' = [s \in Opened |-> IF s \in Live THEN [sessions[s] EXCEPT !.crossed = TRUE] ELSE sessions[s]]
    /\ attempts' = Crossing
    /\ UNCHANGED <<password, failures, links, uses>>

\* Store.AcceptInvitation, by a new link
InvitationAccepted ==
    /\ status = "invited" /\ password < MaxPasswords
    /\ status' = "active"
    /\ password' = password + 1
    /\ UNCHANGED <<failures, sessions, links, uses, attempts>>

----------------------------------------------------------------------------

HandleAttempt(r) ==
    \/ StartLogin(r) \/ Verify(r) \/ RecordLoginFailure(r) \/ CreateSession(r) \/ ClearLoginFailures(r)
    \/ StartReset(r) \/ ResetPassword(r) \/ AttemptEndsEarly(r)
SessionsNext ==
    \/ \E r \in Attempts : HandleAttempt(r)
    \/ \E e \in Emails : FailureForgotten(e)
    \/ \E s \in Opened : RevokeSession(s)
    \/ \E l \in Links : LinkExpires(l)
    \/ RequestPasswordReset \/ Disable \/ Enable \/ Invite \/ InvitationAccepted

SessionsSpec == SessionsInit /\ [][SessionsNext]_sessionsVars

----------------------------------------------------------------------------
(* Properties *)

\* A live session was opened with the password of now: a recovery ends all that
\* were opened before. Left are the session of a login that had been verified with
\* the old password and opens it after them, and those of an account that was put
\* back to "invited".
SessionsKnowThePassword ==
    \A s \in Live : sessions[s].password = password \/ sessions[s].crossed

\* While the account is disabled no session is left to come back to life when it is
\* enabled again, except that of a login under way when it was disabled.
NoneSurvivesDisabling == status = "disabled" => \A s \in Live : sessions[s].crossed

\* Both: what was known or allowed when a session was opened still is.
SessionsSound == SessionsTypeOK /\ SessionsKnowThePassword /\ NoneSurvivesDisabling

\* However many recoveries run at once, with the link read before the password is
\* hashed: of all links sent one at most is good, a link sets the password once if
\* it is marked used, and one that was replaced or ran out before sets none.
LinksWorkOnce ==
    /\ Cardinality({l \in Links : links[l] = "live"}) <= 1
    /\ \A l \in Links : uses[l] = IF links[l] = "used" THEN 1 ELSE 0

\* What the throttles let through: the limit, and one more for each other attempt
\* that was admitted before the failures were written.
FailuresAreBounded ==
    /\ \A e \in Emails : failures[e] < PairLimit + Cardinality(Attempts)
    /\ FromHere < IpLimit + Cardinality(Attempts)
=============================================================================
