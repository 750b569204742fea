------------------------------- MODULE SignIn -------------------------------
(***************************************************************************)
(* One user's account: signing in, the password, the link that resets it,    *)
(* and what administrators do to it.  Passwords are hashed and verified       *)
(* between transactions, so every request reads the account, works for a     *)
(* while, and looks again with the row of users locked.  A command that       *)
(* locks this row is two steps: the lock with its checks, and the commit,     *)
(* before which requests that need other rows only go on.                    *)
(***************************************************************************)
EXTENDS Naturals

CONSTANTS
  Calls,        \* requests in flight, of the user and of administrators
  Hashes,       \* what password_hash holds: every hash has its own salt
  Links,        \* reset links
  Threshold,    \* LOCKOUT_THRESHOLD
  MaxFailures,  \* bound on failed_login_count
  Null

ASSUME SignInAssumption ==
  /\ Threshold \in Nat \ {0} /\ MaxFailures \in Nat
  /\ Null \notin Hashes /\ Null \notin Links

VARIABLES
  account, \* the row of users
  opened,  \* the hashes under which the sessions that are not revoked were opened
  reset,   \* the unused row of password_reset_tokens
  call,    \* call[c]: how far the request c is, and what it has read
  tries    \* attempts admitted since the count was reset or a lock ended (history)

accountVars == <<account, opened, reset, call, tries>>

Account == [status : {"INVITED", "ACTIVE", "DISABLED"}, hash : Hashes \cup {Null},
            failed : 0..MaxFailures, lock : {"none", "running", "over", "old"}]
NoReset == [link |-> Null, live |-> FALSE]

\* Who holds the row of users, that of the link, and the organization's lock.
RowHeld == {"signing", "changing", "clearing", "setting", "disabling", "enabling", "unlocking"}
LinkHeld == {"issuing", "clearing", "claimed", "setting"}
AdminHeld == {"issuing", "clearing", "disabling", "enabling", "unlocking"}
Free(held) == \A c \in Calls : call[c].pc \notin held

Call == [pc : {"idle", "verifying", "checking", "redeeming"} \cup RowHeld \cup LinkHeld,
         hash : Hashes \cup {Null}, link : Links \cup {Null}]
Idle == [pc |-> "idle", hash |-> Null, link |-> Null]

AccountTypeOK ==
  /\ account \in Account
  /\ opened \subseteq Hashes
  /\ reset \in [link : Links \cup {Null}, live : BOOLEAN]
  /\ call \in [Calls -> Call]
  /\ tries \in Nat

\* A user is invited with a link, or created with a password by the seed.
AccountInit ==
  /\ \/ /\ account = [status |-> "INVITED", hash |-> Null, failed |-> 0, lock |-> "none"]
        /\ \E l \in Links : reset = [link |-> l, live |-> TRUE]
     \/ /\ \E h \in Hashes : account = [status |-> "ACTIVE", hash |-> h, failed |-> 0, lock |-> "none"]
        /\ reset = NoReset
  /\ opened = {} /\ call = [c \in Calls |-> Idle] /\ tries = 0

Goes(c, pc) == call' = [call EXCEPT ![c].pc = pc]
Ends(c) == call' = [call EXCEPT ![c] = Idle]

\* Hashes and links that no row and no request knows; a new one is one of these.
FreshHashes == Hashes \ ({account.hash} \cup opened \cup {call[c].hash : c \in Calls})
FreshLinks == Links \ ({reset.link} \cup {call[c].link : c \in Calls})
NewHash == CHOOSE h \in FreshHashes : TRUE
NewLink == CHOOSE l \in FreshLinks : TRUE

----------------------------------------------------------------------------
(* Signing in                                                               *)

\* effectiveFailureCount: a lock that ended a day ago starts the count again.
Effective(a) == IF a.lock = "old" THEN 0 ELSE a.failed

MutLocksAt(n) == n > Threshold /\ n % Threshold = 0

\* lockoutDurationMs: every Threshold-th failure locks; for how long is left out.
LocksAt(n) == n >= Threshold /\ n % Threshold = 0

\* Used with the row locked: every attempt is counted before it is verified.
Counted(a) ==
  LET n == Effective(a) + 1 IN
  [a EXCEPT !.failed = n, !.lock = IF LocksAt(n) THEN "running" ELSE "none"]

Uncounted(a) == [a EXCEPT !.failed = 0, !.lock = "none"]

\* admitLoginAttempt.  A blocked attempt is answered like a wrong password and
\* changes nothing.
AdmitLoginAttempt(c) ==
  /\ call[c] = Idle /\ Free(RowHeld)
  /\ account.status = "ACTIVE" /\ account.hash # Null /\ account.lock # "running"
  /\ Effective(account) < MaxFailures
  /\ account' = Counted(account) /\ tries' = tries + 1
  /\ call' = [call EXCEPT ![c] = [Idle EXCEPT !.pc = "verifying", !.hash = account.hash]]
  /\ UNCHANGED <<opened, reset>>

MutUnchanged(c) == account.status = "ACTIVE"    \* the password is not compared

\* The check under the row lock: disabled, or its password replaced, meanwhile?
Unchanged(c) == account.status = "ACTIVE" /\ account.hash = call[c].hash

\* The password was right.
Recheck(c) ==
  /\ call[c].pc = "verifying" /\ Free(RowHeld)
  /\ IF Unchanged(c) THEN Goes(c, "signing") ELSE Ends(c)
  /\ UNCHANGED <<account, opened, reset, tries>>

\* recordSuccessfulLogin, createSession and the commit.
SignedIn(c) ==
  /\ call[c].pc = "signing"
  /\ account' = Uncounted(account) /\ tries' = 0
  /\ opened' = opened \cup {call[c].hash}
  /\ Ends(c) /\ UNCHANGED reset

----------------------------------------------------------------------------
(* The password                                                             *)

\* setPassword, then revokeAllUserSessions: of those that are committed.
SetPassword(h) == account' = [Uncounted(account) EXCEPT !.hash = h] /\ tries' = 0

\* changePassword reads the hash and verifies the current password.
ReadPassword(c) ==
  /\ call[c] = Idle /\ Free(RowHeld)
  /\ account.status = "ACTIVE" /\ account.hash # Null
  /\ call' = [call EXCEPT ![c] = [Idle EXCEPT !.pc = "checking", !.hash = account.hash]]
  /\ UNCHANGED <<account, opened, reset, tries>>

LockPassword(c) ==
  /\ call[c].pc = "checking" /\ Free(RowHeld)
  /\ IF Unchanged(c) THEN Goes(c, "changing") ELSE Ends(c)
  /\ UNCHANGED <<account, opened, reset, tries>>

\* The user is signed out everywhere, and in again here; unused links are used up.
ChangePassword(c) ==
  /\ call[c].pc = "changing"
  /\ reset.link # Null => Free(LinkHeld)
  /\ FreshHashes # {} /\ SetPassword(NewHash) /\ opened' = {NewHash}
  /\ reset' = NoReset
  /\ Ends(c)

\* issuePasswordReset: under the organization's lock, links are replaced before
\* the row of the user is waited for.
IssueLink(c) ==
  /\ call[c] = Idle /\ Free(AdminHeld) /\ Free(LinkHeld)
  /\ account.status \in {"ACTIVE", "INVITED"}
  /\ FreshLinks # {}
  /\ call' = [call EXCEPT ![c] = [Idle EXCEPT !.pc = "issuing", !.link = NewLink]]
  /\ UNCHANGED <<account, opened, reset, tries>>

ClearPassword(c) ==
  /\ call[c].pc = "issuing" /\ Free(RowHeld)
  /\ Goes(c, "clearing")
  /\ UNCHANGED <<account, opened, reset, tries>>

IssuePasswordReset(c) ==
  /\ call[c].pc = "clearing"
  /\ SetPassword(Null) /\ opened' = {}
  /\ reset' = [link |-> call[c].link, live |-> TRUE]
  /\ Ends(c)

\* completePasswordReset: the link is looked up, the new password hashed.
FindLink(c) ==
  /\ call[c] = Idle /\ reset.live
  /\ call' = [call EXCEPT ![c] = [Idle EXCEPT !.pc = "redeeming", !.link = reset.link]]
  /\ UNCHANGED <<account, opened, reset, tries>>

\* claimResetToken, which waits for whoever replaces or claims the link.
ClaimLink(c) ==
  /\ call[c].pc = "redeeming" /\ Free(LinkHeld)
  /\ IF reset = [link |-> call[c].link, live |-> TRUE] THEN Goes(c, "claimed") ELSE Ends(c)
  /\ UNCHANGED <<account, opened, reset, tries>>

\* A disabled user cannot use a link; the claim is rolled back.
LockUser(c) ==
  /\ call[c].pc = "claimed" /\ Free(RowHeld)
  /\ IF account.status = "DISABLED" THEN Ends(c) ELSE Goes(c, "setting")
  /\ UNCHANGED <<account, opened, reset, tries>>

CompletePasswordReset(c) ==
  /\ call[c].pc = "setting"
  /\ FreshHashes # {}
  /\ account' = [Uncounted(account) EXCEPT !.hash = NewHash, !.status = "ACTIVE"]
  /\ tries' = 0 /\ opened' = {} /\ reset' = NoReset
  /\ Ends(c)

----------------------------------------------------------------------------
(* Administration, under the lock of the organization                       *)

Administers(c, pc) ==
  /\ call[c] = Idle /\ Free(AdminHeld) /\ Free(RowHeld)
  /\ Goes(c, pc)
  /\ UNCHANGED <<account, opened, reset, tries>>

LockDisable(c) == account.status # "DISABLED" /\ Administers(c, "disabling")
LockEnable(c) == account.status = "DISABLED" /\ Administers(c, "enabling")
LockUnlock(c) == account.status = "ACTIVE" /\ Administers(c, "unlocking")

DisableUser(c) ==
  /\ call[c].pc = "disabling"
  /\ account' = [account EXCEPT !.status = "DISABLED"] /\ opened' = {}
  /\ Ends(c) /\ UNCHANGED <<reset, tries>>

EnableUser(c) ==
  /\ call[c].pc = "enabling"
  /\ account' = [Uncounted(account) EXCEPT !.status = "ACTIVE"] /\ tries' = 0
  /\ opened' = {}
  /\ Ends(c) /\ UNCHANGED reset

UnlockUser(c) ==
  /\ call[c].pc = "unlocking"
  /\ account' = [Uncounted(account) EXCEPT !.status = "ACTIVE"] /\ tries' = 0
  /\ Ends(c) /\ UNCHANGED <<opened, reset>>

----------------------------------------------------------------------------
(* One session, time, and failures                                          *)

\* logout, revokeOwnSession and the reuse of a refresh token revoke one of the
\* sessions opened under h, perhaps the last one.
RevokeSession(h) ==
  /\ h \in opened /\ opened' = opened \ {h}
  /\ UNCHANGED <<account, reset, call, tries>>

LockEnds ==
  /\ account.lock = "running"
  /\ account' = [account EXCEPT !.lock = "over"] /\ tries' = 0
  /\ UNCHANGED <<opened, reset, call>>

LockAges ==
  /\ account.lock = "over"
  /\ account' = [account EXCEPT !.lock = "old"]
  /\ UNCHANGED <<opened, reset, call, tries>>

LinkExpires ==
  /\ reset.live /\ reset' = [reset EXCEPT !.live = FALSE]
  /\ UNCHANGED <<account, opened, call, tries>>

\* The password was wrong, the client gave up, the transaction was rolled back.
Fails(c) ==
  /\ call[c] # Idle /\ Ends(c)
  /\ UNCHANGED <<account, opened, reset, tries>>

AccountNext ==
  \/ \E c \in Calls :
       \/ AdmitLoginAttempt(c) \/ Recheck(c) \/ SignedIn(c)
       \/ ReadPassword(c) \/ LockPassword(c) \/ ChangePassword(c)
       \/ IssueLink(c) \/ ClearPassword(c) \/ IssuePasswordReset(c)
       \/ FindLink(c) \/ ClaimLink(c) \/ LockUser(c) \/ CompletePasswordReset(c)
       \/ LockDisable(c) \/ LockEnable(c) \/ LockUnlock(c)
       \/ DisableUser(c) \/ EnableUser(c) \/ UnlockUser(c)
       \/ Fails(c)
  \/ \E h \in Hashes : RevokeSession(h)
  \/ LockEnds \/ LockAges \/ LinkExpires

AccountSpec == AccountInit /\ [][AccountNext]_accountVars

----------------------------------------------------------------------------
(* Properties                                                               *)

\* Whoever is signed in could sign in now: a session that is not revoked was opened
\* under the present password of an active user, and while a link is out nobody is
\* signed in and no password works ("revoke sessions explicitly", of which the
\* comparison with password_changed_at is only the second line of defence).
SessionsCurrent ==
  /\ opened # {} => account.status = "ACTIVE" /\ opened = {account.hash}
  /\ reset.link # Null => account.hash = Null

\* "At most LOCKOUT_THRESHOLD of them are admitted before the account locks",
\* however many attempts are in flight and whatever else resets the count.
AttemptsCounted == tries <= Threshold
=============================================================================
