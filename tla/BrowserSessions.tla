--------------------------- MODULE BrowserSessions --------------------------
(***************************************************************************)
(* Browser sessions, MFA and the account lifecycle that fences them:       *)
(* apps/api/authentication/sessions.py (SessionService), mfa.py            *)
(* (MfaService), repository.py, apps/api/accounts/lifecycle.py and the     *)
(* triggers of migrations 0019-0021.                                       *)
(*                                                                         *)
(* The module follows one person (one row of auth_identities with its one  *)
(* password).  Every command of SessionService and MfaService begins by    *)
(* locking that row, so a transaction is one step; the account commands of *)
(* the operator lock the account row instead, so they do interleave with a *)
(* login that has read the account and has not yet committed, and the      *)
(* login is two steps under the variable lock.  What lies between two      *)
(* transactions of one call (hashing, the budget of attempts) is a step of *)
(* a thread.  Tokens are the positions of their rows.  The person is a     *)
(* member beside another owner, so the seat checks of 0019 do not bite.    *)
(***************************************************************************)
EXTENDS Integers, Sequences, FiniteSets

CONSTANTS
  Threads,            \* requests that are in flight at a time
  Accounts,           \* accounts the person is a member of
  Beginnings,         \* "person": no MFA; "bootstrapped", "enrolled": an administrator
  CodesPerSet,        \* recovery codes in a set (10 in _codes)
  StepUpActions,      \* what a step-up may be asked for
  MaxAttempts,        \* attempts a challenge allows (5)
  TimeSteps,          \* TOTP time steps a code may be computed for
  SessionBound,       \* bound of the model: sessions ever issued
  ChallengeBound,     \* bound of the model: challenges ever minted
  ChangeBound,        \* bound of the model: operator commands, rehashes and expiries
  None

ASSUME SessionsAssumption ==
  /\ TimeSteps \subseteq Nat
  /\ Beginnings \subseteq {"person", "bootstrapped", "enrolled"}
  /\ StepUpActions \subseteq {"password.change", "recovery.rotate", "mfa.replace"}
  /\ {CodesPerSet, MaxAttempts, SessionBound, ChallengeBound, ChangeBound} \subseteq Nat
  /\ None \notin Threads \cup Accounts \cup Nat

VARIABLES
  admin,       \* platform_role = 'admin' (nothing under src/ changes a role)
  identity,    \* auth_identities: status, subject_version
  credential,  \* auth_password_credentials: status, version, the password behind the hash
  security,    \* auth_subject_security: session_epoch, enrollment_allowed
  accounts,    \* auth_accounts with the person's membership
  sessions,    \* auth_sessions with auth_session_mfa, in the order of issue
  challenges,  \* auth_challenges, in the order of issue
  factors,     \* auth_mfa_factors, in the order of enrolment
  codes,       \* auth_recovery_codes not consumed
  lock,        \* the thread whose transaction holds the row of auth_identities
  pc,          \* what a thread does next
  hand,        \* what a thread has read in an earlier transaction
  changes      \* bounds the model

vars == <<admin, identity, credential, security, accounts, sessions, challenges,
          factors, codes, lock, pc, hand, changes>>
local == <<lock, pc, hand>>
rows == <<identity, credential, security, accounts, factors, codes>>

Purposes == {"login", "recovery", "enroll_start", "enroll", "step_up", "proof"}
CodePurposes == [complete |-> {"enroll", "login", "step_up"}, recover |-> {"login", "recovery"}]

Nothing == [account |-> None, session |-> 0, challenge |-> 0, version |-> 0,
            pwd |-> 0, op |-> None]

-----------------------------------------------------------------------------
(* The rows a command writes.  from, by, root, pwd and tried are history:  *)
(* the challenge and the code a row was obtained with, the kind of         *)
(* evidence its chain began with, the password that was proved, and how    *)
(* often a code was compared.                                              *)

Challenge(purpose, account, epoch, factor, pwd) ==
  [purpose |-> purpose, account |-> account, cver |-> credential.version,
   sver |-> identity.version, epoch |-> epoch, factor |-> factor, session |-> 0,
   target |-> None, consumed |-> FALSE, expired |-> FALSE, attempts |-> 0,
   tried |-> 0, pwd |-> pwd, from |-> 0, by |-> <<>>, root |-> "password"]

Session(account, epoch, pwd) ==
  [account |-> account, cver |-> credential.version, sver |-> identity.version,
   epoch |-> epoch, mfa |-> None, revoked |-> FALSE, expired |-> FALSE, pwd |-> pwd,
   from |-> 0, by |-> <<>>]

\* Ten codes of one factor, minted with the challenge c.
CodeSet(f, c) == [factor : {f}, set : {c}, n : 1..CodesPerSet]

\* A person with a password, an administrator whom bootstrap() has allowed to
\* enrol, or one who enrolled some time ago (factor 0) and has a session open.
Init ==
  /\ identity = [status |-> "active", version |-> 1]
  /\ credential = [status |-> "active", version |-> 1, pwd |-> 1]
  /\ \E b \in Beginnings :
       /\ admin = (b # "person")
       /\ security = [epoch |-> 1, enrol |-> b = "bootstrapped"]
       /\ factors = IF b = "enrolled" THEN <<[id |-> 0, step |-> 0, revoked |-> FALSE]>> ELSE <<>>
       /\ codes = IF b = "enrolled" THEN CodeSet(0, 0) ELSE {}
       /\ \E a \in Accounts :
            sessions = IF b = "enrolled" THEN <<[Session(a, 1, 1) EXCEPT !.mfa = 0]>> ELSE <<>>
  /\ accounts = [a \in Accounts |-> [status |-> "active", live |-> TRUE, member |-> TRUE]]
  /\ challenges = <<>>
  /\ lock = None
  /\ pc = [t \in Threads |-> "idle"]
  /\ hand = [t \in Threads |-> Nothing]
  /\ changes = 0
-----------------------------------------------------------------------------
(* What is read on every request.                                          *)

IsActive(acc) == acc.status = "active" /\ acc.live
Admits(a) == IsActive(accounts[a]) /\ accounts[a].member

\* A session or a challenge still carries the versions it was issued under.
IsBound(r) ==
  /\ identity.status = "active"
  /\ credential.status = "active"
  /\ r.cver = credential.version
  /\ r.sver = identity.version
  /\ r.epoch = security.epoch
  /\ Admits(r.account)

ActiveFactor(f) == \E i \in DOMAIN factors : factors[i].id = f /\ ~factors[i].revoked
HasFactor == \E i \in DOMAIN factors : ~factors[i].revoked

Loads(s) ==
  LET row == sessions[s] IN
  /\ IsBound(row)
  /\ ~row.revoked /\ ~row.expired
  /\ (admin \/ row.mfa # None) => ActiveFactor(row.mfa)

Usable(c) ==
  LET row == challenges[c] IN
  /\ IsBound(row)
  /\ ~row.consumed /\ ~row.expired
  /\ row.session # 0 => Loads(row.session)

ProofOf(p, s, action) ==
  /\ Usable(p)
  /\ challenges[p].purpose = "proof"
  /\ challenges[p].session = s
  /\ challenges[p].target = action
  /\ ActiveFactor(challenges[p].factor)
-----------------------------------------------------------------------------
(* How a command changes the rows.                                         *)

RevokedIn(ss, which) ==
  [s \in DOMAIN ss |-> IF s \in which THEN [ss[s] EXCEPT !.revoked = TRUE] ELSE ss[s]]
AllRevoked == RevokedIn(sessions, DOMAIN sessions)
NextEpoch == [security EXCEPT !.epoch = @ + 1]

Consumed(cs, which) ==
  [c \in DOMAIN cs |-> IF c \in which THEN [cs[c] EXCEPT !.consumed = TRUE] ELSE cs[c]]

FactorsRevoked == [i \in DOMAIN factors |-> [factors[i] EXCEPT !.revoked = TRUE]]
\* Mutant: the time step of a code is not kept.
StepSpentForgotten(f, step) == factors

StepSpent(f, step) ==
  [i \in DOMAIN factors |->
     IF factors[i].id = f THEN [factors[i] EXCEPT !.step = step] ELSE factors[i]]

\* The bounds of the model; a request that could not end is not begun.
NewChallenge == Len(challenges) + 1
MayMint == Len(challenges) < ChallengeBound
MayIssue == Len(sessions) < SessionBound
MayChange == changes < ChangeBound

Goes(t, where, what) ==
  /\ pc' = [pc EXCEPT ![t] = where]
  /\ hand' = [hand EXCEPT ![t] = what]
Ends(t) == Goes(t, "idle", Nothing)
-----------------------------------------------------------------------------
(* SessionService                                                          *)

\* The candidate is read, and the password verified against it, before the
\* transaction of the login.
LoginReads(t) ==
  /\ IF admin THEN MayMint ELSE MayIssue
  /\ pc[t] = "idle"
  /\ credential.status = "active"
  /\ Goes(t, "verified", [Nothing EXCEPT !.version = credential.version, !.pwd = credential.pwd])
  /\ UNCHANGED <<admin, rows, sessions, challenges, lock, changes>>

\* Mutant: the login trusts the candidate it read before the transaction.
LoginLocksAsRead(t, a) ==
  /\ pc[t] = "verified"
  /\ lock = None
  /\ identity.status = "active"
  /\ credential.status = "active"
  /\ Admits(a)
  /\ lock' = t
  /\ Goes(t, "admitted", [hand[t] EXCEPT !.account = a])
  /\ UNCHANGED <<admin, rows, sessions, challenges, changes>>

LoginLocks(t, a) ==
  /\ pc[t] = "verified"
  /\ lock = None
  /\ identity.status = "active"
  /\ credential.status = "active"
  /\ credential.version = hand[t].version
  /\ Admits(a)
  /\ lock' = t
  /\ Goes(t, "admitted", [hand[t] EXCEPT !.account = a])
  /\ UNCHANGED <<admin, rows, sessions, challenges, changes>>

\* The rest of the transaction of login(): a rehash ends every session, the
\* session of the browser is replaced, and a factor turns the login into a
\* challenge.  old is the session the browser presents, 0 when it has none.
LoginCommits(t, old, rehash) ==
  LET ver   == credential.version + (IF rehash THEN 1 ELSE 0)
      sec   == IF rehash THEN NextEpoch ELSE security
      ended == RevokedIn(sessions, IF rehash THEN DOMAIN sessions ELSE {old})
      mint(purpose, factor) ==
        /\ MayMint
        /\ challenges' = Append(challenges,
             [Challenge(purpose, hand[t].account, sec.epoch, factor, hand[t].pwd) EXCEPT !.cver = ver])
        /\ sessions' = ended
      issue ==
        /\ MayIssue
        /\ sessions' = Append(ended,
             [Session(hand[t].account, sec.epoch, hand[t].pwd) EXCEPT !.cver = ver])
        /\ UNCHANGED challenges
  IN
  /\ pc[t] = "admitted"
  /\ rehash => MayChange
  /\ \/ /\ HasFactor
        /\ \E i \in DOMAIN factors : ~factors[i].revoked /\ mint("login", factors[i].id)
     \/ /\ ~HasFactor
        /\ factors # <<>>
        /\ mint("recovery", factors[Len(factors)].id)
     \/ /\ factors = <<>>
        /\ admin
        /\ security.enrol
        /\ mint("enroll_start", NewChallenge)
     \/ /\ factors = <<>>
        /\ ~admin
        /\ issue
  /\ credential' = [credential EXCEPT !.version = ver]
  /\ security' = sec
  /\ changes' = changes + (IF rehash THEN 1 ELSE 0)
  /\ lock' = None
  /\ Ends(t)
  /\ UNCHANGED <<admin, identity, accounts, factors, codes>>

\* logout() does not ask whether the session still loads.
Logout(s) ==
  /\ lock = None
  /\ ~sessions[s].revoked
  /\ sessions' = RevokedIn(sessions, {s})
  /\ UNCHANGED <<admin, rows, challenges, local, changes>>

\* One session or its family: a family has one session.
Revoke(s, target) ==
  /\ lock = None
  /\ Loads(s)
  /\ ~sessions[target].revoked
  /\ sessions' = RevokedIn(sessions, {target})
  /\ UNCHANGED <<admin, rows, challenges, local, changes>>

RevokeAll(s) ==
  /\ lock = None
  /\ Loads(s)
  /\ sessions' = AllRevoked
  /\ security' = NextEpoch
  /\ UNCHANGED <<admin, identity, credential, accounts, factors, codes, challenges, local, changes>>

ChangeReads(t, s) ==
  /\ pc[t] = "idle"
  /\ lock = None
  /\ Loads(s)
  /\ Goes(t, "changing", [Nothing EXCEPT !.session = s, !.version = credential.version,
                                         !.pwd = credential.pwd])
  /\ UNCHANGED <<admin, rows, sessions, challenges, lock, changes>>

\* p is the proof of a step-up, needed by a session that has a factor.
ChangeCommits(t, p) ==
  LET s == hand[t].session IN
  /\ pc[t] = "changing"
  /\ lock = None
  /\ Loads(s)
  /\ credential.version = hand[t].version
  /\ IF sessions[s].mfa # None
     THEN p # 0 /\ ProofOf(p, s, "password.change")
     ELSE p = 0
  /\ challenges' = Consumed(challenges, {p})
  /\ credential' = [credential EXCEPT !.version = @ + 1, !.pwd = @ + 1]
  /\ sessions' = AllRevoked
  /\ security' = NextEpoch
  /\ Ends(t)
  /\ UNCHANGED <<admin, identity, accounts, factors, codes, lock, changes>>
-----------------------------------------------------------------------------
(* MfaService                                                              *)

BeginEnrollment(c) ==
  LET row == challenges[c] IN
  /\ MayMint
  /\ lock = None
  /\ Usable(c)
  /\ row.purpose = "enroll_start"
  /\ ~HasFactor
  /\ challenges' = Append(Consumed(challenges, {c}),
       [Challenge("enroll", row.account, row.epoch, row.factor, row.pwd) EXCEPT
          !.from = c, !.root = row.root])
  /\ UNCHANGED <<admin, rows, sessions, local, changes>>

\* _attempt: looked at in one transaction, counted in a second one after the
\* rate limit, and only then compared in a third.
AttemptChecks(t, c, op) ==
  /\ IF op = "recover" \/ challenges[c].purpose = "step_up" THEN MayMint ELSE MayIssue
  /\ pc[t] = "idle"
  /\ lock = None
  /\ Usable(c)
  /\ challenges[c].purpose \in CodePurposes[op]
  /\ Goes(t, "attempting", [Nothing EXCEPT !.challenge = c, !.op = op])
  /\ UNCHANGED <<admin, rows, sessions, challenges, lock, changes>>

\* Mutant: one attempt more.
AttemptCountsOneMore(t) ==
  LET c == hand[t].challenge IN
  /\ pc[t] = "attempting"
  /\ lock = None
  /\ Usable(c)
  /\ challenges[c].attempts <= MaxAttempts
  /\ challenges' = [challenges EXCEPT ![c].attempts = @ + 1]
  /\ Goes(t, "comparing", hand[t])
  /\ UNCHANGED <<admin, rows, sessions, lock, changes>>

\* Mutant: the attempt is counted in the transaction of the comparison, and
\* rolled back with the error it raises.
AttemptNotCounted(t) ==
  LET c == hand[t].challenge IN
  /\ pc[t] = "attempting"
  /\ lock = None
  /\ Usable(c)
  /\ challenges[c].attempts < MaxAttempts
  /\ Goes(t, "comparing", hand[t])
  /\ UNCHANGED <<admin, rows, sessions, challenges, lock, changes>>

AttemptCounts(t) ==
  LET c == hand[t].challenge IN
  /\ pc[t] = "attempting"
  /\ lock = None
  /\ Usable(c)
  /\ challenges[c].attempts < MaxAttempts
  /\ challenges' = [challenges EXCEPT ![c].attempts = @ + 1]
  /\ Goes(t, "comparing", hand[t])
  /\ UNCHANGED <<admin, rows, sessions, lock, changes>>

\* Mutant: the third transaction asks only whether the challenge is consumed.
ComparesAsCounted(t, op, purposes) ==
  /\ pc[t] = "comparing"
  /\ hand[t].op = op
  /\ lock = None
  /\ ~challenges[hand[t].challenge].consumed
  /\ challenges[hand[t].challenge].purpose \in purposes

\* The third transaction looks at the challenge again before it compares.
Compares(t, op, purposes) ==
  /\ pc[t] = "comparing"
  /\ hand[t].op = op
  /\ lock = None
  /\ Usable(hand[t].challenge)
  /\ challenges[hand[t].challenge].purpose \in purposes

Tried(cs, c) == [cs EXCEPT ![c].tried = @ + 1]
\* Mutant: the challenge is not consumed.
SpentNotConsumed(c) == Tried(challenges, c)

Spent(c) == Tried(Consumed(challenges, {c}), c)

CodeIsWrong(t) ==
  /\ pc[t] = "comparing"
  /\ lock = None
  /\ Usable(hand[t].challenge)
  /\ challenges' = Tried(challenges, hand[t].challenge)
  /\ Ends(t)
  /\ UNCHANGED <<admin, rows, sessions, lock, changes>>

\* Mutant: an enrolment does not end what was begun before it.
CompletesEnrollmentOnly(t, step) ==
  LET c   == hand[t].challenge
      row == challenges[c]
  IN
  /\ Compares(t, "complete", {"enroll"})
  /\ MayIssue
  /\ ~HasFactor
  /\ factors' = Append(factors, [id |-> row.factor, step |-> step, revoked |-> FALSE])
  /\ security' = [security EXCEPT !.enrol = FALSE]
  /\ codes' = CodeSet(row.factor, c)
  /\ challenges' = Spent(c)
  /\ sessions' = Append(sessions,
       [Session(row.account, security.epoch, row.pwd) EXCEPT
          !.mfa = row.factor, !.from = c, !.by = <<"totp", row.factor, step>>])
  /\ Ends(t)
  /\ UNCHANGED <<admin, identity, credential, accounts, lock, changes>>

CompletesEnrollment(t, step) ==
  LET c   == hand[t].challenge
      row == challenges[c]
  IN
  /\ Compares(t, "complete", {"enroll"})
  /\ MayIssue
  /\ ~HasFactor
  /\ factors' = Append(factors, [id |-> row.factor, step |-> step, revoked |-> FALSE])
  /\ security' = [NextEpoch EXCEPT !.enrol = FALSE]
  /\ codes' = CodeSet(row.factor, c)
  /\ challenges' = Spent(c)
  /\ sessions' = Append(AllRevoked,
       [Session(row.account, security.epoch + 1, row.pwd) EXCEPT
          !.mfa = row.factor, !.from = c, !.by = <<"totp", row.factor, step>>])
  /\ Ends(t)
  /\ UNCHANGED <<admin, identity, credential, accounts, lock, changes>>

CompletesLogin(t, step) ==
  LET c   == hand[t].challenge
      row == challenges[c]
  IN
  /\ Compares(t, "complete", {"login"})
  /\ MayIssue
  /\ \E i \in DOMAIN factors :
       factors[i].id = row.factor /\ ~factors[i].revoked /\ step > factors[i].step
  /\ factors' = StepSpent(row.factor, step)
  /\ challenges' = Spent(c)
  /\ sessions' = Append(sessions,
       [Session(row.account, security.epoch, row.pwd) EXCEPT
          !.mfa = row.factor, !.from = c, !.by = <<"totp", row.factor, step>>])
  /\ Ends(t)
  /\ UNCHANGED <<admin, identity, credential, security, accounts, codes, lock, changes>>

CompletesStepUp(t, step) ==
  LET c   == hand[t].challenge
      row == challenges[c]
  IN
  /\ Compares(t, "complete", {"step_up"})
  /\ MayMint
  /\ \E i \in DOMAIN factors :
       factors[i].id = row.factor /\ ~factors[i].revoked /\ step > factors[i].step
  /\ factors' = StepSpent(row.factor, step)
  /\ challenges' = Append(Spent(c),
       [Challenge("proof", row.account, row.epoch, row.factor, row.pwd) EXCEPT
          !.session = row.session, !.target = row.target, !.from = c,
          !.by = <<"totp", row.factor, step>>])
  /\ Ends(t)
  /\ UNCHANGED <<admin, identity, credential, security, accounts, sessions, codes, lock, changes>>

\* A recovery code ends the factor and every session, and leaves the other
\* codes of the factor for a repeated recovery.
Recovers(t, code) ==
  LET c   == hand[t].challenge
      row == challenges[c]
  IN
  /\ Compares(t, "recover", {"login", "recovery"})
  /\ MayMint
  /\ code.factor = row.factor
  /\ codes' = codes \ {code}
  /\ factors' = FactorsRevoked
  /\ security' = [NextEpoch EXCEPT !.enrol = FALSE]
  /\ sessions' = AllRevoked
  /\ challenges' = Append(Spent(c),
       [Challenge("enroll_start", row.account, security.epoch + 1, NewChallenge, row.pwd) EXCEPT
          !.from = c, !.by = <<"code", code.set, code.n>>, !.root = "code"])
  /\ Ends(t)
  /\ UNCHANGED <<admin, identity, credential, accounts, lock, changes>>

StepUpReads(t, s, action) ==
  /\ MayMint
  /\ pc[t] = "idle"
  /\ lock = None
  /\ Loads(s)
  /\ Goes(t, "stepping", [Nothing EXCEPT !.session = s, !.version = credential.version,
                                         !.pwd = credential.pwd, !.op = action])
  /\ UNCHANGED <<admin, rows, sessions, challenges, lock, changes>>

StepUpMints(t) ==
  LET s == hand[t].session IN
  /\ pc[t] = "stepping"
  /\ MayMint
  /\ lock = None
  /\ Loads(s)
  /\ credential.version = hand[t].version
  /\ \E i \in DOMAIN factors :
       /\ ~factors[i].revoked
       /\ challenges' = Append(challenges,
            [Challenge("step_up", sessions[s].account, sessions[s].epoch, factors[i].id, hand[t].pwd)
               EXCEPT !.session = s, !.target = hand[t].op])
  /\ Ends(t)
  /\ UNCHANGED <<admin, rows, sessions, lock, changes>>

RotateRecovery(s, p) ==
  /\ lock = None
  /\ ProofOf(p, s, "recovery.rotate")
  /\ challenges' = Consumed(challenges, {p})
  /\ codes' = CodeSet(challenges[p].factor, p)
  /\ UNCHANGED <<admin, identity, credential, security, accounts, sessions, factors, local, changes>>

ReplaceFactor(s, p) ==
  LET row == challenges[p] IN
  /\ lock = None
  /\ MayMint
  /\ ProofOf(p, s, "mfa.replace")
  /\ factors' = FactorsRevoked
  /\ codes' = {}
  /\ security' = [NextEpoch EXCEPT !.enrol = FALSE]
  /\ sessions' = AllRevoked
  /\ challenges' = Append(Consumed(challenges, {p}),
       [Challenge("enroll_start", row.account, security.epoch + 1, NewChallenge, row.pwd) EXCEPT
          !.from = p, !.root = "proof"])
  /\ UNCHANGED <<admin, identity, credential, accounts, local, changes>>
-----------------------------------------------------------------------------
(* The operator                                                            *)

Operates == MayChange /\ changes' = changes + 1

SetPassword ==
  /\ Operates
  /\ lock = None
  /\ credential' = [status |-> "active", version |-> credential.version + 1, pwd |-> credential.pwd + 1]
  /\ sessions' = AllRevoked
  /\ security' = NextEpoch
  /\ UNCHANGED <<admin, identity, accounts, factors, codes, challenges, local>>

\* The trigger moves the version only when the status really changes.
RevokePassword ==
  /\ Operates
  /\ lock = None
  /\ credential.status = "active"
  /\ credential' = [credential EXCEPT !.status = "revoked", !.version = @ + 1]
  /\ sessions' = AllRevoked
  /\ security' = NextEpoch
  /\ UNCHANGED <<admin, identity, accounts, factors, codes, challenges, local>>

\* Sessions are not touched: the version fences them.
SetStatus(status) ==
  /\ Operates
  /\ lock = None
  /\ identity' = [status |-> status, version |-> identity.version + 1]
  /\ UNCHANGED <<admin, credential, security, accounts, factors, codes, sessions, challenges, local>>

Invalidates(a) ==
  /\ sessions' = RevokedIn(sessions, {s \in DOMAIN sessions : sessions[s].account = a})
  /\ challenges' = Consumed(challenges, {c \in DOMAIN challenges : challenges[c].account = a})

\* Mutant: only an account that becomes inactive ends its sessions.
AccountChangeOnLeaving(a, status, live) ==
  LET before == accounts[a]
      after  == [before EXCEPT !.status = status, !.live = live]
  IN
  /\ Operates
  /\ after # before
  /\ before.status # "closed"
  /\ accounts' = [accounts EXCEPT ![a] = after]
  /\ IF ~IsActive(after)
     THEN Invalidates(a)
     ELSE UNCHANGED <<sessions, challenges>>
  /\ UNCHANGED <<admin, identity, credential, security, factors, codes, local>>

\* AccountLifecycle.change: the account row is locked, the person's is not.
AccountChange(a, status, live) ==
  LET before == accounts[a]
      after  == [before EXCEPT !.status = status, !.live = live]
  IN
  /\ Operates
  /\ after # before
  /\ before.status # "closed"
  /\ accounts' = [accounts EXCEPT ![a] = after]
  /\ IF ~IsActive(before) \/ ~IsActive(after)
     THEN Invalidates(a)
     ELSE UNCHANGED <<sessions, challenges>>
  /\ UNCHANGED <<admin, identity, credential, security, factors, codes, local>>

MembershipChange(a) ==
  LET before == accounts[a] IN
  /\ Operates
  /\ before.status # "closed"
  /\ ~before.member => IsActive(before)
  /\ accounts' = [accounts EXCEPT ![a].member = ~@]
  /\ Invalidates(a)
  /\ UNCHANGED <<admin, identity, credential, security, factors, codes, local>>
-----------------------------------------------------------------------------
(* Time (of rows that still live: the others are refused anyway), and      *)
(* requests that are refused or lost: the transaction rolls back.          *)

PlanExpires(a) ==
  /\ Operates
  /\ accounts[a].live
  /\ accounts' = [accounts EXCEPT ![a].live = FALSE]
  /\ UNCHANGED <<admin, identity, credential, security, factors, codes, sessions, challenges, local>>

SessionExpires(s) ==
  /\ Operates
  /\ ~sessions[s].expired /\ ~sessions[s].revoked
  /\ sessions' = [sessions EXCEPT ![s].expired = TRUE]
  /\ UNCHANGED <<admin, rows, challenges, local>>

ChallengeExpires(c) ==
  /\ Operates
  /\ ~challenges[c].expired /\ ~challenges[c].consumed
  /\ challenges' = [challenges EXCEPT ![c].expired = TRUE]
  /\ UNCHANGED <<admin, rows, sessions, local>>

Abandon(t) ==
  /\ pc[t] # "idle"
  /\ lock' = IF lock = t THEN None ELSE lock
  /\ Ends(t)
  /\ UNCHANGED <<admin, rows, sessions, challenges, changes>>
-----------------------------------------------------------------------------
ThreadStep(t) ==
  \/ LoginReads(t)
  \/ \E a \in Accounts : LoginLocks(t, a)
  \/ \E old \in {0} \cup DOMAIN sessions, rehash \in BOOLEAN : LoginCommits(t, old, rehash)
  \/ \E s \in DOMAIN sessions : ChangeReads(t, s)
  \/ \E p \in {0} \cup DOMAIN challenges : ChangeCommits(t, p)
  \/ \E c \in DOMAIN challenges, op \in DOMAIN CodePurposes : AttemptChecks(t, c, op)
  \/ AttemptCounts(t)
  \/ CodeIsWrong(t)
  \/ \E step \in TimeSteps : CompletesEnrollment(t, step)
  \/ \E step \in TimeSteps : CompletesLogin(t, step)
  \/ \E step \in TimeSteps : CompletesStepUp(t, step)
  \/ \E code \in codes : Recovers(t, code)
  \/ \E s \in DOMAIN sessions, action \in StepUpActions : StepUpReads(t, s, action)
  \/ StepUpMints(t)
  \/ Abandon(t)

SessionCommand(s) ==
  \/ Logout(s)
  \/ \E target \in DOMAIN sessions : Revoke(s, target)
  \/ RevokeAll(s)
  \/ \E p \in DOMAIN challenges : RotateRecovery(s, p)
  \/ \E p \in DOMAIN challenges : ReplaceFactor(s, p)
  \/ SessionExpires(s)

AccountCommand(a) ==
  \/ \E status \in {"active", "suspended", "closed"}, live \in BOOLEAN : AccountChange(a, status, live)
  \/ MembershipChange(a)
  \/ PlanExpires(a)

Next ==
  \/ \E t \in Threads : ThreadStep(t)
  \/ \E s \in DOMAIN sessions : SessionCommand(s)
  \/ \E c \in DOMAIN challenges : BeginEnrollment(c) \/ ChallengeExpires(c)
  \/ \E a \in Accounts : AccountCommand(a)
  \/ SetPassword
  \/ RevokePassword
  \/ \E status \in {"active", "suspended"} : SetStatus(status)

Spec == Init /\ [][Next]_vars
-----------------------------------------------------------------------------
(* Properties                                                              *)

EpochType == 1..(1 + Len(challenges) + 2 * Len(sessions) + ChangeBound)

\* Every table and every thread's locals keep their types, a challenge is
\* counted at most MaxAttempts times (the CHECK of 0021), and a thread in the
\* transaction of a login is the one that holds the row of the person.
TypeOK ==
  /\ admin \in BOOLEAN
  /\ identity \in [status : {"active", "suspended"}, version : Nat]
  /\ credential \in [status : {"active", "revoked"}, version : Nat, pwd : Nat]
  /\ security \in [epoch : EpochType, enrol : BOOLEAN]
  /\ accounts \in [Accounts -> [status : {"active", "suspended", "closed"},
                                live : BOOLEAN, member : BOOLEAN]]
  /\ \A s \in DOMAIN sessions :
       /\ sessions[s].account \in Accounts
       /\ sessions[s].epoch \in EpochType
       /\ sessions[s].from \in 0..Len(challenges)
  /\ \A c \in DOMAIN challenges :
       /\ challenges[c].account \in Accounts
       /\ challenges[c].purpose \in Purposes
       /\ challenges[c].attempts \in 0..MaxAttempts
       /\ challenges[c].from \in 0..(c - 1)
       /\ (challenges[c].purpose \in {"step_up", "proof"}) = (challenges[c].session # 0)
  /\ \A i \in DOMAIN factors : factors[i].id \in 0..Len(challenges)
  /\ lock \in Threads \cup {None}
  /\ \A t \in Threads : pc[t] = "admitted" <=> lock = t

\* A session or a challenge that has once been refused is never accepted again,
\* for whatever reason it was refused: revoked, expired, another password, a
\* suspended person, a suspended or expired account, a lost membership.  The
\* hard case is AccountLifecycle: a login that read the account before it was
\* suspended commits its session afterwards, and only the second invalidation,
\* on reactivation, keeps that session from waking up (lifecycle.py:186-188
\* "restoration must not revive that historical credential either").
NothingIsRevived ==
  [][/\ \A s \in DOMAIN sessions : ~Loads(s) => ~Loads(s)'
     /\ \A c \in DOMAIN challenges : ~Usable(c) => ~Usable(c)']_vars

\* Whatever is accepted was obtained with the present password, although the
\* password is verified outside the transaction and may be changed meanwhile,
\* and although a challenge carries it through several calls.
PasswordWasProved ==
  /\ \A s \in DOMAIN sessions : Loads(s) => sessions[s].pwd = credential.pwd
  /\ \A c \in DOMAIN challenges : Usable(c) => challenges[c].pwd = credential.pwd

Issued == {<<"session", s>> : s \in DOMAIN sessions} \cup {<<"challenge", c>> : c \in DOMAIN challenges}
RowOf(x) == IF x[1] = "session" THEN sessions[x[2]] ELSE challenges[x[2]]

\* A challenge is exchanged once, for one session, proof or further challenge,
\* however many requests present it at the same time.
ChallengeIsExchangedOnce ==
  \A x, y \in Issued : x # y /\ RowOf(x).from = RowOf(y).from => RowOf(x).from = 0

\* A TOTP time step and a recovery code are accepted once, also under
\* different challenges (docs/auth05/design.md "Успешный timestep фактора
\* сохраняется под identity/factor lock; повтор даже в другом challenge запрещён").
SecretIsAcceptedOnce ==
  \A x, y \in Issued : x # y /\ RowOf(x).by = RowOf(y).by => RowOf(x).by = <<>>

\* A code is compared at most MaxAttempts times under one challenge, though the
\* attempt is counted and the code compared in different transactions.
ComparisonsAreBounded ==
  \A c \in DOMAIN challenges : challenges[c].tried <= MaxAttempts

\* A session obtained with a second factor is bound to what its challenge was
\* bound to: a "revoke all", a new password or a suspension between the two
\* ends the login half way.  Only an enrolment moves on, to the epoch it opens.
SessionKeepsItsBindings ==
  \A s \in DOMAIN sessions : sessions[s].from # 0 =>
    LET c == challenges[sessions[s].from] IN
    /\ sessions[s].account = c.account
    /\ sessions[s].cver = c.cver
    /\ sessions[s].sver = c.sver
    /\ sessions[s].epoch = c.epoch + (IF c.purpose = "enroll" THEN 1 ELSE 0)

\* mfa.py:123 "Recovery never reopens password-only login or enrollment": once
\* the person has ever had a factor, a usable enrolment goes back to a recovery
\* code or to a step-up, and no session was issued for the password alone.
FactorIsNeverBypassed ==
  factors # <<>> =>
    /\ \A c \in DOMAIN challenges :
         Usable(c) /\ challenges[c].purpose \in {"enroll_start", "enroll"}
           => challenges[c].root # "password"
    /\ \A s \in DOMAIN sessions : Loads(s) => sessions[s].mfa # None
=============================================================================
