----------------------- MODULE BrowserSessionsProofs ------------------------
(***************************************************************************)
(* Two promises of BrowserSessions for every number of requests, accounts, *)
(* codes and commands: what has once been refused is never accepted again, *)
(* and whatever is accepted was obtained with the present password.  The   *)
(* argument is the same for every command: versions only rise, a row       *)
(* carries none that was not there yet, and what can be given back (an     *)
(* account, a factor) is given back together with the end of every row     *)
(* that depended on it.                                                    *)
(***************************************************************************)
EXTENDS BrowserSessions, SequenceTheorems, TLAPS

Secrets ==
  {<<>>} \cup {<<"totp", f, n>> : f \in Nat, n \in Nat} \cup {<<"code", k, n>> : k \in Nat, n \in Nat}

SessionRows ==
  [account : Accounts, cver : Nat, sver : Nat, epoch : Nat, mfa : Nat \cup {None},
   revoked : BOOLEAN, expired : BOOLEAN, pwd : Nat, from : Nat, by : Secrets]

ChallengeRows ==
  [purpose : Purposes, account : Accounts, cver : Nat, sver : Nat, epoch : Nat, factor : Nat,
   session : Nat, target : StepUpActions \cup {None}, consumed : BOOLEAN, expired : BOOLEAN,
   attempts : Nat, tried : Nat, pwd : Nat, from : Nat, by : Secrets,
   root : {"password", "code", "proof"}]

FactorRows == [id : Nat, step : Nat, revoked : BOOLEAN]
Identities == [status : {"active", "suspended"}, version : Nat]
Credentials == [status : {"active", "revoked"}, version : Nat, pwd : Nat]
AccountRows == [status : {"active", "suspended", "closed"}, live : BOOLEAN, member : BOOLEAN]

Places == {"idle", "verified", "admitted", "changing", "attempting", "comparing", "stepping"}
Hands ==
  [account : Accounts \cup {None}, session : Nat, challenge : Nat, version : Nat, pwd : Nat,
   op : DOMAIN CodePurposes \cup StepUpActions \cup {None}]

\* The versions of a row have been those of the person, and the password it was
\* obtained with is the present one if its version is.
Carries(r) ==
  /\ r.cver <= credential.version
  /\ r.sver <= identity.version
  /\ r.epoch <= security.epoch
  /\ r.cver = credential.version => r.pwd = credential.pwd

\* What a thread has verified is a password of the past or the present one; a login
\* that holds the row of the person knows it is the present one.
Knows(t) ==
  /\ pc[t] \in {"verified", "admitted", "changing", "stepping"} =>
       /\ hand[t].version <= credential.version
       /\ hand[t].version = credential.version => hand[t].pwd = credential.pwd
  /\ pc[t] = "admitted" =>
       lock = t /\ hand[t].version = credential.version /\ hand[t].account \in Accounts
  /\ pc[t] \in {"changing", "stepping"} => hand[t].session \in DOMAIN sessions
  /\ pc[t] = "stepping" => hand[t].op \in StepUpActions
  /\ pc[t] \in {"attempting", "comparing"} => hand[t].challenge \in DOMAIN challenges

Person ==
  /\ admin \in BOOLEAN
  /\ identity \in Identities
  /\ credential \in Credentials
  /\ security \in [epoch : Nat, enrol : BOOLEAN]
  /\ accounts \in [Accounts -> AccountRows]

Tables ==
  /\ sessions \in Seq(SessionRows)
  /\ challenges \in Seq(ChallengeRows)
  /\ factors \in Seq(FactorRows)
  /\ codes \subseteq [factor : Nat, set : Nat, n : Nat]

Bound ==
  /\ \A s \in 1..Len(sessions) : Carries(sessions[s])
  /\ \A c \in 1..Len(challenges) :
       Carries(challenges[c]) /\ challenges[c].session \in 0..Len(sessions)

Requests ==
  /\ lock \in Threads \cup {None}
  /\ pc \in [Threads -> Places]
  /\ hand \in [Threads -> Hands]
  /\ \A t \in Threads : Knows(t)

Inv == Person /\ Tables /\ Bound /\ Requests
-----------------------------------------------------------------------------
(* What a step does to the rows that are there.                            *)

\* q is what has become of a session r, or of a challenge r.
SessionAged(q, r) ==
  /\ q.account = r.account /\ q.cver = r.cver /\ q.sver = r.sver /\ q.epoch = r.epoch
  /\ q.pwd = r.pwd /\ q.mfa = r.mfa /\ q.from = r.from /\ q.by = r.by
  /\ r.revoked => q.revoked
  /\ r.expired => q.expired

ChallengeAged(q, r) ==
  /\ q.account = r.account /\ q.cver = r.cver /\ q.sver = r.sver /\ q.epoch = r.epoch
  /\ q.pwd = r.pwd /\ q.session = r.session /\ q.purpose = r.purpose /\ q.factor = r.factor
  /\ q.from = r.from /\ q.by = r.by /\ q.root = r.root
  /\ r.consumed => q.consumed
  /\ r.expired => q.expired

Age ==
  /\ Len(sessions) <= Len(sessions') /\ Len(challenges) <= Len(challenges')
  /\ \A s \in 1..Len(sessions) : SessionAged(sessions'[s], sessions[s])
  /\ \A c \in 1..Len(challenges) : ChallengeAged(challenges'[c], challenges[c])

\* Versions do not go back, and one that stays is of the same row.
Rise ==
  /\ credential.version <= credential'.version
  /\ credential'.version = credential.version => credential' = credential
  /\ identity.version <= identity'.version
  /\ identity'.version = identity.version => identity' = identity
  /\ security.epoch <= security'.epoch

\* The same questions asked of what a step has made of the rows.
AdmitsNow(a) == accounts'[a].status = "active" /\ accounts'[a].live /\ accounts'[a].member
ActiveNow(f) == \E i \in DOMAIN factors' : factors'[i].id = f /\ ~factors'[i].revoked
BoundNow(r) ==
  /\ identity'.status = "active" /\ credential'.status = "active"
  /\ r.cver = credential'.version /\ r.sver = identity'.version /\ r.epoch = security'.epoch
  /\ AdmitsNow(r.account)
LoadsNow(s) ==
  /\ BoundNow(sessions'[s])
  /\ ~sessions'[s].revoked /\ ~sessions'[s].expired
  /\ (admin' \/ sessions'[s].mfa # None) => ActiveNow(sessions'[s].mfa)
UsableNow(c) ==
  /\ BoundNow(challenges'[c])
  /\ ~challenges'[c].consumed /\ ~challenges'[c].expired
  /\ challenges'[c].session # 0 => LoadsNow(challenges'[c].session)

\* Nobody is admitted again, and no factor is active again, but for new rows.
Fenced ==
  /\ admin' = admin
  /\ \A a \in Accounts : AdmitsNow(a) =>
       \/ Admits(a)
       \/ /\ \A s \in 1..Len(sessions) : sessions[s].account = a => sessions'[s].revoked
          /\ \A c \in 1..Len(challenges) : challenges[c].account = a => challenges'[c].consumed
  /\ \A f \in Nat \cup {None} : ActiveNow(f) =>
       \/ ActiveFactor(f)
       \/ \A s \in 1..Len(sessions) : sessions'[s].revoked

NotRevived ==
  /\ \A s \in DOMAIN sessions : LoadsNow(s) => Loads(s)
  /\ \A c \in DOMAIN challenges : UsableNow(c) => Usable(c)

\* What every step keeps: the rows that are there, with at most one of a table more.
Kept ==
  /\ NotRevived /\ Age /\ Rise
  /\ Len(sessions') \in {Len(sessions), Len(sessions) + 1}
  /\ Len(challenges') \in {Len(challenges), Len(challenges) + 1}

LEMMA TableParts ==
  ASSUME Tables
  PROVE  /\ Len(sessions) \in Nat /\ DOMAIN sessions = 1..Len(sessions)
         /\ \A s \in 1..Len(sessions) : sessions[s] \in SessionRows
         /\ Len(challenges) \in Nat /\ DOMAIN challenges = 1..Len(challenges)
         /\ \A c \in 1..Len(challenges) : challenges[c] \in ChallengeRows
         /\ Len(factors) \in Nat /\ DOMAIN factors = 1..Len(factors)
         /\ \A i \in 1..Len(factors) : factors[i] \in FactorRows
BY LenProperties, ElementOfSeq DEF Tables

\* A row that is bound after the step was bound before, if its account admits.
LEMMA BoundBefore ==
  ASSUME Rise, Person, Person', NEW r, Carries(r),
         r.cver \in Nat, r.sver \in Nat, r.epoch \in Nat,
         NEW q, q.cver = r.cver, q.sver = r.sver, q.epoch = r.epoch, BoundNow(q), Admits(r.account)
  PROVE  IsBound(r)
<1>1. /\ credential.version \in Nat /\ credential'.version \in Nat
      /\ identity.version \in Nat /\ identity'.version \in Nat
      /\ security.epoch \in Nat /\ security'.epoch \in Nat
      BY DEF Person, Identities, Credentials
<1>2. /\ credential.version = r.cver /\ credential' = credential
      /\ identity.version = r.sver /\ identity' = identity
      /\ security.epoch = r.epoch
      BY <1>1 DEF Rise, Carries, BoundNow
<1>3. QED BY <1>2 DEF IsBound, BoundNow

\* Which is what a step that ages rows, raises versions and fences has to do.
LEMMA RevivesNothing ==
  ASSUME Inv, Age, Rise, Fenced, Person'
  PROVE  NotRevived
<1>1. ASSUME NEW s \in 1..Len(sessions), LoadsNow(s) PROVE Loads(s)
      <2> DEFINE r == sessions[s]
                 q == sessions'[s]
      <2>1. r \in SessionRows /\ Carries(r) BY TableParts DEF Inv, Bound
      <2>2. /\ r.cver \in Nat /\ r.sver \in Nat /\ r.epoch \in Nat
            /\ r.account \in Accounts /\ r.mfa \in Nat \cup {None}
            BY <2>1 DEF SessionRows
      <2>3. SessionAged(q, r) BY DEF Age
      <2>4. /\ BoundNow(q) /\ ~q.revoked /\ ~q.expired
            /\ (admin' \/ q.mfa # None) => ActiveNow(q.mfa)
            BY <1>1 DEF LoadsNow
      <2>5. ~r.revoked /\ ~r.expired BY <2>3, <2>4 DEF SessionAged
      <2>6. AdmitsNow(r.account) BY <2>3, <2>4 DEF SessionAged, BoundNow
      <2>7. Admits(r.account) BY <2>2, <2>4, <2>6 DEF Fenced
      <2>8. (admin \/ r.mfa # None) => ActiveFactor(r.mfa)
            <3>1. q.mfa = r.mfa /\ admin' = admin BY <2>3 DEF SessionAged, Fenced
            <3>2. ActiveNow(r.mfa) => ActiveFactor(r.mfa) BY <2>2, <2>4 DEF Fenced
            <3>3. QED BY <2>4, <3>1, <3>2
      <2>9. IsBound(r)
            <3> HIDE DEF r, q
            <3>1. QED BY <2>1, <2>2, <2>3, <2>4, <2>7, BoundBefore DEF Inv, SessionAged
      <2>10. QED BY <2>5, <2>8, <2>9 DEF Loads
<1>2. ASSUME NEW c \in 1..Len(challenges), UsableNow(c) PROVE Usable(c)
      <2> DEFINE r == challenges[c]
                 q == challenges'[c]
      <2>1. r \in ChallengeRows /\ Carries(r) /\ r.session \in 0..Len(sessions)
            BY TableParts DEF Inv, Bound
      <2>2. r.cver \in Nat /\ r.sver \in Nat /\ r.epoch \in Nat /\ r.account \in Accounts
            BY <2>1 DEF ChallengeRows
      <2>3. ChallengeAged(q, r) BY DEF Age
      <2>4. /\ BoundNow(q) /\ ~q.consumed /\ ~q.expired
            /\ q.session # 0 => LoadsNow(q.session)
            BY <1>2 DEF UsableNow
      <2>5. ~r.consumed /\ ~r.expired BY <2>3, <2>4 DEF ChallengeAged
      <2>6. AdmitsNow(r.account) BY <2>3, <2>4 DEF ChallengeAged, BoundNow
      <2>7. Admits(r.account) BY <2>2, <2>4, <2>6 DEF Fenced
      <2>8. r.session # 0 => Loads(r.session)
            <3>1. q.session = r.session BY <2>3 DEF ChallengeAged
            <3>2. r.session # 0 => r.session \in 1..Len(sessions) BY <2>1, TableParts DEF Inv
            <3> HIDE DEF r, q
            <3>3. QED BY <1>1, <2>4, <3>1, <3>2
      <2>9. IsBound(r)
            <3> HIDE DEF r, q
            <3>1. QED BY <2>1, <2>2, <2>3, <2>4, <2>7, BoundBefore DEF Inv, ChallengeAged
      <2>10. QED BY <2>5, <2>8, <2>9 DEF Usable
<1>3. QED BY <1>1, <1>2, TableParts DEF Inv, NotRevived

\* A row that carried what was there still does.
LEMMA StillCarries ==
  ASSUME Inv, Rise, Person', NEW r, Carries(r), NEW q,
         r.cver \in Nat, r.sver \in Nat, r.epoch \in Nat,
         q.cver = r.cver, q.sver = r.sver, q.epoch = r.epoch, q.pwd = r.pwd
  PROVE  /\ q.cver <= credential'.version
         /\ q.sver <= identity'.version
         /\ q.epoch <= security'.epoch
         /\ q.cver = credential'.version => q.pwd = credential'.pwd
<1>1. /\ credential.version \in Nat /\ credential'.version \in Nat
      /\ identity.version \in Nat /\ identity'.version \in Nat
      /\ security.epoch \in Nat /\ security'.epoch \in Nat
      BY DEF Inv, Person, Identities, Credentials
<1>2. credential.version <= credential'.version /\ r.cver <= credential.version
      BY DEF Rise, Carries
<1>3. q.cver = credential'.version => credential' = credential /\ r.cver = credential.version
      BY <1>1, <1>2 DEF Rise
<1>4. q.cver = credential'.version => q.pwd = credential'.pwd BY <1>3 DEF Carries
<1>5. q.cver <= credential'.version BY <1>1, <1>2
<1>6. q.sver <= identity'.version BY <1>1 DEF Rise, Carries
<1>7. q.epoch <= security'.epoch BY <1>1 DEF Rise, Carries
<1>8. QED BY <1>4, <1>5, <1>6, <1>7

\* So only the new rows have to be looked at.
LEMMA BoundStep ==
  ASSUME Inv, Age, Rise, Person', Tables',
         \A s \in 1..Len(sessions') : s \notin 1..Len(sessions) => Carries(sessions[s])',
         \A c \in 1..Len(challenges') : c \notin 1..Len(challenges) =>
           Carries(challenges[c])' /\ challenges'[c].session \in 0..Len(sessions')
  PROVE  Bound'
<1>1. ASSUME NEW s \in 1..Len(sessions) PROVE Carries(sessions[s])'
      <2>1. sessions[s] \in SessionRows /\ Carries(sessions[s]) BY TableParts DEF Inv, Bound
      <2>2. sessions[s].cver \in Nat /\ sessions[s].sver \in Nat /\ sessions[s].epoch \in Nat
            BY <2>1 DEF SessionRows
      <2>3. SessionAged(sessions'[s], sessions[s]) BY DEF Age
      <2>4. QED BY <2>1, <2>2, <2>3, StillCarries DEF SessionAged, Carries
<1>2. ASSUME NEW c \in 1..Len(challenges)
      PROVE  Carries(challenges[c])' /\ challenges'[c].session \in 0..Len(sessions')
      <2>1. challenges[c] \in ChallengeRows /\ Carries(challenges[c])
            /\ challenges[c].session \in 0..Len(sessions)
            BY TableParts DEF Inv, Bound
      <2>2. challenges[c].cver \in Nat /\ challenges[c].sver \in Nat /\ challenges[c].epoch \in Nat
            BY <2>1 DEF ChallengeRows
      <2>3. ChallengeAged(challenges'[c], challenges[c]) BY DEF Age
      <2>4. Carries(challenges[c])' BY <2>1, <2>2, <2>3, StillCarries DEF ChallengeAged, Carries
      <2>5. /\ Len(sessions) \in Nat /\ Len(sessions') \in Nat /\ Len(sessions) <= Len(sessions')
            /\ challenges'[c].session = challenges[c].session
            BY <2>3, TableParts, LenProperties DEF Inv, Age, Tables, ChallengeAged
      <2>6. QED BY <2>1, <2>4, <2>5
<1>3. QED BY <1>1, <1>2 DEF Bound
-----------------------------------------------------------------------------
(* The tables.                                                             *)

LEMMA FunctionIsSeq ==
  ASSUME NEW S, NEW n \in Nat, NEW f \in [1..n -> S]
  PROVE  f \in Seq(S) /\ Len(f) = n
OBVIOUS

LEMMA SameSession == \A r : SessionAged(r, r)
BY DEF SessionAged

LEMMA SameChallenge == \A r : ChallengeAged(r, r)
BY DEF ChallengeAged

\* Q is what a step has made of the sessions so far.
SessionsAged(Q) ==
  /\ Q \in Seq(SessionRows)
  /\ Len(sessions) <= Len(Q)
  /\ \A s \in 1..Len(sessions) : SessionAged(Q[s], sessions[s])

ChallengesAged(Q) ==
  /\ Q \in Seq(ChallengeRows)
  /\ Len(challenges) <= Len(Q)
  /\ \A c \in 1..Len(challenges) : ChallengeAged(Q[c], challenges[c])

LEMMA TablesStay ==
  ASSUME Tables
  PROVE  SessionsAged(sessions) /\ ChallengesAged(challenges)
BY TableParts, SameSession, SameChallenge DEF Tables, SessionsAged, ChallengesAged

LEMMA RevokedTable ==
  ASSUME Tables, NEW W
  PROVE  /\ SessionsAged(RevokedIn(sessions, W))
         /\ Len(RevokedIn(sessions, W)) = Len(sessions)
         /\ \A s \in 1..Len(sessions) : s \in W => RevokedIn(sessions, W)[s].revoked
<1> DEFINE Q == RevokedIn(sessions, W)
           n == Len(sessions)
<1>1. n \in Nat /\ DOMAIN sessions = 1..n /\ \A s \in 1..n : sessions[s] \in SessionRows
      BY TableParts
<1>2. Q = [s \in 1..n |-> IF s \in W THEN [sessions[s] EXCEPT !.revoked = TRUE] ELSE sessions[s]]
      BY <1>1 DEF RevokedIn
<1>3. ASSUME NEW s \in 1..n
      PROVE  Q[s] \in SessionRows /\ SessionAged(Q[s], sessions[s]) /\ (s \in W => Q[s].revoked)
      <2>1. sessions[s] \in SessionRows BY <1>1
      <2>2. CASE s \in W
            <3>1. Q[s] = [sessions[s] EXCEPT !.revoked = TRUE] BY <1>2, <2>2
            <3> HIDE DEF Q
            <3>2. QED BY <2>1, <3>1 DEF SessionRows, SessionAged
      <2>3. CASE s \notin W BY <1>2, <2>1, <2>3, SameSession
      <2>4. QED BY <2>2, <2>3
<1>4. Q \in [1..n -> SessionRows] BY <1>2, <1>3
<1> HIDE DEF Q
<1>5. Q \in Seq(SessionRows) /\ Len(Q) = n BY <1>1, <1>4, FunctionIsSeq
<1>6. QED BY <1>1, <1>3, <1>5 DEF Q, SessionsAged

LEMMA ConsumedTable ==
  ASSUME Tables, NEW W
  PROVE  /\ ChallengesAged(Consumed(challenges, W))
         /\ Len(Consumed(challenges, W)) = Len(challenges)
         /\ \A c \in 1..Len(challenges) : c \in W => Consumed(challenges, W)[c].consumed
<1> DEFINE Q == Consumed(challenges, W)
           n == Len(challenges)
<1>1. n \in Nat /\ DOMAIN challenges = 1..n /\ \A c \in 1..n : challenges[c] \in ChallengeRows
      BY TableParts
<1>2. Q = [c \in 1..n |-> IF c \in W THEN [challenges[c] EXCEPT !.consumed = TRUE] ELSE challenges[c]]
      BY <1>1 DEF Consumed
<1>3. ASSUME NEW c \in 1..n
      PROVE  Q[c] \in ChallengeRows /\ ChallengeAged(Q[c], challenges[c]) /\ (c \in W => Q[c].consumed)
      <2>1. challenges[c] \in ChallengeRows BY <1>1
      <2>2. CASE c \in W
            <3>1. Q[c] = [challenges[c] EXCEPT !.consumed = TRUE] BY <1>2, <2>2
            <3> HIDE DEF Q
            <3>2. QED BY <2>1, <3>1 DEF ChallengeRows, ChallengeAged
      <2>3. CASE c \notin W BY <1>2, <2>1, <2>3, SameChallenge
      <2>4. QED BY <2>2, <2>3
<1>4. Q \in [1..n -> ChallengeRows] BY <1>2, <1>3
<1> HIDE DEF Q
<1>5. Q \in Seq(ChallengeRows) /\ Len(Q) = n BY <1>1, <1>4, FunctionIsSeq
<1>6. QED BY <1>1, <1>3, <1>5 DEF Q, ChallengesAged

\* One challenge is changed in a way that ages it.
LEMMA ChallengeReplaced ==
  ASSUME Tables, NEW Q, ChallengesAged(Q), Len(Q) = Len(challenges), NEW c \in 1..Len(challenges),
         NEW r \in ChallengeRows, ChallengeAged(r, Q[c])
  PROVE  ChallengesAged([Q EXCEPT ![c] = r]) /\ Len([Q EXCEPT ![c] = r]) = Len(challenges)
<1> DEFINE n == Len(challenges)
           P == [Q EXCEPT ![c] = r]
<1>1. n \in Nat BY TableParts
<1>2. Q \in Seq(ChallengeRows) /\ DOMAIN Q = 1..n /\ \A k \in 1..n : Q[k] \in ChallengeRows
      BY <1>1, LenProperties, ElementOfSeq DEF ChallengesAged
<1>3. Q \in [1..n -> ChallengeRows] BY <1>2, LenProperties
<1>4. P \in [1..n -> ChallengeRows] /\ P[c] = r /\ \A k \in 1..n : k # c => P[k] = Q[k] BY <1>3
<1>5. P \in Seq(ChallengeRows) /\ Len(P) = n BY <1>1, <1>4, FunctionIsSeq
<1>6. \A k \in 1..n : ChallengeAged(P[k], challenges[k])
      BY <1>4 DEF ChallengesAged, ChallengeAged
<1> HIDE DEF P
<1>7. QED BY <1>1, <1>5, <1>6 DEF P, ChallengesAged

LEMMA SessionAdded ==
  ASSUME Tables, NEW Q, SessionsAged(Q), NEW r \in SessionRows
  PROVE  /\ SessionsAged(Append(Q, r))
         /\ Len(Append(Q, r)) = Len(Q) + 1
         /\ Append(Q, r)[Len(Q) + 1] = r
         /\ \A s \in 1..Len(sessions) : Append(Q, r)[s] = Q[s]
<1>1. Len(sessions) \in Nat /\ Len(Q) \in Nat /\ Len(sessions) <= Len(Q)
      BY TableParts, LenProperties DEF SessionsAged
<1>2. /\ Append(Q, r) \in Seq(SessionRows) /\ Len(Append(Q, r)) = Len(Q) + 1
      /\ \A i \in 1..Len(Q) : Append(Q, r)[i] = Q[i]
      /\ Append(Q, r)[Len(Q) + 1] = r
      BY AppendProperties DEF SessionsAged
<1>3. QED BY <1>1, <1>2 DEF SessionsAged

LEMMA ChallengeAdded ==
  ASSUME Tables, NEW Q, ChallengesAged(Q), NEW r \in ChallengeRows
  PROVE  /\ ChallengesAged(Append(Q, r))
         /\ Len(Append(Q, r)) = Len(Q) + 1
         /\ Append(Q, r)[Len(Q) + 1] = r
         /\ \A c \in 1..Len(challenges) : Append(Q, r)[c] = Q[c]
<1>1. Len(challenges) \in Nat /\ Len(Q) \in Nat /\ Len(challenges) <= Len(Q)
      BY TableParts, LenProperties DEF ChallengesAged
<1>2. /\ Append(Q, r) \in Seq(ChallengeRows) /\ Len(Append(Q, r)) = Len(Q) + 1
      /\ \A i \in 1..Len(Q) : Append(Q, r)[i] = Q[i]
      /\ Append(Q, r)[Len(Q) + 1] = r
      BY AppendProperties DEF ChallengesAged
<1>3. QED BY <1>1, <1>2 DEF ChallengesAged
-----------------------------------------------------------------------------
(* What a step has to show.                                                *)

LEMMA Versions ==
  ASSUME Person
  PROVE  credential.version \in Nat /\ identity.version \in Nat /\ security.epoch \in Nat
         /\ credential.pwd \in Nat
BY DEF Person, Credentials, Identities

LEMMA Unrisen ==
  ASSUME Person, UNCHANGED <<identity, credential, security>>
  PROVE  Rise
BY Versions DEF Rise

LEMMA EpochRises ==
  ASSUME Person, UNCHANGED <<identity, credential>>, security' = NextEpoch
  PROVE  Rise /\ security'.epoch = security.epoch + 1 /\ security' \in [epoch : Nat, enrol : BOOLEAN]
<1>1. security' = [security EXCEPT !.epoch = security.epoch + 1] BY DEF NextEpoch
<1>2. security.epoch \in Nat /\ security \in [epoch : Nat, enrol : BOOLEAN] BY Versions DEF Person
<1>3. security'.epoch = security.epoch + 1 /\ security' \in [epoch : Nat, enrol : BOOLEAN]
      BY <1>1, <1>2
<1>4. QED BY <1>2, <1>3, Versions DEF Rise

\* Accounts stay as they are, and so do the factors, or every session has ended.
LEMMA FencedAsBefore ==
  ASSUME Inv, UNCHANGED <<admin, accounts>>,
         \/ UNCHANGED factors
         \/ \A f : ActiveNow(f) => ActiveFactor(f)
         \/ \A s \in 1..Len(sessions) : sessions'[s].revoked
  PROVE  Fenced
<1>1. \A a \in Accounts : AdmitsNow(a) => Admits(a) BY DEF AdmitsNow, Admits, IsActive
<1>2. UNCHANGED factors => \A f : ActiveNow(f) => ActiveFactor(f) BY DEF ActiveNow, ActiveFactor
<1>3. QED BY <1>1, <1>2 DEF Fenced

\* A thread that does not move; while it holds the row of the person, nobody else
\* writes the credential.
LEMMA ThreadStays ==
  ASSUME Inv, Age, Rise, Person', Tables', NEW u \in Threads, pc'[u] = pc[u], hand'[u] = hand[u],
         lock = u => lock' = u /\ credential' = credential
  PROVE  Knows(u)'
<1>1. Knows(u) /\ hand[u] \in Hands BY DEF Inv, Requests
<1>2. hand[u].version \in Nat /\ credential.version \in Nat /\ credential'.version \in Nat
      BY <1>1, Versions DEF Hands, Inv, Person, Credentials
<1>3. pc[u] \in {"verified", "admitted", "changing", "stepping"} =>
        /\ hand[u].version <= credential'.version
        /\ hand[u].version = credential'.version => hand[u].pwd = credential'.pwd
      BY <1>1, <1>2 DEF Knows, Rise
<1>4. pc[u] = "admitted" =>
        lock' = u /\ hand[u].version = credential'.version /\ hand[u].account \in Accounts
      BY <1>1 DEF Knows
<1>5. /\ DOMAIN sessions \subseteq DOMAIN sessions'
      /\ DOMAIN challenges \subseteq DOMAIN challenges'
      BY TableParts, LenProperties DEF Inv, Tables, Age
<1>6. QED BY <1>1, <1>3, <1>4, <1>5 DEF Knows

LEMMA ThreadMoves ==
  ASSUME Inv, Age, Rise, Person', Tables', NEW t \in Threads, NEW at \in Places, NEW what \in Hands,
         Goes(t, at, what), lock' \in Threads \cup {None},
         \A u \in Threads \ {t} : lock = u => lock' = u /\ credential' = credential,
         pc'[t] = at /\ hand'[t] = what => Knows(t)'
  PROVE  Requests'
<1>1. pc \in [Threads -> Places] /\ hand \in [Threads -> Hands] BY DEF Inv, Requests
<1>2. /\ pc' \in [Threads -> Places] /\ hand' \in [Threads -> Hands]
      /\ pc'[t] = at /\ hand'[t] = what
      /\ \A u \in Threads \ {t} : pc'[u] = pc[u] /\ hand'[u] = hand[u]
      BY <1>1 DEF Goes
<1>3. ASSUME NEW u \in Threads PROVE Knows(u)'
      <2>1. CASE u = t BY <1>2, <2>1
      <2>2. CASE u # t BY <1>2, <2>2, ThreadStays
      <2>3. QED BY <2>1, <2>2
<1>4. QED BY <1>2, <1>3 DEF Requests

LEMMA OthersStep ==
  ASSUME Inv, Age, Rise, Person', Tables', UNCHANGED local, lock # None => credential' = credential
  PROVE  Requests'
<1>1. UNCHANGED <<lock, pc, hand>> BY DEF local
<1>2. ASSUME NEW u \in Threads PROVE Knows(u)'
      <2>1. lock = u => lock # None BY SessionsAssumption
      <2>2. QED BY <1>1, <2>1, ThreadStays
<1>3. QED BY <1>1, <1>2 DEF Inv, Requests

LEMMA NothingHeld == Nothing \in Hands
BY DEF Nothing, Hands

\* A thread that is done holds nothing.
LEMMA EndsStep ==
  ASSUME Inv, Age, Rise, Person', Tables', NEW t \in Threads, Ends(t), lock' \in Threads \cup {None},
         \A u \in Threads \ {t} : lock = u => lock' = u /\ credential' = credential
  PROVE  Requests'
<1>1. pc'[t] = "idle" => Knows(t)' BY DEF Knows
<1>2. QED BY <1>1, NothingHeld, ThreadMoves DEF Ends, Places

\* The new rows of a step are one session, one challenge, or none.
OneMoreSession ==
  Len(sessions') = Len(sessions) + 1 =>
    /\ sessions'[Len(sessions) + 1].cver = credential'.version
    /\ sessions'[Len(sessions) + 1].sver = identity'.version
    /\ sessions'[Len(sessions) + 1].epoch <= security'.epoch
    /\ sessions'[Len(sessions) + 1].pwd = credential'.pwd

OneMoreChallenge ==
  Len(challenges') = Len(challenges) + 1 =>
    /\ challenges'[Len(challenges) + 1].cver = credential'.version
    /\ challenges'[Len(challenges) + 1].sver = identity'.version
    /\ challenges'[Len(challenges) + 1].epoch <= security'.epoch
    /\ challenges'[Len(challenges) + 1].pwd = credential'.pwd
    /\ challenges'[Len(challenges) + 1].session \in 0..Len(sessions)

LEMMA Concludes ==
  ASSUME Inv, Person', factors' \in Seq(FactorRows), codes' \subseteq [factor : Nat, set : Nat, n : Nat],
         SessionsAged(sessions'), ChallengesAged(challenges'),
         Len(sessions') \in {Len(sessions), Len(sessions) + 1}, OneMoreSession,
         Len(challenges') \in {Len(challenges), Len(challenges) + 1}, OneMoreChallenge,
         Rise, Fenced, Age /\ Tables' => Requests'
  PROVE  Inv' /\ Kept
<1>1. Age BY DEF Age, SessionsAged, ChallengesAged
<1>2. Tables' BY DEF Tables, SessionsAged, ChallengesAged
<1>3. Len(sessions) \in Nat /\ Len(challenges) \in Nat BY TableParts DEF Inv
<1>4. /\ credential'.version \in Nat /\ identity'.version \in Nat BY DEF Person, Credentials, Identities
<1>5. ASSUME NEW s \in 1..Len(sessions'), s \notin 1..Len(sessions) PROVE Carries(sessions[s])'
      <2>1. s = Len(sessions) + 1 /\ Len(sessions') = Len(sessions) + 1 BY <1>3, <1>5
      <2>2. QED BY <1>4, <2>1 DEF OneMoreSession, Carries
<1>6. ASSUME NEW c \in 1..Len(challenges'), c \notin 1..Len(challenges)
      PROVE  Carries(challenges[c])' /\ challenges'[c].session \in 0..Len(sessions')
      <2>1. c = Len(challenges) + 1 /\ Len(challenges') = Len(challenges) + 1 BY <1>3, <1>6
      <2>2. Carries(challenges[c])' BY <1>4, <2>1 DEF OneMoreChallenge, Carries
      <2>3. challenges'[c].session \in 0..Len(sessions') BY <1>3, <2>1 DEF OneMoreChallenge
      <2>4. QED BY <2>2, <2>3
<1>7. Bound' BY <1>1, <1>2, <1>5, <1>6, BoundStep
<1>8. Requests' BY <1>1, <1>2
<1>9. NotRevived BY <1>1, RevivesNothing
<1>10. QED BY <1>1, <1>2, <1>7, <1>8, <1>9 DEF Inv, Kept
-----------------------------------------------------------------------------
(* SessionService.                                                         *)

LEMMA InitInv == Init => Inv
<1> SUFFICES ASSUME Init PROVE Inv OBVIOUS
<1>1. PICK b \in Beginnings :
        /\ admin = (b # "person")
        /\ security = [epoch |-> 1, enrol |-> b = "bootstrapped"]
        /\ factors = IF b = "enrolled" THEN <<[id |-> 0, step |-> 0, revoked |-> FALSE]>> ELSE <<>>
        /\ codes = IF b = "enrolled" THEN CodeSet(0, 0) ELSE {}
        /\ \E a \in Accounts :
             sessions = IF b = "enrolled" THEN <<[Session(a, 1, 1) EXCEPT !.mfa = 0]>> ELSE <<>>
      BY DEF Init
<1>2. /\ identity = [status |-> "active", version |-> 1]
      /\ credential = [status |-> "active", version |-> 1, pwd |-> 1]
      /\ accounts = [a \in Accounts |-> [status |-> "active", live |-> TRUE, member |-> TRUE]]
      /\ challenges = <<>> /\ lock = None
      /\ pc = [t \in Threads |-> "idle"] /\ hand = [t \in Threads |-> Nothing]
      BY DEF Init
<1>3. Person BY <1>1, <1>2 DEF Person, Identities, Credentials, AccountRows
<1>4. Requests
      <2>1. pc \in [Threads -> Places] /\ hand \in [Threads -> Hands]
            BY <1>2, NothingHeld DEF Places
      <2>2. \A t \in Threads : Knows(t) BY <1>2 DEF Knows
      <2>3. QED BY <1>2, <2>1, <2>2 DEF Requests
<1>5. challenges \in Seq(ChallengeRows) /\ Len(challenges) = 0 BY <1>2
<1>6. codes \subseteq [factor : Nat, set : Nat, n : Nat] BY <1>1, SessionsAssumption DEF CodeSet
<1>7. factors \in Seq(FactorRows)
      <2>1. CASE b = "enrolled"
            <3>1. factors = <<[id |-> 0, step |-> 0, revoked |-> FALSE]>> BY <1>1, <2>1
            <3>2. [id |-> 0, step |-> 0, revoked |-> FALSE] \in FactorRows BY DEF FactorRows
            <3>3. QED BY <3>1, <3>2
      <2>2. CASE b # "enrolled"
            <3>1. factors = <<>> BY <1>1, <2>2
            <3>2. QED BY <3>1
      <2>3. QED BY <2>1, <2>2
<1>8. sessions \in Seq(SessionRows) /\ \A s \in 1..Len(sessions) : Carries(sessions[s])
      <2>1. PICK a \in Accounts :
              sessions = IF b = "enrolled" THEN <<[Session(a, 1, 1) EXCEPT !.mfa = 0]>> ELSE <<>>
            BY <1>1
      <2> DEFINE r == [Session(a, 1, 1) EXCEPT !.mfa = 0]
      <2>2. credential.version = 1 /\ credential.pwd = 1 /\ identity.version = 1 /\ security.epoch = 1
            BY <1>1, <1>2
      <2>3. Session(a, 1, 1) \in SessionRows
            <3>1. <<>> \in Secrets BY DEF Secrets
            <3>2. QED BY <2>2, <3>1 DEF Session, SessionRows
      <2>4. /\ r \in SessionRows
            /\ r.cver = 1 /\ r.sver = 1 /\ r.epoch = 1 /\ r.pwd = 1
            <3>1. /\ Session(a, 1, 1).cver = 1 /\ Session(a, 1, 1).sver = 1
                  /\ Session(a, 1, 1).epoch = 1 /\ Session(a, 1, 1).pwd = 1
                  BY <2>2 DEF Session
            <3>2. QED BY <2>3, <3>1 DEF SessionRows
      <2>5. Carries(r) BY <2>2, <2>4 DEF Carries
      <2> HIDE DEF r
      <2>6. CASE b = "enrolled"
            <3>1. sessions = <<r>> BY <2>1, <2>6 DEF r
            <3>2. sessions \in Seq(SessionRows) /\ Len(sessions) = 1 /\ sessions[1] = r BY <2>4, <3>1
            <3>3. QED BY <2>5, <3>2
      <2>7. CASE b # "enrolled"
            <3>1. sessions = <<>> BY <2>1, <2>7
            <3>2. QED BY <3>1
      <2>8. QED BY <2>6, <2>7
<1>9. QED BY <1>3, <1>4, <1>5, <1>6, <1>7, <1>8 DEF Inv, Tables, Bound

LEMMA ThreadFacts ==
  ASSUME Inv, NEW t \in Threads
  PROVE  /\ hand[t] \in Hands /\ Knows(t) /\ pc[t] \in Places
         /\ hand[t].version \in Nat /\ hand[t].pwd \in Nat
         /\ hand[t].session \in Nat /\ hand[t].challenge \in Nat
BY DEF Inv, Requests, Hands

\* Only a thread moves, and perhaps a challenge ages.
LEMMA QuietStep ==
  ASSUME Inv, UNCHANGED <<admin, rows, sessions>>,
         ChallengesAged(challenges'), Len(challenges') = Len(challenges),
         NEW t \in Threads, NEW at \in Places, NEW what \in Hands, Goes(t, at, what),
         lock' \in Threads \cup {None}, \A u \in Threads \ {t} : lock = u => lock' = u,
         pc'[t] = at /\ hand'[t] = what => Knows(t)'
  PROVE  Inv' /\ Kept
<1>1. /\ UNCHANGED <<identity, credential, security, accounts, factors, codes, admin>>
      BY DEF rows
<1>2. Person' BY <1>1 DEF Inv, Person
<1>3. Rise BY <1>1, Unrisen DEF Inv
<1>4. Fenced BY <1>1, FencedAsBefore
<1>5. factors' \in Seq(FactorRows) /\ codes' \subseteq [factor : Nat, set : Nat, n : Nat]
      BY <1>1 DEF Inv, Tables
<1>6. SessionsAged(sessions') BY TablesStay DEF Inv
<1>7. Len(sessions) \in Nat /\ Len(challenges) \in Nat BY TableParts DEF Inv
<1>8. OneMoreSession /\ OneMoreChallenge BY <1>7 DEF OneMoreSession, OneMoreChallenge
<1>9. Age /\ Tables' => Requests' BY <1>1, <1>2, <1>3, ThreadMoves
<1>10. QED BY <1>2, <1>3, <1>4, <1>5, <1>6, <1>8, <1>9, Concludes

LEMMA ReadsStep ==
  ASSUME Inv, NEW t \in Threads, LoginReads(t)
  PROVE  Inv' /\ Kept
<1> DEFINE q == [Nothing EXCEPT !.version = credential.version, !.pwd = credential.pwd]
<1>1. q \in Hands /\ q.version = credential.version /\ q.pwd = credential.pwd
      BY NothingHeld, Versions DEF Inv, Hands
<1> HIDE DEF q
<1>2. pc'[t] = "verified" /\ hand'[t] = q => Knows(t)'
      BY <1>1, Versions DEF LoginReads, rows, Knows, Inv
<1>3. Goes(t, "verified", q) BY DEF LoginReads, q
<1>4. UNCHANGED <<admin, rows, sessions, challenges, lock>> BY DEF LoginReads
<1>5. ChallengesAged(challenges') BY <1>4, TablesStay DEF Inv
<1>6. QED BY <1>1, <1>2, <1>3, <1>4, <1>5, QuietStep DEF Places, Inv, Requests

LEMMA LocksStep ==
  ASSUME Inv, NEW t \in Threads, NEW a \in Accounts, LoginLocks(t, a)
  PROVE  Inv' /\ Kept
<1> DEFINE q == [hand[t] EXCEPT !.account = a]
<1>1. /\ q \in Hands /\ q.version = hand[t].version /\ q.pwd = hand[t].pwd /\ q.account = a
      /\ hand[t].version = credential.version /\ hand[t].version \in Nat
      /\ hand[t].pwd = credential.pwd
      BY ThreadFacts DEF Hands, LoginLocks, Knows
<1> HIDE DEF q
<1>2. Goes(t, "admitted", q) /\ lock = None /\ lock' = t BY DEF LoginLocks, q
<1>3. UNCHANGED <<admin, rows, sessions, challenges>> BY DEF LoginLocks
<1>4. pc'[t] = "admitted" /\ hand'[t] = q => Knows(t)' BY <1>1, <1>2, <1>3 DEF rows, Knows
<1>5. ChallengesAged(challenges') BY <1>3, TablesStay DEF Inv
<1>6. \A u \in Threads \ {t} : lock = u => lock' = u BY <1>2, SessionsAssumption
<1>7. QED BY <1>1, <1>2, <1>3, <1>4, <1>5, <1>6, QuietStep DEF Places

LEMMA NewSession ==
  ASSUME Inv, NEW a, NEW e, NEW w, a \in Accounts, e \in Nat, w \in Nat
  PROVE  /\ Session(a, e, w) \in SessionRows
         /\ Session(a, e, w).cver = credential.version /\ Session(a, e, w).sver = identity.version
         /\ Session(a, e, w).epoch = e /\ Session(a, e, w).pwd = w
BY Versions DEF Inv, Session, SessionRows, Secrets

LEMMA NewChallengeRow ==
  ASSUME Inv, NEW u, NEW a, NEW e, NEW f, NEW w,
         u \in Purposes, a \in Accounts, e \in Nat, f \in Nat, w \in Nat
  PROVE  /\ Challenge(u, a, e, f, w) \in ChallengeRows
         /\ Challenge(u, a, e, f, w).cver = credential.version
         /\ Challenge(u, a, e, f, w).sver = identity.version
         /\ Challenge(u, a, e, f, w).epoch = e /\ Challenge(u, a, e, f, w).pwd = w
         /\ Challenge(u, a, e, f, w).session = 0
BY Versions DEF Inv, Challenge, ChallengeRows, Secrets

\* What every way out of a login has in common.
LEMMA LoginParts ==
  ASSUME Inv, NEW t \in Threads, NEW old, NEW rehash \in BOOLEAN, LoginCommits(t, old, rehash)
  PROVE  /\ Person' /\ Rise /\ Fenced
         /\ credential'.version = credential.version + (IF rehash THEN 1 ELSE 0)
         /\ credential'.version \in Nat
         /\ security' = IF rehash THEN NextEpoch ELSE security
         /\ security'.epoch \in Nat
         /\ credential'.pwd = hand[t].pwd /\ hand[t].pwd \in Nat /\ hand[t].account \in Accounts
         /\ UNCHANGED <<identity, factors, codes>>
         /\ Age /\ Tables' => Requests'
<1>1. /\ credential' = [credential EXCEPT !.version = credential.version + (IF rehash THEN 1 ELSE 0)]
      /\ security' = IF rehash THEN NextEpoch ELSE security
      /\ UNCHANGED <<admin, identity, accounts, factors, codes>>
      /\ lock' = None /\ Ends(t) /\ pc[t] = "admitted"
      BY DEF LoginCommits
<1>2. /\ lock = t /\ hand[t].account \in Accounts /\ hand[t].pwd = credential.pwd
      /\ hand[t].pwd \in Nat
      BY <1>1, ThreadFacts DEF Knows
<1>3. credential \in Credentials /\ security \in [epoch : Nat, enrol : BOOLEAN]
      BY DEF Inv, Person
<1>4. /\ credential' \in Credentials /\ credential'.pwd = credential.pwd
      /\ credential'.version = credential.version + (IF rehash THEN 1 ELSE 0)
      BY <1>1, <1>3 DEF Credentials
<1>5. ~rehash => credential' = credential BY <1>1, <1>3 DEF Credentials
<1>6. security' \in [epoch : Nat, enrol : BOOLEAN] /\ security.epoch <= security'.epoch
      /\ security'.epoch \in Nat
      BY <1>1, <1>3 DEF NextEpoch
<1>7. Person' BY <1>1, <1>4, <1>6 DEF Inv, Person
<1>8. Rise
      <2>1. credential.version \in Nat /\ identity.version \in Nat BY Versions DEF Inv
      <2>2. QED BY <1>1, <1>4, <1>5, <1>6, <2>1 DEF Rise
<1>9. Fenced BY <1>1, FencedAsBefore
<1>10. Age /\ Tables' => Requests'
       <2>1. \A u \in Threads \ {t} : lock # u BY <1>2
       <2>2. QED BY <1>1, <1>7, <1>8, <2>1, EndsStep
<1>11. credential'.version \in Nat BY <1>4 DEF Credentials
<1>12. QED BY <1>1, <1>2, <1>4, <1>6, <1>7, <1>8, <1>9, <1>10, <1>11

LEMMA CommitsStep ==
  ASSUME Inv, NEW t \in Threads, NEW old, NEW rehash \in BOOLEAN, LoginCommits(t, old, rehash)
  PROVE  Inv' /\ Kept
<1> DEFINE ver == credential.version + (IF rehash THEN 1 ELSE 0)
           sec == IF rehash THEN NextEpoch ELSE security
           ended == RevokedIn(sessions, IF rehash THEN DOMAIN sessions ELSE {old})
           a == hand[t].account
           w == hand[t].pwd
<1>1. /\ ver = credential'.version /\ ver \in Nat /\ sec = security' /\ sec.epoch \in Nat
      /\ credential'.pwd = w /\ w \in Nat /\ a \in Accounts
      /\ Person' /\ Rise /\ Fenced /\ (Age /\ Tables' => Requests')
      BY LoginParts
<1>2. UNCHANGED <<identity, factors, codes>> BY LoginParts
<1>3. SessionsAged(ended) /\ Len(ended) = Len(sessions) BY RevokedTable DEF Inv
<1>4. Len(sessions) \in Nat /\ Len(challenges) \in Nat BY TableParts DEF Inv
<1>5. /\ factors' \in Seq(FactorRows) /\ codes' \subseteq [factor : Nat, set : Nat, n : Nat]
      BY <1>2 DEF Inv, Tables
<1> DEFINE sess == [Session(a, sec.epoch, w) EXCEPT !.cver = ver]
           chal(purpose, factor) == [Challenge(purpose, a, sec.epoch, factor, w) EXCEPT !.cver = ver]
<1>6. ASSUME NEW purpose \in {"login", "recovery", "enroll_start"}, NEW factor \in Nat,
             challenges' = Append(challenges, chal(purpose, factor)), sessions' = ended
      PROVE  Inv' /\ Kept
      <2> DEFINE r == chal(purpose, factor)
      <2>1. /\ r \in ChallengeRows /\ r.cver = ver /\ r.sver = identity.version
            /\ r.epoch = sec.epoch /\ r.pwd = w /\ r.session = 0
            <3> HIDE DEF sec, a, w, ver
            <3>1. purpose \in Purposes BY DEF Purposes
            <3>2. Challenge(purpose, a, sec.epoch, factor, w) \in ChallengeRows
                  BY <1>1, <3>1, NewChallengeRow
            <3>3. /\ Challenge(purpose, a, sec.epoch, factor, w).sver = identity.version
                  /\ Challenge(purpose, a, sec.epoch, factor, w).epoch = sec.epoch
                  /\ Challenge(purpose, a, sec.epoch, factor, w).pwd = w
                  /\ Challenge(purpose, a, sec.epoch, factor, w).session = 0
                  BY <1>1, <3>1, NewChallengeRow
            <3>4. QED BY <1>1, <3>2, <3>3 DEF ChallengeRows
      <2> HIDE DEF r, sec, ver, a, w, ended
      <2>2. challenges' = Append(challenges, r) BY <1>6 DEF r, chal, a, w, sec, ver
      <2>3. /\ ChallengesAged(challenges') /\ Len(challenges') = Len(challenges) + 1
            /\ challenges'[Len(challenges) + 1] = r
            BY <2>1, <2>2, ChallengeAdded, TablesStay DEF Inv
      <2>4. OneMoreSession BY <1>3, <1>4, <1>6 DEF OneMoreSession
      <2>5. OneMoreChallenge BY <1>1, <1>2, <1>4, <2>1, <2>3 DEF OneMoreChallenge
      <2>6. QED BY <1>1, <1>3, <1>5, <1>6, <2>3, <2>4, <2>5, Concludes
<1>7. ASSUME sessions' = Append(ended, sess), UNCHANGED challenges
      PROVE  Inv' /\ Kept
      <2>1. /\ sess \in SessionRows /\ sess.cver = ver /\ sess.sver = identity.version
            /\ sess.epoch = sec.epoch /\ sess.pwd = w
            <3> HIDE DEF sec, a, w, ver
            <3>1. /\ Session(a, sec.epoch, w) \in SessionRows
                  /\ Session(a, sec.epoch, w).sver = identity.version
                  /\ Session(a, sec.epoch, w).epoch = sec.epoch
                  /\ Session(a, sec.epoch, w).pwd = w
                  BY <1>1, NewSession
            <3>2. QED BY <1>1, <3>1 DEF SessionRows
      <2> HIDE DEF sess, sec, ver, a, w, ended
      <2>2. /\ SessionsAged(sessions') /\ Len(sessions') = Len(sessions) + 1
            /\ sessions'[Len(sessions) + 1] = sess
            BY <1>3, <1>7, <2>1, SessionAdded DEF Inv
      <2>3. ChallengesAged(challenges') BY <1>7, TablesStay DEF Inv
      <2>4. OneMoreSession BY <1>1, <1>2, <1>4, <2>1, <2>2 DEF OneMoreSession
      <2>5. OneMoreChallenge BY <1>4, <1>7 DEF OneMoreChallenge
      <2>6. QED BY <1>1, <1>5, <1>7, <2>2, <2>3, <2>4, <2>5, Concludes
<1>8. \A i \in DOMAIN factors : factors[i].id \in Nat BY TableParts DEF Inv, FactorRows
<1>9. factors # <<>> => Len(factors) \in DOMAIN factors BY TableParts, LenProperties, EmptySeq DEF Inv, Tables
<1>10. NewChallenge \in Nat BY <1>4 DEF NewChallenge
<1>11. \/ \E i \in DOMAIN factors :
             challenges' = Append(challenges, chal("login", factors[i].id)) /\ sessions' = ended
       \/ /\ factors # <<>>
          /\ challenges' = Append(challenges, chal("recovery", factors[Len(factors)].id))
          /\ sessions' = ended
       \/ challenges' = Append(challenges, chal("enroll_start", NewChallenge)) /\ sessions' = ended
       \/ sessions' = Append(ended, sess) /\ UNCHANGED challenges
       BY DEF LoginCommits
<1> HIDE DEF chal, sess, ended
<1>12. QED BY <1>6, <1>7, <1>8, <1>9, <1>10, <1>11

\* A command of no thread, which adds no row.
LEMMA CommandStep ==
  ASSUME Inv, UNCHANGED local, Person', factors' \in Seq(FactorRows),
         codes' \subseteq [factor : Nat, set : Nat, n : Nat],
         SessionsAged(sessions'), Len(sessions') = Len(sessions),
         ChallengesAged(challenges'), Len(challenges') = Len(challenges),
         Rise, Fenced, lock # None => credential' = credential
  PROVE  Inv' /\ Kept
<1>1. Len(sessions) \in Nat /\ Len(challenges) \in Nat BY TableParts DEF Inv
<1>2. OneMoreSession /\ OneMoreChallenge BY <1>1 DEF OneMoreSession, OneMoreChallenge
<1>3. Age /\ Tables' => Requests' BY OthersStep
<1>4. QED BY <1>2, <1>3, Concludes

\* One that leaves the rows of the person alone, or moves only its epoch on.
LEMMA EndingStep ==
  ASSUME Inv, UNCHANGED <<admin, identity, credential, accounts, factors, codes>>, UNCHANGED local,
         security' = security \/ security' = NextEpoch,
         SessionsAged(sessions'), Len(sessions') = Len(sessions),
         ChallengesAged(challenges'), Len(challenges') = Len(challenges)
  PROVE  Inv' /\ Kept
<1>1. security' \in [epoch : Nat, enrol : BOOLEAN] BY EpochRises DEF Inv, Person
<1>2. Person' BY <1>1 DEF Inv, Person
<1>3. Rise BY EpochRises, Unrisen DEF Inv
<1>4. Fenced BY FencedAsBefore
<1>5. factors' \in Seq(FactorRows) /\ codes' \subseteq [factor : Nat, set : Nat, n : Nat]
      BY DEF Inv, Tables
<1>6. QED BY <1>2, <1>3, <1>4, <1>5, CommandStep

LEMMA RevokesStep ==
  ASSUME Inv, UNCHANGED <<admin, identity, credential, accounts, factors, codes, challenges>>,
         UNCHANGED local, security' = security \/ security' = NextEpoch,
         NEW W, sessions' = RevokedIn(sessions, W)
  PROVE  Inv' /\ Kept
<1>1. SessionsAged(sessions') /\ Len(sessions') = Len(sessions) BY RevokedTable DEF Inv
<1>2. ChallengesAged(challenges') BY TablesStay DEF Inv
<1>3. QED BY <1>1, <1>2, EndingStep

LEMMA ChangeReadsStep ==
  ASSUME Inv, NEW t \in Threads, NEW s \in DOMAIN sessions, ChangeReads(t, s)
  PROVE  Inv' /\ Kept
<1> DEFINE q == [Nothing EXCEPT !.session = s, !.version = credential.version, !.pwd = credential.pwd]
<1>1. s \in Nat BY TableParts DEF Inv
<1>2. q \in Hands /\ q.version = credential.version /\ q.pwd = credential.pwd /\ q.session = s
      BY <1>1, NothingHeld, Versions DEF Inv, Hands
<1> HIDE DEF q
<1>3. UNCHANGED <<admin, rows, sessions, challenges, lock>> BY DEF ChangeReads
<1>4. pc'[t] = "changing" /\ hand'[t] = q => Knows(t)'
      BY <1>2, <1>3, Versions DEF rows, Knows, Inv
<1>5. Goes(t, "changing", q) BY DEF ChangeReads, q
<1>6. ChallengesAged(challenges') BY <1>3, TablesStay DEF Inv
<1>7. QED BY <1>2, <1>3, <1>4, <1>5, <1>6, QuietStep DEF Places, Inv, Requests

\* Every session has ended, and with another password every row has lost its version.
LEMMA NewPassword ==
  ASSUME Inv, credential' \in Credentials, credential'.version = credential.version + 1,
         security' = NextEpoch, UNCHANGED <<admin, identity, accounts, factors, codes>>
  PROVE  Person' /\ Rise /\ Fenced
<1>1. /\ security' = [security EXCEPT !.epoch = security.epoch + 1]
      /\ security.epoch \in Nat /\ security \in [epoch : Nat, enrol : BOOLEAN]
      BY Versions DEF NextEpoch, Inv, Person
<1>2. security'.epoch = security.epoch + 1 /\ security' \in [epoch : Nat, enrol : BOOLEAN]
      BY <1>1
<1>3. Person' BY <1>2 DEF Inv, Person
<1>4. Rise BY <1>1, <1>2, Versions DEF Inv, Rise
<1>5. QED BY <1>3, <1>4, FencedAsBefore

LEMMA ChangeStep ==
  ASSUME Inv, NEW t \in Threads, NEW p, ChangeCommits(t, p)
  PROVE  Inv' /\ Kept
<1>1. /\ challenges' = Consumed(challenges, {p}) /\ sessions' = RevokedIn(sessions, DOMAIN sessions)
      /\ credential' = [credential EXCEPT !.version = credential.version + 1, !.pwd = credential.pwd + 1]
      /\ security' = NextEpoch /\ Ends(t) /\ lock = None
      /\ UNCHANGED <<admin, identity, accounts, factors, codes, lock>>
      BY DEF ChangeCommits, AllRevoked
<1>2. credential' \in Credentials /\ credential'.version = credential.version + 1
      <2> DEFINE v == credential.version + 1
                 w == credential.pwd + 1
      <2>1. credential \in Credentials /\ v \in Nat /\ w \in Nat BY Versions DEF Inv, Person
      <2>2. credential' = [credential EXCEPT !.version = v, !.pwd = w] BY <1>1
      <2> HIDE DEF v, w
      <2>3. credential' \in Credentials /\ credential'.version = v BY <2>1, <2>2 DEF Credentials
      <2>4. QED BY <2>3 DEF v
<1>3. Person' /\ Rise /\ Fenced BY <1>1, <1>2, NewPassword
<1>4. SessionsAged(sessions') /\ Len(sessions') = Len(sessions) BY <1>1, RevokedTable DEF Inv
<1>5. ChallengesAged(challenges') /\ Len(challenges') = Len(challenges) BY <1>1, ConsumedTable DEF Inv
<1>6. factors' \in Seq(FactorRows) /\ codes' \subseteq [factor : Nat, set : Nat, n : Nat]
      BY <1>1 DEF Inv, Tables
<1>7. Len(sessions) \in Nat /\ Len(challenges) \in Nat BY TableParts DEF Inv
<1>8. OneMoreSession /\ OneMoreChallenge BY <1>4, <1>5, <1>7 DEF OneMoreSession, OneMoreChallenge
<1>9. \A u \in Threads : lock # u BY <1>1, SessionsAssumption
<1>10. Age /\ Tables' => Requests' BY <1>1, <1>3, <1>9, EndsStep
<1>11. QED BY <1>3, <1>4, <1>5, <1>6, <1>8, <1>10, Concludes
-----------------------------------------------------------------------------
(* MfaService.                                                             *)

LEMMA EnrollmentStep ==
  ASSUME Inv, NEW c \in DOMAIN challenges, BeginEnrollment(c)
  PROVE  Inv' /\ Kept
<1> DEFINE row == challenges[c]
           r0 == Challenge("enroll", row.account, row.epoch, row.factor, row.pwd)
           r == [r0 EXCEPT !.from = c, !.root = row.root]
           Q == Consumed(challenges, {c})
<1>1. /\ row \in ChallengeRows /\ Carries(row) /\ c \in Nat BY TableParts DEF Inv, Bound
<1>2. row.account \in Accounts /\ row.epoch \in Nat /\ row.factor \in Nat /\ row.pwd \in Nat
      /\ row.root \in {"password", "code", "proof"}
      BY <1>1 DEF ChallengeRows
<1>3. row.cver = credential.version BY DEF BeginEnrollment, Usable, IsBound
<1>4. row.pwd = credential.pwd /\ row.epoch <= security.epoch BY <1>1, <1>3 DEF Carries
<1> HIDE DEF row
<1>5. /\ r0 \in ChallengeRows
      /\ r0.cver = credential.version /\ r0.sver = identity.version
      /\ r0.epoch = row.epoch /\ r0.pwd = row.pwd /\ r0.session = 0
      <2>1. "enroll" \in Purposes BY DEF Purposes
      <2>2. QED BY <1>2, <2>1, NewChallengeRow
<1> HIDE DEF r0
<1>6. /\ r \in ChallengeRows
      /\ r.cver = credential.version /\ r.sver = identity.version
      /\ r.epoch = row.epoch /\ r.pwd = row.pwd /\ r.session = 0
      BY <1>1, <1>2, <1>5 DEF ChallengeRows
<1>7. /\ challenges' = Append(Q, r) /\ UNCHANGED <<admin, rows, sessions, local>>
      BY DEF BeginEnrollment, r0, row
<1> HIDE DEF r, Q
<1>8. ChallengesAged(Q) /\ Len(Q) = Len(challenges) BY ConsumedTable DEF Q, Inv
<1>9. /\ ChallengesAged(challenges') /\ Len(challenges') = Len(challenges) + 1
      /\ challenges'[Len(challenges) + 1] = r
      <2>1. Tables /\ ChallengesAged(Q) /\ r \in ChallengeRows BY <1>6, <1>8 DEF Inv
      <2>2. /\ ChallengesAged(Append(Q, r)) /\ Len(Append(Q, r)) = Len(Q) + 1
            /\ Append(Q, r)[Len(Q) + 1] = r
            BY <2>1, ChallengeAdded
      <2>3. QED BY <1>7, <1>8, <2>2
<1>10. UNCHANGED <<identity, credential, security, accounts, factors, codes, admin, sessions>>
       BY <1>7 DEF rows
<1>11. Person' /\ Rise /\ Fenced BY <1>10, Unrisen, FencedAsBefore DEF Inv, Person
<1>12. Len(sessions) \in Nat /\ Len(challenges) \in Nat BY TableParts DEF Inv
<1>13. OneMoreSession /\ OneMoreChallenge
       BY <1>4, <1>6, <1>9, <1>10, <1>12 DEF OneMoreSession, OneMoreChallenge
<1>14. SessionsAged(sessions') BY <1>10, TablesStay DEF Inv
<1>15. Age /\ Tables' => Requests' BY <1>7, <1>10, <1>11, OthersStep
<1>16. factors' \in Seq(FactorRows) /\ codes' \subseteq [factor : Nat, set : Nat, n : Nat]
       BY <1>10 DEF Inv, Tables
<1>17. QED BY <1>9, <1>10, <1>11, <1>13, <1>14, <1>15, <1>16, Concludes

LEMMA AttemptChecksStep ==
  ASSUME Inv, NEW t \in Threads, NEW c \in DOMAIN challenges, NEW op \in DOMAIN CodePurposes,
         AttemptChecks(t, c, op)
  PROVE  Inv' /\ Kept
<1> DEFINE q == [Nothing EXCEPT !.challenge = c, !.op = op]
<1>1. c \in Nat BY TableParts DEF Inv
<1>2. q \in Hands /\ q.challenge = c BY <1>1, NothingHeld DEF Hands
<1> HIDE DEF q
<1>3. UNCHANGED <<admin, rows, sessions, challenges, lock>> BY DEF AttemptChecks
<1>4. pc'[t] = "attempting" /\ hand'[t] = q => Knows(t)' BY <1>2, <1>3 DEF Knows
<1>5. Goes(t, "attempting", q) BY DEF AttemptChecks, q
<1>6. ChallengesAged(challenges') BY <1>3, TablesStay DEF Inv
<1>7. QED BY <1>2, <1>3, <1>4, <1>5, <1>6, QuietStep DEF Places, Inv, Requests

\* A code is compared, under a challenge that is used up or not.
LEMMA TriedTable ==
  ASSUME Tables, NEW Q, ChallengesAged(Q), Len(Q) = Len(challenges), NEW c \in 1..Len(challenges)
  PROVE  ChallengesAged(Tried(Q, c)) /\ Len(Tried(Q, c)) = Len(challenges)
<1> DEFINE k == Q[c].tried + 1
           r == [Q[c] EXCEPT !.tried = k]
<1>1. Q[c] \in ChallengeRows BY ElementOfSeq DEF ChallengesAged
<1>2. k \in Nat BY <1>1 DEF ChallengeRows
<1> HIDE DEF k
<1>3. r \in ChallengeRows /\ ChallengeAged(r, Q[c]) BY <1>1, <1>2 DEF ChallengeRows, ChallengeAged
<1>4. Tried(Q, c) = [Q EXCEPT ![c] = r] BY DEF Tried, k
<1> HIDE DEF r
<1>5. ChallengesAged([Q EXCEPT ![c] = r]) /\ Len([Q EXCEPT ![c] = r]) = Len(challenges)
      BY <1>3, ChallengeReplaced
<1>6. QED BY <1>4, <1>5

LEMMA SpentTable ==
  ASSUME Tables, NEW c \in 1..Len(challenges)
  PROVE  ChallengesAged(Spent(c)) /\ Len(Spent(c)) = Len(challenges)
BY ConsumedTable, TriedTable DEF Spent

LEMMA AttemptCountsStep ==
  ASSUME Inv, NEW t \in Threads, AttemptCounts(t)
  PROVE  Inv' /\ Kept
<1> DEFINE c == hand[t].challenge
           k == challenges[c].attempts + 1
           r == [challenges[c] EXCEPT !.attempts = k]
<1>1. c \in DOMAIN challenges BY ThreadFacts DEF AttemptCounts, Knows
<1>2. c \in 1..Len(challenges) /\ challenges[c] \in ChallengeRows BY <1>1, TableParts DEF Inv
<1> HIDE DEF c
<1>3. k \in Nat BY <1>2 DEF ChallengeRows
<1> HIDE DEF k
<1>4. r \in ChallengeRows /\ ChallengeAged(r, challenges[c])
      BY <1>2, <1>3 DEF ChallengeRows, ChallengeAged
<1>5. challenges' = [challenges EXCEPT ![c] = r] BY DEF AttemptCounts, c, k
<1> HIDE DEF r
<1>6. ChallengesAged(challenges') /\ Len(challenges') = Len(challenges)
      BY <1>2, <1>4, <1>5, TablesStay, ChallengeReplaced DEF Inv
<1>7. UNCHANGED <<admin, rows, sessions, lock>> /\ Goes(t, "comparing", hand[t])
      BY DEF AttemptCounts
<1>8. DOMAIN challenges' = DOMAIN challenges BY <1>5
<1>9. pc'[t] = "comparing" /\ hand'[t] = hand[t] => Knows(t)' BY <1>1, <1>8 DEF Knows, c
<1>10. QED BY <1>6, <1>7, <1>9, ThreadFacts, QuietStep DEF Places, Inv, Requests

LEMMA IdleKnows ==
  ASSUME NEW t, pc'[t] = "idle"
  PROVE  Knows(t)'
BY DEF Knows

LEMMA WrongStep ==
  ASSUME Inv, NEW t \in Threads, CodeIsWrong(t)
  PROVE  Inv' /\ Kept
<1> DEFINE c == hand[t].challenge
<1>1. c \in DOMAIN challenges BY ThreadFacts DEF CodeIsWrong, Knows
<1>2. c \in 1..Len(challenges) BY <1>1, TableParts DEF Inv
<1>3. challenges' = Tried(challenges, c) /\ UNCHANGED <<admin, rows, sessions, lock>> /\ Ends(t)
      BY DEF CodeIsWrong
<1> HIDE DEF c
<1>4. ChallengesAged(challenges') /\ Len(challenges') = Len(challenges)
      BY <1>2, <1>3, TablesStay, TriedTable DEF Inv
<1>5. QED BY <1>3, <1>4, NothingHeld, IdleKnows, QuietStep DEF Places, Inv, Requests, Ends

LEMMA AbandonStep ==
  ASSUME Inv, NEW t \in Threads, Abandon(t)
  PROVE  Inv' /\ Kept
<1>1. UNCHANGED <<admin, rows, sessions, challenges>> /\ Ends(t)
      /\ lock' = IF lock = t THEN None ELSE lock
      BY DEF Abandon
<1>2. ChallengesAged(challenges') BY <1>1, TablesStay DEF Inv
<1>3. lock' \in Threads \cup {None} /\ \A u \in Threads \ {t} : lock = u => lock' = u
      BY <1>1 DEF Inv, Requests
<1>4. QED BY <1>1, <1>2, <1>3, NothingHeld, IdleKnows, QuietStep DEF Places, Ends

\* A thread exchanges its challenge: what it may change and what it has to show.
LEMMA ExchangeStep ==
  ASSUME Inv, NEW t \in Threads, Ends(t), lock = None,
         UNCHANGED <<admin, identity, credential, accounts, lock>>,
         security' \in [epoch : Nat, enrol : BOOLEAN], security.epoch <= security'.epoch,
         factors' \in Seq(FactorRows), codes' \subseteq [factor : Nat, set : Nat, n : Nat],
         \/ UNCHANGED factors
         \/ \A f : ActiveNow(f) => ActiveFactor(f)
         \/ \A s \in 1..Len(sessions) : sessions'[s].revoked,
         SessionsAged(sessions'), ChallengesAged(challenges'),
         Len(sessions') \in {Len(sessions), Len(sessions) + 1}, OneMoreSession,
         Len(challenges') \in {Len(challenges), Len(challenges) + 1}, OneMoreChallenge
  PROVE  Inv' /\ Kept
<1>1. Person' BY DEF Inv, Person
<1>2. Rise BY Versions DEF Inv, Rise
<1>3. Fenced BY FencedAsBefore
<1>4. \A u \in Threads : lock # u BY SessionsAssumption
<1>5. Age /\ Tables' => Requests' BY <1>1, <1>2, <1>4, EndsStep DEF Inv, Requests
<1>6. QED BY <1>1, <1>2, <1>3, <1>5, Concludes

LEMMA StepSpentTable ==
  ASSUME Tables, NEW f, NEW n \in Nat
  PROVE  /\ StepSpent(f, n) \in Seq(FactorRows)
         /\ factors' = StepSpent(f, n) => \A g : ActiveNow(g) => ActiveFactor(g)
<1> DEFINE Q == StepSpent(f, n)
           m == Len(factors)
<1>1. m \in Nat /\ DOMAIN factors = 1..m /\ \A i \in 1..m : factors[i] \in FactorRows BY TableParts
<1>2. Q = [i \in 1..m |-> IF factors[i].id = f THEN [factors[i] EXCEPT !.step = n] ELSE factors[i]]
      BY <1>1 DEF StepSpent
<1>3. ASSUME NEW i \in 1..m
      PROVE  Q[i] \in FactorRows /\ Q[i].id = factors[i].id /\ Q[i].revoked = factors[i].revoked
      <2>1. factors[i] \in FactorRows BY <1>1
      <2>2. CASE factors[i].id = f
            <3>1. Q[i] = [factors[i] EXCEPT !.step = n] BY <1>2, <2>2
            <3> HIDE DEF Q
            <3>2. QED BY <2>1, <3>1 DEF FactorRows
      <2>3. CASE factors[i].id # f BY <1>2, <2>1, <2>3
      <2>4. QED BY <2>2, <2>3
<1>4. Q \in [1..m -> FactorRows] /\ DOMAIN Q = 1..m BY <1>2, <1>3
<1> HIDE DEF Q
<1>5. Q \in Seq(FactorRows) BY <1>1, <1>4, FunctionIsSeq
<1>6. factors' = Q => \A g : ActiveNow(g) => ActiveFactor(g)
      BY <1>1, <1>3, <1>4 DEF ActiveNow, ActiveFactor
<1>7. QED BY <1>5, <1>6 DEF Q

LEMMA FactorsRevokedTable ==
  ASSUME Tables
  PROVE  FactorsRevoked \in Seq(FactorRows)
<1> DEFINE Q == FactorsRevoked
           m == Len(factors)
<1>1. m \in Nat /\ DOMAIN factors = 1..m /\ \A i \in 1..m : factors[i] \in FactorRows BY TableParts
<1>2. Q = [i \in 1..m |-> [factors[i] EXCEPT !.revoked = TRUE]] BY <1>1 DEF FactorsRevoked
<1>3. \A i \in 1..m : [factors[i] EXCEPT !.revoked = TRUE] \in FactorRows BY <1>1 DEF FactorRows
<1>4. Q \in [1..m -> FactorRows] BY <1>2, <1>3
<1> HIDE DEF Q
<1>5. QED BY <1>1, <1>4, FunctionIsSeq DEF Q

\* What a challenge that is usable gives to the row it is exchanged for.
LEMMA UsableFacts ==
  ASSUME Inv, NEW c \in DOMAIN challenges, Usable(c)
  PROVE  /\ challenges[c] \in ChallengeRows /\ c \in 1..Len(challenges) /\ c \in Nat
         /\ challenges[c].account \in Accounts /\ challenges[c].epoch \in Nat
         /\ challenges[c].factor \in Nat /\ challenges[c].pwd \in Nat
         /\ challenges[c].target \in StepUpActions \cup {None}
         /\ challenges[c].root \in {"password", "code", "proof"}
         /\ challenges[c].pwd = credential.pwd
         /\ challenges[c].epoch = security.epoch
         /\ challenges[c].session \in 0..Len(sessions)
<1> DEFINE row == challenges[c]
<1>1. row \in ChallengeRows /\ Carries(row) /\ c \in 1..Len(challenges) /\ c \in Nat
      /\ row.session \in 0..Len(sessions)
      BY TableParts DEF Inv, Bound
<1>2. row.cver = credential.version /\ row.epoch = security.epoch BY DEF Usable, IsBound
<1>3. row.pwd = credential.pwd BY <1>1, <1>2 DEF Carries
<1>4. /\ row.account \in Accounts /\ row.epoch \in Nat /\ row.factor \in Nat /\ row.pwd \in Nat
      /\ row.target \in StepUpActions \cup {None} /\ row.root \in {"password", "code", "proof"}
      BY <1>1 DEF ChallengeRows
<1>5. QED BY <1>1, <1>2, <1>3, <1>4

LEMMA ComparesFacts ==
  ASSUME Inv, NEW t \in Threads, NEW op, NEW S, Compares(t, op, S)
  PROVE  /\ hand[t].challenge \in DOMAIN challenges /\ Usable(hand[t].challenge)
         /\ lock = None
BY ThreadFacts DEF Compares, Knows

\* A session with its second factor.
Factored(r0, f, c, n) == [r0 EXCEPT !.mfa = f, !.from = c, !.by = <<"totp", f, n>>]

LEMMA FactoredSession ==
  ASSUME NEW r0, NEW f, NEW c, NEW n, r0 \in SessionRows, f \in Nat, c \in Nat, n \in Nat
  PROVE  /\ Factored(r0, f, c, n) \in SessionRows
         /\ Factored(r0, f, c, n).cver = r0.cver /\ Factored(r0, f, c, n).sver = r0.sver
         /\ Factored(r0, f, c, n).epoch = r0.epoch /\ Factored(r0, f, c, n).pwd = r0.pwd
<1> DEFINE b == <<"totp", f, n>>
<1>1. b \in Secrets BY DEF Secrets
<1>2. Factored(r0, f, c, n) = [r0 EXCEPT !.mfa = f, !.from = c, !.by = b] BY DEF Factored
<1> HIDE DEF b
<1>3. QED BY <1>1, <1>2 DEF SessionRows

LEMMA CompletesLoginStep ==
  ASSUME Inv, NEW t \in Threads, NEW n \in TimeSteps, CompletesLogin(t, n)
  PROVE  Inv' /\ Kept
<1> DEFINE c == hand[t].challenge
           row == challenges[c]
           r0 == Session(row.account, security.epoch, row.pwd)
           r == Factored(r0, row.factor, c, n)
<1>1. c \in DOMAIN challenges /\ Usable(c) /\ lock = None BY ComparesFacts DEF CompletesLogin
<1>2. /\ factors' = StepSpent(row.factor, n) /\ challenges' = Spent(c)
      /\ sessions' = Append(sessions, r) /\ Ends(t)
      /\ UNCHANGED <<admin, identity, credential, security, accounts, codes, lock>>
      BY DEF CompletesLogin, Factored
<1> HIDE DEF c
<1>3. /\ c \in 1..Len(challenges) /\ c \in Nat /\ row.account \in Accounts /\ row.factor \in Nat
      /\ row.pwd \in Nat /\ row.pwd = credential.pwd
      BY <1>1, UsableFacts
<1> HIDE DEF row
<1>4. n \in Nat /\ security.epoch \in Nat BY SessionsAssumption, Versions DEF Inv
<1>5. /\ r \in SessionRows
      /\ r.cver = credential.version /\ r.sver = identity.version
      /\ r.epoch = security.epoch /\ r.pwd = row.pwd
      <2>1. /\ r0 \in SessionRows
            /\ r0.cver = credential.version /\ r0.sver = identity.version
            /\ r0.epoch = security.epoch /\ r0.pwd = row.pwd
            BY <1>3, <1>4, NewSession
      <2>2. row.factor \in Nat /\ c \in Nat /\ n \in Nat BY <1>3, <1>4
      <2> HIDE DEF r0, r
      <2>3. /\ Factored(r0, row.factor, c, n) \in SessionRows
            /\ Factored(r0, row.factor, c, n).cver = r0.cver
            /\ Factored(r0, row.factor, c, n).sver = r0.sver
            /\ Factored(r0, row.factor, c, n).epoch = r0.epoch
            /\ Factored(r0, row.factor, c, n).pwd = r0.pwd
            BY <2>1, <2>2, FactoredSession
      <2>4. r = Factored(r0, row.factor, c, n) BY DEF r
      <2>5. QED BY <2>1, <2>3, <2>4
<1> HIDE DEF r
<1>6. /\ SessionsAged(sessions') /\ Len(sessions') = Len(sessions) + 1
      /\ sessions'[Len(sessions) + 1] = r
      BY <1>2, <1>5, SessionAdded, TablesStay DEF Inv
<1>7. ChallengesAged(challenges') /\ Len(challenges') = Len(challenges)
      BY <1>2, <1>3, SpentTable DEF Inv
<1>8. factors' \in Seq(FactorRows) /\ \A f : ActiveNow(f) => ActiveFactor(f)
      BY <1>2, <1>4, StepSpentTable DEF Inv
<1>9. Len(sessions) \in Nat /\ Len(challenges) \in Nat BY TableParts DEF Inv
<1>10. OneMoreSession /\ OneMoreChallenge
       BY <1>2, <1>3, <1>4, <1>5, <1>6, <1>7, <1>9 DEF OneMoreSession, OneMoreChallenge
<1>11. security' \in [epoch : Nat, enrol : BOOLEAN] /\ security.epoch <= security'.epoch
       /\ codes' \subseteq [factor : Nat, set : Nat, n : Nat]
       BY <1>2, <1>4 DEF Inv, Person, Tables
<1>12. QED BY <1>1, <1>2, <1>6, <1>7, <1>8, <1>10, <1>11, ExchangeStep

LEMMA CompletesEnrollmentStep ==
  ASSUME Inv, NEW t \in Threads, NEW n \in TimeSteps, CompletesEnrollment(t, n)
  PROVE  Inv' /\ Kept
<1> DEFINE c == hand[t].challenge
           row == challenges[c]
           e == security.epoch + 1
           ended == RevokedIn(sessions, DOMAIN sessions)
           r0 == Session(row.account, e, row.pwd)
           r == Factored(r0, row.factor, c, n)
           fac == [id |-> row.factor, step |-> n, revoked |-> FALSE]
<1>1. c \in DOMAIN challenges /\ Usable(c) /\ lock = None BY ComparesFacts DEF CompletesEnrollment
<1>2. /\ factors' = Append(factors, fac) /\ challenges' = Spent(c)
      /\ security' = [NextEpoch EXCEPT !.enrol = FALSE]
      /\ codes' = CodeSet(row.factor, c)
      /\ sessions' = Append(ended, r) /\ Ends(t)
      /\ UNCHANGED <<admin, identity, credential, accounts, lock>>
      BY DEF CompletesEnrollment, AllRevoked, Factored
<1> HIDE DEF c
<1>3. /\ c \in 1..Len(challenges) /\ c \in Nat /\ row.account \in Accounts /\ row.factor \in Nat
      /\ row.pwd \in Nat /\ row.pwd = credential.pwd
      BY <1>1, UsableFacts
<1> HIDE DEF row
<1>4. n \in Nat /\ e \in Nat /\ security \in [epoch : Nat, enrol : BOOLEAN]
      BY SessionsAssumption, Versions DEF Inv, Person
<1>5. security'.epoch = e /\ security' \in [epoch : Nat, enrol : BOOLEAN] /\ security.epoch <= e
      <2>1. security.epoch \in Nat BY Versions DEF Inv
      <2>2. security' = [[security EXCEPT !.epoch = e] EXCEPT !.enrol = FALSE] BY <1>2 DEF NextEpoch
      <2>3. security.epoch <= e BY <2>1
      <2> HIDE DEF e
      <2>4. QED BY <1>4, <2>2, <2>3
<1> HIDE DEF e
<1>6. /\ r \in SessionRows
      /\ r.cver = credential.version /\ r.sver = identity.version /\ r.epoch = e /\ r.pwd = row.pwd
      <2>1. /\ r0 \in SessionRows
            /\ r0.cver = credential.version /\ r0.sver = identity.version
            /\ r0.epoch = e /\ r0.pwd = row.pwd
            BY <1>3, <1>4, NewSession
      <2>2. row.factor \in Nat /\ c \in Nat /\ n \in Nat BY <1>3, <1>4
      <2> HIDE DEF r0, r
      <2>3. /\ Factored(r0, row.factor, c, n) \in SessionRows
            /\ Factored(r0, row.factor, c, n).cver = r0.cver
            /\ Factored(r0, row.factor, c, n).sver = r0.sver
            /\ Factored(r0, row.factor, c, n).epoch = r0.epoch
            /\ Factored(r0, row.factor, c, n).pwd = r0.pwd
            BY <2>1, <2>2, FactoredSession
      <2>4. r = Factored(r0, row.factor, c, n) BY DEF r
      <2>5. QED BY <2>1, <2>3, <2>4
<1>7. fac \in FactorRows BY <1>3, <1>4 DEF FactorRows
<1> HIDE DEF r, fac, ended
<1>8. /\ SessionsAged(ended) /\ Len(ended) = Len(sessions)
      /\ \A s \in 1..Len(sessions) : ended[s].revoked
      BY RevokedTable, TableParts DEF ended, Inv
<1>9. /\ SessionsAged(sessions') /\ Len(sessions') = Len(sessions) + 1
      /\ sessions'[Len(sessions) + 1] = r
      /\ \A s \in 1..Len(sessions) : sessions'[s] = ended[s]
      <2>1. /\ SessionsAged(Append(ended, r)) /\ Len(Append(ended, r)) = Len(ended) + 1
            /\ Append(ended, r)[Len(ended) + 1] = r
            /\ \A s \in 1..Len(sessions) : Append(ended, r)[s] = ended[s]
            BY <1>6, <1>8, SessionAdded DEF Inv
      <2>2. QED BY <1>2, <1>8, <2>1
<1>10. ChallengesAged(challenges') /\ Len(challenges') = Len(challenges)
       BY <1>2, <1>3, SpentTable DEF Inv
<1>11. factors' \in Seq(FactorRows) BY <1>2, <1>7, AppendProperties DEF Inv, Tables
<1>12. codes' \subseteq [factor : Nat, set : Nat, n : Nat]
       BY <1>2, <1>3, SessionsAssumption DEF CodeSet
<1>13. Len(sessions) \in Nat /\ Len(challenges) \in Nat BY TableParts DEF Inv
<1>14. e <= e BY <1>4
<1>15. OneMoreSession /\ OneMoreChallenge
       BY <1>2, <1>3, <1>5, <1>6, <1>9, <1>10, <1>13, <1>14 DEF OneMoreSession, OneMoreChallenge
<1>16. \A s \in 1..Len(sessions) : sessions'[s].revoked BY <1>8, <1>9
<1>17. QED BY <1>1, <1>2, <1>5, <1>9, <1>10, <1>11, <1>12, <1>15, <1>16, ExchangeStep

\* A challenge is added behind those that have aged.
LEMMA ChallengeGiven ==
  ASSUME Inv, NEW Q, ChallengesAged(Q), Len(Q) = Len(challenges), NEW r, r \in ChallengeRows,
         challenges' = Append(Q, r)
  PROVE  /\ ChallengesAged(challenges') /\ Len(challenges') = Len(challenges) + 1
         /\ challenges'[Len(challenges) + 1] = r
<1>1. /\ ChallengesAged(Append(Q, r)) /\ Len(Append(Q, r)) = Len(Q) + 1
      /\ Append(Q, r)[Len(Q) + 1] = r
      BY ChallengeAdded DEF Inv
<1>2. QED BY <1>1

LEMMA AllEnded ==
  ASSUME Inv, sessions' = AllRevoked
  PROVE  /\ SessionsAged(sessions') /\ Len(sessions') = Len(sessions)
         /\ \A s \in 1..Len(sessions) : sessions'[s].revoked
BY RevokedTable, TableParts DEF Inv, AllRevoked

LEMMA NextEpochFacts ==
  ASSUME Inv, security' = [NextEpoch EXCEPT !.enrol = FALSE]
  PROVE  /\ security'.epoch = security.epoch + 1 /\ security.epoch + 1 \in Nat
         /\ security' \in [epoch : Nat, enrol : BOOLEAN] /\ security.epoch <= security'.epoch
<1> DEFINE e == security.epoch + 1
<1>1. e \in Nat /\ security.epoch <= e /\ security \in [epoch : Nat, enrol : BOOLEAN]
      BY Versions DEF Inv, Person
<1>2. security' = [[security EXCEPT !.epoch = e] EXCEPT !.enrol = FALSE] BY DEF NextEpoch
<1> HIDE DEF e
<1>3. security'.epoch = e /\ security' \in [epoch : Nat, enrol : BOOLEAN] BY <1>1, <1>2
<1>4. QED BY <1>1, <1>3 DEF e

LEMMA CompletesStepUpStep ==
  ASSUME Inv, NEW t \in Threads, NEW n \in TimeSteps, CompletesStepUp(t, n)
  PROVE  Inv' /\ Kept
<1> DEFINE c == hand[t].challenge
           row == challenges[c]
           r0 == Challenge("proof", row.account, row.epoch, row.factor, row.pwd)
           b == <<"totp", row.factor, n>>
           r == [r0 EXCEPT !.session = row.session, !.target = row.target, !.from = c, !.by = b]
           Q == Spent(c)
<1>1. c \in DOMAIN challenges /\ Usable(c) /\ lock = None BY ComparesFacts DEF CompletesStepUp
<1>2. /\ factors' = StepSpent(row.factor, n) /\ challenges' = Append(Q, r) /\ Ends(t)
      /\ UNCHANGED <<admin, identity, credential, security, accounts, sessions, codes, lock>>
      BY DEF CompletesStepUp
<1> HIDE DEF c
<1>3. /\ c \in 1..Len(challenges) /\ c \in Nat /\ row.account \in Accounts /\ row.epoch \in Nat
      /\ row.factor \in Nat /\ row.pwd \in Nat /\ row.pwd = credential.pwd
      /\ row.epoch = security.epoch
      /\ row.session \in 0..Len(sessions) /\ row.target \in StepUpActions \cup {None}
      BY <1>1, UsableFacts
<1> HIDE DEF row
<1>4. n \in Nat /\ security.epoch \in Nat /\ Len(sessions) \in Nat /\ Len(challenges) \in Nat
      BY SessionsAssumption, Versions, TableParts DEF Inv
<1>5. /\ r0 \in ChallengeRows
      /\ r0.cver = credential.version /\ r0.sver = identity.version
      /\ r0.epoch = row.epoch /\ r0.pwd = row.pwd
      <2>1. "proof" \in Purposes BY DEF Purposes
      <2>2. QED BY <1>3, <2>1, NewChallengeRow
<1>6. b \in Secrets BY <1>3, <1>4 DEF Secrets
<1>7. row.session \in Nat BY <1>3, <1>4
<1> HIDE DEF r0, b
<1>8. /\ r \in ChallengeRows
      /\ r.cver = credential.version /\ r.sver = identity.version
      /\ r.epoch = row.epoch /\ r.pwd = row.pwd /\ r.session = row.session
      BY <1>3, <1>5, <1>6, <1>7 DEF ChallengeRows
<1>9. ChallengesAged(Q) /\ Len(Q) = Len(challenges) BY <1>3, SpentTable DEF Inv
<1> HIDE DEF r, Q
<1>10. /\ ChallengesAged(challenges') /\ Len(challenges') = Len(challenges) + 1
       /\ challenges'[Len(challenges) + 1] = r
       BY <1>2, <1>8, <1>9, ChallengeGiven
<1>11. factors' \in Seq(FactorRows) /\ \A f : ActiveNow(f) => ActiveFactor(f)
       BY <1>2, <1>4, StepSpentTable DEF Inv
<1>12. OneMoreSession /\ OneMoreChallenge
       BY <1>2, <1>3, <1>4, <1>8, <1>10 DEF OneMoreSession, OneMoreChallenge
<1>13. security' \in [epoch : Nat, enrol : BOOLEAN] /\ security.epoch <= security'.epoch
       /\ codes' \subseteq [factor : Nat, set : Nat, n : Nat]
       BY <1>2, <1>4 DEF Inv, Person, Tables
<1>14. SessionsAged(sessions') /\ Len(sessions') = Len(sessions) BY <1>2, TablesStay DEF Inv
<1>15. QED BY <1>1, <1>2, <1>10, <1>11, <1>12, <1>13, <1>14, ExchangeStep

LEMMA RecoversStep ==
  ASSUME Inv, NEW t \in Threads, NEW code \in codes, Recovers(t, code)
  PROVE  Inv' /\ Kept
<1> DEFINE c == hand[t].challenge
           row == challenges[c]
           e == security.epoch + 1
           r0 == Challenge("enroll_start", row.account, e, NewChallenge, row.pwd)
           b == <<"code", code.set, code.n>>
           r == [r0 EXCEPT !.from = c, !.by = b, !.root = "code"]
           Q == Spent(c)
<1>1. c \in DOMAIN challenges /\ Usable(c) /\ lock = None BY ComparesFacts DEF Recovers
<1>2. /\ factors' = FactorsRevoked /\ challenges' = Append(Q, r) /\ Ends(t)
      /\ codes' = codes \ {code} /\ sessions' = AllRevoked
      /\ security' = [NextEpoch EXCEPT !.enrol = FALSE]
      /\ UNCHANGED <<admin, identity, credential, accounts, lock>>
      BY DEF Recovers
<1> HIDE DEF c
<1>3. /\ c \in 1..Len(challenges) /\ c \in Nat /\ row.account \in Accounts
      /\ row.pwd \in Nat /\ row.pwd = credential.pwd
      BY <1>1, UsableFacts
<1> HIDE DEF row
<1>4. /\ security'.epoch = e /\ e \in Nat /\ security' \in [epoch : Nat, enrol : BOOLEAN]
      /\ security.epoch <= security'.epoch
      BY <1>2, NextEpochFacts
<1>5. Len(sessions) \in Nat /\ Len(challenges) \in Nat /\ NewChallenge \in Nat
      BY TableParts DEF Inv, NewChallenge
<1> HIDE DEF e
<1>6. /\ r0 \in ChallengeRows
      /\ r0.cver = credential.version /\ r0.sver = identity.version
      /\ r0.epoch = e /\ r0.pwd = row.pwd /\ r0.session = 0
      <2>1. "enroll_start" \in Purposes BY DEF Purposes
      <2>2. QED BY <1>3, <1>4, <1>5, <2>1, NewChallengeRow
<1>7. b \in Secrets
      <2>1. code.set \in Nat /\ code.n \in Nat BY DEF Inv, Tables
      <2>2. QED BY <2>1 DEF Secrets
<1> HIDE DEF r0, b
<1>8. /\ r \in ChallengeRows
      /\ r.cver = credential.version /\ r.sver = identity.version
      /\ r.epoch = e /\ r.pwd = row.pwd /\ r.session = 0
      BY <1>3, <1>6, <1>7 DEF ChallengeRows
<1>9. ChallengesAged(Q) /\ Len(Q) = Len(challenges) BY <1>3, SpentTable DEF Inv
<1> HIDE DEF r, Q
<1>10. /\ ChallengesAged(challenges') /\ Len(challenges') = Len(challenges) + 1
       /\ challenges'[Len(challenges) + 1] = r
       BY <1>2, <1>8, <1>9, ChallengeGiven
<1>11. /\ SessionsAged(sessions') /\ Len(sessions') = Len(sessions)
       /\ \A s \in 1..Len(sessions) : sessions'[s].revoked
       BY <1>2, AllEnded
<1>12. OneMoreSession /\ OneMoreChallenge
       BY <1>2, <1>3, <1>4, <1>5, <1>8, <1>10, <1>11 DEF OneMoreSession, OneMoreChallenge
<1>13. factors' \in Seq(FactorRows) /\ codes' \subseteq [factor : Nat, set : Nat, n : Nat]
       BY <1>2, FactorsRevokedTable DEF Inv, Tables
<1>14. QED BY <1>1, <1>2, <1>4, <1>10, <1>11, <1>12, <1>13, ExchangeStep

LEMMA StepUpReadsStep ==
  ASSUME Inv, NEW t \in Threads, NEW s \in DOMAIN sessions, NEW action \in StepUpActions,
         StepUpReads(t, s, action)
  PROVE  Inv' /\ Kept
<1> DEFINE q == [Nothing EXCEPT !.session = s, !.version = credential.version,
                                !.pwd = credential.pwd, !.op = action]
<1>1. s \in Nat BY TableParts DEF Inv
<1>2. /\ q \in Hands /\ q.version = credential.version /\ q.pwd = credential.pwd
      /\ q.session = s /\ q.op = action
      BY <1>1, NothingHeld, Versions DEF Inv, Hands
<1> HIDE DEF q
<1>3. UNCHANGED <<admin, rows, sessions, challenges, lock>> BY DEF StepUpReads
<1>4. pc'[t] = "stepping" /\ hand'[t] = q => Knows(t)'
      BY <1>2, <1>3, Versions DEF rows, Knows, Inv
<1>5. Goes(t, "stepping", q) BY DEF StepUpReads, q
<1>6. ChallengesAged(challenges') BY <1>3, TablesStay DEF Inv
<1>7. QED BY <1>2, <1>3, <1>4, <1>5, <1>6, QuietStep DEF Places, Inv, Requests

LEMMA LoadsFacts ==
  ASSUME Inv, NEW s \in DOMAIN sessions, Loads(s)
  PROVE  /\ s \in 1..Len(sessions) /\ s \in Nat
         /\ sessions[s].account \in Accounts /\ sessions[s].epoch \in Nat
         /\ sessions[s].epoch = security.epoch
<1>1. sessions[s] \in SessionRows /\ s \in 1..Len(sessions) /\ s \in Nat BY TableParts DEF Inv
<1>2. sessions[s].epoch = security.epoch BY DEF Loads, IsBound
<1>3. QED BY <1>1, <1>2 DEF SessionRows

LEMMA StepUpMintsStep ==
  ASSUME Inv, NEW t \in Threads, StepUpMints(t)
  PROVE  Inv' /\ Kept
<1> DEFINE s == hand[t].session
           a == sessions[s].account
           e == sessions[s].epoch
           w == hand[t].pwd
<1>1. /\ s \in DOMAIN sessions /\ Loads(s) /\ lock = None
      /\ hand[t].op \in StepUpActions
      /\ w = credential.pwd /\ w \in Nat
      BY ThreadFacts DEF StepUpMints, Knows
<1>2. s \in 1..Len(sessions) /\ s \in Nat /\ a \in Accounts /\ e \in Nat /\ e = security.epoch
      BY <1>1, LoadsFacts
<1>3. PICK i \in DOMAIN factors :
        challenges' = Append(challenges,
          [Challenge("step_up", a, e, factors[i].id, w) EXCEPT !.session = s, !.target = hand[t].op])
      BY DEF StepUpMints
<1> DEFINE r0 == Challenge("step_up", a, e, factors[i].id, w)
           r == [r0 EXCEPT !.session = s, !.target = hand[t].op]
<1>4. factors[i].id \in Nat BY TableParts DEF Inv, FactorRows
<1>5. UNCHANGED <<admin, rows, sessions, lock>> /\ Ends(t) BY DEF StepUpMints
<1> HIDE DEF s, a, e, w
<1>6. /\ r0 \in ChallengeRows
      /\ r0.cver = credential.version /\ r0.sver = identity.version /\ r0.epoch = e /\ r0.pwd = w
      <2>1. "step_up" \in Purposes BY DEF Purposes
      <2>2. QED BY <1>1, <1>2, <1>4, <2>1, NewChallengeRow
<1> HIDE DEF r0
<1>7. /\ r \in ChallengeRows
      /\ r.cver = credential.version /\ r.sver = identity.version
      /\ r.epoch = e /\ r.pwd = w /\ r.session = s
      BY <1>1, <1>2, <1>6 DEF ChallengeRows
<1>8. challenges' = Append(challenges, r) BY <1>3 DEF r0
<1> HIDE DEF r
<1>9. /\ ChallengesAged(challenges') /\ Len(challenges') = Len(challenges) + 1
      /\ challenges'[Len(challenges) + 1] = r
      BY <1>7, <1>8, TablesStay, ChallengeGiven DEF Inv
<1>10. Len(sessions) \in Nat /\ Len(challenges) \in Nat BY TableParts DEF Inv
<1>11. UNCHANGED <<identity, credential, security, accounts, factors, codes, sessions>>
       BY <1>5 DEF rows
<1>12. OneMoreSession /\ OneMoreChallenge
       BY <1>1, <1>2, <1>7, <1>9, <1>10, <1>11 DEF OneMoreSession, OneMoreChallenge
<1>13. SessionsAged(sessions') /\ Len(sessions') = Len(sessions) BY <1>11, TablesStay DEF Inv
<1>14. /\ security' \in [epoch : Nat, enrol : BOOLEAN] /\ security.epoch <= security'.epoch
       /\ factors' \in Seq(FactorRows) /\ codes' \subseteq [factor : Nat, set : Nat, n : Nat]
       BY <1>11, Versions DEF Inv, Person, Tables
<1>15. QED BY <1>1, <1>5, <1>9, <1>11, <1>12, <1>13, <1>14, ExchangeStep

LEMMA RotateStep ==
  ASSUME Inv, NEW s, NEW p \in DOMAIN challenges, RotateRecovery(s, p)
  PROVE  Inv' /\ Kept
<1>1. /\ challenges' = Consumed(challenges, {p}) /\ codes' = CodeSet(challenges[p].factor, p)
      /\ UNCHANGED <<admin, identity, credential, security, accounts, sessions, factors, local>>
      BY DEF RotateRecovery
<1>2. challenges[p].factor \in Nat /\ p \in Nat BY TableParts DEF Inv, ChallengeRows
<1>3. codes' \subseteq [factor : Nat, set : Nat, n : Nat] BY <1>1, <1>2 DEF CodeSet
<1>4. ChallengesAged(challenges') /\ Len(challenges') = Len(challenges) BY <1>1, ConsumedTable DEF Inv
<1>5. SessionsAged(sessions') /\ Len(sessions') = Len(sessions) BY <1>1, TablesStay DEF Inv
<1>6. Person' /\ Rise /\ Fenced BY <1>1, Unrisen, FencedAsBefore DEF Inv, Person
<1>7. factors' \in Seq(FactorRows) BY <1>1 DEF Inv, Tables
<1>8. QED BY <1>1, <1>3, <1>4, <1>5, <1>6, <1>7, CommandStep

LEMMA ReplaceStep ==
  ASSUME Inv, NEW s, NEW p \in DOMAIN challenges, ReplaceFactor(s, p)
  PROVE  Inv' /\ Kept
<1> DEFINE row == challenges[p]
           e == security.epoch + 1
           r0 == Challenge("enroll_start", row.account, e, NewChallenge, row.pwd)
           r == [r0 EXCEPT !.from = p, !.root = "proof"]
           Q == Consumed(challenges, {p})
<1>1. Usable(p) /\ lock = None BY DEF ReplaceFactor, ProofOf
<1>2. /\ factors' = FactorsRevoked /\ challenges' = Append(Q, r)
      /\ codes' = {} /\ sessions' = AllRevoked
      /\ security' = [NextEpoch EXCEPT !.enrol = FALSE]
      /\ UNCHANGED <<admin, identity, credential, accounts, local>>
      BY DEF ReplaceFactor
<1>3. p \in Nat /\ row.account \in Accounts /\ row.pwd \in Nat /\ row.pwd = credential.pwd
      BY <1>1, UsableFacts
<1> HIDE DEF row
<1>4. /\ security'.epoch = e /\ e \in Nat /\ security' \in [epoch : Nat, enrol : BOOLEAN]
      /\ security.epoch <= security'.epoch
      BY <1>2, NextEpochFacts
<1>5. Len(sessions) \in Nat /\ Len(challenges) \in Nat /\ NewChallenge \in Nat
      BY TableParts DEF Inv, NewChallenge
<1> HIDE DEF e
<1>6. /\ r0 \in ChallengeRows
      /\ r0.cver = credential.version /\ r0.sver = identity.version
      /\ r0.epoch = e /\ r0.pwd = row.pwd /\ r0.session = 0
      <2>1. "enroll_start" \in Purposes BY DEF Purposes
      <2>2. QED BY <1>3, <1>4, <1>5, <2>1, NewChallengeRow
<1> HIDE DEF r0
<1>7. /\ r \in ChallengeRows
      /\ r.cver = credential.version /\ r.sver = identity.version
      /\ r.epoch = e /\ r.pwd = row.pwd /\ r.session = 0
      BY <1>3, <1>6 DEF ChallengeRows
<1>8. ChallengesAged(Q) /\ Len(Q) = Len(challenges) BY ConsumedTable DEF Inv
<1> HIDE DEF r, Q
<1>9. /\ ChallengesAged(challenges') /\ Len(challenges') = Len(challenges) + 1
      /\ challenges'[Len(challenges) + 1] = r
      BY <1>2, <1>7, <1>8, ChallengeGiven
<1>10. /\ SessionsAged(sessions') /\ Len(sessions') = Len(sessions)
       /\ \A k \in 1..Len(sessions) : sessions'[k].revoked
       BY <1>2, AllEnded
<1>11. OneMoreSession /\ OneMoreChallenge
       BY <1>2, <1>3, <1>4, <1>5, <1>7, <1>9, <1>10 DEF OneMoreSession, OneMoreChallenge
<1>12. factors' \in Seq(FactorRows) /\ codes' \subseteq [factor : Nat, set : Nat, n : Nat]
       BY <1>2, FactorsRevokedTable DEF Inv
<1>13. Person' BY <1>2, <1>4 DEF Inv, Person
<1>14. Rise BY <1>2, <1>4, Versions DEF Inv, Rise
<1>15. Fenced BY <1>2, <1>10, FencedAsBefore
<1>16. Age /\ Tables' => Requests' BY <1>2, <1>13, <1>14, OthersStep
<1>17. QED BY <1>9, <1>10, <1>11, <1>12, <1>13, <1>14, <1>15, <1>16, Concludes
-----------------------------------------------------------------------------
(* The operator, and time.                                                 *)

LEMMA PasswordStep ==
  ASSUME Inv, credential' \in Credentials, credential'.version = credential.version + 1,
         lock = None, sessions' = AllRevoked, security' = NextEpoch,
         UNCHANGED <<admin, identity, accounts, factors, codes, challenges, local>>
  PROVE  Inv' /\ Kept
<1>1. Person' /\ Rise /\ Fenced BY NewPassword
<1>2. SessionsAged(sessions') /\ Len(sessions') = Len(sessions) BY AllEnded
<1>3. ChallengesAged(challenges') BY TablesStay DEF Inv
<1>4. factors' \in Seq(FactorRows) /\ codes' \subseteq [factor : Nat, set : Nat, n : Nat]
      BY DEF Inv, Tables
<1>5. QED BY <1>1, <1>2, <1>3, <1>4, CommandStep

LEMMA CredentialStep ==
  ASSUME Inv, SetPassword \/ RevokePassword
  PROVE  Inv' /\ Kept
<1>1. credential \in Credentials /\ credential.version + 1 \in Nat /\ credential.pwd + 1 \in Nat
      BY Versions DEF Inv, Person
<1>2. credential' \in Credentials /\ credential'.version = credential.version + 1
      <2> DEFINE v == credential.version + 1
                 w == credential.pwd + 1
      <2>1. v \in Nat /\ w \in Nat BY <1>1
      <2>2. \/ credential' = [status |-> "active", version |-> v, pwd |-> w]
            \/ credential' = [credential EXCEPT !.status = "revoked", !.version = v]
            BY DEF SetPassword, RevokePassword
      <2> HIDE DEF v, w
      <2>3. credential' \in Credentials /\ credential'.version = v
            <3>1. CASE credential' = [status |-> "active", version |-> v, pwd |-> w]
                  BY <2>1, <3>1 DEF Credentials
            <3>2. CASE credential' = [credential EXCEPT !.status = "revoked", !.version = v]
                  BY <1>1, <2>1, <3>2 DEF Credentials
            <3>3. QED BY <2>2, <3>1, <3>2
      <2>4. QED BY <2>3 DEF v
<1>3. /\ lock = None /\ sessions' = AllRevoked /\ security' = NextEpoch
      /\ UNCHANGED <<admin, identity, accounts, factors, codes, challenges, local>>
      BY DEF SetPassword, RevokePassword
<1>4. QED BY <1>2, <1>3, PasswordStep

LEMMA StatusStep ==
  ASSUME Inv, NEW status \in {"active", "suspended"}, SetStatus(status)
  PROVE  Inv' /\ Kept
<1>1. /\ identity' = [status |-> status, version |-> identity.version + 1] /\ lock = None
      /\ UNCHANGED <<admin, credential, security, accounts, factors, codes, sessions, challenges, local>>
      BY DEF SetStatus
<1>2. identity.version \in Nat BY Versions DEF Inv
<1>3. identity' \in Identities /\ identity'.version = identity.version + 1 BY <1>1, <1>2 DEF Identities
<1>4. Person' BY <1>1, <1>3 DEF Inv, Person
<1>5. Rise BY <1>1, <1>2, <1>3, Versions DEF Inv, Rise
<1>6. Fenced BY <1>1, FencedAsBefore
<1>7. SessionsAged(sessions') /\ Len(sessions') = Len(sessions) BY <1>1, TablesStay DEF Inv
<1>8. ChallengesAged(challenges') /\ Len(challenges') = Len(challenges) BY <1>1, TablesStay DEF Inv
<1>9. factors' \in Seq(FactorRows) /\ codes' \subseteq [factor : Nat, set : Nat, n : Nat]
      BY <1>1 DEF Inv, Tables
<1>10. QED BY <1>1, <1>4, <1>5, <1>6, <1>7, <1>8, <1>9, CommandStep

LEMMA Invalidated ==
  ASSUME Inv, NEW a, Invalidates(a)
  PROVE  /\ SessionsAged(sessions') /\ Len(sessions') = Len(sessions)
         /\ ChallengesAged(challenges') /\ Len(challenges') = Len(challenges)
         /\ \A s \in 1..Len(sessions) : sessions[s].account = a => sessions'[s].revoked
         /\ \A c \in 1..Len(challenges) : challenges[c].account = a => challenges'[c].consumed
BY RevokedTable, ConsumedTable, TableParts DEF Inv, Invalidates

\* An account is given back with the end of what depended on it, or not at all.
LEMMA AccountStep ==
  ASSUME Inv, NEW a, a \in Accounts, NEW r, r \in AccountRows, accounts' = [accounts EXCEPT ![a] = r],
         UNCHANGED <<admin, identity, credential, security, factors, codes, local>>,
         SessionsAged(sessions'), Len(sessions') = Len(sessions),
         ChallengesAged(challenges'), Len(challenges') = Len(challenges),
         \/ r.status = "active" /\ r.live /\ r.member => Admits(a)
         \/ /\ \A s \in 1..Len(sessions) : sessions[s].account = a => sessions'[s].revoked
            /\ \A c \in 1..Len(challenges) : challenges[c].account = a => challenges'[c].consumed
  PROVE  Inv' /\ Kept
<1>1. accounts \in [Accounts -> AccountRows] BY DEF Inv, Person
<1>2. /\ accounts' \in [Accounts -> AccountRows] /\ accounts'[a] = r
      /\ \A x \in Accounts : x # a => accounts'[x] = accounts[x]
      BY <1>1
<1>3. Person' BY <1>2 DEF Inv, Person
<1>4. Rise BY Unrisen DEF Inv
<1>5. \A x \in Accounts : x # a => (AdmitsNow(x) => Admits(x)) BY <1>2 DEF AdmitsNow, Admits, IsActive
<1>6. AdmitsNow(a) => r.status = "active" /\ r.live /\ r.member BY <1>2 DEF AdmitsNow
<1>7. \A f : ActiveNow(f) => ActiveFactor(f) BY DEF ActiveNow, ActiveFactor
<1>8. Fenced BY <1>5, <1>6, <1>7 DEF Fenced
<1>9. factors' \in Seq(FactorRows) /\ codes' \subseteq [factor : Nat, set : Nat, n : Nat]
      BY DEF Inv, Tables
<1>10. QED BY <1>3, <1>4, <1>8, <1>9, CommandStep

LEMMA AccountChangeStep ==
  ASSUME Inv, NEW a \in Accounts, NEW status \in {"active", "suspended", "closed"}, NEW live \in BOOLEAN,
         AccountChange(a, status, live)
  PROVE  Inv' /\ Kept
<1> DEFINE before == accounts[a]
           after == [before EXCEPT !.status = status, !.live = live]
<1>1. /\ accounts' = [accounts EXCEPT ![a] = after]
      /\ IF ~IsActive(before) \/ ~IsActive(after)
         THEN Invalidates(a) ELSE UNCHANGED <<sessions, challenges>>
      /\ UNCHANGED <<admin, identity, credential, security, factors, codes, local>>
      BY DEF AccountChange
<1>2. before \in AccountRows BY DEF Inv, Person
<1> HIDE DEF before
<1>3. after \in AccountRows /\ after.member = before.member BY <1>2 DEF AccountRows
<1> HIDE DEF after
<1>4. CASE Invalidates(a) BY <1>1, <1>3, <1>4, Invalidated, AccountStep
<1>5. CASE IsActive(before) /\ UNCHANGED <<sessions, challenges>>
      <2>1. SessionsAged(sessions') /\ Len(sessions') = Len(sessions) BY <1>5, TablesStay DEF Inv
      <2>2. ChallengesAged(challenges') /\ Len(challenges') = Len(challenges) BY <1>5, TablesStay DEF Inv
      <2>3. after.member => Admits(a) BY <1>3, <1>5 DEF Admits, before
      <2>4. QED BY <1>1, <1>3, <2>1, <2>2, <2>3, AccountStep
<1>6. QED BY <1>1, <1>4, <1>5

LEMMA MembershipStep ==
  ASSUME Inv, NEW a \in Accounts, MembershipChange(a)
  PROVE  Inv' /\ Kept
<1> DEFINE r == [accounts[a] EXCEPT !.member = ~accounts[a].member]
<1>1. /\ accounts' = [accounts EXCEPT ![a] = r] /\ Invalidates(a)
      /\ UNCHANGED <<admin, identity, credential, security, factors, codes, local>>
      BY DEF MembershipChange
<1>2. accounts[a] \in AccountRows BY DEF Inv, Person
<1>3. r \in AccountRows BY <1>2 DEF AccountRows
<1> HIDE DEF r
<1>4. QED BY <1>1, <1>3, Invalidated, AccountStep

LEMMA PlanStep ==
  ASSUME Inv, NEW a \in Accounts, PlanExpires(a)
  PROVE  Inv' /\ Kept
<1> DEFINE r == [accounts[a] EXCEPT !.live = FALSE]
<1>1. /\ accounts' = [accounts EXCEPT ![a] = r]
      /\ UNCHANGED <<admin, identity, credential, security, factors, codes, sessions, challenges, local>>
      BY DEF PlanExpires
<1>2. accounts[a] \in AccountRows BY DEF Inv, Person
<1>3. r \in AccountRows /\ ~r.live BY <1>2 DEF AccountRows
<1> HIDE DEF r
<1>4. SessionsAged(sessions') /\ Len(sessions') = Len(sessions) BY <1>1, TablesStay DEF Inv
<1>5. ChallengesAged(challenges') /\ Len(challenges') = Len(challenges) BY <1>1, TablesStay DEF Inv
<1>6. QED BY <1>1, <1>3, <1>4, <1>5, AccountStep

LEMMA SessionReplaced ==
  ASSUME Tables, NEW s \in 1..Len(sessions), NEW r \in SessionRows, SessionAged(r, sessions[s])
  PROVE  /\ SessionsAged([sessions EXCEPT ![s] = r])
         /\ Len([sessions EXCEPT ![s] = r]) = Len(sessions)
<1> DEFINE n == Len(sessions)
           P == [sessions EXCEPT ![s] = r]
<1>1. /\ n \in Nat /\ sessions \in Seq(SessionRows) /\ DOMAIN sessions = 1..n
      /\ \A k \in 1..n : sessions[k] \in SessionRows
      BY TableParts DEF Tables
<1>2. sessions \in [1..n -> SessionRows] BY <1>1, LenProperties
<1>3. P \in [1..n -> SessionRows] /\ P[s] = r /\ \A k \in 1..n : k # s => P[k] = sessions[k] BY <1>2
<1>4. P \in Seq(SessionRows) /\ Len(P) = n BY <1>1, <1>3, FunctionIsSeq
<1>5. \A k \in 1..n : SessionAged(P[k], sessions[k]) BY <1>3, SameSession
<1> HIDE DEF P
<1>6. QED BY <1>1, <1>4, <1>5 DEF P, SessionsAged

LEMMA SessionExpiresStep ==
  ASSUME Inv, NEW s \in DOMAIN sessions, SessionExpires(s)
  PROVE  Inv' /\ Kept
<1> DEFINE r == [sessions[s] EXCEPT !.expired = TRUE]
<1>1. /\ sessions' = [sessions EXCEPT ![s] = r]
      /\ UNCHANGED <<admin, identity, credential, security, accounts, factors, codes, challenges, local>>
      BY DEF SessionExpires, rows
<1>2. s \in 1..Len(sessions) /\ sessions[s] \in SessionRows BY TableParts DEF Inv
<1>3. r \in SessionRows /\ SessionAged(r, sessions[s]) BY <1>2 DEF SessionRows, SessionAged
<1> HIDE DEF r
<1>4. SessionsAged(sessions') /\ Len(sessions') = Len(sessions) BY <1>1, <1>2, <1>3, SessionReplaced DEF Inv
<1>5. ChallengesAged(challenges') BY <1>1, TablesStay DEF Inv
<1>6. QED BY <1>1, <1>4, <1>5, EndingStep

LEMMA ChallengeExpiresStep ==
  ASSUME Inv, NEW c \in DOMAIN challenges, ChallengeExpires(c)
  PROVE  Inv' /\ Kept
<1> DEFINE r == [challenges[c] EXCEPT !.expired = TRUE]
<1>1. /\ challenges' = [challenges EXCEPT ![c] = r]
      /\ UNCHANGED <<admin, identity, credential, security, accounts, factors, codes, sessions, local>>
      BY DEF ChallengeExpires, rows
<1>2. c \in 1..Len(challenges) /\ challenges[c] \in ChallengeRows BY TableParts DEF Inv
<1>3. r \in ChallengeRows /\ ChallengeAged(r, challenges[c]) BY <1>2 DEF ChallengeRows, ChallengeAged
<1> HIDE DEF r
<1>4. ChallengesAged(challenges) BY TablesStay DEF Inv
<1>5. ChallengesAged(challenges') /\ Len(challenges') = Len(challenges)
      BY <1>1, <1>2, <1>3, <1>4, ChallengeReplaced DEF Inv
<1>6. SessionsAged(sessions') BY <1>1, TablesStay DEF Inv
<1>7. QED BY <1>1, <1>5, <1>6, EndingStep

LEMMA EndsSessionsStep ==
  ASSUME Inv, NEW s \in DOMAIN sessions,
         Logout(s) \/ RevokeAll(s) \/ \E target \in DOMAIN sessions : Revoke(s, target)
  PROVE  Inv' /\ Kept
<1>1. CASE Logout(s) BY <1>1, RevokesStep DEF Logout, rows
<1>2. CASE RevokeAll(s) BY <1>2, RevokesStep DEF RevokeAll, AllRevoked
<1>3. CASE \E target \in DOMAIN sessions : Revoke(s, target) BY <1>3, RevokesStep DEF Revoke, rows
<1>4. QED BY <1>1, <1>2, <1>3
-----------------------------------------------------------------------------
(* Every step.                                                             *)

LEMMA ThreadKeepsInv ==
  ASSUME Inv, NEW t \in Threads, ThreadStep(t)
  PROVE  Inv' /\ Kept
<1>1. CASE LoginReads(t) BY <1>1, ReadsStep
<1>2. CASE \E a \in Accounts : LoginLocks(t, a) BY <1>2, LocksStep
<1>3. CASE \E old \in {0} \cup DOMAIN sessions, rehash \in BOOLEAN : LoginCommits(t, old, rehash)
      BY <1>3, CommitsStep
<1>4. CASE \E s \in DOMAIN sessions : ChangeReads(t, s) BY <1>4, ChangeReadsStep
<1>5. CASE \E p \in {0} \cup DOMAIN challenges : ChangeCommits(t, p) BY <1>5, ChangeStep
<1>6. CASE \E c \in DOMAIN challenges, op \in DOMAIN CodePurposes : AttemptChecks(t, c, op)
      BY <1>6, AttemptChecksStep
<1>7. CASE AttemptCounts(t) BY <1>7, AttemptCountsStep
<1>8. CASE CodeIsWrong(t) BY <1>8, WrongStep
<1>9. CASE \E step \in TimeSteps : CompletesEnrollment(t, step) BY <1>9, CompletesEnrollmentStep
<1>10. CASE \E step \in TimeSteps : CompletesLogin(t, step) BY <1>10, CompletesLoginStep
<1>11. CASE \E step \in TimeSteps : CompletesStepUp(t, step) BY <1>11, CompletesStepUpStep
<1>12. CASE \E code \in codes : Recovers(t, code) BY <1>12, RecoversStep
<1>13. CASE \E s \in DOMAIN sessions, action \in StepUpActions : StepUpReads(t, s, action)
       BY <1>13, StepUpReadsStep
<1>14. CASE StepUpMints(t) BY <1>14, StepUpMintsStep
<1>15. CASE Abandon(t) BY <1>15, AbandonStep
<1>16. QED BY <1>1, <1>2, <1>3, <1>4, <1>5, <1>6, <1>7, <1>8, <1>9, <1>10, <1>11, <1>12, <1>13,
               <1>14, <1>15 DEF ThreadStep

LEMMA SessionCommandKeepsInv ==
  ASSUME Inv, NEW s \in DOMAIN sessions, SessionCommand(s)
  PROVE  Inv' /\ Kept
<1>1. CASE Logout(s) \/ RevokeAll(s) \/ \E target \in DOMAIN sessions : Revoke(s, target)
      BY <1>1, EndsSessionsStep
<1>2. CASE \E p \in DOMAIN challenges : RotateRecovery(s, p) BY <1>2, RotateStep
<1>3. CASE \E p \in DOMAIN challenges : ReplaceFactor(s, p) BY <1>3, ReplaceStep
<1>4. CASE SessionExpires(s) BY <1>4, SessionExpiresStep
<1>5. QED BY <1>1, <1>2, <1>3, <1>4 DEF SessionCommand

LEMMA NothingMovesStep ==
  ASSUME Inv, UNCHANGED vars
  PROVE  Inv' /\ Kept
<1>1. /\ UNCHANGED <<admin, identity, credential, security, accounts, factors, codes>>
      /\ UNCHANGED <<sessions, challenges>> /\ UNCHANGED local
      BY DEF vars, local
<1>2. SessionsAged(sessions') /\ ChallengesAged(challenges') BY <1>1, TablesStay DEF Inv
<1>3. QED BY <1>1, <1>2, EndingStep

LEMMA InvStep ==
  ASSUME Inv, [Next]_vars
  PROVE  Inv' /\ Kept
<1>1. CASE \E t \in Threads : ThreadStep(t) BY <1>1, ThreadKeepsInv
<1>2. CASE \E s \in DOMAIN sessions : SessionCommand(s) BY <1>2, SessionCommandKeepsInv
<1>3. CASE \E c \in DOMAIN challenges : BeginEnrollment(c) \/ ChallengeExpires(c)
      BY <1>3, EnrollmentStep, ChallengeExpiresStep
<1>4. CASE \E a \in Accounts : AccountCommand(a)
      <2>1. PICK a \in Accounts : AccountCommand(a) BY <1>4
      <2>2. QED BY <2>1, AccountChangeStep, MembershipStep, PlanStep DEF AccountCommand
<1>5. CASE SetPassword \/ RevokePassword BY <1>5, CredentialStep
<1>6. CASE \E status \in {"active", "suspended"} : SetStatus(status) BY <1>6, StatusStep
<1>7. CASE UNCHANGED vars BY <1>7, NothingMovesStep
<1>8. QED BY <1>1, <1>2, <1>3, <1>4, <1>5, <1>6, <1>7 DEF Next

LEMMA Invariant == Spec => []Inv
<1>1. Inv /\ [Next]_vars => Inv' BY InvStep
<1>2. QED BY InitInv, <1>1, PTL DEF Spec

\* A session or a challenge that has been refused once is never accepted again
\* (SessionService.load, _challenge): not when a password or a status is set,
\* not when a suspended account comes back after a login that had read it before.
THEOREM NothingRevived == Spec => NothingIsRevived
<1> DEFINE A == /\ \A s \in DOMAIN sessions : ~Loads(s) => ~Loads(s)'
                /\ \A c \in DOMAIN challenges : ~Usable(c) => ~Usable(c)'
<1>1. Inv /\ [Next]_vars => A
      <2> SUFFICES ASSUME Inv, [Next]_vars PROVE A OBVIOUS
      <2>1. NotRevived BY InvStep DEF Kept
      <2>2. \A a : Admits(a)' = AdmitsNow(a) BY DEF Admits, AdmitsNow, IsActive
      <2>3. \A f : ActiveFactor(f)' = ActiveNow(f) BY DEF ActiveFactor, ActiveNow
      <2>4. \A s : Loads(s)' = LoadsNow(s)
            BY <2>2, <2>3 DEF Loads, LoadsNow, IsBound, BoundNow
      <2>5. \A c : Usable(c)' = UsableNow(c)
            BY <2>2, <2>4 DEF Usable, UsableNow, IsBound, BoundNow
      <2>6. QED BY <2>1, <2>4, <2>5 DEF NotRevived
<1>2. QED BY <1>1, Invariant, PTL DEF Spec, NothingIsRevived

LEMMA InvMeansProved == Inv => PasswordWasProved
<1> SUFFICES ASSUME Inv PROVE PasswordWasProved OBVIOUS
<1>1. \A s \in 1..Len(sessions) : Loads(s) => sessions[s].pwd = credential.pwd
      BY DEF Inv, Bound, Carries, Loads, IsBound
<1>2. \A c \in 1..Len(challenges) : Usable(c) => challenges[c].pwd = credential.pwd
      BY DEF Inv, Bound, Carries, Usable, IsBound
<1>3. QED BY <1>1, <1>2, TableParts DEF Inv, PasswordWasProved

\* Whatever is accepted was obtained with the present password, although login()
\* and change_password() verify it before their transaction begins.
THEOREM PasswordProved == Spec => []PasswordWasProved
BY Invariant, InvMeansProved, PTL
=============================================================================
