---------------------- MODULE BrowserSessionsMfaProofs ----------------------
(***************************************************************************)
(* What BrowserSessions promises of the second factor, for every number of *)
(* requests, codes, attempts and commands: a challenge is exchanged once,  *)
(* a time step and a recovery code are accepted once, a code is compared   *)
(* no more often than attempts are allowed, a session keeps the bindings   *)
(* of its challenge, and a person who has had a factor is never let in by  *)
(* the password alone.  Every step is first brought into one of a few      *)
(* forms, named for what it does to the tables; the invariants are then    *)
(* kept form by form.                                                      *)
(***************************************************************************)
EXTENDS BrowserSessionsProofs, FiniteSetTheorems

-----------------------------------------------------------------------------
(* The forms of a step.                                                    *)

NoRow == Len(sessions') = Len(sessions) /\ Len(challenges') = Len(challenges)

NewSessionIs(r) ==
  /\ Len(sessions') = Len(sessions) + 1
  /\ sessions'[Len(sessions) + 1] = r
  /\ Len(challenges') = Len(challenges)

NewChallengeIs(r) ==
  /\ Len(challenges') = Len(challenges) + 1
  /\ challenges'[Len(challenges) + 1] = r
  /\ r.attempts = 0 /\ r.tried = 0
  /\ Len(sessions') = Len(sessions)

\* The step uses the challenge c up.
Spends(c) ==
  /\ c \in 1..Len(challenges)
  /\ Usable(c)
  /\ challenges'[c].consumed

Still == NoRow /\ UNCHANGED <<factors, codes>>

Rotated(p) ==
  /\ NoRow /\ UNCHANGED factors
  /\ Spends(p)
  /\ codes' = CodeSet(challenges[p].factor, p)

\* A session for the password alone, of a person who never had a factor.
Opened(r) ==
  /\ NewSessionIs(r) /\ UNCHANGED <<factors, codes>>
  /\ factors = <<>>
  /\ r.from = 0 /\ r.by = <<>> /\ r.epoch = security'.epoch

\* A challenge that is exchanged for nothing.
Asked(r) ==
  /\ NewChallengeIs(r) /\ UNCHANGED <<factors, codes>>
  /\ r.from = 0 /\ r.by = <<>>
  /\ \/ /\ r.purpose \in {"login", "recovery", "step_up"}
        /\ (r.purpose = "step_up") = (r.session # 0)
        /\ \E i \in 1..Len(factors) : r.factor = factors[i].id
     \/ /\ r.purpose = "enroll_start" /\ r.session = 0
        /\ r.factor = Len(challenges) + 1
        /\ factors = <<>>

Begun(c, r) ==
  /\ NewChallengeIs(r) /\ UNCHANGED <<factors, codes>>
  /\ Spends(c) /\ challenges[c].purpose = "enroll_start"
  /\ r.from = c /\ r.by = <<>> /\ r.purpose = "enroll" /\ r.session = 0
  /\ r.factor = challenges[c].factor /\ r.root = challenges[c].root
  /\ r.epoch = challenges[c].epoch

\* What a session with a second factor takes over from its challenge.
Inherits(r, c) ==
  /\ r.from = c
  /\ r.account = challenges[c].account
  /\ r.cver = challenges[c].cver /\ r.sver = challenges[c].sver
  /\ r.mfa = challenges[c].factor

Enrolled(c, n, r) ==
  /\ NewSessionIs(r) /\ Spends(c) /\ challenges[c].purpose = "enroll"
  /\ factors' = Append(factors, [id |-> challenges[c].factor, step |-> n, revoked |-> FALSE])
  /\ codes' = CodeSet(challenges[c].factor, c)
  /\ Inherits(r, c) /\ r.by = <<"totp", challenges[c].factor, n>>
  /\ r.epoch = challenges[c].epoch + 1 /\ r.epoch = security'.epoch
  /\ \A s \in 1..Len(sessions) : sessions'[s].revoked

\* The time step n is newer than the last one of the factor of c.
Newer(c, n) == \E i \in 1..Len(factors) : factors[i].id = challenges[c].factor /\ n > factors[i].step

LoggedIn(c, n, r) ==
  /\ NewSessionIs(r) /\ Spends(c) /\ challenges[c].purpose = "login"
  /\ Newer(c, n) /\ factors' = StepSpent(challenges[c].factor, n) /\ UNCHANGED codes
  /\ Inherits(r, c) /\ r.by = <<"totp", challenges[c].factor, n>>
  /\ r.epoch = challenges[c].epoch /\ r.epoch = security'.epoch

SteppedUp(c, n, r) ==
  /\ NewChallengeIs(r) /\ Spends(c) /\ challenges[c].purpose = "step_up"
  /\ Newer(c, n) /\ factors' = StepSpent(challenges[c].factor, n) /\ UNCHANGED codes
  /\ r.from = c /\ r.by = <<"totp", challenges[c].factor, n>>
  /\ r.purpose = "proof" /\ r.session = challenges[c].session /\ r.factor = challenges[c].factor

\* An enrolment that a recovery code, or a proof, allows.
Readmitted(c, r) ==
  /\ NewChallengeIs(r) /\ Spends(c) /\ factors' = FactorsRevoked
  /\ r.from = c /\ r.purpose = "enroll_start" /\ r.session = 0
  /\ r.factor = Len(challenges) + 1 /\ r.root \in {"code", "proof"}

Recovered(c, code, r) ==
  /\ Readmitted(c, r)
  /\ code \in codes /\ codes' = codes \ {code}
  /\ r.by = <<"code", code.set, code.n>>

Replaced(c, r) ==
  /\ Readmitted(c, r)
  /\ codes' = {}
  /\ r.by = <<>>

Form ==
  \/ Still
  \/ \E p \in 1..Len(challenges) : Rotated(p)
  \/ \E r : Opened(r)
  \/ \E r : Asked(r)
  \/ \E c \in 1..Len(challenges) : \E r : Begun(c, r)
  \/ \E c \in 1..Len(challenges), n \in Nat : \E r : Enrolled(c, n, r)
  \/ \E c \in 1..Len(challenges), n \in Nat : \E r : LoggedIn(c, n, r)
  \/ \E c \in 1..Len(challenges), n \in Nat : \E r : SteppedUp(c, n, r)
  \/ \E c \in 1..Len(challenges), code \in codes : \E r : Recovered(c, code, r)
  \/ \E c \in 1..Len(challenges) : \E r : Replaced(c, r)

\* The epoch moves on by one at most, and never for nothing.
EpochMoves ==
  /\ changes' \in {changes, changes + 1}
  /\ changes' # changes => changes < ChangeBound
  /\ \/ security'.epoch = security.epoch
     \/ /\ security'.epoch = security.epoch + 1
        /\ \/ changes' = changes + 1
           \/ Len(sessions') = Len(sessions) + 1
           \/ Len(challenges') = Len(challenges) + 1
           \/ /\ \E s \in 1..Len(sessions) : ~sessions[s].revoked
              /\ \A s \in 1..Len(sessions) : sessions'[s].revoked
              /\ Len(sessions') = Len(sessions)
-----------------------------------------------------------------------------
(* Every step has one of the forms.                                        *)

LEMMA ConsumedNow ==
  ASSUME Tables, NEW c \in 1..Len(challenges), NEW r \in ChallengeRows
  PROVE  /\ Consumed(challenges, {c})[c].consumed
         /\ Spent(c)[c].consumed
         /\ Len(Consumed(challenges, {c})) = Len(challenges)
         /\ Len(Spent(c)) = Len(challenges)
<1> DEFINE Q == Consumed(challenges, {c})
<1>1. ChallengesAged(Q) /\ Len(Q) = Len(challenges) /\ Q[c].consumed BY ConsumedTable
<1>2. Q[c] \in ChallengeRows /\ DOMAIN Q = 1..Len(challenges)
      BY <1>1, ElementOfSeq, LenProperties, TableParts DEF ChallengesAged
<1>3. Spent(c) = [Q EXCEPT ![c] = [Q[c] EXCEPT !.tried = Q[c].tried + 1]] BY DEF Spent, Tried
<1>4. Spent(c)[c] = [Q[c] EXCEPT !.tried = Q[c].tried + 1] BY <1>2, <1>3
<1> HIDE DEF Q
<1>5. Spent(c)[c].consumed BY <1>1, <1>2, <1>4 DEF ChallengeRows
<1>6. Len(Spent(c)) = Len(challenges) BY SpentTable
<1>7. QED BY <1>1, <1>5, <1>6 DEF Q

\* A table with one row more.
LEMMA AppendedChallenge ==
  ASSUME NEW Q, Q \in Seq(ChallengeRows), Len(Q) = Len(challenges), NEW r \in ChallengeRows,
         challenges' = Append(Q, r)
  PROVE  /\ Len(challenges') = Len(challenges) + 1 /\ challenges'[Len(challenges) + 1] = r
         /\ \A c \in 1..Len(challenges) : challenges'[c] = Q[c]
BY AppendProperties

LEMMA AppendedSession ==
  ASSUME NEW Q, Q \in Seq(SessionRows), Len(Q) = Len(sessions), NEW r \in SessionRows,
         sessions' = Append(Q, r)
  PROVE  /\ Len(sessions') = Len(sessions) + 1 /\ sessions'[Len(sessions) + 1] = r
         /\ \A s \in 1..Len(sessions) : sessions'[s] = Q[s]
BY AppendProperties

LEMMA ChallengeFields ==
  ASSUME NEW u, NEW a, NEW e, NEW f, NEW w
  PROVE  LET r == Challenge(u, a, e, f, w) IN
         /\ r.purpose = u /\ r.account = a /\ r.epoch = e /\ r.factor = f
         /\ r.session = 0 /\ r.from = 0 /\ r.by = <<>> /\ r.root = "password"
         /\ r.attempts = 0 /\ r.tried = 0
BY DEF Challenge

LEMMA SessionFields ==
  ASSUME NEW a, NEW e, NEW w
  PROVE  LET r == Session(a, e, w) IN
         /\ r.account = a /\ r.cver = credential.version /\ r.sver = identity.version
         /\ r.epoch = e /\ r.mfa = None /\ r.from = 0 /\ r.by = <<>>
BY DEF Session

LEMMA FactorIds ==
  ASSUME Inv, NEW i \in DOMAIN factors
  PROVE  i \in 1..Len(factors) /\ factors[i].id \in Nat
BY TableParts DEF Inv, FactorRows

LEMMA LoginForm ==
  ASSUME Inv, Inv', NEW t \in Threads, NEW old, NEW rehash \in BOOLEAN, LoginCommits(t, old, rehash)
  PROVE  Form
<1> DEFINE ver == credential.version + (IF rehash THEN 1 ELSE 0)
           sec == IF rehash THEN NextEpoch ELSE security
           ended == RevokedIn(sessions, IF rehash THEN DOMAIN sessions ELSE {old})
           a == hand[t].account
           w == hand[t].pwd
           sess == [Session(a, sec.epoch, w) EXCEPT !.cver = ver]
           chal(purpose, factor) == [Challenge(purpose, a, sec.epoch, factor, w) EXCEPT !.cver = ver]
<1>1. /\ ver \in Nat /\ sec = security' /\ sec.epoch \in Nat /\ w \in Nat /\ a \in Accounts
      /\ UNCHANGED <<factors, codes>>
      BY LoginParts
<1>2. ended \in Seq(SessionRows) /\ Len(ended) = Len(sessions) BY RevokedTable DEF Inv, SessionsAged
<1>3. Len(challenges) \in Nat /\ Len(factors) \in Nat /\ DOMAIN factors = 1..Len(factors)
      BY TableParts DEF Inv
<1>4. ASSUME NEW purpose \in {"login", "recovery", "enroll_start"}, NEW factor \in Nat,
             challenges' = Append(challenges, chal(purpose, factor)), sessions' = ended,
             \/ /\ purpose \in {"login", "recovery"}
                /\ \E i \in 1..Len(factors) : factor = factors[i].id
             \/ /\ purpose = "enroll_start" /\ factor = Len(challenges) + 1 /\ factors = <<>>
      PROVE  Form
      <2> DEFINE r0 == Challenge(purpose, a, sec.epoch, factor, w)
                 r == chal(purpose, factor)
      <2>1. r0 \in ChallengeRows
            <3> HIDE DEF sec, a, w, ver
            <3>1. purpose \in Purposes BY DEF Purposes
            <3>2. QED BY <1>1, <3>1, NewChallengeRow
      <2>2. /\ r0.purpose = purpose /\ r0.factor = factor /\ r0.session = 0 /\ r0.from = 0 /\ r0.by = <<>>
            /\ r0.attempts = 0 /\ r0.tried = 0
            BY ChallengeFields
      <2>3. r = [r0 EXCEPT !.cver = ver] OBVIOUS
      <2> HIDE DEF r0, sec, ver, a, w, ended, r, chal
      <2>4. /\ r \in ChallengeRows
            /\ r.purpose = purpose /\ r.factor = factor /\ r.session = 0 /\ r.from = 0 /\ r.by = <<>>
            /\ r.attempts = 0 /\ r.tried = 0
            BY <1>1, <2>1, <2>2, <2>3 DEF ChallengeRows
      <2>5. challenges' = Append(challenges, r) BY <1>4 DEF r
      <2>6. NewChallengeIs(r)
            BY <1>2, <1>4, <2>4, <2>5, AppendedChallenge DEF NewChallengeIs, Inv, Tables
      <2>7. Asked(r) BY <1>1, <1>4, <2>4, <2>6 DEF Asked
      <2>8. QED BY <2>7 DEF Form
<1>5. ASSUME sessions' = Append(ended, sess), UNCHANGED challenges, factors = <<>>
      PROVE  Form
      <2> DEFINE r0 == Session(a, sec.epoch, w)
      <2>1. r0 \in SessionRows
            <3> HIDE DEF sec, a, w, ver
            <3>1. QED BY <1>1, NewSession
      <2>2. r0.epoch = sec.epoch /\ r0.from = 0 /\ r0.by = <<>> BY SessionFields
      <2>3. sess = [r0 EXCEPT !.cver = ver] OBVIOUS
      <2> HIDE DEF r0, sec, ver, a, w, ended, sess
      <2>4. sess \in SessionRows /\ sess.epoch = sec.epoch /\ sess.from = 0 /\ sess.by = <<>>
            BY <1>1, <2>1, <2>2, <2>3 DEF SessionRows
      <2>5. NewSessionIs(sess) BY <1>2, <1>5, <2>4, AppendedSession DEF NewSessionIs
      <2>6. Opened(sess) BY <1>1, <1>5, <2>4, <2>5 DEF Opened
      <2>7. QED BY <2>6 DEF Form
<1>6. \A i \in DOMAIN factors : i \in 1..Len(factors) /\ factors[i].id \in Nat BY FactorIds
<1>7. factors # <<>> => Len(factors) \in DOMAIN factors BY <1>3, EmptySeq DEF Inv, Tables
<1>8. NewChallenge \in Nat /\ NewChallenge = Len(challenges) + 1 BY <1>3 DEF NewChallenge
<1>9. \/ \E i \in DOMAIN factors :
            challenges' = Append(challenges, chal("login", factors[i].id)) /\ sessions' = ended
      \/ /\ factors # <<>>
         /\ challenges' = Append(challenges, chal("recovery", factors[Len(factors)].id))
         /\ sessions' = ended
      \/ /\ factors = <<>>
         /\ challenges' = Append(challenges, chal("enroll_start", NewChallenge)) /\ sessions' = ended
      \/ factors = <<>> /\ sessions' = Append(ended, sess) /\ UNCHANGED challenges
      BY DEF LoginCommits
<1> HIDE DEF chal, sess, ended
<1>10. QED BY <1>4, <1>5, <1>6, <1>7, <1>8, <1>9

LEMMA BeginForm ==
  ASSUME Inv, NEW c \in DOMAIN challenges, BeginEnrollment(c)
  PROVE  Form
<1> DEFINE row == challenges[c]
           r0 == Challenge("enroll", row.account, row.epoch, row.factor, row.pwd)
           r == [r0 EXCEPT !.from = c, !.root = row.root]
           Q == Consumed(challenges, {c})
<1>1. /\ Usable(c) /\ row.purpose = "enroll_start"
      /\ challenges' = Append(Q, r) /\ UNCHANGED <<admin, rows, sessions, local>>
      BY DEF BeginEnrollment
<1>2. /\ row \in ChallengeRows /\ c \in 1..Len(challenges) /\ c \in Nat
      /\ row.account \in Accounts /\ row.epoch \in Nat /\ row.factor \in Nat /\ row.pwd \in Nat
      /\ row.root \in {"password", "code", "proof"}
      BY <1>1, UsableFacts
<1>3. r0 \in ChallengeRows
      <2>1. "enroll" \in Purposes BY DEF Purposes
      <2> HIDE DEF row
      <2>2. QED BY <1>2, <2>1, NewChallengeRow
<1>4. /\ r0.purpose = "enroll" /\ r0.factor = row.factor /\ r0.epoch = row.epoch
      /\ r0.session = 0 /\ r0.by = <<>> /\ r0.attempts = 0 /\ r0.tried = 0
      BY ChallengeFields
<1> HIDE DEF r0, row
<1>5. /\ r \in ChallengeRows
      /\ r.purpose = "enroll" /\ r.factor = row.factor /\ r.epoch = row.epoch
      /\ r.session = 0 /\ r.by = <<>> /\ r.from = c /\ r.root = row.root
      /\ r.attempts = 0 /\ r.tried = 0
      BY <1>2, <1>3, <1>4 DEF ChallengeRows
<1> HIDE DEF r
<1>6. Q \in Seq(ChallengeRows) /\ Len(Q) = Len(challenges) /\ Q[c].consumed
      BY <1>2, ConsumedTable DEF Inv, ChallengesAged
<1> HIDE DEF Q
<1>7. NewChallengeIs(r) /\ challenges'[c].consumed
      BY <1>1, <1>2, <1>5, <1>6, AppendedChallenge DEF NewChallengeIs
<1>8. Spends(c) BY <1>1, <1>2, <1>7 DEF Spends
<1>9. Begun(c, r) BY <1>1, <1>5, <1>7, <1>8 DEF Begun, rows, row
<1>10. QED BY <1>2, <1>9 DEF Form

\* The session of a login, or of an enrolment, with its second factor.
LEMMA FactoredInherits ==
  ASSUME Inv, NEW c \in DOMAIN challenges, Usable(c), NEW n \in Nat, NEW e \in Nat
  PROVE  LET r0 == Session(challenges[c].account, e, challenges[c].pwd)
             r == Factored(r0, challenges[c].factor, c, n)
         IN  /\ r \in SessionRows /\ Inherits(r, c) /\ r.epoch = e
             /\ r.by = <<"totp", challenges[c].factor, n>>
<1> DEFINE row == challenges[c]
           r0 == Session(row.account, e, row.pwd)
           b == <<"totp", row.factor, n>>
           r == Factored(r0, row.factor, c, n)
<1>1. /\ c \in Nat /\ row.account \in Accounts /\ row.factor \in Nat /\ row.pwd \in Nat
      /\ row.cver = credential.version /\ row.sver = identity.version
      BY UsableFacts DEF Usable, IsBound
<1>2. r0 \in SessionRows
      <2> HIDE DEF row
      <2>1. QED BY <1>1, NewSession
<1>3. /\ r0.account = row.account /\ r0.cver = credential.version /\ r0.sver = identity.version
      /\ r0.epoch = e
      BY SessionFields
<1>4. r = [r0 EXCEPT !.mfa = row.factor, !.from = c, !.by = b] BY DEF Factored
<1>5. b \in Secrets BY <1>1 DEF Secrets
<1> HIDE DEF r0, row, b, r
<1>6. /\ r \in SessionRows
      /\ r.account = row.account /\ r.cver = credential.version /\ r.sver = identity.version
      /\ r.epoch = e /\ r.mfa = row.factor /\ r.from = c /\ r.by = b
      BY <1>1, <1>2, <1>3, <1>4, <1>5 DEF SessionRows
<1>7. Inherits(r, c) BY <1>1, <1>6 DEF Inherits, row
<1>8. QED BY <1>6, <1>7 DEF r, r0, row, b

LEMMA CompletesLoginForm ==
  ASSUME Inv, NEW t \in Threads, NEW n \in TimeSteps, CompletesLogin(t, n)
  PROVE  Form
<1> DEFINE c == hand[t].challenge
           row == challenges[c]
           r == Factored(Session(row.account, security.epoch, row.pwd), row.factor, c, n)
<1>1. c \in DOMAIN challenges /\ Usable(c) /\ row.purpose = "login"
      BY ComparesFacts DEF CompletesLogin, Compares
<1>2. /\ factors' = StepSpent(row.factor, n) /\ challenges' = Spent(c)
      /\ sessions' = Append(sessions, r)
      /\ UNCHANGED <<security, codes>>
      BY DEF CompletesLogin, Factored
<1>3. \E i \in DOMAIN factors : factors[i].id = row.factor /\ ~factors[i].revoked /\ n > factors[i].step
      BY DEF CompletesLogin
<1> HIDE DEF c
<1>4. c \in 1..Len(challenges) /\ row.epoch = security.epoch /\ row \in ChallengeRows
      BY <1>1, UsableFacts
<1>5. Newer(c, n) BY <1>3, FactorIds DEF Newer
<1>6. n \in Nat /\ security.epoch \in Nat BY SessionsAssumption, Versions DEF Inv
<1>7. /\ r \in SessionRows /\ Inherits(r, c) /\ r.epoch = security.epoch
      /\ r.by = <<"totp", row.factor, n>>
      BY <1>1, <1>6, FactoredInherits
<1> HIDE DEF r
<1>8. Spends(c) /\ Len(challenges') = Len(challenges)
      BY <1>1, <1>2, <1>4, ConsumedNow DEF Spends, Inv
<1>9. NewSessionIs(r) BY <1>2, <1>7, <1>8, AppendedSession DEF NewSessionIs, Inv, Tables
<1>10. LoggedIn(c, n, r) BY <1>1, <1>2, <1>4, <1>5, <1>7, <1>8, <1>9 DEF LoggedIn
<1>11. QED BY <1>4, <1>6, <1>10 DEF Form

LEMMA CompletesEnrollmentForm ==
  ASSUME Inv, NEW t \in Threads, NEW n \in TimeSteps, CompletesEnrollment(t, n)
  PROVE  Form
<1> DEFINE c == hand[t].challenge
           row == challenges[c]
           e == security.epoch + 1
           ended == RevokedIn(sessions, DOMAIN sessions)
           r == Factored(Session(row.account, e, row.pwd), row.factor, c, n)
<1>1. c \in DOMAIN challenges /\ Usable(c) /\ row.purpose = "enroll"
      BY ComparesFacts DEF CompletesEnrollment, Compares
<1>2. /\ factors' = Append(factors, [id |-> row.factor, step |-> n, revoked |-> FALSE])
      /\ challenges' = Spent(c)
      /\ security' = [NextEpoch EXCEPT !.enrol = FALSE]
      /\ codes' = CodeSet(row.factor, c)
      /\ sessions' = Append(ended, r)
      BY DEF CompletesEnrollment, AllRevoked, Factored
<1> HIDE DEF c
<1>3. c \in 1..Len(challenges) /\ row.epoch = security.epoch /\ row \in ChallengeRows
      BY <1>1, UsableFacts
<1>4. n \in Nat BY SessionsAssumption
<1>5. e \in Nat /\ security'.epoch = e BY <1>2, NextEpochFacts
<1> HIDE DEF e
<1>6. r \in SessionRows /\ Inherits(r, c) /\ r.epoch = e /\ r.by = <<"totp", row.factor, n>>
      BY <1>1, <1>4, <1>5, FactoredInherits
<1> HIDE DEF r
<1>7. /\ ended \in Seq(SessionRows) /\ Len(ended) = Len(sessions)
      /\ \A s \in 1..Len(sessions) : ended[s].revoked
      BY RevokedTable, TableParts DEF Inv, SessionsAged
<1> HIDE DEF ended
<1>8. Spends(c) /\ Len(challenges') = Len(challenges)
      BY <1>1, <1>2, <1>3, ConsumedNow DEF Spends, Inv
<1>9. NewSessionIs(r) /\ \A s \in 1..Len(sessions) : sessions'[s].revoked
      BY <1>2, <1>6, <1>7, <1>8, AppendedSession DEF NewSessionIs
<1>10. Enrolled(c, n, r) BY <1>1, <1>2, <1>3, <1>5, <1>6, <1>8, <1>9 DEF Enrolled, e
<1>11. QED BY <1>3, <1>4, <1>10 DEF Form

LEMMA CompletesStepUpForm ==
  ASSUME Inv, NEW t \in Threads, NEW n \in TimeSteps, CompletesStepUp(t, n)
  PROVE  Form
<1> DEFINE c == hand[t].challenge
           row == challenges[c]
           r0 == Challenge("proof", row.account, row.epoch, row.factor, row.pwd)
           b == <<"totp", row.factor, n>>
           r == [r0 EXCEPT !.session = row.session, !.target = row.target, !.from = c, !.by = b]
           Q == Spent(c)
<1>1. c \in DOMAIN challenges /\ Usable(c) /\ row.purpose = "step_up"
      BY ComparesFacts DEF CompletesStepUp, Compares
<1>2. /\ factors' = StepSpent(row.factor, n) /\ challenges' = Append(Q, r)
      /\ UNCHANGED <<sessions, codes>>
      BY DEF CompletesStepUp
<1>3. \E i \in DOMAIN factors : factors[i].id = row.factor /\ ~factors[i].revoked /\ n > factors[i].step
      BY DEF CompletesStepUp
<1> HIDE DEF c
<1>4. /\ c \in 1..Len(challenges) /\ c \in Nat /\ row \in ChallengeRows
      /\ row.account \in Accounts /\ row.epoch \in Nat /\ row.factor \in Nat /\ row.pwd \in Nat
      /\ row.target \in StepUpActions \cup {None} /\ row.session \in Nat
      BY <1>1, UsableFacts, TableParts DEF Inv
<1>5. Newer(c, n) BY <1>3, FactorIds DEF Newer
<1>6. n \in Nat BY SessionsAssumption
<1>7. r0 \in ChallengeRows
      <2>1. "proof" \in Purposes BY DEF Purposes
      <2> HIDE DEF row
      <2>2. QED BY <1>4, <2>1, NewChallengeRow
<1>8. r0.purpose = "proof" /\ r0.factor = row.factor /\ r0.attempts = 0 /\ r0.tried = 0
      BY ChallengeFields
<1>9. b \in Secrets BY <1>4, <1>6 DEF Secrets
<1> HIDE DEF r0, b, row
<1>10. /\ r \in ChallengeRows
       /\ r.purpose = "proof" /\ r.factor = row.factor /\ r.session = row.session
       /\ r.from = c /\ r.by = b /\ r.attempts = 0 /\ r.tried = 0
       BY <1>4, <1>7, <1>8, <1>9 DEF ChallengeRows
<1> HIDE DEF r
<1>11. Q \in Seq(ChallengeRows) /\ Len(Q) = Len(challenges) /\ Q[c].consumed
       BY <1>4, SpentTable, ConsumedNow DEF Inv, ChallengesAged
<1> HIDE DEF Q
<1>12. NewChallengeIs(r) /\ challenges'[c].consumed
       BY <1>2, <1>4, <1>10, <1>11, AppendedChallenge DEF NewChallengeIs
<1>13. Spends(c) BY <1>1, <1>4, <1>12 DEF Spends
<1>14. SteppedUp(c, n, r) BY <1>1, <1>2, <1>5, <1>10, <1>12, <1>13 DEF SteppedUp, row, b
<1>15. QED BY <1>4, <1>6, <1>14 DEF Form

\* The new challenge of Recovers and of ReplaceFactor.
Readmission(c, e, b, root) ==
  [Challenge("enroll_start", challenges[c].account, e, NewChallenge, challenges[c].pwd) EXCEPT
     !.from = c, !.by = b, !.root = root]

LEMMA ReadmittedRow ==
  ASSUME Inv, NEW c \in DOMAIN challenges, Usable(c), NEW e, e \in Nat, NEW b, b \in Secrets,
         NEW root, root \in {"code", "proof"}
  PROVE  /\ Readmission(c, e, b, root) \in ChallengeRows
         /\ Readmission(c, e, b, root).from = c
         /\ Readmission(c, e, b, root).by = b
         /\ Readmission(c, e, b, root).root = root
         /\ Readmission(c, e, b, root).purpose = "enroll_start"
         /\ Readmission(c, e, b, root).session = 0
         /\ Readmission(c, e, b, root).factor = Len(challenges) + 1
         /\ Readmission(c, e, b, root).attempts = 0 /\ Readmission(c, e, b, root).tried = 0
<1> DEFINE row == challenges[c]
           r0 == Challenge("enroll_start", row.account, e, NewChallenge, row.pwd)
           r == [r0 EXCEPT !.from = c, !.by = b, !.root = root]
<1>1. c \in Nat /\ row.account \in Accounts /\ row.pwd \in Nat BY UsableFacts
<1>2. NewChallenge \in Nat /\ NewChallenge = Len(challenges) + 1
      BY TableParts DEF Inv, NewChallenge
<1>3. r0 \in ChallengeRows
      <2>1. "enroll_start" \in Purposes BY DEF Purposes
      <2> HIDE DEF row
      <2>2. QED BY <1>1, <1>2, <2>1, NewChallengeRow
<1>4. /\ r0.purpose = "enroll_start" /\ r0.session = 0 /\ r0.factor = NewChallenge
      /\ r0.attempts = 0 /\ r0.tried = 0
      BY ChallengeFields
<1> HIDE DEF r0
<1>5. /\ r \in ChallengeRows
      /\ r.from = c /\ r.by = b /\ r.root = root
      /\ r.purpose = "enroll_start" /\ r.session = 0 /\ r.factor = Len(challenges) + 1
      /\ r.attempts = 0 /\ r.tried = 0
      BY <1>1, <1>2, <1>3, <1>4 DEF ChallengeRows
<1>6. QED BY <1>5 DEF r0, Readmission

LEMMA RecoversForm ==
  ASSUME Inv, NEW t \in Threads, NEW code \in codes, Recovers(t, code)
  PROVE  Form
<1> DEFINE c == hand[t].challenge
           row == challenges[c]
           b == <<"code", code.set, code.n>>
           r == Readmission(c, security.epoch + 1, b, "code")
           Q == Spent(c)
<1>1. c \in DOMAIN challenges /\ Usable(c) BY ComparesFacts DEF Recovers
<1>2. /\ factors' = FactorsRevoked /\ challenges' = Append(Q, r)
      /\ codes' = codes \ {code} /\ sessions' = AllRevoked
      BY DEF Recovers, Readmission
<1> HIDE DEF c
<1>3. c \in 1..Len(challenges) /\ row \in ChallengeRows BY <1>1, UsableFacts
<1>4. b \in Secrets
      <2>1. code.set \in Nat /\ code.n \in Nat BY DEF Inv, Tables
      <2>2. QED BY <2>1 DEF Secrets
<1>5. security.epoch + 1 \in Nat BY Versions DEF Inv
<1> HIDE DEF b
<1>6. /\ r \in ChallengeRows
      /\ r.from = c /\ r.by = b /\ r.root = "code"
      /\ r.purpose = "enroll_start" /\ r.session = 0 /\ r.factor = Len(challenges) + 1
      /\ r.attempts = 0 /\ r.tried = 0
      BY <1>1, <1>4, <1>5, ReadmittedRow
<1> HIDE DEF r
<1>7. Q \in Seq(ChallengeRows) /\ Len(Q) = Len(challenges) /\ Q[c].consumed
      BY <1>3, SpentTable, ConsumedNow DEF Inv, ChallengesAged
<1> HIDE DEF Q
<1>8. Len(sessions') = Len(sessions) BY <1>2, AllEnded
<1>9. NewChallengeIs(r) /\ challenges'[c].consumed
      BY <1>2, <1>3, <1>6, <1>7, <1>8, AppendedChallenge DEF NewChallengeIs
<1>10. Spends(c) BY <1>1, <1>3, <1>9 DEF Spends
<1>11. Recovered(c, code, r) BY <1>2, <1>6, <1>9, <1>10 DEF Recovered, Readmitted, b
<1>12. QED BY <1>3, <1>11 DEF Form

LEMMA ReplaceForm ==
  ASSUME Inv, NEW s, NEW p \in DOMAIN challenges, ReplaceFactor(s, p)
  PROVE  Form
<1> DEFINE row == challenges[p]
           r0 == Challenge("enroll_start", row.account, security.epoch + 1, NewChallenge, row.pwd)
           r == Readmission(p, security.epoch + 1, <<>>, "proof")
           Q == Consumed(challenges, {p})
<1>1. Usable(p) BY DEF ReplaceFactor, ProofOf
<1>2. /\ factors' = FactorsRevoked /\ challenges' = Append(Q, [r0 EXCEPT !.from = p, !.root = "proof"])
      /\ codes' = {} /\ sessions' = AllRevoked
      BY DEF ReplaceFactor
<1>3. p \in 1..Len(challenges) /\ row \in ChallengeRows BY <1>1, UsableFacts
<1>4. security.epoch + 1 \in Nat /\ <<>> \in Secrets BY Versions DEF Inv, Secrets
<1>5. r0 \in ChallengeRows /\ r0.by = <<>>
      <2>1. p \in Nat /\ row.account \in Accounts /\ row.pwd \in Nat BY <1>1, UsableFacts
      <2>2. NewChallenge \in Nat BY TableParts DEF Inv, NewChallenge
      <2>3. "enroll_start" \in Purposes BY DEF Purposes
      <2>4. r0.by = <<>> BY ChallengeFields
      <2> HIDE DEF row
      <2>5. QED BY <1>4, <2>1, <2>2, <2>3, <2>4, NewChallengeRow
<1>6. /\ r \in ChallengeRows
      /\ r.from = p /\ r.by = <<>> /\ r.root = "proof"
      /\ r.purpose = "enroll_start" /\ r.session = 0 /\ r.factor = Len(challenges) + 1
      /\ r.attempts = 0 /\ r.tried = 0
      BY <1>1, <1>4, ReadmittedRow
<1>7. r = [r0 EXCEPT !.from = p, !.root = "proof"]
      <2>1. r = [r0 EXCEPT !.from = p, !.by = <<>>, !.root = "proof"] BY DEF Readmission
      <2> HIDE DEF r0, r
      <2>2. QED BY <1>5, <2>1 DEF ChallengeRows
<1> HIDE DEF r0, Q
<1> HIDE DEF r
<1>8. Q \in Seq(ChallengeRows) /\ Len(Q) = Len(challenges) /\ Q[p].consumed
      BY <1>3, ConsumedTable DEF Inv, ChallengesAged, Q
<1>9. Len(sessions') = Len(sessions) BY <1>2, AllEnded
<1>10. NewChallengeIs(r) /\ challenges'[p].consumed
       BY <1>2, <1>3, <1>6, <1>7, <1>8, <1>9, AppendedChallenge DEF NewChallengeIs
<1>11. Spends(p) BY <1>1, <1>3, <1>10 DEF Spends
<1>12. Replaced(p, r) BY <1>2, <1>6, <1>10, <1>11 DEF Replaced, Readmitted
<1>13. QED BY <1>3, <1>12 DEF Form

LEMMA StepUpMintsForm ==
  ASSUME Inv, NEW t \in Threads, StepUpMints(t)
  PROVE  Form
<1> DEFINE s == hand[t].session
           a == sessions[s].account
           e == sessions[s].epoch
           w == hand[t].pwd
<1>1. /\ s \in DOMAIN sessions /\ Loads(s) /\ hand[t].op \in StepUpActions /\ w \in Nat
      BY ThreadFacts DEF StepUpMints, Knows
<1>2. s \in 1..Len(sessions) /\ s \in Nat /\ a \in Accounts /\ e \in Nat
      BY <1>1, LoadsFacts
<1>3. PICK i \in DOMAIN factors :
        challenges' = Append(challenges,
          [Challenge("step_up", a, e, factors[i].id, w) EXCEPT !.session = s, !.target = hand[t].op])
      BY DEF StepUpMints
<1> DEFINE r0 == Challenge("step_up", a, e, factors[i].id, w)
           r == [r0 EXCEPT !.session = s, !.target = hand[t].op]
<1>4. i \in 1..Len(factors) /\ factors[i].id \in Nat BY FactorIds
<1>5. UNCHANGED <<rows, sessions>> BY DEF StepUpMints
<1> HIDE DEF s, a, e, w
<1>6. r0 \in ChallengeRows
      <2>1. "step_up" \in Purposes BY DEF Purposes
      <2>2. QED BY <1>1, <1>2, <1>4, <2>1, NewChallengeRow
<1>7. /\ r0.purpose = "step_up" /\ r0.factor = factors[i].id /\ r0.from = 0 /\ r0.by = <<>>
      /\ r0.attempts = 0 /\ r0.tried = 0
      BY ChallengeFields
<1> HIDE DEF r0
<1>8. /\ r \in ChallengeRows
      /\ r.purpose = "step_up" /\ r.factor = factors[i].id /\ r.from = 0 /\ r.by = <<>> /\ r.session = s
      /\ r.attempts = 0 /\ r.tried = 0
      BY <1>1, <1>2, <1>6, <1>7 DEF ChallengeRows
<1>9. challenges' = Append(challenges, r) BY <1>3 DEF r0
<1> HIDE DEF r
<1>10. NewChallengeIs(r)
       BY <1>5, <1>8, <1>9, AppendedChallenge DEF NewChallengeIs, Inv, Tables
<1>11. s # 0 BY <1>2
<1>12. Asked(r) BY <1>4, <1>5, <1>8, <1>10, <1>11 DEF Asked, rows
<1>13. QED BY <1>12 DEF Form

LEMMA RotateForm ==
  ASSUME Inv, NEW s, NEW p \in DOMAIN challenges, RotateRecovery(s, p)
  PROVE  Form
<1>1. /\ challenges' = Consumed(challenges, {p}) /\ codes' = CodeSet(challenges[p].factor, p)
      /\ UNCHANGED <<sessions, factors>> /\ Usable(p)
      BY DEF RotateRecovery, ProofOf
<1>2. p \in 1..Len(challenges) BY TableParts DEF Inv
<1>3. Len(challenges') = Len(challenges) /\ challenges'[p].consumed BY <1>1, <1>2, ConsumedTable DEF Inv
<1>4. Rotated(p) BY <1>1, <1>2, <1>3 DEF Rotated, Spends, NoRow
<1>5. QED BY <1>2, <1>4 DEF Form

LEMMA ExpiredChallengeTable ==
  ASSUME NEW c, challenges' = [challenges EXCEPT ![c].expired = TRUE], Inv
  PROVE  Len(challenges') = Len(challenges)
BY LenProperties, TableParts DEF Inv, Tables

\* What the other steps of a thread do to the tables.
LEMMA QuietForm ==
  ASSUME Inv, NEW t \in Threads,
         \/ LoginReads(t)
         \/ \E a \in Accounts : LoginLocks(t, a)
         \/ \E s \in DOMAIN sessions : ChangeReads(t, s)
         \/ \E c \in DOMAIN challenges, op \in DOMAIN CodePurposes : AttemptChecks(t, c, op)
         \/ \E s \in DOMAIN sessions, action \in StepUpActions : StepUpReads(t, s, action)
         \/ Abandon(t)
  PROVE  Still /\ UNCHANGED <<admin, rows, sessions, challenges, changes>>
BY DEF Still, NoRow, rows, LoginReads, LoginLocks, ChangeReads, AttemptChecks, StepUpReads, Abandon

LEMMA CodeForm ==
  ASSUME Inv, NEW t \in Threads, AttemptCounts(t) \/ CodeIsWrong(t)
  PROVE  Still
<1> DEFINE c == hand[t].challenge
<1>1. c \in DOMAIN challenges BY ThreadFacts DEF AttemptCounts, CodeIsWrong, Knows
<1>2. c \in 1..Len(challenges) BY <1>1, TableParts DEF Inv
<1>3. \/ challenges' = [challenges EXCEPT ![c].attempts = challenges[c].attempts + 1]
      \/ challenges' = Tried(challenges, c)
      BY DEF AttemptCounts, CodeIsWrong
<1>4. UNCHANGED <<sessions, rows>> BY DEF AttemptCounts, CodeIsWrong
<1> HIDE DEF c
<1>5. Len(challenges') = Len(challenges)
      BY <1>3, LenProperties, TableParts DEF Tried, Inv, Tables
<1>6. QED BY <1>4, <1>5 DEF Still, NoRow, rows

LEMMA ChangeForm ==
  ASSUME Inv, NEW t \in Threads, NEW p, ChangeCommits(t, p)
  PROVE  Still
<1>1. /\ challenges' = Consumed(challenges, {p}) /\ sessions' = AllRevoked
      /\ UNCHANGED <<factors, codes>>
      BY DEF ChangeCommits
<1>2. QED BY <1>1, ConsumedTable, AllEnded DEF Inv, Still, NoRow

LEMMA CommandForm ==
  ASSUME Inv, NEW s \in DOMAIN sessions,
         \/ Logout(s)
         \/ \E target \in DOMAIN sessions : Revoke(s, target)
         \/ RevokeAll(s)
         \/ SessionExpires(s)
  PROVE  Still
<1>1. UNCHANGED <<challenges, factors, codes>>
      BY DEF Logout, Revoke, RevokeAll, SessionExpires, rows
<1>2. Len(sessions') = Len(sessions)
      <2>1. CASE \E W : sessions' = RevokedIn(sessions, W) BY <2>1, RevokedTable DEF Inv
      <2>2. CASE SessionExpires(s)
            BY <2>2, LenProperties, TableParts DEF SessionExpires, Inv, Tables
      <2>3. QED BY <2>1, <2>2 DEF Logout, Revoke, RevokeAll, AllRevoked
<1>3. QED BY <1>1, <1>2 DEF Still, NoRow

LEMMA OperatorForm ==
  ASSUME Inv,
         \/ \E a \in Accounts : AccountCommand(a)
         \/ SetPassword \/ RevokePassword
         \/ \E status \in {"active", "suspended"} : SetStatus(status)
  PROVE  Still
<1>1. UNCHANGED <<factors, codes>>
      BY DEF AccountCommand, AccountChange, MembershipChange, PlanExpires, SetPassword,
             RevokePassword, SetStatus
<1>2. \/ UNCHANGED <<sessions, challenges>>
      \/ sessions' = AllRevoked /\ UNCHANGED challenges
      \/ \E a : Invalidates(a)
      BY DEF AccountCommand, AccountChange, MembershipChange, PlanExpires, SetPassword,
             RevokePassword, SetStatus
<1>3. QED BY <1>1, <1>2, AllEnded, Invalidated DEF Still, NoRow

LEMMA FormStep ==
  ASSUME Inv, Inv', [Next]_vars
  PROVE  Form
<1>1. ASSUME NEW t \in Threads, ThreadStep(t) PROVE Form
      <2>1. CASE \E old \in {0} \cup DOMAIN sessions, rehash \in BOOLEAN : LoginCommits(t, old, rehash)
            BY <2>1, LoginForm
      <2>2. CASE \E p \in {0} \cup DOMAIN challenges : ChangeCommits(t, p)
            BY <2>2, ChangeForm DEF Form
      <2>3. CASE AttemptCounts(t) \/ CodeIsWrong(t) BY <2>3, CodeForm DEF Form
      <2>4. CASE \E step \in TimeSteps : CompletesEnrollment(t, step) BY <2>4, CompletesEnrollmentForm
      <2>5. CASE \E step \in TimeSteps : CompletesLogin(t, step) BY <2>5, CompletesLoginForm
      <2>6. CASE \E step \in TimeSteps : CompletesStepUp(t, step) BY <2>6, CompletesStepUpForm
      <2>7. CASE \E code \in codes : Recovers(t, code) BY <2>7, RecoversForm
      <2>8. CASE StepUpMints(t) BY <2>8, StepUpMintsForm
      <2>9. QED BY <1>1, <2>1, <2>2, <2>3, <2>4, <2>5, <2>6, <2>7, <2>8, QuietForm
            DEF ThreadStep, Form
<1>2. ASSUME NEW s \in DOMAIN sessions, SessionCommand(s) PROVE Form
      <2>1. CASE \E p \in DOMAIN challenges : RotateRecovery(s, p) BY <2>1, RotateForm
      <2>2. CASE \E p \in DOMAIN challenges : ReplaceFactor(s, p) BY <2>2, ReplaceForm
      <2>3. QED BY <1>2, <2>1, <2>2, CommandForm DEF SessionCommand, Form
<1>3. ASSUME NEW c \in DOMAIN challenges, ChallengeExpires(c) PROVE Form
      <2>1. challenges' = [challenges EXCEPT ![c].expired = TRUE] /\ UNCHANGED <<rows, sessions>>
            BY <1>3 DEF ChallengeExpires
      <2>2. QED BY <2>1, ExpiredChallengeTable DEF Form, Still, NoRow, rows
<1>4. CASE UNCHANGED vars BY <1>4 DEF vars, Form, Still, NoRow
<1>5. QED BY <1>1, <1>2, <1>3, <1>4, BeginForm, OperatorForm DEF Next, Form

\* Which of the forms have a new row.
LEMMA SessionForms ==
  ASSUME Form, Len(sessions) \in Nat, Len(sessions') # Len(sessions)
  PROVE  \/ \E r : Opened(r)
         \/ \E c \in 1..Len(challenges), n \in Nat : \E r : Enrolled(c, n, r)
         \/ \E c \in 1..Len(challenges), n \in Nat : \E r : LoggedIn(c, n, r)
<1>1. ~Still /\ \A p : ~Rotated(p) BY DEF Still, Rotated, NoRow
<1>2. \A r : ~NewChallengeIs(r) BY DEF NewChallengeIs
<1>3. QED BY <1>1, <1>2 DEF Form, Asked, Begun, SteppedUp, Recovered, Replaced, Readmitted

LEMMA ChallengeForms ==
  ASSUME Form, Len(challenges) \in Nat, Len(challenges') # Len(challenges)
  PROVE  \/ \E r : Asked(r)
         \/ \E c \in 1..Len(challenges) : \E r : Begun(c, r)
         \/ \E c \in 1..Len(challenges), n \in Nat : \E r : SteppedUp(c, n, r)
         \/ \E c \in 1..Len(challenges), code \in codes : \E r : Recovered(c, code, r)
         \/ \E c \in 1..Len(challenges) : \E r : Replaced(c, r)
<1>1. ~Still /\ \A p : ~Rotated(p) BY DEF Still, Rotated, NoRow
<1>2. \A r : ~NewSessionIs(r) BY DEF NewSessionIs
<1>3. QED BY <1>1, <1>2 DEF Form, Opened, Enrolled, LoggedIn
-----------------------------------------------------------------------------
(* The epoch.                                                              *)

LEMMA EpochAtRest ==
  ASSUME security' = security, changes' \in {changes, changes + 1},
         changes' # changes => changes < ChangeBound
  PROVE  EpochMoves
BY DEF EpochMoves

LEMMA NextEpochIs ==
  ASSUME Inv
  PROVE  /\ NextEpoch.epoch = security.epoch + 1
         /\ [NextEpoch EXCEPT !.enrol = FALSE].epoch = security.epoch + 1
<1> DEFINE e == security.epoch + 1
<1>1. security \in [epoch : Nat, enrol : BOOLEAN] /\ e \in Nat BY Versions DEF Inv, Person
<1>2. NextEpoch = [security EXCEPT !.epoch = e] BY DEF NextEpoch
<1> HIDE DEF e
<1>3. NextEpoch.epoch = e /\ NextEpoch \in [epoch : Nat, enrol : BOOLEAN] BY <1>1, <1>2
<1>4. [NextEpoch EXCEPT !.enrol = FALSE].epoch = e BY <1>3
<1>5. QED BY <1>3, <1>4 DEF e

\* A session that loads has not been revoked, and ends with all the others.
LEMMA EpochEnds ==
  ASSUME Inv, NEW s \in DOMAIN sessions, Loads(s), sessions' = AllRevoked,
         security' = NextEpoch, changes' = changes
  PROVE  EpochMoves
<1>1. s \in 1..Len(sessions) /\ ~sessions[s].revoked BY TableParts DEF Inv, Loads
<1>2. Len(sessions') = Len(sessions) /\ \A k \in 1..Len(sessions) : sessions'[k].revoked BY AllEnded
<1>3. QED BY <1>1, <1>2, NextEpochIs DEF EpochMoves

LEMMA ThreadMovesEpoch ==
  ASSUME Inv, Inv', changes \in Nat, NEW t \in Threads, ThreadStep(t)
  PROVE  EpochMoves
<1>1. ASSUME NEW old, NEW rehash \in BOOLEAN, LoginCommits(t, old, rehash) PROVE EpochMoves
      <2>1. /\ security' = IF rehash THEN NextEpoch ELSE security
            /\ changes' = changes + (IF rehash THEN 1 ELSE 0)
            /\ rehash => changes < ChangeBound
            BY <1>1 DEF LoginCommits, MayChange
      <2>2. CASE rehash BY <2>1, <2>2, NextEpochIs DEF EpochMoves
      <2>3. CASE ~rehash BY <2>1, <2>3, EpochAtRest
      <2>4. QED BY <2>2, <2>3
<1>2. ASSUME NEW p, ChangeCommits(t, p) PROVE EpochMoves
      <2>1. /\ hand[t].session \in DOMAIN sessions /\ Loads(hand[t].session)
            /\ sessions' = AllRevoked /\ security' = NextEpoch /\ changes' = changes
            BY <1>2, ThreadFacts DEF ChangeCommits, Knows
      <2>2. QED BY <2>1, EpochEnds
<1>3. ASSUME NEW n \in TimeSteps, CompletesEnrollment(t, n) PROVE EpochMoves
      <2> DEFINE r == Factored(Session(challenges[hand[t].challenge].account, security.epoch + 1,
                                       challenges[hand[t].challenge].pwd),
                               challenges[hand[t].challenge].factor, hand[t].challenge, n)
      <2>1. /\ sessions' = Append(AllRevoked, r) /\ changes' = changes
            /\ security' = [NextEpoch EXCEPT !.enrol = FALSE]
            BY <1>3 DEF CompletesEnrollment, Factored
      <2> HIDE DEF r
      <2>2. AllRevoked \in Seq(SessionRows) /\ Len(AllRevoked) = Len(sessions)
            BY RevokedTable DEF Inv, AllRevoked, SessionsAged
      <2>3. Len(sessions') = Len(sessions) + 1 BY <2>1, <2>2
      <2>4. QED BY <2>1, <2>3, NextEpochIs DEF EpochMoves
<1>4. ASSUME NEW code \in codes, Recovers(t, code) PROVE EpochMoves
      <2> DEFINE c == hand[t].challenge
                 r == Readmission(c, security.epoch + 1, <<"code", code.set, code.n>>, "code")
      <2>1. /\ challenges' = Append(Spent(c), r) /\ changes' = changes
            /\ security' = [NextEpoch EXCEPT !.enrol = FALSE]
            BY <1>4 DEF Recovers, Readmission
      <2>2. c \in DOMAIN challenges BY <1>4, ComparesFacts DEF Recovers
      <2> HIDE DEF r, c
      <2>3. Spent(c) \in Seq(ChallengeRows) /\ Len(Spent(c)) = Len(challenges)
            BY <2>2, SpentTable, TableParts DEF Inv, ChallengesAged
      <2>4. Len(challenges') = Len(challenges) + 1 BY <2>1, <2>3
      <2>5. QED BY <2>1, <2>4, NextEpochIs DEF EpochMoves
<1>5. CASE UNCHANGED <<security, changes>> BY <1>5, EpochAtRest
<1>6. AttemptCounts(t) \/ CodeIsWrong(t) \/ StepUpMints(t) => UNCHANGED <<security, changes>>
      BY DEF AttemptCounts, CodeIsWrong, StepUpMints, rows
<1>7. \A n \in TimeSteps : CompletesLogin(t, n) \/ CompletesStepUp(t, n) =>
        UNCHANGED <<security, changes>>
      BY DEF CompletesLogin, CompletesStepUp
<1>8. UNCHANGED <<rows, changes>> => UNCHANGED <<security, changes>> BY DEF rows
<1>9. QED BY <1>1, <1>2, <1>3, <1>4, <1>5, <1>6, <1>7, <1>8, QuietForm DEF ThreadStep

LEMMA EpochStep ==
  ASSUME Inv, Inv', changes \in Nat, [Next]_vars
  PROVE  EpochMoves
<1>1. ASSUME NEW s \in DOMAIN sessions, SessionCommand(s) PROVE EpochMoves
      <2>1. CASE RevokeAll(s) BY <2>1, EpochEnds DEF RevokeAll
      <2>2. ASSUME NEW p \in DOMAIN challenges, ReplaceFactor(s, p) PROVE EpochMoves
            <3> DEFINE Q == Consumed(challenges, {p})
                       r == [Challenge("enroll_start", challenges[p].account, security.epoch + 1,
                                       NewChallenge, challenges[p].pwd) EXCEPT
                               !.from = p, !.root = "proof"]
            <3>1. /\ challenges' = Append(Q, r) /\ UNCHANGED local /\ changes' = changes
                  /\ security' = [NextEpoch EXCEPT !.enrol = FALSE]
                  BY <2>2 DEF ReplaceFactor
            <3> HIDE DEF r
            <3>2. Q \in Seq(ChallengeRows) /\ Len(Q) = Len(challenges)
                  BY ConsumedTable DEF Inv, ChallengesAged
            <3>3. Len(challenges') = Len(challenges) + 1 BY <3>1, <3>2
            <3>4. QED BY <3>1, <3>3, NextEpochIs DEF EpochMoves
      <2>3. CASE Logout(s) \/ (\E target \in DOMAIN sessions : Revoke(s, target))
                 \/ (\E p \in DOMAIN challenges : RotateRecovery(s, p)) \/ SessionExpires(s)
            <3>1. security' = security
                  BY <2>3 DEF Logout, Revoke, RotateRecovery, SessionExpires, rows
            <3>2. changes' \in {changes, changes + 1} /\ (changes' # changes => changes < ChangeBound)
                  BY <2>3 DEF Logout, Revoke, RotateRecovery, SessionExpires, Operates, MayChange
            <3>3. QED BY <3>1, <3>2, EpochAtRest
      <2>4. QED BY <1>1, <2>1, <2>2, <2>3 DEF SessionCommand
<1>2. ASSUME NEW c \in DOMAIN challenges, BeginEnrollment(c) \/ ChallengeExpires(c)
      PROVE  EpochMoves
      <2>1. security' = security BY <1>2 DEF BeginEnrollment, ChallengeExpires, rows
      <2>2. changes' \in {changes, changes + 1} /\ (changes' # changes => changes < ChangeBound)
            BY <1>2 DEF BeginEnrollment, ChallengeExpires, Operates, MayChange
      <2>3. QED BY <2>1, <2>2, EpochAtRest
<1>3. CASE SetPassword \/ RevokePassword
      BY <1>3, NextEpochIs DEF SetPassword, RevokePassword, EpochMoves, Operates, MayChange
<1>4. CASE \/ \E a \in Accounts : AccountCommand(a)
           \/ \E status \in {"active", "suspended"} : SetStatus(status)
      BY <1>4, EpochAtRest DEF AccountCommand, AccountChange, MembershipChange, PlanExpires,
                               SetStatus, Operates, MayChange
<1>5. CASE UNCHANGED vars BY <1>5, EpochAtRest DEF vars
<1>6. QED BY <1>1, <1>2, <1>3, <1>4, <1>5, ThreadMovesEpoch DEF Next

\* A step that ends sessions without a new row, or that raises the epoch, has its
\* share in the bound of EpochType: every rise is of a change, of a new row, or of a
\* moment when the last sessions that were open have ended.
SomeOpen == \E s \in 1..Len(sessions) : ~sessions[s].revoked
EpochBound ==
  /\ changes \in 0..ChangeBound
  /\ 1 <= security.epoch
  /\ security.epoch <= 1 + Len(challenges) + changes + 2 * Len(sessions)
  /\ SomeOpen => security.epoch <= Len(challenges) + changes + 2 * Len(sessions)
  /\ \A s \in 1..Len(sessions) : 1 <= sessions[s].epoch

LEMMA Sums ==
  ASSUME NEW k, NEW l, NEW m, NEW n, NEW x, NEW y, k \in Nat, m \in Nat, x \in Nat,
         n = m \/ n = m + 1, l = k \/ l = k + 1, y = x \/ y = x + 1
  PROVE  /\ k + x + 2 * m \in Nat /\ l + y + 2 * n \in Nat
         /\ k + x + 2 * m <= l + y + 2 * n
         /\ n = m + 1 => k + x + 2 * m + 2 <= l + y + 2 * n
         /\ y = x + 1 \/ l = k + 1 => k + x + 2 * m + 1 <= l + y + 2 * n
OBVIOUS

LEMMA EpochBoundStep ==
  ASSUME Inv, Inv', Kept, Form, EpochMoves, EpochBound
  PROVE  EpochBound'
<1>1. /\ Len(sessions) \in Nat /\ Len(challenges) \in Nat
      /\ Len(sessions') \in Nat /\ Len(challenges') \in Nat
      /\ security.epoch \in Nat /\ changes \in Nat /\ ChangeBound \in Nat
      BY TableParts, LenProperties, Versions, SessionsAssumption DEF Inv, Tables, EpochBound
<1>2. changes' \in 0..ChangeBound BY <1>1 DEF EpochMoves, EpochBound
<1>3. 1 <= security'.epoch BY <1>1 DEF EpochMoves, EpochBound
<1>4. Len(sessions') = Len(sessions) => (SomeOpen' => SomeOpen)
      <2> SUFFICES ASSUME Len(sessions') = Len(sessions),
                          NEW s \in 1..Len(sessions), ~sessions'[s].revoked
                   PROVE  SomeOpen
          BY DEF SomeOpen
      <2>1. SessionAged(sessions'[s], sessions[s]) BY DEF Kept, Age
      <2>2. QED BY <2>1 DEF SessionAged, SomeOpen
<1>5. /\ Len(sessions') = Len(sessions) \/ Len(sessions') = Len(sessions) + 1
      /\ Len(challenges') = Len(challenges) \/ Len(challenges') = Len(challenges) + 1
      /\ changes' = changes \/ changes' = changes + 1
      BY DEF Kept, EpochMoves
<1>6. \/ security'.epoch = security.epoch
      \/ /\ security'.epoch = security.epoch + 1
         /\ \/ changes' = changes + 1
            \/ Len(sessions') = Len(sessions) + 1
            \/ Len(challenges') = Len(challenges) + 1
            \/ SomeOpen /\ ~SomeOpen' /\ Len(sessions') = Len(sessions)
      BY DEF EpochMoves, SomeOpen
<1>7. SomeOpen => security.epoch <= Len(challenges) + changes + 2 * Len(sessions)
      BY DEF EpochBound
<1>13. /\ security.epoch <= 1 + Len(challenges) + changes + 2 * Len(sessions)
       /\ security'.epoch = security.epoch \/ security'.epoch = security.epoch + 1
       BY DEF EpochBound, EpochMoves
<1> DEFINE before == Len(challenges) + changes + 2 * Len(sessions)
           after == Len(challenges') + changes' + 2 * Len(sessions')
<1>8. /\ before \in Nat /\ after \in Nat /\ security'.epoch \in Nat /\ before <= after
      /\ Len(sessions') = Len(sessions) + 1 => before + 2 <= after
      /\ changes' = changes + 1 \/ Len(challenges') = Len(challenges) + 1 => before + 1 <= after
      /\ security.epoch <= 1 + before
      <2>1. /\ before \in Nat /\ after \in Nat /\ before <= after
            /\ Len(sessions') = Len(sessions) + 1 => before + 2 <= after
            /\ changes' = changes + 1 \/ Len(challenges') = Len(challenges) + 1 => before + 1 <= after
            BY <1>1, <1>5, Sums
      <2>2. security.epoch <= 1 + before
            <3>1. 1 + Len(challenges) + changes + 2 * Len(sessions) = 1 + before BY <1>1
            <3>2. QED BY <1>13, <3>1
      <2>3. security'.epoch \in Nat BY <1>1, <1>13
      <2>4. QED BY <2>1, <2>2, <2>3
<1> HIDE DEF before, after
<1>10. security'.epoch <= 1 + after
       <2>1. CASE SomeOpen /\ security'.epoch = security.epoch + 1
             <3>1. security.epoch <= before BY <1>7, <2>1 DEF before
             <3>2. QED BY <1>1, <1>8, <2>1, <3>1
       <2>2. CASE security'.epoch = security.epoch BY <1>1, <1>8, <2>2
       <2>3. CASE security'.epoch = security.epoch + 1 /\ before + 1 <= after BY <1>1, <1>8, <2>3
       <2>4. before + 2 <= after => before + 1 <= after BY <1>8
       <2>5. QED BY <1>6, <1>8, <2>1, <2>2, <2>3, <2>4
<1>11. ASSUME SomeOpen' PROVE security'.epoch <= after
       <2>1. CASE Len(sessions') = Len(sessions) + 1 BY <1>1, <1>6, <1>8, <2>1
       <2>2. CASE Len(sessions') = Len(sessions)
             <3>1. security.epoch <= before BY <1>4, <1>7, <1>11, <2>2 DEF before
             <3>2. CASE security'.epoch = security.epoch BY <1>1, <1>8, <3>1, <3>2
             <3>3. CASE security'.epoch = security.epoch + 1 /\ before + 1 <= after
                   BY <1>1, <1>8, <3>1, <3>3
             <3>4. Len(sessions') # Len(sessions) + 1 BY <1>1, <2>2
             <3>5. QED BY <1>6, <1>8, <1>11, <3>2, <3>3, <3>4
       <2>3. QED BY <1>5, <2>1, <2>2
<1>9. ASSUME NEW s \in 1..Len(sessions') PROVE 1 <= sessions'[s].epoch
      <2>1. CASE s \in 1..Len(sessions)
            <3>1. SessionAged(sessions'[s], sessions[s]) BY <2>1 DEF Kept, Age
            <3>2. QED BY <2>1, <3>1 DEF SessionAged, EpochBound
      <2>2. CASE s \notin 1..Len(sessions)
            <3>1. s = Len(sessions) + 1 /\ Len(sessions') = Len(sessions) + 1 BY <1>1, <1>5, <2>2
            <3>2. PICK r : /\ NewSessionIs(r)
                           /\ r.epoch = security'.epoch
                  <4>1. \A r : Opened(r) => NewSessionIs(r) /\ r.epoch = security'.epoch BY DEF Opened
                  <4>2. \A c, n, r : Enrolled(c, n, r) => NewSessionIs(r) /\ r.epoch = security'.epoch
                        BY DEF Enrolled
                  <4>3. \A c, n, r : LoggedIn(c, n, r) => NewSessionIs(r) /\ r.epoch = security'.epoch
                        BY DEF LoggedIn
                  <4>4. Len(sessions') # Len(sessions) BY <1>1, <3>1
                  <4>5. QED BY <1>1, <4>1, <4>2, <4>3, <4>4, SessionForms
            <3>3. sessions'[s] = r BY <3>1, <3>2 DEF NewSessionIs
            <3>4. QED BY <1>3, <3>2, <3>3
      <2>3. QED BY <2>1, <2>2
<1>12. QED BY <1>2, <1>3, <1>9, <1>10, <1>11 DEF EpochBound, after
-----------------------------------------------------------------------------
(* The factors, and where a row comes from.                                *)

LEMMA SpentFactors ==
  ASSUME Inv, NEW f, NEW n \in Nat, factors' = StepSpent(f, n)
  PROVE  /\ Len(factors') = Len(factors)
         /\ \A i \in 1..Len(factors) :
              /\ factors'[i].id = factors[i].id
              /\ factors'[i].step = IF factors[i].id = f THEN n ELSE factors[i].step
<1>1. /\ Len(factors) \in Nat /\ DOMAIN factors = 1..Len(factors)
      /\ \A i \in 1..Len(factors) : factors[i] \in FactorRows
      BY TableParts DEF Inv
<1>2. factors' = [i \in 1..Len(factors) |->
                    IF factors[i].id = f THEN [factors[i] EXCEPT !.step = n] ELSE factors[i]]
      BY <1>1 DEF StepSpent
<1>3. Len(factors') = Len(factors)
      <2>1. factors' \in Seq(FactorRows) BY StepSpentTable DEF Inv
      <2>2. DOMAIN factors' = 1..Len(factors) BY <1>2
      <2>3. QED BY <1>1, <2>1, <2>2, LenProperties
<1>4. ASSUME NEW i \in 1..Len(factors)
      PROVE  /\ factors'[i].id = factors[i].id
             /\ factors'[i].step = IF factors[i].id = f THEN n ELSE factors[i].step
      <2>1. CASE factors[i].id = f
            <3>1. factors'[i] = [factors[i] EXCEPT !.step = n] BY <1>2, <2>1
            <3>2. factors[i] \in FactorRows BY <1>1
            <3>3. QED BY <2>1, <3>1, <3>2 DEF FactorRows
      <2>2. CASE factors[i].id # f BY <1>2, <2>2
      <2>3. QED BY <2>1, <2>2
<1>5. QED BY <1>3, <1>4

LEMMA RevokedFactors ==
  ASSUME Inv, factors' = FactorsRevoked
  PROVE  /\ Len(factors') = Len(factors)
         /\ \A i \in 1..Len(factors) :
              factors'[i].id = factors[i].id /\ factors'[i].step = factors[i].step
<1>1. /\ Len(factors) \in Nat /\ DOMAIN factors = 1..Len(factors)
      /\ \A i \in 1..Len(factors) : factors[i] \in FactorRows
      BY TableParts DEF Inv
<1>2. factors' = [i \in 1..Len(factors) |-> [factors[i] EXCEPT !.revoked = TRUE]]
      BY <1>1 DEF FactorsRevoked
<1>3. factors' \in Seq(FactorRows) /\ DOMAIN factors' = 1..Len(factors)
      BY <1>2, FactorsRevokedTable DEF Inv
<1>4. Len(factors') = Len(factors) BY <1>1, <1>3, LenProperties
<1>5. ASSUME NEW i \in 1..Len(factors)
      PROVE  factors'[i].id = factors[i].id /\ factors'[i].step = factors[i].step
      <2>1. factors'[i] = [factors[i] EXCEPT !.revoked = TRUE] /\ factors[i] \in FactorRows
            BY <1>1, <1>2
      <2>2. QED BY <2>1 DEF FactorRows
<1>6. QED BY <1>4, <1>5

\* A factor more, of a challenge to enrol.
LEMMA AddedFactor ==
  ASSUME Inv, NEW c, NEW n, NEW r, Enrolled(c, n, r), n \in Nat
  PROVE  /\ Len(factors') = Len(factors) + 1
         /\ \A i \in 1..Len(factors) : factors'[i] = factors[i]
         /\ factors'[Len(factors) + 1].id = challenges[c].factor
         /\ factors'[Len(factors) + 1].step = n
<1> DEFINE f == [id |-> challenges[c].factor, step |-> n, revoked |-> FALSE]
<1>1. challenges[c] \in ChallengeRows BY TableParts DEF Enrolled, Spends, Inv
<1>2. f \in FactorRows /\ f.id = challenges[c].factor /\ f.step = n
      BY <1>1 DEF FactorRows, ChallengeRows
<1>3. factors' = Append(factors, f) /\ factors \in Seq(FactorRows) BY DEF Enrolled, Inv, Tables
<1> HIDE DEF f
<1>4. QED BY <1>2, <1>3, AppendProperties

\* What becomes of the factors, whatever the form of the step.
LEMMA FactorForms ==
  ASSUME Inv, Form
  PROVE  \/ UNCHANGED factors
         \/ factors' = FactorsRevoked
         \/ \E f, n \in Nat : factors' = StepSpent(f, n)
         \/ \E c \in 1..Len(challenges), n \in Nat : \E r : Enrolled(c, n, r)
<1>1. \A c, n, r : LoggedIn(c, n, r) \/ SteppedUp(c, n, r) =>
        factors' = StepSpent(challenges[c].factor, n)
      BY DEF LoggedIn, SteppedUp
<1>2. \A c, r : Begun(c, r) \/ Opened(r) \/ Asked(r) \/ Rotated(c) \/ Still => UNCHANGED factors
      BY DEF Begun, Opened, Asked, Rotated, Still
<1>3. \A c, code, r : Recovered(c, code, r) \/ Replaced(c, r) => factors' = FactorsRevoked
      BY DEF Recovered, Replaced, Readmitted
<1>4. \A c \in 1..Len(challenges) : challenges[c].factor \in Nat
      BY TableParts DEF Inv, ChallengeRows
<1>5. QED BY <1>1, <1>2, <1>3, <1>4 DEF Form

LEMMA FactorsKept ==
  ASSUME Inv, Form
  PROVE  /\ Len(factors) <= Len(factors')
         /\ \A i \in 1..Len(factors) : factors'[i].id = factors[i].id
         /\ Len(factors') # Len(factors) =>
              \E c \in 1..Len(challenges), n \in Nat : \E r : Enrolled(c, n, r)
<1>1. Len(factors) \in Nat BY TableParts DEF Inv
<1>2. CASE UNCHANGED factors BY <1>1, <1>2
<1>3. CASE factors' = FactorsRevoked BY <1>1, <1>3, RevokedFactors
<1>4. CASE \E f, n \in Nat : factors' = StepSpent(f, n) BY <1>1, <1>4, SpentFactors
<1>5. CASE \E c \in 1..Len(challenges), n \in Nat : \E r : Enrolled(c, n, r)
      BY <1>1, <1>5, AddedFactor
<1>6. QED BY <1>2, <1>3, <1>4, <1>5, FactorForms

\* The challenge c, of the row r.
OriginOf(r, c) ==
  /\ r.from \in 0..(c - 1)
  /\ r.factor <= c
  /\ r.purpose = "enroll_start" => r.factor = c
  /\ r.purpose = "enroll" => r.from # 0 /\ r.factor = r.from
  /\ r.purpose \in {"step_up", "proof"} => r.session # 0
  /\ r.session # 0 => r.purpose \in {"step_up", "proof"}

Origins ==
  /\ \A s \in 1..Len(sessions) : sessions[s].from \in 0..Len(challenges)
  /\ \A c \in 1..Len(challenges) : OriginOf(challenges[c], c)
  /\ \A i \in 1..Len(factors) : factors[i].id <= Len(challenges)

LEMMA OriginOfNew ==
  ASSUME Inv, Inv', Form, Origins, Len(challenges') # Len(challenges)
  PROVE  /\ Len(challenges') = Len(challenges) + 1
         /\ OriginOf(challenges'[Len(challenges) + 1], Len(challenges) + 1)
<1> DEFINE k == Len(challenges)
<1>1. k \in Nat /\ \A c \in 1..k : challenges[c] \in ChallengeRows BY TableParts DEF Inv
<1>2. \A c \in 1..k : OriginOf(challenges[c], c) BY DEF Origins
<1>3. \A i \in 1..Len(factors) : factors[i].id <= k /\ factors[i].id \in Nat
      BY TableParts DEF Origins, Inv, FactorRows
<1> SUFFICES ASSUME NEW r, NewChallengeIs(r),
                    \/ Asked(r)
                    \/ \E c \in 1..k : Begun(c, r)
                    \/ \E c \in 1..k, n \in Nat : SteppedUp(c, n, r)
                    \/ \E c \in 1..k : Readmitted(c, r)
             PROVE  OriginOf(r, k + 1)
    <2>1. \A c, n, code, r : Asked(r) \/ Begun(c, r) \/ SteppedUp(c, n, r) \/ Recovered(c, code, r)
                             \/ Replaced(c, r) => NewChallengeIs(r)
          BY DEF Asked, Begun, SteppedUp, Recovered, Replaced, Readmitted
    <2>2. \A c, code, r : Recovered(c, code, r) \/ Replaced(c, r) => Readmitted(c, r)
          BY DEF Recovered, Replaced
    <2>3. \A r : NewChallengeIs(r) => Len(challenges') = k + 1 /\ challenges'[k + 1] = r
          BY DEF NewChallengeIs
    <2> HIDE DEF k
    <2>4. QED BY <1>1, <2>1, <2>2, <2>3, ChallengeForms DEF k
<1> HIDE DEF k
<1>4. CASE Asked(r)
      <2>1. CASE \E i \in 1..Len(factors) : r.factor = factors[i].id
            BY <1>1, <1>3, <1>4, <2>1 DEF Asked, OriginOf, k
      <2>2. CASE r.factor = k + 1 BY <1>1, <1>4, <2>2 DEF Asked, OriginOf
      <2>3. QED BY <1>4, <2>1, <2>2 DEF Asked, k
<1>5. CASE \E c \in 1..k : Begun(c, r)
      <2>1. PICK c \in 1..k : Begun(c, r) BY <1>5
      <2>2. challenges[c].factor = c /\ r.from = c /\ r.factor = c /\ r.purpose = "enroll" /\ r.session = 0
            BY <1>2, <2>1 DEF Begun, OriginOf
      <2>3. QED BY <1>1, <2>2 DEF OriginOf
<1>6. CASE \E c \in 1..k, n \in Nat : SteppedUp(c, n, r)
      <2>1. PICK c \in 1..k, n \in Nat : SteppedUp(c, n, r) BY <1>6
      <2>2. /\ challenges[c].factor <= c /\ challenges[c].factor \in Nat /\ challenges[c].session # 0
            /\ r.from = c /\ r.factor = challenges[c].factor /\ r.purpose = "proof"
            /\ r.session = challenges[c].session
            BY <1>1, <1>2, <2>1 DEF SteppedUp, OriginOf, ChallengeRows
      <2>3. QED BY <1>1, <2>2 DEF OriginOf
<1>7. CASE \E c \in 1..k : Readmitted(c, r)
      BY <1>1, <1>7 DEF Readmitted, OriginOf, k
<1>8. QED BY <1>4, <1>5, <1>6, <1>7

LEMMA OriginsStep ==
  ASSUME Inv, Inv', Kept, Form, Origins
  PROVE  Origins'
<1>1. /\ Len(sessions) \in Nat /\ Len(challenges) \in Nat /\ Len(factors) \in Nat
      /\ Len(sessions') \in Nat /\ Len(challenges') \in Nat /\ Len(challenges) <= Len(challenges')
      /\ Len(factors') \in Nat
      BY TableParts, LenProperties DEF Inv, Tables, Kept, Age
<1>2. ASSUME NEW s \in 1..Len(sessions') PROVE sessions'[s].from \in 0..Len(challenges')
      <2>1. CASE s \in 1..Len(sessions)
            <3>1. SessionAged(sessions'[s], sessions[s]) BY <2>1 DEF Kept, Age
            <3>2. QED BY <1>1, <2>1, <3>1 DEF SessionAged, Origins
      <2>2. CASE s \notin 1..Len(sessions)
            <3>1. s = Len(sessions) + 1 /\ Len(sessions') = Len(sessions) + 1 BY <1>1, <2>2 DEF Kept
            <3>2. PICK r : NewSessionIs(r) /\ r.from \in 0..Len(challenges)
                  <4>1. \A r : Opened(r) => NewSessionIs(r) /\ r.from = 0 BY DEF Opened
                  <4>2. \A c, n, r : Enrolled(c, n, r) \/ LoggedIn(c, n, r) =>
                          NewSessionIs(r) /\ r.from = c
                        BY DEF Enrolled, LoggedIn, Inherits
                  <4>3. Len(sessions') # Len(sessions) BY <1>1, <3>1
                  <4>4. \A c \in 1..Len(challenges) : c \in 0..Len(challenges) BY <1>1
                  <4>5. 0 \in 0..Len(challenges) BY <1>1
                  <4>6. QED BY <1>1, <4>1, <4>2, <4>3, <4>4, <4>5, SessionForms
            <3>3. sessions'[s] = r BY <3>1, <3>2 DEF NewSessionIs
            <3>4. QED BY <1>1, <3>2, <3>3
      <2>3. QED BY <2>1, <2>2
<1>3. ASSUME NEW c \in 1..Len(challenges') PROVE OriginOf(challenges'[c], c)
      <2>1. CASE c \in 1..Len(challenges)
            <3>1. ChallengeAged(challenges'[c], challenges[c]) BY <2>1 DEF Kept, Age
            <3>2. QED BY <2>1, <3>1 DEF ChallengeAged, Origins, OriginOf
      <2>2. CASE c \notin 1..Len(challenges)
            <3>1. Len(challenges') # Len(challenges) BY <1>1, <2>2
            <3>2. c = Len(challenges) + 1 BY <1>1, <2>2 DEF Kept
            <3>3. QED BY <3>1, <3>2, OriginOfNew
      <2>3. QED BY <2>1, <2>2
<1>4. ASSUME NEW i \in 1..Len(factors') PROVE factors'[i].id <= Len(challenges')
      <2>1. CASE i \in 1..Len(factors)
            <3>1. factors'[i].id = factors[i].id /\ factors[i].id \in Nat
                  BY <2>1, FactorsKept, TableParts DEF Inv, FactorRows
            <3>2. factors[i].id <= Len(challenges) BY <2>1 DEF Origins
            <3>3. QED BY <1>1, <3>1, <3>2
      <2>2. CASE i \notin 1..Len(factors)
            <3>1. PICK c, n, r : c \in 1..Len(challenges) /\ n \in Nat /\ Enrolled(c, n, r)
                  BY <1>1, <2>2, FactorsKept
            <3>2. Len(factors') = Len(factors) + 1 /\ factors'[Len(factors) + 1].id = challenges[c].factor
                  BY <3>1, AddedFactor
            <3>3. i = Len(factors) + 1 BY <1>1, <2>2, <3>2
            <3>4. challenges[c].factor <= c /\ challenges[c].factor \in Nat
                  BY <3>1, TableParts DEF Origins, OriginOf, Inv, ChallengeRows
            <3>5. QED BY <3>1, <1>1, <3>2, <3>3, <3>4
      <2>3. QED BY <2>1, <2>2
<1>5. QED BY <1>2, <1>3, <1>4 DEF Origins
-----------------------------------------------------------------------------
(* The lock, and the attempts.                                             *)

Held == \A t \in Threads : lock = t => pc[t] = "admitted"

\* The threads that have counted an attempt of c and have not compared a code yet.
Comparing(c) == {t \in Threads : pc[t] = "comparing" /\ hand[t].challenge = c}

\* Every comparison, made or to be made, has been counted.
CountedOf(c) ==
  /\ IsFiniteSet(Comparing(c))
  /\ challenges[c].tried + Cardinality(Comparing(c)) <= challenges[c].attempts
  /\ challenges[c].attempts <= MaxAttempts
Counted == \A c \in 1..Len(challenges) : CountedOf(c)

\* Nobody else moves than the thread t.
OnlyMoves(t) == \A u \in Threads \ {t} : pc'[u] = pc[u] /\ hand'[u] = hand[u]

LEMMA GoesMoves ==
  ASSUME Inv, NEW t \in Threads, NEW at, NEW what, Goes(t, at, what)
  PROVE  OnlyMoves(t) /\ pc'[t] = at /\ hand'[t] = what
<1>1. pc \in [Threads -> Places] /\ hand \in [Threads -> Hands] BY DEF Inv, Requests
<1>2. QED BY <1>1 DEF Goes, OnlyMoves

LEMMA EndsMoves ==
  ASSUME Inv, NEW t \in Threads, Ends(t)
  PROVE  OnlyMoves(t) /\ pc'[t] = "idle"
BY GoesMoves DEF Ends

\* A command moves no thread; a step of a thread moves that thread alone.
LEMMA WhoMoves ==
  ASSUME Inv, [Next]_vars
  PROVE  UNCHANGED local \/ \E t \in Threads : ThreadStep(t) /\ OnlyMoves(t)
<1>1. ASSUME NEW t \in Threads, ThreadStep(t) PROVE OnlyMoves(t)
      <2>1. \E at, what : Goes(t, at, what)
            BY <1>1 DEF ThreadStep, LoginReads, LoginLocks, LoginCommits, ChangeReads, ChangeCommits,
               AttemptChecks, AttemptCounts, CodeIsWrong, CompletesEnrollment, CompletesLogin,
               CompletesStepUp, Recovers, StepUpReads, StepUpMints, Abandon, Ends
      <2>2. QED BY <2>1, GoesMoves
<1>2. ASSUME NEW s \in DOMAIN sessions, SessionCommand(s) PROVE UNCHANGED local
      BY <1>2 DEF SessionCommand, Logout, Revoke, RevokeAll, RotateRecovery, ReplaceFactor, SessionExpires
<1>3. ASSUME NEW a \in Accounts, AccountCommand(a) PROVE UNCHANGED local
      BY <1>3 DEF AccountCommand, AccountChange, MembershipChange, PlanExpires
<1>4. ASSUME NEW c \in DOMAIN challenges, BeginEnrollment(c) \/ ChallengeExpires(c)
      PROVE  UNCHANGED local
      BY <1>4 DEF BeginEnrollment, ChallengeExpires
<1>5. SetPassword \/ RevokePassword \/ (\E status \in {"active", "suspended"} : SetStatus(status))
        => UNCHANGED local
      BY DEF SetPassword, RevokePassword, SetStatus
<1>6. UNCHANGED vars => UNCHANGED local BY DEF vars, local
<1>7. QED BY <1>1, <1>2, <1>3, <1>4, <1>5, <1>6 DEF Next

LEMMA HeldStep ==
  ASSUME Inv, [Next]_vars, Held
  PROVE  Held'
<1>1. CASE UNCHANGED local BY <1>1 DEF local, Held
<1>2. ASSUME NEW t \in Threads, ThreadStep(t), OnlyMoves(t) PROVE Held'
      <2>1. CASE lock' = None BY <2>1, SessionsAssumption DEF Held
      <2>2. CASE \E a \in Accounts : LoginLocks(t, a)
            <3>1. PICK a \in Accounts : LoginLocks(t, a) BY <2>2
            <3>2. lock' = t /\ pc'[t] = "admitted" BY <3>1, GoesMoves DEF LoginLocks
            <3>3. QED BY <3>2 DEF Held
      <2>3. CASE UNCHANGED lock /\ pc[t] # "admitted"
            <3>1. lock # t BY <2>3 DEF Held
            <3>2. ASSUME NEW u \in Threads, lock' = u PROVE pc'[u] = "admitted"
                  <4>1. u # t /\ lock = u BY <2>3, <3>1, <3>2
                  <4>2. QED BY <1>2, <4>1 DEF Held, OnlyMoves
            <3>3. QED BY <3>2 DEF Held
      <2>4. CASE Abandon(t)
            <3>1. lock' = IF lock = t THEN None ELSE lock BY <2>4 DEF Abandon
            <3>2. ASSUME NEW u \in Threads, lock' = u PROVE pc'[u] = "admitted"
                  <4>1. u # t /\ lock = u BY <3>1, <3>2, SessionsAssumption
                  <4>2. QED BY <1>2, <4>1 DEF Held, OnlyMoves
            <3>3. QED BY <3>2 DEF Held
      <2>5. QED BY <1>2, <2>1, <2>2, <2>3, <2>4
            DEF ThreadStep, LoginReads, LoginCommits, ChangeReads, ChangeCommits,
                AttemptChecks, AttemptCounts, CodeIsWrong, CompletesEnrollment, CompletesLogin,
                CompletesStepUp, Recovers, StepUpReads, StepUpMints, Compares
<1>3. QED BY <1>1, <1>2, WhoMoves

\* The attempts of a table Q are those of the challenges.
Recount(Q) ==
  \A c \in 1..Len(challenges) :
    Q[c].attempts = challenges[c].attempts /\ Q[c].tried = challenges[c].tried

LEMMA ConsumedRecount ==
  ASSUME Inv, NEW W
  PROVE  Recount(Consumed(challenges, W))
<1> SUFFICES ASSUME NEW c \in 1..Len(challenges)
             PROVE  /\ Consumed(challenges, W)[c].attempts = challenges[c].attempts
                    /\ Consumed(challenges, W)[c].tried = challenges[c].tried
    BY DEF Recount
<1>1. challenges[c] \in ChallengeRows /\ c \in DOMAIN challenges BY TableParts DEF Inv
<1>2. Consumed(challenges, W)[c] =
        IF c \in W THEN [challenges[c] EXCEPT !.consumed = TRUE] ELSE challenges[c]
      BY <1>1 DEF Consumed
<1>3. [challenges[c] EXCEPT !.consumed = TRUE].attempts = challenges[c].attempts
      /\ [challenges[c] EXCEPT !.consumed = TRUE].tried = challenges[c].tried
      BY <1>1 DEF ChallengeRows
<1>4. QED BY <1>2, <1>3

LEMMA TriedRecount ==
  ASSUME Inv, NEW Q, Q \in Seq(ChallengeRows), Len(Q) = Len(challenges), Recount(Q),
         NEW c \in 1..Len(challenges)
  PROVE  /\ Tried(Q, c)[c].attempts = challenges[c].attempts
         /\ Tried(Q, c)[c].tried = challenges[c].tried + 1
         /\ \A d \in 1..Len(challenges) : d # c =>
              /\ Tried(Q, c)[d].attempts = challenges[d].attempts
              /\ Tried(Q, c)[d].tried = challenges[d].tried
<1>1. DOMAIN Q = 1..Len(challenges) /\ Q[c] \in ChallengeRows
      BY LenProperties, ElementOfSeq, TableParts DEF Inv
<1>2. Tried(Q, c) = [Q EXCEPT ![c] = [Q[c] EXCEPT !.tried = Q[c].tried + 1]] BY DEF Tried
<1>3. Tried(Q, c)[c] = [Q[c] EXCEPT !.tried = Q[c].tried + 1] BY <1>1, <1>2
<1>4. /\ Tried(Q, c)[c].attempts = Q[c].attempts
      /\ Tried(Q, c)[c].tried = Q[c].tried + 1
      BY <1>1, <1>3 DEF ChallengeRows
<1>5. \A d \in 1..Len(challenges) : d # c => Tried(Q, c)[d] = Q[d] BY <1>1, <1>2
<1>6. QED BY <1>4, <1>5 DEF Recount

\* A step that counts nothing, and by which nobody begins to compare.
Uncounted ==
  /\ Recount(challenges')
  /\ \A u \in Threads : pc'[u] = "comparing" => pc[u] = "comparing" /\ hand'[u] = hand[u]

\* The thread t counts an attempt of the challenge c, and goes on to compare.
Counts(t, c) ==
  /\ c \in 1..Len(challenges) /\ OnlyMoves(t)
  /\ pc[t] # "comparing" /\ pc'[t] = "comparing" /\ hand'[t] = hand[t] /\ hand[t].challenge = c
  /\ challenges[c].attempts < MaxAttempts
  /\ challenges'[c].attempts = challenges[c].attempts + 1
  /\ challenges'[c].tried = challenges[c].tried
  /\ \A d \in 1..Len(challenges) : d # c =>
       challenges'[d].attempts = challenges[d].attempts /\ challenges'[d].tried = challenges[d].tried

\* The thread t has compared a code under the challenge c.
Compared(t, c) ==
  /\ c \in 1..Len(challenges) /\ OnlyMoves(t)
  /\ pc[t] = "comparing" /\ hand[t].challenge = c /\ pc'[t] # "comparing"
  /\ challenges'[c].attempts = challenges[c].attempts
  /\ challenges'[c].tried = challenges[c].tried + 1
  /\ \A d \in 1..Len(challenges) : d # c =>
       challenges'[d].attempts = challenges[d].attempts /\ challenges'[d].tried = challenges[d].tried

LEMMA MovesUncounted ==
  ASSUME NEW t \in Threads, OnlyMoves(t), pc'[t] # "comparing", Recount(challenges')
  PROVE  Uncounted
BY DEF OnlyMoves, Uncounted

LEMMA StaysUncounted ==
  ASSUME UNCHANGED local, Recount(challenges')
  PROVE  Uncounted
BY DEF local, Uncounted

LEMMA AppendedRecount ==
  ASSUME Inv, NEW Q, Q \in Seq(ChallengeRows), Len(Q) = Len(challenges), NEW r
  PROVE  \A c \in 1..Len(challenges) : Append(Q, r)[c] = Q[c]
<1>1. Len(challenges) \in Nat BY TableParts DEF Inv
<1>2. QED BY <1>1

LEMMA CountsForm ==
  ASSUME Inv, NEW t \in Threads, AttemptCounts(t)
  PROVE  \E c : Counts(t, c)
<1> DEFINE c == hand[t].challenge
           k == challenges[c].attempts + 1
<1>1. c \in DOMAIN challenges /\ pc[t] = "attempting"
      BY ThreadFacts DEF AttemptCounts, Knows
<1>2. OnlyMoves(t) /\ pc'[t] = "comparing" /\ hand'[t] = hand[t]
      BY GoesMoves DEF AttemptCounts
<1>3. /\ challenges[c].attempts < MaxAttempts
      /\ challenges' = [challenges EXCEPT ![c] = [challenges[c] EXCEPT !.attempts = k]]
      BY DEF AttemptCounts
<1>4. c \in 1..Len(challenges) /\ challenges[c] \in ChallengeRows BY <1>1, TableParts DEF Inv
<1>5. /\ challenges'[c] = [challenges[c] EXCEPT !.attempts = k]
      /\ \A d \in 1..Len(challenges) : d # c => challenges'[d] = challenges[d]
      BY <1>1, <1>3
<1> HIDE DEF k
<1>6. challenges'[c].attempts = k /\ challenges'[c].tried = challenges[c].tried
      BY <1>4, <1>5 DEF ChallengeRows
<1>7. Counts(t, c) BY <1>1, <1>2, <1>3, <1>4, <1>5, <1>6 DEF Counts, k
<1>8. QED BY <1>7

\* A code that is right, or wrong, is one comparison more.
LEMMA ComparedForm ==
  ASSUME Inv, NEW t \in Threads, pc[t] = "comparing", Ends(t),
         LET c == hand[t].challenge IN
           \/ challenges' = Tried(challenges, c)
           \/ challenges' = Spent(c)
           \/ \E r : challenges' = Append(Spent(c), r)
  PROVE  \E c : Compared(t, c)
<1> DEFINE c == hand[t].challenge
<1>1. c \in DOMAIN challenges BY ThreadFacts DEF Knows
<1>2. c \in 1..Len(challenges) BY <1>1, TableParts DEF Inv
<1>3. OnlyMoves(t) /\ pc'[t] = "idle" BY EndsMoves
<1>4. \/ challenges' = Tried(challenges, c)
      \/ challenges' = Spent(c)
      \/ \E r : challenges' = Append(Spent(c), r)
      OBVIOUS
<1> HIDE DEF c
<1>5. PICK Q : /\ Q \in Seq(ChallengeRows) /\ Len(Q) = Len(challenges) /\ Recount(Q)
               /\ challenges' = Tried(Q, c) \/ \E r : challenges' = Append(Tried(Q, c), r)
      <2>1. CASE challenges' = Tried(challenges, c)
            BY <2>1 DEF Recount, Inv, Tables
      <2>2. CASE challenges' = Spent(c) \/ \E r : challenges' = Append(Spent(c), r)
            <3>1. /\ Consumed(challenges, {c}) \in Seq(ChallengeRows)
                  /\ Len(Consumed(challenges, {c})) = Len(challenges)
                  BY ConsumedTable DEF Inv, ChallengesAged
            <3>2. QED BY <2>2, <3>1, ConsumedRecount DEF Spent
      <2>3. QED BY <1>4, <2>1, <2>2
<1>6. /\ Tried(Q, c)[c].attempts = challenges[c].attempts
      /\ Tried(Q, c)[c].tried = challenges[c].tried + 1
      /\ \A d \in 1..Len(challenges) : d # c =>
           /\ Tried(Q, c)[d].attempts = challenges[d].attempts
           /\ Tried(Q, c)[d].tried = challenges[d].tried
      BY <1>2, <1>5, TriedRecount
<1>7. \A d \in 1..Len(challenges) : challenges'[d] = Tried(Q, c)[d]
      <2>1. CASE challenges' = Tried(Q, c) BY <2>1
      <2>2. CASE \E r : challenges' = Append(Tried(Q, c), r)
            <3>1. Tried(Q, c) \in Seq(ChallengeRows) /\ Len(Tried(Q, c)) = Len(challenges)
                  <4> DEFINE k == Q[c].tried + 1
                             q == [Q[c] EXCEPT !.tried = k]
                  <4>1. Q[c] \in ChallengeRows /\ DOMAIN Q = 1..Len(challenges)
                        BY <1>2, <1>5, ElementOfSeq, LenProperties
                  <4>2. k \in Nat BY <4>1 DEF ChallengeRows
                  <4> HIDE DEF k
                  <4>3. q \in ChallengeRows BY <4>1, <4>2 DEF ChallengeRows
                  <4>4. Tried(Q, c) = [Q EXCEPT ![c] = q] BY DEF Tried, k
                  <4> HIDE DEF q
                  <4>5. Q \in [1..Len(challenges) -> ChallengeRows] BY <1>5, <4>1, LenProperties
                  <4>6. [Q EXCEPT ![c] = q] \in [1..Len(challenges) -> ChallengeRows] BY <4>3, <4>5
                  <4>7. Len(challenges) \in Nat BY TableParts DEF Inv
                  <4>8. QED BY <4>4, <4>6, <4>7, FunctionIsSeq
            <3>2. QED BY <2>2, <3>1, AppendedRecount
      <2>3. QED BY <1>5, <2>1, <2>2
<1>8. Compared(t, c) BY <1>2, <1>3, <1>6, <1>7 DEF Compared, c
<1>9. QED BY <1>8

LEMMA ThreadCounts ==
  ASSUME Inv, NEW t \in Threads, ThreadStep(t), OnlyMoves(t)
  PROVE  Uncounted \/ \E c : Counts(t, c) \/ Compared(t, c)
<1>1. Recount(challenges) BY DEF Recount
<1>2. \A r : Recount(Append(challenges, r)) BY AppendedRecount DEF Recount, Inv, Tables
<1>3. CASE \/ LoginReads(t)
           \/ \E a \in Accounts : LoginLocks(t, a)
           \/ \E s \in DOMAIN sessions : ChangeReads(t, s)
           \/ \E c \in DOMAIN challenges, op \in DOMAIN CodePurposes : AttemptChecks(t, c, op)
           \/ \E s \in DOMAIN sessions, action \in StepUpActions : StepUpReads(t, s, action)
           \/ Abandon(t)
      <2>1. challenges' = challenges BY <1>3, QuietForm
      <2>2. pc'[t] # "comparing"
            <3>1. LoginReads(t) => pc'[t] = "verified" BY GoesMoves DEF LoginReads
            <3>2. \A a : LoginLocks(t, a) => pc'[t] = "admitted" BY GoesMoves DEF LoginLocks
            <3>3. \A s : ChangeReads(t, s) => pc'[t] = "changing" BY GoesMoves DEF ChangeReads
            <3>4. \A c, op : AttemptChecks(t, c, op) => pc'[t] = "attempting"
                  BY GoesMoves DEF AttemptChecks
            <3>5. \A s, action : StepUpReads(t, s, action) => pc'[t] = "stepping"
                  BY GoesMoves DEF StepUpReads
            <3>6. Abandon(t) => pc'[t] = "idle" BY EndsMoves DEF Abandon
            <3>7. QED BY <1>3, <3>1, <3>2, <3>3, <3>4, <3>5, <3>6
      <2>3. QED BY <1>1, <2>1, <2>2, MovesUncounted
<1>4. ASSUME NEW old, NEW rehash, LoginCommits(t, old, rehash) PROVE Uncounted
      <2>1. challenges' = challenges \/ \E r : challenges' = Append(challenges, r)
            BY <1>4 DEF LoginCommits
      <2>2. pc'[t] # "comparing" BY <1>4, EndsMoves DEF LoginCommits
      <2>3. QED BY <1>1, <1>2, <2>1, <2>2, MovesUncounted
<1>5. ASSUME NEW p, ChangeCommits(t, p) PROVE Uncounted
      <2>1. challenges' = Consumed(challenges, {p}) /\ pc'[t] # "comparing"
            BY <1>5, EndsMoves DEF ChangeCommits
      <2>2. QED BY <2>1, ConsumedRecount, MovesUncounted
<1>6. ASSUME StepUpMints(t) PROVE Uncounted
      <2>1. \E r : challenges' = Append(challenges, r) BY <1>6 DEF StepUpMints
      <2>2. pc'[t] # "comparing" BY <1>6, EndsMoves DEF StepUpMints
      <2>3. QED BY <1>2, <2>1, <2>2, MovesUncounted
<1>7. CASE AttemptCounts(t) BY <1>7, CountsForm
<1>8. CASE CodeIsWrong(t) BY <1>8, ComparedForm DEF CodeIsWrong
<1>9. ASSUME NEW n, CompletesEnrollment(t, n) \/ CompletesLogin(t, n) PROVE \E c : Compared(t, c)
      BY <1>9, ComparedForm DEF CompletesEnrollment, CompletesLogin, Compares
<1>10. ASSUME NEW n, CompletesStepUp(t, n) PROVE \E c : Compared(t, c)
       BY <1>10, ComparedForm DEF CompletesStepUp, Compares
<1>11. ASSUME NEW code, Recovers(t, code) PROVE \E c : Compared(t, c)
       BY <1>11, ComparedForm DEF Recovers, Compares
<1>12. QED BY <1>3, <1>4, <1>5, <1>6, <1>7, <1>8, <1>9, <1>10, <1>11 DEF ThreadStep

LEMMA CommandCounts ==
  ASSUME Inv, [Next]_vars, UNCHANGED local, \A t \in Threads : ~ThreadStep(t)
  PROVE  Uncounted
<1>1. Recount(challenges) BY DEF Recount
<1>2. \A Q, r : Q \in Seq(ChallengeRows) /\ Len(Q) = Len(challenges) /\ Recount(Q)
                  => Recount(Append(Q, r))
      BY AppendedRecount DEF Recount
<1>3. \A W : /\ Recount(Consumed(challenges, W)) /\ Consumed(challenges, W) \in Seq(ChallengeRows)
             /\ Len(Consumed(challenges, W)) = Len(challenges)
      BY ConsumedRecount, ConsumedTable DEF Inv, ChallengesAged
<1>4. ASSUME NEW c \in DOMAIN challenges, challenges' = [challenges EXCEPT ![c].expired = TRUE]
      PROVE  Recount(challenges')
      <2>1. challenges[c] \in ChallengeRows BY TableParts DEF Inv
      <2>2. challenges' = [challenges EXCEPT ![c] = [challenges[c] EXCEPT !.expired = TRUE]]
            BY <1>4
      <2>3. challenges'[c] = [challenges[c] EXCEPT !.expired = TRUE] BY <2>2
      <2>4. challenges'[c].attempts = challenges[c].attempts /\ challenges'[c].tried = challenges[c].tried
            BY <2>1, <2>3 DEF ChallengeRows
      <2>5. \A d \in 1..Len(challenges) : d # c => challenges'[d] = challenges[d]
            BY <2>2, TableParts DEF Inv
      <2>6. QED BY <2>4, <2>5 DEF Recount
<1>5. \/ challenges' = challenges
      \/ \E W : challenges' = Consumed(challenges, W)
      \/ \E W, r : challenges' = Append(Consumed(challenges, W), r)
      \/ \E c \in DOMAIN challenges : challenges' = [challenges EXCEPT ![c].expired = TRUE]
      <2>1. CASE vars' = vars BY <2>1 DEF vars
      <2>2. CASE \E c \in DOMAIN challenges : BeginEnrollment(c) \/ ChallengeExpires(c)
            BY <2>2 DEF BeginEnrollment, ChallengeExpires
      <2>3. CASE \E s \in DOMAIN sessions : SessionCommand(s)
            BY <2>3 DEF SessionCommand, Logout, Revoke, RevokeAll, RotateRecovery, ReplaceFactor,
                        SessionExpires
      <2>4. ASSUME \/ \E a \in Accounts : AccountCommand(a)
                   \/ SetPassword \/ RevokePassword
                   \/ \E status \in {"active", "suspended"} : SetStatus(status)
            PROVE  challenges' = challenges \/ \E W : challenges' = Consumed(challenges, W)
            BY <2>4 DEF AccountCommand, AccountChange, MembershipChange, PlanExpires, Invalidates,
                        SetPassword, RevokePassword, SetStatus
      <2> QED BY <2>1, <2>2, <2>3, <2>4 DEF Next
<1>6. Recount(challenges') BY <1>1, <1>2, <1>3, <1>4, <1>5
<1>7. QED BY <1>6, StaysUncounted

LEMMA CountForms ==
  ASSUME Inv, [Next]_vars
  PROVE  Uncounted \/ \E t \in Threads : \E c : Counts(t, c) \/ Compared(t, c)
<1>1. CASE \E t \in Threads : ThreadStep(t) /\ OnlyMoves(t) BY <1>1, ThreadCounts
<1>2. CASE UNCHANGED local /\ \A t \in Threads : ~ThreadStep(t) BY <1>2, CommandCounts
<1>3. ASSUME UNCHANGED local, NEW t \in Threads, ThreadStep(t) PROVE OnlyMoves(t)
      BY <1>3 DEF local, OnlyMoves
<1>4. QED BY <1>1, <1>2, <1>3, WhoMoves

\* The same of what a step has made of the threads and of the challenges.
ComparingNow(c) == {t \in Threads : pc'[t] = "comparing" /\ hand'[t].challenge = c}
CountedNow(c) ==
  /\ IsFiniteSet(ComparingNow(c))
  /\ challenges'[c].tried + Cardinality(ComparingNow(c)) <= challenges'[c].attempts
  /\ challenges'[c].attempts <= MaxAttempts

LEMMA CountsOfRow ==
  ASSUME Inv, NEW c \in 1..Len(challenges), CountedOf(c)
  PROVE  /\ challenges[c].tried \in Nat /\ challenges[c].attempts \in Nat
         /\ Cardinality(Comparing(c)) \in Nat /\ MaxAttempts \in Nat
<1>1. challenges[c] \in ChallengeRows BY TableParts DEF Inv
<1>2. Cardinality(Comparing(c)) \in Nat BY FS_CardinalityType DEF CountedOf
<1>3. MaxAttempts \in Nat BY SessionsAssumption
<1>4. QED BY <1>1, <1>2, <1>3 DEF ChallengeRows

LEMMA NobodyMore ==
  ASSUME Inv, NEW c \in 1..Len(challenges), CountedOf(c), ComparingNow(c) \subseteq Comparing(c),
         challenges'[c].attempts = challenges[c].attempts, challenges'[c].tried = challenges[c].tried
  PROVE  CountedNow(c)
<1>1. /\ IsFiniteSet(ComparingNow(c))
      /\ Cardinality(ComparingNow(c)) <= Cardinality(Comparing(c))
      /\ Cardinality(ComparingNow(c)) \in Nat
      BY FS_Subset, FS_CardinalityType DEF CountedOf
<1>2. challenges[c].tried + Cardinality(ComparingNow(c)) <= challenges[c].attempts
      BY <1>1, CountsOfRow DEF CountedOf
<1>3. QED BY <1>1, <1>2 DEF CountedOf, CountedNow

LEMMA OneMoreCompares ==
  ASSUME Inv, NEW c \in 1..Len(challenges), CountedOf(c), NEW t \in Threads, Counts(t, c)
  PROVE  CountedNow(c)
<1>1. t \notin Comparing(c) /\ ComparingNow(c) \subseteq Comparing(c) \cup {t}
      BY DEF Comparing, ComparingNow, Counts, OnlyMoves
<1>2. /\ IsFiniteSet(Comparing(c) \cup {t})
      /\ Cardinality(Comparing(c) \cup {t}) = Cardinality(Comparing(c)) + 1
      BY <1>1, FS_AddElement DEF CountedOf
<1>3. /\ IsFiniteSet(ComparingNow(c))
      /\ Cardinality(ComparingNow(c)) <= Cardinality(Comparing(c)) + 1
      /\ Cardinality(ComparingNow(c)) \in Nat
      BY <1>1, <1>2, FS_Subset, FS_CardinalityType
<1>4. /\ challenges[c].attempts < MaxAttempts
      /\ challenges'[c].attempts = challenges[c].attempts + 1
      /\ challenges'[c].tried = challenges[c].tried
      BY DEF Counts
<1>5. /\ challenges[c].tried + Cardinality(ComparingNow(c)) <= challenges[c].attempts + 1
      /\ challenges[c].attempts + 1 <= MaxAttempts
      BY <1>3, <1>4, CountsOfRow DEF CountedOf
<1>6. QED BY <1>3, <1>4, <1>5 DEF CountedNow

LEMMA OneLessCompares ==
  ASSUME Inv, NEW c \in 1..Len(challenges), CountedOf(c), NEW t \in Threads, Compared(t, c)
  PROVE  CountedNow(c)
<1>1. t \in Comparing(c) /\ ComparingNow(c) \subseteq Comparing(c) \ {t}
      BY DEF Comparing, ComparingNow, Compared, OnlyMoves
<1>2. /\ IsFiniteSet(Comparing(c) \ {t})
      /\ Cardinality(Comparing(c) \ {t}) = Cardinality(Comparing(c)) - 1
      BY <1>1, FS_RemoveElement DEF CountedOf
<1>3. /\ IsFiniteSet(ComparingNow(c))
      /\ Cardinality(ComparingNow(c)) <= Cardinality(Comparing(c)) - 1
      /\ Cardinality(ComparingNow(c)) \in Nat
      BY <1>1, <1>2, FS_Subset, FS_CardinalityType
<1>4. /\ challenges'[c].attempts = challenges[c].attempts
      /\ challenges'[c].tried = challenges[c].tried + 1
      BY DEF Compared
<1>5. challenges[c].tried + 1 + Cardinality(ComparingNow(c)) <= challenges[c].attempts
      BY <1>3, CountsOfRow DEF CountedOf
<1>6. QED BY <1>3, <1>4, <1>5 DEF CountedOf, CountedNow

LEMMA CountedStep ==
  ASSUME Inv, Inv', [Next]_vars, Kept, Form, Counted
  PROVE  Counted'
<1>1. /\ Len(challenges) \in Nat /\ Len(challenges') \in Nat /\ MaxAttempts \in Nat
      /\ DOMAIN challenges = 1..Len(challenges)
      BY TableParts, LenProperties, SessionsAssumption DEF Inv, Tables
<1>2. Uncounted \/ \E t \in Threads : \E c : Counts(t, c) \/ Compared(t, c) BY CountForms
<1>3. ASSUME NEW c \in 1..Len(challenges) PROVE CountedNow(c)
      <2>1. CountedOf(c) BY DEF Counted
      <2>2. CASE Uncounted
            <3>1. ComparingNow(c) \subseteq Comparing(c) BY <2>2 DEF Uncounted, Comparing, ComparingNow
            <3>2. QED BY <2>1, <2>2, <3>1, NobodyMore DEF Uncounted, Recount
      <2>3. ASSUME NEW t \in Threads, NEW d, Counts(t, d) PROVE CountedNow(c)
            <3>1. CASE d = c BY <2>1, <2>3, <3>1, OneMoreCompares
            <3>2. CASE d # c
                  <4>1. ComparingNow(c) \subseteq Comparing(c)
                        BY <2>3, <3>2 DEF Counts, OnlyMoves, Comparing, ComparingNow
                  <4>2. QED BY <2>1, <2>3, <3>2, <4>1, NobodyMore DEF Counts
            <3>3. QED BY <3>1, <3>2
      <2>4. ASSUME NEW t \in Threads, NEW d, Compared(t, d) PROVE CountedNow(c)
            <3>1. CASE d = c BY <2>1, <2>4, <3>1, OneLessCompares
            <3>2. CASE d # c
                  <4>1. ComparingNow(c) \subseteq Comparing(c)
                        BY <2>4, <3>2 DEF Compared, OnlyMoves, Comparing, ComparingNow
                  <4>2. QED BY <2>1, <2>4, <3>2, <4>1, NobodyMore DEF Compared
            <3>3. QED BY <3>1, <3>2
      <2>5. QED BY <1>2, <2>2, <2>3, <2>4
<1>4. ASSUME NEW c \in 1..Len(challenges'), c \notin 1..Len(challenges) PROVE CountedNow(c)
      <2>1. c = Len(challenges) + 1 /\ Len(challenges') # Len(challenges) BY <1>1, <1>4 DEF Kept
      <2>2. challenges'[c].attempts = 0 /\ challenges'[c].tried = 0
            <3>1. \E r : NewChallengeIs(r)
                  BY <1>1, <2>1, ChallengeForms
                  DEF Asked, Begun, SteppedUp, Recovered, Replaced, Readmitted
            <3>2. QED BY <2>1, <3>1 DEF NewChallengeIs
      <2>3. \A u \in Threads : pc[u] = "comparing" => hand[u].challenge \in 1..Len(challenges)
            BY <1>1, ThreadFacts DEF Knows
      <2>4. \A u \in Threads : pc'[u] = "comparing" => hand'[u].challenge \in 1..Len(challenges)
            BY <1>2, <2>3 DEF Uncounted, Counts, Compared, OnlyMoves
      <2>5. ComparingNow(c) = {} BY <1>4, <2>4 DEF ComparingNow
      <2>6. QED BY <1>1, <2>2, <2>5, FS_EmptySet DEF CountedNow
<1>5. \A c \in 1..Len(challenges') : CountedNow(c) BY <1>3, <1>4
<1>6. QED BY <1>5 DEF Counted, CountedOf, CountedNow, Comparing, ComparingNow
-----------------------------------------------------------------------------
(* The new row of a step, and the challenge it was obtained with.          *)

NewForm(r) ==
  \/ Opened(r) \/ Asked(r)
  \/ \E c \in 1..Len(challenges) : Begun(c, r) \/ Replaced(c, r)
  \/ \E c \in 1..Len(challenges), n \in Nat : Enrolled(c, n, r) \/ LoggedIn(c, n, r) \/ SteppedUp(c, n, r)
  \/ \E c \in 1..Len(challenges), code \in codes : Recovered(c, code, r)

LEMMA NewFormIs ==
  ASSUME NEW r, NewForm(r)
  PROVE  NewSessionIs(r) \/ NewChallengeIs(r)
BY DEF NewForm, Opened, Asked, Begun, Replaced, Enrolled, LoggedIn, SteppedUp, Recovered, Readmitted

\* A row that is there keeps the evidence it was obtained with.
LEMMA IssuedKept ==
  ASSUME Inv, Inv', Kept, NEW x \in Issued
  PROVE  x \in Issued' /\ RowOf(x)'.from = RowOf(x).from /\ RowOf(x)'.by = RowOf(x).by
<1>1. /\ DOMAIN sessions = 1..Len(sessions) /\ DOMAIN challenges = 1..Len(challenges)
      /\ DOMAIN sessions' = 1..Len(sessions') /\ DOMAIN challenges' = 1..Len(challenges')
      /\ Len(sessions) \in Nat /\ Len(challenges) \in Nat
      /\ Len(sessions') \in Nat /\ Len(challenges') \in Nat
      /\ Len(sessions) <= Len(sessions') /\ Len(challenges) <= Len(challenges')
      BY TableParts, LenProperties DEF Inv, Tables, Kept, Age
<1>2. CASE \E s \in 1..Len(sessions) : x = <<"session", s>>
      <2>1. PICK s \in 1..Len(sessions) : x = <<"session", s>> BY <1>2
      <2>2. SessionAged(sessions'[s], sessions[s]) BY DEF Kept, Age
      <2>3. RowOf(x) = sessions[s] /\ RowOf(x)' = sessions'[s] BY <2>1 DEF RowOf
      <2>4. s \in DOMAIN sessions' BY <1>1
      <2>5. QED BY <2>1, <2>2, <2>3, <2>4 DEF Issued, SessionAged
<1>3. CASE \E c \in 1..Len(challenges) : x = <<"challenge", c>>
      <2>1. PICK c \in 1..Len(challenges) : x = <<"challenge", c>> BY <1>3
      <2>2. ChallengeAged(challenges'[c], challenges[c]) BY DEF Kept, Age
      <2>3. RowOf(x) = challenges[c] /\ RowOf(x)' = challenges'[c] BY <2>1 DEF RowOf
      <2>4. c \in DOMAIN challenges' BY <1>1
      <2>5. QED BY <2>1, <2>2, <2>3, <2>4 DEF Issued, ChallengeAged
<1>4. QED BY <1>1, <1>2, <1>3 DEF Issued

LEMMA IssuedNew ==
  ASSUME Inv, Inv', Form
  PROVE  \/ Issued' = Issued
         \/ \E z, r : Issued' = Issued \cup {z} /\ RowOf(z)' = r /\ NewForm(r)
<1>1. /\ DOMAIN sessions = 1..Len(sessions) /\ DOMAIN challenges = 1..Len(challenges)
      /\ DOMAIN sessions' = 1..Len(sessions') /\ DOMAIN challenges' = 1..Len(challenges')
      /\ Len(sessions) \in Nat /\ Len(challenges) \in Nat
      BY TableParts, LenProperties DEF Inv, Tables
<1>2. CASE NoRow BY <1>1, <1>2 DEF NoRow, Issued
<1>3. ASSUME NEW r, NewForm(r)
      PROVE  \E z : Issued' = Issued \cup {z} /\ RowOf(z)' = r
      <2>1. CASE NewSessionIs(r)
            <3> PICK k : k = Len(sessions) + 1 OBVIOUS
            <3> DEFINE z == <<"session", k>>
            <3>1. DOMAIN sessions' = DOMAIN sessions \cup {Len(sessions) + 1}
                  /\ DOMAIN challenges' = DOMAIN challenges
                  BY <1>1, <2>1 DEF NewSessionIs
            <3>2. Issued' = Issued \cup {z} BY <3>1 DEF Issued
            <3>3. RowOf(z)' = r BY <2>1 DEF NewSessionIs, RowOf
            <3>4. QED BY <3>2, <3>3
      <2>2. CASE NewChallengeIs(r)
            <3> PICK k : k = Len(challenges) + 1 OBVIOUS
            <3> DEFINE z == <<"challenge", k>>
            <3>1. DOMAIN challenges' = DOMAIN challenges \cup {Len(challenges) + 1}
                  /\ DOMAIN sessions' = DOMAIN sessions
                  BY <1>1, <2>2 DEF NewChallengeIs
            <3>2. Issued' = Issued \cup {z} BY <3>1 DEF Issued
            <3>3. RowOf(z)' = r BY <2>2 DEF NewChallengeIs, RowOf
            <3>4. QED BY <3>2, <3>3
      <2>3. QED BY <1>3, <2>1, <2>2, NewFormIs
<1>4. NoRow \/ \E r : NewForm(r) BY DEF Form, NewForm, Still, Rotated
<1>5. QED BY <1>2, <1>3, <1>4

IsSpent(c) == c \in 1..Len(challenges) /\ challenges[c].consumed
IsSpentNow(c) == c \in 1..Len(challenges') /\ challenges'[c].consumed

\* What a row was exchanged for has been consumed, and for that row only.
Exchanged ==
  /\ \A x \in Issued : RowOf(x).from # 0 => IsSpent(RowOf(x).from)
  /\ ChallengeIsExchangedOnce

LEMMA StaysSpent ==
  ASSUME Inv, Inv', Kept, NEW c, IsSpent(c) \/ Spends(c)
  PROVE  IsSpentNow(c)
<1>1. /\ Len(challenges) \in Nat /\ Len(challenges') \in Nat /\ Len(challenges) <= Len(challenges')
      /\ c \in 1..Len(challenges)
      BY TableParts, LenProperties DEF Inv, Tables, Kept, Age, IsSpent, Spends
<1>2. ChallengeAged(challenges'[c], challenges[c]) BY <1>1 DEF Kept, Age
<1>3. QED BY <1>1, <1>2 DEF ChallengeAged, IsSpent, Spends, IsSpentNow

LEMMA NewIsObtained ==
  ASSUME NEW r, NewForm(r)
  PROVE  r.from = 0 \/ Spends(r.from)
BY DEF NewForm, Opened, Asked, Begun, Replaced, Enrolled, LoggedIn, SteppedUp, Recovered,
       Readmitted, Inherits

LEMMA ExchangedStep ==
  ASSUME Inv, Inv', Kept, Form, Exchanged
  PROVE  Exchanged'
<1>1. ASSUME NEW x \in Issued
      PROVE  /\ RowOf(x)'.from = RowOf(x).from
             /\ RowOf(x).from # 0 => IsSpent(RowOf(x).from) /\ IsSpentNow(RowOf(x)'.from)
      <2>1. RowOf(x)'.from = RowOf(x).from BY IssuedKept
      <2>2. RowOf(x).from # 0 => IsSpent(RowOf(x).from) BY DEF Exchanged
      <2>3. IsSpent(RowOf(x).from) => IsSpentNow(RowOf(x).from) BY StaysSpent
      <2>4. QED BY <2>1, <2>2, <2>3
<1>2. \A x, y \in Issued : x # y /\ RowOf(x)'.from = RowOf(y)'.from => RowOf(x)'.from = 0
      BY <1>1 DEF Exchanged, ChallengeIsExchangedOnce
<1>3. CASE Issued' = Issued
      BY <1>1, <1>2, <1>3 DEF Exchanged, ChallengeIsExchangedOnce, IsSpent, IsSpentNow
<1>4. ASSUME NEW z, NEW r, Issued' = Issued \cup {z}, RowOf(z)' = r, NewForm(r)
      PROVE  Exchanged'
      <2>1. r.from # 0 => ~IsSpent(r.from) /\ IsSpentNow(r.from)
            <3>1. r.from = 0 \/ Spends(r.from) BY <1>4, NewIsObtained
            <3>2. Spends(r.from) => ~IsSpent(r.from) BY DEF Spends, Usable, IsSpent
            <3>3. Spends(r.from) => IsSpentNow(r.from) BY StaysSpent
            <3>4. QED BY <3>1, <3>2, <3>3
      <2>2. \A x \in Issued' : RowOf(x)'.from # 0 => IsSpentNow(RowOf(x)'.from)
            BY <1>1, <1>4, <2>1
      <2>3. \A x \in Issued : RowOf(x)'.from = r.from => r.from = 0 BY <1>1, <2>1
      <2>4. \A x, y \in Issued' : x # y /\ RowOf(x)'.from = RowOf(y)'.from => RowOf(x)'.from = 0
            BY <1>2, <1>4, <2>3
      <2>5. QED BY <2>2, <2>4 DEF Exchanged, ChallengeIsExchangedOnce, IsSpent, IsSpentNow
<1>5. QED BY <1>3, <1>4, IssuedNew
-----------------------------------------------------------------------------
(* The time steps and the recovery codes.                                  *)

TotpSpent(f, n) ==
  /\ n \in Nat
  /\ \E i \in 1..Len(factors) : factors[i].id = f
  /\ \A i \in 1..Len(factors) : factors[i].id = f => n <= factors[i].step
CodeSpent(k, n) ==
  /\ k = 0 \/ IsSpent(k)
  /\ \A code \in codes : ~(code.set = k /\ code.n = n)
SecretSpent(b) ==
  \/ b = <<>>
  \/ b[1] = "totp" /\ TotpSpent(b[2], b[3])
  \/ b[1] = "code" /\ CodeSpent(b[2], b[3])

\* The factor was enrolled with a challenge of its own.
IsEnrolled(f) ==
  \E c \in 1..Len(challenges) :
    challenges[c].purpose = "enroll" /\ challenges[c].consumed /\ challenges[c].factor = f

CodesMinted ==
  /\ \A code \in codes : code.set = 0 \/ IsSpent(code.set)
  /\ \A x, y \in codes : x.set = y.set /\ x.n = y.n => x = y

Secret ==
  /\ \A x \in Issued : SecretSpent(RowOf(x).by)
  /\ \A i \in 1..Len(factors) : factors[i].id # 0 => IsEnrolled(factors[i].id)
  /\ CodesMinted
  /\ SecretIsAcceptedOnce

TotpSpentNow(f, n) ==
  /\ n \in Nat
  /\ \E i \in 1..Len(factors') : factors'[i].id = f
  /\ \A i \in 1..Len(factors') : factors'[i].id = f => n <= factors'[i].step
CodeSpentNow(k, n) ==
  /\ k = 0 \/ IsSpentNow(k)
  /\ \A code \in codes' : ~(code.set = k /\ code.n = n)
SecretSpentNow(b) ==
  \/ b = <<>>
  \/ b[1] = "totp" /\ TotpSpentNow(b[2], b[3])
  \/ b[1] = "code" /\ CodeSpentNow(b[2], b[3])
IsEnrolledNow(f) ==
  \E c \in 1..Len(challenges') :
    challenges'[c].purpose = "enroll" /\ challenges'[c].consumed /\ challenges'[c].factor = f

LEMMA FactorTypes ==
  ASSUME Inv
  PROVE  /\ Len(factors) \in Nat
         /\ \A i \in 1..Len(factors) : factors[i].id \in Nat /\ factors[i].step \in Nat
BY TableParts DEF Inv, FactorRows

\* A challenge that is usable to enrol is of a factor nobody has had.
LEMMA FactorIsFresh ==
  ASSUME Inv, Origins, Exchanged, Secret, NEW c, Spends(c), challenges[c].purpose = "enroll"
  PROVE  \A i \in 1..Len(factors) : factors[i].id # challenges[c].factor
<1> SUFFICES ASSUME NEW i \in 1..Len(factors), factors[i].id = challenges[c].factor PROVE FALSE
    OBVIOUS
<1>1. c \in 1..Len(challenges) /\ ~challenges[c].consumed BY DEF Spends, Usable
<1>2. challenges[c].from # 0 /\ challenges[c].factor = challenges[c].from
      BY <1>1 DEF Origins, OriginOf
<1>3. PICK d \in 1..Len(challenges) :
        challenges[d].purpose = "enroll" /\ challenges[d].consumed
        /\ challenges[d].factor = challenges[c].factor
      BY <1>2 DEF Secret, IsEnrolled
<1>4. challenges[d].from = challenges[c].from BY <1>2, <1>3 DEF Origins, OriginOf
<1>5. <<"challenge", c>> \in Issued /\ <<"challenge", d>> \in Issued
      BY <1>1, TableParts DEF Inv, Issued
<1>6. RowOf(<<"challenge", c>>) = challenges[c] /\ RowOf(<<"challenge", d>>) = challenges[d]
      BY DEF RowOf
<1>7. <<"challenge", c>> # <<"challenge", d>> BY <1>1, <1>3
<1>8. QED BY <1>2, <1>4, <1>5, <1>6, <1>7 DEF Exchanged, ChallengeIsExchangedOnce

\* A time step that is spent stays so: the step of a factor only rises.
LEMMA TotpStaysSpent ==
  ASSUME Inv, Form, Origins, Exchanged, Secret, NEW f, NEW n, TotpSpent(f, n)
  PROVE  TotpSpentNow(f, n)
<1>1. n \in Nat /\ (\E i \in 1..Len(factors) : factors[i].id = f)
      /\ \A i \in 1..Len(factors) : factors[i].id = f => n <= factors[i].step
      BY DEF TotpSpent
<1>2. CASE UNCHANGED factors BY <1>1, <1>2 DEF TotpSpentNow
<1>3. CASE factors' = FactorsRevoked BY <1>1, <1>3, RevokedFactors DEF TotpSpentNow
<1>4. ASSUME NEW c \in 1..Len(challenges), NEW m \in Nat, Newer(c, m),
             factors' = StepSpent(challenges[c].factor, m)
      PROVE  TotpSpentNow(f, n)
      <2>1. /\ Len(factors') = Len(factors)
            /\ \A i \in 1..Len(factors) :
                 /\ factors'[i].id = factors[i].id
                 /\ factors'[i].step = IF factors[i].id = challenges[c].factor THEN m ELSE factors[i].step
            BY <1>4, SpentFactors
      <2>2. f = challenges[c].factor => n <= m
            <3> SUFFICES ASSUME f = challenges[c].factor PROVE n <= m OBVIOUS
            <3>1. PICK i \in 1..Len(factors) : factors[i].id = f /\ m > factors[i].step
                  BY <1>4 DEF Newer
            <3>2. n <= factors[i].step /\ factors[i].step \in Nat BY <1>1, <3>1, FactorTypes
            <3>3. QED BY <1>1, <3>1, <3>2
      <2>3. ASSUME NEW i \in 1..Len(factors), factors[i].id = f PROVE n <= factors'[i].step
            BY <1>1, <2>1, <2>2, <2>3
      <2>4. QED BY <1>1, <2>1, <2>3 DEF TotpSpentNow
<1>5. ASSUME NEW c \in 1..Len(challenges), NEW m \in Nat, NEW r, Enrolled(c, m, r)
      PROVE  TotpSpentNow(f, n)
      <2>1. f # challenges[c].factor BY <1>1, <1>5, FactorIsFresh DEF Enrolled
      <2>2. /\ Len(factors') = Len(factors) + 1 /\ Len(factors) \in Nat
            /\ \A i \in 1..Len(factors) : factors'[i] = factors[i]
            /\ factors'[Len(factors) + 1].id = challenges[c].factor
            BY <1>5, AddedFactor, FactorTypes
      <2>3. ASSUME NEW i \in 1..Len(factors'), factors'[i].id = f PROVE n <= factors'[i].step
            <3>1. i \in 1..Len(factors) BY <2>1, <2>2, <2>3
            <3>2. QED BY <1>1, <2>2, <2>3, <3>1
      <2>4. QED BY <1>1, <2>2, <2>3 DEF TotpSpentNow
<1>6. \/ UNCHANGED factors
      \/ factors' = FactorsRevoked
      \/ \E c \in 1..Len(challenges), m \in Nat :
           Newer(c, m) /\ factors' = StepSpent(challenges[c].factor, m)
      \/ \E c \in 1..Len(challenges), m \in Nat : \E r : Enrolled(c, m, r)
      BY DEF Form, LoggedIn, SteppedUp, Begun, Opened, Asked, Rotated, Still, Recovered, Replaced,
             Readmitted
<1>7. QED BY <1>2, <1>3, <1>4, <1>5, <1>6

\* What becomes of the recovery codes: one is used, all are, or a challenge that
\* has not been consumed yet brings a new set.
LEMMA CodeForms ==
  ASSUME Form
  PROVE  \/ codes' \subseteq codes
         \/ \E c : Spends(c) /\ codes' = CodeSet(challenges[c].factor, c)
BY DEF Form, Enrolled, LoggedIn, SteppedUp, Begun, Opened, Asked, Rotated, Still, Recovered, Replaced,
       Readmitted

LEMMA CodeStaysSpent ==
  ASSUME Inv, Inv', Kept, Form, NEW k, NEW n, CodeSpent(k, n)
  PROVE  CodeSpentNow(k, n)
<1>1. k = 0 \/ IsSpentNow(k) BY StaysSpent DEF CodeSpent
<1>2. CASE codes' \subseteq codes BY <1>1, <1>2 DEF CodeSpent, CodeSpentNow
<1>3. ASSUME NEW c, Spends(c), codes' = CodeSet(challenges[c].factor, c)
      PROVE  CodeSpentNow(k, n)
      <2>1. c # k
            <3>1. c # 0 /\ ~IsSpent(c) BY <1>3 DEF Spends, Usable, IsSpent
            <3>2. QED BY <3>1 DEF CodeSpent
      <2>2. \A code \in codes' : code.set = c BY <1>3 DEF CodeSet
      <2>3. QED BY <1>1, <2>1, <2>2 DEF CodeSpentNow
<1>4. QED BY <1>2, <1>3, CodeForms

LEMMA SecretStaysSpent ==
  ASSUME Inv, Inv', Kept, Form, Origins, Exchanged, Secret, NEW b, SecretSpent(b)
  PROVE  SecretSpentNow(b)
BY TotpStaysSpent, CodeStaysSpent DEF SecretSpent, SecretSpentNow

LEMMA CodesMintedStep ==
  ASSUME Inv, Inv', Kept, Form, CodesMinted
  PROVE  CodesMinted'
<1>1. CASE codes' \subseteq codes
      <2>1. \A code \in codes' : code.set = 0 \/ IsSpentNow(code.set)
            BY <1>1, StaysSpent DEF CodesMinted
      <2>2. QED BY <1>1, <2>1 DEF CodesMinted, IsSpent, IsSpentNow
<1>2. ASSUME NEW c, Spends(c), codes' = CodeSet(challenges[c].factor, c)
      PROVE  CodesMinted'
      <2>1. \A code \in codes' : code.set = c BY <1>2 DEF CodeSet
      <2>2. IsSpentNow(c) BY <1>2, StaysSpent
      <2>3. \A x, y \in codes' : x.set = y.set /\ x.n = y.n => x = y BY <1>2 DEF CodeSet
      <2>4. \A code \in codes' : code.set = 0 \/ IsSpentNow(code.set) BY <2>1, <2>2
      <2>5. QED BY <2>3, <2>4 DEF CodesMinted, IsSpent, IsSpentNow
<1>3. QED BY <1>1, <1>2, CodeForms

\* The secret of a new row has not been accepted before, and now it has.
LEMMA NewSecret ==
  ASSUME Inv, Inv', Kept, Origins, Exchanged, Secret, NEW r, NewForm(r)
  PROVE  \/ r.by = <<>>
         \/ ~SecretSpent(r.by) /\ SecretSpentNow(r.by)
<1>1. ASSUME NEW f, NEW n, r.by = <<"totp", f, n>>, ~TotpSpent(f, n), TotpSpentNow(f, n)
      PROVE  ~SecretSpent(r.by) /\ SecretSpentNow(r.by)
      BY <1>1 DEF SecretSpent, SecretSpentNow
<1>2. ASSUME NEW k, NEW n, r.by = <<"code", k, n>>, ~CodeSpent(k, n), CodeSpentNow(k, n)
      PROVE  ~SecretSpent(r.by) /\ SecretSpentNow(r.by)
      BY <1>2 DEF SecretSpent, SecretSpentNow
<1>3. ASSUME NEW c \in 1..Len(challenges), NEW n \in Nat, Enrolled(c, n, r)
      PROVE  ~SecretSpent(r.by) /\ SecretSpentNow(r.by)
      <2> DEFINE f == challenges[c].factor
      <2>1. \A i \in 1..Len(factors) : factors[i].id # f BY <1>3, FactorIsFresh DEF Enrolled
      <2>2. /\ Len(factors') = Len(factors) + 1 /\ Len(factors) \in Nat
            /\ \A i \in 1..Len(factors) : factors'[i] = factors[i]
            /\ factors'[Len(factors) + 1].id = f
            /\ factors'[Len(factors) + 1].step = n
            BY <1>3, AddedFactor, FactorTypes
      <2>3. r.by = <<"totp", f, n>> BY <1>3 DEF Enrolled
      <2> HIDE DEF f
      <2>4. ~TotpSpent(f, n) BY <2>1 DEF TotpSpent
      <2>5. Len(factors) + 1 \in 1..Len(factors') BY <2>2
      <2>6. \A i \in 1..Len(factors') : factors'[i].id = f => i = Len(factors) + 1 BY <2>1, <2>2
      <2>7. TotpSpentNow(f, n) BY <2>2, <2>5, <2>6 DEF TotpSpentNow
      <2>8. QED BY <1>1, <2>3, <2>4, <2>7
<1>4. ASSUME NEW c \in 1..Len(challenges), NEW n \in Nat, LoggedIn(c, n, r) \/ SteppedUp(c, n, r)
      PROVE  ~SecretSpent(r.by) /\ SecretSpentNow(r.by)
      <2> DEFINE f == challenges[c].factor
      <2>1. /\ r.by = <<"totp", f, n>> /\ factors' = StepSpent(f, n)
            /\ \E i \in 1..Len(factors) : factors[i].id = f /\ n > factors[i].step
            BY <1>4 DEF LoggedIn, SteppedUp, Newer
      <2> HIDE DEF f
      <2>2. /\ Len(factors') = Len(factors)
            /\ \A i \in 1..Len(factors) :
                 /\ factors'[i].id = factors[i].id
                 /\ factors'[i].step = IF factors[i].id = f THEN n ELSE factors[i].step
            BY <2>1, SpentFactors
      <2>3. ~TotpSpent(f, n)
            <3>1. PICK i \in 1..Len(factors) : factors[i].id = f /\ n > factors[i].step BY <2>1
            <3>2. factors[i].step \in Nat BY FactorTypes
            <3>3. ~(n <= factors[i].step) BY <3>1, <3>2
            <3>4. QED BY <3>1, <3>3 DEF TotpSpent
      <2>4. TotpSpentNow(f, n) BY <2>1, <2>2 DEF TotpSpentNow
      <2>5. QED BY <1>1, <2>1, <2>3, <2>4
<1>5. ASSUME NEW c \in 1..Len(challenges), NEW code \in codes, Recovered(c, code, r)
      PROVE  ~SecretSpent(r.by) /\ SecretSpentNow(r.by)
      <2>1. r.by = <<"code", code.set, code.n>> /\ codes' = codes \ {code} BY <1>5 DEF Recovered
      <2>2. ~CodeSpent(code.set, code.n) BY DEF CodeSpent
      <2>3. code.set = 0 \/ IsSpentNow(code.set) BY StaysSpent DEF Secret, CodesMinted
      <2>4. CodeSpentNow(code.set, code.n) BY <2>1, <2>3 DEF CodeSpentNow, Secret, CodesMinted
      <2>5. QED BY <1>2, <2>1, <2>2, <2>4
<1>6. Opened(r) \/ Asked(r) \/ (\E c : Begun(c, r) \/ Replaced(c, r)) => r.by = <<>>
      BY DEF Opened, Asked, Begun, Replaced
<1>7. QED BY <1>3, <1>4, <1>5, <1>6 DEF NewForm

LEMMA SecretStep ==
  ASSUME Inv, Inv', Kept, Form, Origins, Exchanged, Secret
  PROVE  Secret'
<1>1. ASSUME NEW x \in Issued
      PROVE  RowOf(x)'.by = RowOf(x).by /\ SecretSpent(RowOf(x).by) /\ SecretSpentNow(RowOf(x)'.by)
      <2>1. RowOf(x)'.by = RowOf(x).by BY IssuedKept
      <2>2. SecretSpent(RowOf(x).by) BY DEF Secret
      <2>3. SecretSpentNow(RowOf(x).by) BY <2>2, SecretStaysSpent
      <2>4. QED BY <2>1, <2>2, <2>3
<1>2. \A x, y \in Issued : x # y /\ RowOf(x)'.by = RowOf(y)'.by => RowOf(x)'.by = <<>>
      BY <1>1 DEF Secret, SecretIsAcceptedOnce
<1>3. /\ \A x \in Issued' : SecretSpentNow(RowOf(x)'.by)
      /\ \A x, y \in Issued' : x # y /\ RowOf(x)'.by = RowOf(y)'.by => RowOf(x)'.by = <<>>
      <2>1. CASE Issued' = Issued BY <1>1, <1>2, <2>1
      <2>2. ASSUME NEW z, NEW r, Issued' = Issued \cup {z}, RowOf(z)' = r, NewForm(r)
            PROVE  /\ \A x \in Issued' : SecretSpentNow(RowOf(x)'.by)
                   /\ \A x, y \in Issued' : x # y /\ RowOf(x)'.by = RowOf(y)'.by => RowOf(x)'.by = <<>>
            <3>1. r.by = <<>> \/ (~SecretSpent(r.by) /\ SecretSpentNow(r.by)) BY <2>2, NewSecret
            <3>2. SecretSpentNow(r.by) BY <3>1 DEF SecretSpentNow
            <3>3. \A x \in Issued : RowOf(x)'.by = r.by => r.by = <<>> BY <1>1, <3>1
            <3>4. QED BY <1>1, <1>2, <2>2, <3>2, <3>3
      <2>3. QED BY <2>1, <2>2, IssuedNew
<1>4. ASSUME NEW i \in 1..Len(factors'), factors'[i].id # 0 PROVE IsEnrolledNow(factors'[i].id)
      <2>1. Len(factors) \in Nat /\ Len(factors') \in Nat BY FactorTypes, LenProperties DEF Inv, Tables
      <2>2. CASE i \in 1..Len(factors)
            <3>1. factors'[i].id = factors[i].id BY <2>2, FactorsKept
            <3>2. PICK c \in 1..Len(challenges) :
                    challenges[c].purpose = "enroll" /\ challenges[c].consumed
                    /\ challenges[c].factor = factors[i].id
                  BY <1>4, <2>2, <3>1 DEF Secret, IsEnrolled
            <3>3. ChallengeAged(challenges'[c], challenges[c]) /\ c \in 1..Len(challenges')
                  BY <3>2, StaysSpent DEF Kept, Age, IsSpent, IsSpentNow
            <3>4. QED BY <3>1, <3>2, <3>3 DEF ChallengeAged, IsEnrolledNow
      <2>3. CASE i \notin 1..Len(factors)
            <3>1. PICK c, n, r : c \in 1..Len(challenges) /\ n \in Nat /\ Enrolled(c, n, r)
                  BY <2>1, <2>3, FactorsKept
            <3>2. Len(factors') = Len(factors) + 1 /\ factors'[Len(factors) + 1].id = challenges[c].factor
                  BY <3>1, AddedFactor
            <3>3. i = Len(factors) + 1 BY <2>1, <2>3, <3>2
            <3>4. Spends(c) /\ challenges[c].purpose = "enroll" BY <3>1 DEF Enrolled
            <3>5. IsSpentNow(c) BY <3>4, StaysSpent
            <3>6. ChallengeAged(challenges'[c], challenges[c]) BY <3>1 DEF Kept, Age
            <3>7. QED BY <3>2, <3>3, <3>4, <3>5, <3>6 DEF ChallengeAged, IsEnrolledNow, IsSpentNow
      <2>4. QED BY <2>2, <2>3
<1>5. CodesMinted' BY CodesMintedStep DEF Secret
<1>6. \A x \in Issued' : SecretSpent(RowOf(x).by)'
      BY <1>3 DEF SecretSpent, SecretSpentNow, TotpSpent, TotpSpentNow, CodeSpent, CodeSpentNow,
                  IsSpent, IsSpentNow
<1>7. QED BY <1>3, <1>4, <1>5, <1>6 DEF Secret, SecretIsAcceptedOnce, IsEnrolled, IsEnrolledNow
-----------------------------------------------------------------------------
(* What a session is bound to, and what a factor closes.                   *)

\* What SessionKeepsItsBindings says of a session r and of its challenge k.
BoundTo(r, k) ==
  /\ r.account = k.account /\ r.cver = k.cver /\ r.sver = k.sver
  /\ r.epoch = k.epoch + (IF k.purpose = "enroll" THEN 1 ELSE 0)

LEMMA BindingsStep ==
  ASSUME Inv, Inv', Kept, Form, Origins, SessionKeepsItsBindings
  PROVE  SessionKeepsItsBindings'
<1>1. /\ Len(sessions) \in Nat /\ Len(challenges) \in Nat
      /\ Len(sessions') \in Nat /\ Len(challenges') \in Nat
      /\ DOMAIN sessions = 1..Len(sessions) /\ DOMAIN sessions' = 1..Len(sessions')
      BY TableParts, LenProperties DEF Inv, Tables
<1>2. ASSUME NEW c \in 1..Len(challenges), NEW r, BoundTo(r, challenges[c])
      PROVE  BoundTo(r, challenges'[c])
      <2>1. ChallengeAged(challenges'[c], challenges[c]) BY DEF Kept, Age
      <2>2. QED BY <1>2, <2>1 DEF ChallengeAged, BoundTo
<1>3. ASSUME NEW s \in 1..Len(sessions'), sessions'[s].from # 0
      PROVE  BoundTo(sessions'[s], challenges'[sessions'[s].from])
      <2>1. CASE s \in 1..Len(sessions)
            <3> DEFINE c == sessions[s].from
            <3>1. SessionAged(sessions'[s], sessions[s]) BY <2>1 DEF Kept, Age
            <3>2. sessions'[s].from = c /\ c \in 1..Len(challenges)
                  BY <1>1, <1>3, <2>1, <3>1 DEF SessionAged, Origins
            <3>3. BoundTo(sessions[s], challenges[c])
                  BY <1>1, <1>3, <2>1, <3>2 DEF SessionKeepsItsBindings, BoundTo
            <3>4. BoundTo(sessions'[s], challenges[c]) BY <3>1, <3>3 DEF SessionAged, BoundTo
            <3>5. QED BY <1>2, <3>2, <3>4
      <2>2. CASE s \notin 1..Len(sessions)
            <3>1. s = Len(sessions) + 1 /\ Len(sessions') # Len(sessions)
                  <4>1. Len(sessions') \in {Len(sessions), Len(sessions) + 1} BY DEF Kept
                  <4>2. Len(sessions) \in Nat /\ Len(sessions') \in Nat BY <1>1
                  <4>3. QED BY <2>2, <4>1, <4>2
            <3>2. ASSUME NEW r, Opened(r) PROVE FALSE
                  BY <1>3, <3>1, <3>2 DEF Opened, NewSessionIs
            <3>3. PICK c, n, r : c \in 1..Len(challenges) /\ n \in Nat /\ (Enrolled(c, n, r) \/ LoggedIn(c, n, r))
                  BY <1>1, <3>1, <3>2, SessionForms
            <3>4. sessions'[s] = r /\ r.from = c
                  BY <3>1, <3>3 DEF Enrolled, LoggedIn, NewSessionIs, Inherits
            <3>5. challenges[c].epoch \in Nat BY <3>3, TableParts DEF Inv, ChallengeRows
            <3>6. BoundTo(r, challenges[c])
                  <4>1. CASE Enrolled(c, n, r) BY <4>1 DEF Enrolled, Inherits, BoundTo
                  <4>2. CASE LoggedIn(c, n, r) BY <3>5, <4>2 DEF LoggedIn, Inherits, BoundTo
                  <4>3. QED BY <3>3, <4>1, <4>2
            <3>7. QED BY <3>3, <1>2, <3>4, <3>6
      <2>3. QED BY <2>1, <2>2
<1>4. QED BY <1>1, <1>3 DEF SessionKeepsItsBindings, BoundTo

\* Once there is a factor, the sessions without one have ended, and an enrolment that
\* goes back to the password alone is of an epoch that has gone by.
NoBypass ==
  factors # <<>> =>
    /\ \A s \in 1..Len(sessions) : sessions[s].mfa = None => sessions[s].revoked
    /\ \A c \in 1..Len(challenges) :
         challenges[c].purpose \in {"enroll_start", "enroll"} /\ challenges[c].root = "password"
           => challenges[c].epoch < security.epoch

LEMMA NewIsNoBypass ==
  ASSUME Inv, Form, NoBypass, factors # <<>>
  PROVE  /\ Len(sessions') # Len(sessions) =>
              \E r : NewSessionIs(r) /\ r.mfa # None
         /\ Len(challenges') # Len(challenges) =>
              \E r : NewChallengeIs(r) /\ (r.purpose \in {"enroll_start", "enroll"} => r.root # "password")
<1>1. Len(sessions) \in Nat /\ Len(challenges) \in Nat BY TableParts DEF Inv
<1>2. ASSUME Len(sessions') # Len(sessions) PROVE \E r : NewSessionIs(r) /\ r.mfa # None
      <2>1. \A r : ~Opened(r) BY DEF Opened
      <2>2. PICK c, n, r : c \in 1..Len(challenges) /\ n \in Nat /\ (Enrolled(c, n, r) \/ LoggedIn(c, n, r))
            BY <1>1, <1>2, <2>1, SessionForms
      <2>3. NewSessionIs(r) /\ r.mfa = challenges[c].factor
            BY <2>2 DEF Enrolled, LoggedIn, Inherits
      <2>4. challenges[c].factor \in Nat BY <2>2, TableParts DEF Inv, ChallengeRows
      <2>5. QED BY <2>3, <2>4, SessionsAssumption
<1>3. ASSUME Len(challenges') # Len(challenges)
      PROVE  \E r : NewChallengeIs(r) /\ (r.purpose \in {"enroll_start", "enroll"} => r.root # "password")
      <2>1. CASE \E r : Asked(r) BY <2>1 DEF Asked
      <2>2. CASE \E c \in 1..Len(challenges) : \E r : Begun(c, r)
            <3>1. PICK c, r : c \in 1..Len(challenges) /\ Begun(c, r) BY <2>2
            <3>2. /\ NewChallengeIs(r) /\ r.root = challenges[c].root
                  /\ challenges[c].purpose = "enroll_start" /\ Usable(c)
                  BY <3>1 DEF Begun, Spends
            <3>3. challenges[c].epoch = security.epoch /\ security.epoch \in Nat
                  BY <3>2, Versions DEF Usable, IsBound, Inv
            <3>4. ~(challenges[c].epoch < security.epoch) BY <3>3
            <3>5. QED BY <3>1, <3>2, <3>4 DEF NoBypass
      <2>3. CASE \E c \in 1..Len(challenges), n \in Nat : \E r : SteppedUp(c, n, r)
            BY <2>3 DEF SteppedUp
      <2>4. CASE \E c, r : Readmitted(c, r) BY <2>4 DEF Readmitted
      <2>5. QED BY <1>1, <1>3, <2>1, <2>2, <2>3, <2>4, ChallengeForms DEF Recovered, Replaced
<1>4. QED BY <1>2, <1>3

LEMMA NoBypassStep ==
  ASSUME Inv, Inv', Kept, Form, NoBypass
  PROVE  NoBypass'
<1>1. /\ Len(sessions) \in Nat /\ Len(challenges) \in Nat
      /\ Len(sessions') \in Nat /\ Len(challenges') \in Nat
      /\ security.epoch \in Nat /\ security'.epoch \in Nat /\ security.epoch <= security'.epoch
      <2>1. /\ Len(sessions) \in Nat /\ Len(challenges) \in Nat
            /\ Len(sessions') \in Nat /\ Len(challenges') \in Nat
            BY TableParts, LenProperties DEF Inv, Tables
      <2>2. security.epoch \in Nat /\ security'.epoch \in Nat BY DEF Inv, Person
      <2>3. QED BY <2>1, <2>2 DEF Kept, Rise
<1>2. \A c \in 1..Len(challenges) :
        /\ ChallengeAged(challenges'[c], challenges[c])
        /\ challenges[c].epoch \in Nat /\ challenges[c].epoch <= security.epoch
      BY TableParts DEF Inv, Bound, Carries, ChallengeRows, Kept, Age
<1>3. \A s \in 1..Len(sessions) : SessionAged(sessions'[s], sessions[s]) BY DEF Kept, Age
<1>4. CASE factors # <<>>
      <2>1. ASSUME NEW s \in 1..Len(sessions'), sessions'[s].mfa = None PROVE sessions'[s].revoked
            <3>1. CASE s \in 1..Len(sessions) BY <1>3, <1>4, <2>1, <3>1 DEF SessionAged, NoBypass
            <3>2. CASE s \notin 1..Len(sessions)
                  <4>1. s = Len(sessions) + 1 /\ Len(sessions') # Len(sessions) BY <1>1, <3>2 DEF Kept
                  <4>2. \E r : NewSessionIs(r) /\ r.mfa # None BY <1>4, <4>1, NewIsNoBypass
                  <4>3. QED BY <2>1, <4>1, <4>2 DEF NewSessionIs
            <3>3. QED BY <3>1, <3>2
      <2>2. ASSUME NEW c \in 1..Len(challenges'),
                   challenges'[c].purpose \in {"enroll_start", "enroll"},
                   challenges'[c].root = "password"
            PROVE  challenges'[c].epoch < security'.epoch
            <3>1. CASE c \in 1..Len(challenges)
                  <4>1. challenges[c].epoch < security.epoch
                        BY <1>2, <1>4, <2>2, <3>1 DEF ChallengeAged, NoBypass
                  <4>2. challenges'[c].epoch = challenges[c].epoch BY <1>2, <3>1 DEF ChallengeAged
                  <4>3. QED BY <1>1, <1>2, <3>1, <4>1, <4>2
            <3>2. CASE c \notin 1..Len(challenges)
                  <4>1. c = Len(challenges) + 1 /\ Len(challenges') # Len(challenges)
                        BY <1>1, <3>2 DEF Kept
                  <4>2. \E r : NewChallengeIs(r)
                               /\ (r.purpose \in {"enroll_start", "enroll"} => r.root # "password")
                        BY <1>4, <4>1, NewIsNoBypass
                  <4>3. QED BY <2>2, <4>1, <4>2 DEF NewChallengeIs
            <3>3. QED BY <3>1, <3>2
      <2>3. QED BY <2>1, <2>2 DEF NoBypass
<1>5. ASSUME factors = <<>>, factors' # <<>> PROVE NoBypass'
      <2>1. Len(factors) = 0 /\ Len(factors') # 0
            BY <1>5, EmptySeq DEF Inv, Tables
      <2>2. PICK d, n, r : d \in 1..Len(challenges) /\ n \in Nat /\ Enrolled(d, n, r)
            BY <2>1, FactorsKept
      <2>3. /\ NewSessionIs(r) /\ Usable(d)
            /\ r.mfa = challenges[d].factor /\ security'.epoch = challenges[d].epoch + 1
            /\ \A s \in 1..Len(sessions) : sessions'[s].revoked
            BY <2>2 DEF Enrolled, Spends, Inherits
      <2>4. challenges[d].factor \in Nat BY <2>2, TableParts DEF Inv, ChallengeRows
      <2>5. security'.epoch = security.epoch + 1 BY <2>3 DEF Usable, IsBound
      <2>6. ASSUME NEW s \in 1..Len(sessions'), sessions'[s].mfa = None PROVE sessions'[s].revoked
            <3>1. CASE s \in 1..Len(sessions) BY <2>3, <3>1
            <3>2. CASE s \notin 1..Len(sessions)
                  <4>1. s = Len(sessions) + 1 BY <1>1, <3>2 DEF Kept
                  <4>2. QED BY <2>3, <2>4, <2>6, <4>1, SessionsAssumption DEF NewSessionIs
            <3>3. QED BY <3>1, <3>2
      <2>7. ASSUME NEW c \in 1..Len(challenges') PROVE challenges'[c].epoch < security'.epoch
            <3>1. c \in 1..Len(challenges) BY <2>3 DEF NewSessionIs
            <3>2. challenges'[c].epoch = challenges[c].epoch BY <1>2, <3>1 DEF ChallengeAged
            <3>3. QED BY <1>1, <1>2, <2>5, <3>1, <3>2
      <2>8. QED BY <2>6, <2>7 DEF NoBypass
<1>6. QED BY <1>4, <1>5 DEF NoBypass
-----------------------------------------------------------------------------
(* Together, and what follows for the runs' properties.                    *)

MfaInv ==
  /\ Inv
  /\ EpochBound
  /\ Origins
  /\ Held
  /\ Counted
  /\ Exchanged
  /\ Secret
  /\ SessionKeepsItsBindings
  /\ NoBypass

LEMMA InitFacts ==
  ASSUME Init
  PROVE  /\ Len(challenges) = 0 /\ DOMAIN challenges = {} /\ changes = 0 /\ security.epoch = 1 /\ lock = None
         /\ DOMAIN sessions = 1..Len(sessions) /\ Len(sessions) \in {0, 1}
         /\ \A s \in 1..Len(sessions) :
              /\ sessions[s].from = 0 /\ sessions[s].by = <<>>
              /\ sessions[s].epoch = 1 /\ sessions[s].mfa = 0
         /\ \A i \in 1..Len(factors) : factors[i].id = 0
         /\ codes \subseteq CodeSet(0, 0)
<1>1. PICK b \in Beginnings :
        /\ security = [epoch |-> 1, enrol |-> b = "bootstrapped"]
        /\ factors = IF b = "enrolled" THEN <<[id |-> 0, step |-> 0, revoked |-> FALSE]>> ELSE <<>>
        /\ codes = IF b = "enrolled" THEN CodeSet(0, 0) ELSE {}
        /\ \E a \in Accounts :
             sessions = IF b = "enrolled" THEN <<[Session(a, 1, 1) EXCEPT !.mfa = 0]>> ELSE <<>>
      BY DEF Init
<1>2. challenges = <<>> /\ changes = 0 /\ lock = None BY DEF Init
<1>3. Len(challenges) = 0 /\ DOMAIN challenges = {} BY <1>2
<1>4. security.epoch = 1 /\ codes \subseteq CodeSet(0, 0) BY <1>1
<1>5. \A i \in 1..Len(factors) : factors[i].id = 0
      <2>1. CASE b = "enrolled" BY <1>1, <2>1
      <2>2. CASE b # "enrolled"
            <3>1. factors = <<>> BY <1>1, <2>2
            <3>2. QED BY <3>1
      <2>3. QED BY <2>1, <2>2
<1>6. /\ DOMAIN sessions = 1..Len(sessions) /\ Len(sessions) \in {0, 1}
      /\ \A s \in 1..Len(sessions) :
           /\ sessions[s].from = 0 /\ sessions[s].by = <<>>
           /\ sessions[s].epoch = 1 /\ sessions[s].mfa = 0
      <2>1. PICK a \in Accounts :
              sessions = IF b = "enrolled" THEN <<[Session(a, 1, 1) EXCEPT !.mfa = 0]>> ELSE <<>>
            BY <1>1
      <2> DEFINE r == [Session(a, 1, 1) EXCEPT !.mfa = 0]
      <2>2. r.from = 0 /\ r.by = <<>> /\ r.epoch = 1 /\ r.mfa = 0 BY DEF Session
      <2> HIDE DEF r
      <2>3. CASE b = "enrolled"
            <3>1. sessions = <<r>> BY <2>1, <2>3 DEF r
            <3>2. Len(sessions) = 1 /\ DOMAIN sessions = 1..1 /\ sessions[1] = r BY <3>1
            <3>3. QED BY <2>2, <3>2
      <2>4. CASE b # "enrolled"
            <3>1. sessions = <<>> BY <2>1, <2>4
            <3>2. QED BY <3>1
      <2>5. QED BY <2>3, <2>4
<1>7. QED BY <1>2, <1>3, <1>4, <1>5, <1>6

LEMMA InitMfa == Init => MfaInv
<1> SUFFICES ASSUME Init PROVE MfaInv OBVIOUS
<1>1. Inv BY InitInv
<1>2. Len(challenges) = 0 /\ 1..Len(challenges) = {} BY InitFacts
<1>3. EpochBound
      <2>1. ChangeBound \in Nat BY SessionsAssumption
      <2>2. SomeOpen => Len(sessions) = 1 BY InitFacts DEF SomeOpen
      <2>3. QED BY <2>1, <2>2, InitFacts DEF EpochBound
<1>4. Origins BY <1>2, InitFacts DEF Origins
<1>5. Held BY InitFacts, SessionsAssumption DEF Held
<1>6. Counted BY <1>2 DEF Counted
<1>7. \A x \in Issued : RowOf(x).from = 0 /\ RowOf(x).by = <<>>
      BY <1>2, InitFacts DEF Issued, RowOf
<1>8. Exchanged BY <1>7 DEF Exchanged, ChallengeIsExchangedOnce
<1>9. Secret
      <2>1. CodesMinted BY InitFacts DEF CodesMinted, CodeSet
      <2>2. \A i \in 1..Len(factors) : factors[i].id = 0 BY InitFacts
      <2>3. QED BY <1>7, <2>1, <2>2 DEF Secret, SecretSpent, SecretIsAcceptedOnce
<1>10. SessionKeepsItsBindings BY InitFacts DEF SessionKeepsItsBindings
<1>11. NoBypass BY <1>2, InitFacts, SessionsAssumption DEF NoBypass
<1>12. QED BY <1>1, <1>3, <1>4, <1>5, <1>6, <1>8, <1>9, <1>10, <1>11 DEF MfaInv

LEMMA MfaStep == MfaInv /\ [Next]_vars => MfaInv'
<1> SUFFICES ASSUME MfaInv, [Next]_vars PROVE MfaInv' OBVIOUS
<1>1. Inv BY DEF MfaInv
<1>2. Inv' /\ Kept BY <1>1, InvStep
<1>3. Form BY <1>1, <1>2, FormStep
<1>4. EpochMoves
      <2>1. changes \in Nat BY DEF MfaInv, EpochBound
      <2>2. QED BY <1>1, <1>2, <2>1, EpochStep
<1>5. EpochBound' BY <1>1, <1>2, <1>3, <1>4, EpochBoundStep DEF MfaInv
<1>6. Origins' BY <1>1, <1>2, <1>3, OriginsStep DEF MfaInv
<1>7. Held' BY <1>1, HeldStep DEF MfaInv
<1>8. Counted' BY <1>1, <1>2, <1>3, CountedStep DEF MfaInv
<1>9. Exchanged' BY <1>1, <1>2, <1>3, ExchangedStep DEF MfaInv
<1>10. Secret' BY <1>1, <1>2, <1>3, SecretStep DEF MfaInv
<1>11. SessionKeepsItsBindings' BY <1>1, <1>2, <1>3, BindingsStep DEF MfaInv
<1>12. NoBypass' BY <1>1, <1>2, <1>3, NoBypassStep DEF MfaInv
<1>13. QED BY <1>2, <1>5, <1>6, <1>7, <1>8, <1>9, <1>10, <1>11, <1>12 DEF MfaInv

LEMMA MfaInvariant == Spec => []MfaInv
BY InitMfa, MfaStep, PTL DEF Spec

LEMMA MfaMeansType == MfaInv => TypeOK
<1> SUFFICES ASSUME MfaInv PROVE TypeOK OBVIOUS
<1>1. /\ Inv /\ EpochBound /\ Origins /\ Held /\ Counted BY DEF MfaInv
<1>2. /\ Len(sessions) \in Nat /\ DOMAIN sessions = 1..Len(sessions)
      /\ Len(challenges) \in Nat /\ DOMAIN challenges = 1..Len(challenges)
      /\ DOMAIN factors = 1..Len(factors)
      /\ changes \in 0..ChangeBound /\ ChangeBound \in Nat /\ security.epoch \in Nat
      BY <1>1, TableParts, Versions, SessionsAssumption DEF Inv, EpochBound
<1>3. /\ admin \in BOOLEAN
      /\ identity \in [status : {"active", "suspended"}, version : Nat]
      /\ credential \in [status : {"active", "revoked"}, version : Nat, pwd : Nat]
      /\ accounts \in [Accounts -> [status : {"active", "suspended", "closed"},
                                    live : BOOLEAN, member : BOOLEAN]]
      BY <1>1 DEF Inv, Person, Identities, Credentials, AccountRows
<1>4. ASSUME NEW e, e \in Nat, 1 <= e, e <= security.epoch PROVE e \in EpochType
      <2>1. security.epoch <= 1 + Len(challenges) + changes + 2 * Len(sessions)
            BY <1>1 DEF EpochBound
      <2>2. e <= 1 + Len(challenges) + 2 * Len(sessions) + ChangeBound BY <1>2, <1>4, <2>1
      <2>3. QED BY <1>2, <1>4, <2>2 DEF EpochType
<1>5. security \in [epoch : EpochType, enrol : BOOLEAN]
      <2>1. security \in [epoch : Nat, enrol : BOOLEAN] BY <1>1 DEF Inv, Person
      <2>2. security.epoch \in EpochType BY <1>1, <1>2, <1>4 DEF EpochBound
      <2>3. QED BY <2>1, <2>2
<1>6. ASSUME NEW s \in 1..Len(sessions)
      PROVE  /\ sessions[s].account \in Accounts /\ sessions[s].epoch \in EpochType
             /\ sessions[s].from \in 0..Len(challenges)
      <2>1. sessions[s] \in SessionRows /\ sessions[s].epoch <= security.epoch
            BY <1>1, TableParts DEF Inv, Bound, Carries
      <2>2. sessions[s].account \in Accounts /\ sessions[s].epoch \in Nat BY <2>1 DEF SessionRows
      <2>3. 1 <= sessions[s].epoch BY <1>1 DEF EpochBound
      <2>4. QED BY <1>1, <1>4, <2>1, <2>2, <2>3 DEF Origins
<1>7. ASSUME NEW c \in 1..Len(challenges)
      PROVE  /\ challenges[c].account \in Accounts
             /\ challenges[c].purpose \in Purposes
             /\ challenges[c].attempts \in 0..MaxAttempts
             /\ challenges[c].from \in 0..(c - 1)
             /\ (challenges[c].purpose \in {"step_up", "proof"}) = (challenges[c].session # 0)
      <2>1. challenges[c] \in ChallengeRows BY <1>1, TableParts DEF Inv
      <2>2. /\ challenges[c].account \in Accounts /\ challenges[c].purpose \in Purposes
            /\ challenges[c].attempts \in Nat
            BY <2>1 DEF ChallengeRows
      <2>3. challenges[c].attempts <= MaxAttempts /\ MaxAttempts \in Nat
            BY <1>1, SessionsAssumption DEF Counted, CountedOf
      <2>4. OriginOf(challenges[c], c) BY <1>1 DEF Origins
      <2>5. (challenges[c].purpose \in {"step_up", "proof"}) = (challenges[c].session # 0)
            BY <2>4 DEF OriginOf
      <2>6. QED BY <2>2, <2>3, <2>4, <2>5 DEF OriginOf
<1>8. \A i \in 1..Len(factors) : factors[i].id \in 0..Len(challenges)
      BY <1>1, <1>2, FactorTypes DEF Origins
<1>9. lock \in Threads \cup {None} BY <1>1 DEF Inv, Requests
<1>10. \A t \in Threads : pc[t] = "admitted" <=> lock = t
       BY <1>1, ThreadFacts DEF Knows, Held
<1>11. QED BY <1>2, <1>3, <1>5, <1>6, <1>7, <1>8, <1>9, <1>10 DEF TypeOK

\* Every table and every thread's locals keep their types, for any number of requests and
\* of rows: the epoch never runs ahead of the rows and the commands that move it, the
\* attempts of a challenge never pass the CHECK of migration 0021, and the row of the
\* person is held by the login that is between its two transactions, and by nobody else.
THEOREM TypeCorrect == Spec => []TypeOK
BY MfaInvariant, MfaMeansType, PTL

LEMMA MfaMeansExchanged == MfaInv => ChallengeIsExchangedOnce
BY DEF MfaInv, Exchanged

\* A challenge is exchanged once (MfaService, _consume): no two sessions, proofs or
\* further challenges come from the same one, however many requests have checked it
\* before the first of them commits.
THEOREM ExchangedOnce == Spec => []ChallengeIsExchangedOnce
BY MfaInvariant, MfaMeansExchanged, PTL

LEMMA MfaMeansSecret == MfaInv => SecretIsAcceptedOnce
BY DEF MfaInv, Secret

\* A time step of a factor, and a recovery code of a set, let one request in: not a
\* second one under another challenge, and not after the codes were rotated or the
\* factor was replaced.
THEOREM SecretOnce == Spec => []SecretIsAcceptedOnce
BY MfaInvariant, MfaMeansSecret, PTL

LEMMA MfaMeansBounded == MfaInv => ComparisonsAreBounded
<1> SUFFICES ASSUME MfaInv PROVE ComparisonsAreBounded OBVIOUS
<1>1. Inv /\ Counted BY DEF MfaInv
<1>2. ASSUME NEW c \in 1..Len(challenges) PROVE challenges[c].tried <= MaxAttempts
      <2>1. CountedOf(c) BY <1>1 DEF Counted
      <2>2. QED BY <1>1, <2>1, CountsOfRow DEF CountedOf
<1>3. QED BY <1>1, <1>2, TableParts DEF Inv, ComparisonsAreBounded

\* A code is compared at most MaxAttempts times under one challenge, though it is counted
\* in one transaction and compared in the next, by any number of requests at a time.
THEOREM ComparisonsBounded == Spec => []ComparisonsAreBounded
BY MfaInvariant, MfaMeansBounded, PTL

LEMMA MfaMeansBindings == MfaInv => SessionKeepsItsBindings
BY DEF MfaInv

\* A session obtained with a second factor is bound to the versions and the epoch of its
\* challenge, and not to those of the moment it was issued; an enrolment to the next epoch.
THEOREM BindingsKept == Spec => []SessionKeepsItsBindings
BY MfaInvariant, MfaMeansBindings, PTL

LEMMA MfaMeansNoBypass == MfaInv => FactorIsNeverBypassed
<1> SUFFICES ASSUME MfaInv, factors # <<>>
             PROVE  /\ \A c \in DOMAIN challenges :
                         Usable(c) /\ challenges[c].purpose \in {"enroll_start", "enroll"}
                           => challenges[c].root # "password"
                    /\ \A s \in DOMAIN sessions : Loads(s) => sessions[s].mfa # None
    BY DEF FactorIsNeverBypassed
<1>1. Inv /\ NoBypass BY DEF MfaInv
<1>2. ASSUME NEW c \in 1..Len(challenges), Usable(c),
             challenges[c].purpose \in {"enroll_start", "enroll"}
      PROVE  challenges[c].root # "password"
      <2>1. challenges[c].epoch = security.epoch /\ security.epoch \in Nat
            BY <1>1, <1>2, Versions DEF Usable, IsBound, Inv
      <2>2. ~(challenges[c].epoch < security.epoch) BY <2>1
      <2>3. QED BY <1>1, <1>2, <2>2 DEF NoBypass
<1>3. \A s \in 1..Len(sessions) : Loads(s) => sessions[s].mfa # None
      BY <1>1 DEF NoBypass, Loads
<1>4. QED BY <1>1, <1>2, <1>3, TableParts DEF Inv

\* mfa.py:123 "Recovery never reopens password-only login or enrollment": from the first
\* factor on, no session without one is accepted, and no enrolment that goes back to the
\* password alone, even if it was begun before the factor was enrolled.
THEOREM NeverBypassed == Spec => []FactorIsNeverBypassed
BY MfaInvariant, MfaMeansNoBypass, PTL
=============================================================================
