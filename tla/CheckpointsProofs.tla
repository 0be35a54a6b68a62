------------------------- MODULE CheckpointsProofs --------------------------
(***************************************************************************)
(* What Checkpoints guarantees for every number of handlers, sessions,     *)
(* contexts, checkpoints and kept snapshots: the type of its state, that a *)
(* checkpoint and what is promoted from it are of the context they say,    *)
(* and that a checkpoint does not move the context of its run.             *)
(***************************************************************************)
EXTENDS Checkpoints, TLAPS

Places == {"idle", "staging", "committing", "listing", "looking", "removing",
           "finding", "storing", "registering", "pinning", "restoring", "resuming"}

Locals == [expected : Contexts \cup {None}, id : Nat, row : Rows \cup {None},
           keep : SUBSET Nat, data : Contexts \cup {None}]

Sweeping == [at : {"idle", "files", "removing"}, referenced : SUBSET Nat, todo : SUBSET Nat]

\* The data of checkpoint c, as its row r says.
Says(r, c) == c \in DOMAIN files => r.snap /\ files[c] = r.context

\* What a handler holds of a checkpoint is true of it.
Local(h) ==
  /\ my[h].id <= begun /\ my[h].keep \subseteq 1..begun
  /\ pc[h] = "staging" => my[h].expected \in Contexts
  /\ pc[h] = "committing" =>
       /\ my[h].expected \in Contexts /\ my[h].row \in Rows
       /\ my[h].id \in 1..begun /\ my[h].id \notin DOMAIN rows
       /\ Says(my[h].row, my[h].id)
  /\ pc[h] \in {"finding", "storing", "registering"} =>
       my[h].id \in DOMAIN rows /\ my[h].data \in Contexts /\ my[h].data = rows[my[h].id].context
  /\ pc[h] = "registering" => my[h].data \in objects
  /\ pc[h] = "pinning" => my[h].id \in DOMAIN artifacts

\* No two handlers are about to commit one checkpoint.
Apart ==
  \A g, h \in Handlers :
    pc[g] = "committing" /\ pc[h] = "committing" /\ my[g].id = my[h].id => g = h

Ledger ==
  /\ run \in Runs
  /\ begun \in 0..IdBound
  /\ DOMAIN rows \subseteq 1..begun
  /\ \A c \in DOMAIN rows : rows[c] \in Rows /\ Says(rows[c], c)

Files ==
  /\ DOMAIN files \subseteq 1..begun
  /\ \A c \in DOMAIN files : files[c] \in Contexts

Promoted ==
  /\ DOMAIN artifacts \subseteq DOMAIN rows
  /\ \A c \in DOMAIN artifacts : artifacts[c] = rows[c].context /\ artifacts[c] \in objects
  /\ pins \subseteq DOMAIN artifacts

Documents ==
  /\ DOMAIN sessions \subseteq Sessions
  /\ \A s \in DOMAIN sessions : sessions[s] \in Contexts

Swept == sweep \in Sweeping /\ sweep.referenced \cup sweep.todo \subseteq 1..begun

Requested == pc \in [Handlers -> Places] /\ my \in [Handlers -> Locals] /\ \A h \in Handlers : Local(h)

Inv == Ledger /\ Files /\ Promoted /\ Documents /\ Swept /\ Requested /\ Apart
-----------------------------------------------------------------------------
LEMMA PutParts ==
  ASSUME NEW f, NEW c, NEW v
  PROVE  /\ DOMAIN Put(f, c, v) = DOMAIN f \cup {c}
         /\ Put(f, c, v)[c] = v
         /\ \A k \in DOMAIN f : k # c => Put(f, c, v)[k] = f[k]
BY DEF Put

LEMMA RestrictParts ==
  ASSUME NEW f, NEW S
  PROVE  DOMAIN Restrict(f, S) = S /\ \A k \in S : Restrict(f, S)[k] = f[k]
BY DEF Restrict

LEMMA NothingLocal == Nothing \in Locals /\ Nothing.id = 0 /\ Nothing.keep = {}
BY DEF Nothing, Locals

LEMMA InitInv == Init => Inv
<1> SUFFICES ASSUME Init PROVE Inv OBVIOUS
<1>1. Ledger BY CheckpointsAssumption DEF Init, Ledger, Runs
<1>2. Files /\ Promoted BY DEF Init, Files, Promoted
<1>3. Documents BY CheckpointsAssumption DEF Init, Documents
<1>4. Swept BY DEF Init, Swept, Sweeping, Idle
<1>5. Requested
      <2>1. pc \in [Handlers -> Places] BY DEF Init, Places
      <2>2. my \in [Handlers -> Locals] BY NothingLocal DEF Init
      <2>3. ASSUME NEW h \in Handlers PROVE Local(h)
            BY NothingLocal, CheckpointsAssumption DEF Init, Local
      <2>4. QED BY <2>1, <2>2, <2>3 DEF Requested
<1>6. Apart BY DEF Init, Apart
<1>7. QED BY <1>1, <1>2, <1>3, <1>4, <1>5, <1>6 DEF Inv-----------------------------------------------------------------------------
(* What a step leaves as it is.                                            *)

\* A step of anybody: what is there of a checkpoint stays, except its file, and a file
\* appears only under a new id.
Grows ==
  /\ begun' \in 0..IdBound /\ begun <= begun'
  /\ \A c \in DOMAIN rows : c \in DOMAIN rows' /\ rows'[c] = rows[c]
  /\ \A c \in DOMAIN files' : c \in 1..begun => c \in DOMAIN files /\ files'[c] = files[c]
  /\ objects \subseteq objects'
  /\ DOMAIN artifacts \subseteq DOMAIN artifacts'

\* A handler that does not move, and whose checkpoint is not committed by another.
LEMMA Stays ==
  ASSUME Inv, Grows, NEW g \in Handlers, pc'[g] = pc[g], my'[g] = my[g],
         pc[g] = "committing" => my[g].id \notin DOMAIN rows'
  PROVE  Local(g)'
<1> DEFINE m == my[g]
<1>1. Local(g) /\ m \in Locals /\ begun \in 0..IdBound /\ DOMAIN rows \subseteq 1..begun
      BY DEF Inv, Requested, Ledger
<1>2. begun \in Nat /\ begun' \in Nat /\ begun <= begun' BY <1>1, CheckpointsAssumption DEF Grows
<1>3. m.id <= begun' /\ m.keep \subseteq 1..begun' BY <1>1, <1>2 DEF Local, Locals
<1>4. ASSUME pc[g] = "committing"
      PROVE  m.id \in 1..begun' /\ (Says(m.row, m.id))'
      <2>1. m.id \in 1..begun /\ Says(m.row, m.id) BY <1>1, <1>4 DEF Local
      <2>2. QED BY <1>2, <2>1 DEF Says, Grows
<1>5. pc[g] \in {"finding", "storing", "registering"} =>
        m.id \in DOMAIN rows' /\ m.data = rows'[m.id].context
      BY <1>1 DEF Local, Grows
<1>6. pc[g] = "registering" => m.data \in objects' BY <1>1 DEF Local, Grows
<1>7. pc[g] = "pinning" => m.id \in DOMAIN artifacts' BY <1>1 DEF Local, Grows
<1>8. QED BY <1>1, <1>3, <1>4, <1>5, <1>6, <1>7 DEF Local

\* A handler moves: the others stay.
LEMMA HandlerStep ==
  ASSUME Inv, Grows, NEW h \in Handlers, NEW at \in Places, NEW q \in Locals, Goto(h, at, q),
         Ledger', Files', Promoted', Documents', Swept',
         pc'[h] = at /\ my'[h] = q => Local(h)',
         \A g \in Handlers \ {h} : pc[g] = "committing" =>
           my[g].id \notin DOMAIN rows' /\ (at = "committing" => my[g].id # q.id)
  PROVE  Inv'
<1>1. pc \in [Handlers -> Places] /\ my \in [Handlers -> Locals] BY DEF Inv, Requested
<1>2. pc' \in [Handlers -> Places] /\ my' \in [Handlers -> Locals] BY <1>1 DEF Goto
<1>3. pc'[h] = at /\ my'[h] = q BY <1>1 DEF Goto
<1>4. \A g \in Handlers \ {h} : pc'[g] = pc[g] /\ my'[g] = my[g] BY <1>1 DEF Goto
<1>5. ASSUME NEW g \in Handlers PROVE Local(g)'
      <2>1. CASE g = h BY <1>3, <2>1
      <2>2. CASE g # h BY <1>4, <2>2, Stays
      <2>3. QED BY <2>1, <2>2
<1>6. Requested' BY <1>2, <1>5 DEF Requested
<1>7. Apart'
      <2> SUFFICES ASSUME NEW f \in Handlers, NEW g \in Handlers,
                          pc'[f] = "committing", pc'[g] = "committing", my'[f].id = my'[g].id
                   PROVE  f = g
          BY DEF Apart
      <2>1. CASE f # h /\ g # h BY <1>4, <2>1 DEF Inv, Apart
      <2>2. CASE f = h \/ g = h BY <1>3, <1>4, <2>2
      <2>3. QED BY <2>1, <2>2
<1>8. QED BY <1>6, <1>7 DEF Inv

\* Somebody else than the handlers moves.
LEMMA OtherStep ==
  ASSUME Inv, Grows, UNCHANGED <<rows, pc, my>>, Ledger', Files', Promoted', Documents', Swept'
  PROVE  Inv'
<1>1. ASSUME NEW g \in Handlers PROVE Local(g)'
      <2>1. pc[g] = "committing" => my[g].id \notin DOMAIN rows' BY DEF Inv, Requested, Local
      <2>2. QED BY <2>1, Stays
<1>2. Requested' BY <1>1 DEF Inv, Requested
<1>3. Apart' BY DEF Inv, Apart
<1>4. QED BY <1>2, <1>3 DEF Inv

\* Nothing happens to a part whose variables are left alone.
LEMMA LedgerStays ==
  ASSUME Inv, Grows, run' \in Runs, rows' = rows
  PROVE  Ledger'
<1>1. \A c \in DOMAIN rows : Says(rows[c], c)'
      BY DEF Inv, Ledger, Says, Grows
<1>2. begun \in Nat /\ begun' \in Nat BY CheckpointsAssumption DEF Inv, Ledger, Grows
<1>3. QED BY <1>1, <1>2 DEF Inv, Ledger, Says, Grows

LEMMA Unmoved ==
  ASSUME Inv, Grows
  PROVE  /\ UNCHANGED files => Files'
         /\ UNCHANGED <<rows, objects, artifacts, pins>> => Promoted'
         /\ UNCHANGED sessions => Documents'
         /\ UNCHANGED sweep => Swept'
<1>1. begun \in Nat /\ begun' \in Nat /\ begun <= begun'
      BY CheckpointsAssumption DEF Inv, Ledger, Grows
<1>2. UNCHANGED files => Files' BY <1>1 DEF Inv, Files
<1>3. UNCHANGED <<rows, objects, artifacts, pins>> => Promoted' BY DEF Inv, Promoted
<1>4. UNCHANGED sessions => Documents' BY DEF Inv, Documents
<1>5. UNCHANGED sweep => Swept' BY <1>1 DEF Inv, Swept
<1>6. QED BY <1>2, <1>3, <1>4, <1>5

\* A handler goes on, or is done, and changes nothing else.
LEMMA QuietStep ==
  ASSUME Inv, UNCHANGED <<ledger, begun, files, store, sessions, sweep>>,
         NEW h \in Handlers, NEW at \in Places \ {"committing"}, NEW q \in Locals, Goto(h, at, q),
         pc'[h] = at /\ my'[h] = q => Local(h)'
  PROVE  Inv'
<1>1. begun \in 0..IdBound /\ begun <= begun
      BY CheckpointsAssumption DEF Inv, Ledger
<1>2. Grows BY <1>1 DEF Grows, ledger, store
<1>3. Ledger' BY <1>2, LedgerStays DEF ledger, Inv, Ledger
<1>4. Files' /\ Promoted' /\ Documents' /\ Swept' BY <1>2, Unmoved DEF ledger, store
<1>5. \A g \in Handlers \ {h} : pc[g] = "committing" => my[g].id \notin DOMAIN rows'
      BY DEF ledger, Inv, Requested, Local
<1>6. at # "committing" OBVIOUS
<1>7. QED BY <1>2, <1>3, <1>4, <1>5, <1>6, HandlerStep

\* A handler that is done holds nothing.
LEMMA DoneLocal ==
  ASSUME NEW h, pc'[h] = "idle", my'[h] = Nothing, begun' \in Nat
  PROVE  Local(h)'
BY NothingLocal DEF Local

LEMMA DoneStep ==
  ASSUME Inv, UNCHANGED <<ledger, begun, files, store, sessions, sweep>>,
         NEW h \in Handlers, Done(h)
  PROVE  Inv'
<1>1. begun' \in Nat BY CheckpointsAssumption DEF Inv, Ledger
<1>2. QED BY <1>1, DoneLocal, NothingLocal, QuietStep DEF Done, Places

\* A handler that has begun a request, or ends in its list of checkpoints.
LEMMA BegunStep ==
  ASSUME Inv, UNCHANGED <<ledger, begun, files, store, sessions, sweep>>,
         NEW h \in Handlers, NEW at \in {"staging", "restoring"},
         Goto(h, at, [Nothing EXCEPT !.expected = run.context])
  PROVE  Inv'
<1> DEFINE q == [Nothing EXCEPT !.expected = run.context]
<1>1. run.context \in Contexts BY DEF Inv, Ledger, Runs
<1>2. q \in Locals /\ q.id = 0 /\ q.keep = {} /\ q.expected = run.context
      BY <1>1 DEF Nothing, Locals
<1> HIDE DEF q
<1>3. begun' \in Nat BY CheckpointsAssumption DEF Inv, Ledger
<1>4. pc'[h] = at /\ my'[h] = q => Local(h)' BY <1>1, <1>2, <1>3 DEF Local
<1>5. Goto(h, at, q) BY DEF q
<1>6. QED BY <1>2, <1>4, <1>5, QuietStep DEF Places
-----------------------------------------------------------------------------
(* The steps of a checkpoint.                                              *)

LEMMA HandlerFacts ==
  ASSUME Inv, NEW h \in Handlers
  PROVE  /\ my[h] \in Locals /\ Local(h)
         /\ my[h].id \in Nat /\ my[h].keep \in SUBSET Nat
         /\ begun \in Nat /\ begun \in 0..IdBound
BY CheckpointsAssumption DEF Inv, Requested, Locals, Ledger

\* The new id is nobody's.
LEMMA NewIdStep ==
  ASSUME Inv, NEW h \in Handlers, pc[h] = "staging", begun < IdBound, begun' = begun + 1,
         NEW r \in Rows, Goto(h, "committing", [my[h] EXCEPT !.id = begun', !.row = r]),
         UNCHANGED <<ledger, store, sessions, sweep>>,
         \A c \in DOMAIN files' : c \in 1..begun => c \in DOMAIN files /\ files'[c] = files[c],
         Files', begun' \in DOMAIN files' => r.snap /\ files'[begun'] = r.context
  PROVE  Inv'
<1> DEFINE q == [my[h] EXCEPT !.id = begun', !.row = r]
<1>1. my[h].keep \subseteq 1..begun /\ my[h].expected \in Contexts /\ my[h] \in Locals
      BY HandlerFacts DEF Local
<1>2. begun \in Nat /\ begun' \in Nat /\ begun' \in 0..IdBound
      BY HandlerFacts, CheckpointsAssumption
<1>3. /\ q \in Locals /\ q.id = begun' /\ q.row = r
      /\ q.keep = my[h].keep /\ q.expected = my[h].expected
      BY <1>1, <1>2 DEF Locals
<1> HIDE DEF q
<1>4. Grows BY <1>2 DEF Grows, ledger, store
<1>5. Ledger' BY <1>4, LedgerStays DEF ledger, Inv, Ledger
<1>6. Promoted' /\ Documents' /\ Swept' BY <1>4, Unmoved DEF ledger, store
<1>7. begun' \in 1..begun' /\ begun' \notin DOMAIN rows'
      BY <1>2 DEF ledger, Inv, Ledger
<1>8. pc'[h] = "committing" /\ my'[h] = q => Local(h)'
      BY <1>1, <1>2, <1>3, <1>7 DEF Local, Says
<1>9. \A g \in Handlers \ {h} : pc[g] = "committing" =>
        my[g].id \notin DOMAIN rows' /\ my[g].id # q.id
      <2> SUFFICES ASSUME NEW g \in Handlers, pc[g] = "committing"
                   PROVE  my[g].id \notin DOMAIN rows' /\ my[g].id # q.id
          OBVIOUS
      <2>1. my[g].id \in 1..begun /\ my[g].id \notin DOMAIN rows BY HandlerFacts DEF Local
      <2>2. QED BY <1>2, <1>3, <2>1 DEF ledger
<1>10. Goto(h, "committing", q) BY DEF q
<1>11. QED BY <1>3, <1>4, <1>5, <1>6, <1>8, <1>9, <1>10, HandlerStep DEF Places

LEMMA StagesStep ==
  ASSUME Inv, NEW h \in Handlers, NEW s \in Sessions, NEW ok \in BOOLEAN, CreateStages(h, s, ok)
  PROVE  Inv'
<1> DEFINE r == [context |-> sessions[s], snap |-> ok]
<1>1. sessions[s] \in Contexts /\ DOMAIN files \subseteq 1..begun
      BY DEF CreateStages, Inv, Documents, Files
<1>2. r \in Rows /\ r.snap = ok /\ r.context = sessions[s] BY <1>1 DEF Rows
<1>3. begun \in Nat /\ begun' = begun + 1 BY HandlerFacts DEF CreateStages
<1>4. begun' \notin DOMAIN files BY <1>1, <1>3
<1>5. CASE ok
      <2>1. files' = Put(files, begun', sessions[s]) BY <1>5 DEF CreateStages
      <2>2. /\ DOMAIN files' = DOMAIN files \cup {begun'}
            /\ files'[begun'] = sessions[s]
            /\ \A k \in DOMAIN files : files'[k] = files[k]
            BY <1>4, <2>1, <1>1 DEF Put
      <2>3. \A c \in DOMAIN files' : c \in 1..begun => c \in DOMAIN files /\ files'[c] = files[c]
            BY <1>3, <2>2
      <2>4. Files' BY <1>1, <1>3, <2>2 DEF Inv, Files
      <2> HIDE DEF r
      <2>5. QED BY <1>2, <1>3, <1>5, <2>2, <2>3, <2>4, NewIdStep DEF CreateStages, r
<1>6. CASE ~ok
      <2>1. files' = files BY <1>6 DEF CreateStages
      <2>2. Files' BY <1>1, <1>3, <2>1 DEF Inv, Files
      <2> HIDE DEF r
      <2>3. QED BY <1>2, <1>3, <1>4, <2>1, <2>2, NewIdStep DEF CreateStages, r
<1>7. QED BY <1>5, <1>6

LEMMA RefersStep ==
  ASSUME Inv, NEW h \in Handlers, CreateRefers(h)
  PROVE  Inv'
<1> DEFINE r == [context |-> None, snap |-> FALSE]
<1>1. r \in Rows BY DEF Rows
<1>2. begun \in Nat /\ begun' = begun + 1 /\ files' = files BY HandlerFacts DEF CreateRefers
<1>3. begun' \notin DOMAIN files /\ Files' BY <1>2 DEF Inv, Files
<1> HIDE DEF r
<1>4. QED BY <1>1, <1>2, <1>3, NewIdStep DEF CreateRefers, r

LEMMA CommitsStep ==
  ASSUME Inv, NEW h \in Handlers, CreateCommits(h)
  PROVE  Inv'
<1> DEFINE c == my[h].id
           r == my[h].row
<1>1. /\ my[h].expected \in Contexts /\ r \in Rows
      /\ c \in 1..begun /\ c \notin DOMAIN rows /\ Says(r, c)
      BY HandlerFacts DEF CreateCommits, Local
<1>2. rows' = Put(rows, c, r) /\ UNCHANGED <<begun, files, store, sessions, sweep>>
      BY DEF CreateCommits
<1>3. DOMAIN rows' = DOMAIN rows \cup {c} /\ rows'[c] = r /\ \A k \in DOMAIN rows : rows'[k] = rows[k]
      BY <1>1, <1>2 DEF Put
<1>4. Grows BY <1>2, <1>3, HandlerFacts DEF Grows, store
<1>5. run' \in Runs BY <1>1 DEF CreateCommits, Runs
<1>6. Ledger'
      <2>1. \A k \in DOMAIN rows' : rows'[k] \in Rows /\ Says(rows[k], k)' BY <1>1, <1>2, <1>3 DEF Inv, Ledger, Says
      <2>2. begun' \in 0..IdBound /\ DOMAIN rows' \subseteq 1..begun' BY <1>1, <1>2, <1>3 DEF Inv, Ledger
      <2>3. QED BY <1>5, <2>1, <2>2 DEF Ledger
<1>7. Files' /\ Documents' /\ Swept' BY <1>2, <1>4, Unmoved
<1>8. Promoted' BY <1>2, <1>3 DEF Inv, Promoted, store
<1>9. \A g \in Handlers \ {h} : pc[g] = "committing" => my[g].id \notin DOMAIN rows'
      <2> SUFFICES ASSUME NEW g \in Handlers \ {h}, pc[g] = "committing"
                   PROVE  my[g].id \notin DOMAIN rows'
          OBVIOUS
      <2>1. my[g].id \notin DOMAIN rows BY HandlerFacts DEF Local
      <2>2. my[g].id # c BY DEF CreateCommits, Inv, Apart
      <2>3. QED BY <1>3, <2>1, <2>2
<1>10. Goto(h, "listing", Nothing) BY DEF CreateCommits
<1>11. pc'[h] = "listing" /\ my'[h] = Nothing => Local(h)'
       BY <1>2, NothingLocal, HandlerFacts DEF Local
<1>12. QED BY <1>4, <1>6, <1>7, <1>8, <1>9, <1>10, <1>11, NothingLocal, HandlerStep DEF Places

LEMMA ListsStep ==
  ASSUME Inv, NEW h \in Handlers, PruneLists(h)
  PROVE  Inv'
<1> DEFINE q == [my[h] EXCEPT !.keep = LastKept]
<1>1. LastKept \subseteq 1..begun BY DEF LastKept, Inv, Ledger
<1>2. LastKept \in SUBSET Nat BY <1>1, HandlerFacts
<1>3. q \in Locals /\ q.id = my[h].id /\ q.keep = LastKept BY <1>2, HandlerFacts DEF Locals
<1>4. my[h].id <= begun BY HandlerFacts DEF Local
<1> HIDE DEF q
<1>5. pc'[h] = "looking" /\ my'[h] = q => Local(h)' BY <1>1, <1>3, <1>4 DEF PruneLists, Local
<1>6. Goto(h, "looking", q) BY DEF PruneLists, q
<1>7. QED BY <1>3, <1>5, <1>6, QuietStep DEF PruneLists, Places

LEMMA LooksUpStep ==
  ASSUME Inv, NEW h \in Handlers, PruneLooksUp(h)
  PROVE  Inv'
<1> DEFINE q == [my[h] EXCEPT !.keep = @ \cup pins]
<1>1. pins \subseteq 1..begun BY DEF Inv, Promoted, Ledger
<1>2. /\ my[h].keep \cup pins \subseteq 1..begun
      /\ my[h].keep \cup pins \in SUBSET Nat
      /\ my[h].id <= begun
      <2>1. my[h].keep \subseteq 1..begun /\ my[h].id <= begun BY HandlerFacts DEF Local
      <2>2. 1..begun \subseteq Nat BY HandlerFacts
      <2>3. QED BY <1>1, <2>1, <2>2
<1>3. q \in Locals /\ q.id = my[h].id /\ q.keep = my[h].keep \cup pins
      BY <1>2, HandlerFacts DEF Locals
<1> HIDE DEF q
<1>4. pc'[h] = "removing" /\ my'[h] = q => Local(h)' BY <1>2, <1>3 DEF PruneLooksUp, Local
<1>5. CASE Goto(h, "removing", q) BY <1>3, <1>4, <1>5, QuietStep DEF PruneLooksUp, Places
<1>6. CASE Done(h) BY <1>6, DoneStep DEF PruneLooksUp
<1>7. QED BY <1>5, <1>6 DEF PruneLooksUp, q

\* Files are removed, and nothing else is changed of the checkpoints.
LEMMA FilesRemoved ==
  ASSUME Inv, NEW S, S \subseteq DOMAIN files, files' = Restrict(files, S),
         UNCHANGED <<ledger, begun, store, sessions>>
  PROVE  Grows /\ Ledger' /\ Files' /\ Promoted' /\ Documents'
<1>1. DOMAIN files' = S /\ \A c \in S : files'[c] = files[c] BY RestrictParts
<1>2. begun \in 0..IdBound /\ begun \in Nat BY CheckpointsAssumption DEF Inv, Ledger
<1>3. Grows BY <1>1, <1>2 DEF Grows, ledger, store
<1>4. Files' BY <1>1, <1>2 DEF Inv, Files
<1>5. Ledger' BY <1>3, LedgerStays DEF ledger, Inv, Ledger
<1>6. QED BY <1>3, <1>4, <1>5, Unmoved DEF ledger, store

LEMMA RemovesStep ==
  ASSUME Inv, NEW h \in Handlers, PruneRemoves(h)
  PROVE  Inv'
<1>1. Grows /\ Ledger' /\ Files' /\ Promoted' /\ Documents' BY FilesRemoved DEF PruneRemoves
<1>2. Swept' BY <1>1, Unmoved DEF PruneRemoves
<1>3. \A g \in Handlers \ {h} : pc[g] = "committing" => my[g].id \notin DOMAIN rows'
      BY HandlerFacts DEF PruneRemoves, ledger, Local
<1>4. Goto(h, "idle", Nothing) BY DEF PruneRemoves, Done
<1>5. pc'[h] = "idle" /\ my'[h] = Nothing => Local(h)'
      BY DoneLocal, HandlerFacts DEF PruneRemoves
<1>6. QED BY <1>1, <1>2, <1>3, <1>4, <1>5, NothingLocal, HandlerStep DEF Places
-----------------------------------------------------------------------------
(* The steps of a promotion.                                               *)

LEMMA ReadsStep ==
  ASSUME Inv, NEW h \in Handlers, NEW c \in Ids, PromoteReads(h, c)
  PROVE  Inv'
<1> DEFINE q == [Nothing EXCEPT !.id = c, !.data = files[c]]
<1>1. c \in DOMAIN rows /\ c \in DOMAIN files BY DEF PromoteReads
<1>2. c \in Nat /\ c <= begun /\ files[c] \in Contexts /\ files[c] = rows[c].context
      BY <1>1, HandlerFacts DEF Inv, Ledger, Files, Says
<1>3. q \in Locals /\ q.id = c /\ q.data = files[c] /\ q.keep = {}
      BY <1>2 DEF Nothing, Locals
<1> HIDE DEF q
<1>4. pc'[h] = "finding" /\ my'[h] = q => Local(h)'
      BY <1>1, <1>2, <1>3 DEF PromoteReads, ledger, Local
<1>5. Goto(h, "finding", q) BY DEF PromoteReads, q
<1>6. QED BY <1>3, <1>4, <1>5, QuietStep DEF PromoteReads, Places

LEMMA FindsStep ==
  ASSUME Inv, NEW h \in Handlers, PromoteFinds(h)
  PROVE  Inv'
<1>1. CASE my[h].id \in DOMAIN artifacts BY <1>1, DoneStep DEF PromoteFinds
<1>2. CASE my[h].id \notin DOMAIN artifacts
      <2>1. Goto(h, "storing", my[h]) BY <1>2 DEF PromoteFinds
      <2>2. pc'[h] = "storing" /\ my'[h] = my[h] => Local(h)'
            BY HandlerFacts DEF PromoteFinds, ledger, Local
      <2>3. QED BY <2>1, <2>2, HandlerFacts, QuietStep DEF PromoteFinds, Places
<1>3. QED BY <1>1, <1>2

LEMMA StoresStep ==
  ASSUME Inv, NEW h \in Handlers, PromoteStores(h)
  PROVE  Inv'
<1>1. objects' = objects \cup {my[h].data} /\ UNCHANGED <<ledger, begun, files, artifacts, pins, sessions, sweep>>
      BY DEF PromoteStores
<1>2. Grows BY <1>1, HandlerFacts DEF Grows, ledger
<1>3. Ledger' BY <1>1, <1>2, LedgerStays DEF ledger, Inv, Ledger
<1>4. Files' /\ Documents' /\ Swept' BY <1>1, <1>2, Unmoved
<1>5. Promoted' BY <1>1 DEF ledger, Inv, Promoted
<1>6. \A g \in Handlers \ {h} : pc[g] = "committing" => my[g].id \notin DOMAIN rows'
      BY <1>1, HandlerFacts DEF ledger, Local
<1>7. Goto(h, "registering", my[h]) BY DEF PromoteStores
<1>8. pc'[h] = "registering" /\ my'[h] = my[h] => Local(h)'
      BY <1>1, HandlerFacts DEF PromoteStores, ledger, Local
<1>9. QED BY <1>2, <1>3, <1>4, <1>5, <1>6, <1>7, <1>8, HandlerFacts, HandlerStep DEF Places

LEMMA RegistersStep ==
  ASSUME Inv, NEW h \in Handlers, PromoteRegisters(h)
  PROVE  Inv'
<1> DEFINE c == my[h].id
           q == [my[h] EXCEPT !.data = None]
<1>1. /\ c \in DOMAIN rows /\ my[h].data = rows[c].context /\ my[h].data \in objects
      /\ my[h].id <= begun /\ my[h].keep \subseteq 1..begun
      BY HandlerFacts DEF PromoteRegisters, Local
<1>2. UNCHANGED <<ledger, begun, files, objects, pins, sessions, sweep>> BY DEF PromoteRegisters
<1>3. /\ DOMAIN artifacts' = DOMAIN artifacts \cup {c}
      /\ \A k \in DOMAIN artifacts : artifacts'[k] = artifacts[k]
      /\ c \notin DOMAIN artifacts => artifacts'[c] = my[h].data
      <2>1. CASE c \in DOMAIN artifacts BY <2>1 DEF PromoteRegisters
      <2>2. CASE c \notin DOMAIN artifacts BY <2>2 DEF PromoteRegisters, Put
      <2>3. QED BY <2>1, <2>2
<1>4. Grows BY <1>2, <1>3, HandlerFacts DEF Grows, ledger
<1>5. Ledger' BY <1>2, <1>4, LedgerStays DEF ledger, Inv, Ledger
<1>6. Files' /\ Documents' /\ Swept' BY <1>2, <1>4, Unmoved
<1>7. Promoted'
      <2>1. DOMAIN artifacts' \subseteq DOMAIN rows' /\ pins' \subseteq DOMAIN artifacts'
            BY <1>1, <1>2, <1>3 DEF ledger, Inv, Promoted
      <2>2. \A k \in DOMAIN artifacts' : artifacts'[k] = rows'[k].context /\ artifacts'[k] \in objects'
            BY <1>1, <1>2, <1>3 DEF ledger, Inv, Promoted
      <2>3. QED BY <2>1, <2>2 DEF Promoted
<1>8. \A g \in Handlers \ {h} : pc[g] = "committing" => my[g].id \notin DOMAIN rows'
      BY <1>2, HandlerFacts DEF ledger, Local
<1>9. q \in Locals /\ q.id = c /\ q.keep = my[h].keep BY HandlerFacts DEF Locals
<1> HIDE DEF q
<1>10. pc'[h] = "pinning" /\ my'[h] = q => Local(h)' BY <1>1, <1>2, <1>3, <1>9 DEF Local
<1>11. Goto(h, "pinning", q) BY DEF PromoteRegisters, q
<1>12. QED BY <1>4, <1>5, <1>6, <1>7, <1>8, <1>9, <1>10, <1>11, HandlerStep DEF Places

LEMMA PinsStep ==
  ASSUME Inv, NEW h \in Handlers, PromotePins(h)
  PROVE  Inv'
<1>1. pins' = pins \cup {my[h].id} /\ UNCHANGED <<ledger, begun, files, objects, artifacts, sessions, sweep>>
      BY DEF PromotePins
<1>2. my[h].id \in DOMAIN artifacts BY HandlerFacts DEF PromotePins, Local
<1>3. Grows BY <1>1, HandlerFacts DEF Grows, ledger
<1>4. Ledger' BY <1>1, <1>3, LedgerStays DEF ledger, Inv, Ledger
<1>5. Files' /\ Documents' /\ Swept' BY <1>1, <1>3, Unmoved
<1>6. Promoted' BY <1>1, <1>2 DEF ledger, Inv, Promoted
<1>7. \A g \in Handlers \ {h} : pc[g] = "committing" => my[g].id \notin DOMAIN rows'
      BY <1>1, HandlerFacts DEF ledger, Local
<1>8. Goto(h, "idle", Nothing) BY DEF PromotePins, Done
<1>9. pc'[h] = "idle" /\ my'[h] = Nothing => Local(h)' BY <1>1, DoneLocal, HandlerFacts
<1>10. QED BY <1>3, <1>4, <1>5, <1>6, <1>7, <1>8, <1>9, NothingLocal, HandlerStep DEF Places
-----------------------------------------------------------------------------
(* The steps of a restoration, of the sessions and of the sweep.           *)

LEMMA RestoresStep ==
  ASSUME Inv, NEW h \in Handlers, NEW s \in Sessions, RestoreSaves(h, s)
  PROVE  Inv'
<1>1. sessions' = Put(sessions, s, Raw) /\ UNCHANGED <<ledger, begun, files, store, sweep>>
      BY DEF RestoreSaves
<1>2. DOMAIN sessions' = DOMAIN sessions \cup {s} /\ sessions'[s] = Raw
      /\ \A k \in DOMAIN sessions : k # s => sessions'[k] = sessions[k]
      BY <1>1 DEF Put
<1>3. Documents' BY <1>2, CheckpointsAssumption DEF Inv, Documents
<1>4. Grows BY <1>1, HandlerFacts DEF Grows, ledger, store
<1>5. Ledger' BY <1>1, <1>4, LedgerStays DEF ledger, Inv, Ledger
<1>6. Files' /\ Promoted' /\ Swept' BY <1>1, <1>4, Unmoved DEF ledger, store
<1>7. \A g \in Handlers \ {h} : pc[g] = "committing" => my[g].id \notin DOMAIN rows'
      BY <1>1, HandlerFacts DEF ledger, Local
<1>8. Goto(h, "resuming", my[h]) BY DEF RestoreSaves
<1>9. pc'[h] = "resuming" /\ my'[h] = my[h] => Local(h)' BY <1>1, HandlerFacts DEF Local
<1>10. QED BY <1>3, <1>4, <1>5, <1>6, <1>7, <1>8, <1>9, HandlerFacts, HandlerStep DEF Places

LEMMA ResumesStep ==
  ASSUME Inv, NEW h \in Handlers, RestoreCommits(h)
  PROVE  Inv'
<1>1. UNCHANGED <<rows, begun, files, store, sessions, sweep>> BY DEF RestoreCommits
<1>2. run' \in Runs BY CheckpointsAssumption DEF RestoreCommits, Runs, Inv, Ledger
<1>3. Grows BY <1>1, HandlerFacts DEF Grows, store
<1>4. Ledger' BY <1>1, <1>2, <1>3, LedgerStays
<1>5. Files' /\ Promoted' /\ Documents' /\ Swept' BY <1>1, <1>3, Unmoved DEF store
<1>6. \A g \in Handlers \ {h} : pc[g] = "committing" => my[g].id \notin DOMAIN rows'
      BY <1>1, HandlerFacts DEF Local
<1>7. Goto(h, "idle", Nothing) BY DEF RestoreCommits, Done
<1>8. pc'[h] = "idle" /\ my'[h] = Nothing => Local(h)' BY <1>1, DoneLocal, HandlerFacts
<1>9. QED BY <1>3, <1>4, <1>5, <1>6, <1>7, <1>8, NothingLocal, HandlerStep DEF Places

LEMMA CorrectsStep ==
  ASSUME Inv, NEW s \in Sessions, NEW x \in Contexts, Corrects(s, x)
  PROVE  Inv'
<1>1. UNCHANGED <<rows, begun, files, store, pc, my, sweep>> BY DEF Corrects
<1>2. run' \in Runs BY DEF Corrects, Runs, Inv, Ledger
<1>3. Documents' BY DEF Corrects, Inv, Documents
<1>4. Grows BY <1>1, CheckpointsAssumption DEF Grows, store, Inv, Ledger
<1>5. Ledger' BY <1>1, <1>2, <1>4, LedgerStays
<1>6. Files' /\ Promoted' /\ Swept' BY <1>1, <1>4, Unmoved DEF store
<1>7. QED BY <1>1, <1>3, <1>4, <1>5, <1>6, OtherStep

LEMMA AbandonsStep ==
  ASSUME Inv, Abandons
  PROVE  Inv'
<1>1. UNCHANGED <<rows, begun, files, store, sessions, pc, my, sweep>> BY DEF Abandons
<1>2. run' \in Runs BY DEF Abandons, Runs, Inv, Ledger
<1>3. Grows BY <1>1, CheckpointsAssumption DEF Grows, store, Inv, Ledger
<1>4. Ledger' BY <1>1, <1>2, <1>3, LedgerStays
<1>5. Files' /\ Promoted' /\ Documents' /\ Swept' BY <1>1, <1>3, Unmoved DEF store
<1>6. QED BY <1>1, <1>3, <1>4, <1>5, OtherStep

LEMMA SweepStep ==
  ASSUME Inv, Sweeps
  PROVE  Inv'
<1>1. DOMAIN rows \subseteq 1..begun /\ DOMAIN files \subseteq 1..begun
      /\ begun \in Nat /\ begun \in 0..IdBound
      BY CheckpointsAssumption DEF Inv, Ledger, Files
<1>2. sweep \in Sweeping /\ sweep.referenced \in SUBSET Nat /\ sweep.todo \in SUBSET Nat
      /\ sweep.referenced \subseteq 1..begun /\ sweep.todo \subseteq 1..begun
      BY DEF Inv, Swept, Sweeping
<1>3. ASSUME UNCHANGED <<ledger, begun, files, store, sessions, pc, my>>, Swept' PROVE Inv'
      <2>1. Grows BY <1>1, <1>3 DEF Grows, ledger, store
      <2>2. Ledger' BY <1>3, <2>1, LedgerStays DEF ledger, Inv, Ledger
      <2>3. Files' /\ Promoted' /\ Documents' BY <1>3, <2>1, Unmoved DEF ledger, store
      <2>4. QED BY <1>3, <2>1, <2>2, <2>3, OtherStep DEF ledger
<1>4. CASE SweepListsRows
      <2>1. sweep' = [at |-> "files", referenced |-> DOMAIN rows, todo |-> {}] /\ begun' = begun
            BY <1>4 DEF SweepListsRows, Idle
      <2>2. DOMAIN rows \in SUBSET Nat BY <1>1
      <2>3. sweep' \in Sweeping BY <2>1, <2>2 DEF Sweeping
      <2>4. Swept' BY <1>1, <2>1, <2>3 DEF Swept
      <2>5. QED BY <1>3, <1>4, <2>4 DEF SweepListsRows
<1>5. CASE SweepListsFiles
      <2>1. /\ sweep' = [at |-> "removing", referenced |-> {}, todo |-> DOMAIN files \ sweep.referenced]
            /\ begun' = begun
            BY <1>5 DEF SweepListsFiles, Idle
      <2>2. DOMAIN files \ sweep.referenced \in SUBSET Nat BY <1>1
      <2>3. sweep' \in Sweeping BY <2>1, <2>2 DEF Sweeping
      <2>4. Swept' BY <1>1, <2>1, <2>3 DEF Swept
      <2>5. QED BY <1>3, <1>5, <2>4 DEF SweepListsFiles
<1>6. CASE SweepRemoves
      <2>1. UNCHANGED <<ledger, begun, store, sessions, pc, my>> BY <1>6 DEF SweepRemoves
      <2>2. CASE sweep.todo = {}
            <3>1. sweep' = Idle /\ UNCHANGED files BY <1>6, <2>2 DEF SweepRemoves
            <3>2. Swept' BY <3>1 DEF Idle, Swept, Sweeping
            <3>3. QED BY <1>3, <2>1, <3>1, <3>2
      <2>3. CASE sweep.todo # {}
            <3>1. PICK c \in sweep.todo :
                    /\ files' = Restrict(files, DOMAIN files \ {c})
                    /\ sweep' = [sweep EXCEPT !.todo = @ \ {c}]
                  BY <1>6, <2>3 DEF SweepRemoves
            <3>2. Grows /\ Ledger' /\ Files' /\ Promoted' /\ Documents' BY <2>1, <3>1, FilesRemoved
            <3>3. Swept' BY <1>2, <2>1, <3>1 DEF Swept, Sweeping
            <3>4. QED BY <2>1, <3>2, <3>3, OtherStep DEF ledger
      <2>4. QED BY <2>2, <2>3
<1>7. QED BY <1>4, <1>5, <1>6 DEF Sweeps

LEMMA InvStep == Inv /\ [Next]_vars => Inv'
<1> SUFFICES ASSUME Inv, [Next]_vars PROVE Inv' OBVIOUS
<1>1. CASE \E h \in Creators : CreateReads(h)
      <2>1. PICK h \in Creators : CreateReads(h) BY <1>1
      <2>2. QED BY <2>1, BegunStep, CheckpointsAssumption DEF CreateReads
<1>2. CASE \E h \in Handlers : Creates(h)
      <2>1. PICK h \in Handlers : Creates(h) BY <1>2
      <2>2. CASE CreateConflicts(h) BY <2>2, DoneStep DEF CreateConflicts
      <2>3. QED BY <2>1, <2>2, RefersStep, CommitsStep, ListsStep, LooksUpStep, RemovesStep DEF Creates
<1>3. CASE \E h \in Handlers, s \in Sessions, ok \in BOOLEAN : CreateStages(h, s, ok)
      BY <1>3, StagesStep
<1>4. CASE \E h \in Promoters, c \in Ids : PromoteReads(h, c)
      BY <1>4, ReadsStep, CheckpointsAssumption
<1>5. CASE \E h \in Handlers : PromoteFinds(h) BY <1>5, FindsStep
<1>6. CASE \E h \in Handlers : PromoteStores(h) BY <1>6, StoresStep
<1>7. CASE \E h \in Handlers : PromoteRegisters(h) BY <1>7, RegistersStep
<1>8. CASE \E h \in Handlers : PromotePins(h) BY <1>8, PinsStep
<1>9. CASE \E h \in Restorers : RestoreReads(h)
      <2>1. PICK h \in Restorers : RestoreReads(h) BY <1>9
      <2>2. QED BY <2>1, BegunStep, CheckpointsAssumption DEF RestoreReads
<1>10. CASE \E h \in Handlers, s \in Sessions : RestoreSaves(h, s) BY <1>10, RestoresStep
<1>11. CASE \E h \in Handlers : RestoreCommits(h) BY <1>11, ResumesStep
<1>12. CASE \E s \in Sessions, x \in Contexts : Corrects(s, x) BY <1>12, CorrectsStep
<1>13. CASE Abandons BY <1>13, AbandonsStep
<1>14. CASE \E h \in Handlers : Dies(h)
       <2>1. PICK h \in Handlers : Dies(h) BY <1>14
       <2>2. QED BY <2>1, DoneStep DEF Dies
<1>15. CASE Sweeps BY <1>15, SweepStep
<1>16. CASE UNCHANGED vars
       <2>1. UNCHANGED <<ledger, begun, files, store, sessions, pc, my, sweep>> BY <1>16 DEF vars
       <2>2. Grows BY <2>1, CheckpointsAssumption DEF Grows, ledger, store, Inv, Ledger
       <2>3. Ledger' BY <2>1, <2>2, LedgerStays DEF ledger, Inv, Ledger
       <2>4. QED BY <2>1, <2>2, <2>3, Unmoved, OtherStep DEF ledger, store
<1>17. QED BY <1>1, <1>2, <1>3, <1>4, <1>5, <1>6, <1>7, <1>8, <1>9, <1>10, <1>11, <1>12,
              <1>13, <1>14, <1>15, <1>16 DEF Next

LEMMA Invariant == Spec => []Inv
BY InitInv, InvStep, PTL DEF Spec
-----------------------------------------------------------------------------
(* The theorems.                                                           *)

\* What the handlers of progress.py and artifact_promotion.py and the sweep write has
\* the shape the others read: an artifact has its row and its bytes, a pin its artifact.
THEOREM TypeCorrect == Spec => []TypeOK
<1>1. Inv => TypeOK
      <2> SUFFICES ASSUME Inv PROVE TypeOK OBVIOUS
      <2>1. Range(rows) \subseteq Rows /\ Range(files) \subseteq Contexts
            /\ Range(artifacts) \subseteq objects /\ Range(sessions) \subseteq Contexts
            BY DEF Range, Inv, Ledger, Files, Promoted, Documents
      <2>2. ASSUME NEW h \in Handlers
            PROVE  my[h].expected \in Contexts \cup {None} /\ my[h].id \in 0..begun /\ my[h].keep \subseteq 1..begun
            BY HandlerFacts DEF Local, Locals
      <2>3. QED BY <2>1, <2>2 DEF TypeOK, Inv, Ledger, Files, Promoted, Documents, Swept
<1>2. QED BY <1>1, Invariant, PTL

\* The data of a checkpoint, in its file or in the artifact promoted from it, is of the
\* context its row says (create_checkpoint, promote_checkpoint_data).
THEOREM SnapshotOfItsContext == Spec => []SnapshotIsOfItsContext
<1>1. Inv => SnapshotIsOfItsContext BY DEF Inv, Ledger, Promoted, Says, SnapshotIsOfItsContext
<1>2. QED BY <1>1, Invariant, PTL

\* A checkpoint is committed on the context it has read: the only step that writes the
\* rows is the CAS of _commit_run_level.
THEOREM ContextNotUndone == Spec => ContextIsNotUndone
<1>1. [Next]_vars => (rows' # rows => run'.context = run.context)
      <2> SUFFICES ASSUME [Next]_vars, rows' # rows PROVE run'.context = run.context OBVIOUS
      <2>1. \E h \in Handlers : CreateCommits(h)
            BY DEF Next, vars, ledger, store, Creates, Sweeps, CreateReads, CreateStages, CreateRefers,
                   CreateConflicts, PruneLists, PruneLooksUp, PruneRemoves, PromoteReads, PromoteFinds,
                   PromoteStores, PromoteRegisters, PromotePins, RestoreReads, RestoreSaves, RestoreCommits,
                   Corrects, Abandons, Dies, SweepListsRows, SweepListsFiles, SweepRemoves
      <2>2. QED BY <2>1 DEF CreateCommits, Expected
<1>2. QED BY <1>1, PTL DEF Spec, ContextIsNotUndone
=============================================================================
