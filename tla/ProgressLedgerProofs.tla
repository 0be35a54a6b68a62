------------------------- MODULE ProgressLedgerProofs -------------------------
(***************************************************************************)
(* What ProgressLedger guarantees for every number of handlers, workers,   *)
(* sessions, reports and requests.  Everything rests on identifiers: until *)
(* a handler has committed its event nobody else has it, so it is not in   *)
(* the journal and, if it is a report, in no trace either.                 *)
(***************************************************************************)
EXTENDS ProgressLedger, SequenceTheorems, TLAPS

Typed ==
  /\ runs \in [Ids -> Run \cup {None}]
  /\ ledger \in [Ids -> Seq(Event)]
  /\ receipts \subseteq Receipt
  /\ tasks \in [OpIds -> Task \cup {None}]
  /\ sessions \in [Sessions -> Session \cup {None}]
  /\ drafts \in [Reports -> Draft \cup {None}]
  /\ ops \in 0..OpBound
  /\ aborts \in 0..AbortBound
  /\ losses \in 0..LossBound

Bears(doc, n) == \E i \in 1..Len(doc.trace) : doc.trace[i].id = n

OnceOnly(doc) ==
  \A i, j \in 1..Len(doc.trace) :
    doc.trace[i].kind = "reported" /\ doc.trace[i] = doc.trace[j] => i = j

\* Before its commit a handler has an event that nobody else has.
PreCommit == {"tracing", "tracesaving", "gating", "basing", "superseding",
              "looking", "owing", "committing"}

Vacant == {"idle", "delivering"}

Copied == {"tracesaving", "gating", "basing", "superseding", "looking", "saving",
           "mirrorsaving", "deliversaving"}

\* What a thread holds at a place.
Place(t, at, l) ==
  /\ t \in Handlers => at \in HandlerPCs
  /\ t \in Workers => at \in WorkerPCs
  /\ at \in Vacant => l = None
  /\ at \notin Vacant => l \in Local
  /\ at \in {"tracing", "tracesaving", "superseding"} => l.event.kind = "traced"
  /\ at \in {"gating", "saving"} => l.event.kind = "reported"
  /\ at \in {"basing", "looking"} => l.event.kind \in {"traced", "reported"}
  /\ at \in {"owing", "mirroring", "mirrorsaving"} => l.event.kind \in {"paused", "resumed"}
  /\ at \notin Vacant \cup {"tracing"} => l.event.run \in Ids
  /\ at \in Copied => l.copy \in Session
  /\ at = "committing" /\ l.event.kind = "reported" => l.copy \in Session
  /\ at \in {"superseding", "looking", "owing", "committing"} => l.base \in Run
  /\ at \in PreCommit => (l.op \in Reports <=> l.event.kind = "reported")
  /\ at \in PreCommit /\ l.op \in Reports => l.owes
  /\ l # None /\ l.copy # None => OnceOnly(l.copy)

\* What it may rely on in the tables.
Relies(at, l) ==
  /\ at \in {"saving", "marking", "deliversaving", "failing"} => tasks[l.op] # None
  /\ at \in {"mirroring", "mirrorsaving"} /\ l.owes => tasks[l.op] # None
  /\ at \in PreCommit /\ l.op \in Reports =>
       /\ drafts[l.op] # None /\ drafts[l.op].run = l.event.run
       /\ runs[l.event.run] # None
  /\ at \in {"basing", "looking", "committing"} /\ l.op \in Reports =>
       l.expected = drafts[l.op].ctx /\ runs[l.event.run].ctx # None

Knows(t) == Place(t, pc[t], my[t]) /\ Relies(pc[t], my[t])

Threaded ==
  /\ pc \in [Threads -> HandlerPCs \cup WorkerPCs]
  /\ my \in [Threads -> Local \cup {None}]
  /\ todo \in [Threads -> SUBSET OpIds]
  /\ \A t \in Threads : Knows(t)
  /\ \A t \in Threads : \A op \in todo[t] : tasks[op] # None

Written(n) ==
  \/ \E r \in Ids : \E i \in 1..Len(ledger[r]) : ledger[r][i].id = n
  \/ \E op \in OpIds : tasks[op] # None /\ tasks[op].event.id = n

Seen(n) ==
  \/ \E s \in Sessions : sessions[s] # None /\ Bears(sessions[s], n)
  \/ \E t \in Threads : my[t] # None /\ my[t].copy # None /\ Bears(my[t].copy, n)

IsFresh(t) ==
  pc[t] \in PreCommit =>
    /\ ~Written(my[t].event.id)
    /\ my[t].event.kind = "reported" => ~Seen(my[t].event.id)
    /\ \A u \in Threads \ {t} : my[u] # None => my[u].event.id # my[t].event.id

Fresh ==
  /\ \A n : Written(n) \/ Seen(n) => n \in 1..ops
  /\ \A t \in Threads : my[t] # None => my[t].event.id \in 1..ops
  /\ \A t \in Threads : IsFresh(t)

Receipted ==
  /\ \A x \in receipts : x.mark \in 1..Len(ledger[x.run]) /\ ledger[x.run][x.mark] = x.event
  /\ \A r \in Ids : \A i \in 1..Len(ledger[r]) : \E x \in receipts : x.run = r /\ x.mark = i

Owed == \A op \in OpIds : tasks[op] # None => tasks[op].event.run \in Ids

Once == \A s \in Sessions : sessions[s] # None => OnceOnly(sessions[s])

Inv == Typed /\ Threaded /\ Fresh /\ Receipted /\ Owed /\ Once
-----------------------------------------------------------------------------
(* Documents and events.                                                   *)

LEMMA WithTyped ==
  ASSUME NEW doc \in Session, NEW e \in Event
  PROVE  /\ With(doc, e) \in Session
         /\ With(doc, e).run = doc.run /\ With(doc, e).ctx = doc.ctx /\ With(doc, e).rev = doc.rev
         /\ Len(doc.trace) \in Nat /\ Len(With(doc, e).trace) = Len(doc.trace) + 1
         /\ \A i \in 1..Len(doc.trace) : With(doc, e).trace[i] = doc.trace[i]
         /\ With(doc, e).trace[Len(doc.trace) + 1] = e
<1>1. doc.trace \in Seq(Event) BY DEF Session
<1> DEFINE tr == Append(doc.trace, e)
<1>2. /\ tr \in Seq(Event) /\ Len(tr) = Len(doc.trace) + 1 /\ tr[Len(doc.trace) + 1] = e
      /\ \A i \in 1..Len(doc.trace) : tr[i] = doc.trace[i]
      BY <1>1, AppendProperties
<1>3. Len(doc.trace) \in Nat BY <1>1, LenProperties
<1>4. With(doc, e) = [doc EXCEPT !.trace = tr] BY DEF With
<1> HIDE DEF tr
<1>5. /\ With(doc, e) \in Session /\ With(doc, e).trace = tr
      /\ With(doc, e).run = doc.run /\ With(doc, e).ctx = doc.ctx /\ With(doc, e).rev = doc.rev
      BY <1>2, <1>4 DEF Session
<1>6. QED BY <1>2, <1>3, <1>5

LEMMA WithBears ==
  ASSUME NEW doc \in Session, NEW e \in Event, NEW n, Bears(With(doc, e), n)
  PROVE  Bears(doc, n) \/ n = e.id
<1>1. PICK i \in 1..Len(With(doc, e).trace) : With(doc, e).trace[i].id = n BY DEF Bears
<1>2. i \in 1..Len(doc.trace) \/ i = Len(doc.trace) + 1 BY <1>1, WithTyped
<1>3. CASE i \in 1..Len(doc.trace) BY <1>1, <1>3, WithTyped DEF Bears
<1>4. CASE i = Len(doc.trace) + 1 BY <1>1, <1>4, WithTyped
<1>5. QED BY <1>2, <1>3, <1>4

\* A report that the document does not have yet is appended once.
LEMMA WithOnce ==
  ASSUME NEW doc \in Session, NEW e \in Event, OnceOnly(doc),
         \/ e.kind # "reported" \/ ~Bears(doc, e.id) \/ ~Holds(doc, e)
  PROVE  OnceOnly(With(doc, e))
<1> DEFINE n == Len(doc.trace)
           w == With(doc, e)
<1>1. /\ n \in Nat /\ Len(w.trace) = n + 1 /\ w.trace[n + 1] = e
      /\ \A i \in 1..n : w.trace[i] = doc.trace[i]
      BY WithTyped
<1>2. DOMAIN doc.trace = 1..n BY LenProperties DEF Session
<1>3. ASSUME NEW i \in 1..n, doc.trace[i] = e PROVE e.kind # "reported"
      <2>1. Bears(doc, e.id) /\ Holds(doc, e) BY <1>2, <1>3 DEF Bears, Holds
      <2>2. QED BY <2>1
<1> HIDE DEF n, w
<1>4. ASSUME NEW i \in 1..(n + 1), NEW j \in 1..(n + 1),
             w.trace[i].kind = "reported", w.trace[i] = w.trace[j]
      PROVE  i = j
      <2>1. CASE i \in 1..n /\ j \in 1..n BY <1>1, <1>4, <2>1 DEF OnceOnly, n
      <2>2. CASE i = n + 1 /\ j \in 1..n BY <1>1, <1>3, <1>4, <2>2
      <2>3. CASE i \in 1..n /\ j = n + 1 BY <1>1, <1>3, <1>4, <2>3
      <2>4. QED BY <1>1, <2>1, <2>2, <2>3
<1>5. QED BY <1>1, <1>4 DEF OnceOnly, w

\* The number of a revision and the run are not part of the trace.
LEMMA SameTrace ==
  ASSUME NEW doc, NEW other, other.trace = doc.trace
  PROVE  /\ OnceOnly(other) <=> OnceOnly(doc)
         /\ \A n : Bears(other, n) <=> Bears(doc, n)
BY DEF OnceOnly, Bears
-----------------------------------------------------------------------------
(* What was there stays.                                                   *)

Grows ==
  /\ \A r \in Ids : runs[r] # None => runs'[r] # None /\ (runs[r].ctx # None => runs'[r].ctx # None)
  /\ \A p \in Reports : drafts[p] # None => drafts'[p] = drafts[p]
  /\ \A op \in OpIds : tasks[op] # None => tasks'[op] # None

LEMMA RelianceStays ==
  ASSUME Inv, Grows, NEW t \in Threads, NEW at, NEW l, Place(t, at, l), Relies(at, l)
  PROVE  Relies(at, l)'
<1>1. at \notin Vacant => l \in Local /\ l.op \in OpIds BY DEF Place, Local
<1>2. at \notin Vacant \cup {"tracing"} => l.event.run \in Ids BY DEF Place
<1>3. at \in {"saving", "marking", "deliversaving", "failing", "mirroring", "mirrorsaving"} => at \notin Vacant
      BY DEF Vacant
<1>4. at \in PreCommit => at \notin Vacant BY DEF PreCommit, Vacant
<1>5. at \in {"saving", "marking", "deliversaving", "failing"} => tasks'[l.op] # None
      BY <1>1, <1>3 DEF Relies, Grows
<1>6. at \in {"mirroring", "mirrorsaving"} /\ l.owes => tasks'[l.op] # None
      BY <1>1, <1>3 DEF Relies, Grows
<1>7. ASSUME at \in PreCommit, l.op \in Reports
      PROVE  /\ drafts'[l.op] # None /\ drafts'[l.op] = drafts[l.op] /\ drafts'[l.op].run = l.event.run
             /\ runs'[l.event.run] # None
             /\ runs[l.event.run].ctx # None => runs'[l.event.run].ctx # None
      <2>1. drafts[l.op] # None /\ drafts[l.op].run = l.event.run /\ runs[l.event.run] # None
            BY <1>7 DEF Relies
      <2>2. drafts'[l.op] = drafts[l.op] BY <1>7, <2>1 DEF Grows
      <2>3. l.event.run \in Ids
            <3>1. drafts[l.op] \in Draft BY <1>7, <2>1 DEF Inv, Typed
            <3>2. QED BY <2>1, <3>1 DEF Draft
      <2>4. QED BY <2>1, <2>2, <2>3 DEF Grows
<1>8. at \in {"basing", "looking", "committing"} => at \in PreCommit BY DEF PreCommit
<1>9. QED BY <1>5, <1>6, <1>7, <1>8 DEF Relies

Turns(t, at, l) == pc' = [pc EXCEPT ![t] = at] /\ my' = [my EXCEPT ![t] = l]

\* One thread goes on, the others stay where they are.
LEMMA ThreadMoves ==
  ASSUME Inv, Grows, NEW t \in Threads, NEW at \in HandlerPCs \cup WorkerPCs, NEW l \in Local \cup {None},
         Turns(t, at, l), Place(t, at, l), Relies(at, l)',
         todo' \in [Threads -> SUBSET OpIds],
         \A u \in Threads : \A op \in todo'[u] : op \in todo[u] \/ tasks[op] # None
  PROVE  /\ Threaded'
         /\ pc'[t] = at /\ my'[t] = l
         /\ \A u \in Threads \ {t} : pc'[u] = pc[u] /\ my'[u] = my[u]
<1>1. /\ pc \in [Threads -> HandlerPCs \cup WorkerPCs] /\ my \in [Threads -> Local \cup {None}]
      /\ todo \in [Threads -> SUBSET OpIds]
      BY DEF Inv, Threaded
<1>2. /\ pc' \in [Threads -> HandlerPCs \cup WorkerPCs] /\ my' \in [Threads -> Local \cup {None}]
      /\ pc'[t] = at /\ my'[t] = l
      /\ \A u \in Threads \ {t} : pc'[u] = pc[u] /\ my'[u] = my[u]
      BY <1>1 DEF Turns
<1>3. ASSUME NEW u \in Threads PROVE Knows(u)'
      <2>1. CASE u = t
            <3>1. Place(u, pc'[u], my'[u]) /\ \A x, y : x = at /\ y = l => Relies(x, y)'
                  BY <1>2, <2>1
            <3>2. QED BY <1>2, <2>1, <3>1 DEF Knows, Relies
      <2>2. CASE u # t
            <3>1. Place(u, pc[u], my[u]) /\ Relies(pc[u], my[u]) BY DEF Inv, Threaded, Knows
            <3>2. \A x, y : x = pc[u] /\ y = my[u] => Relies(x, y)' BY <3>1, RelianceStays
            <3>3. QED BY <1>2, <2>2, <3>1, <3>2 DEF Knows, Relies
      <2>3. QED BY <2>1, <2>2
<1>4. ASSUME NEW u \in Threads, NEW op \in todo'[u] PROVE tasks'[op] # None
      <2>1. tasks[op] # None BY <1>4 DEF Inv, Threaded
      <2>2. op \in OpIds BY <1>4
      <2>3. QED BY <2>1, <2>2 DEF Grows
<1>5. QED BY <1>2, <1>3, <1>4 DEF Threaded

LEMMA ThreadsStay ==
  ASSUME Inv, Grows, UNCHANGED <<pc, my, todo>>
  PROVE  Threaded'
<1>1. ASSUME NEW u \in Threads PROVE Knows(u)'
      <2>1. Place(u, pc[u], my[u]) /\ Relies(pc[u], my[u]) BY DEF Inv, Threaded, Knows
      <2>2. \A x, y : x = pc[u] /\ y = my[u] => Relies(x, y)' BY <2>1, RelianceStays
      <2>3. QED BY <2>1, <2>2 DEF Knows, Relies
<1>2. ASSUME NEW u \in Threads, NEW op \in todo[u] PROVE tasks'[op] # None
      <2>1. tasks[op] # None /\ op \in OpIds BY DEF Inv, Threaded
      <2>2. QED BY <2>1 DEF Grows
<1>3. QED BY <1>1, <1>2 DEF Inv, Threaded
-----------------------------------------------------------------------------
(* An event that nobody else has stays so.                                 *)

\* What the sessions and a thread have after a step was there before, or is the
\* thread's own event.
LEMMA SeenBefore ==
  ASSUME NEW t \in Threads, NEW n, Seen(n)',
         \A u \in Threads \ {t} : my'[u] = my[u],
         \A s \in Sessions : \A k : sessions'[s] # None /\ Bears(sessions'[s], k) => Seen(k)
  PROVE  Seen(n) \/ (my'[t] # None /\ my'[t].copy # None /\ Bears(my'[t].copy, n))
<1>1. \/ \E s \in Sessions : sessions'[s] # None /\ Bears(sessions'[s], n)
      \/ \E u \in Threads : my'[u] # None /\ my'[u].copy # None /\ Bears(my'[u].copy, n)
      BY DEF Seen, Bears
<1>2. CASE \E s \in Sessions : sessions'[s] # None /\ Bears(sessions'[s], n) BY <1>2
<1>3. CASE \E u \in Threads : my'[u] # None /\ my'[u].copy # None /\ Bears(my'[u].copy, n)
      <2>1. PICK u \in Threads : my'[u] # None /\ my'[u].copy # None /\ Bears(my'[u].copy, n) BY <1>3
      <2>2. CASE u = t BY <2>1, <2>2
      <2>3. CASE u # t BY <2>1, <2>3 DEF Seen
      <2>4. QED BY <2>2, <2>3
<1>4. QED BY <1>1, <1>2, <1>3

LEMMA FreshKept ==
  ASSUME Inv, NEW t \in Threads, ops' = ops,
         \A u \in Threads \ {t} : pc'[u] = pc[u] /\ my'[u] = my[u],
         my'[t] # None =>
           \/ my[t] # None /\ my'[t].event.id = my[t].event.id
           \/ Written(my'[t].event.id),
         \A n : Written(n)' => Written(n) \/ (my[t] # None /\ n = my[t].event.id),
         \A s \in Sessions : \A n : sessions'[s] # None /\ Bears(sessions'[s], n) => Seen(n),
         my'[t] # None /\ my'[t].copy # None => \A n : Bears(my'[t].copy, n) =>
           Seen(n) \/ Written(n) \/ (my[t] # None /\ n = my[t].event.id),
         pc'[t] \in PreCommit =>
           /\ pc[t] \in PreCommit /\ my[t] # None /\ my'[t] # None
           /\ my'[t].event.id = my[t].event.id /\ my'[t].event.kind = my[t].event.kind
           /\ my[t].event.kind = "reported" => my'[t].copy = my[t].copy
           /\ \A n : Written(n)' => Written(n)
  PROVE  Fresh'
<1>1. /\ \A n : Written(n) \/ Seen(n) => n \in 1..ops
      /\ \A u \in Threads : my[u] # None => my[u].event.id \in 1..ops
      /\ \A u \in Threads : IsFresh(u)
      BY DEF Inv, Fresh
<1>2. ASSUME NEW n, Seen(n)'
      PROVE  Seen(n) \/ Written(n) \/ (my[t] # None /\ n = my[t].event.id)
      <2>1. Seen(n) \/ (my'[t] # None /\ my'[t].copy # None /\ Bears(my'[t].copy, n))
            BY <1>2, SeenBefore
      <2>2. QED BY <2>1
<1>3. \A n : Written(n)' \/ Seen(n)' => n \in 1..ops BY <1>1, <1>2
<1>4. \A u \in Threads : my'[u] # None => my'[u].event.id \in 1..ops BY <1>1
<1>5. ASSUME NEW u \in Threads, u # t PROVE IsFresh(u)'
      <2> SUFFICES ASSUME pc[u] \in PreCommit
          PROVE  /\ ~Written(my[u].event.id)'
                 /\ my[u].event.kind = "reported" => ~Seen(my[u].event.id)'
                 /\ \A v \in Threads \ {u} : my'[v] # None => my'[v].event.id # my[u].event.id
          BY <1>5 DEF IsFresh
      <2>1. my[u] # None /\ my[u].event.id \in 1..ops
            <3>1. Place(u, pc[u], my[u]) BY DEF Inv, Threaded, Knows
            <3>2. my[u] \in Local BY <3>1 DEF Place, PreCommit, Vacant
            <3>3. QED BY <1>1, <3>2, NoneAssumption
      <2> DEFINE n == my[u].event.id
      <2>2. /\ ~Written(n)
            /\ my[u].event.kind = "reported" => ~Seen(n)
            /\ \A v \in Threads \ {u} : my[v] # None => my[v].event.id # n
            BY <1>1 DEF IsFresh
      <2>3. my[t] # None => my[t].event.id # n BY <1>5, <2>2
      <2>4. ~(\E k : k = n /\ Written(k)') BY <2>2, <2>3
      <2>5. my[u].event.kind = "reported" => ~(\E k : k = n /\ Seen(k)') BY <1>2, <2>2, <2>3
      <2>6. \A v \in Threads \ {u} : my'[v] # None => my'[v].event.id # n
            BY <1>5, <2>2, <2>3
      <2>7. my'[u] = my[u] BY <1>5
      <2>8. QED BY <2>4, <2>5, <2>6, <2>7
<1>6. IsFresh(t)'
      <2> SUFFICES ASSUME pc'[t] \in PreCommit
          PROVE  /\ ~(\E k : k = my'[t].event.id /\ Written(k)')
                 /\ my'[t].event.kind = "reported" => ~(\E k : k = my'[t].event.id /\ Seen(k)')
                 /\ \A v \in Threads \ {t} : my'[v] # None => my'[v].event.id # my'[t].event.id
          BY DEF IsFresh
      <2>1. /\ pc[t] \in PreCommit /\ my[t] # None /\ my'[t] # None
            /\ my'[t].event.id = my[t].event.id /\ my'[t].event.kind = my[t].event.kind
            /\ my[t].event.kind = "reported" => my'[t].copy = my[t].copy
            /\ \A n : Written(n)' => Written(n)
            OBVIOUS
      <2>2. /\ ~Written(my[t].event.id)
            /\ my[t].event.kind = "reported" => ~Seen(my[t].event.id)
            /\ \A v \in Threads \ {t} : my[v] # None => my[v].event.id # my[t].event.id
            BY <1>1, <2>1 DEF IsFresh
      <2>3. ASSUME my[t].event.kind = "reported", NEW k, k = my[t].event.id, Seen(k)' PROVE FALSE
            <3>1. Seen(k) \/ (my'[t] # None /\ my'[t].copy # None /\ Bears(my'[t].copy, k))
                  BY <2>3, SeenBefore
            <3>2. my'[t].copy = my[t].copy BY <2>1, <2>3
            <3>3. CASE my'[t] # None /\ my'[t].copy # None /\ Bears(my'[t].copy, k)
                  BY <2>1, <2>2, <2>3, <3>2, <3>3 DEF Seen
            <3>4. QED BY <2>2, <2>3, <3>1, <3>3
      <2>4. ~(\E k : k = my'[t].event.id /\ Written(k)') BY <2>1, <2>2
      <2>5. my'[t].event.kind = "reported" => ~(\E k : k = my'[t].event.id /\ Seen(k)')
            BY <2>1, <2>3
      <2>6. \A v \in Threads \ {t} : my'[v] # None => my'[v].event.id # my'[t].event.id
            BY <2>1, <2>2
      <2>7. QED BY <2>4, <2>5, <2>6
<1>7. QED BY <1>3, <1>4, <1>5, <1>6 DEF Fresh

\* A new request takes a number that nothing has.
LEMMA FreshBegins ==
  ASSUME Inv, NEW t \in Threads, ops' = ops + 1,
         \A u \in Threads \ {t} : pc'[u] = pc[u] /\ my'[u] = my[u],
         my'[t] # None, my'[t].event.id = ops + 1,
         \A n : Written(n)' => Written(n),
         \A s \in Sessions : \A n : sessions'[s] # None /\ Bears(sessions'[s], n) => Seen(n),
         my'[t].copy # None => \A n : Bears(my'[t].copy, n) => Seen(n)
  PROVE  Fresh'
<1>1. /\ \A n : Written(n) \/ Seen(n) => n \in 1..ops
      /\ \A u \in Threads : my[u] # None => my[u].event.id \in 1..ops
      /\ \A u \in Threads : IsFresh(u)
      BY DEF Inv, Fresh
<1>2. ASSUME NEW n, Seen(n)' PROVE Seen(n) BY <1>2, SeenBefore
<1>3. ops \in Nat BY ConstantsAssumption DEF Inv, Typed
<1>4. 1..ops \subseteq 1..ops' /\ ops + 1 \in 1..ops' /\ ops + 1 \notin 1..ops BY <1>3
<1>5. \A n : Written(n)' \/ Seen(n)' => n \in 1..ops' BY <1>1, <1>2, <1>4
<1>6. \A u \in Threads : my'[u] # None => my'[u].event.id \in 1..ops'
      BY <1>1, <1>4
<1>7. ASSUME NEW u \in Threads, u # t PROVE IsFresh(u)'
      <2> SUFFICES ASSUME pc[u] \in PreCommit
          PROVE  /\ ~Written(my[u].event.id)'
                 /\ my[u].event.kind = "reported" => ~Seen(my[u].event.id)'
                 /\ \A v \in Threads \ {u} : my'[v] # None => my'[v].event.id # my[u].event.id
          BY <1>7 DEF IsFresh
      <2>1. my[u] # None /\ my[u].event.id \in 1..ops
            <3>1. Place(u, pc[u], my[u]) BY DEF Inv, Threaded, Knows
            <3>2. my[u] \in Local BY <3>1 DEF Place, PreCommit, Vacant
            <3>3. QED BY <1>1, <3>2, NoneAssumption
      <2> DEFINE n == my[u].event.id
      <2>2. /\ ~Written(n)
            /\ my[u].event.kind = "reported" => ~Seen(n)
            /\ \A v \in Threads \ {u} : my[v] # None => my[v].event.id # n
            BY <1>1 DEF IsFresh
      <2>3. ~(\E k : k = n /\ Written(k)') BY <2>2
      <2>4. my[u].event.kind = "reported" => ~(\E k : k = n /\ Seen(k)') BY <1>2, <2>2
      <2>5. \A v \in Threads \ {u} : my'[v] # None => my'[v].event.id # n
            BY <1>4, <1>7, <2>1, <2>2
      <2>6. my'[u] = my[u] BY <1>7
      <2>7. QED BY <2>3, <2>4, <2>5, <2>6
<1>8. IsFresh(t)'
      <2>1. ~(\E k : k = my'[t].event.id /\ Written(k)') BY <1>1, <1>4
      <2>2. ~(\E k : k = my'[t].event.id /\ Seen(k)') BY <1>1, <1>2, <1>4
      <2>3. \A v \in Threads \ {t} : my'[v] # None => my'[v].event.id # my'[t].event.id
            BY <1>1, <1>4
      <2>4. QED BY <2>1, <2>2, <2>3 DEF IsFresh
<1>9. QED BY <1>5, <1>6, <1>7, <1>8 DEF Fresh

\* A step of no thread that writes nothing and shows nothing new.
LEMMA FreshStays ==
  ASSUME Inv, UNCHANGED <<pc, my, ops>>,
         \A n : Written(n)' => Written(n),
         \A s \in Sessions : \A n : sessions'[s] # None /\ Bears(sessions'[s], n) => Seen(n)
  PROVE  Fresh'
<1>1. ASSUME NEW n, Seen(n)' PROVE Seen(n)
      <2>1. \/ \E s \in Sessions : sessions'[s] # None /\ Bears(sessions'[s], n)
            \/ \E u \in Threads : my'[u] # None /\ my'[u].copy # None /\ Bears(my'[u].copy, n)
            BY <1>1 DEF Seen, Bears
      <2>2. QED BY <2>1 DEF Seen
<1>2. ASSUME NEW u \in Threads PROVE IsFresh(u)'
      <2>1. IsFresh(u) BY DEF Inv, Fresh
      <2>2. pc[u] \in PreCommit => ~(\E k : k = my[u].event.id /\ Written(k)') BY <2>1 DEF IsFresh
      <2>3. pc[u] \in PreCommit /\ my[u].event.kind = "reported"
              => ~(\E k : k = my[u].event.id /\ Seen(k)') BY <1>1, <2>1 DEF IsFresh
      <2>4. QED BY <2>1, <2>2, <2>3 DEF IsFresh
<1>3. QED BY <1>1, <1>2 DEF Inv, Fresh
-----------------------------------------------------------------------------
(* Steps that only look, and steps that save a session.                    *)

LEMMA TablesStay ==
  ASSUME Inv, UNCHANGED tables
  PROVE  Receipted' /\ Owed' /\ \A n : Written(n)' => Written(n)
BY DEF Inv, Receipted, Owed, Written, tables

LEMMA LookStep ==
  ASSUME Inv, UNCHANGED <<tables, sessions, drafts, ops, losses>>, aborts' \in 0..AbortBound,
         NEW t \in Threads, NEW at \in HandlerPCs \cup WorkerPCs, NEW l \in Local \cup {None},
         Turns(t, at, l), Place(t, at, l), Relies(at, l),
         todo' \in [Threads -> SUBSET OpIds],
         \A u \in Threads : \A op \in todo'[u] : op \in todo[u] \/ tasks[op] # None,
         l # None => (my[t] # None /\ l.event.id = my[t].event.id) \/ Written(l.event.id),
         l # None /\ l.copy # None => \A n : Bears(l.copy, n) =>
           Seen(n) \/ Written(n) \/ (my[t] # None /\ n = my[t].event.id),
         at \in PreCommit =>
           /\ pc[t] \in PreCommit
           /\ l.event.id = my[t].event.id /\ l.event.kind = my[t].event.kind
           /\ my[t].event.kind = "reported" => l.copy = my[t].copy
  PROVE  Inv'
<1>1. Receipted' /\ Owed' /\ \A n : Written(n)' => Written(n) BY TablesStay
<1>2. Typed' /\ Once' BY DEF Inv, Typed, Once, tables
<1>3. Grows BY DEF Grows, tables
<1>4. Relies(at, l)' BY DEF Relies, tables
<1>5. /\ Threaded' /\ pc'[t] = at /\ my'[t] = l
      /\ \A u \in Threads \ {t} : pc'[u] = pc[u] /\ my'[u] = my[u]
      BY <1>3, <1>4, ThreadMoves
<1>6. at \in PreCommit => l # None /\ my[t] # None
      <2>1. Place(t, pc[t], my[t]) BY DEF Inv, Threaded, Knows
      <2>2. QED BY <2>1, NoneAssumption DEF Place, PreCommit, Vacant
<1>7. \A s \in Sessions : \A n : sessions'[s] # None /\ Bears(sessions'[s], n) => Seen(n)
      BY DEF Seen
<1>8. Fresh' BY <1>1, <1>5, <1>6, <1>7, FreshKept
<1>9. QED BY <1>1, <1>2, <1>5, <1>8 DEF Inv

LEMMA SaveStep ==
  ASSUME Inv, UNCHANGED <<tables, drafts, ops, aborts, losses, todo>>,
         NEW t \in Threads, NEW at \in HandlerPCs \cup WorkerPCs, NEW l \in {my[t], None},
         Save(t), my[t] # None, my[t].copy \in Session,
         Turns(t, at, l), Place(t, at, l), Relies(at, l),
         at \in PreCommit => pc[t] \in PreCommit /\ l = my[t]
  PROVE  Inv'
<1> DEFINE s == my[t].session
           d == [my[t].copy EXCEPT !.rev = @ + 1]
<1>1. Receipted' /\ Owed' /\ \A n : Written(n)' => Written(n) BY TablesStay
<1>2. my[t] \in Local /\ s \in Sessions /\ Place(t, pc[t], my[t])
      BY DEF Inv, Threaded, Knows, Local
<1>3. d \in Session /\ d.trace = my[t].copy.trace BY DEF Session
<1>4. OnceOnly(d) /\ \A n : Bears(d, n) => Seen(n)
      <2>1. OnceOnly(my[t].copy) BY <1>2, NoneAssumption DEF Place, Session
      <2>2. \A n : Bears(my[t].copy, n) => Seen(n) BY NoneAssumption DEF Seen
      <2>3. QED BY <1>3, <2>1, <2>2, SameTrace
<1>5. sessions' = [sessions EXCEPT ![s] = d] BY DEF Save
<1> HIDE DEF d
<1>6. Typed' BY <1>2, <1>3, <1>5 DEF Inv, Typed, tables
<1>7. Once' BY <1>2, <1>4, <1>5 DEF Inv, Typed, Once
<1>8. Grows BY DEF Grows, tables
<1>9. Relies(at, l)' BY DEF Relies, tables
<1>10. /\ Threaded' /\ pc'[t] = at /\ my'[t] = l
       /\ \A u \in Threads \ {t} : pc'[u] = pc[u] /\ my'[u] = my[u]
       <2>1. l \in Local \cup {None} BY <1>2
       <2>2. /\ todo' \in [Threads -> SUBSET OpIds]
             /\ \A u \in Threads : \A op \in todo'[u] : op \in todo[u] \/ tasks[op] # None
             BY DEF Inv, Threaded
       <2>3. QED BY <1>8, <1>9, <2>1, <2>2, ThreadMoves
<1>11. \A x \in Sessions : \A n : sessions'[x] # None /\ Bears(sessions'[x], n) => Seen(n)
       <2>1. ASSUME NEW x \in Sessions, NEW n, sessions'[x] # None, Bears(sessions'[x], n) PROVE Seen(n)
             <3>1. CASE x = s BY <1>2, <1>4, <1>5, <2>1, <3>1 DEF Inv, Typed
             <3>2. CASE x # s BY <1>2, <1>5, <2>1, <3>2 DEF Inv, Typed, Seen
             <3>3. QED BY <3>1, <3>2
       <2>2. QED BY <2>1
<1>12. Fresh'
       <2>1. my'[t] # None => my'[t] = my[t] BY <1>10
       <2>2. my'[t] # None /\ my'[t].copy # None => \A n : Bears(my'[t].copy, n) => Seen(n)
             BY <2>1 DEF Seen
       <2>3. pc'[t] \in PreCommit => pc[t] \in PreCommit /\ my'[t] = my[t] BY <1>10
       <2>4. QED BY <1>1, <1>10, <1>11, <2>1, <2>2, <2>3, FreshKept
<1>13. QED BY <1>1, <1>6, <1>7, <1>10, <1>12 DEF Inv
-----------------------------------------------------------------------------

LEMMA Holder ==
  ASSUME Inv, NEW t \in Threads, pc[t] \notin Vacant
  PROVE  /\ my[t] \in Local /\ my[t] # None /\ my[t].event.id \in Ids
         /\ Place(t, pc[t], my[t]) /\ Relies(pc[t], my[t])
<1>1. Place(t, pc[t], my[t]) /\ Relies(pc[t], my[t]) BY DEF Inv, Threaded, Knows
<1>2. my[t] \in Local /\ my[t] # None BY <1>1, NoneAssumption DEF Place
<1>3. my[t].event.id \in Ids BY <1>2 DEF Local, Event
<1>4. QED BY <1>1, <1>2, <1>3

LEMMA DonePlace ==
  ASSUME NEW t \in Threads, Done(t)
  PROVE  \E at \in Vacant : Turns(t, at, None) /\ Place(t, at, None)
<1> DEFINE at == IF t \in Workers THEN "delivering" ELSE "idle"
<1>1. at \in Vacant /\ Turns(t, at, None) BY DEF Vacant, Turns, Done, Goto
<1>2. (t \in Handlers => at \in HandlerPCs) /\ (t \in Workers => at \in WorkerPCs)
      BY ConstantsAssumption DEF HandlerPCs, WorkerPCs
<1>3. \A x \in Vacant :
        (t \in Handlers => x \in HandlerPCs) /\ (t \in Workers => x \in WorkerPCs) => Place(t, x, None)
      BY DEF Place, Vacant, Copied, PreCommit
<1>4. QED BY <1>1, <1>2, <1>3

LEMMA VacantRelies ==
  ASSUME NEW at \in Vacant, NEW l
  PROVE  /\ Relies(at, l) /\ Relies(at, l)'
         /\ at \in HandlerPCs \cup WorkerPCs /\ at \notin PreCommit
BY DEF Vacant, Relies, PreCommit, HandlerPCs, WorkerPCs

LEMMA DoneLooks ==
  ASSUME Inv, NEW t \in Threads, Done(t),
         UNCHANGED <<tables, sessions, drafts, ops, aborts, losses, todo>>
  PROVE  Inv'
<1>1. PICK at \in Vacant : Turns(t, at, None) /\ Place(t, at, None) BY DonePlace
<1>2. /\ aborts' \in 0..AbortBound /\ todo' \in [Threads -> SUBSET OpIds]
      /\ \A u \in Threads : \A op \in todo'[u] : op \in todo[u]
      BY DEF Inv, Typed, Threaded
<1>3. Relies(at, None) /\ at \in HandlerPCs \cup WorkerPCs /\ at \notin PreCommit
      BY <1>1, VacantRelies
<1>4. QED BY <1>1, <1>2, <1>3, LookStep

LEMMA HandlerLooks ==
  ASSUME Inv, UNCHANGED <<tables, sessions, drafts, ops, aborts, losses, todo>>,
         NEW h \in Threads, NEW at \in HandlerPCs \cup WorkerPCs, NEW l \in Local,
         pc[h] \notin Vacant,
         Turns(h, at, l), Place(h, at, l), Relies(at, l),
         l.event.id = my[h].event.id,
         l.copy # None => \A n : Bears(l.copy, n) => Seen(n) \/ n = my[h].event.id,
         at \in PreCommit =>
           /\ pc[h] \in PreCommit /\ l.event.kind = my[h].event.kind
           /\ my[h].event.kind = "reported" => l.copy = my[h].copy
  PROVE  Inv'
<1>1. my[h] # None BY Holder
<1>2. /\ aborts' \in 0..AbortBound /\ todo' \in [Threads -> SUBSET OpIds]
      /\ \A u \in Threads : \A op \in todo'[u] : op \in todo[u]
      BY DEF Inv, Typed, Threaded
<1>3. QED BY <1>1, <1>2, LookStep

LEMMA HookReadsStep ==
  ASSUME Inv, NEW h \in Handlers, HookReads(h)
  PROVE  Inv'
<1> DEFINE s == my[h].session
           r == EnsuredRun(h)
           e == [my[h].event EXCEPT !.run = r]
           w == With(sessions[s], e)
           c == [w EXCEPT !.run = r]
           l == [my[h] EXCEPT !.event = e, !.copy = c]
<1>1. h \in Threads /\ pc[h] = "tracing" /\ pc[h] \notin Vacant BY DEF HookReads, Threads, Vacant
<1>2. /\ my[h] \in Local /\ my[h] # None /\ my[h].event \in Event /\ my[h].event.id \in Ids
      /\ s \in Sessions /\ my[h].event.kind = "traced" /\ my[h].op \notin Reports
      BY <1>1, Holder DEF Place, Local, PreCommit
<1>3. CASE sessions[s] = None
      <2>1. Done(h) /\ UNCHANGED <<tables, sessions, drafts, ops, aborts, losses, todo>>
            BY <1>3 DEF HookReads
      <2>2. QED BY <1>1, <2>1, DoneLooks
<1>4. CASE sessions[s] # None
      <2>1. sessions[s] \in Session /\ OnceOnly(sessions[s]) BY <1>2, <1>4 DEF Inv, Typed, Once
      <2>2. r \in Ids BY <1>2, <2>1 DEF EnsuredRun, Session
      <2>3. e \in Event /\ e.id = my[h].event.id /\ e.kind = "traced" /\ e.run = r
            <3> HIDE DEF r
            <3>1. QED BY <1>2, <2>2 DEF Event
      <2>4. /\ pc' = [pc EXCEPT ![h] = "tracesaving"]
            /\ my' = [my EXCEPT ![h].event = e, ![h].copy = c]
            /\ UNCHANGED <<tables, sessions, drafts, ops, aborts, losses, todo>>
            BY <1>4 DEF HookReads, Goto
      <2> HIDE DEF r, e
      <2>5. w \in Session /\ OnceOnly(w) /\ \A n : Bears(w, n) => Bears(sessions[s], n) \/ n = e.id
            BY <2>1, <2>3, WithTyped, WithOnce, WithBears
      <2> HIDE DEF w
      <2>6. c \in Session /\ c.trace = w.trace BY <2>2, <2>5 DEF Session
      <2> HIDE DEF c
      <2>7. OnceOnly(c) /\ \A n : Bears(c, n) => Seen(n) \/ n = my[h].event.id
            <3>1. \A n : Bears(c, n) => Bears(w, n) BY <2>6, SameTrace
            <3>2. OnceOnly(c) BY <2>5, <2>6, SameTrace
            <3>3. QED BY <1>2, <1>4, <2>3, <2>5, <3>1, <3>2 DEF Seen
      <2>8. /\ l \in Local /\ l.event = e /\ l.copy = c /\ l.op = my[h].op
            BY <1>2, <2>3, <2>6 DEF Local
      <2>9. Turns(h, "tracesaving", l) BY <1>2, <2>4 DEF Turns
      <2> HIDE DEF l
      <2>10. Place(h, "tracesaving", l)
            BY <1>2, <2>2, <2>3, <2>6, <2>7, <2>8, ConstantsAssumption
            DEF Place, HandlerPCs, Vacant, Copied, PreCommit
      <2>11. Relies("tracesaving", l) BY <1>2, <2>8 DEF Relies
      <2>12. "tracesaving" \in HandlerPCs BY DEF HandlerPCs
      <2>13. pc[h] \in PreCommit BY <1>1 DEF PreCommit
      <2>14. QED BY <1>1, <1>2, <2>3, <2>4, <2>7, <2>8, <2>9, <2>10, <2>11, <2>12, <2>13, HandlerLooks
<1>5. QED BY <1>3, <1>4

\* A save that leads on to another place, with what the thread has read.
LEMMA SaveGoesOn ==
  ASSUME Inv, UNCHANGED <<tables, drafts, ops, aborts, losses, my, todo>>,
         NEW t \in Threads, NEW at \in HandlerPCs \cup WorkerPCs, pc[t] \notin Vacant,
         Save(t), my[t].copy \in Session, Goto(t, at), Place(t, at, my[t]), Relies(at, my[t]),
         at \in PreCommit => pc[t] \in PreCommit
  PROVE  Inv'
<1>1. my[t] # None BY Holder
<1>2. my \in [Threads -> Local \cup {None}] BY DEF Inv, Threaded
<1>3. Turns(t, at, my[t]) BY <1>2 DEF Turns, Goto
<1>4. QED BY <1>1, <1>3, SaveStep

LEMMA SaveDone ==
  ASSUME Inv, UNCHANGED <<tables, drafts, ops, aborts, losses, todo>>,
         NEW t \in Threads, pc[t] \notin Vacant,
         Save(t), my[t].copy \in Session, Done(t)
  PROVE  Inv'
<1>1. my[t] # None BY Holder
<1>2. PICK at \in Vacant : Turns(t, at, None) /\ Place(t, at, None) BY DonePlace
<1>3. Relies(at, None) /\ at \in HandlerPCs \cup WorkerPCs /\ at \notin PreCommit
      BY <1>2, VacantRelies
<1>4. QED BY <1>1, <1>2, <1>3, SaveStep

\* Going on with what the thread has read and nothing else.
LEMMA GoesOn ==
  ASSUME Inv, UNCHANGED <<tables, sessions, drafts, ops, aborts, losses, my, todo>>,
         NEW t \in Threads, NEW at \in HandlerPCs \cup WorkerPCs, pc[t] \notin Vacant,
         Goto(t, at), Place(t, at, my[t]), Relies(at, my[t]),
         at \in PreCommit => pc[t] \in PreCommit
  PROVE  Inv'
<1>1. my[t] # None /\ my[t] \in Local BY Holder
<1>2. my \in [Threads -> Local \cup {None}] BY DEF Inv, Threaded
<1>3. Turns(t, at, my[t]) BY <1>2 DEF Turns, Goto
<1>4. my[t].copy # None => \A n : Bears(my[t].copy, n) => Seen(n) BY <1>1 DEF Seen
<1>5. QED BY <1>1, <1>3, <1>4, HandlerLooks

LEMMA HookSavesStep ==
  ASSUME Inv, NEW h \in Handlers, HookSaves(h)
  PROVE  Inv'
<1>1. /\ h \in Threads /\ pc[h] = "tracesaving" /\ pc[h] \notin Vacant /\ pc[h] \in PreCommit
      /\ UNCHANGED <<tables, drafts, ops, aborts, losses, todo>>
      BY DEF HookSaves, Threads, Vacant, PreCommit
<1>2. /\ my[h] \in Local /\ my[h] # None /\ Place(h, "tracesaving", my[h]) /\ my[h].copy \in Session
      /\ my[h].op \notin Reports /\ my[h].event.kind = "traced" /\ my[h].event.run \in Ids
      BY <1>1, Holder DEF Place, Copied, PreCommit, Vacant
<1>3. CASE Save(h) /\ Goto(h, "basing") /\ UNCHANGED my
      <2>1. Place(h, "basing", my[h])
            BY <1>2, ConstantsAssumption DEF Place, HandlerPCs, Vacant, Copied, PreCommit
      <2>2. Relies("basing", my[h]) BY <1>2 DEF Relies
      <2>3. "basing" \in HandlerPCs BY DEF HandlerPCs
      <2>4. QED BY <1>1, <1>2, <1>3, <2>1, <2>2, <2>3, SaveGoesOn
<1>4. CASE Done(h) /\ UNCHANGED sessions BY <1>1, <1>4, DoneLooks
<1>5. QED BY <1>3, <1>4 DEF HookSaves

LEMMA ReadBaseStep ==
  ASSUME Inv, NEW h \in Handlers, ReadBase(h)
  PROVE  Inv'
<1> DEFINE row == runs[my[h].event.run]
           new == [status |-> "active", ctx |-> None, session |-> my[h].session]
<1>1. /\ h \in Threads /\ pc[h] = "basing" /\ pc[h] \notin Vacant /\ pc[h] \in PreCommit
      /\ UNCHANGED <<tables, sessions, drafts, ops, aborts, losses, todo>>
      BY DEF ReadBase, Threads, Vacant, PreCommit
<1>2. /\ my[h] \in Local /\ my[h] # None /\ Place(h, "basing", my[h]) /\ Relies("basing", my[h])
      /\ my[h].event \in Event /\ my[h].session \in Sessions /\ my[h].op \in OpIds
      /\ my[h].expected \in Contexts \cup {None}
      BY <1>1, Holder DEF Local
<1>3. /\ my[h].event.run \in Ids /\ my[h].event.kind \in {"traced", "reported"}
      /\ my[h].copy \in Session /\ OnceOnly(my[h].copy)
      /\ my[h].op \in Reports <=> my[h].event.kind = "reported"
      /\ my[h].op \in Reports => my[h].owes
      BY <1>2, NoneAssumption DEF Place, Copied, PreCommit, Vacant
<1>4. my[h].copy.ctx \in Contexts BY <1>3 DEF Session
<1>5. row \in Run \cup {None} BY <1>3 DEF Inv, Typed
<1>6. ASSUME NEW b \in Run, NEW x \in Contexts \cup {None}, NEW at \in {"superseding", "looking"},
             my' = [my EXCEPT ![h] = [my[h] EXCEPT !.base = b, !.expected = x]], Goto(h, at),
             at = "superseding" => my[h].event.kind = "traced",
             my[h].op \in Reports => x = my[h].expected
      PROVE  Inv'
      <2> DEFINE l == [my[h] EXCEPT !.base = b, !.expected = x]
      <2>1. /\ l \in Local /\ l.base = b /\ l.expected = x /\ l.event = my[h].event
            /\ l.op = my[h].op /\ l.copy = my[h].copy /\ l.owes = my[h].owes
            BY <1>2 DEF Local
      <2>2. Turns(h, at, l) BY <1>6 DEF Turns, Goto
      <2> HIDE DEF l
      <2>3. Place(h, at, l)
            BY <1>3, <1>6, <2>1, ConstantsAssumption
            DEF Place, HandlerPCs, Vacant, Copied, PreCommit
      <2>4. Relies(at, l) BY <1>2, <1>6, <2>1 DEF Relies, PreCommit
      <2>5. at \in HandlerPCs BY DEF HandlerPCs
      <2>6. l.copy # None => \A n : Bears(l.copy, n) => Seen(n) BY <1>1, <1>2, <2>1 DEF Seen
      <2>7. QED BY <1>1, <2>1, <2>2, <2>3, <2>4, <2>5, <2>6, HandlerLooks
<1>7. CASE row = None
      <2>1. my[h].event.kind = "traced" BY <1>2, <1>3, <1>7 DEF Relies, PreCommit
      <2>2. Mirrored(h, new) \in Run BY <1>2, <1>4 DEF Mirrored, Run
      <2>3. /\ my' = [my EXCEPT ![h].base = Mirrored(h, new)] /\ Goto(h, "superseding")
            BY <1>7 DEF ReadBase
      <2> DEFINE b == Mirrored(h, new)
      <2> HIDE DEF b
      <2>4. my' = [my EXCEPT ![h] = [my[h] EXCEPT !.base = b, !.expected = my[h].expected]]
            <3>1. [my[h] EXCEPT !.base = b] = [my[h] EXCEPT !.base = b, !.expected = my[h].expected]
                  BY <1>2 DEF Local
            <3>2. my' = [my EXCEPT ![h] = [my[h] EXCEPT !.base = b]] BY <2>3 DEF b
            <3>3. QED BY <3>1, <3>2
      <2>5. QED BY <1>2, <1>6, <2>1, <2>2, <2>3, <2>4 DEF b
<1>8. CASE row # None
      <2>1. Mirrored(h, row) \in Run BY <1>2, <1>4, <1>5, <1>8 DEF Mirrored, Run
      <2>2. Expected(h, row) \in Contexts \cup {None}
            BY <1>2, <1>5, <1>8 DEF Expected, Run
      <2>3. my' = [my EXCEPT ![h].base = Mirrored(h, row), ![h].expected = Expected(h, row)]
            /\ Goto(h, "looking")
            BY <1>8 DEF ReadBase
      <2>4. my[h].op \in Reports => Expected(h, row) = my[h].expected BY <1>3 DEF Expected
      <2> DEFINE b == Mirrored(h, row)
                 x == Expected(h, row)
      <2> HIDE DEF b, x
      <2>5. my' = [my EXCEPT ![h] = [my[h] EXCEPT !.base = b, !.expected = x]]
            BY <1>1, <2>3 DEF b, x, Inv, Threaded
      <2>6. QED BY <1>6, <2>1, <2>2, <2>3, <2>4, <2>5 DEF b, x
<1>9. QED BY <1>7, <1>8

LEMMA LookUpStep ==
  ASSUME Inv, NEW h \in Handlers, LookUp(h)
  PROVE  Inv'
<1>1. /\ h \in Threads /\ pc[h] = "looking" /\ pc[h] \notin Vacant /\ pc[h] \in PreCommit
      /\ UNCHANGED <<tables, sessions, drafts, ops, aborts, losses, todo>>
      BY DEF LookUp, Threads, Vacant, PreCommit
<1>2. my[h] \in Local /\ my[h] # None /\ Place(h, "looking", my[h]) /\ Relies("looking", my[h])
      BY <1>1, Holder
<1>3. CASE Goto(h, "committing") /\ UNCHANGED my
      <2>1. Place(h, "committing", my[h])
            BY <1>2, ConstantsAssumption DEF Place, HandlerPCs, Vacant, Copied, PreCommit
      <2>2. Relies("committing", my[h]) BY <1>2 DEF Relies, PreCommit
      <2>3. "committing" \in HandlerPCs BY DEF HandlerPCs
      <2>4. QED BY <1>1, <1>3, <2>1, <2>2, <2>3, GoesOn
<1>4. CASE Done(h) BY <1>1, <1>4, DoneLooks
<1>5. QED BY <1>3, <1>4 DEF LookUp

LEMMA ReportGatesStep ==
  ASSUME Inv, NEW h \in Handlers, ReportGates(h)
  PROVE  Inv'
<1> DEFINE row == runs[my[h].event.run]
           l == [my[h] EXCEPT !.expected = row.ctx]
<1>1. /\ h \in Threads /\ pc[h] = "gating" /\ pc[h] \notin Vacant /\ pc[h] \in PreCommit
      /\ UNCHANGED <<tables, sessions, drafts, ops, aborts, losses, todo>>
      BY DEF ReportGates, Threads, Vacant, PreCommit
<1>2. /\ my[h] \in Local /\ my[h] # None /\ Place(h, "gating", my[h]) /\ Relies("gating", my[h])
      BY <1>1, Holder
<1>3. /\ my[h].event.run \in Ids /\ my[h].event.kind = "reported"
      /\ my[h].copy \in Session /\ OnceOnly(my[h].copy) /\ my[h].op \in Reports /\ my[h].owes
      BY <1>2, NoneAssumption DEF Place, Copied, PreCommit, Vacant
<1>4. row \in Run /\ drafts[my[h].op] \in Draft /\ drafts[my[h].op] # None
      /\ drafts[my[h].op].run = my[h].event.run
      BY <1>2, <1>3 DEF Relies, PreCommit, Inv, Typed
<1>5. CASE row.ctx = drafts[my[h].op].ctx
      <2>1. my' = [my EXCEPT ![h].expected = row.ctx] /\ Goto(h, "basing")
            BY <1>5 DEF ReportGates
      <2>2. row.ctx \in Contexts /\ row.ctx # None /\ row # None
            BY <1>4, <1>5, ConstantsAssumption, NoneAssumption DEF Draft
      <2>3. /\ l \in Local /\ l.expected = row.ctx /\ l.event = my[h].event
            /\ l.op = my[h].op /\ l.copy = my[h].copy /\ l.owes = my[h].owes
            BY <1>2, <2>2 DEF Local
      <2>4. Turns(h, "basing", l) BY <2>1 DEF Turns, Goto
      <2> HIDE DEF l
      <2>5. Place(h, "basing", l)
            BY <1>3, <2>3, ConstantsAssumption DEF Place, HandlerPCs, Vacant, Copied, PreCommit
      <2>6. Relies("basing", l) BY <1>4, <1>5, <2>2, <2>3 DEF Relies
      <2>7. "basing" \in HandlerPCs BY DEF HandlerPCs
      <2>8. l.copy # None => \A n : Bears(l.copy, n) => Seen(n) BY <1>1, <1>2, <2>3 DEF Seen
      <2>9. QED BY <1>1, <2>3, <2>4, <2>5, <2>6, <2>7, <2>8, HandlerLooks
<1>6. CASE row.ctx # drafts[my[h].op].ctx
      <2>1. Done(h) BY <1>6 DEF ReportGates
      <2>2. QED BY <1>1, <2>1, DoneLooks
<1>7. QED BY <1>5, <1>6

LEMMA OwesDeliveryStep ==
  ASSUME Inv, NEW h \in Handlers, OwesDelivery(h)
  PROVE  Inv'
<1> DEFINE owed == IsSessionOf(my[h].session, my[h].event.run)
           l == [my[h] EXCEPT !.owes = owed]
<1>1. /\ h \in Threads /\ pc[h] = "owing" /\ pc[h] \notin Vacant /\ pc[h] \in PreCommit
      /\ UNCHANGED <<tables, sessions, drafts, ops, aborts, losses, todo>>
      /\ my' = [my EXCEPT ![h].owes = owed] /\ Goto(h, "committing")
      BY DEF OwesDelivery, Threads, Vacant, PreCommit
<1>2. /\ my[h] \in Local /\ my[h] # None /\ Place(h, "owing", my[h])
      BY <1>1, Holder
<1>3. /\ my[h].event.run \in Ids /\ my[h].event.kind \in {"paused", "resumed"}
      /\ my[h].op \notin Reports /\ my[h].base \in Run
      /\ my[h].copy # None => OnceOnly(my[h].copy)
      BY <1>2 DEF Place, Copied, PreCommit, Vacant
<1>4. owed \in BOOLEAN BY DEF IsSessionOf
<1>5. Turns(h, "committing", l) BY <1>1 DEF Turns, Goto
<1> HIDE DEF owed
<1>6. /\ l \in Local /\ l.event = my[h].event /\ l.op = my[h].op /\ l.copy = my[h].copy
      /\ l.base = my[h].base
      BY <1>2, <1>4 DEF Local
<1> HIDE DEF l
<1>7. Place(h, "committing", l)
      BY <1>3, <1>6, ConstantsAssumption DEF Place, HandlerPCs, Vacant, Copied, PreCommit
<1>8. Relies("committing", l) BY <1>3, <1>6 DEF Relies
<1>9. "committing" \in HandlerPCs BY DEF HandlerPCs
<1>10. l.copy # None => \A n : Bears(l.copy, n) => Seen(n) BY <1>1, <1>2, <1>6 DEF Seen
<1>11. QED BY <1>1, <1>3, <1>5, <1>6, <1>7, <1>8, <1>9, <1>10, HandlerLooks

\* Whether or not it has brought the event to the session, the request goes on.
LEMMA AfterMirrorPlace ==
  ASSUME Inv, NEW h \in Handlers, pc[h] \in {"mirroring", "mirrorsaving"}, my[h].owes
  PROVE  Place(h, "marking", my[h]) /\ Relies("marking", my[h]) /\ "marking" \in HandlerPCs
<1>1. h \in Threads /\ pc[h] \notin Vacant BY DEF Threads, Vacant
<1>2. my[h] \in Local /\ Place(h, pc[h], my[h]) /\ Relies(pc[h], my[h]) BY <1>1, Holder
<1>3. my[h].event.run \in Ids /\ (my[h].copy # None => OnceOnly(my[h].copy))
      BY <1>1, <1>2, NoneAssumption DEF Place
<1>4. tasks[my[h].op] # None BY <1>2 DEF Relies
<1>5. Place(h, "marking", my[h])
      BY <1>2, <1>3, ConstantsAssumption DEF Place, HandlerPCs, Vacant, Copied, PreCommit
<1>6. QED BY <1>4, <1>5 DEF Relies, HandlerPCs, PreCommit

LEMMA AfterMirrorLooks ==
  ASSUME Inv, NEW h \in Handlers, pc[h] \in {"mirroring", "mirrorsaving"}, AfterMirror(h),
         UNCHANGED <<tables, sessions, drafts, ops, aborts, losses, todo>>
  PROVE  Inv'
<1>1. h \in Threads /\ pc[h] \notin Vacant /\ "marking" \notin PreCommit
      BY DEF Threads, Vacant, PreCommit
<1>2. CASE my[h].owes
      <2>1. Goto(h, "marking") /\ UNCHANGED my BY <1>2 DEF AfterMirror
      <2>2. QED BY <1>1, <1>2, <2>1, AfterMirrorPlace, GoesOn
<1>3. CASE ~my[h].owes
      <2>1. Done(h) BY <1>3 DEF AfterMirror
      <2>2. QED BY <1>1, <2>1, DoneLooks
<1>4. QED BY <1>2, <1>3

LEMMA MirrorReadsStep ==
  ASSUME Inv, NEW h \in Handlers, MirrorReads(h)
  PROVE  Inv'
<1> DEFINE s == my[h].session
           c == With(sessions[s], my[h].event)
           l == [my[h] EXCEPT !.copy = c]
<1>1. /\ h \in Threads /\ pc[h] = "mirroring" /\ pc[h] \notin Vacant
      /\ UNCHANGED <<tables, sessions, drafts, ops, aborts, losses, todo>>
      BY DEF MirrorReads, Threads, Vacant
<1>2. /\ my[h] \in Local /\ my[h] # None /\ Place(h, "mirroring", my[h]) /\ Relies("mirroring", my[h])
      /\ my[h].event \in Event /\ s \in Sessions
      BY <1>1, Holder DEF Local
<1>3. my[h].event.run \in Ids /\ my[h].event.kind \in {"paused", "resumed"}
      BY <1>2 DEF Place, Vacant
<1>4. CASE IsSessionOf(s, my[h].event.run)
      <2>1. my' = [my EXCEPT ![h].copy = c] /\ Goto(h, "mirrorsaving")
            BY <1>4 DEF MirrorReads
      <2>2. sessions[s] \in Session /\ OnceOnly(sessions[s]) /\ sessions[s] # None
            BY <1>2, <1>4 DEF Inv, Typed, Once, IsSessionOf
      <2>3. c \in Session /\ OnceOnly(c) /\ \A n : Bears(c, n) => Bears(sessions[s], n) \/ n = my[h].event.id
            BY <1>2, <1>3, <2>2, WithTyped, WithOnce, WithBears
      <2>4. Turns(h, "mirrorsaving", l) BY <2>1 DEF Turns, Goto
      <2> HIDE DEF c
      <2>5. /\ l \in Local /\ l.event = my[h].event /\ l.op = my[h].op /\ l.copy = c
            /\ l.owes = my[h].owes
            BY <1>2, <2>3 DEF Local
      <2> HIDE DEF l
      <2>6. Place(h, "mirrorsaving", l)
            BY <1>3, <2>3, <2>5, ConstantsAssumption DEF Place, HandlerPCs, Vacant, Copied, PreCommit
      <2>7. Relies("mirrorsaving", l) BY <1>2, <2>5 DEF Relies, PreCommit
      <2>8. "mirrorsaving" \in HandlerPCs /\ "mirrorsaving" \notin PreCommit BY DEF HandlerPCs, PreCommit
      <2>9. \A n : Bears(c, n) => Seen(n) \/ n = my[h].event.id BY <1>2, <2>2, <2>3 DEF Seen
      <2>10. QED BY <1>1, <2>4, <2>5, <2>6, <2>7, <2>8, <2>9, HandlerLooks
<1>5. CASE ~IsSessionOf(s, my[h].event.run)
      <2>1. AfterMirror(h) BY <1>5 DEF MirrorReads
      <2>2. QED BY <1>1, <2>1, AfterMirrorLooks
<1>6. QED BY <1>4, <1>5

LEMMA MirrorSavesStep ==
  ASSUME Inv, NEW h \in Handlers, MirrorSaves(h)
  PROVE  Inv'
<1>1. /\ h \in Threads /\ pc[h] = "mirrorsaving" /\ pc[h] \notin Vacant /\ "marking" \notin PreCommit
      /\ UNCHANGED <<tables, drafts, ops, aborts, losses, todo>> /\ AfterMirror(h)
      BY DEF MirrorSaves, Threads, Vacant, PreCommit
<1>2. my[h].copy \in Session BY <1>1, Holder DEF Place, Copied
<1>3. CASE UNCHANGED sessions BY <1>1, <1>3, AfterMirrorLooks
<1>4. CASE Save(h)
      <2>1. CASE my[h].owes
            <3>1. Goto(h, "marking") /\ UNCHANGED my BY <1>1, <2>1 DEF AfterMirror
            <3>2. QED BY <1>1, <1>2, <1>4, <2>1, <3>1, AfterMirrorPlace, SaveGoesOn
      <2>2. CASE ~my[h].owes
            <3>1. Done(h) BY <1>1, <2>2 DEF AfterMirror
            <3>2. QED BY <1>1, <1>2, <1>4, <3>1, SaveDone
      <2>3. QED BY <2>1, <2>2
<1>5. QED BY <1>3, <1>4 DEF MirrorSaves

LEMMA ReportSavesStep ==
  ASSUME Inv, NEW h \in Handlers, ReportSaves(h)
  PROVE  Inv'
<1>1. /\ h \in Threads /\ pc[h] = "saving" /\ pc[h] \notin Vacant
      /\ UNCHANGED <<tables, drafts, ops, aborts, losses, todo>>
      BY DEF ReportSaves, Threads, Vacant
<1>2. /\ my[h] \in Local /\ my[h] # None /\ Place(h, "saving", my[h]) /\ my[h].copy \in Session
      /\ my[h].event.run \in Ids /\ tasks[my[h].op] # None
      BY <1>1, Holder DEF Place, Copied, Vacant, Relies
<1>3. CASE Save(h) /\ Goto(h, "marking") /\ UNCHANGED my
      <2>1. Place(h, "marking", my[h])
            BY <1>2, ConstantsAssumption DEF Place, HandlerPCs, Vacant, Copied, PreCommit
      <2>2. Relies("marking", my[h]) BY <1>2 DEF Relies, PreCommit
      <2>3. "marking" \in HandlerPCs /\ "marking" \notin PreCommit BY DEF HandlerPCs, PreCommit
      <2>4. QED BY <1>1, <1>2, <1>3, <2>1, <2>2, <2>3, SaveGoesOn
<1>4. CASE Done(h) /\ UNCHANGED sessions BY <1>1, <1>4, DoneLooks
<1>5. QED BY <1>3, <1>4 DEF ReportSaves

LEMMA ListDueStep ==
  ASSUME Inv, NEW w \in Workers, ListDue(w)
  PROVE  Inv'
<1>1. /\ w \in Threads /\ pc[w] = "idle" /\ my' = my /\ pc' = [pc EXCEPT ![w] = "delivering"]
      /\ todo' = [todo EXCEPT ![w] = {op \in OpIds : IsDue(op)}]
      /\ UNCHANGED <<tables, sessions, drafts, ops, aborts, losses>>
      BY DEF ListDue, Threads, Goto
<1>2. /\ my \in [Threads -> Local \cup {None}] /\ todo \in [Threads -> SUBSET OpIds]
      /\ Place(w, "idle", my[w])
      BY <1>1 DEF Inv, Threaded, Knows
<1>3. my[w] = None BY <1>2 DEF Place, Vacant
<1>4. Turns(w, "delivering", None) BY <1>1, <1>2, <1>3 DEF Turns
<1>5. Place(w, "delivering", None)
      BY <1>1, ConstantsAssumption DEF Place, WorkerPCs, Vacant, Copied, PreCommit
<1>6. "delivering" \in Vacant BY DEF Vacant
<1>7. /\ todo' \in [Threads -> SUBSET OpIds]
      /\ \A u \in Threads : \A op \in todo'[u] : op \in todo[u] \/ tasks[op] # None
      BY <1>1, <1>2 DEF IsDue
<1>8. aborts' \in 0..AbortBound /\ losses' = losses BY <1>1 DEF Inv, Typed
<1>9. QED BY <1>1, <1>4, <1>5, <1>6, <1>7, <1>8, VacantRelies, LookStep

LEMMA CycleEndsStep ==
  ASSUME Inv, NEW w \in Workers, CycleEnds(w)
  PROVE  Inv'
<1>1. /\ w \in Threads /\ pc[w] = "delivering" /\ my' = my /\ pc' = [pc EXCEPT ![w] = "idle"]
      /\ UNCHANGED <<tables, sessions, drafts, ops, aborts, losses, todo>>
      BY DEF CycleEnds, Threads, Goto
<1>2. /\ my \in [Threads -> Local \cup {None}] /\ todo \in [Threads -> SUBSET OpIds]
      /\ Place(w, "delivering", my[w])
      BY <1>1 DEF Inv, Threaded, Knows
<1>3. my[w] = None BY <1>2 DEF Place, Vacant
<1>4. Turns(w, "idle", None) BY <1>1, <1>2, <1>3 DEF Turns
<1>5. Place(w, "idle", None)
      BY <1>1, ConstantsAssumption DEF Place, WorkerPCs, Vacant, Copied, PreCommit
<1>6. "idle" \in Vacant BY DEF Vacant
<1>7. /\ todo' \in [Threads -> SUBSET OpIds]
      /\ \A u \in Threads : \A op \in todo'[u] : op \in todo[u] \/ tasks[op] # None
      BY <1>1, <1>2
<1>8. aborts' \in 0..AbortBound /\ losses' = losses BY <1>1 DEF Inv, Typed
<1>9. QED BY <1>1, <1>4, <1>5, <1>6, <1>7, <1>8, VacantRelies, LookStep

LEMMA AbortStep ==
  ASSUME Inv, NEW t \in Threads, Abort(t)
  PROVE  Inv'
<1>1. /\ Turns(t, "idle", None) /\ todo' = [todo EXCEPT ![t] = {}]
      /\ UNCHANGED <<tables, sessions, drafts, ops, losses>>
      BY DEF Abort, Turns, Goto
<1>2. aborts' \in 0..AbortBound BY ConstantsAssumption DEF Abort, Inv, Typed
<1>3. Place(t, "idle", None)
      BY DEF Place, HandlerPCs, WorkerPCs, Vacant, Copied, PreCommit
<1>4. "idle" \in Vacant BY DEF Vacant
<1>5. /\ todo' \in [Threads -> SUBSET OpIds]
      /\ \A u \in Threads : \A op \in todo'[u] : op \in todo[u] \/ tasks[op] # None
      BY <1>1 DEF Inv, Threaded
<1>6. QED BY <1>1, <1>2, <1>3, <1>4, <1>5, VacantRelies, LookStep

LEMMA DeliverReadsStep ==
  ASSUME Inv, NEW w \in Workers, DeliverReads(w)
  PROVE  Inv'
<1>1. /\ w \in Threads /\ pc[w] = "delivering"
      /\ UNCHANGED <<tables, sessions, drafts, ops, aborts, losses>>
      BY DEF DeliverReads, Threads
<1>2. PICK op \in todo[w] :
        LET doc == sessions[tasks[op].session]
            e == tasks[op].event
        IN
        /\ todo' = [todo EXCEPT ![w] = @ \ {op}]
        /\ \/ my' = [my EXCEPT ![w] = Delivery(op, None)] /\ Goto(w, "marking")
           \/ /\ doc # None /\ ~Holds(doc, e)
              /\ my' = [my EXCEPT ![w] = Delivery(op, With(doc, e))]
              /\ Goto(w, "deliversaving")
           \/ my' = [my EXCEPT ![w] = Delivery(op, None)] /\ Goto(w, "failing")
      BY DEF DeliverReads
<1> DEFINE doc == sessions[tasks[op].session]
           e == tasks[op].event
<1>3. todo \in [Threads -> SUBSET OpIds] /\ op \in OpIds /\ tasks[op] # None
      BY <1>1, <1>2 DEF Inv, Threaded
<1>4. tasks[op] \in Task /\ e \in Event /\ tasks[op].session \in Sessions /\ e.run \in Ids
      BY <1>3 DEF Inv, Typed, Owed, Task
<1>5. Written(e.id) BY <1>3 DEF Written
<1>6. /\ todo' \in [Threads -> SUBSET OpIds]
      /\ \A u \in Threads : \A x \in todo'[u] : x \in todo[u] \/ tasks[x] # None
      BY <1>2, <1>3
<1>7. aborts' \in 0..AbortBound /\ losses' = losses BY <1>1 DEF Inv, Typed
<1>8. ASSUME NEW c \in Session \cup {None}, NEW at \in {"marking", "deliversaving", "failing"},
             Turns(w, at, Delivery(op, c)),
             at = "deliversaving" => c \in Session,
             c # None => OnceOnly(c) /\ \A n : Bears(c, n) => Seen(n) \/ Written(n)
      PROVE  Inv'
      <2> DEFINE l == Delivery(op, c)
      <2>1. /\ l \in Local /\ l.event = e /\ l.op = op /\ l.copy = c
            BY <1>3, <1>4 DEF Delivery, Local
      <2>2. Turns(w, at, l) BY <1>8
      <2> HIDE DEF l
      <2>3. Place(w, at, l)
            BY <1>1, <1>4, <1>8, <2>1, ConstantsAssumption
            DEF Place, WorkerPCs, Vacant, Copied, PreCommit
      <2>4. Relies(at, l) BY <1>3, <2>1 DEF Relies, PreCommit
      <2>5. at \in WorkerPCs /\ at \notin PreCommit BY DEF WorkerPCs, PreCommit
      <2>6. Written(l.event.id) BY <1>5, <2>1
      <2>7. l.copy # None => \A n : Bears(l.copy, n) => Seen(n) \/ Written(n) BY <1>8, <2>1
      <2>8. QED BY <1>1, <1>6, <1>7, <2>1, <2>2, <2>3, <2>4, <2>5, <2>6, <2>7, LookStep
<1>9. ASSUME NEW at \in {"marking", "failing"},
             my' = [my EXCEPT ![w] = Delivery(op, None)], Goto(w, at)
      PROVE  Inv'
      <2>1. Turns(w, at, Delivery(op, None)) BY <1>9 DEF Turns, Goto
      <2>2. QED BY <1>8, <2>1
<1>10. CASE /\ doc # None /\ ~Holds(doc, e)
            /\ my' = [my EXCEPT ![w] = Delivery(op, With(doc, e))]
            /\ Goto(w, "deliversaving")
      <2>1. Turns(w, "deliversaving", Delivery(op, With(doc, e))) BY <1>10 DEF Turns, Goto
      <2>2. doc \in Session /\ OnceOnly(doc) BY <1>4, <1>10 DEF Inv, Typed, Once
      <2>3. /\ With(doc, e) \in Session /\ OnceOnly(With(doc, e))
            /\ \A n : Bears(With(doc, e), n) => Bears(doc, n) \/ n = e.id
            BY <1>4, <1>10, <2>2, WithTyped, WithOnce, WithBears
      <2>4. \A n : Bears(With(doc, e), n) => Seen(n) \/ Written(n)
            BY <1>4, <1>5, <1>10, <2>3 DEF Seen
      <2>5. QED BY <1>8, <2>1, <2>3, <2>4
<1>11. QED BY <1>2, <1>9, <1>10

LEMMA DeliverSavesStep ==
  ASSUME Inv, NEW w \in Workers, DeliverSaves(w)
  PROVE  Inv'
<1>1. /\ w \in Threads /\ pc[w] = "deliversaving" /\ pc[w] \notin Vacant
      /\ UNCHANGED <<tables, drafts, ops, aborts, losses, my, todo>>
      BY DEF DeliverSaves, Threads, Vacant
<1>2. /\ my[w] \in Local /\ my[w] # None /\ Place(w, "deliversaving", my[w]) /\ my[w].copy \in Session
      /\ my[w].event.run \in Ids /\ tasks[my[w].op] # None
      BY <1>1, Holder DEF Place, Copied, Vacant, Relies
<1>3. ASSUME NEW at \in {"marking", "failing"}
      PROVE  /\ Place(w, at, my[w]) /\ Relies(at, my[w])
             /\ at \in WorkerPCs /\ at \notin PreCommit
      <2>1. Place(w, at, my[w])
            BY <1>1, <1>2, ConstantsAssumption, NoneAssumption DEF Place, WorkerPCs, Vacant, Copied, PreCommit
      <2>2. QED BY <1>2, <2>1 DEF Relies, PreCommit, WorkerPCs
<1>4. CASE Save(w) /\ Goto(w, "marking") BY <1>1, <1>2, <1>3, <1>4, SaveGoesOn
<1>5. CASE UNCHANGED sessions /\ Goto(w, "failing") BY <1>1, <1>3, <1>5, GoesOn
<1>6. QED BY <1>4, <1>5 DEF DeliverSaves
-----------------------------------------------------------------------------
(* Steps that write to the tables.                                         *)

LEMMA TableStep ==
  ASSUME Inv, Typed', Receipted', Owed', Grows, UNCHANGED <<sessions, ops, todo>>,
         NEW t \in Threads, NEW at \in HandlerPCs \cup WorkerPCs, NEW l \in Local \cup {None},
         my[t] # None,
         Turns(t, at, l), Place(t, at, l), Relies(at, l)',
         l # None => l.event.id = my[t].event.id,
         l # None /\ l.copy # None => \A n : Bears(l.copy, n) => Seen(n) \/ n = my[t].event.id,
         \A n : Written(n)' => Written(n) \/ n = my[t].event.id,
         at \in PreCommit =>
           /\ pc[t] \in PreCommit /\ l = my[t]
           /\ \A n : Written(n)' => Written(n)
  PROVE  Inv'
<1>1. Once' BY DEF Inv, Once
<1>2. /\ todo' \in [Threads -> SUBSET OpIds]
      /\ \A u \in Threads : \A op \in todo'[u] : op \in todo[u] \/ tasks[op] # None
      BY DEF Inv, Threaded
<1>3. /\ Threaded' /\ pc'[t] = at /\ my'[t] = l
      /\ \A u \in Threads \ {t} : pc'[u] = pc[u] /\ my'[u] = my[u]
      BY <1>2, ThreadMoves
<1>4. \A s \in Sessions : \A n : sessions'[s] # None /\ Bears(sessions'[s], n) => Seen(n)
      BY DEF Seen
<1>5. Fresh' BY <1>3, <1>4, FreshKept
<1>6. QED BY <1>1, <1>3, <1>5 DEF Inv

LEMMA SupersedeStep ==
  ASSUME Inv, NEW h \in Handlers, Supersede(h)
  PROVE  Inv'
<1>1. /\ h \in Threads /\ pc[h] = "superseding" /\ pc[h] \notin Vacant /\ pc[h] \in PreCommit
      /\ UNCHANGED <<ledger, receipts, tasks, sessions, drafts, ops, aborts, losses, my, todo>>
      /\ Goto(h, "looking")
      BY DEF Supersede, Threads, Vacant, PreCommit
<1>2. /\ my[h] \in Local /\ my[h] # None /\ Place(h, "superseding", my[h])
      BY <1>1, Holder
<1>3. /\ my[h].event.run \in Ids /\ my[h].event.kind = "traced" /\ my[h].op \notin Reports
      /\ my[h].copy \in Session /\ my[h].base \in Run
      BY <1>2 DEF Place, Copied, PreCommit, Vacant
<1>4. runs \in [Ids -> Run \cup {None}] BY DEF Inv, Typed
<1>5. \A r \in Ids : runs'[r] = runs[r]
        \/ (runs[r] # None /\ runs'[r] = [runs[r] EXCEPT !.status = "abandoned"])
      BY DEF Supersede
<1>6. \A row \in Run : [row EXCEPT !.status = "abandoned"] \in Run
                         /\ [row EXCEPT !.status = "abandoned"].ctx = row.ctx
      BY DEF Run
<1>7. /\ runs' \in [Ids -> Run \cup {None}]
      /\ \A r \in Ids : runs[r] # None => runs'[r] # None /\ runs'[r].ctx = runs[r].ctx
      <2>1. ASSUME NEW r \in Ids
            PROVE  /\ runs'[r] \in Run \cup {None}
                   /\ runs[r] # None => runs'[r] # None /\ runs'[r].ctx = runs[r].ctx
            <3>1. CASE runs'[r] = runs[r] BY <1>4, <3>1
            <3>2. CASE runs[r] # None /\ runs'[r] = [runs[r] EXCEPT !.status = "abandoned"]
                  <4>1. runs[r] \in Run BY <1>4, <3>2
                  <4>2. runs'[r] \in Run /\ runs'[r].ctx = runs[r].ctx BY <1>6, <3>2, <4>1
                  <4>3. QED BY <4>2, NoneAssumption
            <3>3. QED BY <1>5, <3>1, <3>2
      <2>2. runs' = [r \in Ids |-> runs'[r]] BY DEF Supersede
      <2>3. QED BY <2>1, <2>2
<1>8. Typed' BY <1>1, <1>7 DEF Inv, Typed
<1>9. Grows BY <1>1, <1>7 DEF Grows
<1>10. Receipted' /\ Owed' /\ \A n : Written(n)' => Written(n)
       BY <1>1 DEF Inv, Receipted, Owed, Written
<1>11. Turns(h, "looking", my[h]) BY <1>1 DEF Turns, Goto, Inv, Threaded
<1>12. Place(h, "looking", my[h])
       BY <1>2, <1>3, ConstantsAssumption DEF Place, HandlerPCs, Vacant, Copied, PreCommit
<1>13. \A x, y : x = "looking" /\ y = my[h] => Relies(x, y)' BY <1>3 DEF Relies
<1>14. "looking" \in HandlerPCs BY DEF HandlerPCs
<1>15. my[h].copy # None => \A n : Bears(my[h].copy, n) => Seen(n) BY <1>1, <1>2 DEF Seen
<1>16. \A l : l = my[h] => Relies("looking", l)' BY <1>13
<1>17. ASSUME NEW l, l = my[h] PROVE Inv'
       <2>1. Relies("looking", l)' BY <1>16, <1>17
       <2>2. QED BY <1>1, <1>2, <1>8, <1>9, <1>10, <1>11, <1>12, <1>14, <1>15, <1>17, <2>1, TableStep
<1>18. QED BY <1>17

\* A task changes its state and nothing else.
LEMMA TasksStep ==
  ASSUME Inv, UNCHANGED <<runs, ledger, receipts, sessions, drafts, ops, aborts, losses>>,
         NEW op \in OpIds, tasks[op] # None, NEW task \in Task, task.event = tasks[op].event,
         tasks' = [tasks EXCEPT ![op] = task]
  PROVE  /\ Typed' /\ Receipted' /\ Owed' /\ Grows
         /\ \A n : Written(n)' => Written(n)
<1>1. tasks \in [OpIds -> Task \cup {None}] BY DEF Inv, Typed
<1>2. /\ \A x \in OpIds : tasks'[x] # None => tasks[x] # None /\ tasks'[x].event = tasks[x].event
      /\ \A x \in OpIds : tasks[x] # None => tasks'[x] # None
      BY <1>1, NoneAssumption
<1>3. Typed' BY <1>1 DEF Inv, Typed
<1>4. Receipted' BY DEF Inv, Receipted
<1>5. Owed' BY <1>2 DEF Inv, Owed
<1>6. Grows BY <1>2 DEF Grows
<1>7. \A n : Written(n)' => Written(n) BY <1>2 DEF Written
<1>8. QED BY <1>3, <1>4, <1>5, <1>6, <1>7

LEMMA SettlesStep ==
  ASSUME Inv, UNCHANGED <<runs, ledger, receipts, sessions, drafts, ops, aborts, losses, todo>>,
         NEW t \in Threads, pc[t] \in {"marking", "failing"}, Done(t),
         NEW task \in Task, task.event = tasks[my[t].op].event,
         tasks' = [tasks EXCEPT ![my[t].op] = task]
  PROVE  Inv'
<1>1. pc[t] \notin Vacant BY DEF Vacant
<1>2. my[t] # None /\ my[t].op \in OpIds /\ tasks[my[t].op] # None
      BY <1>1, Holder DEF Local, Relies
<1>3. /\ Typed' /\ Receipted' /\ Owed' /\ Grows /\ \A n : Written(n)' => Written(n)
      BY <1>2, TasksStep
<1>4. PICK at \in Vacant : Turns(t, at, None) /\ Place(t, at, None) BY DonePlace
<1>5. Relies(at, None)' /\ at \in HandlerPCs \cup WorkerPCs /\ at \notin PreCommit BY VacantRelies
<1>6. QED BY <1>2, <1>3, <1>4, <1>5, TableStep

LEMMA MarksStep ==
  ASSUME Inv, NEW t \in Threads, Marks(t)
  PROVE  Inv'
<1> DEFINE task == [tasks[my[t].op] EXCEPT !.state = "delivered"]
<1>1. /\ pc[t] = "marking" /\ pc[t] \notin Vacant /\ Done(t)
      /\ UNCHANGED <<runs, ledger, receipts, sessions, drafts, ops, aborts, losses, todo>>
      /\ tasks' = [tasks EXCEPT ![my[t].op].state = "delivered"]
      BY DEF Marks, Vacant
<1>2. tasks' = [tasks EXCEPT ![my[t].op] = task] BY <1>1
<1>3. my[t].op \in OpIds /\ tasks[my[t].op] # None BY <1>1, Holder DEF Local, Relies
<1>4. task \in Task /\ task.event = tasks[my[t].op].event BY <1>3 DEF Inv, Typed, Task
<1> HIDE DEF task
<1>5. QED BY <1>1, <1>2, <1>4, SettlesStep

LEMMA FailedTask ==
  ASSUME NEW task \in Task
  PROVE  /\ Failed(task) \in Task /\ Failed(task).state # "delivered"
         /\ Failed(task).event = task.event /\ Failed(task).session = task.session
<1> DEFINE n == task.attempts + 1
           st == IF n >= MaxAttempts THEN "failed" ELSE "pending"
<1>1. Failed(task) = [task EXCEPT !.attempts = n, !.due = FALSE, !.state = st] BY DEF Failed
<1>2. n \in Nat /\ st \in {"pending", "failed"} BY DEF Task
<1> HIDE DEF n, st
<1>3. QED BY <1>1, <1>2 DEF Task

LEMMA MarkFailedStep ==
  ASSUME Inv, NEW w \in Workers, MarkFailed(w)
  PROVE  Inv'
<1> DEFINE task == Failed(tasks[my[w].op])
<1>1. /\ w \in Threads /\ pc[w] = "failing" /\ pc[w] \notin Vacant /\ Done(w)
      /\ UNCHANGED <<runs, ledger, receipts, sessions, drafts, ops, aborts, losses, todo>>
      /\ tasks' = [tasks EXCEPT ![my[w].op] = Failed(@)]
      BY DEF MarkFailed, Vacant, Threads
<1>2. tasks' = [tasks EXCEPT ![my[w].op] = task] BY <1>1
<1>3. my[w].op \in OpIds /\ tasks[my[w].op] # None BY <1>1, Holder DEF Local, Relies
<1>4. task \in Task /\ task.event = tasks[my[w].op].event
      BY <1>3, FailedTask DEF Inv, Typed
<1> HIDE DEF task
<1>5. QED BY <1>1, <1>2, <1>4, SettlesStep

LEMMA RetryDueStep ==
  ASSUME Inv, NEW op \in OpIds, RetryDue(op)
  PROVE  Inv'
<1> DEFINE task == [tasks[op] EXCEPT !.due = TRUE]
<1>1. /\ tasks[op] # None /\ tasks' = [tasks EXCEPT ![op] = task]
      /\ UNCHANGED <<runs, ledger, receipts, sessions, drafts, ops, aborts, losses, pc, my, todo>>
      BY DEF RetryDue
<1>2. task \in Task /\ task.event = tasks[op].event BY <1>1 DEF Inv, Typed, Task
<1> HIDE DEF task
<1>3. /\ Typed' /\ Receipted' /\ Owed' /\ Grows /\ \A n : Written(n)' => Written(n)
      BY <1>1, <1>2, TasksStep
<1>4. Threaded' BY <1>1, <1>3, ThreadsStay
<1>5. \A s \in Sessions : \A n : sessions'[s] # None /\ Bears(sessions'[s], n) => Seen(n)
      BY <1>1 DEF Seen
<1>6. Fresh' BY <1>1, <1>3, <1>5, FreshStays
<1>7. Once' BY <1>1 DEF Inv, Once
<1>8. QED BY <1>3, <1>4, <1>6, <1>7 DEF Inv

LEMMA SessionLostStep ==
  ASSUME Inv, NEW s \in Sessions, SessionLost(s)
  PROVE  Inv'
<1>1. /\ losses' = losses + 1 /\ losses < LossBound /\ sessions' = [sessions EXCEPT ![s] = None]
      /\ UNCHANGED <<tables, drafts, ops, aborts, pc, my, todo>>
      BY DEF SessionLost
<1>2. Typed' BY <1>1, ConstantsAssumption DEF Inv, Typed, tables
<1>3. Receipted' /\ Owed' /\ \A n : Written(n)' => Written(n) BY <1>1, TablesStay
<1>4. Grows BY <1>1 DEF Grows, tables
<1>5. Threaded' BY <1>1, <1>4, ThreadsStay
<1>6. \A x \in Sessions : sessions'[x] # None => sessions'[x] = sessions[x] BY <1>1 DEF Inv, Typed
<1>7. Fresh' BY <1>1, <1>3, <1>6, FreshStays DEF Seen
<1>8. Once' BY <1>6 DEF Inv, Once
<1>9. QED BY <1>2, <1>3, <1>5, <1>7, <1>8 DEF Inv
-----------------------------------------------------------------------------
(* Requests that begin.                                                    *)

LEMMA BeginStep ==
  ASSUME Inv, NEW h \in Handlers, ops < OpBound, ops' = ops + 1,
         UNCHANGED <<tables, aborts, losses, todo>>,
         sessions' \in [Sessions -> Session \cup {None}],
         drafts' \in [Reports -> Draft \cup {None}],
         \A p \in Reports : drafts[p] # None => drafts'[p] = drafts[p],
         NEW at \in HandlerPCs, NEW l \in Local,
         Turns(h, at, l), Place(h, at, l), Relies(at, l)', l.event.id = ops + 1,
         l.copy # None => \A n : Bears(l.copy, n) => Seen(n),
         \A s \in Sessions : sessions'[s] # None =>
           OnceOnly(sessions'[s]) /\ \A n : Bears(sessions'[s], n) => Seen(n)
  PROVE  Inv'
<1>1. h \in Threads BY DEF Threads
<1>2. Typed' BY ConstantsAssumption DEF Inv, Typed, tables
<1>3. Receipted' /\ Owed' /\ \A n : Written(n)' => Written(n) BY TablesStay
<1>4. Once' BY DEF Once, OnceOnly
<1>5. Grows BY DEF Grows, tables
<1>6. /\ todo' \in [Threads -> SUBSET OpIds]
      /\ \A u \in Threads : \A op \in todo'[u] : op \in todo[u] \/ tasks[op] # None
      BY DEF Inv, Threaded
<1>7. /\ Threaded' /\ pc'[h] = at /\ my'[h] = l
      /\ \A u \in Threads \ {h} : pc'[u] = pc[u] /\ my'[u] = my[u]
      BY <1>1, <1>5, <1>6, ThreadMoves
<1>8. my'[h] # None BY <1>7, NoneAssumption
<1>9. Fresh' BY <1>1, <1>3, <1>7, <1>8, FreshBegins
<1>10. QED BY <1>2, <1>3, <1>4, <1>7, <1>9 DEF Inv

\* The number of the next request.
LEMMA NextId ==
  ASSUME Inv, ops < OpBound
  PROVE  ops + 1 \in Ids /\ ops + 1 \in OpIds /\ ops + 1 \notin Reports
<1>1. ops \in Nat /\ OpBound \in Nat BY ConstantsAssumption DEF Inv, Typed
<1>2. ops + 1 \in Nat /\ ops + 1 \in 1..OpBound BY <1>1
<1>3. QED BY <1>2, ConstantsAssumption DEF Ids, OpIds

LEMMA EmptyOnce ==
  ASSUME NEW doc, doc.trace = <<>>
  PROVE  OnceOnly(doc) /\ \A n : ~Bears(doc, n)
<1>1. Len(doc.trace) = 0 OBVIOUS
<1>2. 1..Len(doc.trace) = {} BY <1>1
<1>3. QED BY <1>2 DEF OnceOnly, Bears

LEMMA TracedBegins ==
  ASSUME Inv, NEW h \in Handlers, NEW s \in Sessions, Begin(h, s, "traced", ops + 1, "tracing"),
         UNCHANGED <<tables, drafts, aborts, losses, todo>>,
         NEW d \in Session, sessions' = [sessions EXCEPT ![s] = d],
         OnceOnly(d), \A n : Bears(d, n) => Seen(n)
  PROVE  Inv'
<1> DEFINE e == [id |-> ops + 1, run |-> 0, kind |-> "traced"]
           l == [session |-> s, event |-> e, op |-> ops + 1, owes |-> FALSE,
                 base |-> None, expected |-> None, copy |-> None]
<1>1. /\ ops < OpBound /\ ops' = ops + 1 /\ Turns(h, "tracing", l)
      BY DEF Begin, Turns, Goto
<1>2. ops + 1 \in Ids /\ ops + 1 \in OpIds /\ ops + 1 \notin Reports BY <1>1, NextId
<1>3. e \in Event /\ e.id = ops + 1 /\ e.kind = "traced" BY <1>2 DEF Event, Kinds
<1> HIDE DEF e
<1>4. /\ l \in Local /\ l.event = e /\ l.op = ops + 1 /\ l.copy = None
      BY <1>2, <1>3 DEF Local
<1> HIDE DEF l
<1>5. PICK m \in Local : m = l BY <1>4
<1>6. Place(h, "tracing", m)
      BY <1>2, <1>3, <1>4, <1>5, ConstantsAssumption DEF Place, HandlerPCs, Vacant, Copied, PreCommit
<1>7. Relies("tracing", m)' BY <1>2, <1>4, <1>5 DEF Relies
<1>8. "tracing" \in HandlerPCs BY DEF HandlerPCs
<1>9. /\ sessions' \in [Sessions -> Session \cup {None}]
      /\ drafts' \in [Reports -> Draft \cup {None}]
      /\ \A p \in Reports : drafts[p] # None => drafts'[p] = drafts[p]
      BY DEF Inv, Typed
<1>10. \A x \in Sessions : sessions'[x] # None =>
        OnceOnly(sessions'[x]) /\ \A n : Bears(sessions'[x], n) => Seen(n)
      <2>1. ASSUME NEW x \in Sessions, sessions'[x] # None
            PROVE  OnceOnly(sessions'[x]) /\ \A n : Bears(sessions'[x], n) => Seen(n)
            <3>1. CASE x = s BY <3>1 DEF Inv, Typed
            <3>2. CASE x # s
                  <4>1. sessions'[x] = sessions[x] BY <3>2 DEF Inv, Typed
                  <4>2. QED BY <2>1, <4>1 DEF Inv, Once, Seen
            <3>3. QED BY <3>1, <3>2
      <2>2. QED BY <2>1
<1>11. QED BY <1>1, <1>3, <1>4, <1>5, <1>6, <1>7, <1>8, <1>9, <1>10, BeginStep

LEMMA UploadStep ==
  ASSUME Inv, NEW h \in Handlers, NEW s \in Sessions, Upload(h, s)
  PROVE  Inv'
<1>1. PICK c \in Contexts :
        sessions' = [sessions EXCEPT ![s] =
          [run |-> None, ctx |-> c, rev |-> Revision(s) + 1, trace |-> <<>>]]
      BY DEF Upload
<1> DEFINE d == [run |-> None, ctx |-> c, rev |-> Revision(s) + 1, trace |-> <<>>]
<1>2. Revision(s) \in Nat BY DEF Inv, Typed, Revision, Session
<1>3. d \in Session /\ d.trace = <<>> BY <1>2 DEF Session
<1>4. sessions' = [sessions EXCEPT ![s] = d] BY <1>1
<1> HIDE DEF d
<1>5. OnceOnly(d) /\ \A n : ~Bears(d, n) BY <1>3, EmptyOnce
<1>6. QED BY <1>3, <1>4, <1>5, TracedBegins DEF Upload

LEMMA EditStep ==
  ASSUME Inv, NEW h \in Handlers, NEW s \in Sessions, Edit(h, s)
  PROVE  Inv'
<1>1. PICK c \in Contexts : sessions' = [sessions EXCEPT ![s].ctx = c, ![s].rev = @ + 1]
      BY DEF Edit
<1> DEFINE d == [sessions[s] EXCEPT !.ctx = c, !.rev = @ + 1]
<1>2. sessions[s] # None /\ sessions[s] \in Session /\ OnceOnly(sessions[s])
      BY DEF Edit, Inv, Typed, Once
<1>3. d \in Session /\ d.trace = sessions[s].trace
      <2> DEFINE old == sessions[s]
                 n == old.rev + 1
      <2>1. old \in Session /\ n \in Nat BY <1>2 DEF Session
      <2>2. d = [old EXCEPT !.ctx = c, !.rev = n] OBVIOUS
      <2> HIDE DEF old, n, d
      <2>3. d \in Session /\ d.trace = old.trace BY <2>1, <2>2 DEF Session
      <2>4. QED BY <2>3 DEF old
<1>4. sessions' = [sessions EXCEPT ![s] = d] BY <1>1
<1> HIDE DEF d
<1>5. OnceOnly(d) /\ \A n : Bears(d, n) => Bears(sessions[s], n) BY <1>2, <1>3, SameTrace
<1>6. \A n : Bears(d, n) => Seen(n) BY <1>2, <1>5 DEF Seen
<1>7. QED BY <1>3, <1>4, <1>5, <1>6, TracedBegins DEF Edit

LEMMA RunLevelStep ==
  ASSUME Inv, NEW h \in Handlers, NEW s \in Sessions, NEW r \in Ids,
         NEW kind \in {"paused", "resumed"}, NEW from, NEW to \in {"paused", "active"},
         RunLevelReads(h, s, r, kind, from, to)
  PROVE  Inv'
<1> DEFINE e == [id |-> ops + 1, run |-> r, kind |-> kind]
           b == [runs[r] EXCEPT !.status = to]
           l == [session |-> s, event |-> e, op |-> ops + 1, owes |-> FALSE,
                 base |-> b, expected |-> runs[r].ctx, copy |-> None]
<1>1. /\ ops < OpBound /\ ops' = ops + 1 /\ Turns(h, "owing", l) /\ runs[r] # None
      /\ UNCHANGED <<tables, sessions, drafts, aborts, losses, todo>>
      BY DEF RunLevelReads, Turns, Goto
<1>2. ops + 1 \in Ids /\ ops + 1 \in OpIds /\ ops + 1 \notin Reports BY <1>1, NextId
<1>3. e \in Event /\ e.id = ops + 1 /\ e.kind = kind /\ e.run = r BY <1>2 DEF Event, Kinds
<1>4. runs[r] \in Run BY <1>1 DEF Inv, Typed
<1>5. b \in Run /\ runs[r].ctx \in Contexts \cup {None} BY <1>4 DEF Run
<1> HIDE DEF e, b
<1>6. /\ l \in Local /\ l.event = e /\ l.op = ops + 1 /\ l.copy = None /\ l.base = b
      BY <1>2, <1>3, <1>5 DEF Local
<1> HIDE DEF l
<1>7. PICK m \in Local : m = l BY <1>6
<1>8. Place(h, "owing", m)
      BY <1>2, <1>3, <1>5, <1>6, <1>7, ConstantsAssumption DEF Place, HandlerPCs, Vacant, Copied, PreCommit
<1>9. Relies("owing", m)' BY <1>2, <1>6, <1>7 DEF Relies
<1>10. "owing" \in HandlerPCs BY DEF HandlerPCs
<1>11. /\ sessions' \in [Sessions -> Session \cup {None}]
       /\ drafts' \in [Reports -> Draft \cup {None}]
       /\ \A p \in Reports : drafts[p] # None => drafts'[p] = drafts[p]
       BY <1>1 DEF Inv, Typed
<1>12. \A x \in Sessions : sessions'[x] # None =>
         OnceOnly(sessions'[x]) /\ \A n : Bears(sessions'[x], n) => Seen(n)
       BY <1>1 DEF Inv, Once, Seen
<1>13. QED BY <1>1, <1>3, <1>6, <1>7, <1>8, <1>9, <1>10, <1>11, <1>12, BeginStep

LEMMA ReportLoadsStep ==
  ASSUME Inv, NEW h \in Handlers, NEW s \in Sessions, NEW p \in Reports, ReportLoads(h, s, p)
  PROVE  Inv'
<1> DEFINE r == sessions[s].run
           e == [id |-> ops + 1, run |-> r, kind |-> "reported"]
           l == [session |-> s, event |-> e, op |-> p, owes |-> TRUE,
                 base |-> None, expected |-> None, copy |-> sessions[s]]
           d == [run |-> r, ctx |-> runs[r].ctx]
<1>1. /\ ops < OpBound /\ ops' = ops + 1 /\ Turns(h, "gating", l)
      /\ sessions[s] # None /\ r # None /\ runs[r] # None
      /\ \/ drafts[p] = None /\ runs[r].ctx # None
         \/ drafts[p] # None /\ drafts[p].run = r
      /\ drafts' = IF drafts[p] # None THEN drafts ELSE [drafts EXCEPT ![p] = d]
      /\ UNCHANGED <<tables, sessions, aborts, losses, todo>>
      BY DEF ReportLoads, Turns, Goto
<1>2. ops + 1 \in Ids BY <1>1, NextId
<1>3. sessions[s] \in Session /\ r \in Ids /\ OnceOnly(sessions[s])
      BY <1>1 DEF Inv, Typed, Session, Once
<1>4. runs[r] \in Run BY <1>1, <1>3 DEF Inv, Typed
<1>5. drafts \in [Reports -> Draft \cup {None}] BY DEF Inv, Typed
<1>6. drafts[p] = None => d \in Draft /\ d # None /\ d.run = r
      BY <1>1, <1>3, <1>4, NoneAssumption DEF Draft, Run
<1> HIDE DEF d
<1>7. /\ drafts' \in [Reports -> Draft \cup {None}]
      /\ \A x \in Reports : drafts[x] # None => drafts'[x] = drafts[x]
      /\ drafts'[p] # None /\ drafts'[p].run = r
      BY <1>1, <1>5, <1>6
<1>8. e \in Event /\ e.id = ops + 1 /\ e.kind = "reported" /\ e.run = r
      BY <1>2, <1>3 DEF Event, Kinds
<1> HIDE DEF e
<1>9. /\ l \in Local /\ l.event = e /\ l.op = p /\ l.copy = sessions[s] /\ l.owes
      BY <1>3, <1>8 DEF Local, OpIds
<1>10. runs' = runs BY <1>1 DEF tables
<1>11. "gating" \in HandlerPCs BY DEF HandlerPCs
<1>12. /\ sessions' \in [Sessions -> Session \cup {None}]
       /\ \A x \in Sessions : sessions'[x] # None =>
            OnceOnly(sessions'[x]) /\ \A n : Bears(sessions'[x], n) => Seen(n)
       BY <1>1 DEF Inv, Typed, Once, Seen
<1>13. \A n : Bears(sessions[s], n) => Seen(n) BY <1>1 DEF Seen
<1> HIDE DEF l, r
<1>14. PICK m \in Local : m = l BY <1>9
<1>15. Place(h, "gating", m)
       BY <1>3, <1>8, <1>9, <1>14, ConstantsAssumption DEF Place, HandlerPCs, Vacant, Copied, PreCommit
<1>16. Relies("gating", m)' BY <1>1, <1>7, <1>8, <1>9, <1>10, <1>14 DEF Relies
<1>17. QED BY <1>1, <1>7, <1>8, <1>9, <1>11, <1>12, <1>13, <1>14, <1>15, <1>16, BeginStep
-----------------------------------------------------------------------------
(* commit_event_batch.                                                     *)

\* What the thread that commits has in hand.
LEMMA Committer ==
  ASSUME Inv, NEW h \in Handlers, pc[h] = "committing"
  PROVE  /\ h \in Threads /\ pc[h] \notin Vacant /\ pc[h] \in PreCommit
         /\ my[h] \in Local /\ my[h] # None /\ Place(h, "committing", my[h])
         /\ Relies("committing", my[h])
         /\ my[h].event \in Event /\ my[h].event.run \in Ids /\ my[h].event.id \in Ids
         /\ my[h].op \in OpIds /\ my[h].session \in Sessions /\ my[h].base \in Run
         /\ my[h].op \in Reports <=> my[h].event.kind = "reported"
         /\ ~Written(my[h].event.id)
         /\ my[h].event.kind = "reported" => ~Seen(my[h].event.id)
         /\ Body(h) \in Contexts \cup {None}
<1>1. h \in Threads /\ pc[h] \notin Vacant /\ pc[h] \in PreCommit
      BY DEF Threads, Vacant, PreCommit
<1>2. /\ my[h] \in Local /\ my[h] # None /\ Place(h, "committing", my[h])
      /\ Relies("committing", my[h]) /\ my[h].event.id \in Ids
      BY <1>1, Holder
<1>3. /\ my[h].event \in Event /\ my[h].op \in OpIds /\ my[h].session \in Sessions
      BY <1>2 DEF Local
<1>4. /\ my[h].event.run \in Ids /\ my[h].base \in Run
      /\ my[h].op \in Reports <=> my[h].event.kind = "reported"
      BY <1>2 DEF Place, PreCommit, Vacant
<1>5. /\ ~Written(my[h].event.id)
      /\ my[h].event.kind = "reported" => ~Seen(my[h].event.id)
      BY <1>1 DEF Inv, Fresh, IsFresh
<1>6. Body(h) \in Contexts \cup {None}
      <2>1. CASE my[h].op \in Reports
            <3>1. drafts[my[h].op] # None BY <1>2, <2>1 DEF Relies, PreCommit
            <3>2. drafts[my[h].op] \in Draft BY <2>1, <3>1 DEF Inv, Typed
            <3>3. QED BY <2>1, <3>2 DEF Body, Draft
      <2>2. CASE my[h].op \notin Reports BY <2>2 DEF Body
      <2>3. QED BY <2>1, <2>2
<1>7. QED BY <1>1, <1>2, <1>3, <1>4, <1>5, <1>6

\* A batch that is written appends the event of its producer, and only that.
LEMMA BatchAppends ==
  ASSUME Inv, NEW h \in Handlers, pc[h] = "committing", WriteBatch(h),
         NEW r, r = my[h].event.run, NEW e, e = my[h].event
  PROVE  /\ ledger[r] \in Seq(Event) /\ Len(ledger[r]) \in Nat
         /\ ledger' \in [Ids -> Seq(Event)]
         /\ ledger' = [ledger EXCEPT ![r] = Append(ledger[r], e)]
         /\ Len(ledger'[r]) = Len(ledger[r]) + 1 /\ ledger'[r][Len(ledger[r]) + 1] = e
         /\ \A i \in 1..Len(ledger[r]) : ledger'[r][i] = ledger[r][i]
         /\ \A x \in Ids \ {r} : ledger'[x] = ledger[x]
         /\ receipts' = receipts \cup
              {[run |-> r, op |-> my[h].op, body |-> Body(h), event |-> e, mark |-> Len(ledger[r]) + 1]}
<1>1. r \in Ids /\ e \in Event /\ ~Written(e.id) BY Committer
<1>2. ledger \in [Ids -> Seq(Event)] BY DEF Inv, Typed
<1>3. ledger[r] \in Seq(Event) /\ Len(ledger[r]) \in Nat /\ DOMAIN ledger[r] = 1..Len(ledger[r])
      BY <1>1, <1>2, LenProperties
<1>4. ~IsLogged(r, e) BY <1>1, <1>3 DEF IsLogged, Written
<1> DEFINE log == Append(ledger[r], e)
<1>5. /\ ledger' = [ledger EXCEPT ![r] = log]
      /\ receipts' = receipts \cup
           {[run |-> r, op |-> my[h].op, body |-> Body(h), event |-> e, mark |-> Len(log)]}
      BY <1>4 DEF WriteBatch, Watermark
<1>6. /\ log \in Seq(Event) /\ Len(log) = Len(ledger[r]) + 1 /\ log[Len(ledger[r]) + 1] = e
      /\ \A i \in 1..Len(ledger[r]) : log[i] = ledger[r][i]
      <2>1. ledger[r] \in Seq(Event) /\ e \in Event BY <1>1, <1>3
      <2>2. QED BY <2>1, AppendProperties
<1>7. ledger' = [ledger EXCEPT ![r] = Append(ledger[r], e)] BY <1>5
<1> HIDE DEF log
<1>8. ledger'[r] = log /\ \A x \in Ids \ {r} : ledger'[x] = ledger[x] BY <1>1, <1>2, <1>5
<1>9. ledger' \in [Ids -> Seq(Event)] BY <1>2, <1>5, <1>6
<1>10. QED BY <1>3, <1>5, <1>6, <1>7, <1>8, <1>9

\* A receipt points at the event that it is about.
LEMMA BatchReceipted ==
  ASSUME Inv, NEW h \in Handlers, pc[h] = "committing", WriteBatch(h)
  PROVE  Receipted'
<1>1. PICK r, e : r = my[h].event.run /\ e = my[h].event OBVIOUS
<1>2. /\ Len(ledger[r]) \in Nat /\ r \in Ids
      /\ Len(ledger'[r]) = Len(ledger[r]) + 1 /\ ledger'[r][Len(ledger[r]) + 1] = e
      /\ \A i \in 1..Len(ledger[r]) : ledger'[r][i] = ledger[r][i]
      /\ \A x \in Ids \ {r} : ledger'[x] = ledger[x]
      BY <1>1, BatchAppends, Committer
<1> DEFINE n == Len(ledger[r])
           new == [run |-> r, op |-> my[h].op, body |-> Body(h), event |-> e, mark |-> n + 1]
<1>3. receipts' = receipts \cup {new} BY <1>1, BatchAppends
<1>4. new.run = r /\ new.event = e /\ new.mark = n + 1 OBVIOUS
<1>5. \A x \in receipts : x.run \in Ids BY DEF Inv, Typed, Receipt
<1>6. /\ \A x \in receipts : x.mark \in 1..Len(ledger[x.run]) /\ ledger[x.run][x.mark] = x.event
      /\ \A x \in Ids : \A i \in 1..Len(ledger[x]) : \E y \in receipts : y.run = x /\ y.mark = i
      BY DEF Inv, Receipted
<1> HIDE DEF new
<1>7. ASSUME NEW x \in receipts'
      PROVE  x.mark \in 1..Len(ledger'[x.run]) /\ ledger'[x.run][x.mark] = x.event
      <2>1. CASE x \in receipts /\ x.run = r BY <1>2, <1>6, <2>1
      <2>2. CASE x \in receipts /\ x.run # r BY <1>2, <1>5, <1>6, <2>2
      <2>3. CASE x = new BY <1>2, <1>4, <2>3
      <2>4. QED BY <1>3, <2>1, <2>2, <2>3
<1>8. ASSUME NEW x \in Ids, NEW i \in 1..Len(ledger'[x])
      PROVE  \E y \in receipts' : y.run = x /\ y.mark = i
      <2>1. CASE x = r /\ i = n + 1 BY <1>3, <1>4, <2>1
      <2>2. CASE x = r /\ i # n + 1
            <3>1. i \in 1..Len(ledger[x]) BY <1>2, <2>2
            <3>2. QED BY <1>3, <1>6, <3>1
      <2>3. CASE x # r
            <3>1. i \in 1..Len(ledger[x]) BY <1>2, <2>3
            <3>2. QED BY <1>3, <1>6, <3>1
      <2>4. QED BY <2>1, <2>2, <2>3
<1>9. QED BY <1>7, <1>8 DEF Receipted

\* What the other tables have after a batch.
LEMMA BatchTables ==
  ASSUME Inv, NEW h \in Handlers, pc[h] = "committing", WriteBatch(h),
         UNCHANGED <<sessions, drafts, ops, aborts, losses, todo>>
  PROVE  /\ Typed' /\ Owed' /\ Grows
         /\ \A n : Written(n)' => Written(n) \/ n = my[h].event.id
         /\ my[h].owes => tasks'[my[h].op] # None
<1>1. PICK r, e, op, b, body : r = my[h].event.run /\ e = my[h].event /\ op = my[h].op
        /\ b = my[h].base /\ body = Body(h)
      OBVIOUS
<1>2. r \in Ids /\ e \in Event /\ e.run = r /\ op \in OpIds /\ b \in Run /\ body \in Contexts \cup {None}
      BY <1>1, Committer
<1>3. /\ Len(ledger[r]) \in Nat /\ ledger' \in [Ids -> Seq(Event)]
      /\ Len(ledger'[r]) = Len(ledger[r]) + 1 /\ ledger'[r][Len(ledger[r]) + 1] = e
      /\ \A i \in 1..Len(ledger[r]) : ledger'[r][i] = ledger[r][i]
      /\ \A x \in Ids \ {r} : ledger'[x] = ledger[x]
      /\ receipts' = receipts \cup
           {[run |-> r, op |-> op, body |-> body, event |-> e, mark |-> Len(ledger[r]) + 1]}
      <2>1. receipts' = receipts \cup
              {[run |-> r, op |-> my[h].op, body |-> Body(h), event |-> e, mark |-> Len(ledger[r]) + 1]}
            BY <1>1, BatchAppends
      <2>2. receipts' = receipts \cup
              {[run |-> r, op |-> op, body |-> body, event |-> e, mark |-> Len(ledger[r]) + 1]}
            BY <1>1, <2>1
      <2>3. /\ Len(ledger[r]) \in Nat /\ ledger' \in [Ids -> Seq(Event)]
            /\ Len(ledger'[r]) = Len(ledger[r]) + 1 /\ ledger'[r][Len(ledger[r]) + 1] = e
            /\ \A i \in 1..Len(ledger[r]) : ledger'[r][i] = ledger[r][i]
            /\ \A x \in Ids \ {r} : ledger'[x] = ledger[x]
            BY <1>1, BatchAppends
      <2>4. QED BY <2>2, <2>3
<1>4. receipts' \subseteq Receipt BY <1>2, <1>3 DEF Inv, Typed, Receipt
<1> DEFINE row == IF runs[r] # None /\ b.ctx = None THEN [b EXCEPT !.ctx = runs[r].ctx] ELSE b
           task == [session |-> my[h].session, event |-> e, attempts |-> 0,
                    state |-> "pending", due |-> TRUE]
<1>5. runs' = [runs EXCEPT ![r] = row] BY <1>1 DEF WriteBatch
<1>6. tasks' = IF my[h].owes /\ tasks[op] = None THEN [tasks EXCEPT ![op] = task] ELSE tasks
      BY <1>1 DEF WriteBatch
<1>7. row \in Run /\ (runs[r] # None /\ runs[r].ctx # None => row.ctx # None)
      <2>1. runs[r] \in Run \cup {None} BY <1>2 DEF Inv, Typed
      <2>2. CASE runs[r] # None /\ b.ctx = None BY <1>2, <2>1, <2>2 DEF Run
      <2>3. CASE ~(runs[r] # None /\ b.ctx = None) BY <1>2, <2>3
      <2>4. QED BY <2>2, <2>3
<1>8. task \in Task /\ task.event = e BY <1>1, <1>2, Committer DEF Task
<1> HIDE DEF row, task
<1>9. /\ runs' \in [Ids -> Run \cup {None}]
      /\ \A x \in Ids : runs[x] # None =>
           runs'[x] # None /\ (runs[x].ctx # None => runs'[x].ctx # None)
      <2>1. runs \in [Ids -> Run \cup {None}] BY DEF Inv, Typed
      <2>2. QED BY <1>2, <1>5, <1>7, <2>1, NoneAssumption
<1>10. tasks \in [OpIds -> Task \cup {None}] BY DEF Inv, Typed
<1>11. /\ tasks' \in [OpIds -> Task \cup {None}]
       /\ \A x \in OpIds : tasks[x] # None => tasks'[x] # None
       /\ \A x \in OpIds : tasks'[x] # None => tasks'[x].event = e \/ (tasks[x] # None /\ tasks'[x] = tasks[x])
       /\ my[h].owes => tasks'[op] # None
       <2>1. CASE my[h].owes /\ tasks[op] = None
             BY <1>2, <1>6, <1>8, <1>10, <2>1, NoneAssumption
       <2>2. CASE ~(my[h].owes /\ tasks[op] = None) BY <1>6, <1>10, <2>2
       <2>3. QED BY <2>1, <2>2
<1>12. Typed' BY <1>3, <1>4, <1>9, <1>11 DEF Inv, Typed
<1>13. Owed' BY <1>2, <1>11 DEF Inv, Owed
<1>14. Grows BY <1>9, <1>11 DEF Grows
<1>15. ASSUME NEW n, Written(n)' PROVE Written(n) \/ n = e.id
       <2>1. CASE \E x \in Ids : \E i \in 1..Len(ledger'[x]) : ledger'[x][i].id = n
             <3>1. PICK x \in Ids : \E i \in 1..Len(ledger'[x]) : ledger'[x][i].id = n BY <2>1
             <3>2. CASE x = r BY <1>2, <1>3, <3>1, <3>2 DEF Written
             <3>3. CASE x # r BY <1>3, <3>1, <3>3 DEF Written
             <3>4. QED BY <3>2, <3>3
       <2>2. CASE \E x \in OpIds : tasks'[x] # None /\ tasks'[x].event.id = n
             BY <1>11, <2>2 DEF Written
       <2>3. QED BY <1>15, <2>1, <2>2 DEF Written
<1>16. QED BY <1>1, <1>11, <1>12, <1>13, <1>14, <1>15

LEMMA CommitStep ==
  ASSUME Inv, NEW h \in Handlers, Commit(h)
  PROVE  Inv'
<1>1. /\ pc[h] = "committing" /\ UNCHANGED <<sessions, drafts, ops, aborts, losses, todo>>
      BY DEF Commit
<1>2. /\ h \in Threads /\ my[h] \in Local /\ my[h] # None /\ Place(h, "committing", my[h])
      /\ my[h].event \in Event /\ my[h].event.run \in Ids /\ pc[h] \notin Vacant
      BY <1>1, Committer
<1>3. CASE Done(h) /\ UNCHANGED tables BY <1>1, <1>2, <1>3, DoneLooks
<1>4. CASE WriteBatch(h) /\ AfterCommit(h)
      <2>1. /\ Typed' /\ Owed' /\ Grows /\ Receipted'
            /\ \A n : Written(n)' => Written(n) \/ n = my[h].event.id
            /\ my[h].owes => tasks'[my[h].op] # None
            BY <1>1, <1>4, BatchTables, BatchReceipted
      <2>2. ASSUME NEW at \in HandlerPCs \ PreCommit, NEW l \in Local \cup {None},
                   Turns(h, at, l), Place(h, at, l), Relies(at, l)',
                   l # None => l.event.id = my[h].event.id,
                   l # None /\ l.copy # None => \A n : Bears(l.copy, n) => Seen(n) \/ n = my[h].event.id
            PROVE  Inv'
            BY <1>1, <1>2, <2>1, <2>2, TableStep
      <2>3. my[h].copy # None => \A n : Bears(my[h].copy, n) => Seen(n) BY <1>2 DEF Seen
      <2>4. CASE my[h].event.kind = "traced"
            <3>1. Done(h) BY <1>4, <2>4 DEF AfterCommit
            <3>2. PICK at \in Vacant : Turns(h, at, None) /\ Place(h, at, None) BY <1>2, <3>1, DonePlace
            <3>3. Relies(at, None)' /\ at \notin PreCommit BY VacantRelies
            <3>4. at \in HandlerPCs BY <3>2 DEF Place
            <3>5. QED BY <2>2, <3>2, <3>3, <3>4
      <2>5. CASE my[h].event.kind = "reported"
            <3> DEFINE c == With(my[h].copy, my[h].event)
                       l == [my[h] EXCEPT !.copy = c]
            <3>1. my' = [my EXCEPT ![h].copy = With(@, my[h].event)] /\ Goto(h, "saving")
                  BY <1>4, <2>5 DEF AfterCommit
            <3>2. my[h].copy \in Session /\ OnceOnly(my[h].copy) /\ my[h].copy # None
                  BY <1>2, <2>5, NoneAssumption DEF Place
            <3>3. my[h].op \in Reports /\ my[h].owes /\ ~Seen(my[h].event.id)
                  BY <1>1, <2>5, Committer DEF Place
            <3>4. ~Bears(my[h].copy, my[h].event.id) BY <1>2, <2>3, <3>2, <3>3
            <3>5. /\ c \in Session /\ OnceOnly(c)
                  /\ \A n : Bears(c, n) => Bears(my[h].copy, n) \/ n = my[h].event.id
                  BY <1>2, <3>2, <3>4, WithTyped, WithOnce, WithBears
            <3>6. Turns(h, "saving", l) BY <3>1 DEF Turns, Goto
            <3> HIDE DEF c
            <3>7. l \in Local /\ l.event = my[h].event /\ l.copy = c /\ l.op = my[h].op
                  BY <1>2, <3>5 DEF Local
            <3> HIDE DEF l
            <3>8. PICK m \in Local : m = l BY <3>7
            <3>9. Place(h, "saving", m)
                  BY <1>2, <2>5, <3>5, <3>7, <3>8, ConstantsAssumption
                  DEF Place, HandlerPCs, Vacant, Copied, PreCommit
            <3>10. Relies("saving", m)' BY <2>1, <3>3, <3>7, <3>8 DEF Relies, PreCommit
            <3>11. "saving" \in HandlerPCs \ PreCommit BY DEF HandlerPCs, PreCommit
            <3>12. QED BY <2>2, <2>3, <3>2, <3>5, <3>6, <3>7, <3>8, <3>9, <3>10, <3>11
      <2>6. CASE my[h].event.kind \notin {"traced", "reported"}
            <3>1. Goto(h, "mirroring") /\ UNCHANGED my BY <1>4, <2>6 DEF AfterCommit
            <3>2. my[h].event.kind \in {"paused", "resumed"} BY <1>2, <2>6 DEF Event, Kinds
            <3>3. Turns(h, "mirroring", my[h]) BY <3>1 DEF Turns, Goto, Inv, Threaded
            <3>4. Place(h, "mirroring", my[h])
                  BY <1>2, <3>2, ConstantsAssumption DEF Place, HandlerPCs, Vacant, Copied, PreCommit
            <3>5. PICK m \in Local : m = my[h] BY <1>2
            <3>6. Relies("mirroring", m)' BY <2>1, <3>5 DEF Relies, PreCommit
            <3>7. "mirroring" \in HandlerPCs \ PreCommit BY DEF HandlerPCs, PreCommit
            <3>8. QED BY <2>2, <2>3, <3>3, <3>4, <3>5, <3>6, <3>7
      <2>7. QED BY <2>4, <2>5, <2>6
<1>5. QED BY <1>3, <1>4 DEF Commit
-----------------------------------------------------------------------------
(* Every step keeps the invariant.                                         *)

LEMMA InvInit == Init => Inv
<1> SUFFICES ASSUME Init PROVE Inv OBVIOUS
<1>1. \A r \in Ids : ledger[r] = <<>> /\ Len(ledger[r]) = 0 /\ 1..Len(ledger[r]) = {}
      <2>1. Len(<<>>) = 0 /\ 1..0 = {} OBVIOUS
      <2>2. QED BY <2>1 DEF Init
<1>2. Typed
      <2>1. <<>> \in Seq(Event) OBVIOUS
      <2>2. 0 \in 0..OpBound /\ 0 \in 0..AbortBound /\ 0 \in 0..LossBound BY ConstantsAssumption
      <2>3. QED BY <2>1, <2>2 DEF Init, Typed
<1>3. ASSUME NEW t \in Threads PROVE Knows(t)
      <2>1. pc[t] = "idle" /\ my[t] = None BY DEF Init
      <2>2. Place(t, "idle", None)
            BY DEF Place, HandlerPCs, WorkerPCs, Vacant, Copied, PreCommit
      <2>3. "idle" \in Vacant BY DEF Vacant
      <2>4. QED BY <2>1, <2>2, <2>3, VacantRelies DEF Knows
<1>4. Threaded BY <1>3 DEF Init, Threaded, HandlerPCs
<1>5. \A n : ~Written(n) /\ ~Seen(n) BY <1>1 DEF Init, Written, Seen
<1>6. Fresh BY <1>5 DEF Init, Fresh, IsFresh, PreCommit
<1>7. Receipted BY <1>1 DEF Init, Receipted
<1>8. Owed /\ Once BY DEF Init, Owed, Once
<1>9. QED BY <1>2, <1>4, <1>6, <1>7, <1>8 DEF Inv

LEMMA InvNext == Inv /\ [Next]_vars => Inv'
<1> SUFFICES ASSUME Inv, [Next]_vars PROVE Inv' OBVIOUS
<1>1. ASSUME NEW h \in Handlers, Client(h) PROVE Inv'
      <2>1. PICK s \in Sessions :
              \/ Upload(h, s)
              \/ Edit(h, s)
              \/ \E r \in Ids : PauseReads(h, s, r) \/ ResumeReads(h, s, r)
              \/ \E p \in Reports : ReportLoads(h, s, p)
            BY <1>1 DEF Client
      <2>2. CASE Upload(h, s) BY <2>2, UploadStep
      <2>3. CASE Edit(h, s) BY <2>3, EditStep
      <2>4. ASSUME NEW r \in Ids, PauseReads(h, s, r) PROVE Inv'
            BY <2>4, RunLevelStep DEF PauseReads
      <2>5. ASSUME NEW r \in Ids, ResumeReads(h, s, r) PROVE Inv'
            BY <2>5, RunLevelStep DEF ResumeReads
      <2>6. ASSUME NEW p \in Reports, ReportLoads(h, s, p) PROVE Inv' BY <2>6, ReportLoadsStep
      <2>7. QED BY <2>1, <2>2, <2>3, <2>4, <2>5, <2>6
<1>2. ASSUME NEW h \in Handlers, HandlerStep(h) PROVE Inv'
      <2>1. h \in Threads BY DEF Threads
      <2>2. CASE HookReads(h) BY <2>2, HookReadsStep
      <2>3. CASE HookSaves(h) BY <2>3, HookSavesStep
      <2>4. CASE ReportGates(h) BY <2>4, ReportGatesStep
      <2>5. CASE ReadBase(h) BY <2>5, ReadBaseStep
      <2>6. CASE Supersede(h) BY <2>6, SupersedeStep
      <2>7. CASE LookUp(h) BY <2>7, LookUpStep
      <2>8. CASE Commit(h) BY <2>8, CommitStep
      <2>9. CASE OwesDelivery(h) BY <2>9, OwesDeliveryStep
      <2>10. CASE MirrorReads(h) BY <2>10, MirrorReadsStep
      <2>11. CASE MirrorSaves(h) BY <2>11, MirrorSavesStep
      <2>12. CASE ReportSaves(h) BY <2>12, ReportSavesStep
      <2>13. CASE Marks(h) BY <2>1, <2>13, MarksStep
      <2>14. QED BY <1>2, <2>2, <2>3, <2>4, <2>5, <2>6, <2>7, <2>8, <2>9, <2>10, <2>11, <2>12, <2>13
                 DEF HandlerStep
<1>3. ASSUME NEW w \in Workers, WorkerStep(w) PROVE Inv'
      <2>1. w \in Threads BY DEF Threads
      <2>2. CASE ListDue(w) BY <2>2, ListDueStep
      <2>3. CASE CycleEnds(w) BY <2>3, CycleEndsStep
      <2>4. CASE DeliverReads(w) BY <2>4, DeliverReadsStep
      <2>5. CASE DeliverSaves(w) BY <2>5, DeliverSavesStep
      <2>6. CASE Marks(w) BY <2>1, <2>6, MarksStep
      <2>7. CASE MarkFailed(w) BY <2>7, MarkFailedStep
      <2>8. QED BY <1>3, <2>2, <2>3, <2>4, <2>5, <2>6, <2>7 DEF WorkerStep
<1>4. ASSUME NEW op \in OpIds, RetryDue(op) PROVE Inv' BY <1>4, RetryDueStep
<1>5. ASSUME NEW s \in Sessions, SessionLost(s) PROVE Inv' BY <1>5, SessionLostStep
<1>6. ASSUME NEW t \in Threads, Abort(t) PROVE Inv' BY <1>6, AbortStep
<1>7. CASE UNCHANGED vars
      <2>1. UNCHANGED <<tables, sessions, drafts, ops, aborts, losses, pc, my, todo>> BY <1>7 DEF vars
      <2>2. Receipted' /\ Owed' /\ \A n : Written(n)' => Written(n) BY <2>1, TablesStay
      <2>3. Typed' /\ Once' BY <2>1 DEF Inv, Typed, Once, tables
      <2>4. Grows BY <2>1 DEF Grows, tables
      <2>5. Threaded' BY <2>1, <2>4, ThreadsStay
      <2>6. Fresh' BY <2>1, <2>2, FreshStays DEF Seen
      <2>7. QED BY <2>2, <2>3, <2>5, <2>6 DEF Inv
<1>8. QED BY <1>1, <1>2, <1>3, <1>4, <1>5, <1>6, <1>7 DEF Next

\* The invariant the theorems below rest on: threads know what they rely on, the
\* event of a handler is fresh until it commits (commit_event_batch), and every
\* receipt is true.
THEOREM Invariant == Spec => []Inv
BY InvInit, InvNext, PTL DEF Spec

\* Every row, document and local of the journal stays of its type, whatever the
\* interleaving of handlers, hooks and workers.
THEOREM TypeCorrect == Spec => []TypeOK
<1>1. Inv => TypeOK BY DEF Inv, Typed, Threaded, TypeOK
<1>2. QED BY <1>1, Invariant, PTL

\* A receipt of commit_event_batch points at its event, and nothing is in a
\* journal without a receipt.
THEOREM ReceiptsAreTrue == Spec => []ReceiptsMatchLedger
<1>1. Inv => ReceiptsMatchLedger
      <2> SUFFICES ASSUME Inv PROVE ReceiptsMatchLedger OBVIOUS
      <2>1. \A r \in Ids : DOMAIN ledger[r] = 1..Len(ledger[r])
            BY LenProperties DEF Inv, Typed
      <2>2. \A x \in receipts : x.run \in Ids BY DEF Inv, Typed, Receipt
      <2>3. QED BY <2>1, <2>2 DEF Inv, Receipted, ReceiptsMatchLedger
<1>2. QED BY <1>1, Invariant, PTL

\* A report is in the trace of a session at most once, although its handler and
\* any number of workers deliver it (deliver_layer1_mirror).
THEOREM ReportsAreNotRepeated == Spec => []ReportsAppearOnce
<1>1. Inv => ReportsAppearOnce
      <2> SUFFICES ASSUME Inv, NEW s \in Sessions, sessions[s] # None,
                          NEW i \in DOMAIN sessions[s].trace,
                          sessions[s].trace[i].kind = "reported"
                   PROVE  Copies(sessions[s], sessions[s].trace[i]) = {i}
          BY DEF ReportsAppearOnce
      <2>1. sessions[s] \in Session /\ OnceOnly(sessions[s]) BY DEF Inv, Typed, Once
      <2>2. DOMAIN sessions[s].trace = 1..Len(sessions[s].trace)
            BY <2>1, LenProperties DEF Session
      <2>3. QED BY <2>1, <2>2 DEF OnceOnly, Copies
<1>2. QED BY <1>1, Invariant, PTL
-----------------------------------------------------------------------------
(* Only commit_event_batch writes to the journal and to the receipts.      *)

Writes(h) ==
  /\ pc[h] = "committing"
  /\ ~ContextMoved(h) /\ ~HasReceipt(my[h].event.run, my[h].op)
  /\ WriteBatch(h)

LEMMA OnlyCommitWrites ==
  ASSUME [Next]_vars
  PROVE  UNCHANGED <<ledger, receipts>> \/ \E h \in Handlers : Writes(h)
<1>1. ASSUME NEW h \in Handlers, Client(h) PROVE UNCHANGED <<ledger, receipts>>
      BY <1>1 DEF Client, Upload, Edit, PauseReads, ResumeReads, RunLevelReads, ReportLoads, tables
<1>2. ASSUME NEW h \in Handlers, HandlerStep(h) PROVE UNCHANGED <<ledger, receipts>> \/ Writes(h)
      <2>1. CASE Commit(h) BY <2>1 DEF Commit, Writes, tables
      <2>2. CASE HookReads(h) BY <2>2 DEF HookReads, tables
      <2>3. CASE HookSaves(h) BY <2>3 DEF HookSaves, tables
      <2>4. CASE ReportGates(h) BY <2>4 DEF ReportGates, tables
      <2>5. CASE ReadBase(h) BY <2>5 DEF ReadBase, tables
      <2>6. CASE Supersede(h) BY <2>6 DEF Supersede
      <2>7. CASE LookUp(h) BY <2>7 DEF LookUp, tables
      <2>8. CASE OwesDelivery(h) BY <2>8 DEF OwesDelivery, tables
      <2>9. CASE MirrorReads(h) BY <2>9 DEF MirrorReads, tables
      <2>10. CASE MirrorSaves(h) BY <2>10 DEF MirrorSaves, tables
      <2>11. CASE ReportSaves(h) BY <2>11 DEF ReportSaves, tables
      <2>12. CASE Marks(h) BY <2>12 DEF Marks
      <2>13. QED BY <1>2, <2>1, <2>2, <2>3, <2>4, <2>5, <2>6, <2>7, <2>8, <2>9, <2>10, <2>11, <2>12
                 DEF HandlerStep
<1>3. ASSUME NEW w \in Workers, WorkerStep(w) PROVE UNCHANGED <<ledger, receipts>>
      BY <1>3 DEF WorkerStep, ListDue, CycleEnds, DeliverReads, DeliverSaves, Marks, MarkFailed, tables
<1>4. ASSUME NEW op \in OpIds, RetryDue(op) PROVE UNCHANGED <<ledger, receipts>>
      BY <1>4 DEF RetryDue
<1>5. ASSUME NEW s \in Sessions, SessionLost(s) PROVE UNCHANGED <<ledger, receipts>>
      BY <1>5 DEF SessionLost, tables
<1>6. ASSUME NEW t \in Threads, Abort(t) PROVE UNCHANGED <<ledger, receipts>>
      BY <1>6 DEF Abort, tables
<1>7. CASE UNCHANGED vars BY <1>7 DEF vars, tables
<1>8. QED BY <1>1, <1>2, <1>3, <1>4, <1>5, <1>6, <1>7 DEF Next

\* No report is recorded in a run that has left the context it was composed in:
\* the comparison of expected_context_id in commit_event_batch, after a gate that
\* any number of steps may have made stale.
THEOREM ReportsKeepContext == Spec => ReportsMeetContext
<1>1. ASSUME Inv, [Next]_vars, NEW x \in receipts' \ receipts, x.op \in Reports
      PROVE  runs[x.run].ctx = x.body
      <2>1. PICK h \in Handlers : Writes(h) BY <1>1, OnlyCommitWrites
      <2>2. pc[h] = "committing" /\ ~ContextMoved(h) /\ WriteBatch(h) BY <2>1 DEF Writes
      <2>3. PICK r, e : r = my[h].event.run /\ e = my[h].event OBVIOUS
      <2>4. receipts' = receipts \cup
              {[run |-> r, op |-> my[h].op, body |-> Body(h), event |-> e, mark |-> Len(ledger[r]) + 1]}
            BY <1>1, <2>2, <2>3, BatchAppends
      <2>5. x.run = r /\ x.op = my[h].op /\ x.body = Body(h) BY <1>1, <2>4
      <2>6. Relies("committing", my[h]) /\ my[h].op \in Reports BY <1>1, <2>2, <2>5, Committer
      <2>7. /\ drafts[my[h].op] # None /\ my[h].expected = drafts[my[h].op].ctx
            /\ runs[r] # None /\ runs[r].ctx # None
            BY <2>3, <2>6 DEF Relies, PreCommit
      <2>8. drafts[my[h].op].ctx # None
            <3>1. drafts[my[h].op] \in Draft BY <1>1, <2>6, <2>7 DEF Inv, Typed
            <3>2. QED BY <3>1, ConstantsAssumption DEF Draft
      <2>9. runs[r].ctx = my[h].expected BY <2>2, <2>3, <2>7, <2>8 DEF ContextMoved
      <2>10. QED BY <2>5, <2>6, <2>7, <2>9 DEF Body
<1>2. Inv /\ [Next]_vars =>
        [\A x \in receipts' \ receipts : x.op \in Reports => runs[x.run].ctx = x.body]_vars
      BY <1>1
<1>3. QED BY <1>2, Invariant, PTL DEF ReportsMeetContext, Spec
-----------------------------------------------------------------------------
(* The journal implements FactLog.                                         *)

Facts == [r \in Ids |-> [i \in DOMAIN ledger[r] |-> ledger[r][i].id]]
Used == {<<x.run, x.op>> : x \in receipts}

LEMMA FactsGrow ==
  ASSUME Inv, NEW h \in Handlers, Writes(h)
  PROVE  Ledger!Next
<1>1. PICK r, e, op : r = my[h].event.run /\ e = my[h].event /\ op = my[h].op OBVIOUS
<1>2. /\ r \in Ids /\ e \in Event /\ e.id \in Ids /\ op \in OpIds /\ ~Written(e.id)
      BY <1>1, Committer DEF Writes
<1>3. pc[h] = "committing" /\ WriteBatch(h) /\ ~HasReceipt(r, op) BY <1>1 DEF Writes
<1>4. /\ ledger[r] \in Seq(Event) /\ Len(ledger[r]) \in Nat
      /\ ledger' \in [Ids -> Seq(Event)]
      /\ Len(ledger'[r]) = Len(ledger[r]) + 1 /\ ledger'[r][Len(ledger[r]) + 1] = e
      /\ \A i \in 1..Len(ledger[r]) : ledger'[r][i] = ledger[r][i]
      /\ \A x \in Ids \ {r} : ledger'[x] = ledger[x]
      BY <1>1, <1>3, BatchAppends
<1>5. PICK y : receipts' = receipts \cup {y} /\ y.run = r /\ y.op = op
      <2>1. receipts' = receipts \cup
              {[run |-> r, op |-> my[h].op, body |-> Body(h), event |-> e, mark |-> Len(ledger[r]) + 1]}
            BY <1>1, <1>3, BatchAppends
      <2>2. PICK z : z = [run |-> r, op |-> my[h].op, body |-> Body(h), event |-> e,
                          mark |-> Len(ledger[r]) + 1]
            OBVIOUS
      <2>3. receipts' = receipts \cup {z} /\ z.run = r /\ z.op = op BY <1>1, <2>1, <2>2
      <2>4. QED BY <2>3
<1>6. <<r, op>> \notin Used BY <1>3 DEF Used, HasReceipt
<1>7. Used' = Used \cup {<<r, op>>}
      <2>1. Used' = {<<x.run, x.op>> : x \in receipts \cup {y}} BY <1>5 DEF Used
      <2>2. QED BY <1>5, <2>1 DEF Used
<1> DEFINE n == Len(ledger[r])
           old == [i \in 1..n |-> ledger[r][i].id]
           new == [i \in 1..(n + 1) |-> ledger'[r][i].id]
<1>8. /\ DOMAIN ledger[r] = 1..n /\ DOMAIN ledger'[r] = 1..(n + 1)
      /\ \A x \in Ids : DOMAIN ledger[x] = 1..Len(ledger[x])
      <2>1. ledger'[r] \in Seq(Event) BY <1>2, <1>4
      <2>2. QED BY <1>4, <2>1, LenProperties DEF Inv, Typed
<1>9. Facts \in [Ids -> Seq(Ids)]
      <2>1. ASSUME NEW x \in Ids PROVE [i \in DOMAIN ledger[x] |-> ledger[x][i].id] \in Seq(Ids)
            <3>1. ledger[x] \in Seq(Event) BY DEF Inv, Typed
            <3>2. /\ Len(ledger[x]) \in Nat /\ DOMAIN ledger[x] = 1..Len(ledger[x])
                  /\ \A i \in 1..Len(ledger[x]) : ledger[x][i] \in Event
                  BY <3>1, LenProperties, ElementOfSeq
            <3>3. \A i \in 1..Len(ledger[x]) : ledger[x][i].id \in Ids BY <3>2 DEF Event
            <3>4. QED BY <3>2, <3>3, IsASeq
      <2>2. QED BY <2>1 DEF Facts
<1>10. new = Append(old, e.id)
       <2>1. ASSUME NEW i \in 1..n PROVE new[i] = old[i]
             <3>1. i \in 1..(n + 1) /\ ledger'[r][i] = ledger[r][i] BY <1>4
             <3>2. QED BY <3>1
       <2>2. new[n + 1] = e.id BY <1>4
       <2>3. old = Facts[r] BY <1>2, <1>8 DEF Facts
       <2>4. old \in Seq(Ids) BY <1>2, <1>9, <2>3
       <2>5. DOMAIN old = 1..n /\ DOMAIN new = 1..(n + 1) /\ n \in Nat BY <1>4
       <2>6. Len(old) = n BY <2>4, <2>5, LenProperties
       <2> HIDE DEF old, new, n
       <2>7. /\ Append(old, e.id) \in Seq(Ids) /\ Len(Append(old, e.id)) = n + 1
             /\ \A i \in 1..n : Append(old, e.id)[i] = old[i]
             /\ Append(old, e.id)[n + 1] = e.id
             BY <1>2, <2>4, <2>6, AppendProperties
       <2>8. DOMAIN Append(old, e.id) = 1..(n + 1) BY <2>7, LenProperties
       <2>9. \A i \in 1..(n + 1) : new[i] = Append(old, e.id)[i]
             BY <2>1, <2>2, <2>5, <2>7
       <2>10. new = [i \in DOMAIN new |-> new[i]] BY DEF new
       <2>11. Append(old, e.id) = [i \in DOMAIN Append(old, e.id) |-> Append(old, e.id)[i]]
              BY <2>7
       <2>12. QED BY <2>5, <2>8, <2>9, <2>10, <2>11
<1>11. Facts' = [Facts EXCEPT ![r] = Append(@, e.id)]
       <2>1. Facts[r] = old BY <1>2, <1>8 DEF Facts
       <2>2. Facts'[r] = new BY <1>2, <1>8 DEF Facts
       <2>3. \A x \in Ids \ {r} : Facts'[x] = Facts[x] BY <1>4 DEF Facts
       <2> HIDE DEF old, new, n
       <2>4. QED BY <1>10, <2>1, <2>2, <2>3 DEF Facts
<1>12. ~\E x \in Ids : \E i \in DOMAIN Facts[x] : Facts[x][i] = e.id
       BY <1>2, <1>8 DEF Facts, Written
<1>13. QED
       BY <1>2, <1>6, <1>7, <1>11, <1>12
       DEF Ledger!Next, Ledger!Record, Ledger!IsLogged, Facts, Used

\* The journals, seen as the facts they hold, behave as FactLog: a fact is
\* appended once, to one run, under a key nobody has used (commit_event_batch).
THEOREM LedgerRefinesFactLog == Spec => RefinesFactLog
<1>1. Init => Ledger!Init
      <2> SUFFICES ASSUME Init PROVE Ledger!Init OBVIOUS
      <2>1. \A r \in Ids : [i \in DOMAIN ledger[r] |-> ledger[r][i].id] = <<>> BY DEF Init
      <2>2. {<<x.run, x.op>> : x \in receipts} = {} BY DEF Init
      <2>3. QED BY <2>1, <2>2 DEF Ledger!Init
<1>2. Inv /\ [Next]_vars => [Ledger!Next]_<<Facts, Used>>
      <2> SUFFICES ASSUME Inv, [Next]_vars PROVE [Ledger!Next]_<<Facts, Used>> OBVIOUS
      <2>1. CASE UNCHANGED <<ledger, receipts>> BY <2>1 DEF Facts, Used
      <2>2. ASSUME NEW h \in Handlers, Writes(h) PROVE Ledger!Next BY <2>2, FactsGrow
      <2>3. QED BY <2>1, <2>2, OnlyCommitWrites
<1>3. QED BY <1>1, <1>2, Invariant, PTL DEF RefinesFactLog, Ledger!Spec, Spec, Facts, Used
-----------------------------------------------------------------------------
(* Reports reach their session, or are owed to it.                         *)

Shown(op) ==
  \/ ~IsSessionOf(tasks[op].session, tasks[op].event.run)
  \/ Holds(sessions[tasks[op].session], tasks[op].event)

\* A run that some session follows, or that a report has been composed for.
Opened(n) ==
  \/ \E s \in Sessions : sessions[s] # None /\ sessions[s].run = n
  \/ \E p \in Reports : drafts[p] # None /\ drafts[p].run = n

Opening(at, l) == at = "tracing" \/ (at = "tracesaving" /\ l.event.run = l.event.id)

\* A copy that is as old as its session has everything that the session has.
Timely(at, l) ==
  LET doc == sessions[l.session] IN
  /\ doc # None /\ l.copy.rev <= doc.rev
  /\ l.copy.rev = doc.rev =>
       /\ \A e \in Event : Holds(doc, e) => Holds(l.copy, e)
       /\ l.copy.run = doc.run \/ (Opening(at, l) /\ l.copy.run = l.event.id)

Carries(at, l) ==
  /\ at \in {"mirroring", "mirrorsaving"} => l.op \notin Reports
  /\ at \in {"saving", "deliversaving"} /\ l.op \in Reports =>
       l.session = tasks[l.op].session /\ l.event = tasks[l.op].event
  /\ at \in {"saving", "deliversaving"} => Holds(l.copy, l.event)
  /\ at = "marking" /\ l.op \in Reports => Shown(l.op)
  /\ at \notin Vacant /\ l.copy # None => Timely(at, l)
  /\ Opening(at, l) => ~Opened(l.event.id)

Reported ==
  /\ \A x \in receipts : x.op \in Reports =>
       /\ tasks[x.op] # None /\ tasks[x.op].event = x.event /\ x.event.run = x.run
       /\ drafts[x.op] # None /\ drafts[x.op].run = x.run
  /\ \A op \in Reports : tasks[op] # None => \E x \in receipts : x.op = op

Delivered ==
  \A op \in Reports : tasks[op] # None /\ tasks[op].state = "delivered" => Shown(op)

Kept ==
  /\ Reported /\ Delivered
  /\ \A n \in Ids : Opened(n) => n \in 1..ops
  /\ \A t \in Threads : Carries(pc[t], my[t])

\* What may become of a session: it begins a new trace, keeps what it has, or
\* begins to follow a run that nothing has followed.
Succeeds(s) ==
  \/ sessions'[s] = sessions[s]
  \/ /\ sessions'[s] # None /\ Revision(s) < sessions'[s].rev
     /\ \/ sessions'[s].run = None
        \/ /\ sessions[s] # None /\ sessions'[s].run = sessions[s].run
           /\ \A e \in Event : Holds(sessions[s], e) => Holds(sessions'[s], e)
        \/ sessions'[s].run \in Ids /\ ~Opened(sessions'[s].run)

\* A task stays about the same event and the same session.
TasksStay ==
  \A op \in OpIds : tasks[op] # None =>
    /\ tasks'[op] # None
    /\ tasks'[op].session = tasks[op].session /\ tasks'[op].event = tasks[op].event

LEMMA ReportOpened ==
  ASSUME Inv, Kept, NEW op \in Reports, tasks[op] # None
  PROVE  /\ tasks[op].event \in Event /\ tasks[op].session \in Sessions
         /\ tasks[op].event.run \in Ids /\ Opened(tasks[op].event.run)
<1>1. op \in OpIds BY DEF OpIds
<1>2. /\ tasks[op].event \in Event /\ tasks[op].session \in Sessions /\ tasks[op].event.run \in Ids
      BY <1>1 DEF Inv, Typed, Owed, Task
<1>3. PICK x \in receipts : x.op = op BY DEF Kept, Reported
<1>4. drafts[op] # None /\ drafts[op].run = tasks[op].event.run BY <1>3 DEF Kept, Reported
<1>5. QED BY <1>2, <1>4 DEF Opened

LEMMA ShownStays ==
  ASSUME Inv, Kept, TasksStay, \A s \in Sessions : Succeeds(s),
         NEW op \in Reports, tasks[op] # None, Shown(op)
  PROVE  Shown(op)'
<1>1. PICK s, e : s = tasks[op].session /\ e = tasks[op].event OBVIOUS
<1>2. e \in Event /\ s \in Sessions /\ e.run \in Ids /\ Opened(e.run) BY <1>1, ReportOpened
<1>3. tasks'[op].session = s /\ tasks'[op].event = e BY <1>1 DEF TasksStay, OpIds
<1>4. (sessions[s] = None \/ sessions[s].run # e.run) \/ Holds(sessions[s], e)
      BY <1>1 DEF Shown, IsSessionOf
<1>5. None \notin Ids BY ConstantsAssumption DEF Ids
<1>6. (sessions'[s] = None \/ sessions'[s].run # e.run) \/ Holds(sessions'[s], e)
      <2>1. CASE sessions'[s] = sessions[s] BY <1>4, <2>1
      <2>2. CASE sessions'[s].run = None BY <1>2, <1>5, <2>2
      <2>3. CASE /\ sessions[s] # None /\ sessions'[s].run = sessions[s].run
                 /\ \A x \in Event : Holds(sessions[s], x) => Holds(sessions'[s], x)
            BY <1>2, <1>4, <2>3
      <2>4. CASE sessions'[s].run \in Ids /\ ~Opened(sessions'[s].run) BY <1>2, <2>4
      <2>5. QED BY <1>2, <2>1, <2>2, <2>3, <2>4 DEF Succeeds
<1>7. QED BY <1>3, <1>6 DEF Shown, IsSessionOf, Holds

\* What another thread has in hand stays true.
LEMMA CarriesStay ==
  ASSUME Inv, Inv', Kept, TasksStay, \A s \in Sessions : Succeeds(s),
         NEW u \in Threads, NEW at, NEW l, at = pc[u], l = my[u],
         Opening(at, l) => ~Opened(l.event.id)'
  PROVE  Carries(at, l)'
<1>1. Carries(at, l) /\ Place(u, at, l) /\ Relies(at, l) BY DEF Kept, Inv, Threaded, Knows
<1>2. at \notin Vacant => l \in Local /\ l.op \in OpIds /\ l.session \in Sessions
      BY <1>1 DEF Place, Local
<1>3. at \in {"saving", "deliversaving", "marking"} => at \notin Vacant /\ tasks[l.op] # None
      BY <1>1 DEF Relies, Vacant
<1>4. at \in {"saving", "deliversaving"} /\ l.op \in Reports =>
        l.session = tasks'[l.op].session /\ l.event = tasks'[l.op].event
      BY <1>1, <1>2, <1>3 DEF Carries, TasksStay
<1>5. at = "marking" /\ l.op \in Reports => Shown(l.op)'
      BY <1>1, <1>3, ShownStays DEF Carries
<1>6. ASSUME at \notin Vacant, l.copy # None PROVE Timely(at, l)'
      <2>1. PICK s, old, new : s = l.session /\ old = sessions[s] /\ new = sessions'[s] OBVIOUS
      <2>2. s \in Sessions /\ l.copy \in Session BY <1>2, <1>6, <2>1 DEF Local
      <2>3. /\ old # None /\ l.copy.rev <= old.rev
            /\ l.copy.rev = old.rev =>
                 /\ \A e \in Event : Holds(old, e) => Holds(l.copy, e)
                 /\ l.copy.run = old.run \/ (Opening(at, l) /\ l.copy.run = l.event.id)
            BY <1>1, <1>6, <2>1 DEF Carries, Timely
      <2>4. old \in Session BY <2>1, <2>2, <2>3 DEF Inv, Typed
      <2>5. CASE new = old BY <2>1, <2>3, <2>5 DEF Timely, Opening, Holds
      <2>6. CASE new # old
            <3>1. new # None /\ old.rev < new.rev BY <2>1, <2>2, <2>3, <2>6 DEF Succeeds, Revision
            <3>2. new \in Session
                  <4>1. sessions' \in [Sessions -> Session \cup {None}] BY DEF Inv, Typed
                  <4>2. QED BY <2>1, <2>2, <3>1, <4>1
            <3>3. l.copy.rev \in Nat /\ old.rev \in Nat /\ new.rev \in Nat
                  BY <2>2, <2>4, <3>2 DEF Session
            <3>4. l.copy.rev <= new.rev /\ l.copy.rev # new.rev BY <2>3, <3>1, <3>3
            <3>5. QED BY <2>1, <3>1, <3>4 DEF Timely
      <2>7. QED BY <2>5, <2>6
<1>7. QED BY <1>1, <1>4, <1>5, <1>6 DEF Carries, Opening, Holds

LEMMA DeliveredStays ==
  ASSUME Inv, Kept, TasksStay, \A s \in Sessions : Succeeds(s),
         \A op \in Reports : tasks'[op] # None /\ tasks'[op].state = "delivered" =>
           tasks[op] # None /\ (tasks[op].state = "delivered" \/ Shown(op))
  PROVE  Delivered'
<1>1. ASSUME NEW op \in Reports, tasks'[op] # None, tasks'[op].state = "delivered" PROVE Shown(op)'
      <2>1. tasks[op] # None /\ Shown(op) BY <1>1 DEF Kept, Delivered
      <2>2. QED BY <2>1, ShownStays
<1>2. QED BY <1>1 DEF Delivered

LEMMA ReportedStays ==
  ASSUME Inv, Kept, TasksStay, UNCHANGED receipts,
         \A p \in Reports : drafts[p] # None => drafts'[p] = drafts[p],
         \A op \in Reports : tasks'[op] # None => tasks[op] # None
  PROVE  Reported'
BY DEF Kept, Reported, TasksStay, OpIds

\* What one thread does next must be true of what it holds; the rest stays.
LEMMA KeptStep ==
  ASSUME Inv, Inv', Kept, TasksStay, \A s \in Sessions : Succeeds(s),
         Reported', Delivered', \A n \in Ids : Opened(n)' => n \in 1..ops',
         NEW t \in Threads, NEW at \in HandlerPCs \cup WorkerPCs, NEW l \in Local \cup {None},
         Turns(t, at, l), Carries(at, l)',
         \A n \in Ids : Opened(n)' =>
           \/ Opened(n)
           \/ my[t] # None /\ n = my[t].event.id
  PROVE  Kept'
<1>1. /\ pc \in [Threads -> HandlerPCs \cup WorkerPCs] /\ my \in [Threads -> Local \cup {None}]
      BY DEF Inv, Threaded
<1>2. /\ pc'[t] = at /\ my'[t] = l
      /\ \A u \in Threads \ {t} : pc'[u] = pc[u] /\ my'[u] = my[u]
      BY <1>1 DEF Turns
<1>3. ASSUME NEW u \in Threads, NEW x, NEW y, x = pc'[u], y = my'[u] PROVE Carries(x, y)'
      <2>1. CASE u = t BY <1>2, <1>3, <2>1
      <2>2. CASE u # t
            <3>1. x = pc[u] /\ y = my[u] BY <1>2, <1>3, <2>2
            <3>2. ASSUME Opening(x, y) PROVE ~Opened(y.event.id)'
                  <4>1. pc[u] \in PreCommit /\ pc[u] \notin Vacant
                        BY <3>1, <3>2 DEF Opening, PreCommit, Vacant
                  <4>2. y.event.id \in Ids /\ y # None BY <3>1, <4>1, Holder
                  <4>3. ~Opened(y.event.id) BY <3>1, <3>2 DEF Kept, Carries
                  <4>4. my[t] # None => my[t].event.id # y.event.id
                        BY <2>2, <3>1, <4>1 DEF Inv, Fresh, IsFresh
                  <4>5. QED BY <4>2, <4>3, <4>4
            <3>3. QED BY <3>1, <3>2, CarriesStay
      <2>3. QED BY <2>1, <2>2
<1>4. \A u \in Threads : Carries(pc[u], my[u])' BY <1>3
<1>5. QED BY <1>4 DEF Kept

\* A thread looks, and the tables, sessions and drafts stay.
LEMMA KeptLooks ==
  ASSUME Inv, Inv', Kept, UNCHANGED <<receipts, tasks, sessions, drafts, ops>>,
         NEW t \in Threads, NEW at \in HandlerPCs \cup WorkerPCs, NEW l \in Local \cup {None},
         Turns(t, at, l), Carries(at, l)
  PROVE  Kept'
<1>1. TasksStay /\ \A s \in Sessions : Succeeds(s) BY DEF TasksStay, Succeeds
<1>2. Reported' BY <1>1, ReportedStays
<1>3. Delivered' BY <1>1, DeliveredStays
<1>4. \A n \in Ids : Opened(n)' => Opened(n) BY DEF Opened
<1>5. \A n \in Ids : Opened(n)' => n \in 1..ops' BY <1>4 DEF Kept
<1>6. Carries(at, l)' BY DEF Carries, Timely, Shown, Opened, Opening, Holds, IsSessionOf
<1>7. QED BY <1>1, <1>2, <1>3, <1>4, <1>5, <1>6, KeptStep

LEMMA VacantCarries ==
  ASSUME NEW at \in Vacant, NEW l
  PROVE  Carries(at, l) /\ Carries(at, l)'
BY DEF Vacant, Carries, Opening

LEMMA KeptDone ==
  ASSUME Inv, Inv', Kept, UNCHANGED <<receipts, tasks, sessions, drafts, ops>>,
         NEW t \in Threads, Done(t)
  PROVE  Kept'
<1>1. PICK at \in Vacant : Turns(t, at, None) BY DonePlace
<1>2. at \in HandlerPCs \cup WorkerPCs BY VacantRelies
<1>3. QED BY <1>1, <1>2, VacantCarries, KeptLooks

LEMMA WithHolds ==
  ASSUME NEW doc \in Session, NEW e \in Event
  PROVE  /\ Holds(With(doc, e), e)
         /\ \A x : Holds(doc, x) => Holds(With(doc, e), x)
<1> DEFINE w == With(doc, e)
<1>1. /\ w \in Session /\ Len(doc.trace) \in Nat /\ Len(w.trace) = Len(doc.trace) + 1
      /\ \A i \in 1..Len(doc.trace) : w.trace[i] = doc.trace[i]
      /\ w.trace[Len(doc.trace) + 1] = e
      BY WithTyped
<1>2. DOMAIN doc.trace = 1..Len(doc.trace) /\ DOMAIN w.trace = 1..Len(w.trace)
      BY <1>1, LenProperties DEF Session
<1> HIDE DEF w
<1>3. Len(doc.trace) + 1 \in DOMAIN w.trace /\ DOMAIN doc.trace \subseteq DOMAIN w.trace
      BY <1>1, <1>2
<1>4. Holds(w, e) BY <1>1, <1>3 DEF Holds
<1>5. ASSUME NEW x, Holds(doc, x) PROVE Holds(w, x) BY <1>1, <1>2, <1>3, <1>5 DEF Holds
<1>6. QED BY <1>4, <1>5 DEF w

\* A copy of the present document, with or without an event more, is timely.
LEMMA CopyTimely ==
  ASSUME NEW at, NEW l, sessions[l.session] \in Session, sessions[l.session] # None,
         l.copy.rev = sessions[l.session].rev,
         \A e \in Event : Holds(sessions[l.session], e) => Holds(l.copy, e),
         l.copy.run = sessions[l.session].run \/ (Opening(at, l) /\ l.copy.run = l.event.id)
  PROVE  Timely(at, l)
BY DEF Timely, Session

LEMMA TimelyOn ==
  ASSUME Kept, NEW t \in Threads, pc[t] \notin Vacant \cup {"tracing", "tracesaving"},
         NEW at, NEW l, l.copy = my[t].copy, l.session = my[t].session, l.copy # None
  PROVE  Timely(at, l)
<1>1. Timely(pc[t], my[t]) /\ ~Opening(pc[t], my[t]) BY DEF Kept, Carries, Opening
<1>2. QED BY <1>1 DEF Timely

\* Places at which a thread needs nothing but a timely copy.
Plain == {"superseding", "looking", "committing", "basing", "owing", "failing"}

LEMMA KeptGoesOn ==
  ASSUME Inv, Inv', Kept, UNCHANGED <<receipts, tasks, sessions, drafts, ops>>,
         NEW t \in Threads, pc[t] \notin Vacant \cup {"tracing", "tracesaving"},
         NEW at \in (HandlerPCs \cup WorkerPCs) \cap Plain, NEW l \in Local,
         l.copy = my[t].copy, l.session = my[t].session, Turns(t, at, l)
  PROVE  Kept'
<1>1. l.copy # None => Timely(at, l) BY TimelyOn
<1>2. Carries(at, l) BY <1>1 DEF Carries, Plain, Opening
<1>3. QED BY <1>2, KeptLooks

LEMMA KeptHookReads ==
  ASSUME Inv, Inv', Kept, NEW h \in Handlers, HookReads(h)
  PROVE  Kept'
<1> DEFINE s == my[h].session
           r == EnsuredRun(h)
           e == [my[h].event EXCEPT !.run = r]
           w == With(sessions[s], e)
           c == [w EXCEPT !.run = r]
           l == [my[h] EXCEPT !.event = e, !.copy = c]
<1>1. /\ h \in Threads /\ pc[h] = "tracing" /\ pc[h] \notin Vacant
      /\ UNCHANGED <<receipts, tasks, sessions, drafts, ops>>
      BY DEF HookReads, Threads, Vacant, tables
<1>2. /\ my[h] \in Local /\ my[h] # None /\ my[h].event \in Event /\ my[h].event.id \in Ids
      /\ s \in Sessions
      BY <1>1, Holder DEF Local
<1>3. CASE sessions[s] = None
      <2>1. Done(h) BY <1>3 DEF HookReads
      <2>2. QED BY <1>1, <2>1, KeptDone
<1>4. CASE sessions[s] # None
      <2>1. sessions[s] \in Session BY <1>2, <1>4 DEF Inv, Typed
      <2>2. r \in Ids /\ (r = sessions[s].run \/ r = my[h].event.id)
            BY <1>2, <2>1 DEF EnsuredRun, Session
      <2>3. pc' = [pc EXCEPT ![h] = "tracesaving"] /\ my' = [my EXCEPT ![h].event = e, ![h].copy = c]
            BY <1>4 DEF HookReads, Goto
      <2>4. ~Opened(my[h].event.id) BY <1>1 DEF Kept, Carries, Opening
      <2> HIDE DEF r
      <2>5. e \in Event /\ e.id = my[h].event.id /\ e.run = r BY <1>2, <2>2 DEF Event
      <2> HIDE DEF e
      <2>6. /\ w \in Session /\ w.rev = sessions[s].rev
            /\ \A x : Holds(sessions[s], x) => Holds(w, x)
            BY <2>1, <2>5, WithTyped, WithHolds
      <2> HIDE DEF w
      <2>7. c \in Session /\ c.trace = w.trace /\ c.rev = sessions[s].rev /\ c.run = r
            BY <2>2, <2>6 DEF Session
      <2> HIDE DEF c
      <2>8. \A x : Holds(sessions[s], x) => Holds(c, x) BY <2>6, <2>7 DEF Holds
      <2>9. Turns(h, "tracesaving", l) BY <1>2, <2>3 DEF Turns
      <2>10. l \in Local /\ l.event = e /\ l.copy = c /\ l.session = s
             BY <1>2, <2>5, <2>7 DEF Local
      <2> HIDE DEF l, s
      <2>11. c.run = sessions[s].run \/ (Opening("tracesaving", l) /\ c.run = e.id)
             BY <2>2, <2>5, <2>7, <2>10 DEF Opening
      <2>12. Timely("tracesaving", l)
             BY <1>4, <2>1, <2>7, <2>8, <2>10, <2>11, CopyTimely
      <2>13. ~Opened(l.event.id) BY <2>4, <2>5, <2>10
      <2>14. Carries("tracesaving", l) BY <2>12, <2>13 DEF Carries
      <2>15. "tracesaving" \in HandlerPCs BY DEF HandlerPCs
      <2>16. QED BY <1>1, <2>9, <2>10, <2>14, <2>15, KeptLooks
<1>5. QED BY <1>3, <1>4

LEMMA KeptReadBase ==
  ASSUME Inv, Inv', Kept, NEW h \in Handlers, ReadBase(h)
  PROVE  Kept'
<1>1. /\ h \in Threads /\ pc[h] = "basing" /\ pc[h] \notin Vacant \cup {"tracing", "tracesaving"}
      /\ UNCHANGED <<receipts, tasks, sessions, drafts, ops>>
      BY DEF ReadBase, Threads, Vacant, tables
<1>2. my[h] \in Local BY <1>1, Holder
<1>3. PICK at \in {"superseding", "looking"} : pc' = [pc EXCEPT ![h] = at]
      BY DEF ReadBase, Goto
<1>4. my' \in [Threads -> Local \cup {None}] /\ my \in [Threads -> Local \cup {None}]
      BY DEF Inv, Threaded
<1>5. at \in (HandlerPCs \cup WorkerPCs) \cap Plain /\ at \notin Vacant BY DEF HandlerPCs, Plain, Vacant
<1>6. pc'[h] = at BY <1>1, <1>3 DEF Inv, Threaded
<1>7. my'[h] \in Local
      <2>1. Place(h, pc'[h], my'[h]) BY <1>1 DEF Inv, Threaded, Knows
      <2>2. QED BY <1>5, <1>6, <2>1 DEF Place
<1>8. /\ my' = [my EXCEPT ![h] = my'[h]]
      /\ my'[h].copy = my[h].copy /\ my'[h].session = my[h].session
      BY <1>1, <1>2, <1>4 DEF ReadBase, Local
<1>9. PICK l \in Local : l = my'[h] BY <1>7
<1>10. Turns(h, at, l) BY <1>3, <1>8, <1>9 DEF Turns
<1>11. QED BY <1>1, <1>5, <1>8, <1>9, <1>10, KeptGoesOn

\* Going on with what the thread has read.
LEMMA KeptWaits ==
  ASSUME Inv, Inv', Kept, UNCHANGED <<receipts, tasks, sessions, drafts, ops, my>>,
         NEW t \in Threads, pc[t] \notin Vacant \cup {"tracing", "tracesaving"},
         NEW at \in (HandlerPCs \cup WorkerPCs) \cap Plain, Goto(t, at)
  PROVE  Kept'
<1>1. my[t] \in Local BY Holder
<1>2. Turns(t, at, my[t]) BY DEF Turns, Goto, Inv, Threaded
<1>3. QED BY <1>1, <1>2, KeptGoesOn

LEMMA KeptReads ==
  ASSUME Inv, Inv', Kept, NEW h \in Handlers,
         Supersede(h) \/ LookUp(h) \/ ReportGates(h) \/ OwesDelivery(h)
  PROVE  Kept'
<1>1. h \in Threads /\ UNCHANGED <<receipts, tasks, sessions, drafts, ops>>
      BY DEF Supersede, LookUp, ReportGates, OwesDelivery, Threads, tables
<1>2. \A at \in Plain \ {"failing"} : at \in (HandlerPCs \cup WorkerPCs) \cap Plain
      BY DEF Plain, HandlerPCs
<1>3. CASE Supersede(h)
      <2>1. /\ pc[h] \notin Vacant \cup {"tracing", "tracesaving"} /\ my' = my
            /\ Goto(h, "looking") /\ "looking" \in Plain \ {"failing"}
            BY <1>3 DEF Supersede, Vacant, Plain
      <2>2. QED BY <1>1, <1>2, <2>1, KeptWaits
<1>4. CASE LookUp(h)
      <2>1. /\ pc[h] \notin Vacant \cup {"tracing", "tracesaving"}
            /\ Done(h) \/ (Goto(h, "committing") /\ my' = my)
            /\ "committing" \in Plain \ {"failing"}
            BY <1>4 DEF LookUp, Vacant, Plain
      <2>2. QED BY <1>1, <1>2, <2>1, KeptWaits, KeptDone
<1>5. CASE ReportGates(h)
      <2> DEFINE x == runs[my[h].event.run].ctx
                 l == [my[h] EXCEPT !.expected = x]
      <2>1. /\ pc[h] \notin Vacant \cup {"tracing", "tracesaving"}
            /\ Done(h) \/ (my' = [my EXCEPT ![h].expected = x] /\ Goto(h, "basing"))
            /\ "basing" \in Plain \ {"failing"}
            BY <1>5 DEF ReportGates, Vacant, Plain
      <2>2. CASE my' = [my EXCEPT ![h].expected = x] /\ Goto(h, "basing")
            <3>1. my[h] \in Local BY <1>1, <2>1, Holder
            <3>2. l.copy = my[h].copy /\ l.session = my[h].session BY <3>1 DEF Local
            <3>3. Turns(h, "basing", l) BY <2>2 DEF Turns, Goto
            <3>4. l \in Local
                  <4>1. my'[h] = l /\ pc'[h] = "basing" BY <1>1, <2>2 DEF Inv, Threaded, Goto
                  <4>2. Place(h, pc'[h], my'[h]) BY <1>1 DEF Inv, Threaded, Knows
                  <4>3. QED BY <4>1, <4>2 DEF Place, Vacant
            <3> HIDE DEF l
            <3>5. QED BY <1>1, <1>2, <2>1, <3>2, <3>3, <3>4, KeptGoesOn
      <2>3. QED BY <1>1, <2>1, <2>2, KeptDone
<1>6. CASE OwesDelivery(h)
      <2> DEFINE x == IsSessionOf(my[h].session, my[h].event.run)
                 l == [my[h] EXCEPT !.owes = x]
      <2>1. /\ pc[h] \notin Vacant \cup {"tracing", "tracesaving"}
            /\ my' = [my EXCEPT ![h].owes = x] /\ Goto(h, "committing")
            /\ "committing" \in Plain \ {"failing"}
            BY <1>6 DEF OwesDelivery, Vacant, Plain
      <2>2. x \in BOOLEAN BY DEF IsSessionOf
      <2> HIDE DEF x
      <2>3. my[h] \in Local BY <1>1, <2>1, Holder
      <2>4. l \in Local /\ l.copy = my[h].copy /\ l.session = my[h].session
            BY <2>2, <2>3 DEF Local
      <2>5. Turns(h, "committing", l) BY <2>1 DEF Turns, Goto
      <2> HIDE DEF l
      <2>6. QED BY <1>1, <1>2, <2>1, <2>4, <2>5, KeptGoesOn
<1>7. QED BY <1>3, <1>4, <1>5, <1>6

\* The obligation of a fact that is no report is none of ours.
LEMMA KeptAfterMirror ==
  ASSUME Inv, Inv', Kept, NEW h \in Handlers, pc[h] \in {"mirroring", "mirrorsaving"}, AfterMirror(h),
         UNCHANGED <<receipts, tasks, sessions, drafts, ops>>
  PROVE  Kept'
<1>1. h \in Threads /\ pc[h] \notin Vacant \cup {"tracing", "tracesaving"} BY DEF Threads, Vacant
<1>2. CASE Done(h) BY <1>1, <1>2, KeptDone
<1>3. CASE Goto(h, "marking") /\ UNCHANGED my
      <2>1. my[h] \in Local /\ my[h].op \notin Reports BY <1>1, Holder DEF Kept, Carries
      <2>2. my[h].copy # None => Timely("marking", my[h]) BY <1>1, TimelyOn
      <2>3. Carries("marking", my[h]) BY <2>1, <2>2 DEF Carries, Opening
      <2>4. Turns(h, "marking", my[h]) BY <1>3 DEF Turns, Goto, Inv, Threaded
      <2>5. "marking" \in HandlerPCs BY DEF HandlerPCs
      <2>6. QED BY <1>1, <2>1, <2>3, <2>4, <2>5, KeptLooks
<1>4. QED BY <1>2, <1>3 DEF AfterMirror

LEMMA KeptMirrorReads ==
  ASSUME Inv, Inv', Kept, NEW h \in Handlers, MirrorReads(h)
  PROVE  Kept'
<1> DEFINE s == my[h].session
           c == With(sessions[s], my[h].event)
           l == [my[h] EXCEPT !.copy = c]
<1>1. /\ h \in Threads /\ pc[h] = "mirroring" /\ pc[h] \notin Vacant
      /\ UNCHANGED <<receipts, tasks, sessions, drafts, ops>>
      BY DEF MirrorReads, Threads, Vacant, tables
<1>2. /\ my[h] \in Local /\ my[h].event \in Event /\ s \in Sessions
      BY <1>1, Holder DEF Local
<1>3. CASE IsSessionOf(s, my[h].event.run)
      <2>1. my' = [my EXCEPT ![h].copy = c] /\ Goto(h, "mirrorsaving") BY <1>3 DEF MirrorReads
      <2>2. sessions[s] \in Session /\ sessions[s] # None
            BY <1>2, <1>3 DEF Inv, Typed, IsSessionOf
      <2>3. /\ c \in Session /\ c.rev = sessions[s].rev /\ c.run = sessions[s].run
            /\ \A x : Holds(sessions[s], x) => Holds(c, x)
            BY <1>2, <2>2, WithTyped, WithHolds
      <2>4. Turns(h, "mirrorsaving", l) BY <2>1 DEF Turns, Goto
      <2> HIDE DEF c
      <2>5. l \in Local /\ l.op = my[h].op /\ l.copy = c /\ l.session = s
            BY <1>2, <2>3 DEF Local
      <2> HIDE DEF l, s
      <2>6. Timely("mirrorsaving", l) BY <2>2, <2>3, <2>5, CopyTimely
      <2>7. l.op \notin Reports BY <1>1, <2>5 DEF Kept, Carries
      <2>8. Carries("mirrorsaving", l) BY <2>6, <2>7 DEF Carries, Opening
      <2>9. "mirrorsaving" \in HandlerPCs BY DEF HandlerPCs
      <2>10. QED BY <1>1, <2>4, <2>5, <2>8, <2>9, KeptLooks
<1>4. CASE ~IsSessionOf(s, my[h].event.run)
      <2>1. AfterMirror(h) BY <1>4 DEF MirrorReads
      <2>2. QED BY <1>1, <2>1, KeptAfterMirror
<1>5. QED BY <1>3, <1>4

LEMMA KeptWorkerLooks ==
  ASSUME Inv, Inv', Kept, NEW t \in Threads, NEW at \in {"idle", "delivering"},
         pc' = [pc EXCEPT ![t] = at], my' = [my EXCEPT ![t] = None],
         UNCHANGED <<receipts, tasks, sessions, drafts, ops>>
  PROVE  Kept'
<1>1. at \in Vacant BY DEF Vacant
<1>2. Turns(t, at, None) BY DEF Turns
<1>3. QED BY <1>1, <1>2, VacantRelies, VacantCarries, KeptLooks

LEMMA KeptCycle ==
  ASSUME Inv, Inv', Kept, NEW w \in Workers, ListDue(w) \/ CycleEnds(w)
  PROVE  Kept'
<1>1. w \in Threads /\ pc[w] \in {"idle", "delivering"} /\ my' = my
      /\ UNCHANGED <<receipts, tasks, sessions, drafts, ops>>
      BY DEF ListDue, CycleEnds, Threads, tables
<1>2. PICK at \in {"idle", "delivering"} : pc' = [pc EXCEPT ![w] = at]
      BY DEF ListDue, CycleEnds, Goto
<1>3. my[w] = None
      <2>1. Place(w, pc[w], my[w]) BY <1>1 DEF Inv, Threaded, Knows
      <2>2. QED BY <1>1, <2>1 DEF Place, Vacant
<1>4. my' = [my EXCEPT ![w] = None] BY <1>1, <1>3 DEF Inv, Threaded
<1>5. QED BY <1>1, <1>2, <1>4, KeptWorkerLooks

LEMMA KeptAbort ==
  ASSUME Inv, Inv', Kept, NEW t \in Threads, Abort(t)
  PROVE  Kept'
<1>1. /\ pc' = [pc EXCEPT ![t] = "idle"] /\ my' = [my EXCEPT ![t] = None]
      /\ UNCHANGED <<receipts, tasks, sessions, drafts, ops>>
      BY DEF Abort, Goto, tables
<1>2. QED BY <1>1, KeptWorkerLooks

LEMMA KeptDeliverReads ==
  ASSUME Inv, Inv', Kept, NEW w \in Workers, DeliverReads(w)
  PROVE  Kept'
<1>1. /\ w \in Threads /\ pc[w] = "delivering"
      /\ UNCHANGED <<receipts, tasks, sessions, drafts, ops>>
      BY DEF DeliverReads, Threads, tables
<1>2. PICK op \in todo[w] :
        LET doc == sessions[tasks[op].session]
            e == tasks[op].event
        IN
        \/ /\ doc # None => Holds(doc, e)
           /\ my' = [my EXCEPT ![w] = Delivery(op, None)] /\ Goto(w, "marking")
        \/ /\ doc # None /\ ~Holds(doc, e)
           /\ my' = [my EXCEPT ![w] = Delivery(op, With(doc, e))] /\ Goto(w, "deliversaving")
        \/ my' = [my EXCEPT ![w] = Delivery(op, None)] /\ Goto(w, "failing")
      BY DEF DeliverReads
<1> DEFINE s == tasks[op].session
           doc == sessions[s]
           e == tasks[op].event
<1>3. op \in OpIds /\ tasks[op] # None BY <1>1 DEF Inv, Threaded
<1>4. e \in Event /\ s \in Sessions
      <2>1. tasks[op] \in Task BY <1>3 DEF Inv, Typed
      <2>2. QED BY <2>1 DEF Task
<1>5. ASSUME NEW c \in Session \cup {None}, NEW at \in {"marking", "deliversaving", "failing"},
             Turns(w, at, Delivery(op, c)),
             at = "marking" => doc = None \/ Holds(doc, e),
             at = "deliversaving" => Holds(c, e),
             c # None =>
               /\ doc \in Session /\ doc # None /\ c.rev = doc.rev /\ c.run = doc.run
               /\ \A x \in Event : Holds(doc, x) => Holds(c, x)
      PROVE  Kept'
      <2> DEFINE l == Delivery(op, c)
      <2>1. l \in Local /\ l.event = e /\ l.op = op /\ l.copy = c /\ l.session = s
            BY <1>3, <1>4, <1>5 DEF Delivery, Local
      <2>2. Turns(w, at, l) BY <1>5
      <2> HIDE DEF l
      <2>3. l.copy # None => Timely(at, l) BY <1>5, <2>1, CopyTimely
      <2>4. at = "marking" => Shown(op) BY <1>5 DEF Shown, IsSessionOf
      <2>5. Carries(at, l) BY <1>5, <2>1, <2>3, <2>4 DEF Carries, Opening
      <2>6. at \in WorkerPCs BY DEF WorkerPCs
      <2>7. QED BY <1>1, <2>1, <2>2, <2>5, <2>6, KeptLooks
<1>6. CASE /\ doc # None => Holds(doc, e)
           /\ my' = [my EXCEPT ![w] = Delivery(op, None)] /\ Goto(w, "marking")
      <2>1. Turns(w, "marking", Delivery(op, None)) BY <1>6 DEF Turns, Goto
      <2>2. QED BY <1>5, <1>6, <2>1
<1>7. CASE /\ doc # None /\ ~Holds(doc, e)
           /\ my' = [my EXCEPT ![w] = Delivery(op, With(doc, e))] /\ Goto(w, "deliversaving")
      <2>1. Turns(w, "deliversaving", Delivery(op, With(doc, e))) BY <1>7 DEF Turns, Goto
      <2>2. doc \in Session BY <1>4, <1>7 DEF Inv, Typed
      <2>3. /\ With(doc, e) \in Session /\ Holds(With(doc, e), e)
            /\ With(doc, e).rev = doc.rev /\ With(doc, e).run = doc.run
            /\ \A x \in Event : Holds(doc, x) => Holds(With(doc, e), x)
            BY <1>4, <2>2, WithTyped, WithHolds
      <2>4. QED BY <1>5, <1>7, <2>1, <2>2, <2>3
<1>8. CASE my' = [my EXCEPT ![w] = Delivery(op, None)] /\ Goto(w, "failing")
      <2>1. Turns(w, "failing", Delivery(op, None)) BY <1>8 DEF Turns, Goto
      <2>2. QED BY <1>5, <2>1
<1>9. QED BY <1>2, <1>6, <1>7, <1>8

\* A save succeeds only on the document that the copy was made of.
LEMMA KeptSaves ==
  ASSUME Inv, Inv', Kept, UNCHANGED <<receipts, tasks, drafts, ops>>,
         NEW t \in Threads, pc[t] \in {"tracesaving", "mirrorsaving", "saving", "deliversaving"},
         Save(t),
         NEW at \in HandlerPCs \cup WorkerPCs, NEW l \in Local \cup {None}, Turns(t, at, l),
         \/ at \in Vacant
         \/ pc[t] = "tracesaving" /\ at = "basing" /\ l = my[t]
         \/ pc[t] # "tracesaving" /\ at = "marking" /\ l = my[t]
  PROVE  Kept'
<1>1. PICK m, s, c, old : m = my[t] /\ s = m.session /\ c = m.copy /\ old = sessions[s] OBVIOUS
<1> DEFINE d == [c EXCEPT !.rev = @ + 1]
<1>2. pc[t] \notin Vacant BY DEF Vacant
<1>3. /\ m \in Local /\ m # None /\ m.event \in Event /\ m.event.id \in Ids /\ s \in Sessions
      /\ c \in Session /\ c # None
      BY <1>1, <1>2, Holder, NoneAssumption DEF Local, Place, Copied
<1>4. /\ Timely(pc[t], m) /\ (Opening(pc[t], m) => ~Opened(m.event.id))
      BY <1>1, <1>2, <1>3 DEF Kept, Carries
<1>5. old # None /\ old \in Session BY <1>1, <1>3, <1>4 DEF Timely, Inv, Typed
<1>6. c.rev = old.rev BY <1>1, <1>5 DEF Save, IsCurrent, Revision
<1>7. /\ \A e \in Event : Holds(old, e) => Holds(c, e)
      /\ c.run = old.run \/ (c.run = m.event.id /\ ~Opened(m.event.id))
      BY <1>1, <1>4, <1>6 DEF Timely
<1>8. sessions' = [sessions EXCEPT ![s] = d] BY <1>1 DEF Save
<1>9. c.rev \in Nat /\ c.rev + 1 \in Nat BY <1>3 DEF Session
<1>10. d \in Session /\ d # None /\ d.trace = c.trace /\ d.run = c.run /\ d.rev = c.rev + 1
       BY <1>3, <1>9, NoneAssumption DEF Session
<1> HIDE DEF d
<1>11. sessions'[s] = d /\ \A x \in Sessions \ {s} : sessions'[x] = sessions[x]
       BY <1>3, <1>8 DEF Inv, Typed
<1>12. \A e : Holds(c, e) <=> Holds(d, e) BY <1>10 DEF Holds
<1>13. Succeeds(s)
       <2>1. sessions'[s] # None /\ Revision(s) < sessions'[s].rev
             BY <1>1, <1>5, <1>6, <1>9, <1>10, <1>11 DEF Revision
       <2>2. CASE c.run = old.run BY <1>1, <1>5, <1>7, <1>10, <1>11, <1>12, <2>1, <2>2 DEF Succeeds
       <2>3. CASE c.run = m.event.id /\ ~Opened(m.event.id)
             BY <1>3, <1>10, <1>11, <2>1, <2>3 DEF Succeeds
       <2>4. QED BY <1>7, <2>2, <2>3
<1>14. TasksStay /\ \A x \in Sessions : Succeeds(x) BY <1>11, <1>13 DEF TasksStay, Succeeds
<1>15. Reported' BY <1>14, ReportedStays
<1>16. Delivered' BY <1>14, DeliveredStays
<1>17. ASSUME NEW n \in Ids, Opened(n)' PROVE Opened(n) \/ n = m.event.id
       <2>1. CASE sessions'[s] # None /\ sessions'[s].run = n
             BY <1>1, <1>3, <1>5, <1>7, <1>10, <1>11, <2>1 DEF Opened
       <2>2. CASE \E x \in Sessions \ {s} : sessions'[x] # None /\ sessions'[x].run = n
             BY <1>11, <2>2 DEF Opened
       <2>3. CASE \E p \in Reports : drafts'[p] # None /\ drafts'[p].run = n
             BY <2>3 DEF Opened
       <2>4. QED BY <1>3, <1>17, <2>1, <2>2, <2>3 DEF Opened
<1>18. \A n \in Ids : Opened(n)' => n \in 1..ops'
       BY <1>1, <1>3, <1>17 DEF Kept, Inv, Fresh
<1>19. ASSUME NEW x, NEW y, x = at, y = l PROVE Carries(x, y)'
       <2>1. CASE at \in Vacant BY <1>19, <2>1, VacantCarries
       <2>2. CASE l = m /\ at \in {"basing", "marking"}
             <3>1. Timely(x, y)'
                   <4>1. sessions'[y.session] = d /\ y.copy = c BY <1>1, <1>11, <1>19, <2>2
                   <4>2. d # None /\ c.rev <= d.rev /\ c.rev # d.rev BY <1>9, <1>10
                   <4>3. QED BY <4>1, <4>2 DEF Timely
             <3>2. ASSUME at = "marking", y.op \in Reports PROVE Shown(y.op)'
                   <4>1. pc[t] \in {"saving", "deliversaving"}
                         BY <1>1, <1>19, <2>2, <3>2 DEF Kept, Carries, Vacant
                   <4>2. s = tasks[y.op].session /\ m.event = tasks[y.op].event /\ Holds(c, m.event)
                         BY <1>1, <1>19, <2>2, <3>2, <4>1 DEF Kept, Carries
                   <4>3. Holds(sessions'[s], m.event) BY <1>11, <1>12, <4>2
                   <4>4. QED BY <4>2, <4>3 DEF Shown, Holds
             <3>3. QED BY <1>19, <2>2, <3>1, <3>2 DEF Carries, Opening
       <2>3. QED BY <1>1, <2>1, <2>2
<1>20. QED BY <1>1, <1>3, <1>14, <1>15, <1>16, <1>17, <1>18, <1>19, KeptStep

LEMMA KeptSaveSteps ==
  ASSUME Inv, Inv', Kept, NEW t \in Threads,
         \/ t \in Handlers /\ (HookSaves(t) \/ MirrorSaves(t) \/ ReportSaves(t))
         \/ t \in Workers /\ DeliverSaves(t)
  PROVE  Kept'
<1>1. /\ pc[t] \in {"tracesaving", "mirrorsaving", "saving", "deliversaving"} /\ pc[t] \notin Vacant
      /\ UNCHANGED <<receipts, tasks, drafts, ops>>
      BY DEF HookSaves, MirrorSaves, ReportSaves, DeliverSaves, Vacant, tables
<1>2. my[t] \in Local /\ my \in [Threads -> Local \cup {None}] BY <1>1, Holder DEF Inv, Threaded
<1>3. \A at \in {"basing", "marking", "failing"} : at \in HandlerPCs \cup WorkerPCs
      BY DEF HandlerPCs, WorkerPCs
<1>4. ASSUME Save(t), Done(t) PROVE Kept'
      <2>1. PICK at \in Vacant : Turns(t, at, None) BY <1>4, DonePlace
      <2>2. QED BY <1>1, <1>4, <2>1, VacantRelies, KeptSaves
<1>5. ASSUME Save(t), UNCHANGED my, NEW at \in {"basing", "marking"}, Goto(t, at),
             pc[t] = "tracesaving" <=> at = "basing"
      PROVE  Kept'
      <2>1. Turns(t, at, my[t]) BY <1>2, <1>5 DEF Turns, Goto
      <2>2. QED BY <1>1, <1>2, <1>3, <1>5, <2>1, KeptSaves
<1>6. ASSUME Done(t), UNCHANGED sessions PROVE Kept' BY <1>1, <1>6, KeptDone
<1>7. CASE t \in Handlers /\ HookSaves(t)
      <2>1. /\ pc[t] = "tracesaving"
            /\ (Save(t) /\ Goto(t, "basing") /\ UNCHANGED my) \/ (Done(t) /\ UNCHANGED sessions)
            BY <1>7 DEF HookSaves
      <2>2. QED BY <1>5, <1>6, <2>1
<1>8. CASE t \in Handlers /\ MirrorSaves(t)
      <2>1. pc[t] = "mirrorsaving" /\ (Save(t) \/ UNCHANGED sessions) /\ AfterMirror(t)
            BY <1>8 DEF MirrorSaves
      <2>2. CASE UNCHANGED sessions BY <1>1, <1>8, <2>1, <2>2, KeptAfterMirror
      <2>3. CASE Save(t) BY <1>4, <1>5, <2>1, <2>3 DEF AfterMirror
      <2>4. QED BY <2>1, <2>2, <2>3
<1>9. CASE t \in Handlers /\ ReportSaves(t)
      <2>1. /\ pc[t] = "saving"
            /\ (Save(t) /\ Goto(t, "marking") /\ UNCHANGED my) \/ (Done(t) /\ UNCHANGED sessions)
            BY <1>9 DEF ReportSaves
      <2>2. QED BY <1>5, <1>6, <2>1
<1>10. CASE t \in Workers /\ DeliverSaves(t)
      <2>1. /\ pc[t] = "deliversaving" /\ UNCHANGED my
            /\ (Save(t) /\ Goto(t, "marking")) \/ (UNCHANGED sessions /\ Goto(t, "failing"))
            BY <1>10 DEF DeliverSaves
      <2>2. CASE Save(t) /\ Goto(t, "marking") BY <1>5, <2>1, <2>2
      <2>3. CASE UNCHANGED sessions /\ Goto(t, "failing")
            <3>1. "failing" \in (HandlerPCs \cup WorkerPCs) \cap Plain BY <1>3 DEF Plain
            <3>2. QED BY <1>1, <2>1, <2>3, <3>1, KeptWaits
      <2>4. QED BY <2>1, <2>2, <2>3
<1>11. QED BY <1>7, <1>8, <1>9, <1>10

\* A step of no thread.
LEMMA KeptQuiet ==
  ASSUME Inv, Inv', Kept, TasksStay, UNCHANGED <<pc, my, receipts, sessions, drafts, ops>>,
         \A op \in Reports : tasks'[op] # None =>
           tasks[op] # None /\ (tasks'[op].state = "delivered" => tasks[op].state = "delivered")
  PROVE  Kept'
<1>1. \A s \in Sessions : Succeeds(s) BY DEF Succeeds
<1>2. Reported' BY ReportedStays
<1>3. Delivered' BY <1>1, DeliveredStays
<1>4. \A n \in Ids : Opened(n)' => n \in 1..ops' BY DEF Opened, Kept
<1>5. ASSUME NEW u \in Threads PROVE Carries(pc[u], my[u])'
      <2>1. PICK x, y : x = pc[u] /\ y = my[u] OBVIOUS
      <2>2. Opening(x, y) => ~Opened(y.event.id)' BY <2>1 DEF Kept, Carries, Opened
      <2>3. Carries(x, y)' BY <1>1, <2>1, <2>2, CarriesStay
      <2>4. x = pc'[u] /\ y = my'[u] BY <2>1
      <2>5. QED BY <2>3, <2>4
<1>6. QED BY <1>2, <1>3, <1>4, <1>5 DEF Kept

LEMMA KeptSettles ==
  ASSUME Inv, Inv', Kept, NEW t \in Threads, Marks(t) \/ MarkFailed(t)
  PROVE  Kept'
<1>1. /\ pc[t] \in {"marking", "failing"} /\ pc[t] \notin Vacant /\ Done(t)
      /\ UNCHANGED <<receipts, sessions, drafts, ops>>
      BY DEF Marks, MarkFailed, Vacant
<1>2. PICK op : op = my[t].op OBVIOUS
<1>3. op \in OpIds /\ tasks[op] # None BY <1>1, <1>2, Holder DEF Local, Relies
<1>4. /\ tasks \in [OpIds -> Task \cup {None}] /\ tasks' \in [OpIds -> Task \cup {None}]
      BY DEF Inv, Typed
<1>5. tasks[op] \in Task BY <1>3, <1>4
<1>6. \/ pc[t] = "marking" /\ tasks' = [tasks EXCEPT ![op].state = "delivered"]
      \/ pc[t] = "failing" /\ tasks' = [tasks EXCEPT ![op] = Failed(@)]
      BY <1>2 DEF Marks, MarkFailed
<1>7. /\ tasks'[op].session = tasks[op].session /\ tasks'[op].event = tasks[op].event
      /\ pc[t] = "failing" => tasks'[op].state # "delivered"
      /\ tasks'[op] # None /\ \A x \in OpIds \ {op} : tasks'[x] = tasks[x]
      <2>1. CASE pc[t] = "marking" /\ tasks' = [tasks EXCEPT ![op].state = "delivered"]
            <3>1. [tasks[op] EXCEPT !.state = "delivered"] \in Task BY <1>5 DEF Task
            <3>2. tasks'[op] = [tasks[op] EXCEPT !.state = "delivered"] BY <1>3, <1>4, <2>1
            <3>3. tasks'[op] # None BY <3>1, <3>2, NoneAssumption
            <3>4. QED BY <1>3, <1>4, <1>5, <2>1, <3>2, <3>3 DEF Task
      <2>2. CASE pc[t] = "failing" /\ tasks' = [tasks EXCEPT ![op] = Failed(@)]
            <3>1. tasks'[op] = Failed(tasks[op]) /\ \A x \in OpIds \ {op} : tasks'[x] = tasks[x]
                  BY <1>3, <1>4, <2>2
            <3>2. QED BY <1>5, <2>2, <3>1, FailedTask, NoneAssumption
      <2>3. QED BY <1>6, <2>1, <2>2
<1>8. TasksStay /\ \A s \in Sessions : Succeeds(s)
      BY <1>1, <1>3, <1>7 DEF TasksStay, Succeeds
<1>9. \A x \in Reports : tasks'[x] # None =>
        /\ tasks[x] # None
        /\ tasks'[x].state = "delivered" => tasks[x].state = "delivered" \/ Shown(x)
      <2>1. pc[t] = "marking" /\ op \in Reports => Shown(op) BY <1>1, <1>2 DEF Kept, Carries
      <2>2. QED BY <1>1, <1>3, <1>7, <2>1 DEF OpIds
<1>10. Reported' BY <1>1, <1>8, <1>9, ReportedStays
<1>11. Delivered' BY <1>8, <1>9, DeliveredStays
<1>12. \A n \in Ids : (Opened(n)' => Opened(n)) /\ (Opened(n) => n \in 1..ops')
       BY <1>1 DEF Opened, Kept
<1>13. PICK at \in Vacant : Turns(t, at, None) BY <1>1, DonePlace
<1>14. at \in HandlerPCs \cup WorkerPCs /\ Carries(at, None)' BY VacantRelies, VacantCarries
<1>15. QED BY <1>8, <1>10, <1>11, <1>12, <1>13, <1>14, KeptStep

LEMMA KeptRetryDue ==
  ASSUME Inv, Inv', Kept, NEW op \in OpIds, RetryDue(op)
  PROVE  Kept'
<1>1. /\ tasks[op] # None /\ tasks[op].state = "pending" /\ tasks' = [tasks EXCEPT ![op].due = TRUE]
      /\ UNCHANGED <<pc, my, receipts, sessions, drafts, ops>>
      BY DEF RetryDue
<1>2. tasks \in [OpIds -> Task \cup {None}] /\ tasks[op] \in Task BY <1>1 DEF Inv, Typed
<1>3. [tasks[op] EXCEPT !.due = TRUE] \in Task BY <1>2 DEF Task
<1>4. /\ tasks'[op] = [tasks[op] EXCEPT !.due = TRUE] /\ tasks'[op] # None
      /\ \A x \in OpIds \ {op} : tasks'[x] = tasks[x]
      BY <1>1, <1>2, <1>3, NoneAssumption
<1>5. /\ tasks'[op].session = tasks[op].session /\ tasks'[op].event = tasks[op].event
      /\ tasks'[op].state = tasks[op].state
      BY <1>2, <1>4 DEF Task
<1>6. TasksStay BY <1>4, <1>5 DEF TasksStay
<1>7. \A x \in Reports : tasks'[x] # None =>
        tasks[x] # None /\ (tasks'[x].state = "delivered" => tasks[x].state = "delivered")
      BY <1>1, <1>4, <1>5 DEF OpIds
<1>8. QED BY <1>1, <1>6, <1>7, KeptQuiet

LEMMA KeptBegins ==
  ASSUME Inv, Inv', Kept, UNCHANGED <<receipts, tasks>>, ops < OpBound, ops' = ops + 1,
         \A s \in Sessions : Succeeds(s),
         \A p \in Reports : drafts[p] # None => drafts'[p] = drafts[p],
         \A n \in Ids : Opened(n)' => Opened(n),
         NEW h \in Handlers, NEW at \in HandlerPCs, NEW l \in Local, Turns(h, at, l), Carries(at, l)'
  PROVE  Kept'
<1>1. h \in Threads /\ TasksStay BY DEF Threads, TasksStay
<1>2. Reported' BY <1>1, ReportedStays
<1>3. Delivered' BY <1>1, DeliveredStays
<1>4. ops \in Nat BY ConstantsAssumption DEF Inv, Typed
<1>5. \A n \in Ids : Opened(n)' => n \in 1..ops' BY <1>4 DEF Kept
<1>6. QED BY <1>1, <1>2, <1>3, <1>5, KeptStep

LEMMA KeptTraced ==
  ASSUME Inv, Inv', Kept, NEW h \in Handlers, NEW s \in Sessions, Upload(h, s) \/ Edit(h, s)
  PROVE  Kept'
<1> DEFINE l == [session |-> s, event |-> [id |-> ops + 1, run |-> 0, kind |-> "traced"],
                 op |-> ops + 1, owes |-> FALSE, base |-> None, expected |-> None, copy |-> None]
<1>1. /\ Begin(h, s, "traced", ops + 1, "tracing")
      /\ UNCHANGED <<receipts, tasks, drafts>>
      BY DEF Upload, Edit, tables
<1>2. /\ ops < OpBound /\ ops' = ops + 1 /\ Turns(h, "tracing", l) BY <1>1 DEF Begin, Turns, Goto
<1>3. l.event.id = ops + 1 /\ l.copy = None OBVIOUS
<1>4. h \in Threads /\ pc'[h] = "tracing" /\ my'[h] = l
      BY <1>2 DEF Threads, Turns, Inv, Threaded
<1> HIDE DEF l
<1>5. l \in Local
      <2>1. Place(h, "tracing", l)
            <3>1. Place(h, pc'[h], my'[h]) BY <1>4 DEF Inv, Threaded, Knows
            <3>2. QED BY <1>4, <3>1
      <2>2. QED BY <2>1 DEF Place, Vacant
<1>6. ASSUME NEW d \in Session, sessions' = [sessions EXCEPT ![s] = d], Revision(s) < d.rev,
             \/ d.run = None
             \/ /\ sessions[s] # None /\ d.run = sessions[s].run
                /\ \A e \in Event : Holds(sessions[s], e) => Holds(d, e)
      PROVE  Kept'
      <2>1. /\ sessions'[s] = d /\ d # None
            /\ \A x \in Sessions \ {s} : sessions'[x] = sessions[x]
            BY <1>6, NoneAssumption DEF Inv, Typed
      <2>2. \A x \in Sessions : Succeeds(x) BY <1>6, <2>1 DEF Succeeds
      <2>3. None \notin Ids BY ConstantsAssumption DEF Ids
      <2>4. ASSUME NEW n \in Ids, Opened(n)' PROVE Opened(n)
            <3>1. CASE sessions'[s] # None /\ sessions'[s].run = n
                  BY <1>6, <2>1, <2>3, <3>1 DEF Opened
            <3>2. CASE \E x \in Sessions \ {s} : sessions'[x] # None /\ sessions'[x].run = n
                  BY <2>1, <3>2 DEF Opened
            <3>3. CASE \E p \in Reports : drafts'[p] # None /\ drafts'[p].run = n
                  BY <1>1, <3>3 DEF Opened
            <3>4. QED BY <2>4, <3>1, <3>2, <3>3 DEF Opened
      <2>5. PICK m \in Local : m = l BY <1>5
      <2>6. m.event.id = ops + 1 /\ m.copy = None BY <1>3, <2>5
      <2>7. ops + 1 \in Ids /\ ops + 1 \notin 1..ops
            <3>1. ops \in Nat BY ConstantsAssumption DEF Inv, Typed
            <3>2. QED BY <1>2, <3>1, NextId
      <2>8. \A k : k = ops + 1 => ~Opened(k)' BY <2>4, <2>7 DEF Kept
      <2>9. PICK k : k = ops + 1 OBVIOUS
      <2>10. ~Opened(m.event.id)' BY <2>6, <2>8, <2>9
      <2>11. Carries("tracing", m)' BY <2>6, <2>10 DEF Carries, Vacant
      <2>12. "tracing" \in HandlerPCs BY DEF HandlerPCs
      <2>13. QED BY <1>1, <1>2, <2>2, <2>4, <2>5, <2>11, <2>12, KeptBegins
<1>7. CASE Upload(h, s)
      <2>1. PICK c \in Contexts :
              sessions' = [sessions EXCEPT ![s] =
                [run |-> None, ctx |-> c, rev |-> Revision(s) + 1, trace |-> <<>>]]
            BY <1>7 DEF Upload
      <2> DEFINE d == [run |-> None, ctx |-> c, rev |-> Revision(s) + 1, trace |-> <<>>]
      <2>2. Revision(s) \in Nat BY DEF Inv, Typed, Revision, Session
      <2>3. d \in Session /\ d.run = None /\ d.rev = Revision(s) + 1 BY <2>2 DEF Session
      <2>4. sessions' = [sessions EXCEPT ![s] = d] BY <2>1
      <2> HIDE DEF d
      <2>5. Revision(s) < d.rev BY <2>2, <2>3
      <2>6. QED BY <1>6, <2>3, <2>4, <2>5
<1>8. CASE Edit(h, s)
      <2>1. PICK c \in Contexts : sessions' = [sessions EXCEPT ![s].ctx = c, ![s].rev = @ + 1]
            BY <1>8 DEF Edit
      <2>2. PICK old : old = sessions[s] OBVIOUS
      <2>3. old # None /\ old \in Session BY <1>8, <2>2 DEF Edit, Inv, Typed
      <2> DEFINE n == old.rev + 1
                 d == [old EXCEPT !.ctx = c, !.rev = n]
      <2>4. n \in Nat /\ old.rev < n BY <2>3 DEF Session
      <2>5. sessions' = [sessions EXCEPT ![s] = d] BY <2>1, <2>2
      <2> HIDE DEF n
      <2>6. d \in Session /\ d.run = old.run /\ d.rev = n /\ d.trace = old.trace
            BY <2>3, <2>4 DEF Session
      <2> HIDE DEF d
      <2>7. \A e \in Event : Holds(old, e) => Holds(d, e) BY <2>6 DEF Holds
      <2>8. Revision(s) < d.rev BY <2>2, <2>3, <2>4, <2>6 DEF Revision
      <2>9. QED BY <1>6, <2>2, <2>3, <2>5, <2>6, <2>7, <2>8
<1>9. QED BY <1>7, <1>8

LEMMA KeptRunLevel ==
  ASSUME Inv, Inv', Kept, NEW h \in Handlers, NEW s \in Sessions, NEW r \in Ids,
         PauseReads(h, s, r) \/ ResumeReads(h, s, r)
  PROVE  Kept'
<1>1. PICK l : /\ ops < OpBound /\ ops' = ops + 1 /\ Turns(h, "owing", l) /\ l.copy = None
               /\ UNCHANGED <<receipts, tasks, sessions, drafts>>
      <2>1. ASSUME NEW kind, NEW from, NEW to, RunLevelReads(h, s, r, kind, from, to)
            PROVE  \E l : /\ ops < OpBound /\ ops' = ops + 1 /\ Turns(h, "owing", l)
                          /\ l.copy = None /\ UNCHANGED <<receipts, tasks, sessions, drafts>>
            <3>1. PICK l : l = [session |-> s,
                               event |-> [id |-> ops + 1, run |-> r, kind |-> kind],
                               op |-> ops + 1, owes |-> FALSE,
                               base |-> [runs[r] EXCEPT !.status = to],
                               expected |-> runs[r].ctx, copy |-> None]
                  OBVIOUS
            <3>2. /\ ops < OpBound /\ ops' = ops + 1
                  /\ UNCHANGED <<receipts, tasks, sessions, drafts>>
                  BY <2>1 DEF RunLevelReads, tables
            <3>3. Turns(h, "owing", l) BY <2>1, <3>1 DEF RunLevelReads, Turns, Goto
            <3>4. l.copy = None BY <3>1
            <3>5. QED BY <3>2, <3>3, <3>4
      <2>2. QED BY <2>1 DEF PauseReads, ResumeReads
<1>2. h \in Threads /\ pc'[h] = "owing" /\ my'[h] = l
      BY <1>1 DEF Threads, Turns, Inv, Threaded
<1>3. l \in Local
      <2>1. Place(h, pc'[h], my'[h]) BY <1>2 DEF Inv, Threaded, Knows
      <2>2. QED BY <1>2, <2>1 DEF Place, Vacant
<1>4. Carries("owing", l)' BY <1>1 DEF Carries, Opening
<1>5. (\A x \in Sessions : Succeeds(x)) /\ \A n \in Ids : Opened(n)' => Opened(n)
      BY <1>1 DEF Succeeds, Opened
<1>6. "owing" \in HandlerPCs BY DEF HandlerPCs
<1>7. QED BY <1>1, <1>3, <1>4, <1>5, <1>6, KeptBegins

LEMMA KeptReportLoads ==
  ASSUME Inv, Inv', Kept, NEW h \in Handlers, NEW s \in Sessions, NEW p \in Reports,
         ReportLoads(h, s, p)
  PROVE  Kept'
<1>1. PICK l : /\ ops < OpBound /\ ops' = ops + 1 /\ Turns(h, "gating", l)
               /\ l.copy = sessions[s] /\ l.session = s
               /\ UNCHANGED <<receipts, tasks, sessions>>
      <2>1. PICK l : l = [session |-> s,
                         event |-> [id |-> ops + 1, run |-> sessions[s].run, kind |-> "reported"],
                         op |-> p, owes |-> TRUE,
                         base |-> None, expected |-> None, copy |-> sessions[s]]
            OBVIOUS
      <2>2. /\ ops < OpBound /\ ops' = ops + 1
            /\ UNCHANGED <<receipts, tasks, sessions>>
            BY DEF ReportLoads, tables
      <2>3. Turns(h, "gating", l) BY <2>1 DEF ReportLoads, Turns, Goto
      <2>4. l.copy = sessions[s] /\ l.session = s BY <2>1
      <2>5. QED BY <2>2, <2>3, <2>4
<1>2. h \in Threads /\ pc'[h] = "gating" /\ my'[h] = l
      BY <1>1 DEF Threads, Turns, Inv, Threaded
<1>3. l \in Local
      <2>1. Place(h, pc'[h], my'[h]) BY <1>2 DEF Inv, Threaded, Knows
      <2>2. QED BY <1>2, <2>1 DEF Place, Vacant
<1>4. sessions[s] # None /\ sessions[s] \in Session BY DEF ReportLoads, Inv, Typed
<1>5. PICK d : /\ d.run = sessions[s].run
               /\ drafts' = IF drafts[p] # None THEN drafts ELSE [drafts EXCEPT ![p] = d]
      <2>1. PICK d : d = [run |-> sessions[s].run, ctx |-> runs[sessions[s].run].ctx] OBVIOUS
      <2>2. d.run = sessions[s].run BY <2>1
      <2>3. drafts' = IF drafts[p] # None THEN drafts ELSE [drafts EXCEPT ![p] = d]
            BY <2>1 DEF ReportLoads
      <2>4. QED BY <2>2, <2>3
<1>6. /\ \A x \in Reports : drafts[x] # None => drafts'[x] = drafts[x]
      /\ \A x \in Reports : drafts'[x] = drafts[x] \/ drafts'[x] = d
      BY <1>5 DEF Inv, Typed
<1>7. \A n \in Ids : Opened(n)' => Opened(n) BY <1>1, <1>4, <1>5, <1>6 DEF Opened
<1>8. Carries("gating", l)'
      <2>1. sessions'[l.session] = l.copy /\ l.copy \in Session /\ l.copy # None BY <1>1, <1>4
      <2>2. Timely("gating", l)' BY <2>1 DEF Timely, Session, Holds
      <2>3. QED BY <2>2 DEF Carries, Opening
<1>9. \A x \in Sessions : Succeeds(x) BY <1>1 DEF Succeeds
<1>10. "gating" \in HandlerPCs BY DEF HandlerPCs
<1>11. QED BY <1>1, <1>3, <1>6, <1>7, <1>8, <1>9, <1>10, KeptBegins

\* A batch adds at most its own obligation to the outbox.
LEMMA BatchTasks ==
  ASSUME Inv, NEW h \in Handlers, pc[h] = "committing", WriteBatch(h)
  PROVE  /\ TasksStay
         /\ \A x \in OpIds \ {my[h].op} : tasks'[x] = tasks[x]
         /\ tasks[my[h].op] # None => tasks'[my[h].op] = tasks[my[h].op]
         /\ my[h].owes /\ tasks[my[h].op] = None =>
              /\ tasks'[my[h].op] # None /\ tasks'[my[h].op].state = "pending"
              /\ tasks'[my[h].op].event = my[h].event /\ tasks'[my[h].op].session = my[h].session
<1>1. PICK e, op, s : e = my[h].event /\ op = my[h].op /\ s = my[h].session OBVIOUS
<1>2. e \in Event /\ op \in OpIds /\ s \in Sessions BY <1>1, Committer
<1> DEFINE task == [session |-> s, event |-> e, attempts |-> 0, state |-> "pending", due |-> TRUE]
<1>3. tasks' = IF my[h].owes /\ tasks[op] = None THEN [tasks EXCEPT ![op] = task] ELSE tasks
      BY <1>1 DEF WriteBatch
<1>4. task \in Task BY <1>2 DEF Task
<1>5. task.session = s /\ task.event = e /\ task.state = "pending" OBVIOUS
<1> HIDE DEF task
<1>6. tasks \in [OpIds -> Task \cup {None}] BY DEF Inv, Typed
<1>7. CASE my[h].owes /\ tasks[op] = None
      <2>1. tasks'[op] = task /\ \A x \in OpIds \ {op} : tasks'[x] = tasks[x]
            BY <1>2, <1>3, <1>6, <1>7
      <2>2. task # None BY <1>4, NoneAssumption
      <2>3. TasksStay BY <1>7, <2>1 DEF TasksStay
      <2>4. QED BY <1>1, <1>5, <1>7, <2>1, <2>2, <2>3
<1>8. CASE ~(my[h].owes /\ tasks[op] = None)
      <2>1. tasks' = tasks BY <1>3, <1>8
      <2>2. QED BY <1>1, <1>8, <2>1 DEF TasksStay
<1>9. QED BY <1>7, <1>8

\* The first batch of a report is the one that owes it, to the session of its handler.
LEMMA BatchReported ==
  ASSUME Inv, Kept, NEW h \in Handlers, Writes(h), UNCHANGED drafts
  PROVE  /\ Reported'
         /\ my[h].op \in Reports => tasks[my[h].op] = None /\ my[h].owes
<1>1. pc[h] = "committing" /\ WriteBatch(h) /\ ~HasReceipt(my[h].event.run, my[h].op)
      BY DEF Writes
<1>2. PICK r, e, op : r = my[h].event.run /\ e = my[h].event /\ op = my[h].op OBVIOUS
<1>3. op \in OpIds /\ e.run = r /\ Relies("committing", my[h]) /\ Place(h, "committing", my[h])
      BY <1>1, <1>2, Committer
<1>4. op \in Reports => my[h].owes /\ drafts[op] # None /\ drafts[op].run = r
      BY <1>2, <1>3 DEF Relies, Place, PreCommit
<1>5. op \in Reports => tasks[op] = None
      <2>1. \A y \in receipts : ~(y.run = r /\ y.op = op) BY <1>1, <1>2 DEF HasReceipt
      <2>2. ASSUME op \in Reports, tasks[op] # None PROVE FALSE
            <3>1. PICK y \in receipts : y.op = op BY <2>2 DEF Kept, Reported
            <3>2. drafts[op].run = y.run BY <2>2, <3>1 DEF Kept, Reported
            <3>3. QED BY <1>4, <2>1, <2>2, <3>1, <3>2
      <2>3. QED BY <2>2
<1> DEFINE new == [run |-> r, op |-> my[h].op, body |-> Body(h), event |-> e,
                   mark |-> Len(ledger[r]) + 1]
<1>6. receipts' = receipts \cup {new} BY <1>1, <1>2, BatchAppends
<1>7. new.run = r /\ new.event = e /\ new.op = op BY <1>2
<1> HIDE DEF new
<1>8. /\ TasksStay /\ \A x \in OpIds \ {op} : tasks'[x] = tasks[x]
      /\ op \in Reports => tasks'[op] # None /\ tasks'[op].event = e
      BY <1>1, <1>2, <1>4, <1>5, BatchTasks
<1>9. ASSUME NEW x \in receipts', x.op \in Reports
      PROVE  /\ tasks'[x.op] # None /\ tasks'[x.op].event = x.event /\ x.event.run = x.run
             /\ drafts'[x.op] # None /\ drafts'[x.op].run = x.run
      <2>1. CASE x \in receipts
            <3>1. /\ tasks[x.op] # None /\ tasks[x.op].event = x.event /\ x.event.run = x.run
                  /\ drafts[x.op] # None /\ drafts[x.op].run = x.run
                  BY <1>9, <2>1 DEF Kept, Reported
            <3>2. x.op \in OpIds BY <1>9 DEF OpIds
            <3>3. QED BY <1>8, <3>1, <3>2 DEF TasksStay
      <2>2. CASE x = new BY <1>3, <1>4, <1>7, <1>8, <1>9, <2>2
      <2>3. QED BY <1>6, <2>1, <2>2
<1>10. ASSUME NEW p \in Reports, tasks'[p] # None PROVE \E x \in receipts' : x.op = p
      <2>1. CASE p = op BY <1>6, <1>7, <2>1
      <2>2. CASE p # op
            <3>1. tasks[p] # None BY <1>8, <1>10, <2>2 DEF OpIds
            <3>2. QED BY <1>6, <3>1 DEF Kept, Reported
      <2>3. QED BY <2>1, <2>2
<1>11. Reported' BY <1>9, <1>10 DEF Reported
<1>12. QED BY <1>2, <1>4, <1>5, <1>11

LEMMA KeptCommit ==
  ASSUME Inv, Inv', Kept, NEW h \in Handlers, Commit(h)
  PROVE  Kept'
<1>1. /\ pc[h] = "committing" /\ UNCHANGED <<sessions, drafts, ops>>
      BY DEF Commit
<1>2. /\ h \in Threads /\ my[h] \in Local /\ my[h] # None /\ Place(h, "committing", my[h])
      /\ my[h].event \in Event /\ my[h].session \in Sessions
      /\ my[h].op \in Reports <=> my[h].event.kind = "reported"
      /\ pc[h] \notin Vacant \cup {"tracing", "tracesaving"}
      BY <1>1, Committer
<1>3. CASE Done(h) /\ UNCHANGED tables BY <1>1, <1>2, <1>3, KeptDone DEF tables
<1>4. CASE Writes(h) /\ AfterCommit(h)
      <2>1. /\ Reported'
            /\ my[h].op \in Reports => tasks[my[h].op] = None /\ my[h].owes
            BY <1>1, <1>4, BatchReported
      <2>2. /\ TasksStay /\ \A x \in OpIds \ {my[h].op} : tasks'[x] = tasks[x]
            /\ my[h].op \in Reports =>
                 /\ tasks'[my[h].op].state = "pending"
                 /\ tasks'[my[h].op].event = my[h].event
                 /\ tasks'[my[h].op].session = my[h].session
            BY <1>1, <1>4, <2>1, BatchTasks DEF Writes
      <2>3. \A s \in Sessions : Succeeds(s) BY <1>1 DEF Succeeds
      <2>4. ASSUME NEW p \in Reports, tasks'[p] # None, tasks'[p].state = "delivered"
            PROVE  tasks[p] # None /\ tasks[p].state = "delivered"
            <3>1. p # my[h].op BY <2>2, <2>4
            <3>2. QED BY <2>2, <2>4, <3>1 DEF OpIds
      <2>5. Delivered' BY <2>2, <2>3, <2>4, DeliveredStays
      <2>6. \A n \in Ids : (Opened(n)' => Opened(n)) /\ (Opened(n)' => n \in 1..ops')
            BY <1>1 DEF Opened, Kept
      <2>7. ASSUME NEW at \in HandlerPCs, NEW l \in Local \cup {None},
                   Turns(h, at, l), Carries(at, l)'
            PROVE  Kept'
            BY <1>2, <2>1, <2>2, <2>3, <2>5, <2>6, <2>7, KeptStep
      <2>8. CASE my[h].event.kind = "traced"
            <3>1. Done(h) BY <1>4, <2>8 DEF AfterCommit
            <3>2. PICK at \in Vacant : Turns(h, at, None) /\ Place(h, at, None) BY <1>2, <3>1, DonePlace
            <3>3. at \in HandlerPCs BY <3>2 DEF Place
            <3>4. QED BY <2>7, <3>2, <3>3, VacantCarries
      <2>9. CASE my[h].event.kind = "reported"
            <3> DEFINE c == With(my[h].copy, my[h].event)
                       l == [my[h] EXCEPT !.copy = c]
            <3>1. my' = [my EXCEPT ![h].copy = With(@, my[h].event)] /\ Goto(h, "saving")
                  BY <1>4, <2>9 DEF AfterCommit
            <3>2. my[h].copy \in Session /\ my[h].copy # None
                  BY <1>2, <2>9, NoneAssumption DEF Place
            <3>3. /\ c \in Session /\ c.rev = my[h].copy.rev /\ c.run = my[h].copy.run
                  /\ Holds(c, my[h].event)
                  /\ \A x : Holds(my[h].copy, x) => Holds(c, x)
                  BY <1>2, <3>2, WithTyped, WithHolds
            <3>4. Timely(pc[h], my[h]) /\ ~Opening(pc[h], my[h])
                  BY <1>2, <3>2 DEF Kept, Carries, Opening
            <3>5. Turns(h, "saving", l) BY <3>1 DEF Turns, Goto
            <3> HIDE DEF c
            <3>6. /\ l \in Local /\ l.event = my[h].event /\ l.copy = c /\ l.op = my[h].op
                  /\ l.session = my[h].session
                  BY <1>2, <3>3 DEF Local
            <3> HIDE DEF l
            <3>7. PICK m \in Local : m = l BY <3>6
            <3>8. Timely("saving", m)
                  <4>1. PICK old, s : old = my[h].copy /\ s = my[h].session OBVIOUS
                  <4>2. /\ sessions[s] # None /\ old.rev <= sessions[s].rev
                        /\ old.rev = sessions[s].rev =>
                             /\ \A e \in Event : Holds(sessions[s], e) => Holds(old, e)
                             /\ old.run = sessions[s].run
                        BY <3>4, <4>1 DEF Timely
                  <4>3. m.session = s /\ m.copy = c /\ c.rev = old.rev /\ c.run = old.run
                        /\ \A x : Holds(old, x) => Holds(c, x)
                        BY <3>3, <3>6, <3>7, <4>1
                  <4>4. QED BY <4>2, <4>3 DEF Timely
            <3>9. Timely("saving", m)' BY <1>1, <3>8 DEF Timely, Opening, Holds
            <3>10. /\ m.op \in Reports => m.session = tasks'[m.op].session /\ m.event = tasks'[m.op].event
                   /\ Holds(m.copy, m.event)
                   BY <2>2, <3>3, <3>6, <3>7
            <3>11. Carries("saving", m)' BY <3>9, <3>10 DEF Carries, Opening, Holds
            <3>12. "saving" \in HandlerPCs BY DEF HandlerPCs
            <3>13. QED BY <2>7, <3>5, <3>7, <3>11, <3>12
      <2>10. CASE my[h].event.kind \notin {"traced", "reported"}
            <3>1. Goto(h, "mirroring") /\ UNCHANGED my BY <1>4, <2>10 DEF AfterCommit
            <3>2. PICK m \in Local : m = my[h] BY <1>2
            <3>3. Turns(h, "mirroring", m) BY <3>1, <3>2 DEF Turns, Goto, Inv, Threaded
            <3>4. m.op \notin Reports BY <1>2, <2>10, <3>2
            <3>5. m.copy # None => Timely("mirroring", m) BY <1>2, <3>2, TimelyOn
            <3>6. m.copy # None => Timely("mirroring", m)'
                  BY <1>1, <3>5 DEF Timely, Opening, Holds
            <3>7. Carries("mirroring", m)' BY <3>4, <3>6 DEF Carries, Opening
            <3>8. "mirroring" \in HandlerPCs BY DEF HandlerPCs
            <3>9. QED BY <2>7, <3>2, <3>3, <3>7, <3>8
      <2>11. QED BY <2>8, <2>9, <2>10
<1>5. QED BY <1>1, <1>3, <1>4 DEF Commit, Writes

LEMMA KeptInit == Init => Kept
<1> SUFFICES ASSUME Init PROVE Kept OBVIOUS
<1>1. receipts = {} /\ \A op \in Reports : op \in OpIds /\ tasks[op] = None
      BY DEF Init, OpIds
<1>2. Reported /\ Delivered BY <1>1 DEF Reported, Delivered
<1>3. \A n \in Ids : ~Opened(n) BY DEF Init, Opened
<1>4. ASSUME NEW t \in Threads PROVE Carries(pc[t], my[t])
      <2>1. pc[t] \in Vacant BY <1>4 DEF Init, Vacant
      <2>2. QED BY <2>1, VacantCarries
<1>5. QED BY <1>2, <1>3, <1>4 DEF Kept

LEMMA KeptNext ==
  ASSUME LossBound = 0, Inv, Inv', Kept, [Next]_vars
  PROVE  Kept'
<1>1. ASSUME NEW h \in Handlers, Client(h) PROVE Kept'
      <2>1. PICK s \in Sessions :
              \/ Upload(h, s) \/ Edit(h, s)
              \/ \E r \in Ids : PauseReads(h, s, r) \/ ResumeReads(h, s, r)
              \/ \E p \in Reports : ReportLoads(h, s, p)
            BY <1>1 DEF Client
      <2>2. CASE Upload(h, s) \/ Edit(h, s) BY <2>2, KeptTraced
      <2>3. ASSUME NEW r \in Ids, PauseReads(h, s, r) \/ ResumeReads(h, s, r) PROVE Kept'
            BY <2>3, KeptRunLevel
      <2>4. ASSUME NEW p \in Reports, ReportLoads(h, s, p) PROVE Kept' BY <2>4, KeptReportLoads
      <2>5. QED BY <2>1, <2>2, <2>3, <2>4
<1>2. ASSUME NEW h \in Handlers, HandlerStep(h) PROVE Kept'
      <2>1. h \in Threads BY DEF Threads
      <2>2. CASE HookReads(h) BY <2>2, KeptHookReads
      <2>3. CASE ReadBase(h) BY <2>3, KeptReadBase
      <2>4. CASE Supersede(h) \/ LookUp(h) \/ ReportGates(h) \/ OwesDelivery(h) BY <2>4, KeptReads
      <2>5. CASE Commit(h) BY <2>5, KeptCommit
      <2>6. CASE MirrorReads(h) BY <2>6, KeptMirrorReads
      <2>7. CASE HookSaves(h) \/ MirrorSaves(h) \/ ReportSaves(h) BY <2>1, <2>7, KeptSaveSteps
      <2>8. CASE Marks(h) BY <2>1, <2>8, KeptSettles
      <2>9. QED BY <1>2, <2>2, <2>3, <2>4, <2>5, <2>6, <2>7, <2>8 DEF HandlerStep
<1>3. ASSUME NEW w \in Workers, WorkerStep(w) PROVE Kept'
      <2>1. w \in Threads BY DEF Threads
      <2>2. CASE ListDue(w) \/ CycleEnds(w) BY <2>2, KeptCycle
      <2>3. CASE DeliverReads(w) BY <2>3, KeptDeliverReads
      <2>4. CASE DeliverSaves(w) BY <2>1, <2>4, KeptSaveSteps
      <2>5. CASE Marks(w) \/ MarkFailed(w) BY <2>1, <2>5, KeptSettles
      <2>6. QED BY <1>3, <2>2, <2>3, <2>4, <2>5 DEF WorkerStep
<1>4. ASSUME NEW op \in OpIds, RetryDue(op) PROVE Kept' BY <1>4, KeptRetryDue
<1>5. ASSUME NEW s \in Sessions, SessionLost(s) PROVE Kept'
      <2>1. losses \in 0..LossBound /\ losses < LossBound BY <1>5 DEF SessionLost, Inv, Typed
      <2>2. QED BY <2>1
<1>6. ASSUME NEW t \in Threads, Abort(t) PROVE Kept' BY <1>6, KeptAbort
<1>7. CASE UNCHANGED vars
      <2>1. UNCHANGED <<pc, my, receipts, tasks, sessions, drafts, ops>> BY <1>7 DEF vars, tables
      <2>2. TasksStay BY <2>1 DEF TasksStay
      <2>3. QED BY <2>1, <2>2, KeptQuiet
<1>8. QED BY <1>1, <1>2, <1>3, <1>4, <1>5, <1>6, <1>7 DEF Next

\* As long as the store loses no session, a report the client holds a receipt for
\* is in the trace of its session, or the outbox knows that it is not, whatever
\* handlers and workers died half way and whoever else saved the session
\* (progress_maps.py, run_delivery_recovery).
THEOREM ReportsAreProjectedOrOwed ==
  ASSUME LossBound = 0
  PROVE  Spec => []ReportIsProjectedOrOwed
<1>1. Init => Kept BY KeptInit
<1>2. Inv /\ Inv' /\ Kept /\ [Next]_vars => Kept' BY KeptNext
<1>3. Inv /\ Kept => ReportIsProjectedOrOwed
      <2> SUFFICES ASSUME Inv, Kept, NEW x \in receipts, x.op \in Reports
                   PROVE  \/ tasks[x.op].state \in {"pending", "failed"}
                          \/ ~IsSessionOf(tasks[x.op].session, x.run)
                          \/ Copies(sessions[tasks[x.op].session], x.event) # {}
          BY DEF ReportIsProjectedOrOwed
      <2>1. tasks[x.op] # None /\ tasks[x.op].event = x.event /\ x.event.run = x.run
            BY DEF Kept, Reported
      <2>2. tasks[x.op] \in Task BY <2>1 DEF OpIds, Inv, Typed
      <2>3. tasks[x.op].state \in {"pending", "delivered", "failed"} BY <2>2 DEF Task
      <2>4. tasks[x.op].state = "delivered" => Shown(x.op) BY <2>1 DEF Kept, Delivered
      <2>5. QED BY <2>1, <2>3, <2>4 DEF Shown, Holds, Copies
<1>4. QED BY <1>1, <1>2, <1>3, Invariant, PTL DEF Spec
=============================================================================
