----------------------- MODULE DocumentLifecycleProofs ----------------------
(***************************************************************************)
(* What DocumentLifecycle guarantees for every number of handlers,         *)
(* documents, snapshots and contents.  Records and versions only grow, and *)
(* an old row stays old, so what a handler has read before it writes is    *)
(* still true when it writes, unless it is about the last record; and none *)
(* of the properties proved here is about the last record.                 *)
(***************************************************************************)
EXTENDS DocumentLifecycle, FiniteSetTheorems, SequenceTheorems, TLAPS

Decisions == {"approved", "rejected"}

Typed ==
  /\ documents \subseteq Documents
  /\ current \in [Documents -> Snapshots \cup {None}]
  /\ version \in [Snapshots -> Nat]
  /\ records \in [Snapshots -> Seq(LifecycleRecord)]
  /\ approvals \in [Snapshots -> Seq(Approval)]
  /\ audit \in [Snapshots -> [Audited -> Nat]]
  /\ hold \subseteq Documents
  /\ rows \in [Snapshots -> Row \cup {None}]
  /\ objects \subseteq Files
  /\ renders \in 0..RenderBound
  /\ aborts \in 0..AbortBound

\* Somebody has the version m of document d.
Has(d, m) == \E x \in RevisionsOf(d) : version[x] = m

Recorded(s, event) == \E i \in 1..Len(records[s]) : records[s][i].event = event

\* The revisions s and b have been published, twice when they are one.
BothPublished(s, b) ==
  \E j \in 1..Len(records[s]), k \in 1..Len(records[b]) :
    /\ records[s][j].event = "published" /\ records[b][k].event = "published"
    /\ b = s => j # k

IsOld(s) == rows[s] # None /\ rows[s].old

\* What a thread that is at a place, with what it has read, may rely on.
Speaks(at, l) ==
  /\ at = "idle" => l = Blank
  /\ at \notin {"idle", "sweeping", "judging", "purging"} => l.snap \in Snapshots
  /\ at \in {"binding", "recording"} => l.event \in Decisions
  /\ at \in {"auditing", "appending", "superseding"} => l.event \in Audited
  /\ at \in {"checking", "listing", "preceding"} => l.event = "published"
  /\ at \in {"idle", "requesting", "binding", "recording", "checking", "listing", "preceding"}
       => l.over = None
  /\ l.over # None => l.event = "published"
  /\ at = "superseding" => l.over \in Snapshots
  /\ at \in {"committing", "publishing"} => l.form \in Contents
  /\ at \in {"unlinking", "marking"} => l.row \in Row

Relies(at, l) ==
  /\ at = "registering" => l.next > 0 /\ \A m \in 1..(l.next - 1) : Has(KindOf[l.snap], m)
  /\ at \in {"checking", "listing", "preceding", "auditing", "appending"} /\ l.event = "published"
       => Recorded(l.snap, "approved")
  /\ at = "preceding" => \A x \in l.revs : KindOf[x] = KindOf[l.snap]
  /\ at \in {"auditing", "appending"} /\ l.over # None
       => KindOf[l.over] = KindOf[l.snap] /\ Recorded(l.over, "published")
  /\ at = "superseding" => KindOf[l.over] = KindOf[l.snap] /\ BothPublished(l.over, l.snap)
  /\ at = "publishing" => <<l.snap, l.form>> \in objects \/ IsOld(l.snap)
  /\ at \in {"unlinking", "marking"} => IsOld(l.snap)

Knows(t) == Speaks(pc[t], my[t]) /\ Relies(pc[t], my[t])

Threaded ==
  /\ pc \in [Threads -> PCs]
  /\ my \in [Threads -> Local]
  /\ \A t \in Threads : Knows(t)

\* Versions are apart, leave nothing out below them and are no more than there are
\* revisions; the document points to the highest.
Numbered ==
  \A d \in Documents :
    /\ IsFiniteSet(RevisionsOf(d))
    /\ \A s, x \in RevisionsOf(d) : version[s] = version[x] => s = x
    /\ \A s \in RevisionsOf(d) :
         /\ version[s] <= Cardinality(RevisionsOf(d))
         /\ \A m \in 1..version[s] : Has(d, m)
         /\ current[d] \in RevisionsOf(d) /\ version[s] <= version[current[d]]

\* What PublishedWasApproved and SupersededHasSuccessor say, of one record.
Succeeds(b, s, i) ==
  /\ KindOf[b] = KindOf[s]
  /\ \E j \in 1..(i - 1), k \in 1..Len(records[b]) :
       /\ records[s][j].event = "published" /\ records[b][k].event = "published"
       /\ b = s => j # k

Founded(s, i) ==
  /\ records[s][i].event = "published" => \E j \in 1..(i - 1) : records[s][j].event = "approved"
  /\ records[s][i].event = "superseded" => Succeeds(records[s][i].by, s, i)

Recording == \A s \in Snapshots : \A i \in 1..Len(records[s]) : Founded(s, i)

Filed == \A s \in Snapshots : IsReady(s) /\ <<s, rows[s].content>> \notin objects => rows[s].old

Inv == Typed /\ Threaded /\ Numbered /\ Recording /\ Filed
-----------------------------------------------------------------------------
(* Nothing that was there goes away.                                       *)

Grows ==
  /\ \A s \in Snapshots : version[s] # 0 => version'[s] = version[s]
  /\ \A s \in Snapshots :
       /\ Len(records[s]) <= Len(records'[s])
       /\ \A i \in 1..Len(records[s]) : records'[s][i] = records[s][i]
  /\ \A s \in Snapshots : IsOld(s) => IsOld(s)'
  /\ \A s \in Snapshots, c \in Contents :
       <<s, c>> \in objects => <<s, c>> \in objects' \/ IsOld(s)'

LEMMA RecordsTyped ==
  ASSUME Typed, NEW s \in Snapshots
  PROVE  /\ records[s] \in Seq(LifecycleRecord) /\ Len(records[s]) \in Nat
         /\ DOMAIN records[s] = 1..Len(records[s])
         /\ \A i \in 1..Len(records[s]) : records[s][i] \in LifecycleRecord
BY LenProperties, ElementOfSeq DEF Typed

LEMMA RecordedStays ==
  ASSUME Typed, Typed', Grows, NEW s \in Snapshots, NEW event, Recorded(s, event)
  PROVE  Recorded(s, event)'
<1>1. PICK i \in 1..Len(records[s]) : records[s][i].event = event BY DEF Recorded
<1>2. Len(records[s]) \in Nat /\ Len(records'[s]) \in Nat BY RecordsTyped, LenProperties DEF Typed
<1>3. i \in 1..Len(records'[s]) /\ records'[s][i] = records[s][i] BY <1>1, <1>2 DEF Grows
<1>4. QED BY <1>1, <1>3 DEF Recorded

LEMMA BothPublishedStay ==
  ASSUME Typed, Typed', Grows, NEW s \in Snapshots, NEW b \in Snapshots, BothPublished(s, b)
  PROVE  BothPublished(s, b)'
<1>1. PICK j \in 1..Len(records[s]), k \in 1..Len(records[b]) :
        /\ records[s][j].event = "published" /\ records[b][k].event = "published"
        /\ b = s => j # k
      BY DEF BothPublished
<1>2. /\ Len(records[s]) \in Nat /\ Len(records'[s]) \in Nat
      /\ Len(records[b]) \in Nat /\ Len(records'[b]) \in Nat
      BY RecordsTyped, LenProperties DEF Typed
<1>3. /\ j \in 1..Len(records'[s]) /\ records'[s][j] = records[s][j]
      /\ k \in 1..Len(records'[b]) /\ records'[b][k] = records[b][k]
      BY <1>1, <1>2 DEF Grows
<1>4. QED BY <1>1, <1>3 DEF BothPublished

LEMMA HasStays ==
  ASSUME Typed, Grows, NEW d, NEW m, Has(d, m)
  PROVE  Has(d, m)'
BY DEF Has, RevisionsOf, Grows

LEMMA ThreadStays ==
  ASSUME Inv, Typed', Grows, NEW u \in Threads, pc'[u] = pc[u], my'[u] = my[u]
  PROVE  Knows(u)'
<1> DEFINE at == pc[u]
           l == my[u]
<1>1. Speaks(at, l) /\ Relies(at, l) /\ l \in Local BY DEF Inv, Threaded, Knows
<1>2. l.form \in Contents \cup {None} /\ l.next \in Nat BY <1>1 DEF Local
<1>3. Speaks(pc[u], my[u])' BY <1>1 DEF Speaks
<1>4. Relies(pc[u], my[u])'
      <2>1. at = "registering" => l.next > 0 /\ \A m \in 1..(l.next - 1) : Has(KindOf[l.snap], m)'
            BY <1>1, HasStays DEF Inv, Relies
      <2>2. at \in {"checking", "listing", "preceding", "auditing", "appending"} /\ l.event = "published"
              => Recorded(l.snap, "approved")'
            BY <1>1, RecordedStays DEF Inv, Relies, Speaks
      <2>3. at = "preceding" => \A x \in l.revs : KindOf[x] = KindOf[l.snap]
            BY <1>1 DEF Relies
      <2>7. at \in {"auditing", "appending"} /\ l.over # None
              => KindOf[l.over] = KindOf[l.snap] /\ Recorded(l.over, "published")'
            <3>1. l.over # None => l.over \in Snapshots BY <1>1 DEF Local
            <3>2. QED BY <1>1, <3>1, RecordedStays DEF Inv, Relies
      <2>8. at = "superseding" => KindOf[l.over] = KindOf[l.snap] /\ BothPublished(l.over, l.snap)'
            BY <1>1, BothPublishedStay DEF Inv, Relies, Speaks
      <2>4. at = "publishing" => <<l.snap, l.form>> \in objects' \/ IsOld(l.snap)'
            BY <1>1 DEF Relies, Speaks, Grows
      <2>5. at \in {"unlinking", "marking"} => IsOld(l.snap)' BY <1>1 DEF Relies, Speaks, Grows
      <2>6. QED BY <2>1, <2>2, <2>3, <2>4, <2>5, <2>7, <2>8
               DEF Relies, Has, Recorded, BothPublished, IsOld, RevisionsOf
<1>5. QED BY <1>3, <1>4 DEF Knows

\* One thread goes on to a place with what it has read; the others stay.
Turns(t, at, l) == pc' = [pc EXCEPT ![t] = at] /\ my' = [my EXCEPT ![t] = l]

LEMMA ThreadMoves ==
  ASSUME Inv, Typed', Grows, NEW t \in Threads, NEW at, NEW l, at \in PCs, l \in Local, Turns(t, at, l),
         pc'[t] = at /\ my'[t] = l => Knows(t)'
  PROVE  Threaded'
<1>1. pc \in [Threads -> PCs] /\ my \in [Threads -> Local] BY DEF Inv, Threaded
<1>2. /\ pc' \in [Threads -> PCs] /\ my' \in [Threads -> Local]
      /\ pc'[t] = at /\ my'[t] = l
      /\ \A u \in Threads \ {t} : pc'[u] = pc[u] /\ my'[u] = my[u]
      BY <1>1 DEF Turns
<1>3. ASSUME NEW u \in Threads PROVE Knows(u)'
      <2>1. CASE u = t BY <1>2, <2>1
      <2>2. CASE u # t BY <1>2, <2>2, ThreadStays
      <2>3. QED BY <2>1, <2>2
<1>4. QED BY <1>2, <1>3 DEF Threaded

LEMMA BlankTyped == Blank \in Local
BY DEF Blank, Local

LEMMA EndKnows ==
  ASSUME NEW t, pc'[t] = "idle", my'[t] = Blank
  PROVE  Knows(t)'
BY DEF Knows, Speaks, Relies, Blank

LEMMA DoneTurns ==
  ASSUME NEW t, Done(t)
  PROVE  Turns(t, "idle", Blank)
BY DEF Done, Goto, Turns

LEMMA ThreadEnds ==
  ASSUME Inv, Typed', Grows, NEW t \in Threads, Done(t)
  PROVE  Threaded'
BY BlankTyped, EndKnows, DoneTurns, ThreadMoves DEF PCs

LEMMA MyTyped ==
  ASSUME Inv, NEW t \in Threads
  PROVE  /\ my[t] \in Local /\ pc[t] \in PCs
         /\ Speaks(pc[t], my[t]) /\ Relies(pc[t], my[t])
BY DEF Inv, Threaded, Knows

\* The handler only looks, or writes what nobody here relies on.
Still == UNCHANGED <<version, current, records, rows, objects>>

LEMMA StillGrows ==
  ASSUME Typed, Still
  PROVE  Grows
<1>1. \A s \in Snapshots : Len(records[s]) \in Nat BY RecordsTyped
<1>2. QED BY <1>1 DEF Grows, Still, IsOld

LEMMA NumberedStays ==
  ASSUME Numbered, UNCHANGED <<version, current>>
  PROVE  Numbered'
<1>1. \A d : RevisionsOf(d)' = RevisionsOf(d) BY DEF RevisionsOf
<1>2. \A d, m : Has(d, m)' <=> Has(d, m) BY <1>1 DEF Has
<1>3. QED BY <1>1, <1>2 DEF Numbered

LEMMA RecordingStays ==
  ASSUME Recording, UNCHANGED records
  PROVE  Recording'
<1>1. \A s, i : Founded(s, i)' <=> Founded(s, i) BY DEF Founded, Succeeds
<1>2. QED BY <1>1 DEF Recording

LEMMA StillStep ==
  ASSUME Inv, Typed', Still, Threaded'
  PROVE  Inv'
<1>1. UNCHANGED <<version, current, records, rows, objects>> BY DEF Still
<1>2. Numbered' BY <1>1, NumberedStays DEF Inv
<1>3. Recording' BY <1>1, RecordingStays DEF Inv
<1>4. Filed' BY <1>1 DEF Inv, Filed, IsReady
<1>5. QED BY <1>2, <1>3, <1>4 DEF Inv

LEMMA QuietStep ==
  ASSUME Inv, Typed', Still, NEW t \in Threads, NEW at, NEW l, at \in PCs, l \in Local, Turns(t, at, l),
         pc'[t] = at /\ my'[t] = l => Knows(t)'
  PROVE  Inv'
BY StillGrows, ThreadMoves, StillStep DEF Inv

LEMMA QuietEnd ==
  ASSUME Inv, Typed', Still, NEW t \in Threads, Done(t)
  PROVE  Inv'
BY StillGrows, ThreadEnds, StillStep DEF Inv
-----------------------------------------------------------------------------
LEMMA InitInv == Init => Inv
<1> SUFFICES ASSUME Init PROVE Inv OBVIOUS
<1>1. Typed BY ConstantsAssumption DEF Init, Typed
<1>2. Threaded
      <2>1. pc \in [Threads -> PCs] /\ my \in [Threads -> Local] BY BlankTyped DEF Init, PCs
      <2>2. \A t \in Threads : pc[t] = "idle" /\ my[t] = Blank BY DEF Init
      <2>3. Speaks("idle", Blank) /\ Relies("idle", Blank) BY DEF Speaks, Relies, Blank
      <2>4. \A t \in Threads : Knows(t) BY <2>2, <2>3 DEF Knows
      <2>5. QED BY <2>1, <2>4 DEF Threaded
<1>3. Numbered
      <2>1. \A d \in Documents : RevisionsOf(d) = {} BY DEF Init, RevisionsOf
      <2>2. QED BY <2>1, FS_EmptySet DEF Numbered
<1>4. \A s \in Snapshots : Len(records[s]) = 0 BY DEF Init
<1>5. Recording BY <1>4 DEF Recording
<1>6. Filed BY DEF Init, Filed, IsReady
<1>7. QED BY <1>1, <1>2, <1>3, <1>5, <1>6 DEF Inv
-----------------------------------------------------------------------------
(* Handlers that look.                                                     *)

LEMMA LifecycleTyped ==
  ASSUME Inv, UNCHANGED <<documents, current, version, records, approvals, audit, hold>>,
         UNCHANGED <<rows, objects>>, renders' \in 0..RenderBound, aborts' \in 0..AbortBound
  PROVE  Typed' /\ Still
BY DEF Inv, Typed, Still

LEMMA LooksStep ==
  ASSUME Inv, UNCHANGED <<lifecycle, files, aborts>>,
         NEW t \in Threads, NEW at, NEW l, at \in PCs, l \in Local, Turns(t, at, l),
         pc'[t] = at /\ my'[t] = l => Knows(t)'
  PROVE  Inv'
<1>1. Typed' /\ Still BY LifecycleTyped DEF Inv, Typed, lifecycle, files
<1>2. QED BY <1>1, QuietStep

LEMMA LooksEnd ==
  ASSUME Inv, UNCHANGED <<lifecycle, files, aborts>>, NEW t \in Threads, Done(t)
  PROVE  Inv'
<1>1. Typed' /\ Still BY LifecycleTyped DEF Inv, Typed, lifecycle, files
<1>2. QED BY <1>1, QuietEnd

LEMMA FindsStep ==
  ASSUME Inv, NEW t \in Threads, NEW s \in Snapshots, EnsureFinds(t, s)
  PROVE  Inv'
<1> DEFINE l == [my[t] EXCEPT !.snap = s]
           at == IF KindOf[s] \in documents THEN "versioning" ELSE "opening"
<1>1. Turns(t, at, l) /\ UNCHANGED <<lifecycle, files, aborts>> BY DEF EnsureFinds, Goto, Turns
<1>2. my[t] = Blank BY MyTyped DEF EnsureFinds, Speaks
<1>3. l \in Local /\ l.snap = s /\ l.over = None /\ at \in {"versioning", "opening"}
      BY <1>2, BlankTyped DEF Local, Blank
<1> HIDE DEF l, at
<1>4. pc'[t] = at /\ my'[t] = l => Knows(t)' BY <1>3 DEF Knows, Speaks, Relies
<1>5. QED BY <1>1, <1>3, <1>4, LooksStep DEF PCs

LEMMA OpensStep ==
  ASSUME Inv, NEW t \in Threads, EnsureOpens(t)
  PROVE  Inv'
<1>1. /\ pc[t] = "opening"
      /\ UNCHANGED <<current, version, records, approvals, audit, hold, files, aborts>>
      /\ \/ Done(t) /\ UNCHANGED documents
         \/ documents' = documents \cup {KindOf[my[t].snap]} /\ Goto(t, "versioning") /\ UNCHANGED my
      BY DEF EnsureOpens
<1>2. my[t] \in Local /\ my[t].snap \in Snapshots /\ Speaks("opening", my[t]) BY <1>1, MyTyped DEF Speaks
<1>3. KindOf[my[t].snap] \in Documents BY <1>2, ConstantsAssumption
<1>4. Typed' /\ Still BY <1>1, <1>3 DEF Inv, Typed, Still, files
<1>5. CASE Done(t) BY <1>4, <1>5, QuietEnd
<1>6. CASE Goto(t, "versioning") /\ UNCHANGED my
      <2>1. Turns(t, "versioning", my[t]) BY <1>6 DEF Goto, Turns, Inv, Threaded
      <2>2. pc'[t] = "versioning" /\ my'[t] = my[t] => Knows(t)'
            BY <1>2 DEF Knows, Speaks, Relies
      <2>3. QED BY <1>2, <1>4, <2>1, <2>2, QuietStep DEF PCs
<1>7. QED BY <1>1, <1>5, <1>6

\* The next version is one above the version of the revision the document points to.
LEMMA ListsStep ==
  ASSUME Inv, NEW t \in Threads, EnsureLists(t)
  PROVE  Inv'
<1> DEFINE s == my[t].snap
           d == KindOf[s]
           taken == {version[x] : x \in RevisionsOf(d)}
           n == IF taken = {} THEN 1 ELSE 1 + CHOOSE k \in taken : \A m \in taken : m <= k
           l == [my[t] EXCEPT !.next = n]
<1>1. /\ pc[t] = "versioning" /\ UNCHANGED <<lifecycle, files, aborts>>
      /\ Done(t) \/ Turns(t, "registering", l)
      BY DEF EnsureLists, Goto, Turns
<1>2. my[t] \in Local /\ s \in Snapshots /\ Speaks("versioning", my[t]) BY <1>1, MyTyped DEF Speaks
<1>3. d \in Documents BY <1>2, ConstantsAssumption
<1>4. \A x \in RevisionsOf(d) : version[x] \in Nat /\ version[x] # 0
      BY DEF Inv, Typed, RevisionsOf
<1>5. n \in Nat /\ n > 0 /\ \A m \in 1..(n - 1) : Has(d, m)
      <2>1. CASE taken = {} BY <2>1
      <2>2. CASE taken # {}
            <3>1. /\ current[d] \in RevisionsOf(d)
                  /\ \A x \in RevisionsOf(d) : version[x] <= version[current[d]]
                  BY <1>3, <2>2 DEF Inv, Numbered
            <3> DEFINE k == CHOOSE k \in taken : \A m \in taken : m <= k
            <3>2. version[current[d]] \in taken /\ \A m \in taken : m <= version[current[d]]
                  BY <3>1
            <3>3. k \in taken BY <3>2
            <3>4. n = 1 + k BY <2>2
            <3> HIDE DEF k, n
            <3>5. PICK x \in RevisionsOf(d) : version[x] = k BY <3>3
            <3>6. k \in Nat /\ \A m \in 1..k : Has(d, m) BY <1>3, <1>4, <3>5 DEF Inv, Numbered
            <3>7. QED BY <3>4, <3>6
      <2>3. QED BY <2>1, <2>2
<1> HIDE DEF n
<1>6. l \in Local /\ l.snap = s /\ l.next = n /\ l.over = my[t].over /\ l.event = my[t].event
      BY <1>2, <1>5 DEF Local
<1> HIDE DEF l
<1>7. UNCHANGED version BY <1>1 DEF lifecycle
<1>8. CASE Turns(t, "registering", l)
      <2>1. Speaks("registering", l) BY <1>2, <1>6 DEF Speaks
      <2>2. pc'[t] = "registering" /\ my'[t] = l => Knows(t)'
            BY <1>5, <1>6, <1>7, <2>1 DEF Knows, Speaks, Relies, Has, RevisionsOf
      <2>3. QED BY <1>1, <1>6, <1>8, <2>2, LooksStep DEF PCs
<1>9. CASE Done(t) BY <1>1, <1>9, LooksEnd
<1>10. QED BY <1>1, <1>8, <1>9

LEMMA BeginStep ==
  ASSUME Inv, NEW t \in Threads, NEW s \in Snapshots, NEW event \in Events,
         NEW label \in {"requesting", "binding", "checking", "auditing"}, Begin(t, s, event, label),
         label = "binding" => event \in Decisions,
         label = "checking" => event = "published",
         label = "auditing" => event \in Audited,
         event = "published" => Recorded(s, "approved")
  PROVE  Inv'
<1> DEFINE l == [my[t] EXCEPT !.snap = s, !.event = event]
<1>1. Turns(t, label, l) /\ UNCHANGED <<lifecycle, files, aborts>> /\ pc[t] = "idle"
      BY DEF Begin, Goto, Turns
<1>2. my[t] = Blank BY <1>1, MyTyped DEF Speaks
<1>3. l \in Local /\ l.snap = s /\ l.over = None /\ l.event = event
      <2> DEFINE k == [Blank EXCEPT !.snap = s]
      <2>1. k \in Local /\ k.snap = s /\ k.over = None BY BlankTyped DEF Local, Blank
      <2>2. l = [k EXCEPT !.event = event] BY <1>2
      <2> HIDE DEF k, l
      <2>3. QED BY <2>1, <2>2 DEF Local
<1> HIDE DEF l
<1>4. Recorded(s, "approved") => Recorded(s, "approved")' BY <1>1 DEF lifecycle, Recorded
<1>5. pc'[t] = label /\ my'[t] = l => Knows(t)' BY <1>3, <1>4 DEF Knows, Speaks, Relies, Recorded
<1>6. QED BY <1>1, <1>3, <1>5, LooksStep DEF PCs

LEMMA LastIsRecorded ==
  ASSUME Typed, NEW s \in Snapshots, NEW event, event # "draft", StateOf(s) = event
  PROVE  Recorded(s, event)
<1>1. records[s] # <<>> /\ records[s][Len(records[s])].event = event BY DEF StateOf
<1>2. records[s] \in Seq(LifecycleRecord) BY RecordsTyped
<1>3. Len(records[s]) \in 1..Len(records[s]) BY <1>1, <1>2, EmptySeq, LenProperties
<1>4. QED BY <1>1, <1>3 DEF Recorded

LEMMA ReadsStep ==
  ASSUME Inv, NEW t \in Threads, NEW s \in Snapshots,
         \/ RequestReads(t, s) \/ DecideReads(t, s, "approved") \/ DecideReads(t, s, "rejected")
         \/ PublishReads(t, s) \/ RetractReads(t, s)
  PROVE  Inv'
<1>1. CASE RequestReads(t, s) BY <1>1, BeginStep DEF RequestReads, Events
<1>2. CASE DecideReads(t, s, "approved") BY <1>2, BeginStep DEF DecideReads, Events, Audited, Decisions
<1>3. CASE DecideReads(t, s, "rejected") BY <1>3, BeginStep DEF DecideReads, Events, Audited, Decisions
<1>4. CASE PublishReads(t, s)
      <2>1. Recorded(s, "approved") BY <1>4, LastIsRecorded DEF PublishReads, MayPublish, Inv
      <2>2. Begin(t, s, "published", "checking") BY <1>4 DEF PublishReads
      <2>3. QED BY <2>1, <2>2, BeginStep DEF Events, Audited
<1>5. CASE RetractReads(t, s) BY <1>5, BeginStep DEF RetractReads, Events, Audited
<1>6. QED BY <1>1, <1>2, <1>3, <1>4, <1>5

LEMMA BindsStep ==
  ASSUME Inv, NEW t \in Threads, DecideBinds(t)
  PROVE  Inv'
<1> DEFINE s == my[t].snap
           f == IF IsReady(s) THEN rows[s].content ELSE None
           l == [my[t] EXCEPT !.form = f]
<1>1. pc[t] = "binding" /\ Turns(t, "auditing", l) /\ UNCHANGED <<lifecycle, files, aborts>>
      BY DEF DecideBinds, Goto, Turns
<1>2. /\ my[t] \in Local /\ s \in Snapshots /\ my[t].event \in Decisions /\ my[t].over = None
      BY <1>1, MyTyped DEF Speaks
<1>3. f \in Contents \cup {None} BY <1>2 DEF IsReady, Inv, Typed, Row
<1> HIDE DEF f
<1>4. l \in Local /\ l.snap = s /\ l.over = None /\ l.event = my[t].event BY <1>2, <1>3 DEF Local
<1> HIDE DEF l
<1>5. pc'[t] = "auditing" /\ my'[t] = l => Knows(t)'
      BY <1>2, <1>4 DEF Knows, Speaks, Relies, Decisions, Audited
<1>6. QED BY <1>1, <1>4, <1>5, LooksStep DEF PCs

LEMMA AuditsStep ==
  ASSUME Inv, NEW t \in Threads, Audits(t)
  PROVE  Inv'
<1> DEFINE s == my[t].snap
           e == my[t].event
           at == IF e \in {"approved", "rejected"} THEN "recording" ELSE "appending"
<1>1. /\ pc[t] = "auditing"
      /\ UNCHANGED <<documents, current, version, records, approvals, hold, files, aborts>>
      /\ \/ audit' = [audit EXCEPT ![s][e] = @ + 1] /\ Goto(t, at) /\ UNCHANGED my
         \/ Done(t) /\ UNCHANGED audit
      BY DEF Audits
<1>2. /\ my[t] \in Local /\ s \in Snapshots /\ e \in Audited
      /\ Speaks("auditing", my[t]) /\ Relies("auditing", my[t])
      BY <1>1, MyTyped DEF Speaks
<1>3. Typed' /\ Still
      <2>1. audit \in [Snapshots -> [Audited -> Nat]] BY DEF Inv, Typed
      <2>2. [audit[s] EXCEPT ![e] = @ + 1] \in [Audited -> Nat] BY <1>2, <2>1
      <2> DEFINE one == [audit[s] EXCEPT ![e] = @ + 1]
      <2>3. ASSUME audit' = [audit EXCEPT ![s][e] = @ + 1] PROVE audit' = [audit EXCEPT ![s] = one]
            BY <2>3
      <2> HIDE DEF one
      <2>4. ASSUME audit' = [audit EXCEPT ![s] = one] PROVE audit' \in [Snapshots -> [Audited -> Nat]]
            BY <2>1, <2>2, <2>4 DEF one
      <2>5. audit' \in [Snapshots -> [Audited -> Nat]] BY <1>1, <2>1, <2>3, <2>4
      <2>6. QED BY <1>1, <2>5 DEF Inv, Typed, Still, files
<1>4. CASE Goto(t, at) /\ UNCHANGED my
      <2>1. Turns(t, at, my[t]) BY <1>4 DEF Goto, Turns, Inv, Threaded
      <2>2. at \in {"recording", "appending"} /\ (at = "recording" => e \in Decisions)
            /\ (at = "recording" => my[t].over = None)
            BY <1>2 DEF Speaks, Decisions
      <2>3. /\ \A x : Recorded(x, "approved") => Recorded(x, "approved")'
            /\ \A x : Recorded(x, "published") => Recorded(x, "published")'
            BY <1>1 DEF Recorded
      <2> HIDE DEF at
      <2>4. pc'[t] = at /\ my'[t] = my[t] => Knows(t)'
            BY <1>2, <2>2, <2>3 DEF Knows, Speaks, Relies, Recorded
      <2>5. QED BY <1>2, <1>3, <2>1, <2>2, <2>4, QuietStep DEF PCs
<1>5. CASE Done(t) BY <1>3, <1>5, QuietEnd
<1>6. QED BY <1>1, <1>4, <1>5

LEMMA RecordsApprovalStep ==
  ASSUME Inv, NEW t \in Threads, DecideRecords(t)
  PROVE  Inv'
<1> DEFINE s == my[t].snap
           a == [decision |-> my[t].event, form |-> my[t].form]
<1>1. /\ pc[t] = "recording" /\ approvals' = [approvals EXCEPT ![s] = Append(@, a)]
      /\ Goto(t, "appending")
      /\ UNCHANGED <<documents, current, version, records, audit, hold, files, aborts, my>>
      BY DEF DecideRecords
<1>2. /\ my[t] \in Local /\ s \in Snapshots /\ my[t].event \in Decisions /\ my[t].over = None
      BY <1>1, MyTyped DEF Speaks
<1>3. a \in Approval BY <1>2 DEF Local, Approval, Decisions
<1> HIDE DEF a
<1>4. Typed' /\ Still
      <2>1. approvals[s] \in Seq(Approval) BY <1>2 DEF Inv, Typed
      <2>2. Append(approvals[s], a) \in Seq(Approval) BY <1>3, <2>1, AppendProperties
      <2>3. approvals' \in [Snapshots -> Seq(Approval)] BY <1>1, <1>2, <2>2 DEF Inv, Typed
      <2>4. QED BY <1>1, <2>3 DEF Inv, Typed, Still, files
<1>5. Turns(t, "appending", my[t]) BY <1>1 DEF Goto, Turns, Inv, Threaded
<1>6. pc'[t] = "appending" /\ my'[t] = my[t] => Knows(t)'
      BY <1>2 DEF Knows, Speaks, Relies, Decisions, Audited
<1>7. QED BY <1>2, <1>4, <1>5, <1>6, QuietStep DEF PCs

LEMMA ChecksStep ==
  ASSUME Inv, NEW t \in Threads, PublishChecks(t)
  PROVE  Inv'
<1>1. /\ pc[t] = "checking" /\ UNCHANGED <<lifecycle, files, aborts>>
      /\ (Goto(t, "listing") /\ UNCHANGED my) \/ Done(t)
      BY DEF PublishChecks
<1>2. my[t] \in Local /\ Speaks("checking", my[t]) /\ Relies("checking", my[t]) BY <1>1, MyTyped
<1>3. CASE Goto(t, "listing") /\ UNCHANGED my
      <2>1. Turns(t, "listing", my[t]) BY <1>3 DEF Goto, Turns, Inv, Threaded
      <2>2. \A x : Recorded(x, "approved") => Recorded(x, "approved")' BY <1>1 DEF lifecycle, Recorded
      <2>3. pc'[t] = "listing" /\ my'[t] = my[t] => Knows(t)'
            BY <1>2, <2>2 DEF Knows, Speaks, Relies, Recorded
      <2>4. QED BY <1>1, <1>2, <2>1, <2>3, LooksStep DEF PCs
<1>4. CASE Done(t) BY <1>1, <1>4, LooksEnd
<1>5. QED BY <1>1, <1>3, <1>4

LEMMA PublishListsStep ==
  ASSUME Inv, NEW t \in Threads, PublishLists(t)
  PROVE  Inv'
<1> DEFINE R == RevisionsOf(KindOf[my[t].snap])
           l == [my[t] EXCEPT !.revs = R]
<1>1. pc[t] = "listing" /\ Turns(t, "preceding", l) /\ UNCHANGED <<lifecycle, files, aborts>>
      BY DEF PublishLists, Goto, Turns
<1>2. /\ my[t] \in Local /\ my[t].snap \in Snapshots /\ my[t].event = "published" /\ my[t].over = None
      /\ Recorded(my[t].snap, "approved")
      BY <1>1, MyTyped DEF Speaks, Relies
<1>3. R \subseteq Snapshots /\ \A x \in R : KindOf[x] = KindOf[my[t].snap] BY DEF RevisionsOf
<1> HIDE DEF R
<1>4. l \in Local /\ l.snap = my[t].snap /\ l.over = None /\ l.event = "published" /\ l.revs = R
      BY <1>2, <1>3 DEF Local
<1> HIDE DEF l
<1>5. \A x : Recorded(x, "approved") => Recorded(x, "approved")' BY <1>1 DEF lifecycle, Recorded
<1>6. pc'[t] = "preceding" /\ my'[t] = l => Knows(t)'
      BY <1>2, <1>3, <1>4, <1>5 DEF Knows, Speaks, Relies, Recorded
<1>7. QED BY <1>1, <1>4, <1>6, LooksStep DEF PCs

\* Of the revisions that are listed one has the lowest version.
LEMMA LeastRevision ==
  ASSUME Inv, NEW R, R \subseteq Snapshots, R # {}
  PROVE  \E s \in R : \A x \in R : version[s] <= version[x]
<1> DEFINE V == {version[s] : s \in R}
<1>1. V \subseteq Nat /\ V # {} BY DEF Inv, Typed
<1> DEFINE W == {p \in Nat \X Nat : p[1] < p[2]}
<1>2. IsWellFoundedOn(W, Nat) BY NatLessThanWellFounded DEF OpToRel
<1> HIDE DEF V
<1>3. PICK n \in V : \A m \in V : <<m, n>> \notin W BY <1>1, <1>2, WFMin
<1>4. ASSUME NEW m \in V PROVE n <= m
      <2>1. m \in Nat /\ n \in Nat BY <1>1
      <2>2. ~(m < n) BY <1>3, <2>1
      <2>3. QED BY <2>1, <2>2
<1>5. QED BY <1>3, <1>4 DEF V

\* The one that is found is of the same document and has been published.
LEMMA PrecedesStep ==
  ASSUME Inv, NEW t \in Threads, PublishPrecedes(t)
  PROVE  Inv'
<1> DEFINE left == my[t].revs
           first == CHOOSE s \in left : \A x \in left : version[s] <= version[x]
<1>1. pc[t] = "preceding" /\ UNCHANGED <<lifecycle, files, aborts>> BY DEF PublishPrecedes
<1>2. /\ my[t] \in Local /\ my[t].snap \in Snapshots /\ my[t].event = "published" /\ my[t].over = None
      /\ Recorded(my[t].snap, "approved") /\ \A x \in left : KindOf[x] = KindOf[my[t].snap]
      /\ left \subseteq Snapshots
      BY <1>1, MyTyped DEF Speaks, Relies, Local
<1>3. pc \in [Threads -> PCs] /\ my \in [Threads -> Local] BY DEF Inv, Threaded
<1>4. /\ \A x : Recorded(x, "approved") => Recorded(x, "approved")'
      /\ \A x : Recorded(x, "published") => Recorded(x, "published")'
      BY <1>1 DEF lifecycle, Recorded
<1>5. CASE left = {}
      <2>1. Turns(t, "auditing", my[t]) BY <1>3, <1>5 DEF PublishPrecedes, Goto, Turns
      <2>2. pc'[t] = "auditing" /\ my'[t] = my[t] => Knows(t)'
            BY <1>2, <1>4 DEF Knows, Speaks, Relies, Audited, Recorded
      <2>3. QED BY <1>1, <1>2, <2>1, <2>2, LooksStep DEF PCs
<1>6. CASE left # {}
      <2>1. first \in left BY <1>2, <1>6, LeastRevision
      <2>2. PICK s \in left :
            \/ /\ StateOf(s) = "published" /\ Goto(t, "auditing")
               /\ my' = [my EXCEPT ![t].over = s, ![t].revs = {}]
            \/ my' = [my EXCEPT ![t].revs = @ \ {s}] /\ UNCHANGED pc
            BY <1>6, <2>1 DEF PublishPrecedes
      <2>3. s \in Snapshots /\ KindOf[s] = KindOf[my[t].snap] BY <1>2
      <2>4. CASE /\ StateOf(s) = "published" /\ Goto(t, "auditing")
                 /\ my' = [my EXCEPT ![t].over = s, ![t].revs = {}]
            <3> DEFINE k == [my[t] EXCEPT !.over = s]
                       l == [k EXCEPT !.revs = {}]
            <3>1. Turns(t, "auditing", l) BY <2>4 DEF Goto, Turns
            <3>2. k \in Local /\ k.snap = my[t].snap /\ k.over = s /\ k.event = "published"
                  BY <1>2, <2>3 DEF Local
            <3> HIDE DEF k
            <3>3. l \in Local /\ l.snap = my[t].snap /\ l.over = s /\ l.event = "published"
                  BY <3>2 DEF Local
            <3> HIDE DEF l
            <3>4. Recorded(s, "published") BY <2>3, <2>4, LastIsRecorded DEF Inv
            <3>5. pc'[t] = "auditing" /\ my'[t] = l => Knows(t)'
                  <4>1. /\ Recorded(s, "published")'
                        /\ \A x : x = my[t].snap => Recorded(x, "approved")'
                        BY <1>2, <1>4, <3>4
                  <4>2. Speaks("auditing", l) BY <1>2, <3>3 DEF Speaks, Audited
                  <4>3. ASSUME pc'[t] = "auditing", my'[t] = l PROVE Relies(pc[t], my[t])'
                        BY <1>2, <2>3, <3>3, <4>1, <4>3 DEF Relies
                  <4>4. QED BY <4>2, <4>3 DEF Knows, Speaks
            <3>6. QED BY <1>1, <3>1, <3>3, <3>5, LooksStep DEF PCs
      <2>5. CASE my' = [my EXCEPT ![t].revs = @ \ {s}] /\ UNCHANGED pc
            <3> DEFINE l == [my[t] EXCEPT !.revs = @ \ {s}]
            <3>1. Turns(t, "preceding", l) BY <1>1, <1>3, <2>5 DEF Turns
            <3>2. /\ l \in Local /\ l.snap = my[t].snap /\ l.over = None /\ l.event = "published"
                  /\ l.revs = left \ {s}
                  BY <1>2 DEF Local
            <3> HIDE DEF l
            <3>3. pc'[t] = "preceding" /\ my'[t] = l => Knows(t)'
                  BY <1>2, <1>4, <3>2 DEF Knows, Speaks, Relies, Recorded
            <3>4. QED BY <1>1, <3>1, <3>2, <3>3, LooksStep DEF PCs
      <2>6. QED BY <2>2, <2>4, <2>5
<1>7. QED BY <1>5, <1>6

LEMMA RenderStartsStep ==
  ASSUME Inv, NEW t \in Threads, NEW s \in Snapshots, RenderStarts(t, s)
  PROVE  Inv'
<1>1. /\ pc[t] = "idle" /\ renders < RenderBound /\ renders' = renders + 1
      /\ UNCHANGED <<lifecycle, rows, objects, aborts>>
      BY DEF RenderStarts
<1>2. PICK c \in Contents : my' = [my EXCEPT ![t].snap = s, ![t].form = c] BY DEF RenderStarts
<1> DEFINE l == [my[t] EXCEPT !.snap = s, !.form = c]
<1>3. Turns(t, "committing", l) BY <1>2 DEF RenderStarts, Goto, Turns
<1>4. my[t] = Blank BY <1>1, MyTyped DEF Speaks
<1>5. l \in Local /\ l.snap = s /\ l.over = None /\ l.form = c
      <2> DEFINE k == [Blank EXCEPT !.snap = s]
      <2>1. k \in Local /\ k.snap = s /\ k.over = None BY BlankTyped DEF Local, Blank
      <2>2. l = [k EXCEPT !.form = c] BY <1>4
      <2> HIDE DEF k, l
      <2>3. QED BY <2>1, <2>2 DEF Local
<1> HIDE DEF l
<1>6. renders' \in 0..RenderBound BY <1>1, ConstantsAssumption DEF Inv, Typed
<1>7. Typed' /\ Still BY <1>1, <1>6, LifecycleTyped DEF Inv, Typed, lifecycle
<1>8. pc'[t] = "committing" /\ my'[t] = l => Knows(t)' BY <1>5 DEF Knows, Speaks, Relies
<1>9. QED BY <1>3, <1>5, <1>7, <1>8, QuietStep DEF PCs

LEMMA SetRetentionStep ==
  ASSUME Inv, NEW t \in Threads, NEW d \in Documents, SetRetention(t, d)
  PROVE  Inv'
<1>1. /\ UNCHANGED <<documents, current, version, records, approvals, audit, files, aborts, pc, my>>
      /\ hold' \subseteq Documents
      BY DEF SetRetention, Inv, Typed
<1>2. Typed' /\ Still BY <1>1 DEF Inv, Typed, Still, files
<1>3. Turns(t, pc[t], my[t]) BY <1>1 DEF Turns, Inv, Threaded
<1>4. my[t] \in Local /\ pc[t] \in PCs BY MyTyped
<1>5. Knows(t)' BY <1>1, <1>2, StillGrows, ThreadStays DEF Inv
<1>6. QED BY <1>2, <1>3, <1>4, <1>5, QuietStep

\* What a sweep keeps for itself does not matter to what it may rely on.
LEMMA SweepKnows ==
  ASSUME NEW t, pc'[t] \in {"sweeping", "judging", "purging"},
         my'[t].over # None => my'[t].event = "published"
  PROVE  Knows(t)'
BY DEF Knows, Speaks, Relies

LEMMA SweepBeginsStep ==
  ASSUME Inv, NEW t \in Threads, SweepBegins(t)
  PROVE  Inv'
<1> DEFINE l == [my[t] EXCEPT !.docs = Documents]
<1>1. pc[t] = "idle" /\ Turns(t, "sweeping", l) /\ UNCHANGED <<lifecycle, files, aborts>>
      BY DEF SweepBegins, Goto, Turns
<1>2. my[t] = Blank BY <1>1, MyTyped DEF Speaks
<1>3. l \in Local /\ l.over = None BY <1>2, BlankTyped DEF Local, Blank
<1> HIDE DEF l
<1>4. QED BY <1>1, <1>3, SweepKnows, LooksStep DEF PCs

\* A step of a sweep that only looks and goes on to a place of the sweep.
LEMMA SweepStep ==
  ASSUME Inv, NEW t \in Threads, UNCHANGED <<lifecycle, files, aborts>>,
         NEW at \in {"sweeping", "judging", "purging"}, NEW l \in Local, Turns(t, at, l),
         l.over = my[t].over, l.event = my[t].event
  PROVE  Inv'
<1>1. l.over # None => l.event = "published" BY MyTyped DEF Speaks
<1>2. pc'[t] = at /\ my'[t] = l => Knows(t)' BY <1>1, SweepKnows
<1>3. QED BY <1>2, LooksStep DEF PCs

LEMMA SweepLooksStep ==
  ASSUME Inv, NEW t \in Threads, SweepLooks(t)
  PROVE  Inv'
<1>1. pc[t] = "sweeping" /\ UNCHANGED <<lifecycle, files, aborts>> BY DEF SweepLooks
<1>2. my[t] \in Local BY MyTyped
<1>3. pc \in [Threads -> PCs] BY DEF Inv, Threaded
<1>4. CASE Done(t) BY <1>1, <1>4, LooksEnd
<1>5. CASE ~Done(t)
      <2>1. PICK d \in my[t].docs :
              IF d \in documents \ hold
              THEN /\ my' = [my EXCEPT ![t].docs = @ \ {d}, ![t].doc = d,
                               ![t].revs = RevisionsOf(d), ![t].listed = RevisionsOf(d)]
                   /\ Goto(t, "judging")
              ELSE my' = [my EXCEPT ![t].docs = @ \ {d}] /\ UNCHANGED pc
            BY <1>5 DEF SweepLooks
      <2> DEFINE k == [my[t] EXCEPT !.docs = @ \ {d}]
                 l == [[[k EXCEPT !.doc = d] EXCEPT !.revs = RevisionsOf(d)] EXCEPT !.listed = RevisionsOf(d)]
      <2>2. k \in Local /\ k.over = my[t].over /\ k.event = my[t].event BY <1>2 DEF Local
      <2>3. CASE d \in documents \ hold
            <3>1. my' = [my EXCEPT ![t] = l] BY <2>1, <2>3
            <3>2. Turns(t, "judging", l) BY <2>1, <2>3, <3>1 DEF Goto, Turns
            <3> HIDE DEF k
            <3> DEFINE k1 == [k EXCEPT !.doc = d]
                       k2 == [k1 EXCEPT !.revs = RevisionsOf(d)]
            <3>3. d \in Documents /\ RevisionsOf(d) \subseteq Snapshots
                  BY <2>3 DEF Inv, Typed, RevisionsOf
            <3>4. k1 \in Local /\ k1.over = my[t].over /\ k1.event = my[t].event BY <2>2, <3>3 DEF Local
            <3>5. l = [k2 EXCEPT !.listed = RevisionsOf(d)] OBVIOUS
            <3> HIDE DEF k1, l
            <3>6. k2 \in Local /\ k2.over = my[t].over /\ k2.event = my[t].event BY <3>3, <3>4 DEF Local
            <3> HIDE DEF k2
            <3>7. l \in Local /\ l.over = my[t].over /\ l.event = my[t].event
                  BY <3>3, <3>5, <3>6 DEF Local
            <3>8. QED BY <1>1, <3>2, <3>7, SweepStep
      <2>4. CASE d \notin documents \ hold
            <3>1. Turns(t, "sweeping", k) BY <1>1, <1>3, <2>1, <2>4 DEF Turns
            <3> HIDE DEF k
            <3>2. QED BY <1>1, <2>2, <3>1, SweepStep
      <2>5. QED BY <2>3, <2>4
<1>6. QED BY <1>4, <1>5

LEMMA SweepJudgesStep ==
  ASSUME Inv, NEW t \in Threads, SweepJudges(t)
  PROVE  Inv'
<1>1. pc[t] = "judging" /\ UNCHANGED <<lifecycle, files, aborts>> BY DEF SweepJudges
<1>2. my[t] \in Local /\ pc \in [Threads -> PCs] BY MyTyped DEF Inv, Threaded
<1>3. PICK s \in my[t].revs :
        IF StateOf(s) \in Protected
        THEN my' = [my EXCEPT ![t].revs = {}, ![t].listed = {}] /\ Goto(t, "sweeping")
        ELSE my' = [my EXCEPT ![t].revs = @ \ {s}] /\ UNCHANGED pc
      BY DEF SweepJudges
<1>4. CASE StateOf(s) \in Protected
      <2> DEFINE k == [my[t] EXCEPT !.revs = {}]
                 l == [k EXCEPT !.listed = {}]
      <2>1. Turns(t, "sweeping", l) BY <1>3, <1>4 DEF Goto, Turns
      <2>2. k \in Local /\ k.over = my[t].over /\ k.event = my[t].event BY <1>2 DEF Local
      <2> HIDE DEF k
      <2>3. l \in Local /\ l.over = my[t].over /\ l.event = my[t].event BY <2>2 DEF Local
      <2> HIDE DEF l
      <2>4. QED BY <1>1, <2>1, <2>3, SweepStep
<1>5. CASE StateOf(s) \notin Protected
      <2> DEFINE l == [my[t] EXCEPT !.revs = @ \ {s}]
      <2>1. Turns(t, "judging", l) BY <1>1, <1>2, <1>3, <1>5 DEF Turns
      <2>2. l \in Local /\ l.over = my[t].over /\ l.event = my[t].event BY <1>2 DEF Local
      <2> HIDE DEF l
      <2>3. QED BY <1>1, <2>1, <2>2, SweepStep
<1>6. QED BY <1>4, <1>5

LEMMA SweepPassesStep ==
  ASSUME Inv, NEW t \in Threads, SweepPasses(t)
  PROVE  Inv'
<1>1. Turns(t, "purging", my[t]) /\ UNCHANGED <<lifecycle, files, aborts>>
      BY DEF SweepPasses, Goto, Turns, Inv, Threaded
<1>2. QED BY <1>1, MyTyped, SweepStep

\* Only what is old is taken up.
LEMMA SweepPicksStep ==
  ASSUME Inv, NEW t \in Threads, SweepPicks(t)
  PROVE  Inv'
<1>1. pc[t] = "purging" /\ UNCHANGED <<lifecycle, files, aborts>> BY DEF SweepPicks
<1>2. my[t] \in Local /\ pc \in [Threads -> PCs] /\ my \in [Threads -> Local] BY MyTyped DEF Inv, Threaded
<1>3. CASE my[t].listed = {}
      <2>1. Turns(t, "sweeping", my[t]) BY <1>2, <1>3 DEF SweepPicks, Goto, Turns
      <2>2. QED BY <1>1, <1>2, <2>1, SweepStep
<1>4. CASE my[t].listed # {}
      <2>1. PICK s \in my[t].listed :
              /\ my' = [my EXCEPT ![t].listed = @ \ {s}, ![t].snap = s, ![t].row = rows[s]]
              /\ IF IsDue(s) THEN Goto(t, "unlinking") ELSE UNCHANGED pc
            BY <1>4 DEF SweepPicks
      <2>2. s \in Snapshots /\ rows[s] \in Row \cup {None} BY <1>2 DEF Local, Inv, Typed
      <2> DEFINE k == [my[t] EXCEPT !.listed = @ \ {s}]
                 k1 == [k EXCEPT !.snap = s]
                 l == [k1 EXCEPT !.row = rows[s]]
                 at == IF IsDue(s) THEN "unlinking" ELSE "purging"
      <2>3. my' = [my EXCEPT ![t] = l] BY <2>1
      <2>4. pc' = [pc EXCEPT ![t] = at] BY <1>1, <1>2, <2>1 DEF Goto
      <2>5. k \in Local /\ k.over = my[t].over /\ k.event = my[t].event BY <1>2 DEF Local
      <2> HIDE DEF k
      <2>6. k1 \in Local /\ k1.over = my[t].over /\ k1.event = my[t].event /\ k1.snap = s
            BY <2>2, <2>5 DEF Local
      <2> HIDE DEF k1
      <2>7. l \in Local /\ l.over = my[t].over /\ l.event = my[t].event /\ l.snap = s /\ l.row = rows[s]
            BY <2>2, <2>6 DEF Local
      <2> HIDE DEF l
      <2>8. Turns(t, at, l) BY <2>3, <2>4 DEF Turns
      <2>9. CASE IsDue(s)
            <3>1. IsOld(s)' /\ rows[s] \in Row
                  BY <1>1, <2>2, <2>9 DEF IsDue, IsReady, IsOld, files
            <3>2. l.over # None => l.event = "published" BY <2>7, MyTyped DEF Speaks
            <3>3. ASSUME pc'[t] = "unlinking", my'[t] = l PROVE Knows(t)'
                  BY <2>2, <2>7, <3>1, <3>2, <3>3 DEF Knows, Speaks, Relies, IsOld
            <3>4. QED BY <1>1, <2>7, <2>8, <2>9, <3>3, LooksStep DEF PCs
      <2>10. CASE ~IsDue(s) BY <1>1, <2>7, <2>8, <2>10, SweepStep
      <2>11. QED BY <2>9, <2>10
<1>5. QED BY <1>3, <1>4

LEMMA RefusesStep ==
  ASSUME Inv, NEW t \in Threads, Refuses(t)
  PROVE  Inv'
BY LooksEnd DEF Refuses

LEMMA AbortStep ==
  ASSUME Inv, NEW t \in Threads, Abort(t)
  PROVE  Inv'
<1>1. aborts' \in 0..AbortBound /\ UNCHANGED <<lifecycle, files>> /\ Done(t)
      BY ConstantsAssumption DEF Abort, Inv, Typed
<1>2. Typed' /\ Still BY <1>1, LifecycleTyped DEF Inv, Typed, lifecycle, files
<1>3. QED BY <1>1, <1>2, QuietEnd
-----------------------------------------------------------------------------
(* Handlers that write files and their rows.                               *)

LEMMA FilesGrow ==
  ASSUME Typed, UNCHANGED lifecycle, \A s \in Snapshots : IsOld(s) => IsOld(s)',
         \A s \in Snapshots, c \in Contents : <<s, c>> \in objects => <<s, c>> \in objects' \/ IsOld(s)'
  PROVE  Grows
<1>1. \A s \in Snapshots : Len(records[s]) \in Nat BY RecordsTyped
<1>2. UNCHANGED <<version, records>> BY DEF lifecycle
<1>3. QED BY <1>1, <1>2 DEF Grows

LEMMA FilesTyped ==
  ASSUME Inv, UNCHANGED <<lifecycle, renders, aborts>>, rows' \in [Snapshots -> Row \cup {None}],
         objects' \subseteq Files
  PROVE  Typed'
<1>1. UNCHANGED <<documents, current, version, records, approvals, audit, hold>> BY DEF lifecycle
<1>2. Typed BY DEF Inv
<1>3. QED BY <1>1, <1>2 DEF Typed

LEMMA FilesStep ==
  ASSUME Inv, UNCHANGED <<lifecycle, renders, aborts>>, rows' \in [Snapshots -> Row \cup {None}],
         objects' \subseteq Files, Grows, Threaded', Filed'
  PROVE  Inv'
<1>1. UNCHANGED <<documents, current, version, records, approvals, audit, hold>> BY DEF lifecycle
<1>2. Typed' BY FilesTyped
<1>3. Numbered' BY <1>1, NumberedStays DEF Inv
<1>4. Recording' BY <1>1, RecordingStays DEF Inv
<1>5. QED BY <1>2, <1>3, <1>4 DEF Inv

LEMMA CommitsStep ==
  ASSUME Inv, NEW t \in Threads, RenderCommits(t)
  PROVE  Inv'
<1> DEFINE s == my[t].snap
           c == my[t].form
<1>1. /\ pc[t] = "committing" /\ objects' = objects \cup {<<s, c>>} /\ Goto(t, "publishing")
      /\ UNCHANGED <<lifecycle, rows, renders, aborts, my>>
      BY DEF RenderCommits
<1>2. my[t] \in Local /\ s \in Snapshots /\ c \in Contents /\ Speaks("committing", my[t])
      BY <1>1, MyTyped DEF Speaks
<1>3. objects' \subseteq Files BY <1>1, <1>2 DEF Inv, Typed, Files
<1>4. rows' \in [Snapshots -> Row \cup {None}] BY <1>1 DEF Inv, Typed
<1>5. Grows
      <2>1. \A x \in Snapshots : IsOld(x) => IsOld(x)' BY <1>1 DEF IsOld
      <2>2. QED BY <1>1, <2>1, FilesGrow DEF Inv
<1>6. Turns(t, "publishing", my[t]) BY <1>1 DEF Goto, Turns, Inv, Threaded
<1>7. ASSUME pc'[t] = "publishing", my'[t] = my[t] PROVE Knows(t)'
      BY <1>1, <1>2, <1>7 DEF Knows, Speaks, Relies
<1>8. Threaded' BY <1>1, <1>2, <1>3, <1>4, <1>5, <1>6, <1>7, FilesTyped, ThreadMoves DEF PCs
<1>9. Filed' BY <1>1 DEF Inv, Filed, IsReady
<1>10. QED BY <1>1, <1>3, <1>4, <1>5, <1>8, <1>9, FilesStep

\* A row that was old stays old, and its file is there or another sweep has it.
LEMMA PublishesFileStep ==
  ASSUME Inv, NEW t \in Threads, RenderPublishes(t)
  PROVE  Inv'
<1> DEFINE s == my[t].snap
           c == my[t].form
           w == rows[s] # None /\ rows[s].old
           row == [state |-> "ready", content |-> c, old |-> w, aged |-> FALSE]
<1>1. /\ pc[t] = "publishing" /\ rows' = [rows EXCEPT ![s] = row] /\ Done(t)
      /\ UNCHANGED <<lifecycle, objects, renders, aborts>>
      BY DEF RenderPublishes
<1>2. /\ my[t] \in Local /\ s \in Snapshots /\ c \in Contents
      /\ <<s, c>> \in objects \/ IsOld(s)
      BY <1>1, MyTyped DEF Speaks, Relies
<1>3. w \in BOOLEAN /\ w = IsOld(s) BY DEF IsOld
<1> HIDE DEF w
<1>4. row \in Row /\ row.old = w /\ row.content = c BY <1>2, <1>3 DEF Row
<1>5. row # None BY <1>4, NoneAssumption
<1> HIDE DEF row
<1>6. rows \in [Snapshots -> Row \cup {None}] BY DEF Inv, Typed
<1>7. rows' \in [Snapshots -> Row \cup {None}] BY <1>1, <1>2, <1>4, <1>6
<1>8. objects' \subseteq Files BY <1>1 DEF Inv, Typed
<1>9. rows'[s] = row /\ \A x \in Snapshots \ {s} : rows'[x] = rows[x] BY <1>1, <1>2, <1>6
<1>10. Grows
      <2>1. \A x \in Snapshots : IsOld(x) => IsOld(x)'
            BY <1>3, <1>4, <1>5, <1>9 DEF IsOld
      <2>2. QED BY <1>1, <2>1, FilesGrow DEF Inv
<1>11. Threaded' BY <1>1, <1>7, <1>8, <1>10, FilesTyped, ThreadEnds
<1>12. ASSUME NEW x \in Snapshots, IsReady(x)', <<x, rows'[x].content>> \notin objects'
       PROVE  rows'[x].old
       <2>1. CASE x = s BY <1>1, <1>2, <1>3, <1>4, <1>9, <1>12, <2>1
       <2>2. CASE x # s BY <1>1, <1>9, <1>12, <2>2 DEF Inv, Filed, IsReady
       <2>3. QED BY <2>1, <2>2
<1>13. Filed' BY <1>12 DEF Filed, IsReady
<1>14. QED BY <1>1, <1>7, <1>8, <1>10, <1>11, <1>13, FilesStep

LEMMA UnlinksStep ==
  ASSUME Inv, NEW t \in Threads, SweepUnlinks(t)
  PROVE  Inv'
<1> DEFINE s == my[t].snap
           c == my[t].row.content
<1>1. /\ pc[t] = "unlinking" /\ objects' \in {objects, objects \ {<<s, c>>}} /\ Goto(t, "marking")
      /\ UNCHANGED <<lifecycle, rows, renders, aborts, my>>
      BY DEF SweepUnlinks
<1>2. my[t] \in Local /\ s \in Snapshots /\ IsOld(s) /\ Speaks("unlinking", my[t])
      BY <1>1, MyTyped DEF Speaks, Relies
<1>3. objects' \subseteq Files BY <1>1 DEF Inv, Typed
<1>4. rows' \in [Snapshots -> Row \cup {None}] BY <1>1 DEF Inv, Typed
<1>5. \A x : IsOld(x) => IsOld(x)' BY <1>1 DEF IsOld
<1>6. Grows
      <2>1. \A x \in Snapshots, y \in Contents : <<x, y>> \in objects => <<x, y>> \in objects' \/ IsOld(x)
            BY <1>1, <1>2
      <2>2. QED BY <1>1, <1>5, <2>1, FilesGrow DEF Inv
<1>7. Turns(t, "marking", my[t]) BY <1>1 DEF Goto, Turns, Inv, Threaded
<1>8. ASSUME pc'[t] = "marking", my'[t] = my[t] PROVE Knows(t)'
      BY <1>2, <1>5, <1>8 DEF Knows, Speaks, Relies, IsOld
<1>9. Threaded' BY <1>1, <1>2, <1>3, <1>4, <1>6, <1>7, <1>8, FilesTyped, ThreadMoves DEF PCs
<1>10. ASSUME NEW x \in Snapshots, IsReady(x)', <<x, rows'[x].content>> \notin objects'
       PROVE  rows'[x].old
       <2>1. CASE x = s BY <1>1, <1>2, <2>1 DEF IsOld
       <2>2. CASE x # s BY <1>1, <1>10, <2>2 DEF Inv, Filed, IsReady
       <2>3. QED BY <2>1, <2>2
<1>11. Filed' BY <1>10 DEF Filed, IsReady
<1>12. QED BY <1>1, <1>3, <1>4, <1>6, <1>9, <1>11, FilesStep

LEMMA MarksStep ==
  ASSUME Inv, NEW t \in Threads, SweepMarks(t)
  PROVE  Inv'
<1> DEFINE s == my[t].snap
           row == [[rows[s] EXCEPT !.state = "purged"] EXCEPT !.content = my[t].row.content]
<1>1. /\ pc[t] = "marking" /\ Goto(t, "purging")
      /\ rows' = [rows EXCEPT ![s].state = "purged", ![s].content = my[t].row.content]
      /\ UNCHANGED <<lifecycle, objects, renders, aborts, my>>
      BY DEF SweepMarks
<1>2. my[t] \in Local /\ s \in Snapshots /\ IsOld(s) /\ my[t].row \in Row
      BY <1>1, MyTyped DEF Speaks, Relies
<1>3. rows \in [Snapshots -> Row \cup {None}] BY DEF Inv, Typed
<1>4. rows' = [rows EXCEPT ![s] = row] BY <1>1, <1>2, <1>3
<1>5. row \in Row /\ row.old = rows[s].old /\ row.state = "purged" BY <1>2, <1>3 DEF Row, IsOld
<1>6. row # None BY <1>5, NoneAssumption
<1> HIDE DEF row
<1>7. rows' \in [Snapshots -> Row \cup {None}] BY <1>2, <1>3, <1>4, <1>5
<1>8. rows'[s] = row /\ \A x \in Snapshots \ {s} : rows'[x] = rows[x] BY <1>2, <1>3, <1>4
<1>9. objects' \subseteq Files BY <1>1 DEF Inv, Typed
<1>10. Grows
      <2>1. \A x \in Snapshots : IsOld(x) => IsOld(x)'
            BY <1>2, <1>5, <1>6, <1>8 DEF IsOld
      <2>2. QED BY <1>1, <2>1, FilesGrow DEF Inv
<1>11. Turns(t, "purging", my[t]) BY <1>1 DEF Goto, Turns, Inv, Threaded
<1>12. ASSUME pc'[t] = "purging", my'[t] = my[t] PROVE Knows(t)'
       BY <1>12, MyTyped, SweepKnows DEF Speaks
<1>13. Threaded' BY <1>1, <1>2, <1>7, <1>9, <1>10, <1>11, <1>12, FilesTyped, ThreadMoves DEF PCs
<1>14. ASSUME NEW x \in Snapshots, IsReady(x)', <<x, rows'[x].content>> \notin objects'
       PROVE  rows'[x].old
       <2>1. CASE x = s BY <1>5, <1>8, <1>14, <2>1 DEF IsReady
       <2>2. CASE x # s
             <3>1. rows'[x] = rows[x] /\ objects' = objects BY <1>1, <1>8, <2>2
             <3>2. IsReady(x) /\ <<x, rows[x].content>> \notin objects BY <1>14, <3>1 DEF IsReady
             <3>3. QED BY <3>1, <3>2 DEF Inv, Filed
       <2>3. QED BY <2>1, <2>2
<1>15. Filed' BY <1>14 DEF Filed, IsReady
<1>16. QED BY <1>1, <1>7, <1>9, <1>10, <1>13, <1>15, FilesStep

LEMMA AgesStep ==
  ASSUME Inv, NEW s \in Snapshots, Ages(s)
  PROVE  Inv'
<1> DEFINE row == [[rows[s] EXCEPT !.old = TRUE] EXCEPT !.aged = TRUE]
<1>1. /\ rows[s] # None /\ rows' = [rows EXCEPT ![s].old = TRUE, ![s].aged = TRUE]
      /\ UNCHANGED <<lifecycle, objects, renders, aborts, pc, my>>
      BY DEF Ages
<1>2. rows \in [Snapshots -> Row \cup {None}] BY DEF Inv, Typed
<1>3. rows' = [rows EXCEPT ![s] = row] BY <1>1, <1>2
<1>4. row \in Row /\ row.old = TRUE BY <1>1, <1>2 DEF Row
<1>5. row # None BY <1>4, NoneAssumption
<1> HIDE DEF row
<1>6. rows' \in [Snapshots -> Row \cup {None}] BY <1>2, <1>3, <1>4
<1>7. rows'[s] = row /\ \A x \in Snapshots \ {s} : rows'[x] = rows[x] BY <1>2, <1>3
<1>8. objects' \subseteq Files BY <1>1 DEF Inv, Typed
<1>9. Grows
      <2>1. \A x \in Snapshots : IsOld(x) => IsOld(x)' BY <1>4, <1>5, <1>7 DEF IsOld
      <2>2. QED BY <1>1, <2>1, FilesGrow DEF Inv
<1>10. Threaded'
      <2>1. \A u \in Threads : Knows(u)' BY <1>1, <1>6, <1>8, <1>9, FilesTyped, ThreadStays
      <2>2. QED BY <1>1, <2>1 DEF Inv, Threaded
<1>11. ASSUME NEW x \in Snapshots, IsReady(x)', <<x, rows'[x].content>> \notin objects'
       PROVE  rows'[x].old
       <2>1. CASE x = s BY <1>4, <1>7, <2>1
       <2>2. CASE x # s
             <3>1. rows'[x] = rows[x] /\ objects' = objects BY <1>1, <1>7, <2>2
             <3>2. IsReady(x) /\ <<x, rows[x].content>> \notin objects BY <1>11, <3>1 DEF IsReady
             <3>3. QED BY <3>1, <3>2 DEF Inv, Filed
       <2>3. QED BY <2>1, <2>2
<1>12. Filed' BY <1>11 DEF Filed, IsReady
<1>13. QED BY <1>1, <1>6, <1>8, <1>9, <1>10, <1>12, FilesStep
-----------------------------------------------------------------------------
(* Handlers that append a record, and the one that registers a revision.   *)

LEMMA RecordAppended ==
  ASSUME Inv, NEW s \in Snapshots, NEW event \in Events, NEW by \in Snapshots,
         Append1(s, event, by),
         event = "published" => Recorded(s, "approved"),
         event = "superseded" => KindOf[by] = KindOf[s] /\ BothPublished(s, by),
         UNCHANGED <<documents, current, version, approvals, audit, hold, files, aborts>>
  PROVE  /\ Typed' /\ Grows /\ Numbered' /\ Recording' /\ Filed'
         /\ \A x \in Snapshots :
              event = "published" /\ Recorded(x, "published") => BothPublished(x, s)'
<1> DEFINE r == [event |-> event, by |-> by]
           n == Len(records[s])
<1>1. r \in LifecycleRecord /\ r.event = event /\ r.by = by BY DEF LifecycleRecord
<1> HIDE DEF r
<1>2. /\ records \in [Snapshots -> Seq(LifecycleRecord)] /\ Typed
      /\ records' = [records EXCEPT ![s] = Append(@, r)]
      BY DEF Inv, Typed, Append1, r
<1>3. /\ Append(records[s], r) \in Seq(LifecycleRecord) /\ Len(Append(records[s], r)) = n + 1
      /\ \A i \in 1..n : Append(records[s], r)[i] = records[s][i]
      /\ Append(records[s], r)[n + 1] = r
      BY <1>1, <1>2, AppendProperties
<1>4. /\ records'[s] = Append(records[s], r)
      /\ \A x \in Snapshots \ {s} : records'[x] = records[x]
      BY <1>2
<1>5. records' \in [Snapshots -> Seq(LifecycleRecord)] BY <1>2, <1>3
<1>6. \A x \in Snapshots : Len(records[x]) \in Nat BY <1>2, RecordsTyped
<1>7. Typed' BY <1>5 DEF Inv, Typed, files
<1>8. Grows
      <2>1. \A x \in Snapshots : /\ Len(records[x]) <= Len(records'[x])
                                 /\ \A i \in 1..Len(records[x]) : records'[x][i] = records[x][i]
            BY <1>3, <1>4, <1>6
      <2>2. QED BY <2>1 DEF Grows, files, IsOld
<1>9. Numbered' BY NumberedStays DEF Inv
<1>10. Filed' BY DEF Inv, Filed, IsReady, files
<1>11. ASSUME NEW x \in Snapshots, event = "published", Recorded(x, "published")
       PROVE  BothPublished(x, s)'
       <2>1. PICK j \in 1..Len(records[x]) : records[x][j].event = "published" BY <1>11 DEF Recorded
       <2>2. records'[x][j] = records[x][j] /\ Len(records[x]) <= Len(records'[x]) BY <1>8 DEF Grows
       <2>3. Len(records'[x]) \in Nat /\ Len(records[x]) \in Nat BY <1>5, <1>6, LenProperties
       <2>4. j \in 1..Len(records'[x]) BY <2>2, <2>3
       <2>5. Len(records'[s]) = n + 1 /\ records'[s][n + 1].event = "published" BY <1>1, <1>3, <1>4, <1>11
       <2>6. n + 1 \in 1..Len(records'[s]) /\ (s = x => j # n + 1) BY <1>6, <2>5
       <2>7. QED BY <2>1, <2>2, <2>4, <2>5, <2>6 DEF BothPublished
<1>12. ASSUME NEW x \in Snapshots, NEW i \in 1..Len(records'[x]) PROVE Founded(x, i)'
       <2>1. CASE i \in 1..Len(records[x])
             <3>1. records'[x][i] = records[x][i] BY <1>8, <2>1 DEF Grows
             <3>2. records[x][i] \in LifecycleRecord BY <1>2, <2>1, RecordsTyped
             <3>3. records[x][i].event = "published" =>
                     \E j \in 1..(i - 1) : records'[x][j].event = "approved"
                   <4>1. \A j \in 1..(i - 1) : records'[x][j] = records[x][j]
                         BY <1>6, <1>8, <2>1 DEF Grows
                   <4>2. QED BY <2>1, <4>1 DEF Inv, Recording, Founded
             <3>4. ASSUME records[x][i].event = "superseded", NEW b, b = records[x][i].by
                   PROVE  Succeeds(b, x, i)'
                   <4>1. b \in Snapshots BY <3>2, <3>4 DEF LifecycleRecord
                   <4>2. Succeeds(b, x, i) BY <2>1, <3>4 DEF Inv, Recording, Founded
                   <4>3. PICK j \in 1..(i - 1), k \in 1..Len(records[b]) :
                              /\ records[x][j].event = "published" /\ records[b][k].event = "published"
                              /\ b = x => j # k
                         BY <4>2 DEF Succeeds
                   <4>4. records'[x][j] = records[x][j] BY <1>6, <1>8, <2>1 DEF Grows
                   <4>5. records'[b][k] = records[b][k] /\ Len(records[b]) <= Len(records'[b])
                         BY <1>8, <4>1 DEF Grows
                   <4>6. Len(records'[b]) \in Nat /\ Len(records[b]) \in Nat
                         BY <1>5, <1>6, <4>1, LenProperties
                   <4>7. k \in 1..Len(records'[b]) BY <4>5, <4>6
                   <4>8. QED BY <4>2, <4>3, <4>4, <4>5, <4>7 DEF Succeeds
             <3>5. QED BY <3>1, <3>3, <3>4 DEF Founded, Succeeds
       <2>2. CASE i \notin 1..Len(records[x])
             <3>1. x = s /\ i = n + 1 /\ records'[x][i] = r BY <1>3, <1>4, <1>6, <2>2
             <3>2. event = "published" => \E j \in 1..(i - 1) : records'[x][j].event = "approved"
                   <4>1. ASSUME event = "published" PROVE \E j \in 1..n : records[s][j].event = "approved"
                         BY <4>1 DEF Recorded
                   <4>2. \A j \in 1..n : records'[x][j] = records[s][j] BY <1>3, <1>4, <3>1
                   <4>3. n \in Nat /\ i - 1 = n BY <1>6, <3>1
                   <4>4. QED BY <4>1, <4>2, <4>3
             <3>3. ASSUME event = "superseded"
                   PROVE  Succeeds(by, x, i)'
                   <4>1. PICK j \in 1..n, k \in 1..Len(records[by]) :
                              /\ records[s][j].event = "published" /\ records[by][k].event = "published"
                              /\ by = s => j # k
                         BY <3>3 DEF BothPublished
                   <4>2. records'[x][j] = records[s][j] BY <1>3, <1>4, <3>1
                   <4>3. records'[by][k] = records[by][k] /\ Len(records[by]) <= Len(records'[by])
                         BY <1>8 DEF Grows
                   <4>4. Len(records'[by]) \in Nat /\ Len(records[by]) \in Nat
                         BY <1>5, <1>6, LenProperties
                   <4>5. k \in 1..Len(records'[by]) BY <4>3, <4>4
                   <4>6. n \in Nat /\ i - 1 = n BY <1>6, <3>1
                   <4>7. QED BY <3>1, <3>3, <4>1, <4>2, <4>3, <4>5, <4>6 DEF Succeeds
             <3>4. QED BY <1>1, <3>1, <3>2, <3>3 DEF Founded, Succeeds
       <2>3. QED BY <2>1, <2>2
<1>13. Recording' BY <1>12 DEF Recording, Founded, Succeeds
<1>14. QED BY <1>7, <1>8, <1>9, <1>10, <1>11, <1>13

LEMMA RequestAppendsStep ==
  ASSUME Inv, NEW t \in Threads, RequestAppends(t)
  PROVE  Inv'
<1>1. /\ pc[t] = "requesting" /\ Append1(my[t].snap, "requested", my[t].snap) /\ Done(t)
      /\ UNCHANGED <<documents, current, version, approvals, audit, hold, files, aborts>>
      BY DEF RequestAppends
<1>2. my[t].snap \in Snapshots BY <1>1, MyTyped DEF Speaks
<1>3. Typed' /\ Grows /\ Numbered' /\ Recording' /\ Filed'
      <2>1. "requested" \in Events /\ "requested" \notin {"published", "superseded"} BY DEF Events
      <2>2. ASSUME NEW s \in Snapshots, s = my[t].snap
            PROVE  Typed' /\ Grows /\ Numbered' /\ Recording' /\ Filed'
            <3>1. Append1(s, "requested", s) BY <1>1, <2>2
            <3>2. QED BY <1>1, <2>1, <3>1, RecordAppended
      <2>3. QED BY <1>2, <2>2
<1>4. Threaded' BY <1>1, <1>3, ThreadEnds
<1>5. QED BY <1>3, <1>4 DEF Inv

LEMMA AppendsStep ==
  ASSUME Inv, NEW t \in Threads, Appends(t)
  PROVE  Inv'
<1> DEFINE s == my[t].snap
           e == my[t].event
<1>1. /\ pc[t] = "appending" /\ Append1(s, e, s)
      /\ \/ Done(t)
         \/ my[t].over # None /\ Goto(t, "superseding") /\ UNCHANGED my
      /\ UNCHANGED <<documents, current, version, approvals, audit, hold, files, aborts>>
      BY DEF Appends
<1>2. /\ my[t] \in Local /\ s \in Snapshots /\ e \in Audited /\ e \in Events
      /\ e = "published" => Recorded(s, "approved")
      /\ my[t].over # None => /\ e = "published" /\ my[t].over \in Snapshots
                              /\ KindOf[my[t].over] = KindOf[s] /\ Recorded(my[t].over, "published")
      /\ Speaks("appending", my[t])
      BY <1>1, MyTyped DEF Speaks, Relies, Events, Local
<1>3. e # "superseded" BY <1>2 DEF Audited
<1>4. /\ Typed' /\ Grows /\ Numbered' /\ Recording' /\ Filed'
      /\ \A b, x \in Snapshots :
           b = s /\ e = "published" /\ Recorded(x, "published") => BothPublished(x, b)'
      <2>1. ASSUME NEW b, b = s
            PROVE  /\ Typed' /\ Grows /\ Numbered' /\ Recording' /\ Filed'
                   /\ \A x \in Snapshots :
                        e = "published" /\ Recorded(x, "published") => BothPublished(x, b)'
            BY <1>1, <1>2, <1>3, <2>1, RecordAppended
      <2>2. QED BY <2>1
<1>5. Threaded'
      <2>1. CASE Done(t) BY <1>4, <2>1, ThreadEnds
      <2>2. CASE my[t].over # None /\ Goto(t, "superseding") /\ UNCHANGED my
            <3>1. Turns(t, "superseding", my[t]) BY <2>2 DEF Goto, Turns, Inv, Threaded
            <3>2. /\ my[t].over \in Snapshots /\ e = "published" /\ KindOf[my[t].over] = KindOf[s]
                  /\ \A x, b : x = my[t].over /\ b = s => BothPublished(x, b)'
                  BY <1>2, <1>4, <2>2
            <3>3. ASSUME pc'[t] = "superseding", my'[t] = my[t] PROVE Knows(t)'
                  BY <1>2, <3>2, <3>3 DEF Knows, Speaks, Relies
            <3>4. QED BY <1>2, <1>4, <3>1, <3>3, ThreadMoves DEF PCs
      <2>3. QED BY <1>1, <2>1, <2>2
<1>6. QED BY <1>4, <1>5 DEF Inv

LEMMA SupersedesStep ==
  ASSUME Inv, NEW t \in Threads, Supersedes(t)
  PROVE  Inv'
<1>1. /\ pc[t] = "superseding" /\ Append1(my[t].over, "superseded", my[t].snap) /\ Done(t)
      /\ UNCHANGED <<documents, current, version, approvals, audit, hold, files, aborts>>
      BY DEF Supersedes
<1>2. /\ my[t].snap \in Snapshots /\ my[t].over \in Snapshots
      /\ KindOf[my[t].snap] = KindOf[my[t].over] /\ BothPublished(my[t].over, my[t].snap)
      BY <1>1, MyTyped DEF Speaks, Relies
<1>3. Typed' /\ Grows /\ Numbered' /\ Recording' /\ Filed'
      <2>1. ASSUME NEW s \in Snapshots, s = my[t].over, NEW b \in Snapshots, b = my[t].snap
            PROVE  Typed' /\ Grows /\ Numbered' /\ Recording' /\ Filed'
            BY <1>1, <1>2, <2>1, RecordAppended DEF Events
      <2>2. QED BY <1>2, <2>1
<1>4. Threaded' BY <1>1, <1>3, ThreadEnds
<1>5. QED BY <1>3, <1>4 DEF Inv

\* A version that nobody has, above versions that are all had, is the highest.
LEMMA RegistersStep ==
  ASSUME Inv, NEW t \in Threads, EnsureRegisters(t)
  PROVE  Inv'
<1> DEFINE s == my[t].snap
           d == KindOf[s]
           n == my[t].next
           R == RevisionsOf(d)
<1>1. /\ pc[t] = "registering" /\ Done(t)
      /\ UNCHANGED <<documents, records, approvals, audit, hold, files, aborts>>
      /\ \/ UNCHANGED <<current, version>>
         \/ /\ ~IsTaken(t) /\ version' = [version EXCEPT ![s] = n]
            /\ current' = [current EXCEPT ![d] = s]
      BY DEF EnsureRegisters
<1>2. CASE UNCHANGED <<current, version>> BY <1>1, <1>2, LooksEnd DEF lifecycle
<1>3. CASE ~IsTaken(t) /\ version' = [version EXCEPT ![s] = n] /\ current' = [current EXCEPT ![d] = s]
      <2>1. /\ s \in Snapshots /\ n \in Nat /\ n > 0 /\ \A m \in 1..(n - 1) : Has(d, m)
            /\ d \in Documents
            BY <1>1, MyTyped, ConstantsAssumption DEF Speaks, Relies, Local
      <2>2. version[s] = 0 /\ ~Has(d, n) BY <1>3 DEF IsTaken, Has
      <2>3. version \in [Snapshots -> Nat] /\ current \in [Documents -> Snapshots \cup {None}]
            BY DEF Inv, Typed
      <2>4. Typed' BY <1>1, <1>3, <2>1 DEF Inv, Typed, files
      <2>5. version'[s] = n /\ \A x \in Snapshots \ {s} : version'[x] = version[x] BY <1>3, <2>1, <2>3
      <2>6. Grows
            <3>1. \A x \in Snapshots : Len(records[x]) \in Nat BY RecordsTyped DEF Inv
            <3>2. QED BY <1>1, <2>2, <2>5, <3>1 DEF Grows, files, IsOld
      <2>7. \A m \in 1..n : \A k : k = d => Has(k, m)'
            <3>1. \A m \in 1..(n - 1) : \A k : k = d => Has(k, m)' BY <2>1, <2>6, HasStays DEF Inv
            <3>2. ASSUME NEW m, m = n, NEW k, k = d PROVE Has(k, m)'
                  BY <2>1, <2>5, <3>2 DEF Has, RevisionsOf
            <3>3. QED BY <2>1, <3>1, <3>2
      <2>8. /\ IsFiniteSet(R) /\ s \notin R
            /\ \A x \in R : x \in Snapshots /\ version[x] \in Nat /\ version[x] < n
            /\ \A x, y \in R : version[x] = version[y] => x = y
            /\ n <= Cardinality(R) + 1
            <3>1. IsFiniteSet(R) /\ s \notin R /\ \A x \in R : x \in Snapshots /\ version[x] \in Nat
                  BY <2>1, <2>2, <2>3 DEF Inv, Numbered, RevisionsOf
            <3>2. ASSUME NEW x \in R PROVE version[x] < n
                  <4>1. \A m \in 1..version[x] : Has(d, m) BY <2>1 DEF Inv, Numbered
                  <4>2. QED BY <2>1, <2>2, <3>1, <4>1
            <3>3. Cardinality(R) \in Nat BY <3>1, FS_CardinalityType
            <3>4. n <= Cardinality(R) + 1
                  <4>1. CASE n = 1 BY <3>3, <4>1
                  <4>2. CASE n # 1
                        <5>1. PICK x \in R : version[x] = n - 1 BY <2>1, <4>2 DEF Has
                        <5>2. version[x] <= Cardinality(R) BY <2>1 DEF Inv, Numbered
                        <5>3. QED BY <2>1, <3>3, <5>1, <5>2
                  <4>3. QED BY <4>1, <4>2
            <3>5. QED BY <2>1, <3>1, <3>2, <3>4 DEF Inv, Numbered
      <2>9. ASSUME NEW k \in Documents, k # d
            PROVE  RevisionsOf(k)' = RevisionsOf(k) /\ \A x \in RevisionsOf(k) : version'[x] = version[x]
            BY <2>1, <2>5, <2>9 DEF RevisionsOf
      <2>10. ASSUME NEW k, k = d PROVE RevisionsOf(k)' = R \cup {s}
            BY <2>1, <2>5, <2>10 DEF RevisionsOf
      <2>11. Numbered'
            <3> SUFFICES ASSUME NEW k \in Documents
                PROVE  /\ IsFiniteSet(RevisionsOf(k)')
                       /\ \A x, y \in RevisionsOf(k)' : version'[x] = version'[y] => x = y
                       /\ \A x \in RevisionsOf(k)' :
                            /\ version'[x] <= Cardinality(RevisionsOf(k)')
                            /\ \A m \in 1..version'[x] : Has(k, m)'
                            /\ current'[k] \in RevisionsOf(k)' /\ version'[x] <= version'[current'[k]]
                BY DEF Numbered
            <3>1. CASE k # d
                  <4>1. current'[k] = current[k] BY <1>3, <2>3, <3>1
                  <4>2. \A m : Has(k, m) => Has(k, m)' BY <2>6, HasStays DEF Inv
                  <4>3. QED BY <2>9, <3>1, <4>1, <4>2 DEF Inv, Numbered
            <3>2. CASE k = d
                  <4>1. RevisionsOf(k)' = R \cup {s} /\ current'[k] = s /\ version'[s] = n
                        BY <1>3, <2>1, <2>3, <2>5, <2>10, <3>2
                  <4>2. \A x \in R : version'[x] = version[x] BY <2>5, <2>8
                  <4>3. IsFiniteSet(R \cup {s}) /\ Cardinality(R \cup {s}) = Cardinality(R) + 1
                        BY <2>8, FS_AddElement
                  <4>4. \A x \in R \cup {s} : version'[x] \in Nat /\ version'[x] <= n
                        BY <2>1, <2>8, <4>1, <4>2
                  <4>5. Cardinality(R) \in Nat BY <2>8, FS_CardinalityType
                  <4>6. \A x, y \in R \cup {s} : version'[x] = version'[y] => x = y
                        BY <2>1, <2>8, <4>1, <4>2
                  <4>7. ASSUME NEW x \in R \cup {s}
                        PROVE  version'[x] <= Cardinality(R \cup {s}) /\ \A m \in 1..version'[x] : Has(k, m)'
                        BY <2>1, <2>7, <2>8, <3>2, <4>3, <4>4, <4>5
                  <4>8. QED BY <4>1, <4>3, <4>4, <4>6, <4>7
            <3>3. QED BY <3>1, <3>2
      <2>12. Threaded' BY <1>1, <2>4, <2>6, ThreadEnds
      <2>13. Recording'
             <3>1. UNCHANGED records BY <1>1
             <3>2. QED BY <3>1, RecordingStays DEF Inv
      <2>14. Filed' BY <1>1 DEF Inv, Filed, IsReady, files
      <2>15. QED BY <2>4, <2>11, <2>12, <2>13, <2>14 DEF Inv
<1>4. QED BY <1>1, <1>2, <1>3
-----------------------------------------------------------------------------
\* What every thread relies on is so, at every place it can be at, and the records, the
\* versions and the files are as they should be.
THEOREM Invariant == Spec => []Inv
<1>1. Inv /\ [Next]_vars => Inv'
      <2> SUFFICES ASSUME Inv, [Next]_vars PROVE Inv' OBVIOUS
      <2>1. ASSUME NEW t \in Threads, Starts(t) PROVE Inv'
            BY <2>1, SweepBeginsStep, SetRetentionStep, FindsStep, ReadsStep, RenderStartsStep DEF Starts
      <2>2. ASSUME NEW t \in Threads, Continues(t) PROVE Inv'
            BY <2>2, OpensStep, ListsStep, RegistersStep, RequestAppendsStep, BindsStep, AuditsStep,
               RecordsApprovalStep, ChecksStep, PublishListsStep, PrecedesStep, AppendsStep, SupersedesStep, CommitsStep,
               PublishesFileStep, SweepLooksStep, SweepJudgesStep, SweepPassesStep, SweepPicksStep,
               UnlinksStep, MarksStep
            DEF Continues
      <2>3. CASE UNCHANGED vars
            <3>1. UNCHANGED <<lifecycle, files, aborts, pc, my>> BY <2>3 DEF vars
            <3>2. Typed' /\ Still BY <3>1, LifecycleTyped DEF Inv, Typed, lifecycle, files
            <3>3. Threaded'
                  <4>1. \A u \in Threads : Knows(u)' BY <3>1, <3>2, StillGrows, ThreadStays DEF Inv
                  <4>2. QED BY <3>1, <4>1 DEF Inv, Threaded
            <3>4. QED BY <3>2, <3>3, StillStep
      <2>4. QED BY <2>1, <2>2, <2>3, RefusesStep, AbortStep, AgesStep DEF Next
<1>2. QED BY <1>1, InitInv, PTL DEF Spec

\* Every variable keeps its type, whatever is interrupted where.
THEOREM TypeCorrect == Spec => []TypeOK
<1>1. Inv => TypeOK BY DEF Inv, Typed, Threaded, TypeOK
<1>2. QED BY <1>1, Invariant, PTL

\* No revision is published that was not approved before: publish reads the state in
\* one transaction and appends in another, but an approval that was there stays.
THEOREM PublicationsWereApproved == Spec => []PublishedWasApproved
<1>1. ASSUME Inv PROVE PublishedWasApproved
      <2>1. \A s \in Snapshots : DOMAIN records[s] = 1..Len(records[s]) BY <1>1, RecordsTyped DEF Inv
      <2>2. QED BY <1>1, <2>1 DEF Inv, Recording, Founded, PublishedWasApproved
<1>2. QED BY <1>1, Invariant, PTL

\* Behind every supersession there are two publications of the document: publish finds
\* one that is there, appends its own and only then the record that supersedes.
THEOREM SupersededAfterPublication == Spec => []SupersededHasSuccessor
<1>1. ASSUME Inv PROVE SupersededHasSuccessor
      <2>1. \A s \in Snapshots : /\ DOMAIN records[s] = 1..Len(records[s])
                                 /\ \A i \in 1..Len(records[s]) : records[s][i].by \in Snapshots
            BY <1>1, RecordsTyped DEF Inv, LifecycleRecord
      <2> SUFFICES ASSUME NEW s \in Snapshots, NEW i \in DOMAIN records[s],
                          records[s][i].event = "superseded", NEW b, b = records[s][i].by
                   PROVE  /\ KindOf[b] = KindOf[s]
                          /\ \E j \in 1..(i - 1), k \in DOMAIN records[b] :
                               /\ records[s][j].event = "published"
                               /\ records[b][k].event = "published"
                               /\ b = s => j # k
          BY DEF SupersededHasSuccessor
      <2>2. i \in 1..Len(records[s]) BY <2>1
      <2>3. b \in Snapshots BY <2>1, <2>2
      <2>4. DOMAIN records[b] = 1..Len(records[b]) BY <2>1, <2>3
      <2>5. Succeeds(b, s, i) BY <1>1, <2>2 DEF Inv, Recording, Founded
      <2>6. QED BY <2>4, <2>5 DEF Succeeds
<1>2. QED BY <1>1, Invariant, PTL

\* The versions of a document are 1, 2, ... although each is numbered from a list that
\* was read before the insert, and one that is taken meanwhile is refused; and it points
\* to the highest, in whatever order requests that numbered theirs come to register them.
THEOREM VersionsOrdered == Spec => []VersionsInOrder
<1>1. ASSUME Inv PROVE VersionsInOrder
      <2>1. \A d \in Documents : \A s \in RevisionsOf(d) : version[s] \in Nat /\ version[s] # 0
            BY <1>1 DEF Inv, Typed, RevisionsOf
      <2>2. \A d \in Documents : Cardinality(RevisionsOf(d)) \in Nat
            BY <1>1, FS_CardinalityType DEF Inv, Numbered
      <2>3. QED BY <1>1, <2>1, <2>2 DEF Inv, Numbered, VersionsInOrder
<1>2. QED BY <1>1, Invariant, PTL

LEMMA OthersKeepTheirs ==
  ASSUME my \in [Threads -> Local], NEW u \in Threads,
         Starts(u) \/ Continues(u) \/ Refuses(u) \/ Abort(u)
  PROVE  \A t \in Threads \ {u} : my'[t] = my[t]
<1>1. CASE Starts(u)
      <2>1. CASE SweepBegins(u) BY <2>1 DEF SweepBegins
      <2>2. CASE \E d \in Documents : SetRetention(u, d) BY <2>2 DEF SetRetention
      <2>3. CASE \E s \in Snapshots : EnsureFinds(u, s) \/ RenderStarts(u, s)
            BY <2>3 DEF EnsureFinds, RenderStarts
      <2>4. CASE \E s \in Snapshots : \/ RequestReads(u, s) \/ DecideReads(u, s, "approved")
                                     \/ DecideReads(u, s, "rejected") \/ PublishReads(u, s)
                                     \/ RetractReads(u, s)
            BY <2>4 DEF RequestReads, DecideReads, PublishReads, RetractReads, Begin
      <2>5. QED BY <1>1, <2>1, <2>2, <2>3, <2>4 DEF Starts
<1>2. CASE Continues(u)
      <2>1. CASE EnsureOpens(u) \/ EnsureLists(u) \/ EnsureRegisters(u) \/ RequestAppends(u)
                   \/ DecideBinds(u) \/ Audits(u) \/ DecideRecords(u)
            BY <2>1 DEF EnsureOpens, EnsureLists, EnsureRegisters, RequestAppends, DecideBinds, Audits,
                        DecideRecords, Done
      <2>2. CASE PublishChecks(u) \/ PublishLists(u) \/ PublishPrecedes(u) \/ Appends(u) \/ Supersedes(u)
            BY <2>2 DEF PublishChecks, PublishLists, PublishPrecedes, Appends, Supersedes, Done
      <2>3. CASE RenderCommits(u) \/ RenderPublishes(u) \/ SweepUnlinks(u) \/ SweepMarks(u)
            BY <2>3 DEF RenderCommits, RenderPublishes, SweepUnlinks, SweepMarks, Done
      <2>4. CASE SweepLooks(u) \/ SweepJudges(u) \/ SweepPasses(u) \/ SweepPicks(u)
            BY <2>4 DEF SweepLooks, SweepJudges, SweepPasses, SweepPicks, Done
      <2>5. QED BY <1>2, <2>1, <2>2, <2>3, <2>4 DEF Continues
<1>3. CASE Refuses(u) \/ Abort(u) BY <1>3 DEF Refuses, Abort, Done
<1>4. QED BY <1>1, <1>2, <1>3

\* A sweep that reads a row which is ready without its file takes it up, because a file
\* goes only while its row is old, and a row that is rendered anew stays as old as it was.
THEOREM LostFilesAreNotPassedOver == Spec => LostFilesAreTakenUp
<1>1. ASSUME Inv, [Next]_vars, NEW t \in Threads, NEW s \in Snapshots,
             pc[t] = "purging", s \in my[t].listed \ my'[t].listed, IsLost(s)
      PROVE  pc'[t] = "unlinking" \/ aborts' # aborts
      <2>1. IsDue(s) BY <1>1 DEF Inv, Filed, IsLost, IsDue
      <2>2. pc \in [Threads -> PCs] /\ my \in [Threads -> Local] /\ aborts \in Nat
            BY <1>1, ConstantsAssumption DEF Inv, Threaded, Typed
      <2>3. my' # my BY <1>1
      <2>4. \E u \in Threads : Starts(u) \/ Continues(u) \/ Refuses(u) \/ Abort(u)
            BY <1>1, <2>3 DEF Next, Ages, vars
      <2>5. Starts(t) \/ Continues(t) \/ Refuses(t) \/ Abort(t) BY <1>1, <2>2, <2>4, OthersKeepTheirs
      <2>6. CASE SweepPicks(t)
            <3>1. PICK x \in my[t].listed :
                    /\ my' = [my EXCEPT ![t].listed = @ \ {x}, ![t].snap = x, ![t].row = rows[x]]
                    /\ IF IsDue(x) THEN Goto(t, "unlinking") ELSE UNCHANGED pc
                  BY <1>1, <2>6 DEF SweepPicks
            <3>2. my'[t].listed = my[t].listed \ {x} BY <2>2, <3>1 DEF Local
            <3>3. x = s BY <1>1, <3>2
            <3>4. QED BY <2>1, <2>2, <3>1, <3>3 DEF Goto
      <2>7. CASE Abort(t) BY <2>2, <2>7 DEF Abort
      <2>8. ~Starts(t) /\ ~Refuses(t)
            BY <1>1 DEF Starts, SweepBegins, SetRetention, EnsureFinds, RequestReads, DecideReads,
                        PublishReads, RetractReads, Begin, RenderStarts, Refuses
      <2>9. Continues(t) => SweepPicks(t)
            <3>1. /\ ~EnsureOpens(t) /\ ~EnsureLists(t) /\ ~EnsureRegisters(t) /\ ~RequestAppends(t)
                  /\ ~DecideBinds(t) /\ ~Audits(t) /\ ~DecideRecords(t)
                  BY <1>1 DEF EnsureOpens, EnsureLists, EnsureRegisters, RequestAppends, DecideBinds,
                              Audits, DecideRecords
            <3>2. /\ ~PublishChecks(t) /\ ~PublishLists(t) /\ ~PublishPrecedes(t) /\ ~Appends(t)
                  /\ ~Supersedes(t) /\ ~RenderCommits(t) /\ ~RenderPublishes(t)
                  BY <1>1 DEF PublishChecks, PublishLists, PublishPrecedes, Appends, Supersedes,
                              RenderCommits, RenderPublishes
            <3>3. ~SweepLooks(t) /\ ~SweepJudges(t) /\ ~SweepPasses(t) /\ ~SweepUnlinks(t) /\ ~SweepMarks(t)
                  BY <1>1 DEF SweepLooks, SweepJudges, SweepPasses, SweepUnlinks, SweepMarks
            <3>4. QED BY <3>1, <3>2, <3>3 DEF Continues
      <2>10. QED BY <2>5, <2>6, <2>7, <2>8, <2>9
<1>2. Inv /\ [Next]_vars =>
        [\A t \in Threads, s \in Snapshots :
           (pc[t] = "purging" /\ s \in my[t].listed \ my'[t].listed /\ IsLost(s))
             => pc'[t] = "unlinking" \/ aborts' # aborts]_vars
      BY <1>1
<1>3. QED BY <1>2, Invariant, PTL DEF Spec, LostFilesAreTakenUp
-----------------------------------------------------------------------------
(* Every record of a decision, a publication or a retraction has its audit *)
(* record, and every decision its approval: counted with the threads that  *)
(* have written the one and not yet the other.                             *)

Waiting(s, e, places) == {t \in Threads : pc[t] \in places /\ my[t].snap = s /\ my[t].event = e}

PastAudit == {"recording", "appending"}

PastApproval == {"appending"}

Approvals(s, d) == Cardinality({i \in DOMAIN approvals[s] : approvals[s][i].decision = d})

Counted ==
  \A s \in Snapshots :
    /\ \A e \in Audited :
         /\ IsFiniteSet(Waiting(s, e, PastAudit))
         /\ HowMany(s, e) + Cardinality(Waiting(s, e, PastAudit)) <= audit[s][e]
    /\ \A d \in Decisions :
         /\ IsFiniteSet(Waiting(s, d, PastApproval))
         /\ HowMany(s, d) + Cardinality(Waiting(s, d, PastApproval)) <= Approvals(s, d)

LEMMA CountTyped ==
  ASSUME NEW S, NEW q \in Seq(S), NEW P
  PROVE  /\ IsFiniteSet({i \in DOMAIN q : q[i] \in P})
         /\ Cardinality({i \in DOMAIN q : q[i] \in P}) \in Nat
<1>1. Len(q) \in Nat /\ DOMAIN q = 1..Len(q) BY LenProperties
<1>2. IsFiniteSet(1..Len(q)) BY <1>1, FS_Interval
<1>3. {i \in DOMAIN q : q[i] \in P} \subseteq 1..Len(q) BY <1>1
<1>4. IsFiniteSet({i \in DOMAIN q : q[i] \in P}) BY <1>2, <1>3, FS_Subset
<1>5. QED BY <1>4, FS_CardinalityType

\* Appending an element counts one more of what it is, and no more of anything else.
LEMMA CountAppended ==
  ASSUME NEW S, NEW q \in Seq(S), NEW r \in S, NEW P
  PROVE  Cardinality({i \in DOMAIN Append(q, r) : Append(q, r)[i] \in P})
           = Cardinality({i \in DOMAIN q : q[i] \in P}) + (IF r \in P THEN 1 ELSE 0)
<1> DEFINE n == Len(q)
           a == Append(q, r)
           old == {i \in DOMAIN q : q[i] \in P}
           new == {i \in DOMAIN a : a[i] \in P}
<1>1. /\ n \in Nat /\ DOMAIN q = 1..n
      /\ a \in Seq(S) /\ Len(a) = n + 1 /\ a[n + 1] = r /\ \A i \in 1..n : a[i] = q[i]
      BY AppendProperties, LenProperties
<1>2. DOMAIN a = 1..(n + 1) BY <1>1, LenProperties
<1> HIDE DEF n, a
<1>3. IsFiniteSet(old) /\ Cardinality(old) \in Nat BY CountTyped
<1>4. CASE r \in P
      <2>1. new = old \cup {n + 1} /\ n + 1 \notin old BY <1>1, <1>2, <1>4
      <2>2. Cardinality(new) = Cardinality(old) + 1 BY <1>3, <2>1, FS_AddElement
      <2>3. QED BY <1>3, <1>4, <2>2 DEF a
<1>5. CASE r \notin P
      <2>1. new = old BY <1>1, <1>2, <1>5
      <2> HIDE DEF old, new
      <2>2. Cardinality(new) = Cardinality(old) + 0 BY <1>3, <2>1
      <2>3. QED BY <1>3, <1>5, <2>2 DEF a, old, new
<1>6. QED BY <1>4, <1>5

LEMMA RecordsCounted ==
  ASSUME Inv, NEW s \in Snapshots, NEW event \in Events, NEW by \in Snapshots, Append1(s, event, by),
         NEW x \in Snapshots, NEW e
  PROVE  /\ HowMany(x, e) \in Nat
         /\ HowMany(x, e)' = HowMany(x, e) + (IF x = s /\ e = event THEN 1 ELSE 0)
<1> DEFINE r == [event |-> event, by |-> by]
           P == {y \in LifecycleRecord : y.event = e}
<1>1. r \in LifecycleRecord /\ (r \in P <=> e = event) BY DEF LifecycleRecord
<1>0. \A y \in LifecycleRecord : y \in P <=> y.event = e OBVIOUS
<1> HIDE DEF r, P
<1>2. /\ records[x] \in Seq(LifecycleRecord)
      /\ \A i \in DOMAIN records[x] : records[x][i] \in LifecycleRecord
      BY RecordsTyped DEF Inv
<1>3. {i \in DOMAIN records[x] : records[x][i].event = e} = {i \in DOMAIN records[x] : records[x][i] \in P}
      BY <1>0, <1>2
<1>4. HowMany(x, e) = Cardinality({i \in DOMAIN records[x] : records[x][i] \in P}) BY <1>3 DEF HowMany
<1>5. HowMany(x, e) \in Nat
      <2>1. Cardinality({i \in DOMAIN records[x] : records[x][i] \in P}) \in Nat
            BY <1>2, CountTyped
      <2>2. QED BY <1>4, <2>1
<1>6. CASE x # s
      <2>1. records'[x] = records[x] BY <1>6 DEF Append1, Inv, Typed
      <2>2. QED BY <1>5, <1>6, <2>1 DEF HowMany
<1>7. CASE x = s
      <2> DEFINE a == Append(records[x], r)
      <2>1. records'[x] = a BY <1>7 DEF Append1, Inv, Typed, r
      <2>2. /\ a \in Seq(LifecycleRecord) /\ DOMAIN a = 1..Len(a)
            /\ \A i \in 1..Len(a) : a[i] \in LifecycleRecord
            <3>1. a \in Seq(LifecycleRecord) BY <1>1, <1>2, AppendProperties
            <3> HIDE DEF a
            <3>2. QED BY <3>1, LenProperties, ElementOfSeq
      <2>3. {i \in DOMAIN a : a[i].event = e} = {i \in DOMAIN a : a[i] \in P}
            <3> HIDE DEF a
            <3>1. QED BY <1>0, <2>2
      <2>4. HowMany(x, e)' = Cardinality({i \in DOMAIN a : a[i] \in P}) BY <2>1, <2>3 DEF HowMany
      <2>5. Cardinality({i \in DOMAIN a : a[i] \in P})
              = Cardinality({i \in DOMAIN records[x] : records[x][i] \in P}) + (IF r \in P THEN 1 ELSE 0)
            BY <1>1, <1>2, CountAppended
      <2>6. QED BY <1>1, <1>4, <1>5, <1>7, <2>4, <2>5
<1>8. QED BY <1>6, <1>7

LEMMA HowManyTyped ==
  ASSUME Inv, NEW x \in Snapshots, NEW e
  PROVE  HowMany(x, e) \in Nat
<1> DEFINE P == {y \in LifecycleRecord : y.event = e}
<1>1. \A y \in LifecycleRecord : y \in P <=> y.event = e OBVIOUS
<1> HIDE DEF P
<1>2. /\ records[x] \in Seq(LifecycleRecord)
      /\ \A i \in DOMAIN records[x] : records[x][i] \in LifecycleRecord
      BY RecordsTyped DEF Inv
<1>3. {i \in DOMAIN records[x] : records[x][i].event = e} = {i \in DOMAIN records[x] : records[x][i] \in P}
      BY <1>1, <1>2
<1>4. Cardinality({i \in DOMAIN records[x] : records[x][i] \in P}) \in Nat BY <1>2, CountTyped
<1>5. QED BY <1>3, <1>4 DEF HowMany

\* The approvals of a decision, as elements of a set, so that they can be counted.
LEMMA ApprovalsAre ==
  ASSUME NEW q \in Seq(Approval), NEW d
  PROVE  {i \in DOMAIN q : q[i].decision = d} = {i \in DOMAIN q : q[i] \in {y \in Approval : y.decision = d}}
<1>1. DOMAIN q = 1..Len(q) /\ \A i \in 1..Len(q) : q[i] \in Approval BY LenProperties, ElementOfSeq
<1>2. QED BY <1>1

LEMMA ApprovalsTyped ==
  ASSUME Inv, NEW x \in Snapshots, NEW d
  PROVE  Approvals(x, d) \in Nat
<1> DEFINE P == {y \in Approval : y.decision = d}
<1>1. approvals[x] \in Seq(Approval) BY DEF Inv, Typed
<1>2. Approvals(x, d) = Cardinality({i \in DOMAIN approvals[x] : approvals[x][i] \in P})
      BY <1>1, ApprovalsAre DEF Approvals
<1> HIDE DEF P
<1>3. QED BY <1>1, <1>2, CountTyped

LEMMA ApprovalsCounted ==
  ASSUME Inv, NEW s \in Snapshots, NEW a \in Approval,
         approvals'[s] = Append(approvals[s], a),
         \A x \in Snapshots \ {s} : approvals'[x] = approvals[x],
         NEW x \in Snapshots, NEW d
  PROVE  Approvals(x, d)' = Approvals(x, d) + (IF x = s /\ d = a.decision THEN 1 ELSE 0)
<1> DEFINE P == {y \in Approval : y.decision = d}
<1>1. a \in Approval /\ (a \in P <=> d = a.decision) OBVIOUS
<1>2. approvals[x] \in Seq(Approval) /\ approvals \in [Snapshots -> Seq(Approval)] BY DEF Inv, Typed
<1>3. Approvals(x, d) \in Nat BY ApprovalsTyped
<1>4. CASE x # s
      <2>1. approvals'[x] = approvals[x] BY <1>2, <1>4
      <2>2. QED BY <1>3, <1>4, <2>1 DEF Approvals
<1>5. CASE x = s
      <2> DEFINE q == Append(approvals[x], a)
      <2>1. approvals'[x] = q BY <1>2, <1>5
      <2>2. q \in Seq(Approval) BY <1>2, AppendProperties
      <2> HIDE DEF q
      <2>3. Approvals(x, d)' = Cardinality({i \in DOMAIN q : q[i] \in P})
            <3>1. Approvals(x, d)' = Cardinality({i \in DOMAIN q : q[i].decision = d})
                  BY <2>1 DEF Approvals
            <3>2. {i \in DOMAIN q : q[i].decision = d} = {i \in DOMAIN q : q[i] \in P}
                  BY <2>2, ApprovalsAre
            <3>3. QED BY <3>1, <3>2
      <2>4. Approvals(x, d) = Cardinality({i \in DOMAIN approvals[x] : approvals[x][i] \in P})
            <3>1. {i \in DOMAIN approvals[x] : approvals[x][i].decision = d}
                    = {i \in DOMAIN approvals[x] : approvals[x][i] \in P}
                  BY <1>2, ApprovalsAre
            <3>2. QED BY <3>1 DEF Approvals
      <2> HIDE DEF P
      <2>5. Cardinality({i \in DOMAIN q : q[i] \in P})
              = Cardinality({i \in DOMAIN approvals[x] : approvals[x][i] \in P}) + (IF a \in P THEN 1 ELSE 0)
            <3>1. approvals[x] \in Seq(Approval) /\ a \in Approval BY <1>2
            <3>2. QED BY <3>1, CountAppended DEF q
      <2>6. QED BY <1>1, <1>5, <2>3, <2>4, <2>5
<1>6. QED BY <1>4, <1>5

\* Nobody has written a record of one kind, and nobody comes to wait for the other.
LEMMA CountQuiet ==
  ASSUME Inv, Counted, UNCHANGED <<approvals, audit>>,
         \A x \in Snapshots, e \in Audited : HowMany(x, e)' = HowMany(x, e),
         \A u \in Threads : (pc'[u] = pc[u] /\ my'[u] = my[u]) \/ pc'[u] \notin PastAudit
  PROVE  Counted'
<1>1. ASSUME NEW x, NEW e, NEW places, places \subseteq PastAudit
      PROVE  Waiting(x, e, places)' \subseteq Waiting(x, e, places)
      BY <1>1 DEF Waiting
<1>2. ASSUME NEW x, NEW e, NEW places, places \subseteq PastAudit, IsFiniteSet(Waiting(x, e, places))
      PROVE  /\ IsFiniteSet(Waiting(x, e, places)')
             /\ Cardinality(Waiting(x, e, places)') \in Nat /\ Cardinality(Waiting(x, e, places)) \in Nat
             /\ Cardinality(Waiting(x, e, places)') <= Cardinality(Waiting(x, e, places))
      BY <1>1, <1>2, FS_Subset, FS_CardinalityType
<1>3. ASSUME NEW x \in Snapshots, NEW e \in Audited
      PROVE  /\ IsFiniteSet(Waiting(x, e, PastAudit)')
             /\ HowMany(x, e)' + Cardinality(Waiting(x, e, PastAudit)') <= audit'[x][e]
      <2>1. HowMany(x, e) \in Nat /\ audit[x][e] \in Nat BY HowManyTyped DEF Inv, Typed
      <2>2. QED BY <1>2, <2>1 DEF Counted
<1>4. ASSUME NEW x \in Snapshots, NEW d \in Decisions
      PROVE  /\ IsFiniteSet(Waiting(x, d, PastApproval)')
             /\ HowMany(x, d)' + Cardinality(Waiting(x, d, PastApproval)') <= Approvals(x, d)'
      <2>1. HowMany(x, d) \in Nat /\ Approvals(x, d) \in Nat BY HowManyTyped, ApprovalsTyped
      <2>2. Approvals(x, d)' = Approvals(x, d) BY DEF Approvals
      <2>3. d \in Audited /\ PastApproval \subseteq PastAudit
            BY DEF Decisions, Audited, PastApproval, PastAudit
      <2>4. QED BY <1>2, <2>1, <2>2, <2>3 DEF Counted
<1>5. QED BY <1>3, <1>4 DEF Counted

\* The thread comes to wait for the record of s and e, which one more now owes.
LEMMA WaitingJoined ==
  ASSUME NEW t \in Threads, NEW s, NEW e, NEW places, IsFiniteSet(Waiting(s, e, places)),
         t \notin Waiting(s, e, places), Waiting(s, e, places)' \subseteq Waiting(s, e, places) \cup {t}
  PROVE  /\ IsFiniteSet(Waiting(s, e, places)')
         /\ Cardinality(Waiting(s, e, places)') \in Nat /\ Cardinality(Waiting(s, e, places)) \in Nat
         /\ Cardinality(Waiting(s, e, places)') <= Cardinality(Waiting(s, e, places)) + 1
<1>1. /\ IsFiniteSet(Waiting(s, e, places) \cup {t})
      /\ Cardinality(Waiting(s, e, places) \cup {t}) = Cardinality(Waiting(s, e, places)) + 1
      BY FS_AddElement
<1>2. QED BY <1>1, FS_Subset, FS_CardinalityType

LEMMA WaitingLeft ==
  ASSUME NEW t \in Threads, NEW s, NEW e, NEW places, IsFiniteSet(Waiting(s, e, places)),
         t \in Waiting(s, e, places), Waiting(s, e, places)' \subseteq Waiting(s, e, places) \ {t}
  PROVE  /\ IsFiniteSet(Waiting(s, e, places)')
         /\ Cardinality(Waiting(s, e, places)') \in Nat /\ Cardinality(Waiting(s, e, places)) \in Nat
         /\ Cardinality(Waiting(s, e, places)') + 1 <= Cardinality(Waiting(s, e, places))
<1>1. /\ IsFiniteSet(Waiting(s, e, places) \ {t})
      /\ Cardinality(Waiting(s, e, places) \ {t}) = Cardinality(Waiting(s, e, places)) - 1
      BY FS_RemoveElement
<1>2. QED BY <1>1, FS_Subset, FS_CardinalityType

LEMMA WaitingKept ==
  ASSUME NEW s, NEW e, NEW places, IsFiniteSet(Waiting(s, e, places)),
         Waiting(s, e, places)' \subseteq Waiting(s, e, places)
  PROVE  /\ IsFiniteSet(Waiting(s, e, places)')
         /\ Cardinality(Waiting(s, e, places)') \in Nat /\ Cardinality(Waiting(s, e, places)) \in Nat
         /\ Cardinality(Waiting(s, e, places)') <= Cardinality(Waiting(s, e, places))
BY FS_Subset, FS_CardinalityType

\* An audit is written before the thread owes a record for it.
LEMMA CountAudits ==
  ASSUME Inv, Counted, NEW t \in Threads, Audits(t), ~Done(t)
  PROVE  Counted'
<1> DEFINE s == my[t].snap
           e == my[t].event
           at == IF e \in {"approved", "rejected"} THEN "recording" ELSE "appending"
<1>1. /\ pc[t] = "auditing" /\ audit' = [audit EXCEPT ![s][e] = @ + 1] /\ Goto(t, at)
      /\ UNCHANGED <<records, approvals, my>>
      BY DEF Audits
<1>2. s \in Snapshots /\ e \in Audited BY <1>1, MyTyped DEF Speaks
<1>3. audit \in [Snapshots -> [Audited -> Nat]] BY DEF Inv, Typed
<1>4. /\ pc'[t] = at /\ \A u \in Threads \ {t} : pc'[u] = pc[u]
      BY <1>1 DEF Goto, Inv, Threaded
<1>5. ASSUME NEW x \in Snapshots, NEW y \in Audited
      PROVE  audit'[x][y] = audit[x][y] + (IF x = s /\ y = e THEN 1 ELSE 0)
      <2>1. audit'[s] = [audit[s] EXCEPT ![e] = @ + 1] BY <1>1, <1>2, <1>3
      <2>2. x # s => audit'[x] = audit[x] BY <1>1, <1>3
      <2>3. audit[s] \in [Audited -> Nat] /\ audit[x] \in [Audited -> Nat] BY <1>2, <1>3
      <2>4. CASE x # s BY <2>2, <2>3, <2>4
      <2>5. CASE x = s BY <1>2, <2>1, <2>3, <2>5
      <2>6. QED BY <2>4, <2>5
<1>6. \A x \in Snapshots : \A y : HowMany(x, y) \in Nat /\ HowMany(x, y)' = HowMany(x, y)
      BY <1>1, HowManyTyped DEF HowMany
<1>7. \A x \in Snapshots : \A d : Approvals(x, d) \in Nat /\ Approvals(x, d)' = Approvals(x, d)
      BY <1>1, ApprovalsTyped DEF Approvals
<1>8. ASSUME NEW x \in Snapshots, NEW y \in Audited
      PROVE  /\ IsFiniteSet(Waiting(x, y, PastAudit)')
             /\ HowMany(x, y)' + Cardinality(Waiting(x, y, PastAudit)') <= audit'[x][y]
      <2>1. /\ IsFiniteSet(Waiting(x, y, PastAudit)) /\ audit[x][y] \in Nat
            /\ HowMany(x, y) + Cardinality(Waiting(x, y, PastAudit)) <= audit[x][y]
            BY <1>3 DEF Counted
      <2>2. CASE x = s /\ y = e
            <3>1. t \notin Waiting(x, y, PastAudit) BY <1>1 DEF Waiting, PastAudit
            <3>2. Waiting(x, y, PastAudit)' \subseteq Waiting(x, y, PastAudit) \cup {t}
                  BY <1>1, <1>4 DEF Waiting
            <3>3. QED BY <1>5, <1>6, <2>1, <2>2, <3>1, <3>2, WaitingJoined
      <2>3. CASE ~(x = s /\ y = e)
            <3>1. Waiting(x, y, PastAudit)' \subseteq Waiting(x, y, PastAudit)
                  BY <1>1, <1>4, <2>3 DEF Waiting
            <3>2. QED BY <1>5, <1>6, <2>1, <2>3, <3>1, WaitingKept
      <2>4. QED BY <2>2, <2>3
<1>9. ASSUME NEW x \in Snapshots, NEW d \in Decisions
      PROVE  /\ IsFiniteSet(Waiting(x, d, PastApproval)')
             /\ HowMany(x, d)' + Cardinality(Waiting(x, d, PastApproval)') <= Approvals(x, d)'
      <2>1. /\ IsFiniteSet(Waiting(x, d, PastApproval))
            /\ HowMany(x, d) + Cardinality(Waiting(x, d, PastApproval)) <= Approvals(x, d)
            BY DEF Counted
      <2>2. Waiting(x, d, PastApproval)' \subseteq Waiting(x, d, PastApproval)
            BY <1>1, <1>4 DEF Waiting, PastApproval, Decisions
      <2>3. QED BY <1>6, <1>7, <2>1, <2>2, WaitingKept
<1>10. QED BY <1>8, <1>9 DEF Counted

\* An approval is recorded before the thread owes the event of it.
LEMMA CountDecides ==
  ASSUME Inv, Counted, NEW t \in Threads, DecideRecords(t)
  PROVE  Counted'
<1> DEFINE s == my[t].snap
           e == my[t].event
           a == [decision |-> e, form |-> my[t].form]
<1>1. /\ pc[t] = "recording" /\ approvals' = [approvals EXCEPT ![s] = Append(@, a)]
      /\ Goto(t, "appending") /\ UNCHANGED <<records, audit, my>>
      BY DEF DecideRecords
<1>2. my[t] \in Local /\ s \in Snapshots /\ e \in Decisions BY <1>1, MyTyped DEF Speaks
<1>3. a \in Approval /\ a.decision = e BY <1>2 DEF Local, Approval, Decisions
<1> HIDE DEF a
<1>4. pc'[t] = "appending" /\ \A u \in Threads \ {t} : pc'[u] = pc[u]
      BY <1>1 DEF Goto, Inv, Threaded
<1>5. \A x \in Snapshots : \A y : HowMany(x, y) \in Nat /\ HowMany(x, y)' = HowMany(x, y)
      BY <1>1, HowManyTyped DEF HowMany
<1>6. ASSUME NEW x \in Snapshots, NEW y \in Audited
      PROVE  /\ IsFiniteSet(Waiting(x, y, PastAudit)')
             /\ HowMany(x, y)' + Cardinality(Waiting(x, y, PastAudit)') <= audit'[x][y]
      <2>1. /\ IsFiniteSet(Waiting(x, y, PastAudit)) /\ audit[x][y] \in Nat
            /\ HowMany(x, y) + Cardinality(Waiting(x, y, PastAudit)) <= audit[x][y]
            BY DEF Counted, Inv, Typed
      <2>2. Waiting(x, y, PastAudit)' \subseteq Waiting(x, y, PastAudit)
            BY <1>1, <1>4 DEF Waiting, PastAudit
      <2>3. audit'[x][y] = audit[x][y] BY <1>1
      <2>4. QED BY <1>5, <2>1, <2>2, <2>3, WaitingKept
<1>7. ASSUME NEW x \in Snapshots, NEW d \in Decisions
      PROVE  /\ IsFiniteSet(Waiting(x, d, PastApproval)')
             /\ HowMany(x, d)' + Cardinality(Waiting(x, d, PastApproval)') <= Approvals(x, d)'
      <2>1. /\ IsFiniteSet(Waiting(x, d, PastApproval)) /\ Approvals(x, d) \in Nat
            /\ HowMany(x, d) + Cardinality(Waiting(x, d, PastApproval)) <= Approvals(x, d)
            BY ApprovalsTyped DEF Counted
      <2>2. Approvals(x, d)' = Approvals(x, d) + (IF x = s /\ d = e THEN 1 ELSE 0)
            <3>1. /\ s \in Snapshots /\ approvals'[s] = Append(approvals[s], a)
                  /\ \A z \in Snapshots \ {s} : approvals'[z] = approvals[z]
                  BY <1>1, <1>2 DEF Inv, Typed
            <3>2. Approvals(x, d)' = Approvals(x, d) + (IF x = s /\ d = a.decision THEN 1 ELSE 0)
                  BY <1>3, <3>1, ApprovalsCounted
            <3>3. QED BY <1>3, <3>2
      <2>3. CASE x = s /\ d = e
            <3>1. t \notin Waiting(x, d, PastApproval) BY <1>1 DEF Waiting, PastApproval
            <3>2. Waiting(x, d, PastApproval)' \subseteq Waiting(x, d, PastApproval) \cup {t}
                  BY <1>1, <1>4 DEF Waiting
            <3>3. QED BY <1>5, <2>1, <2>2, <2>3, <3>1, <3>2, WaitingJoined
      <2>4. CASE ~(x = s /\ d = e)
            <3>1. Waiting(x, d, PastApproval)' \subseteq Waiting(x, d, PastApproval)
                  BY <1>1, <1>4, <2>4 DEF Waiting
            <3>2. QED BY <1>5, <2>1, <2>2, <2>4, <3>1, WaitingKept
      <2>5. QED BY <2>3, <2>4
<1>8. QED BY <1>6, <1>7 DEF Counted

\* The record of the event is what the thread owed.
LEMMA CountAppends ==
  ASSUME Inv, Counted, NEW t \in Threads, Appends(t)
  PROVE  Counted'
<1> DEFINE s == my[t].snap
           e == my[t].event
<1>1. /\ pc[t] = "appending" /\ Append1(s, e, s) /\ UNCHANGED <<approvals, audit>>
      /\ Done(t) \/ (Goto(t, "superseding") /\ UNCHANGED my)
      BY DEF Appends
<1>2. s \in Snapshots /\ e \in Audited /\ e \in Events BY <1>1, MyTyped DEF Speaks, Events
<1>3. /\ pc'[t] \notin PastAudit /\ pc'[t] \notin PastApproval
      /\ \A u \in Threads \ {t} : pc'[u] = pc[u] /\ my'[u] = my[u]
      BY <1>1 DEF Goto, Done, Inv, Threaded, PastAudit, PastApproval
<1>4. ASSUME NEW x \in Snapshots, NEW y
      PROVE  /\ HowMany(x, y) \in Nat
             /\ HowMany(x, y)' = HowMany(x, y) + (IF x = s /\ y = e THEN 1 ELSE 0)
      BY <1>1, <1>2, RecordsCounted
<1>5. ASSUME NEW x, NEW y, NEW places, "appending" \in places, pc'[t] \notin places
      PROVE  /\ Waiting(x, y, places)' \subseteq Waiting(x, y, places) \ {t}
             /\ x = s /\ y = e => t \in Waiting(x, y, places)
      BY <1>1, <1>3, <1>5 DEF Waiting
<1>6. ASSUME NEW x \in Snapshots, NEW y \in Audited
      PROVE  /\ IsFiniteSet(Waiting(x, y, PastAudit)')
             /\ HowMany(x, y)' + Cardinality(Waiting(x, y, PastAudit)') <= audit'[x][y]
      <2>1. /\ IsFiniteSet(Waiting(x, y, PastAudit)) /\ audit[x][y] \in Nat /\ audit'[x][y] = audit[x][y]
            /\ HowMany(x, y) + Cardinality(Waiting(x, y, PastAudit)) <= audit[x][y]
            BY <1>1 DEF Counted, Inv, Typed
      <2>2. /\ Waiting(x, y, PastAudit)' \subseteq Waiting(x, y, PastAudit) \ {t}
            /\ x = s /\ y = e => t \in Waiting(x, y, PastAudit)
            BY <1>3, <1>5 DEF PastAudit
      <2>3. CASE x = s /\ y = e BY <1>4, <2>1, <2>2, <2>3, WaitingLeft
      <2>4. CASE ~(x = s /\ y = e)
            <3>1. Waiting(x, y, PastAudit)' \subseteq Waiting(x, y, PastAudit) BY <2>2
            <3>2. QED BY <1>4, <2>1, <2>4, <3>1, WaitingKept
      <2>5. QED BY <2>3, <2>4
<1>7. ASSUME NEW x \in Snapshots, NEW d \in Decisions
      PROVE  /\ IsFiniteSet(Waiting(x, d, PastApproval)')
             /\ HowMany(x, d)' + Cardinality(Waiting(x, d, PastApproval)') <= Approvals(x, d)'
      <2>1. /\ IsFiniteSet(Waiting(x, d, PastApproval)) /\ Approvals(x, d) \in Nat
            /\ HowMany(x, d) + Cardinality(Waiting(x, d, PastApproval)) <= Approvals(x, d)
            BY ApprovalsTyped DEF Counted
      <2>2. Approvals(x, d)' = Approvals(x, d) BY <1>1 DEF Approvals
      <2>3. /\ Waiting(x, d, PastApproval)' \subseteq Waiting(x, d, PastApproval) \ {t}
            /\ x = s /\ d = e => t \in Waiting(x, d, PastApproval)
            BY <1>3, <1>5 DEF PastApproval
      <2>4. CASE x = s /\ d = e BY <1>4, <2>1, <2>2, <2>3, <2>4, WaitingLeft
      <2>5. CASE ~(x = s /\ d = e)
            <3>1. Waiting(x, d, PastApproval)' \subseteq Waiting(x, d, PastApproval) BY <2>3
            <3>2. QED BY <1>4, <2>1, <2>2, <2>5, <3>1, WaitingKept
      <2>6. QED BY <2>4, <2>5
<1>8. QED BY <1>6, <1>7 DEF Counted

\* A request and a succession are records that nobody counts.
LEMMA CountUncounted ==
  ASSUME Inv, Counted, NEW t \in Threads, RequestAppends(t) \/ Supersedes(t)
  PROVE  Counted'
<1>1. PICK s \in Snapshots, event \in Events \ Audited : Append1(s, event, my[t].snap)
      <2>1. CASE RequestAppends(t)
            <3>1. my[t].snap \in Snapshots /\ Append1(my[t].snap, "requested", my[t].snap)
                  BY <2>1, MyTyped DEF RequestAppends, Speaks
            <3>2. QED BY <3>1 DEF Events, Audited
      <2>2. CASE Supersedes(t)
            <3>1. my[t].over \in Snapshots /\ Append1(my[t].over, "superseded", my[t].snap)
                  BY <2>2, MyTyped DEF Supersedes, Speaks
            <3>2. QED BY <3>1 DEF Events, Audited
      <2>3. QED BY <2>1, <2>2
<1>2. my[t].snap \in Snapshots BY MyTyped DEF RequestAppends, Supersedes, Speaks
<1>3. ASSUME NEW x \in Snapshots, NEW e \in Audited PROVE HowMany(x, e)' = HowMany(x, e)
      <2>1. /\ HowMany(x, e) \in Nat
            /\ HowMany(x, e)' = HowMany(x, e) + (IF x = s /\ e = event THEN 1 ELSE 0)
            BY <1>1, <1>2, RecordsCounted
      <2>2. QED BY <2>1
<1>4. Done(t) /\ UNCHANGED <<approvals, audit>> BY DEF RequestAppends, Supersedes
<1>5. \A u \in Threads : (pc'[u] = pc[u] /\ my'[u] = my[u]) \/ pc'[u] \notin PastAudit
      BY <1>4 DEF Done, Goto, Inv, Threaded, PastAudit
<1>6. QED BY <1>3, <1>4, <1>5, CountQuiet

\* The other handlers write none of the records and end up nowhere they would owe one.
LEMMA CountLooks ==
  ASSUME Inv, Counted, UNCHANGED <<records, approvals, audit>>,
         \A u \in Threads : (pc'[u] = pc[u] /\ my'[u] = my[u]) \/ pc'[u] \notin PastAudit
  PROVE  Counted'
<1>1. \A x \in Snapshots, e \in Audited : HowMany(x, e)' = HowMany(x, e) BY DEF HowMany
<1>2. QED BY <1>1, CountQuiet

LEMMA CountEnds ==
  ASSUME Inv, Counted, NEW t \in Threads, Done(t), UNCHANGED <<records, approvals, audit>>
  PROVE  Counted'
<1>1. \A u \in Threads : (pc'[u] = pc[u] /\ my'[u] = my[u]) \/ pc'[u] \notin PastAudit
      BY DEF Done, Goto, Inv, Threaded, PastAudit
<1>2. QED BY <1>1, CountLooks

LEMMA CountStarts ==
  ASSUME Inv, Counted, NEW t \in Threads, Starts(t)
  PROVE  Counted'
<1>1. UNCHANGED <<records, approvals, audit>>
      BY DEF Starts, lifecycle, SweepBegins, SetRetention, EnsureFinds, RequestReads, DecideReads,
             PublishReads, RetractReads, RenderStarts, Begin
<1>2. UNCHANGED <<pc, my>> \/ \E at \in PCs \ PastAudit : Goto(t, at)
      <2>1. ASSUME NEW d \in Documents, SetRetention(t, d) PROVE UNCHANGED <<pc, my>>
            BY <2>1 DEF SetRetention
      <2>2. ASSUME SweepBegins(t) PROVE Goto(t, "sweeping") BY <2>2 DEF SweepBegins
      <2>3. ASSUME NEW s \in Snapshots, EnsureFinds(t, s)
            PROVE  Goto(t, "opening") \/ Goto(t, "versioning")
            BY <2>3 DEF EnsureFinds
      <2>4. ASSUME NEW s \in Snapshots, RenderStarts(t, s) PROVE Goto(t, "committing")
            BY <2>4 DEF RenderStarts
      <2>5. ASSUME NEW s \in Snapshots, NEW event, NEW at, Begin(t, s, event, at) PROVE Goto(t, at)
            BY <2>5 DEF Begin
      <2>6. ASSUME NEW s \in Snapshots,
                   \/ RequestReads(t, s) \/ DecideReads(t, s, "approved") \/ DecideReads(t, s, "rejected")
                   \/ PublishReads(t, s) \/ RetractReads(t, s)
            PROVE  \E at \in {"requesting", "binding", "checking", "auditing"} : Goto(t, at)
            BY <2>5, <2>6 DEF RequestReads, DecideReads, PublishReads, RetractReads
      <2>7. QED BY <2>1, <2>2, <2>3, <2>4, <2>6 DEF Starts, PCs, PastAudit
<1>3. \A u \in Threads : (pc'[u] = pc[u] /\ my'[u] = my[u]) \/ pc'[u] \notin PastAudit
      <2>1. CASE UNCHANGED <<pc, my>> BY <2>1
      <2>2. CASE \E at \in PCs \ PastAudit : Goto(t, at)
            <3>1. PICK at \in PCs \ PastAudit : Goto(t, at) BY <2>2
            <3>2. \A u \in Threads \ {t} : my'[u] = my[u]
                  BY DEF Starts, SweepBegins, SetRetention, EnsureFinds, RequestReads, DecideReads,
                         PublishReads, RetractReads, RenderStarts, Begin, Inv, Threaded
            <3>3. QED BY <3>1, <3>2 DEF Goto, Inv, Threaded
      <2>3. QED BY <1>2, <2>1, <2>2
<1>4. QED BY <1>1, <1>3, CountLooks

LEMMA CountElsewhere ==
  ASSUME Inv, Counted, NEW t \in Threads, UNCHANGED <<records, approvals, audit>>,
         pc'[t] \notin PastAudit, \A u \in Threads \ {t} : pc'[u] = pc[u] /\ my'[u] = my[u]
  PROVE  Counted'
BY CountLooks

LEMMA CountContinues ==
  ASSUME Inv, Counted, NEW t \in Threads, Continues(t)
  PROVE  Counted'
<1>1. pc \in [Threads -> PCs] /\ my \in [Threads -> Local] BY DEF Inv, Threaded
<1>2. CASE EnsureOpens(t) \/ EnsureLists(t) \/ EnsureRegisters(t)
      <2>1. UNCHANGED <<records, approvals, audit>>
            BY <1>2 DEF EnsureOpens, EnsureLists, EnsureRegisters, lifecycle
      <2>2. /\ pc'[t] \notin PastAudit
            /\ \A u \in Threads \ {t} : pc'[u] = pc[u] /\ my'[u] = my[u]
            BY <1>1, <1>2 DEF EnsureOpens, EnsureLists, EnsureRegisters, Done, Goto, PastAudit
      <2>3. QED BY <2>1, <2>2, CountElsewhere
<1>3. CASE DecideBinds(t) \/ PublishChecks(t) \/ PublishLists(t) \/ PublishPrecedes(t)
      <2>1. UNCHANGED <<records, approvals, audit>>
            BY <1>3 DEF DecideBinds, PublishChecks, PublishLists, PublishPrecedes, lifecycle
      <2>2. /\ pc'[t] \notin PastAudit
            /\ \A u \in Threads \ {t} : pc'[u] = pc[u] /\ my'[u] = my[u]
            BY <1>1, <1>3
            DEF DecideBinds, PublishChecks, PublishLists, PublishPrecedes, Done, Goto, PastAudit
      <2>3. QED BY <2>1, <2>2, CountElsewhere
<1>4. CASE RenderCommits(t) \/ RenderPublishes(t) \/ SweepUnlinks(t) \/ SweepMarks(t)
      <2>1. UNCHANGED <<records, approvals, audit>>
            BY <1>4 DEF RenderCommits, RenderPublishes, SweepUnlinks, SweepMarks, lifecycle
      <2>2. /\ pc'[t] \notin PastAudit
            /\ \A u \in Threads \ {t} : pc'[u] = pc[u] /\ my'[u] = my[u]
            BY <1>1, <1>4 DEF RenderCommits, RenderPublishes, SweepUnlinks, SweepMarks, Done, Goto, PastAudit
      <2>3. QED BY <2>1, <2>2, CountElsewhere
<1>5. CASE SweepLooks(t) \/ SweepJudges(t) \/ SweepPasses(t) \/ SweepPicks(t)
      <2>1. UNCHANGED <<records, approvals, audit>>
            BY <1>5 DEF SweepLooks, SweepJudges, SweepPasses, SweepPicks, lifecycle
      <2>2. /\ pc'[t] \notin PastAudit
            /\ \A u \in Threads \ {t} : pc'[u] = pc[u] /\ my'[u] = my[u]
            <3>1. pc[t] \notin PastAudit
                  BY <1>5 DEF SweepLooks, SweepJudges, SweepPasses, SweepPicks, PastAudit
            <3>2. UNCHANGED pc \/ Goto(t, "idle") \/ Goto(t, "sweeping") \/ Goto(t, "judging")
                    \/ Goto(t, "purging") \/ Goto(t, "unlinking")
                  BY <1>5 DEF SweepLooks, SweepJudges, SweepPasses, SweepPicks, Done
            <3>3. \A u \in Threads \ {t} : my'[u] = my[u]
                  BY <1>1, <1>5 DEF SweepLooks, SweepJudges, SweepPasses, SweepPicks, Done
            <3>4. QED BY <1>1, <3>1, <3>2, <3>3 DEF Goto, PastAudit
      <2>3. QED BY <2>1, <2>2, CountElsewhere
<1>6. CASE Audits(t)
      <2>1. CASE Done(t)
            <3>1. pc[t] = "auditing" /\ UNCHANGED <<records, approvals>> BY <1>6 DEF Audits
            <3>2. pc'[t] = "idle" BY <1>1, <2>1 DEF Done, Goto
            <3>3. UNCHANGED audit BY <1>1, <1>6, <3>2 DEF Audits, Goto
            <3>4. QED BY <2>1, <3>1, <3>3, CountEnds
      <2>2. CASE ~Done(t) BY <1>6, <2>2, CountAudits
      <2>3. QED BY <2>1, <2>2
<1>7. QED BY <1>2, <1>3, <1>4, <1>5, <1>6, CountDecides, CountAppends, CountUncounted DEF Continues

\* No record is without the one that has to come before it, counting those that are owed.
THEOREM CountInvariant == Spec => []Counted
<1>1. Init => Counted
      <2> SUFFICES ASSUME Init PROVE Counted OBVIOUS
      <2>1. \A s, e, places : "idle" \notin places => Waiting(s, e, places) = {} BY DEF Init, Waiting
      <2>2. \A s \in Snapshots : DOMAIN records[s] = {} /\ DOMAIN approvals[s] = {} BY DEF Init
      <2>3. \A s \in Snapshots : \A e : HowMany(s, e) = 0 /\ Approvals(s, e) = 0
            BY <2>2, FS_EmptySet DEF HowMany, Approvals
      <2>4. \A s \in Snapshots, e \in Audited : audit[s][e] = 0 BY DEF Init
      <2>5. "idle" \notin PastAudit /\ "idle" \notin PastApproval BY DEF PastAudit, PastApproval
      <2>6. QED BY <2>1, <2>3, <2>4, <2>5, FS_EmptySet DEF Counted
<1>2. Inv /\ Counted /\ [Next]_vars => Counted'
      <2> SUFFICES ASSUME Inv, Counted, [Next]_vars PROVE Counted' OBVIOUS
      <2>1. CASE UNCHANGED vars BY <2>1, CountLooks DEF vars, lifecycle
      <2>2. ASSUME NEW t \in Threads, Refuses(t) \/ Abort(t) PROVE Counted'
            BY <2>2, CountEnds DEF Refuses, Abort, lifecycle
      <2>3. ASSUME NEW s \in Snapshots, Ages(s) PROVE Counted'
            BY <2>3, CountLooks DEF Ages, lifecycle
      <2>4. QED BY <2>1, <2>2, <2>3, CountStarts, CountContinues DEF Next
<1>3. QED BY <1>1, <1>2, Invariant, PTL DEF Spec

\* Everything that was approved, rejected, published or retracted has been audited,
\* however many handlers are between the audit and the record.
THEOREM AuditedFirst == Spec => []NothingUnaudited
<1>1. ASSUME Inv, Counted PROVE NothingUnaudited
      <2> SUFFICES ASSUME NEW s \in Snapshots, NEW e \in Audited PROVE HowMany(s, e) <= audit[s][e]
          BY DEF NothingUnaudited
      <2>1. /\ HowMany(s, e) \in Nat /\ audit[s][e] \in Nat
            /\ Cardinality(Waiting(s, e, PastAudit)) \in Nat
            BY <1>1, HowManyTyped, FS_CardinalityType DEF Counted, Inv, Typed
      <2>2. HowMany(s, e) + Cardinality(Waiting(s, e, PastAudit)) <= audit[s][e] BY <1>1 DEF Counted
      <2>3. QED BY <2>1, <2>2
<1>2. QED BY <1>1, Invariant, CountInvariant, PTL

\* Every event of a decision has the approval that binds it to a form.
THEOREM DecisionsBound == Spec => []DecisionsAreBound
<1>1. ASSUME Inv, Counted PROVE DecisionsAreBound
      <2> SUFFICES ASSUME NEW s \in Snapshots, NEW d \in Decisions PROVE HowMany(s, d) <= Approvals(s, d)
          BY DEF DecisionsAreBound, Decisions, Approvals
      <2>1. /\ HowMany(s, d) \in Nat /\ Approvals(s, d) \in Nat
            /\ Cardinality(Waiting(s, d, PastApproval)) \in Nat
            BY <1>1, HowManyTyped, ApprovalsTyped, FS_CardinalityType DEF Counted
      <2>2. HowMany(s, d) + Cardinality(Waiting(s, d, PastApproval)) <= Approvals(s, d)
            BY <1>1 DEF Counted
      <2>3. QED BY <2>1, <2>2
<1>2. QED BY <1>1, Invariant, CountInvariant, PTL
=============================================================================
