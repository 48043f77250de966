----------------------- MODULE WorkspaceHistoryProofs -----------------------
(***************************************************************************)
(* Theorems about WorkspaceHistory, for every number of documents,         *)
(* contents, editors, admins and committers.                               *)
(*                                                                         *)
(* The rows and the history: a transaction only publishes row versions     *)
(* whose lock it holds and sequence numbers it drew under the workspace    *)
(* row's lock (LockDiscipline), so what it publishes continues the         *)
(* committed history without a gap or an overlap; commits and squashes     *)
(* never touch the newest revision of a row other than by marking it.      *)
(*                                                                         *)
(* The commits: a request reads its base before its pending revisions, and *)
(* the base is never ahead of the newest commit, so it knows every         *)
(* uncommitted revision up to its head; what it takes or squashes lies     *)
(* behind the newest commit, where no earlier commit looks.  A history     *)
(* exports at its head what the rows hold, so a commit made at the head is *)
(* the live state; one made at an earlier head still is, as long as        *)
(* nothing but marks is changed behind that head.                          *)
(*                                                                         *)
(* The last theorem puts both together: the module implements              *)
(* VersionedWorkspace.                                                     *)
(***************************************************************************)
EXTENDS WorkspaceHistory, WellFoundedInduction, TLAPS

\* Heads are never ahead of the workspace, there is always a commit, and an
\* admin at work has a plan.
HeadsBounded ==
    /\ commits # {}
    /\ \A k \in commits : k.head <= head
    /\ \A c \in Committers : request[c].head <= head
    /\ \A a \in Admins : stage[a] # "idle" => plan[a] \in Plan

\* The inductive invariant: the discipline of the open transactions together
\* with what it keeps true of the committed history.
Inv ==
    /\ TypeOK
    /\ HeadsBounded
    /\ LockDiscipline
    /\ SequenceTracksHead
    /\ LiveMatchesHistory
    /\ HistoryIsLinear
    /\ NoLostUpdate

-----------------------------------------------------------------------------
(* The CHOOSE operators of the model are maxima of bounded sets.           *)

\* A nonempty bounded set of natural numbers has a greatest element.
LEMMA BoundedMaximum ==
    ASSUME NEW S \in SUBSET Nat, S # {}, NEW n \in Nat, \A x \in S : x <= n
    PROVE  \E m \in S : \A x \in S : x <= m
<1> DEFINE B == {u \in Nat : \A x \in S : x <= u}
<1>1. B # {} /\ B \subseteq Nat
  OBVIOUS
<1>2. PICK u \in B : \A y \in B : ~ (<<y, u>> \in OpToRel(<, Nat))
  <2> HIDE DEF B
  <2> QED BY <1>1, NatLessThanWellFounded, WFMin, Zenon
<1>3. \A y \in B : ~ (y < u)
  BY <1>1, <1>2 DEF OpToRel
<1>4. u \in S
  <2>1. SUFFICES ASSUME u \notin S PROVE FALSE
    OBVIOUS
  <2>2. PICK x \in S : TRUE
    OBVIOUS
  <2>3. x < u
    BY <2>1
  <2>4. u - 1 \in B
    BY <2>1, <2>3
  <2> QED BY <2>4, <1>3
<1> QED BY <1>4

\* LatestHead is the greatest head of a commit.
LEMMA LatestHeadIsMaximum ==
    ASSUME TypeOK, HeadsBounded
    PROVE  /\ LatestHead \in Nat
           /\ LatestHead <= head
           /\ \E k \in commits : k.head = LatestHead
           /\ \A k \in commits : k.head <= LatestHead
<1> DEFINE H == {c.head : c \in commits}
<1>1. H \in SUBSET Nat /\ H # {} /\ head \in Nat /\ \A x \in H : x <= head
  BY DEF TypeOK, HeadsBounded, Commit
<1>2. \E m \in H : \A x \in H : x <= m
  <2> HIDE DEF H
  <2> QED BY <1>1, BoundedMaximum
<1>3. \E h \in H : \A c \in commits : c.head <= h
  BY <1>2
<1>4. LatestHead \in H /\ \A c \in commits : c.head <= LatestHead
  BY <1>3 DEF LatestHead
<1> QED BY <1>1, <1>4

\* LastOf is the revision of the row with the greatest sequence number.
LEMMA LastOfIsLast ==
    ASSUME NEW revs \in SUBSET Revision, NEW n \in Nat, \A r \in revs : r.seq <= n,
           NEW d, \E r \in revs : r.doc = d
    PROVE  /\ LastOf(revs, d) \in revs
           /\ LastOf(revs, d).doc = d
           /\ \A q \in revs : q.doc = d => q.seq <= LastOf(revs, d).seq
<1> DEFINE S == {r.seq : r \in {q \in revs : q.doc = d}}
<1>1. S \in SUBSET Nat /\ S # {} /\ \A x \in S : x <= n
  BY DEF Revision
<1>2. \E m \in S : \A x \in S : x <= m
  <2> HIDE DEF S
  <2> QED BY <1>1, BoundedMaximum
<1>3. \E r \in revs : r.doc = d /\ \A q \in revs : q.doc = d => q.seq <= r.seq
  BY <1>2
<1> QED BY <1>3 DEF LastOf

\* An export has a content for every row.
LEMMA ExportType ==
    ASSUME NEW revs \in SUBSET Revision, NEW n \in Nat
    PROVE  Export(revs, n) \in [Rows -> Bodies]
<1> DEFINE known == {r \in revs : r.seq <= n}
<1>1. known \in SUBSET Revision /\ \A r \in known : r.seq <= n
  BY DEF Revision
<1>2. SUFFICES ASSUME NEW d \in Rows, \E r \in known : r.doc = d
               PROVE  LastOf(known, d).body \in Bodies
  BY DEF Export, Bodies
<1>3. LastOf(known, d) \in known
  <2> HIDE DEF known
  <2> QED BY <1>1, <1>2, LastOfIsLast
<1> QED BY <1>1, <1>3 DEF Revision

\* The types of the fields the invariants compare.
LEMMA FieldTypes ==
    ASSUME TypeOK
    PROVE  /\ head \in Nat
           /\ \A d \in Rows : rows[d].rev \in Nat /\ rows[d].body \in Bodies
           /\ \A w \in Writers :
                 /\ drawn[w] \in Nat /\ fresh[w] \subseteq Revision
                 /\ \A d \in Rows : bumps[w][d] \in Nat /\ seen[w][d] \in Nat
           /\ \A r \in Revision :
                 /\ r.doc \in Rows /\ r.num \in Nat /\ r.seq \in Nat
                 /\ r.basis \in Nat /\ r.body \in Bodies /\ r.commit \in Nat
  BY DEF TypeOK, Row, Revision

\* What Attach and CommitSquash do to a single revision.
LEMMA MarkedRevision ==
    ASSUME NEW r \in Revision, NEW h \in Nat
    PROVE  /\ Committed(r, h) \in Revision
           /\ Squashed(r) \in Revision
           /\ Committed(r, h).commit = h
           /\ \A q \in {Committed(r, h), Squashed(r)} :
                 /\ q.doc = r.doc /\ q.num = r.num /\ q.seq = r.seq
                 /\ q.basis = r.basis /\ q.body = r.body
  BY DEF Committed, Squashed, Revision

\* Two revisions that differ at most in the commit and the squash mark.
Alike(r, q) ==
    /\ q.doc = r.doc /\ q.num = r.num /\ q.seq = r.seq
    /\ q.basis = r.basis /\ q.body = r.body

\* Attaching revisions to a commit changes nothing else of them.
LEMMA AttachMarksOnly ==
    ASSUME NEW revs \in SUBSET Revision, NEW ids, NEW h \in Nat
    PROVE  /\ Attach(revs, ids, h) \in SUBSET Revision
           /\ \A q \in Attach(revs, ids, h) : \E r \in revs : Alike(r, q)
           /\ \A r \in revs : \E q \in Attach(revs, ids, h) : Alike(r, q)
           /\ (\A r1, r2 \in revs : r1.seq = r2.seq => r1 = r2) =>
              (\A q1, q2 \in Attach(revs, ids, h) : q1.seq = q2.seq => q1 = q2)
<1> DEFINE m(r) == IF Id(r) \in ids THEN Committed(r, h) ELSE r
<1>1. \A r \in revs : m(r) \in Revision /\ Alike(r, m(r))
  BY MarkedRevision DEF Alike
<1>2. Attach(revs, ids, h) = {m(r) : r \in revs}
  BY DEF Attach
<1> HIDE DEF m
<1> QED BY <1>1, <1>2 DEF Alike

-----------------------------------------------------------------------------
(* Steps that leave the committed history alone.                           *)

\* The committed history keeps its shape while rows, head and revisions stay.
LEMMA QuietHistory ==
    ASSUME Inv, UNCHANGED <<rows, head, revisions>>
    PROVE  SequenceTracksHead' /\ LiveMatchesHistory' /\ HistoryIsLinear' /\ NoLostUpdate'
  BY DEF Inv, SequenceTracksHead, LiveMatchesHistory, HistoryIsLinear, NoLostUpdate

\* A transaction that ends leaves every variable of the writers well-typed.
LEMMA IdleType ==
    ASSUME TypeOK, NEW w \in Writers, Idle(w)
    PROVE  /\ locks' \in [Rows -> Writers \cup {Nobody}]
           /\ stage' \in [Writers -> {"idle", "planned", "open"}]
           /\ seen' \in [Writers -> [Rows -> Nat]]
           /\ want' \in [Writers -> [Rows -> Bodies \cup {Untouched}]]
           /\ bumps' \in [Writers -> [Rows -> Nat]]
           /\ drawn' \in [Writers -> Nat]
           /\ fresh' \in [Writers -> SUBSET Revision]
           /\ plan' \in [Writers -> Plan \cup {<<>>}]
  BY DEF TypeOK, Idle

\* A transaction stays disciplined through a step that leaves its variables
\* and locks alone, the rows it updated, and, once it drew a sequence number,
\* the head.
LEMMA OtherWriter ==
    ASSUME TypeOK, NEW v \in Writers, Disciplined(v),
           stage'[v] = stage[v], drawn'[v] = drawn[v], fresh'[v] = fresh[v],
           bumps'[v] = bumps[v], want'[v] = want[v], seen'[v] = seen[v],
           \A d \in Rows : locks[d] = v => locks'[d] = v,
           \A d \in Rows : bumps[v][d] > 0 => rows'[d] = rows[d],
           drawn[v] > 0 => head' = head
    PROVE  Disciplined(v)'
<1>1. NothingBefore(v)'
  BY DEF Disciplined, NothingBefore
<1>2. ASSUME NEW d \in Rows PROVE HoldsRow(v, d)'
  BY DEF Disciplined, HoldsRow
<1>3. HoldsSequence(v)'
  BY DEF Disciplined, HoldsSequence, Rows
<1>4. ASSUME NEW r \in fresh[v] PROVE Continues(v, r)'
  <2>1. Continues(v, r) /\ r \in Revision /\ r.doc \in Rows
    BY DEF Disciplined, TypeOK, Revision
  <2>2. drawn[v] > 0 /\ bumps[v][r.doc] > 0
    BY <2>1 DEF Continues, TypeOK, Revision, Row
  <2> QED BY <2>1, <2>2 DEF Continues
<1>5. InOrder(fresh[v])'
  BY DEF Disciplined, InOrder
<1> QED BY <1>1, <1>2, <1>3, <1>4, <1>5 DEF Disciplined

\* A transaction that has ended, or not begun, holds nothing.
LEMMA RestingWriter ==
    ASSUME NEW v \in Writers, drawn'[v] = 0, fresh'[v] = {},
           \A d \in Rows : bumps'[v][d] = 0
    PROVE  Disciplined(v)'
  BY DEF Disciplined, NothingBefore, HoldsRow, HoldsSequence, Continues, InOrder

\* Reading the rows of a request keeps the invariant: nothing is held yet.
LEMMA LoadStep ==
    ASSUME Inv, NEW e \in Editors, NEW D \in SUBSET Rows, NEW f \in [D -> Bodies],
           Load(e, f)
    PROVE  Inv'
<1>1. TypeOK /\ e \in Writers
  BY DEF Inv, Writers
<1>2. TypeOK'
  BY <1>1 DEF TypeOK, Load, liveVars, Row
<1>3. HeadsBounded'
  BY ConstantsAssumption, <1>1 DEF Inv, HeadsBounded, Load, liveVars, TypeOK
<1>4. LockDiscipline'
  <2> SUFFICES ASSUME NEW v \in Writers PROVE Disciplined(v)'
    BY DEF LockDiscipline
  <2>0. Disciplined(v)
    BY DEF Inv, LockDiscipline
  <2>1. CASE v # e
    BY <1>1, <2>0, <2>1, OtherWriter DEF Load, liveVars, TypeOK
  <2>2. CASE v = e
    BY <1>1, <2>0, <2>2, RestingWriter DEF Load, Disciplined, NothingBefore, TypeOK
  <2> QED BY <2>1, <2>2
<1> QED BY <1>2, <1>3, <1>4, QuietHistory DEF Inv, Load, liveVars

\* UPDATE ... WHERE revision = expected keeps the invariant: it takes the row's
\* lock while the row still is what the writer read.
LEMMA UpdateRowStep ==
    ASSUME Inv, NEW w \in Writers, NEW d \in Rows, UpdateRow(w, d)
    PROVE  Inv'
<1>1. TypeOK
  BY DEF Inv
<1>2. TypeOK'
  BY <1>1 DEF TypeOK, UpdateRow, Lock, liveVars
<1>3. HeadsBounded'
  BY DEF Inv, HeadsBounded, UpdateRow, liveVars
<1>4. LockDiscipline'
  <2> SUFFICES ASSUME NEW v \in Writers PROVE Disciplined(v)'
    BY DEF LockDiscipline
  <2>0. Disciplined(v)
    BY DEF Inv, LockDiscipline
  <2>1. /\ NothingBefore(v) /\ HoldsSequence(v) /\ InOrder(fresh[v])
        /\ \A x \in Rows : HoldsRow(v, x)
        /\ \A r \in fresh[v] : Continues(v, r)
    BY <2>0 DEF Disciplined
  <2>2. CASE v # w
    BY <1>1, <2>0, <2>2, ConstantsAssumption, OtherWriter
       DEF UpdateRow, Lock, Free, liveVars, TypeOK, Writers
  <2>3. CASE v = w
    <3>1. NothingBefore(v)' /\ HoldsSequence(v)' /\ InOrder(fresh[v])'
      BY <1>1, <2>1, <2>3, ConstantsAssumption
         DEF UpdateRow, Lock, liveVars, TypeOK, NothingBefore, HoldsSequence, InOrder, Rows
    <3>2. \A x \in Rows : HoldsRow(v, x)'
      BY <1>1, <2>1, <2>3
         DEF UpdateRow, Lock, RevisionMatches, liveVars, TypeOK, HoldsRow, Row
    <3>3. \A r \in fresh'[v] : r.doc # d
      BY <1>1, <2>1, <2>3 DEF UpdateRow, TypeOK, Continues, Row, Revision
    <3>4. \A r \in fresh'[v] : Continues(v, r)'
      BY <1>1, <2>1, <2>3, <3>3 DEF UpdateRow, liveVars, TypeOK, Continues, Row, Revision
    <3> QED BY <3>1, <3>2, <3>4 DEF Disciplined
  <2> QED BY <2>2, <2>3
<1> QED BY <1>2, <1>3, <1>4, QuietHistory DEF Inv, UpdateRow, liveVars

\* The in-place updates of a delete keep the invariant.
LEMMA CascadeStep ==
    ASSUME Inv, NEW e \in Editors, NEW d \in Rows, Cascade(e, d)
    PROVE  Inv'
<1>1. TypeOK /\ e \in Writers
  BY DEF Inv, Writers
<1> PICK body \in Values : want' = [want EXCEPT ![e][d] = body]
  BY DEF Cascade
<1>0. body # Untouched /\ body \in Bodies
  BY ConstantsAssumption DEF Bodies
<1>2. TypeOK'
  <2>1. want' \in [Writers -> [Rows -> Bodies \cup {Untouched}]]
    BY <1>0, <1>1 DEF TypeOK
  <2> QED BY <1>1, <2>1 DEF TypeOK, Cascade, Lock, liveVars, Row
<1>3. HeadsBounded'
  BY DEF Inv, HeadsBounded, Cascade, liveVars
<1>4. LockDiscipline'
  <2> SUFFICES ASSUME NEW v \in Writers PROVE Disciplined(v)'
    BY DEF LockDiscipline
  <2>0. Disciplined(v)
    BY DEF Inv, LockDiscipline
  <2>1. /\ NothingBefore(v) /\ HoldsSequence(v) /\ InOrder(fresh[v])
        /\ \A x \in Rows : HoldsRow(v, x)
        /\ \A r \in fresh[v] : Continues(v, r)
    BY <2>0 DEF Disciplined
  <2>2. CASE v # e
    BY <1>1, <2>0, <2>2, ConstantsAssumption, OtherWriter
       DEF Cascade, Lock, Free, liveVars, TypeOK, Writers
  <2>3. CASE v = e
    <3>1. NothingBefore(v)' /\ HoldsSequence(v)' /\ InOrder(fresh[v])'
      BY <1>1, <2>1, <2>3, ConstantsAssumption
         DEF Cascade, Lock, liveVars, TypeOK, NothingBefore, HoldsSequence, InOrder, Rows
    <3>2. \A x \in Rows : HoldsRow(v, x)'
      BY <1>0, <1>1, <2>1, <2>3 DEF Cascade, Lock, liveVars, TypeOK, HoldsRow, Row
    <3>3. bumps[e][d] = 0
      BY <1>1, <2>1, <2>3 DEF Cascade, TypeOK, HoldsRow
    <3>4. \A r \in fresh'[v] : r.doc # d
      BY <1>1, <2>1, <2>3, <3>3 DEF Cascade, TypeOK, Continues, Row, Revision
    <3>5. \A r \in fresh'[v] : Continues(v, r)'
      BY <1>1, <2>1, <2>3, <3>4 DEF Cascade, liveVars, TypeOK, Continues, Row, Revision
    <3> QED BY <3>1, <3>2, <3>5 DEF Disciplined
  <2> QED BY <2>2, <2>3
<1> QED BY <1>2, <1>3, <1>4, QuietHistory DEF Inv, Cascade, liveVars

\* The second write of a row in a restore or an import keeps the invariant.
LEMMA RewriteStep ==
    ASSUME Inv, NEW a \in Admins, NEW d \in Rows, Rewrite(a, d)
    PROVE  Inv'
<1>1. TypeOK /\ a \in Writers
  BY DEF Inv, Writers
<1>2. TypeOK'
  BY <1>1 DEF TypeOK, Rewrite, liveVars
<1>3. HeadsBounded'
  BY DEF Inv, HeadsBounded, Rewrite, liveVars
<1>4. LockDiscipline'
  <2> SUFFICES ASSUME NEW v \in Writers PROVE Disciplined(v)'
    BY DEF LockDiscipline
  <2>0. Disciplined(v)
    BY DEF Inv, LockDiscipline
  <2>1. /\ NothingBefore(v) /\ HoldsSequence(v) /\ InOrder(fresh[v])
        /\ \A x \in Rows : HoldsRow(v, x)
        /\ \A r \in fresh[v] : Continues(v, r)
    BY <2>0 DEF Disciplined
  <2>2. CASE v # a
    BY <1>1, <2>0, <2>2, OtherWriter DEF Rewrite, liveVars, TypeOK
  <2>3. CASE v = a
    <3>1. NothingBefore(v)' /\ HoldsSequence(v)' /\ InOrder(fresh[v])'
      BY <1>1, <2>1, <2>3
         DEF Rewrite, liveVars, TypeOK, NothingBefore, HoldsSequence, InOrder
    <3>2. \A x \in Rows : HoldsRow(v, x)'
      BY <1>1, <2>1, <2>3 DEF Rewrite, liveVars, TypeOK, HoldsRow
    <3>3. \A r \in fresh'[v] : Continues(v, r)'
      BY <1>1, <2>1, <2>3 DEF Rewrite, liveVars, TypeOK, Continues, Row, Revision
    <3> QED BY <3>1, <3>2, <3>3 DEF Disciplined
  <2> QED BY <2>2, <2>3
<1> QED BY <1>2, <1>3, <1>4, QuietHistory DEF Inv, Rewrite, liveVars

\* Recording a revision keeps the invariant: under the workspace row's lock the
\* number drawn is the next one and the row's revision number is the newest.
LEMMA RecordStep ==
    ASSUME Inv, NEW w \in Writers, NEW d \in Rows, Record(w, d)
    PROVE  Inv'
<1>1. TypeOK
  BY DEF Inv
<1>2. Disciplined(w) /\ HoldsRow(w, d) /\ InOrder(fresh[w]) /\ NothingBefore(w)
      /\ (\A x \in Rows : HoldsRow(w, x)) /\ \A r \in fresh[w] : Continues(w, r)
  BY DEF Inv, LockDiscipline, Disciplined
<1>3. PICK r0 \in Revision :
        r0 = [doc |-> d, num |-> rows[d].rev + bumps[w][d], seq |-> NextSequence(w),
              basis |-> seen[w][d] + bumps[w][d] - 1, body |-> want[w][d],
              squashed |-> FALSE, commit |-> 0]
  <2>1. /\ rows[d].rev + bumps[w][d] \in Nat /\ head + drawn[w] + 1 \in Nat
        /\ bumps[w][d] > 0 /\ seen[w][d] + bumps[w][d] - 1 \in Nat
    BY <1>1, FieldTypes DEF Record
  <2>2. want[w][d] \in Bodies
    BY <1>1, <1>2, <2>1 DEF HoldsRow, TypeOK
  <2> QED BY <2>1, <2>2 DEF Revision, NextSequence
<1>4. /\ fresh' = [fresh EXCEPT ![w] = @ \cup {r0}]
      /\ drawn' = [drawn EXCEPT ![w] = @ + 1]
      /\ locks' = [locks EXCEPT ![Workspace] = w]
      /\ stage[w] = "open" /\ bumps[w][d] > 0 /\ ~ Recorded(w, d)
      /\ UNCHANGED <<rows, head, past, revisions, commits, stage, seen, want, bumps, plan, request>>
  BY <1>3 DEF Record, Lock, liveVars
<1>5. TypeOK'
  <2>1. fresh' \in [Writers -> SUBSET Revision]
    BY <1>1, <1>3, <1>4 DEF TypeOK
  <2>2. drawn' \in [Writers -> Nat]
    BY <1>1, <1>4 DEF TypeOK
  <2>3. locks' \in [Rows -> Writers \cup {Nobody}]
    BY <1>1, <1>4 DEF TypeOK
  <2> QED BY <1>1, <1>4, <2>1, <2>2, <2>3 DEF TypeOK
<1>6. HeadsBounded'
  BY <1>4 DEF Inv, HeadsBounded
<1>7. LockDiscipline'
  <2> SUFFICES ASSUME NEW v \in Writers PROVE Disciplined(v)'
    BY DEF LockDiscipline
  <2>1. CASE v # w
    <3>1. Disciplined(v)
      BY DEF Inv, LockDiscipline
    <3>2. \A x \in Rows : locks[x] = v => locks'[x] = v
      BY <1>1, <1>4, <2>1, ConstantsAssumption DEF Record, SequenceFree, Free, TypeOK
    <3> QED BY <1>1, <1>4, <2>1, <3>1, <3>2, OtherWriter DEF TypeOK
  <2>2. CASE v = w
    <3>1. NothingBefore(w)'
      BY <1>1, <1>2, <1>4 DEF NothingBefore, TypeOK
    <3>2. \A x \in Rows : HoldsRow(w, x)'
      BY <1>1, <1>2, <1>4 DEF HoldsRow, TypeOK
    <3>3. r0.doc = d /\ r0.seq = head + drawn[w] + 1 /\ r0.body = want[w][d]
          /\ r0.num = rows[d].rev + bumps[w][d] /\ r0.num = r0.basis + 1
      BY <1>1, <1>2, <1>3, <1>4 DEF NextSequence, HoldsRow, TypeOK, Row
    <3>4. HoldsSequence(w)'
      BY <1>1, <1>4, <3>3 DEF HoldsSequence, TypeOK, Rows
    <3>5. ASSUME NEW r \in fresh[w] PROVE Continues(w, r)'
      <4>1. Continues(w, r) /\ r.seq \in Nat /\ head \in Nat /\ drawn[w] \in Nat
            /\ drawn'[w] = drawn[w] + 1
        BY <1>1, <1>2, <1>4, FieldTypes DEF TypeOK
      <4> QED BY <1>4, <4>1 DEF Continues
    <3>9. /\ head \in Nat /\ drawn[w] \in Nat /\ drawn'[w] = drawn[w] + 1
          /\ rows[d].rev \in Nat /\ bumps[w][d] \in Nat
          /\ \A r \in fresh[w] : r.num \in Nat /\ r.seq \in Nat
      BY <1>1, <1>4, FieldTypes DEF TypeOK
    <3>6. Continues(w, r0)'
      BY <1>4, <3>3, <3>9 DEF Continues
    <3>7. \A r \in fresh[w] : /\ r.seq < r0.seq
                              /\ r.doc = d => r.num < r0.num
      BY <1>2, <1>4, <3>3, <3>9 DEF Continues, Recorded
    <3>8. InOrder(fresh[w])'
      <4>1. fresh'[w] = fresh[w] \cup {r0} /\ r0.num \in Nat /\ r0.seq \in Nat
        BY <1>1, <1>3, <1>4, FieldTypes DEF TypeOK
      <4> QED BY <1>2, <3>3, <3>7, <3>9, <4>1 DEF InOrder
    <3>10. fresh'[w] = fresh[w] \cup {r0}
      BY <1>1, <1>4 DEF TypeOK
    <3> QED BY <2>2, <3>1, <3>2, <3>4, <3>5, <3>6, <3>8, <3>10 DEF Disciplined
  <2> QED BY <2>1, <2>2
<1> QED BY <1>4, <1>5, <1>6, <1>7, QuietHistory DEF Inv

\* A rollback keeps the invariant.
LEMMA AbortStep ==
    ASSUME Inv, NEW w \in Writers, Abort(w)
    PROVE  Inv'
<1>1. TypeOK
  BY DEF Inv
<1>2. TypeOK'
  BY <1>1, IdleType DEF Abort, liveVars, TypeOK
<1>3. HeadsBounded'
  BY <1>1, ConstantsAssumption DEF Inv, HeadsBounded, Abort, Idle, liveVars, TypeOK, Writers
<1>4. LockDiscipline'
  <2> SUFFICES ASSUME NEW v \in Writers PROVE Disciplined(v)'
    BY DEF LockDiscipline
  <2>1. CASE v # w
    <3>1. Disciplined(v)
      BY DEF Inv, LockDiscipline
    <3> QED BY <1>1, <2>1, <3>1, OtherWriter DEF Abort, Idle, liveVars, TypeOK
  <2>2. CASE v = w
    BY <1>1, <2>2, RestingWriter DEF Abort, Idle, TypeOK
  <2> QED BY <2>1, <2>2
<1> QED BY <1>2, <1>3, <1>4, QuietHistory DEF Inv, Abort, liveVars

\* Making a plan keeps the invariant.
LEMMA NewPlanStep ==
    ASSUME Inv, NEW a \in Admins, NEW op \in {"restore", "import"},
           NEW target \in [Rows -> Bodies], NewPlan(a, op, target)
    PROVE  Inv'
<1>1. TypeOK /\ a \in Writers
  BY DEF Inv, Writers
<1>2. [op |-> op, expect |-> head, target |-> target] \in Plan
  BY <1>1 DEF TypeOK, Plan
<1>3. TypeOK'
  BY <1>1, <1>2 DEF TypeOK, NewPlan, liveVars
<1>4. HeadsBounded'
  BY <1>1, <1>2, ConstantsAssumption
     DEF Inv, HeadsBounded, NewPlan, liveVars, TypeOK, Writers
<1>5. LockDiscipline'
  <2> SUFFICES ASSUME NEW v \in Writers PROVE Disciplined(v)'
    BY DEF LockDiscipline
  <2>0. Disciplined(v)
    BY DEF Inv, LockDiscipline
  <2>1. CASE v # a
    BY <1>1, <2>0, <2>1, OtherWriter DEF NewPlan, liveVars, TypeOK
  <2>2. CASE v = a
    BY <1>1, <2>0, <2>2, RestingWriter DEF NewPlan, Disciplined, NothingBefore, TypeOK
  <2> QED BY <2>1, <2>2
<1> QED BY <1>3, <1>4, <1>5, QuietHistory DEF Inv, NewPlan, liveVars

\* Taking the workspace lock and comparing the head keeps the invariant.
LEMMA BeginAdminStep ==
    ASSUME Inv, NEW a \in Admins, BeginAdmin(a)
    PROVE  Inv'
<1>1. TypeOK /\ a \in Writers /\ plan[a] \in Plan /\ plan[a].target \in [Rows -> Bodies]
  BY DEF Inv, Writers, HeadsBounded, BeginAdmin, Plan
<1>2. TypeOK'
  <2>1. seen' \in [Writers -> [Rows -> Nat]]
    BY <1>1, FieldTypes DEF BeginAdmin, TypeOK
  <2>2. want' \in [Writers -> [Rows -> Bodies \cup {Untouched}]]
    BY <1>1 DEF BeginAdmin, TypeOK
  <2>3. locks' \in [Rows -> Writers \cup {Nobody}]
    BY <1>1 DEF BeginAdmin, Lock, TypeOK
  <2>4. stage' \in [Writers -> {"idle", "planned", "open"}]
    BY <1>1 DEF BeginAdmin, TypeOK
  <2> QED BY <1>1, <2>1, <2>2, <2>3, <2>4 DEF BeginAdmin, TypeOK, liveVars
<1>3. HeadsBounded'
  BY <1>1 DEF Inv, HeadsBounded, BeginAdmin, liveVars, TypeOK
<1>4. LockDiscipline'
  <2> SUFFICES ASSUME NEW v \in Writers PROVE Disciplined(v)'
    BY DEF LockDiscipline
  <2>0. Disciplined(v)
    BY DEF Inv, LockDiscipline
  <2>1. CASE v # a
    <3>1. \A d \in Rows : locks[d] = v => locks'[d] = v
      BY <1>1, <2>1, ConstantsAssumption DEF BeginAdmin, Lock, SnapshotLockFree, Free, TypeOK
    <3> QED BY <1>1, <2>0, <2>1, <3>1, OtherWriter DEF BeginAdmin, liveVars, TypeOK
  <2>2. CASE v = a
    BY <1>1, <2>0, <2>2, RestingWriter DEF BeginAdmin, Disciplined, NothingBefore, TypeOK
  <2> QED BY <2>1, <2>2
<1> QED BY <1>2, <1>3, <1>4, QuietHistory DEF Inv, BeginAdmin, liveVars

\* A committer's step leaves the discipline of every writer as it is.
LEMMA CommitterKeepsDiscipline ==
    ASSUME Inv, UNCHANGED <<rows, head, locks, stage, seen, want, bumps, drawn, fresh>>
    PROVE  LockDiscipline'
  BY OtherWriter DEF Inv, LockDiscipline

\* A committer's reads, and its failures, keep the invariant: the head it read
\* is never ahead of the workspace.
LEMMA ReadingStep ==
    ASSUME Inv, NEW c \in Committers,
           LoadScope(c) \/ ReadLatest(c) \/ ReadPending(c) \/ Fail(c)
    PROVE  Inv'
<1>1. TypeOK /\ request[c] \in Request /\ NoRequest \in Request
  BY DEF Inv, TypeOK, Request, NoRequest
<1>2. UNCHANGED <<rows, head, past, revisions, commits, locks, stage, seen, want,
                  bumps, drawn, fresh, plan>>
  BY DEF LoadScope, ReadLatest, ReadPending, Fail, Answer, liveVars, txVars
<1>3. \E q \in Request : q.head <= head /\ request' = [request EXCEPT ![c] = q]
  <2>0. head \in Nat /\ request[c].head <= head /\ NoRequest.head <= head
    BY <1>1 DEF Inv, TypeOK, HeadsBounded, NoRequest
  <2>1. CASE LoadScope(c)
    <3> DEFINE q == [step |-> "scoped", head |-> head, base |-> 0, pending |-> {}]
    <3>1. q \in Request /\ q.head = head
      BY <2>0 DEF Request
    <3>2. request' = [request EXCEPT ![c] = q]
      BY <2>1 DEF LoadScope
    <3>3. q.head <= head
      BY <2>0, <3>1
    <3> QED BY <3>1, <3>2, <3>3
  <2>2. CASE ReadLatest(c)
    <3>1. LatestHead \in Nat
      BY LatestHeadIsMaximum DEF Inv
    <3> DEFINE q == [request[c] EXCEPT !.step = "based", !.base = LatestHead]
    <3>2. q \in Request /\ q.head = request[c].head
      BY <1>1, <3>1 DEF Request
    <3>3. request' = [request EXCEPT ![c] = q]
      BY <1>1, <2>2 DEF ReadLatest, TypeOK
    <3> QED BY <2>0, <3>2, <3>3
  <2>3. CASE ReadPending(c)
    <3>1. {Id(r) : r \in Pending(revisions, request[c].base)} \subseteq Nat \X BOOLEAN
      BY <1>1 DEF Id, Pending, TypeOK, Revision
    <3> QED BY <1>1, <2>0, <2>3, <3>1 DEF ReadPending, Answer, NoRequest, Request
  <2>4. CASE Fail(c)
    BY <1>1, <2>0, <2>4 DEF Fail, Answer
  <2> QED BY <2>1, <2>2, <2>3, <2>4
<1>4. TypeOK'
  BY <1>1, <1>2, <1>3 DEF TypeOK
<1>5. HeadsBounded'
  BY <1>1, <1>2, <1>3 DEF Inv, HeadsBounded, TypeOK
<1> QED BY <1>2, <1>4, <1>5, CommitterKeepsDiscipline, QuietHistory DEF Inv

-----------------------------------------------------------------------------
(* Steps that change the committed history.                                *)

\* No revision of the row comes after r, by either number.
Newest(revs, r) == \A q \in revs : q.doc = r.doc => q.num <= r.num /\ q.seq <= r.seq

\* The four properties of the committed history, of any revisions, rows, head.
Shape(revs, rs, h) ==
    /\ \A r \in revs : r.seq <= h /\ r.num = r.basis + 1
    /\ \E r \in revs : r.seq = h
    /\ InOrder(revs)
    /\ \A d \in Rows :
          \/ rs[d].rev = 0 /\ rs[d].body = Gone /\ \A q \in revs : q.doc # d
          \/ \E r \in revs : /\ r.doc = d /\ r.num = rs[d].rev /\ r.body = rs[d].body
                             /\ Newest(revs, r)

\* Shape says the same as the four properties of the committed history.
LEMMA ShapeIsHistory ==
    /\ Shape(revisions, rows, head) <=>
          (SequenceTracksHead /\ LiveMatchesHistory /\ HistoryIsLinear /\ NoLostUpdate)
    /\ Shape(revisions', rows', head') <=>
          (SequenceTracksHead /\ LiveMatchesHistory /\ HistoryIsLinear /\ NoLostUpdate)'
<1>1. Shape(revisions, rows, head) <=>
          (SequenceTracksHead /\ LiveMatchesHistory /\ HistoryIsLinear /\ NoLostUpdate)
  BY DEF Shape, Newest, InOrder, SequenceTracksHead, LiveMatchesHistory,
         HistoryIsLinear, NoLostUpdate
<1>2. Shape(revisions', rows', head') <=>
          (SequenceTracksHead /\ LiveMatchesHistory /\ HistoryIsLinear /\ NoLostUpdate)'
  BY DEF Shape, Newest, InOrder, SequenceTracksHead, LiveMatchesHistory,
         HistoryIsLinear, NoLostUpdate
<1> QED BY <1>1, <1>2

\* Revisions may be marked, and those that are not the newest of their row may
\* go, without the history losing its shape.
LEMMA ShapeTransfer ==
    ASSUME NEW revs \in SUBSET Revision, NEW revs2 \in SUBSET Revision, NEW rs, NEW h \in Nat,
           Shape(revs, rs, h),
           \A q \in revs2 : \E r \in revs : Alike(r, q),
           \A r \in revs : (\A q \in revs : q.doc = r.doc => q.seq <= r.seq) =>
                            \E q \in revs2 : Alike(r, q),
           \A q1, q2 \in revs2 : q1.seq = q2.seq => q1 = q2
    PROVE  Shape(revs2, rs, h)
<1>1. \A r \in revs2 : r.seq <= h /\ r.num = r.basis + 1
  BY DEF Shape, Alike
<1>2. \E r \in revs2 : r.seq = h
  <2>1. PICK r \in revs : r.seq = h
    BY DEF Shape
  <2>2. \A q \in revs : q.doc = r.doc => q.seq <= r.seq
    BY <2>1 DEF Shape
  <2> QED BY <2>1, <2>2 DEF Alike
<1>3. InOrder(revs2)
  <2> SUFFICES ASSUME NEW q1 \in revs2, NEW q2 \in revs2
               PROVE  q1.doc = q2.doc => (q1.num < q2.num <=> q1.seq < q2.seq)
    BY DEF InOrder
  <2>1. PICK r1 \in revs, r2 \in revs : Alike(r1, q1) /\ Alike(r2, q2)
    OBVIOUS
  <2> QED BY <2>1 DEF Alike, Shape, InOrder
<1>4. ASSUME NEW d \in Rows, ~ (rs[d].rev = 0 /\ rs[d].body = Gone /\ \A q \in revs2 : q.doc # d)
      PROVE  \E r \in revs2 : /\ r.doc = d /\ r.num = rs[d].rev /\ r.body = rs[d].body
                              /\ Newest(revs2, r)
  <2>1. PICK r \in revs : /\ r.doc = d /\ r.num = rs[d].rev /\ r.body = rs[d].body
                          /\ Newest(revs, r)
    BY <1>4 DEF Shape, Alike
  <2>2. PICK q \in revs2 : Alike(r, q)
    BY <2>1 DEF Newest
  <2>3. Newest(revs2, q)
    BY <2>1, <2>2 DEF Newest, Alike
  <2> QED BY <2>1, <2>2, <2>3 DEF Alike
<1> QED BY <1>1, <1>2, <1>3, <1>4 DEF Shape

\* What a complete transaction publishes continues the history.
LEMMA PublishShape ==
    ASSUME Inv, NEW w \in Writers, stage[w] = "open", Complete(w), Publish(w)
    PROVE  Shape(revisions \cup fresh[w], rows', head')
<1>1. TypeOK /\ Disciplined(w) /\ Shape(revisions, rows, head)
  BY ShapeIsHistory DEF Inv, LockDiscipline
<1> DEFINE all == revisions \cup fresh[w]
<1>2. \A r \in all : /\ r.doc \in Rows /\ r.num \in Nat /\ r.seq \in Nat
                      /\ rows[r.doc].rev \in Nat /\ bumps[w][r.doc] \in Nat
  BY <1>1, FieldTypes DEF TypeOK
<1>3. head \in Nat /\ drawn[w] \in Nat /\ head' = head + drawn[w]
  BY <1>1, FieldTypes DEF Publish
<1>4. \A r \in fresh[w] : Continues(w, r)
  BY <1>1 DEF Disciplined
<1>5. \A r \in revisions : r.seq <= head /\ r.num = r.basis + 1 /\ r.num <= rows[r.doc].rev
  <2>1. \A r \in revisions : r.seq <= head /\ r.num = r.basis + 1
    BY <1>1 DEF Shape
  <2>2. ASSUME NEW r \in revisions PROVE r.num <= rows[r.doc].rev
    <3>1. PICK q \in revisions : q.doc = r.doc /\ q.num = rows[r.doc].rev /\ Newest(revisions, q)
      BY <1>1, <1>2 DEF Shape
    <3> QED BY <3>1 DEF Newest
  <2> QED BY <2>1, <2>2
<1>6. \A r \in all : r.seq <= head' /\ r.num = r.basis + 1
  BY <1>2, <1>3, <1>4, <1>5 DEF Continues
<1>7. \E r \in all : r.seq = head'
  <2>1. CASE drawn[w] = 0
    BY <1>1, <1>3, <2>1 DEF Shape
  <2>2. CASE drawn[w] > 0
    BY <1>1, <1>3, <2>2 DEF Disciplined, HoldsSequence
  <2> QED BY <1>3, <2>1, <2>2
<1>8. \A r \in revisions, q \in fresh[w] : r.seq < q.seq /\ (r.doc = q.doc => r.num < q.num)
  BY <1>2, <1>3, <1>4, <1>5 DEF Continues
<1>9. InOrder(all)
  <2> SUFFICES ASSUME NEW r \in all, NEW q \in all
               PROVE  /\ r.seq = q.seq => r = q
                      /\ r.doc = q.doc => (r.num < q.num <=> r.seq < q.seq)
    BY DEF InOrder
  <2>1. CASE r \in revisions /\ q \in revisions
    BY <1>1, <2>1 DEF Shape, InOrder
  <2>2. CASE r \in fresh[w] /\ q \in fresh[w]
    BY <1>1, <2>2 DEF Disciplined, InOrder
  <2>3. CASE r \in revisions /\ q \in fresh[w]
    BY <1>2, <1>8, <2>3
  <2>4. CASE r \in fresh[w] /\ q \in revisions
    BY <1>2, <1>8, <2>4
  <2> QED BY <2>1, <2>2, <2>3, <2>4
<1>10. ASSUME NEW d \in Rows
       PROVE  \/ rows'[d].rev = 0 /\ rows'[d].body = Gone /\ \A q \in all : q.doc # d
              \/ \E r \in all : /\ r.doc = d /\ r.num = rows'[d].rev
                                /\ r.body = rows'[d].body /\ Newest(all, r)
  <2>0. bumps[w][d] \in Nat /\ rows[d].rev \in Nat
    BY <1>1, FieldTypes
  <2>1. CASE bumps[w][d] = 0
    <3>1. rows'[d] = rows[d]
      BY <2>1 DEF Publish
    <3>2. \A q \in fresh[w] : q.doc # d
      BY <1>2, <1>4, <2>0, <2>1 DEF Continues
    <3> QED BY <1>1, <3>1, <3>2 DEF Shape, Newest
  <2>2. CASE bumps[w][d] > 0
    <3>1. rows'[d].rev = rows[d].rev + bumps[w][d] /\ rows'[d].body = want[w][d]
      BY <2>2 DEF Publish
    <3>2. want[w][d] # Untouched
      BY <1>1, <2>2 DEF Disciplined, HoldsRow
    <3>3. PICK r \in fresh[w] : r.doc = d /\ r.num = rows[d].rev + bumps[w][d]
      BY <3>2 DEF Complete, Recorded
    <3>4. r.body = want[w][d]
      BY <1>4, <3>3 DEF Continues
    <3>5. \A q \in all : q.doc = d => q.num <= r.num
      BY <1>2, <1>4, <1>8, <3>3 DEF Continues
    <3>6. \A q \in all : q.doc = d => q.seq <= r.seq
      BY <1>2, <1>9, <3>3, <3>5 DEF InOrder
    <3> QED BY <3>1, <3>3, <3>4, <3>5, <3>6 DEF Newest
  <2> QED BY <2>0, <2>1, <2>2
<1> QED BY <1>6, <1>7, <1>9, <1>10 DEF Shape

\* What a transaction publishes is well-typed.
LEMMA PublishType ==
    ASSUME Inv, NEW w \in Writers, Publish(w)
    PROVE  /\ rows' \in [Rows -> Row]
           /\ head' \in Nat /\ head <= head'
           /\ past' \subseteq [head : Nat, bodies : [Rows -> Bodies]]
<1>1. TypeOK /\ Disciplined(w)
  BY DEF Inv, LockDiscipline
<1>2. head' \in Nat /\ head <= head'
  BY <1>1, FieldTypes DEF Publish
<1>3. ASSUME NEW d \in Rows
      PROVE  [rev |-> rows[d].rev + bumps[w][d], body |-> want[w][d]] \in Row
             \/ ~ (bumps[w][d] > 0)
  <2>1. bumps[w][d] > 0 => want[w][d] \in Bodies
    BY <1>1 DEF Disciplined, HoldsRow, TypeOK
  <2> QED BY <1>1, <2>1, FieldTypes DEF Row
<1>4. rows' \in [Rows -> Row]
  BY <1>1, <1>3 DEF Publish, TypeOK
<1>5. BodiesOf(rows') \in [Rows -> Bodies]
  BY <1>4 DEF BodiesOf, Row
<1>6. [head |-> head', bodies |-> BodiesOf(rows')] \in [head : Nat, bodies : [Rows -> Bodies]]
  BY <1>2, <1>5
<1>7. past' \subseteq [head : Nat, bodies : [Rows -> Bodies]]
  BY <1>1, <1>6 DEF Publish, TypeOK
<1> QED BY <1>2, <1>4, <1>7

\* The other writers while w publishes and ends.
LEMMA PublishDiscipline ==
    ASSUME Inv, NEW w \in Writers, Publish(w), Idle(w)
    PROVE  LockDiscipline'
<1>1. TypeOK
  BY DEF Inv
<1> SUFFICES ASSUME NEW v \in Writers PROVE Disciplined(v)'
  BY DEF LockDiscipline
<1>2. CASE v = w
  BY <1>1, <1>2, RestingWriter DEF Idle, TypeOK
<1>3. CASE v # w
  <2>1. Disciplined(v) /\ Disciplined(w)
    BY DEF Inv, LockDiscipline
  <2>2. ASSUME NEW d \in Rows, bumps[v][d] > 0 PROVE rows'[d] = rows[d]
    <3>1. ~ (bumps[w][d] > 0)
      BY <1>3, <2>1, <2>2 DEF Disciplined, HoldsRow
    <3> QED BY <3>1 DEF Publish
  <2>3. ASSUME drawn[v] > 0 PROVE head' = head
    <3>1. HoldsSequence(v) /\ HoldsSequence(w)
      BY <2>1 DEF Disciplined
    <3>2. ~ (drawn[w] > 0)
      BY <1>3, <2>3, <3>1 DEF HoldsSequence
    <3>3. drawn[w] \in Nat /\ head \in Nat
      BY <1>1, FieldTypes
    <3> QED BY <3>2, <3>3 DEF Publish
  <2> QED BY <1>1, <1>3, <2>1, <2>2, <2>3, OtherWriter DEF Idle, TypeOK
<1> QED BY <1>2, <1>3

\* The COMMIT of an editor keeps the invariant.
LEMMA CommitEditStep ==
    ASSUME Inv, NEW e \in Editors, CommitEdit(e)
    PROVE  Inv'
<1>1. TypeOK /\ e \in Writers
  BY DEF Inv, Writers
<1>2. Publish(e) /\ Idle(e) /\ Complete(e) /\ stage[e] = "open"
      /\ revisions' = revisions \cup fresh[e] /\ UNCHANGED <<commits, request>>
  BY DEF CommitEdit
<1>3. TypeOK'
  BY <1>1, <1>2, IdleType, PublishType, FieldTypes DEF TypeOK
<1>4. HeadsBounded'
  <2>1. head \in Nat /\ head' \in Nat /\ head <= head'
    BY <1>1, <1>2, PublishType DEF TypeOK
  <2>2. ASSUME NEW a \in Admins, stage'[a] # "idle" PROVE plan'[a] \in Plan
    BY <1>1, <1>2, <2>2, ConstantsAssumption DEF Inv, HeadsBounded, Idle, TypeOK, Writers
  <2>3. \A k \in commits : k.head \in Nat /\ k.head <= head
    BY <1>1 DEF Inv, HeadsBounded, TypeOK, Commit
  <2>4. \A c \in Committers : request[c].head \in Nat /\ request[c].head <= head
    BY <1>1 DEF Inv, HeadsBounded, TypeOK, Request
  <2> QED BY <1>2, <2>1, <2>2, <2>3, <2>4 DEF Inv, HeadsBounded
<1>5. LockDiscipline'
  BY <1>1, <1>2, PublishDiscipline
<1>6. Shape(revisions', rows', head')
  BY <1>1, <1>2, PublishShape
<1> QED BY <1>3, <1>4, <1>5, <1>6, ShapeIsHistory DEF Inv

\* A commit made at a head the workspace has reached is well-typed.
LEMMA NewCommitType ==
    ASSUME revisions' \subseteq Revision, NEW h \in Nat, NEW base \in Nat,
           NEW target \in [Rows -> Bodies]
    PROVE  NewCommit(h, base, target) \in Commit /\ NewCommit(h, base, target).head = h
<1>1. Export(revisions', h) \in [Rows -> Bodies]
  BY ExportType
<1> QED BY <1>1 DEF NewCommit, Commit

\* The end of a restore or an import keeps the invariant.
LEMMA FinishAdminStep ==
    ASSUME Inv, NEW a \in Admins, FinishAdmin(a)
    PROVE  Inv'
<1>1. TypeOK /\ a \in Writers /\ LatestHead \in Nat
  BY LatestHeadIsMaximum DEF Inv, Writers
<1> DEFINE all == revisions \cup fresh[a]
           ids == {Id(r) : r \in Adopted(a)}
<1>2. Publish(a) /\ Idle(a) /\ Complete(a) /\ stage[a] = "open"
      /\ revisions' = Attach(all, ids, head')
      /\ commits' = commits \cup {NewCommit(head', LatestHead, plan[a].target)}
      /\ UNCHANGED request
  BY DEF FinishAdmin
<1>3. all \in SUBSET Revision
  BY <1>1, FieldTypes DEF TypeOK
<1>4. rows' \in [Rows -> Row] /\ head \in Nat /\ head' \in Nat /\ head <= head'
      /\ past' \subseteq [head : Nat, bodies : [Rows -> Bodies]]
  BY <1>1, <1>2, PublishType DEF TypeOK
<1>5. plan[a].target \in [Rows -> Bodies]
  <2>1. plan[a] \in Plan
    BY <1>2 DEF Inv, HeadsBounded
  <2> QED BY <2>1 DEF Plan
<1> HIDE DEF all, ids
<1>6. /\ revisions' \in SUBSET Revision
      /\ \A q \in revisions' : \E r \in all : Alike(r, q)
      /\ \A r \in all : \E q \in revisions' : Alike(r, q)
      /\ (\A r1, r2 \in all : r1.seq = r2.seq => r1 = r2) =>
         (\A q1, q2 \in revisions' : q1.seq = q2.seq => q1 = q2)
  BY <1>2, <1>3, <1>4, AttachMarksOnly
<1>7. /\ NewCommit(head', LatestHead, plan[a].target) \in Commit
      /\ NewCommit(head', LatestHead, plan[a].target).head = head'
  BY <1>1, <1>4, <1>5, <1>6, NewCommitType
<1>8. TypeOK'
  <2>1. commits' \subseteq Commit
    BY <1>1, <1>2, <1>7 DEF TypeOK
  <2> QED BY <1>1, <1>2, <1>4, <1>6, <2>1, IdleType DEF TypeOK
<1>9. HeadsBounded'
  <2>1. ASSUME NEW b \in Admins, stage'[b] # "idle" PROVE plan'[b] \in Plan
    <3>1. Idle(a) /\ b \in Writers
      BY <1>2 DEF Writers
    <3>2. b # a /\ stage'[b] = stage[b] /\ plan'[b] = plan[b]
      BY <1>1, <2>1, <3>1 DEF Idle, TypeOK
    <3> QED BY <2>1, <3>2 DEF Inv, HeadsBounded
  <2>2. \A k \in commits : k.head \in Nat /\ k.head <= head
    BY <1>1 DEF Inv, HeadsBounded, TypeOK, Commit
  <2>3. \A c \in Committers : request[c].head \in Nat /\ request[c].head <= head
    BY <1>1 DEF Inv, HeadsBounded, TypeOK, Request
  <2>4. \A k \in commits' : k.head <= head'
    BY <1>2, <1>4, <1>7, <2>2
  <2> QED BY <1>2, <1>4, <2>1, <2>3, <2>4 DEF Inv, HeadsBounded
<1>10. LockDiscipline'
  BY <1>1, <1>2, PublishDiscipline
<1>11. Shape(all, rows', head')
  BY <1>1, <1>2, PublishShape DEF all
<1>12. Shape(revisions', rows', head')
  <2>1. \A r1, r2 \in all : r1.seq = r2.seq => r1 = r2
    BY <1>11 DEF Shape, InOrder
  <2>2. \A q1, q2 \in revisions' : q1.seq = q2.seq => q1 = q2
    BY <1>6, <2>1
  <2> QED BY <1>3, <1>4, <1>6, <1>11, <2>2, ShapeTransfer
<1> QED BY <1>8, <1>9, <1>10, <1>12, ShapeIsHistory DEF Inv

\* A commit of pending revisions, whichever way it is made, keeps the
\* invariant if the history keeps its shape.
LEMMA CommitStep ==
    ASSUME Inv, NEW h \in Nat, h <= head, NEW base \in Nat,
           revisions' \in SUBSET Revision, Shape(revisions', rows, head),
           commits' = commits \cup {NewCommit(h, base, Export(revisions', h))},
           UNCHANGED <<liveVars, locks, txVars, plan>>,
           \/ UNCHANGED request
           \/ \E c \in Committers : request' = [request EXCEPT ![c] = NoRequest]
    PROVE  Inv'
<1>1. TypeOK /\ NoRequest \in Request /\ NoRequest.head = 0
  BY DEF Inv, NoRequest, Request
<1>2. Export(revisions', h) \in [Rows -> Bodies]
  BY ExportType
<1>3. /\ NewCommit(h, base, Export(revisions', h)) \in Commit
      /\ NewCommit(h, base, Export(revisions', h)).head = h
  BY <1>2, NewCommitType
<1>4. TypeOK'
  <2>1. request' \in [Committers -> Request]
    BY <1>1 DEF TypeOK
  <2>2. commits' \subseteq Commit
    BY <1>1, <1>3 DEF TypeOK
  <2> QED BY <1>1, <2>1, <2>2 DEF TypeOK, liveVars, txVars
<1>5. HeadsBounded'
  <2>0. head' = head /\ head \in Nat /\ \A c \in Committers : request[c].head <= head
    BY <1>1 DEF Inv, HeadsBounded, TypeOK, liveVars
  <2>1. \A c \in Committers : request'[c].head <= head'
    <3>1. \A c \in Committers : request'[c] = request[c] \/ request'[c] = NoRequest
      BY <1>1 DEF TypeOK
    <3>2. 0 <= head
      BY <2>0
    <3> QED BY <1>1, <2>0, <3>1, <3>2
  <2>2. \A k \in commits' : k.head <= head'
    BY <1>3 DEF Inv, HeadsBounded, liveVars
  <2> QED BY <2>1, <2>2 DEF Inv, HeadsBounded, liveVars, txVars
<1>6. LockDiscipline'
  BY CommitterKeepsDiscipline DEF liveVars, txVars
<1> QED BY <1>4, <1>5, <1>6, ShapeIsHistory DEF Inv, liveVars

\* Attaching keeps the shape of the committed history.
LEMMA AttachShape ==
    ASSUME Inv, NEW ids, NEW h \in Nat
    PROVE  /\ Attach(revisions, ids, h) \in SUBSET Revision
           /\ Shape(Attach(revisions, ids, h), rows, head)
<1>1. revisions \in SUBSET Revision /\ head \in Nat /\ Shape(revisions, rows, head)
  BY ShapeIsHistory DEF Inv, TypeOK
<1>2. \A r1, r2 \in revisions : r1.seq = r2.seq => r1 = r2
  BY <1>1 DEF Shape, InOrder
<1> DEFINE after == Attach(revisions, ids, h)
<1>3. /\ after \in SUBSET Revision
      /\ \A q \in after : \E r \in revisions : Alike(r, q)
      /\ \A r \in revisions : \E q \in after : Alike(r, q)
      /\ \A q1, q2 \in after : q1.seq = q2.seq => q1 = q2
  BY <1>1, <1>2, AttachMarksOnly
<1> HIDE DEF after
<1>4. Shape(after, rows, head)
  BY <1>1, <1>3, ShapeTransfer
<1> QED BY <1>3, <1>4 DEF after

\* A commit with policy preserve keeps the invariant.
LEMMA CommitPreserveStep ==
    ASSUME Inv, NEW c \in Committers, CommitPreserve(c)
    PROVE  Inv'
<1>1. request[c].head \in Nat /\ request[c].head <= head /\ request[c].base \in Nat
  BY DEF Inv, TypeOK, HeadsBounded, Request
<1>2. revisions' \in SUBSET Revision /\ Shape(revisions', rows, head)
  BY <1>1, AttachShape DEF CommitPreserve, CommitHead
<1>3. commits' = commits \cup
         {NewCommit(request[c].head, request[c].base, Export(revisions', request[c].head))}
      /\ UNCHANGED <<liveVars, locks, txVars, plan>>
      /\ request' = [request EXCEPT ![c] = NoRequest]
  BY DEF CommitPreserve, CommitHead, Answer
<1> QED BY <1>1, <1>2, <1>3, CommitStep

\* CreateFromBuild keeps the invariant.
LEMMA BuildCommitStep ==
    ASSUME Inv, NEW c \in Committers, BuildCommit(c)
    PROVE  Inv'
<1>1. head \in Nat /\ head <= head /\ LatestHead \in Nat
  BY LatestHeadIsMaximum DEF Inv, TypeOK
<1>2. revisions' \in SUBSET Revision /\ Shape(revisions', rows, head)
  BY <1>1, AttachShape DEF BuildCommit
<1>3. commits' = commits \cup {NewCommit(head, LatestHead, Export(revisions', head))}
      /\ UNCHANGED <<liveVars, locks, txVars, plan>> /\ UNCHANGED request
  BY DEF BuildCommit
<1> QED BY <1>1, <1>2, <1>3, CommitStep

\* A commit with policy squash keeps the invariant: what goes is never the
\* newest revision of its row.
LEMMA CommitSquashStep ==
    ASSUME Inv, NEW c \in Committers, CommitSquash(c)
    PROVE  Inv'
<1>1. request[c].head \in Nat /\ request[c].head <= head /\ request[c].base \in Nat
  BY DEF Inv, TypeOK, HeadsBounded, Request
<1> DEFINE h     == request[c].head
           old   == Pending(revisions, request[c].base)
           mark(r) == Committed(Squashed(r), h)
           kept  == {mark(r) : r \in LastPerRow(old)}
           after == (revisions \ old) \cup kept
<1>2. revisions \in SUBSET Revision /\ head \in Nat /\ Shape(revisions, rows, head)
      /\ \A r \in revisions : r.doc \in Rows /\ r.seq \in Nat /\ r.seq <= head
  BY ShapeIsHistory, FieldTypes DEF Inv, TypeOK, SequenceTracksHead
<1>3. old \in SUBSET Revision /\ old \subseteq revisions /\ \A r \in old : r.seq <= head
  BY <1>2 DEF Pending
<1>4. \A r1, r2 \in revisions : r1.seq = r2.seq => r1 = r2
  BY <1>2 DEF Shape, InOrder
<1>5. \A r \in old : /\ LastOf(old, r.doc) \in old
                      /\ LastOf(old, r.doc).doc = r.doc
                      /\ r.seq <= LastOf(old, r.doc).seq
  <2> HIDE DEF old
  <2> QED BY <1>2, <1>3, LastOfIsLast
<1>6. \A r \in Revision : mark(r) \in Revision /\ Alike(r, mark(r))
  <2> SUFFICES ASSUME NEW r \in Revision PROVE mark(r) \in Revision /\ Alike(r, mark(r))
    OBVIOUS
  <2>1. Squashed(r) \in Revision /\ Alike(r, Squashed(r))
    BY <1>1, MarkedRevision DEF Alike
  <2>2. mark(r) \in Revision /\ Alike(Squashed(r), mark(r))
    BY <1>1, <2>1, MarkedRevision DEF Alike
  <2> QED BY <2>1, <2>2 DEF Alike
<1> HIDE DEF old, mark, h
<1>7. \A q \in kept : \E m \in old : q = mark(m) /\ Alike(m, q)
  BY <1>3, <1>5, <1>6 DEF LastPerRow
<1>8. after \in SUBSET Revision
  BY <1>2, <1>3, <1>6, <1>7
<1>9. \A q \in after : \E r \in revisions : Alike(r, q)
  BY <1>3, <1>7 DEF Alike
<1>10. ASSUME NEW r \in revisions, \A q \in revisions : q.doc = r.doc => q.seq <= r.seq
       PROVE  \E q \in after : Alike(r, q)
  <2>1. CASE r \notin old
    BY <2>1 DEF Alike
  <2>2. CASE r \in old
    <3>1. LastOf(old, r.doc).seq <= r.seq /\ LastOf(old, r.doc) \in revisions
      BY <1>3, <1>5, <1>10, <2>2
    <3>2. LastOf(old, r.doc) = r
      BY <1>2, <1>4, <1>5, <2>2, <3>1
    <3>3. mark(r) \in kept
      BY <2>2, <3>2 DEF LastPerRow
    <3> QED BY <1>2, <1>6, <3>3
  <2> QED BY <2>1, <2>2
<1>11. ASSUME NEW q1 \in after, NEW q2 \in after, q1.seq = q2.seq PROVE q1 = q2
  <2>1. CASE q1 \in kept /\ q2 \in kept
    BY <1>3, <1>4, <1>7, <1>11, <2>1 DEF Alike
  <2>2. CASE q1 \in revisions \ old /\ q2 \in revisions \ old
    BY <1>4, <1>11, <2>2
  <2>3. CASE q1 \in kept /\ q2 \in revisions \ old
    BY <1>3, <1>4, <1>7, <1>11, <2>3 DEF Alike
  <2>4. CASE q1 \in revisions \ old /\ q2 \in kept
    BY <1>3, <1>4, <1>7, <1>11, <2>4 DEF Alike
  <2> QED BY <2>1, <2>2, <2>3, <2>4
<1> HIDE DEF kept
<1>12. Shape(after, rows, head)
  <2> HIDE DEF after
  <2> QED BY <1>2, <1>8, <1>9, <1>10, <1>11, ShapeTransfer
<1>13. revisions' = after
  BY DEF CommitSquash, CommitHead, old, kept, mark, h
<1>14. commits' = commits \cup
         {NewCommit(request[c].head, request[c].base, Export(revisions', request[c].head))}
      /\ UNCHANGED <<liveVars, locks, txVars, plan>>
      /\ request' = [request EXCEPT ![c] = NoRequest]
  BY DEF CommitSquash, CommitHead, Answer
<1> HIDE DEF after
<1> QED BY <1>1, <1>8, <1>12, <1>13, <1>14, CommitStep

-----------------------------------------------------------------------------
(* The invariant.                                                          *)

\* The workspace as workspaces.Create leaves it satisfies the invariant.
LEMMA InitInv == Init => Inv
<1> SUFFICES ASSUME Init PROVE Inv
  OBVIOUS
<1> DEFINE initial(v) == [d \in Rows |-> IF d = Workspace THEN v ELSE Gone]
<1>0. PICK v \in Values :
        /\ rows = [d \in Rows |-> [rev  |-> IF d = Workspace THEN 1 ELSE 0,
                                   body |-> initial(v)[d]]]
        /\ head = 1
        /\ revisions = {[doc |-> Workspace, num |-> 1, seq |-> 1, basis |-> 0,
                         body |-> v, squashed |-> FALSE, commit |-> 1]}
        /\ commits = {[head |-> 1, base |-> 0, version |-> initial(v), target |-> initial(v)]}
        /\ locks = [d \in Rows |-> Nobody]
        /\ stage = [w \in Writers |-> "idle"]
        /\ seen  = [w \in Writers |-> [d \in Rows |-> 0]]
        /\ want  = [w \in Writers |-> [d \in Rows |-> Untouched]]
        /\ bumps = [w \in Writers |-> [d \in Rows |-> 0]]
        /\ drawn = [w \in Writers |-> 0]
        /\ fresh = [w \in Writers |-> {}]
        /\ plan  = [w \in Writers |-> <<>>]
        /\ request = [c \in Committers |-> NoRequest]
        /\ past = {[head |-> 1, bodies |-> initial(v)]}
  BY Zenon DEF Init
<1>1. rows = [d \in Rows |-> [rev  |-> IF d = Workspace THEN 1 ELSE 0,
                              body |-> IF d = Workspace THEN v ELSE Gone]]
  BY <1>0
<1>2. Workspace \in Rows /\ v \in Bodies /\ Gone \in Bodies
  BY DEF Rows, Bodies
<1>3. initial(v) \in [Rows -> Bodies]
  BY <1>2
<1>4. TypeOK
  <2>1. rows \in [Rows -> Row] /\ head \in Nat /\ revisions \subseteq Revision
    BY <1>0, <1>1, <1>2 DEF Row, Revision
  <2>2. commits \subseteq Commit /\ past \subseteq [head : Nat, bodies : [Rows -> Bodies]]
    BY <1>0, <1>3 DEF Commit
  <2>3. request \in [Committers -> Request]
    BY <1>0, <1>1 DEF NoRequest, Request
  <2> QED BY <1>0, <2>1, <2>2, <2>3 DEF TypeOK
<1>5. HeadsBounded
  BY <1>0, <1>1 DEF HeadsBounded, NoRequest, Writers
<1>6. LockDiscipline
  BY <1>0, <1>1 DEF LockDiscipline, Disciplined, NothingBefore, HoldsRow, HoldsSequence,
              Continues, InOrder
<1>7. SequenceTracksHead /\ HistoryIsLinear /\ NoLostUpdate
  BY <1>0, <1>1 DEF SequenceTracksHead, HistoryIsLinear, NoLostUpdate
<1>8. LiveMatchesHistory
  BY <1>0, <1>1 DEF LiveMatchesHistory
<1> QED BY <1>4, <1>5, <1>6, <1>7, <1>8 DEF Inv

\* Every step of every request keeps the invariant.
LEMMA NextInv == Inv /\ [Next]_vars => Inv'
<1> SUFFICES ASSUME Inv, [Next]_vars PROVE Inv'
  OBVIOUS
<1>1. CASE UNCHANGED vars
  <2>1. TypeOK' /\ HeadsBounded'
    BY <1>1 DEF Inv, vars, TypeOK, HeadsBounded
  <2> QED BY <1>1, <2>1, CommitterKeepsDiscipline, QuietHistory DEF Inv, vars
<1>2. ASSUME NEW e \in Editors, EditorStep(e) PROVE Inv'
  <2>0. e \in Writers
    BY DEF Writers
  <2>1. CASE \E D \in SUBSET Rows : \E f \in [D -> Bodies] : Load(e, f)
    BY <2>1, LoadStep
  <2>2. CASE \E d \in Rows : UpdateRow(e, d) \/ Cascade(e, d) \/ Record(e, d)
    BY <2>0, <2>2, UpdateRowStep, CascadeStep, RecordStep
  <2>3. CASE CommitEdit(e)
    BY <2>3, CommitEditStep
  <2>4. CASE Abort(e)
    BY <2>0, <2>4, AbortStep
  <2> QED BY <1>2, <2>1, <2>2, <2>3, <2>4 DEF EditorStep
<1>3. ASSUME NEW a \in Admins, AdminStep(a) PROVE Inv'
  <2>0. a \in Writers
    BY DEF Writers
  <2>1. CASE PlanRestore(a)
    <3>1. PICK k \in commits : NewPlan(a, "restore", Export(revisions, k.head))
      BY <2>1 DEF PlanRestore
    <3>2. k.head \in Nat /\ revisions \in SUBSET Revision
      BY DEF Inv, TypeOK, Commit
    <3>3. Export(revisions, k.head) \in [Rows -> Bodies]
      BY <3>2, ExportType
    <3> QED BY <3>1, <3>3, NewPlanStep
  <2>2. CASE PlanImport(a)
    BY <2>2, NewPlanStep DEF PlanImport
  <2>3. CASE BeginAdmin(a)
    BY <2>3, BeginAdminStep
  <2>4. CASE \E d \in Rows : UpdateRow(a, d) \/ Rewrite(a, d) \/ Record(a, d)
    BY <2>0, <2>4, UpdateRowStep, RewriteStep, RecordStep
  <2>5. CASE FinishAdmin(a)
    BY <2>5, FinishAdminStep
  <2>6. CASE Abort(a)
    BY <2>0, <2>6, AbortStep
  <2> QED BY <1>3, <2>1, <2>2, <2>3, <2>4, <2>5, <2>6 DEF AdminStep
<1>4. ASSUME NEW c \in Committers, CommitterStep(c) PROVE Inv'
  <2>1. CASE LoadScope(c) \/ ReadLatest(c) \/ ReadPending(c) \/ Fail(c)
    BY <2>1, ReadingStep
  <2>2. CASE CommitRequest(c)
    BY <2>2, CommitPreserveStep, CommitSquashStep DEF CommitRequest
  <2>3. CASE BuildCommit(c)
    BY <2>3, BuildCommitStep
  <2> QED BY <1>4, <2>1, <2>2, <2>3 DEF CommitterStep
<1> QED BY <1>1, <1>2, <1>3, <1>4 DEF Next

\* The inductive invariant holds in every reachable state.
THEOREM Invariance == Spec => []Inv
<1>1. Init => Inv
  BY InitInv
<1>2. Inv /\ [Next]_vars => Inv'
  BY NextInv
<1> QED BY <1>1, <1>2, PTL DEF Spec

\* Every variable keeps its type, whatever requests interleave.
THEOREM TypeCorrect == Spec => []TypeOK
<1>1. Inv => TypeOK
  BY DEF Inv
<1> QED BY <1>1, Invariance, PTL

\* head_sequence counts the revisions: numbers drawn by concurrent transactions
\* never collide and never run ahead of the committed head.
THEOREM SequenceCorrect == Spec => []SequenceTracksHead
<1>1. Inv => SequenceTracksHead
  BY DEF Inv
<1> QED BY <1>1, Invariance, PTL

\* Live rows and recorded history agree after every COMMIT, commit, squash,
\* restore and import.
THEOREM LiveCorrect == Spec => []LiveMatchesHistory
<1>1. Inv => LiveMatchesHistory
  BY DEF Inv
<1> QED BY <1>1, Invariance, PTL

\* The revisions of a row form one line in both of their orders.
THEOREM LinearCorrect == Spec => []HistoryIsLinear
<1>1. Inv => HistoryIsLinear
  BY DEF Inv
<1> QED BY <1>1, Invariance, PTL

\* No writer overwrites a change it has not read.
THEOREM NoLostUpdateCorrect == Spec => []NoLostUpdate
<1>1. Inv => NoLostUpdate
  BY DEF Inv
<1> QED BY <1>1, Invariance, PTL

\* Open transactions hold the locks their unpublished work depends on.
THEOREM DisciplineCorrect == Spec => []LockDiscipline
<1>1. Inv => LockDiscipline
  BY DEF Inv
<1> QED BY <1>1, Invariance, PTL

-----------------------------------------------------------------------------
(* The workspace lock of an admin.                                         *)

\* An admin at work holds the workspace lock, and the rows it has to write are
\* what it read.
Frozen ==
    \A a \in Admins : stage[a] = "open" =>
        /\ locks[Workspace] = a
        /\ \A d \in Rows : want[a][d] # Untouched => rows[d].rev = seen[a][d]

\* A step of one writer that takes free locks only, or gives its own back, and
\* publishes nothing leaves the other admins their lock and their rows.
LEMMA OtherAdmin ==
    ASSUME Frozen, NEW w \in Writers, NEW a \in Admins, a # w,
           stage'[a] = stage[a], want'[a] = want[a], seen'[a] = seen[a],
           stage[a] = "open" => rows' = rows,
           locks[Workspace] \notin {Nobody, w} => locks'[Workspace] = locks[Workspace]
    PROVE  stage'[a] = "open" =>
               /\ locks'[Workspace] = a
               /\ \A d \in Rows : want'[a][d] # Untouched => rows'[d].rev = seen'[a][d]
<1> SUFFICES ASSUME stage[a] = "open"
             PROVE  /\ locks'[Workspace] = a
                    /\ \A d \in Rows : want'[a][d] # Untouched => rows'[d].rev = seen'[a][d]
  OBVIOUS
<1>1. a # Nobody
  BY ConstantsAssumption DEF Writers
<1> QED BY <1>1 DEF Frozen

\* An editor publishes a row only with the workspace lock in its hands.
LEMMA PublishingEditor ==
    ASSUME Inv, NEW e \in Writers, NEW d \in Rows, stage[e] = "open", Complete(e),
           bumps[e][d] > 0
    PROVE  locks[Workspace] = e
<1>1. Disciplined(e)
  BY DEF Inv, LockDiscipline
<1>2. want[e][d] # Untouched
  BY <1>1 DEF Disciplined, HoldsRow
<1>3. PICK r \in fresh[e] : r.doc = d
  BY <1>2 DEF Complete, Recorded
<1>4. head \in Nat /\ drawn[e] \in Nat /\ r.seq \in Nat
  BY <1>3 DEF Inv, TypeOK, Revision
<1>5. head < r.seq /\ r.seq <= head + drawn[e]
  BY <1>1, <1>3 DEF Disciplined, Continues
<1>6. drawn[e] > 0
  BY <1>4, <1>5
<1> QED BY <1>1, <1>6 DEF Disciplined, HoldsSequence

\* The steps that only touch a writer's transaction and take free locks.
LEMMA RowStepFrozen ==
    ASSUME Inv, Frozen, NEW w \in Writers, NEW d \in Rows,
           UpdateRow(w, d) \/ Record(w, d) \/ (w \in Editors /\ Cascade(w, d))
                           \/ (w \in Admins /\ Rewrite(w, d))
    PROVE  Frozen'
<1>1. locks \in [Rows -> Writers \cup {Nobody}] /\ Workspace \in Rows
  BY DEF Inv, TypeOK, Rows
<1>2. rows' = rows /\ stage' = stage
  BY DEF UpdateRow, Record, Cascade, Rewrite, liveVars
<1>3. locks[Workspace] \notin {Nobody, w} => locks'[Workspace] = locks[Workspace]
  BY <1>1 DEF UpdateRow, Record, Cascade, Rewrite, Free, SequenceFree, Lock
<1>4. locks[Workspace] = w => locks'[Workspace] = w
  BY <1>1 DEF UpdateRow, Record, Cascade, Rewrite, Lock
<1>5. ASSUME NEW a \in Admins PROVE want'[a] = want[a] /\ seen'[a] = seen[a]
  <2>1. w \in Editors => a # w
    BY ConstantsAssumption
  <2>2. /\ want \in [Writers -> [Rows -> Bodies \cup {Untouched}]]
        /\ seen \in [Writers -> [Rows -> Nat]]
    BY DEF Inv, TypeOK
  <2> QED BY <2>1, <2>2 DEF UpdateRow, Record, Cascade, Rewrite, Writers
<1>6. ASSUME NEW a \in Admins, stage'[a] = "open"
      PROVE  /\ locks'[Workspace] = a
             /\ \A x \in Rows : want'[a][x] # Untouched => rows'[x].rev = seen'[a][x]
  <2>1. CASE a = w
    BY <1>2, <1>4, <1>5, <1>6, <2>1 DEF Frozen
  <2>2. CASE a # w
    BY <1>2, <1>3, <1>5, <1>6, <2>2, OtherAdmin
  <2> QED BY <2>1, <2>2
<1> QED BY <1>6 DEF Frozen

\* The end of a transaction.
LEMMA IdleFrozen ==
    ASSUME Inv, Frozen, NEW w \in Writers, Idle(w),
           \A a \in Admins : a # w /\ stage[a] = "open" => rows' = rows
    PROVE  Frozen'
<1>1. TypeOK /\ Workspace \in Rows
  BY DEF Inv, Rows
<1>2. stage'[w] = "idle"
  BY <1>1 DEF TypeOK, Idle
<1>3. locks[Workspace] \notin {Nobody, w} => locks'[Workspace] = locks[Workspace]
  BY <1>1 DEF Idle
<1>4. ASSUME NEW a \in Admins, a # w
      PROVE  stage'[a] = stage[a] /\ want'[a] = want[a] /\ seen'[a] = seen[a]
  BY <1>1, <1>4 DEF TypeOK, Idle, Writers
<1>5. ASSUME NEW a \in Admins, stage'[a] = "open"
      PROVE  /\ locks'[Workspace] = a
             /\ \A x \in Rows : want'[a][x] # Untouched => rows'[x].rev = seen'[a][x]
  <2>1. a # w
    BY <1>2, <1>5
  <2> QED BY <1>3, <1>4, <1>5, <2>1, OtherAdmin
<1> QED BY <1>5 DEF Frozen

\* The steps of an editor.
LEMMA EditorFrozen ==
    ASSUME Inv, Frozen, NEW e \in Editors, EditorStep(e)
    PROVE  Frozen'
<1>1. e \in Writers /\ e \notin Admins /\ TypeOK
  BY ConstantsAssumption DEF Writers, Inv
<1>2. CASE \E D \in SUBSET Rows : \E f \in [D -> Bodies] : Load(e, f)
  <2>1. rows' = rows /\ locks' = locks
    BY <1>2 DEF Load, liveVars
  <2>2. ASSUME NEW a \in Admins
        PROVE  stage'[a] = stage[a] /\ want'[a] = want[a] /\ seen'[a] = seen[a]
    BY <1>1, <1>2 DEF Load, TypeOK, Writers
  <2> QED BY <2>1, <2>2 DEF Frozen
<1>3. CASE \E d \in Rows : UpdateRow(e, d) \/ Cascade(e, d) \/ Record(e, d)
  BY <1>1, <1>3, RowStepFrozen
<1>4. CASE CommitEdit(e)
  <2>1. stage[e] = "open" /\ Complete(e) /\ Publish(e) /\ Idle(e)
    BY <1>4 DEF CommitEdit
  <2>2. ASSUME NEW a \in Admins, stage[a] = "open" PROVE rows' = rows
    <3>1. locks[Workspace] # e
      BY <1>1, <2>2 DEF Frozen
    <3>2. \A d \in Rows : ~ (bumps[e][d] > 0)
      BY <1>1, <2>1, <3>1, PublishingEditor
    <3> QED BY <1>1, <2>1, <3>2 DEF Publish, TypeOK
  <2> QED BY <1>1, <2>1, <2>2, IdleFrozen
<1>5. CASE Abort(e)
  BY <1>1, <1>5, IdleFrozen DEF Abort, liveVars
<1> QED BY <1>2, <1>3, <1>4, <1>5 DEF EditorStep

\* The steps of an admin.
LEMMA AdminFrozen ==
    ASSUME Inv, Frozen, NEW a \in Admins, AdminStep(a)
    PROVE  Frozen'
<1>1. a \in Writers /\ TypeOK /\ Workspace \in Rows /\ a # Nobody
  BY ConstantsAssumption DEF Writers, Inv, Rows
<1>2. CASE PlanRestore(a) \/ PlanImport(a)
  <2>1. rows' = rows /\ locks' = locks /\ want' = want /\ seen' = seen
        /\ stage' = [stage EXCEPT ![a] = "planned"]
    BY <1>2 DEF PlanRestore, PlanImport, NewPlan, liveVars
  <2> QED BY <1>1, <2>1 DEF Frozen, TypeOK
<1>3. CASE BeginAdmin(a)
  <2>1. /\ stage[a] = "planned" /\ locks[Workspace] \in {Nobody, a} /\ rows' = rows
        /\ stage' = [stage EXCEPT ![a] = "open"]
        /\ locks' = [locks EXCEPT ![Workspace] = a]
    BY <1>3 DEF BeginAdmin, SnapshotLockFree, Free, Lock, liveVars
  <2>2. \A b \in Admins : b # a => stage'[b] # "open"
    BY <1>1, <2>1, ConstantsAssumption DEF Frozen, TypeOK, Writers
  <2>3. locks'[Workspace] = a
    BY <1>1, <2>1 DEF TypeOK
  <2>4. ASSUME NEW d \in Rows, want'[a][d] # Untouched PROVE rows'[d].rev = seen'[a][d]
    <3>1. want'[a][d] = IF MustWrite(a, d) THEN plan[a].target[d] ELSE Untouched
      BY <1>1, <1>3 DEF BeginAdmin, TypeOK
    <3>2. seen'[a][d] = IF MustWrite(a, d) THEN rows[d].rev ELSE 0
      BY <1>1, <1>3 DEF BeginAdmin, TypeOK
    <3> QED BY <2>1, <2>4, <3>1, <3>2
  <2> QED BY <2>2, <2>3, <2>4 DEF Frozen
<1>4. CASE \E d \in Rows : UpdateRow(a, d) \/ Rewrite(a, d) \/ Record(a, d)
  BY <1>1, <1>4, RowStepFrozen
<1>5. CASE FinishAdmin(a)
  <2>1. stage[a] = "open" /\ Idle(a)
    BY <1>5 DEF FinishAdmin
  <2>2. \A b \in Admins : b # a => stage[b] # "open"
    BY <2>1 DEF Frozen
  <2> QED BY <1>1, <2>1, <2>2, IdleFrozen
<1>6. CASE Abort(a)
  BY <1>1, <1>6, IdleFrozen DEF Abort, liveVars
<1> QED BY <1>2, <1>3, <1>4, <1>5, <1>6 DEF AdminStep

\* Nothing of this concerns a committer.
LEMMA NextFrozen == Inv /\ Frozen /\ [Next]_vars => Frozen'
<1> SUFFICES ASSUME Inv, Frozen, [Next]_vars PROVE Frozen'
  OBVIOUS
<1>1. CASE UNCHANGED vars
  BY <1>1 DEF vars, Frozen
<1>2. ASSUME NEW c \in Committers, CommitterStep(c) PROVE Frozen'
  <2>1. UNCHANGED <<rows, locks, stage, seen, want>>
    BY <1>2 DEF CommitterStep, LoadScope, ReadLatest, ReadPending, Fail, CommitRequest,
                CommitPreserve, CommitSquash, BuildCommit, liveVars, txVars
  <2> QED BY <2>1 DEF Frozen
<1> QED BY <1>1, <1>2, EditorFrozen, AdminFrozen DEF Next

\* LockWorkspaceSnapshot: a restore or an import rewrites the rows it read, as
\* no editor can publish one while the workspace row is locked.
THEOREM FrozenCorrect == Spec => []FrozenUnderLock
<1>1. Init => Frozen
  BY DEF Init, Frozen, Writers
<1>2. Inv /\ Frozen /\ [Next]_vars => Frozen'
  BY NextFrozen
<1>3. Frozen => FrozenUnderLock
  BY DEF Frozen, FrozenUnderLock
<1> QED BY <1>1, <1>2, <1>3, Invariance, PTL DEF Spec

-----------------------------------------------------------------------------
(* The commits.                                                            *)

\* Heads are positive, so that "committed in commit 0" means uncommitted.
Positive ==
    /\ head > 0
    /\ \A c \in Committers : request[c].step # "idle" => request[c].head > 0

\* The base a request read is a commit's head, maybe not the newest any more.
Bases ==
    \A c \in Committers : request[c].step \in {"based", "ready"} => request[c].base <= LatestHead

\* A request that is ready knows the uncommitted revisions up to its head.
Reads ==
    \A c \in Committers : request[c].step = "ready" =>
        \A r \in revisions :
            r.commit = 0 /\ r.seq <= request[c].head => Id(r) \in request[c].pending

\* Nothing is committed or recorded while an import is at work.
ImportAtHead ==
    \A a \in Admins : stage[a] = "open" /\ plan[a].op = "import" => LatestHead = head

\* The inductive invariant of the commits, relative to Inv and Frozen.
CommitInv ==
    Positive /\ Bases /\ Reads /\ ImportAtHead /\ NoStrandedRevision /\ CommitVersionStable

-----------------------------------------------------------------------------
(* The newest commit and the export, in this state and the next.           *)

Greatest(K) == CHOOSE h \in {c.head : c \in K} : \A c \in K : c.head <= h

\* The newest of a bounded set of commits.
LEMMA GreatestHead ==
    ASSUME NEW K \in SUBSET Commit, K # {}, NEW n \in Nat, \A k \in K : k.head <= n
    PROVE  /\ Greatest(K) \in Nat
           /\ \E k \in K : k.head = Greatest(K)
           /\ \A k \in K : k.head <= Greatest(K)
<1> DEFINE H == {c.head : c \in K}
<1>1. H \in SUBSET Nat /\ H # {} /\ \A x \in H : x <= n
  BY DEF Commit
<1>2. \E m \in H : \A x \in H : x <= m
  <2> HIDE DEF H
  <2> QED BY <1>1, BoundedMaximum
<1>3. \E h \in H : \A c \in K : c.head <= h
  BY <1>2
<1>4. Greatest(K) \in H /\ \A c \in K : c.head <= Greatest(K)
  BY <1>3 DEF Greatest
<1> QED BY <1>1, <1>4

\* LatestHead never decreases, and only a newer commit changes it.
LEMMA LatestGrows ==
    ASSUME Inv, Inv', NEW K, commits' = commits \cup K
    PROVE  /\ LatestHead \in Nat /\ LatestHead' \in Nat /\ LatestHead <= LatestHead'
           /\ LatestHead' = LatestHead \/ \E k \in K : k.head = LatestHead'
           /\ \A k \in commits' : k.head <= LatestHead'
           /\ \A k \in commits : k.head <= LatestHead
<1>1. LatestHead = Greatest(commits) /\ LatestHead' = Greatest(commits')
  BY DEF LatestHead, Greatest
<1>2. commits \in SUBSET Commit /\ commits # {} /\ head \in Nat /\ \A k \in commits : k.head <= head
  BY DEF Inv, TypeOK, HeadsBounded
<1>3. commits' \in SUBSET Commit /\ commits' # {} /\ head' \in Nat
      /\ \A k \in commits' : k.head <= head'
  BY DEF Inv, TypeOK, HeadsBounded
<1>4. /\ Greatest(commits) \in Nat
      /\ \E k \in commits : k.head = Greatest(commits)
      /\ \A k \in commits : k.head <= Greatest(commits)
  BY <1>2, GreatestHead
<1>5. /\ Greatest(commits') \in Nat
      /\ \E k \in commits' : k.head = Greatest(commits')
      /\ \A k \in commits' : k.head <= Greatest(commits')
  BY <1>3, GreatestHead
<1>6. Greatest(commits) <= Greatest(commits')
  BY <1>4, <1>5
<1>7. Greatest(commits') = Greatest(commits) \/ \E k \in K : k.head = Greatest(commits')
  <2>1. PICK k \in commits' : k.head = Greatest(commits')
    BY <1>5
  <2>2. CASE k \in commits
    <3>1. Greatest(commits') <= Greatest(commits)
      BY <1>4, <2>1, <2>2
    <3> QED BY <1>4, <1>5, <1>6, <3>1
  <2> QED BY <2>1, <2>2
<1>8. LatestHead \in Nat /\ LatestHead' \in Nat /\ LatestHead <= LatestHead'
  BY <1>1, <1>4, <1>5, <1>6
<1>9. LatestHead' = LatestHead \/ \E k \in K : k.head = LatestHead'
  BY <1>1, <1>7
<1>10. (\A k \in commits' : k.head <= LatestHead') /\ (\A k \in commits : k.head <= LatestHead)
  BY <1>1, <1>4, <1>5
<1> QED BY <1>8, <1>9, <1>10

\* The newest commit of the next state.
LEMMA LatestHeadNext ==
    ASSUME Inv'
    PROVE  /\ LatestHead' \in Nat /\ head' \in Nat /\ LatestHead' <= head'
           /\ \A k \in commits' : k.head <= LatestHead'
<1>1. LatestHead' = Greatest(commits')
  BY DEF LatestHead, Greatest
<1>2. commits' \in SUBSET Commit /\ commits' # {} /\ head' \in Nat
      /\ \A k \in commits' : k.head <= head'
  BY DEF Inv, TypeOK, HeadsBounded
<1>3. /\ Greatest(commits') \in Nat
      /\ \E k \in commits' : k.head = Greatest(commits')
      /\ \A k \in commits' : k.head <= Greatest(commits')
  BY <1>2, GreatestHead
<1> QED BY <1>1, <1>2, <1>3

\* An export depends on the revisions up to its head only, and not on how they
\* are marked.
LEMMA ExportSame ==
    ASSUME NEW revs \in SUBSET Revision, NEW revs2 \in SUBSET Revision, NEW n \in Nat,
           \A q1, q2 \in revs2 : q1.seq = q2.seq => q1 = q2,
           \A r \in revs : r.seq <= n => \E q \in revs2 : Alike(r, q),
           \A q \in revs2 : q.seq <= n => \E r \in revs : Alike(r, q)
    PROVE  Export(revs2, n) = Export(revs, n)
<1> DEFINE known  == {r \in revs : r.seq <= n}
           known2 == {r \in revs2 : r.seq <= n}
<1>1. known \in SUBSET Revision /\ known2 \in SUBSET Revision
      /\ (\A r \in known : r.seq <= n) /\ (\A r \in known2 : r.seq <= n)
  OBVIOUS
<1>2. \A r \in known : \E q \in known2 : Alike(r, q)
  BY DEF Alike
<1>3. \A q \in known2 : \E r \in known : Alike(r, q)
  BY DEF Alike
<1>4. \A q1, q2 \in known2 : q1.seq = q2.seq => q1 = q2
  OBVIOUS
<1>5. \A r \in known \cup known2 : r.seq \in Nat
  BY DEF Revision
<1> HIDE DEF known, known2
<1>6. ASSUME NEW d \in Rows
      PROVE  (IF \E r \in known2 : r.doc = d THEN LastOf(known2, d).body ELSE Gone)
              = (IF \E r \in known : r.doc = d THEN LastOf(known, d).body ELSE Gone)
  <2>1. (\E r \in known2 : r.doc = d) <=> (\E r \in known : r.doc = d)
    BY <1>2, <1>3 DEF Alike
  <2>2. SUFFICES ASSUME \E r \in known : r.doc = d
                 PROVE  LastOf(known2, d).body = LastOf(known, d).body
    BY <2>1
  <2>3. /\ LastOf(known, d) \in known /\ LastOf(known, d).doc = d
        /\ \A q \in known : q.doc = d => q.seq <= LastOf(known, d).seq
    BY <1>1, <2>2, LastOfIsLast
  <2>4. /\ LastOf(known2, d) \in known2 /\ LastOf(known2, d).doc = d
        /\ \A q \in known2 : q.doc = d => q.seq <= LastOf(known2, d).seq
    BY <1>1, <2>1, <2>2, LastOfIsLast
  <2>5. PICK q \in known2 : Alike(LastOf(known, d), q)
    BY <1>2, <2>3
  <2>6. PICK r \in known : Alike(r, LastOf(known2, d))
    BY <1>3, <2>4
  <2>7. q.seq <= LastOf(known2, d).seq /\ LastOf(known2, d).seq <= q.seq
    BY <2>3, <2>4, <2>5, <2>6 DEF Alike
  <2>8. q.seq = LastOf(known2, d).seq
    BY <1>5, <2>4, <2>7
  <2>9. q = LastOf(known2, d)
    BY <1>4, <2>4, <2>8
  <2> QED BY <2>5, <2>9 DEF Alike
<1> QED BY <1>6 DEF Export, known, known2

-----------------------------------------------------------------------------
(* Steps.                                                                  *)

\* A step that adds the commits K and changes no revision up to the newest
\* commit other than by marking it keeps what the commits promise, if the
\* uncommitted revisions lie after K and are old ones or new ones.
LEMMA HistoryGoesOn ==
    ASSUME Inv, Inv', CommitInv, NEW K, commits' = commits \cup K,
           \A k \in K : k.version = Export(revisions', k.head)
                        /\ \A q \in revisions' : q.commit = 0 => q.seq > k.head,
           \A r \in revisions : r.seq <= LatestHead => \E q \in revisions' : Alike(r, q),
           \A q \in revisions' : q.seq <= LatestHead => \E r \in revisions : Alike(r, q),
           \A q \in revisions' : q.commit = 0 => q \in revisions \/ q.seq > head,
           \A c \in Committers : request'[c] = request[c] \/ request'[c] = NoRequest
    PROVE  Bases' /\ Reads' /\ NoStrandedRevision' /\ CommitVersionStable'
<1>1. /\ LatestHead \in Nat /\ LatestHead' \in Nat /\ LatestHead <= LatestHead'
      /\ LatestHead' = LatestHead \/ \E k \in K : k.head = LatestHead'
      /\ \A k \in commits : k.head <= LatestHead
  BY LatestGrows
<1>2. /\ revisions \in SUBSET Revision /\ revisions' \in SUBSET Revision
      /\ commits \in SUBSET Commit /\ head \in Nat /\ LatestHead <= head
      /\ \A q1, q2 \in revisions' : q1.seq = q2.seq => q1 = q2
  BY LatestHeadIsMaximum DEF Inv, TypeOK, SequenceTracksHead
<1>3. \A c \in Committers : /\ request[c].base \in Nat /\ request[c].head \in Nat
                            /\ request[c].head <= head
  BY DEF Inv, TypeOK, HeadsBounded, Request
<1>4. Bases'
  BY <1>1, <1>3 DEF CommitInv, Bases, NoRequest
<1>5. Reads'
  <2> SUFFICES ASSUME NEW c \in Committers, request'[c].step = "ready",
                      NEW r \in revisions', r.commit = 0, r.seq <= request'[c].head
               PROVE  Id(r) \in request'[c].pending
    BY DEF Reads
  <2>1. request'[c] = request[c]
    BY DEF NoRequest
  <2>2. r.seq \in Nat
    BY <1>2 DEF Revision
  <2>3. r \in revisions
    BY <1>2, <1>3, <2>1, <2>2
  <2> QED BY <2>1, <2>3 DEF CommitInv, Reads
<1>6. NoStrandedRevision'
  <2> SUFFICES ASSUME NEW q \in revisions', q.commit = 0 PROVE q.seq > LatestHead'
    BY DEF NoStrandedRevision
  <2>1. q.seq \in Nat
    BY <1>2 DEF Revision
  <2>2. q.seq > LatestHead
    BY <1>1, <1>2, <2>1 DEF CommitInv, NoStrandedRevision
  <2> QED BY <1>1, <2>2
<1>7. CommitVersionStable'
  <2> SUFFICES ASSUME NEW k \in commits' PROVE Export(revisions', k.head) = k.version
    BY DEF CommitVersionStable
  <2>1. CASE k \in K
    BY <2>1
  <2>2. CASE k \in commits
    <3>1. k.head \in Nat /\ k.head <= LatestHead
      BY <1>1, <1>2, <2>2 DEF Commit
    <3>2. \A r \in Revision : r.seq \in Nat
      BY DEF Revision
    <3>3. /\ \A r \in revisions : r.seq <= k.head => \E q \in revisions' : Alike(r, q)
          /\ \A q \in revisions' : q.seq <= k.head => \E r \in revisions : Alike(r, q)
      BY <1>1, <1>2, <3>1, <3>2
    <3>4. Export(revisions', k.head) = Export(revisions, k.head)
      BY <1>2, <3>1, <3>3, ExportSame
    <3> QED BY <2>2, <3>4 DEF CommitInv, CommitVersionStable
  <2> QED BY <2>1, <2>2
<1> QED BY <1>4, <1>5, <1>6, <1>7

\* What Attach leaves uncommitted was not to be attached.
LEMMA AttachedAreCommitted ==
    ASSUME NEW revs \in SUBSET Revision, NEW ids, NEW h \in Nat, h > 0,
           NEW q \in Attach(revs, ids, h), q.commit = 0
    PROVE  q \in revs /\ Id(q) \notin ids
<1>1. PICK r \in revs : q = IF Id(r) \in ids THEN Committed(r, h) ELSE r
  BY DEF Attach
<1>2. Committed(r, h).commit = h
  BY <1>1, MarkedRevision
<1> QED BY <1>1, <1>2

\* The COMMIT of an editor.
LEMMA CommitEditKeeps ==
    ASSUME Inv, Inv', CommitInv, NEW e \in Editors, CommitEdit(e)
    PROVE  Bases' /\ Reads' /\ NoStrandedRevision' /\ CommitVersionStable'
<1>1. revisions' = revisions \cup fresh[e] /\ commits' = commits \cup {} /\ request' = request
  BY DEF CommitEdit
<1>2. ASSUME NEW r \in fresh[e] PROVE r.seq > head
  <2>1. Disciplined(e) /\ r.seq \in Nat /\ head \in Nat
    BY FieldTypes DEF Inv, LockDiscipline, Writers
  <2> QED BY <1>2, <2>1 DEF Disciplined, Continues
<1>3. LatestHead \in Nat /\ LatestHead <= head /\ head \in Nat
  BY LatestHeadIsMaximum DEF Inv, TypeOK
<1>4. \A r \in Revision : r.seq \in Nat
  BY DEF Revision
<1>5. revisions' \in SUBSET Revision
  BY DEF Inv, TypeOK
<1>6. \A r \in revisions : Alike(r, r)
  BY DEF Alike
<1>7. \A q \in revisions' : q.seq <= LatestHead => q \in revisions
  BY <1>1, <1>2, <1>3, <1>4, <1>5
<1>8. \A r \in revisions : \E q \in revisions' : Alike(r, q)
  BY <1>1, <1>6
<1>9. \A q \in revisions' : q.seq <= LatestHead => \E r \in revisions : Alike(r, q)
  BY <1>6, <1>7
<1>10. \A q \in revisions' : q.commit = 0 => q \in revisions \/ q.seq > head
  BY <1>1, <1>2
<1> DEFINE K == {}
<1>11. \A k \in K : k.version = Export(revisions', k.head)
                      /\ \A q \in revisions' : q.commit = 0 => q.seq > k.head
  OBVIOUS
<1>12. commits' = commits \cup K
  BY <1>1
<1> HIDE DEF K
<1> QED BY <1>1, <1>8, <1>9, <1>10, <1>11, <1>12, HistoryGoesOn

\* Attaching revisions of the committed history to a new commit.
LEMMA AttachKeeps ==
    ASSUME Inv, Inv', CommitInv, NEW ids, NEW h \in Nat, h > 0, NEW base, NEW target,
           revisions' = Attach(revisions, ids, h),
           commits' = commits \cup {NewCommit(h, base, target)},
           \A r \in revisions : r.commit = 0 /\ r.seq <= h => Id(r) \in ids,
           \A c \in Committers : request'[c] = request[c] \/ request'[c] = NoRequest
    PROVE  Bases' /\ Reads' /\ NoStrandedRevision' /\ CommitVersionStable'
<1>1. revisions \in SUBSET Revision
  BY DEF Inv, TypeOK
<1>2. /\ \A q \in revisions' : \E r \in revisions : Alike(r, q)
      /\ \A r \in revisions : \E q \in revisions' : Alike(r, q)
  BY <1>1, AttachMarksOnly
<1>3. \A q \in revisions' : q.commit = 0 => q \in revisions /\ Id(q) \notin ids
  BY <1>1, AttachedAreCommitted
<1>4. \A q \in revisions' : q.commit = 0 => q.seq > h
  <2>1. \A q \in revisions : q.seq \in Nat
    BY <1>1 DEF Revision
  <2> QED BY <1>3, <2>1
<1> DEFINE k == NewCommit(h, base, target)
<1>5. k.head = h /\ k.version = Export(revisions', k.head)
  BY DEF NewCommit
<1> DEFINE K == {k}
<1>6. commits' = commits \cup K
  OBVIOUS
<1> HIDE DEF k
<1>7. \A m \in K : m.version = Export(revisions', m.head)
                      /\ \A q \in revisions' : q.commit = 0 => q.seq > m.head
  BY <1>4, <1>5
<1>8. \A q \in revisions' : q.commit = 0 => q \in revisions \/ q.seq > head
  BY <1>3
<1> HIDE DEF K
<1>9. /\ \A r \in revisions : r.seq <= LatestHead => \E q \in revisions' : Alike(r, q)
      /\ \A q \in revisions' : q.seq <= LatestHead => \E r \in revisions : Alike(r, q)
  BY <1>2
<1> QED BY <1>6, <1>7, <1>8, <1>9, HistoryGoesOn

\* The two policies of commits.Create, and CreateFromBuild.
LEMMA CommitPreserveKeeps ==
    ASSUME Inv, Inv', CommitInv, NEW c \in Committers, CommitPreserve(c)
    PROVE  Bases' /\ Reads' /\ NoStrandedRevision' /\ CommitVersionStable'
<1> DEFINE h   == request[c].head
           ids == request[c].pending
           target == Export(revisions', h)
<1>1. request \in [Committers -> Request] /\ request[c].step = "ready"
  BY DEF Inv, TypeOK, CommitPreserve
<1>2. h \in Nat /\ h > 0
  BY <1>1 DEF CommitInv, Positive, Request
<1>3. /\ revisions' = Attach(revisions, ids, h)
      /\ commits' = commits \cup {NewCommit(h, request[c].base, target)}
  BY DEF CommitPreserve, CommitHead
<1>4. \A r \in revisions : r.commit = 0 /\ r.seq <= h => Id(r) \in ids
  BY <1>1 DEF CommitInv, Reads
<1>5. \A x \in Committers : request'[x] = request[x] \/ request'[x] = NoRequest
  BY <1>1 DEF CommitPreserve, Answer
<1> HIDE DEF h, ids, target
<1> QED BY <1>2, <1>3, <1>4, <1>5, AttachKeeps

LEMMA BuildCommitKeeps ==
    ASSUME Inv, Inv', CommitInv, NEW c \in Committers, BuildCommit(c)
    PROVE  Bases' /\ Reads' /\ NoStrandedRevision' /\ CommitVersionStable'
<1> DEFINE ids == {Id(r) : r \in Pending(revisions, LatestHead)}
           target == Export(revisions', head)
<1>1. head \in Nat /\ head > 0
  BY DEF Inv, TypeOK, CommitInv, Positive
<1>2. /\ revisions' = Attach(revisions, ids, head)
      /\ commits' = commits \cup {NewCommit(head, LatestHead, target)}
      /\ request' = request
  BY DEF BuildCommit
<1>3. \A r \in revisions : r.commit = 0 => Id(r) \in ids
  BY DEF Pending, CommitInv, NoStrandedRevision
<1> HIDE DEF ids, target
<1> QED BY <1>1, <1>2, <1>3, AttachKeeps

LEMMA CommitSquashKeeps ==
    ASSUME Inv, Inv', CommitInv, NEW c \in Committers, CommitSquash(c)
    PROVE  Bases' /\ Reads' /\ NoStrandedRevision' /\ CommitVersionStable'
<1> DEFINE h    == request[c].head
           base == request[c].base
           old  == Pending(revisions, base)
           mark(r) == Committed(Squashed(r), h)
           kept == {mark(r) : r \in LastPerRow(old)}
           k    == NewCommit(h, base, Export(revisions', h))
           K    == {k}
<1>1. request \in [Committers -> Request] /\ request[c].step = "ready"
      /\ revisions \in SUBSET Revision
  BY DEF Inv, TypeOK, CommitSquash
<1>2. h \in Nat /\ h > 0 /\ base \in Nat /\ base <= LatestHead /\ LatestHead \in Nat
  BY <1>1, LatestHeadIsMaximum DEF Inv, CommitInv, Positive, Bases, Request
<1>3. revisions' = (revisions \ old) \cup kept /\ commits' = commits \cup K
  BY DEF CommitSquash, CommitHead
<1>4. \A r \in old : r \in revisions /\ r.commit = 0
  BY DEF Pending
<1>5. \A r \in revisions : r.commit = 0 => r \in old /\ r.seq > LatestHead
  <2>1. \A r \in revisions : r.commit = 0 => r.seq > LatestHead /\ r.seq \in Nat
    BY <1>1 DEF CommitInv, NoStrandedRevision, Revision
  <2> QED BY <1>2, <2>1 DEF Pending
<1>6. LastPerRow(old) \subseteq old
  <2>1. old \in SUBSET Revision /\ head \in Nat /\ \A r \in old : r.seq <= head
    BY <1>1, <1>4 DEF Inv, TypeOK, SequenceTracksHead
  <2> HIDE DEF old
  <2> QED BY <2>1, LastOfIsLast DEF LastPerRow
<1>7. \A r \in Revision : mark(r).commit = h /\ Alike(r, mark(r))
  <2> SUFFICES ASSUME NEW r \in Revision PROVE mark(r).commit = h /\ Alike(r, mark(r))
    OBVIOUS
  <2>1. Squashed(r) \in Revision /\ Alike(r, Squashed(r))
    BY <1>2, MarkedRevision DEF Alike
  <2>2. mark(r).commit = h /\ Alike(Squashed(r), mark(r))
    BY <1>2, <2>1, MarkedRevision DEF Alike
  <2> QED BY <2>1, <2>2 DEF Alike
<1>8. k.head = h /\ k.version = Export(revisions', k.head)
  BY DEF NewCommit
<1>9. \A x \in Committers : request'[x] = request[x] \/ request'[x] = NoRequest
  BY <1>1 DEF CommitSquash, Answer
<1> HIDE DEF h, base, old, mark, k
<1>10. \A q \in kept : \E r \in old : q.commit = h /\ Alike(r, q)
  BY <1>1, <1>4, <1>6, <1>7
<1> HIDE DEF kept
<1>11. \A q \in revisions' : q.commit # 0
  <2>1. \A q \in kept : q.commit # 0
    BY <1>2, <1>10
  <2>2. \A q \in revisions \ old : q.commit # 0
    BY <1>5
  <2> QED BY <1>3, <2>1, <2>2
<1>12. \A m \in K : m.version = Export(revisions', m.head)
                       /\ \A q \in revisions' : q.commit = 0 => q.seq > m.head
  BY <1>8, <1>11
<1>13. \A r \in Revision : r.seq \in Nat /\ Alike(r, r)
  BY DEF Revision, Alike
<1>14. \A r \in revisions : r.seq <= LatestHead => \E q \in revisions' : Alike(r, q)
  <2> SUFFICES ASSUME NEW r \in revisions, r.seq <= LatestHead PROVE r \in revisions' /\ Alike(r, r)
    OBVIOUS
  <2>1. r \notin old
    BY <1>1, <1>2, <1>4, <1>5, <1>13
  <2> QED BY <1>1, <1>3, <1>13, <2>1
<1>15. \A q \in revisions' : q.seq <= LatestHead => \E r \in revisions : Alike(r, q)
  BY <1>1, <1>3, <1>4, <1>10, <1>13
<1>16. \A q \in revisions' : q.commit = 0 => q \in revisions \/ q.seq > head
  BY <1>11
<1> HIDE DEF K
<1> QED BY <1>3, <1>9, <1>12, <1>14, <1>15, <1>16, HistoryGoesOn

\* A restore commits whatever was pending; an import found nothing pending.
LEMMA FinishAdminCommitsAll ==
    ASSUME Inv, CommitInv, NEW a \in Admins, FinishAdmin(a)
    PROVE  \A r \in revisions' : r.commit # 0
<1> DEFINE all == revisions \cup fresh[a]
           ids == {Id(r) : r \in Adopted(a)}
<1>1. a \in Writers /\ stage[a] = "open" /\ Publish(a)
  BY DEF FinishAdmin, Writers
<1>2. revisions' = Attach(all, ids, head')
  BY DEF FinishAdmin
<1>3. all \in SUBSET Revision
  BY <1>1, FieldTypes DEF Inv, TypeOK
<1>4. head \in Nat /\ head' \in Nat /\ head' > 0 /\ LatestHead \in Nat /\ LatestHead <= head
  <2>1. head \in Nat /\ head > 0 /\ LatestHead \in Nat /\ LatestHead <= head
    BY LatestHeadIsMaximum DEF Inv, TypeOK, CommitInv, Positive
  <2>2. head' \in Nat /\ head <= head'
    BY <1>1, PublishType
  <2> QED BY <2>1, <2>2
<1>5. ASSUME NEW r \in fresh[a] PROVE r.seq > head
  <2>1. Disciplined(a) /\ r.seq \in Nat
    BY <1>1, FieldTypes DEF Inv, LockDiscipline
  <2> QED BY <1>4, <1>5, <2>1 DEF Disciplined, Continues
<1>6. \A r \in Revision : r.seq \in Nat
  BY DEF Revision
<1>7. \A r \in all : r.commit = 0 => Id(r) \in ids
  <2> SUFFICES ASSUME NEW r \in all, r.commit = 0 PROVE r \in Adopted(a)
    OBVIOUS
  <2>1. r \in revisions => r.seq > LatestHead
    BY DEF CommitInv, NoStrandedRevision
  <2>2. CASE plan[a].op = "restore"
    <3>1. r.seq > LatestHead
      BY <1>3, <1>4, <1>5, <1>6, <2>1
    <3> QED BY <2>2, <3>1 DEF Adopted, Pending
  <2>3. CASE plan[a].op # "restore"
    <3>1. plan[a].op = "import"
      BY <1>1, <2>3 DEF Inv, HeadsBounded, Plan
    <3>2. LatestHead = head
      BY <1>1, <3>1 DEF CommitInv, ImportAtHead
    <3>3. r \in revisions => r.seq <= head
      BY DEF Inv, SequenceTracksHead
    <3>4. r \in fresh[a]
      BY <1>3, <1>4, <1>6, <2>1, <3>2, <3>3
    <3> QED BY <2>3, <3>4 DEF Adopted
  <2> QED BY <2>2, <2>3
<1> HIDE DEF all, ids
<1> QED BY <1>2, <1>3, <1>4, <1>7, AttachedAreCommitted

\* The end of a restore or an import.
LEMMA FinishAdminKeeps ==
    ASSUME Inv, Inv', CommitInv, NEW a \in Admins, FinishAdmin(a)
    PROVE  Bases' /\ Reads' /\ NoStrandedRevision' /\ CommitVersionStable'
<1> DEFINE all == revisions \cup fresh[a]
           ids == {Id(r) : r \in Adopted(a)}
           k   == NewCommit(head', LatestHead, plan[a].target)
           K   == {k}
<1>1. a \in Writers /\ stage[a] = "open" /\ Publish(a)
  BY DEF FinishAdmin, Writers
<1>2. /\ revisions' = Attach(all, ids, head') /\ commits' = commits \cup K
      /\ request' = request
  BY DEF FinishAdmin
<1>3. all \in SUBSET Revision /\ revisions \in SUBSET Revision
  BY <1>1, FieldTypes DEF Inv, TypeOK
<1>4. head \in Nat /\ head' \in Nat /\ head' > 0 /\ LatestHead \in Nat /\ LatestHead <= head
  <2>1. head \in Nat /\ head > 0 /\ LatestHead \in Nat /\ LatestHead <= head
    BY LatestHeadIsMaximum DEF Inv, TypeOK, CommitInv, Positive
  <2>2. head' \in Nat /\ head <= head'
    BY <1>1, PublishType
  <2> QED BY <2>1, <2>2
<1>5. ASSUME NEW r \in fresh[a] PROVE r.seq > head
  <2>1. Disciplined(a) /\ r.seq \in Nat
    BY <1>1, FieldTypes DEF Inv, LockDiscipline
  <2> QED BY <1>4, <1>5, <2>1 DEF Disciplined, Continues
<1>6. \A r \in Revision : r.seq \in Nat /\ Alike(r, r)
  BY DEF Revision, Alike
<1>8. k.head = head' /\ k.version = Export(revisions', k.head)
  BY DEF NewCommit
<1> HIDE DEF all, ids, k
<1>9. \A q \in revisions' : q.commit # 0
  BY FinishAdminCommitsAll
<1>10. /\ \A q \in revisions' : \E r \in all : Alike(r, q)
       /\ \A r \in all : \E q \in revisions' : Alike(r, q)
  BY <1>2, <1>3, <1>4, AttachMarksOnly
<1>11. \A m \in K : m.version = Export(revisions', m.head)
                       /\ \A q \in revisions' : q.commit = 0 => q.seq > m.head
  BY <1>8, <1>9
<1>12. \A r \in revisions : r.seq <= LatestHead => \E q \in revisions' : Alike(r, q)
  BY <1>10 DEF all
<1>13. \A q \in revisions' : q.seq <= LatestHead => \E r \in revisions : Alike(r, q)
  <2> SUFFICES ASSUME NEW q \in revisions', q.seq <= LatestHead
               PROVE  \E r \in revisions : Alike(r, q)
    OBVIOUS
  <2>1. PICK r \in all : Alike(r, q)
    BY <1>10
  <2>2. r.seq = q.seq /\ r.seq \in Nat
    BY <1>3, <1>6, <2>1 DEF Alike
  <2>3. r \in revisions
    BY <1>4, <1>5, <2>2 DEF all
  <2> QED BY <2>1, <2>3
<1>14. \A q \in revisions' : q.commit = 0 => q \in revisions \/ q.seq > head
  BY <1>9
<1> HIDE DEF K
<1> QED BY <1>2, <1>11, <1>12, <1>13, <1>14, HistoryGoesOn

\* The reads of a commit request.
LEMMA ReadingKeeps ==
    ASSUME Inv, CommitInv, NEW c \in Committers,
           LoadScope(c) \/ ReadLatest(c) \/ ReadPending(c) \/ Fail(c)
    PROVE  CommitInv'
<1>1. /\ request \in [Committers -> Request] /\ head \in Nat /\ LatestHead \in Nat
      /\ \A r \in revisions : r.seq \in Nat
  BY LatestHeadIsMaximum DEF Inv, TypeOK, Revision
<1>2. /\ UNCHANGED <<head, revisions, commits, stage, plan>>
      /\ \A x \in Committers \ {c} : request'[x] = request[x]
  BY <1>1 DEF LoadScope, ReadLatest, ReadPending, Fail, Answer, liveVars, txVars
<1>3. LatestHead' = LatestHead
  BY <1>2 DEF LatestHead
<1>4. ImportAtHead' /\ NoStrandedRevision' /\ CommitVersionStable'
  BY <1>2, <1>3 DEF CommitInv, ImportAtHead, NoStrandedRevision, CommitVersionStable
<1>5. /\ request'[c].step # "idle" => request'[c].head > 0
      /\ request'[c].step \in {"based", "ready"} => request'[c].base <= LatestHead
      /\ request'[c].step = "ready" =>
            \A r \in revisions : r.commit = 0 /\ r.seq <= request'[c].head
                                     => Id(r) \in request'[c].pending
  <2>1. CASE LoadScope(c)
    BY <1>1, <2>1 DEF LoadScope, CommitInv, Positive
  <2>2. CASE ReadLatest(c)
    <3> DEFINE q == [request[c] EXCEPT !.step = "based", !.base = LatestHead]
    <3>1. request'[c] = q
      BY <1>1, <2>2 DEF ReadLatest
    <3>2. request[c].step = "scoped" /\ request[c].head > 0
      BY <2>2 DEF ReadLatest, CommitInv, Positive
    <3>3. q.step = "based" /\ q.head = request[c].head /\ q.base = LatestHead
      BY <1>1 DEF Request
    <3> QED BY <1>1, <3>1, <3>2, <3>3
  <2>3. CASE ReadPending(c)
    <3> DEFINE found == {Id(r) : r \in Pending(revisions, request[c].base)}
               q == [request[c] EXCEPT !.step = "ready", !.pending = found]
    <3>1. request[c].step = "based" /\ (request'[c] = NoRequest \/ request'[c] = q)
      BY <1>1, <2>3 DEF ReadPending, Answer
    <3>2. request[c].head > 0 /\ request[c].base <= LatestHead /\ request[c].base \in Nat
      BY <1>1, <3>1 DEF CommitInv, Positive, Bases, Request
    <3>3. q.step = "ready" /\ q.head = request[c].head /\ q.base = request[c].base
          /\ q.pending = found
      BY <1>1 DEF Request
    <3>4. \A r \in revisions : r.commit = 0 => Id(r) \in found
      BY <1>1, <3>2 DEF Pending, CommitInv, NoStrandedRevision
    <3> HIDE DEF q, found
    <3> QED BY <3>1, <3>2, <3>3, <3>4 DEF NoRequest
  <2>4. CASE Fail(c)
    BY <1>1, <2>4 DEF Fail, Answer, NoRequest
  <2> QED BY <2>1, <2>2, <2>3, <2>4
<1>6. Positive' /\ Bases' /\ Reads'
  BY <1>2, <1>3, <1>5 DEF CommitInv, Positive, Bases, Reads
<1> QED BY <1>4, <1>6 DEF CommitInv

-----------------------------------------------------------------------------
(* The invariant.                                                          *)

\* Heads stay positive.
LEMMA PositiveStep ==
    ASSUME Inv, Positive, head' \in Nat, head <= head',
           \A c \in Committers : request'[c] = request[c] \/ request'[c] = NoRequest
    PROVE  Positive'
<1>1. head \in Nat
  BY DEF Inv, TypeOK
<1> QED BY <1>1 DEF Positive, NoRequest

\* A step that publishes no head and no commit leaves an import alone.
LEMMA QuietImport ==
    ASSUME CommitInv, UNCHANGED <<head, commits, stage, plan>>
    PROVE  ImportAtHead'
<1>1. LatestHead' = LatestHead
  BY DEF LatestHead
<1> QED BY <1>1 DEF CommitInv, ImportAtHead

\* The statements of an open transaction touch none of this.
LEMMA RowStepKeeps ==
    ASSUME CommitInv, NEW w \in Writers, NEW d \in Rows,
           UpdateRow(w, d) \/ Cascade(w, d) \/ Rewrite(w, d) \/ Record(w, d)
    PROVE  CommitInv'
<1>1. UNCHANGED <<head, revisions, commits, stage, plan, request>>
  BY DEF UpdateRow, Cascade, Rewrite, Record, liveVars
<1>2. LatestHead' = LatestHead
  BY <1>1 DEF LatestHead
<1> QED BY <1>1, <1>2 DEF CommitInv, Positive, Bases, Reads, ImportAtHead,
           NoStrandedRevision, CommitVersionStable

\* The beginning and the failure of a transaction.
LEMMA EdgeKeeps ==
    ASSUME CommitInv, UNCHANGED <<head, revisions, commits, request>>,
           \A a \in Admins : stage'[a] = "open" =>
               (stage[a] = "open" /\ plan'[a] = plan[a])
                 \/ (plan'[a].op = "import" => LatestHead = head)
    PROVE  CommitInv'
<1>1. LatestHead' = LatestHead
  BY DEF LatestHead
<1> QED BY <1>1 DEF CommitInv, Positive, Bases, Reads, ImportAtHead,
           NoStrandedRevision, CommitVersionStable

\* The steps of an editor.
LEMMA EditorKeeps ==
    ASSUME Inv, Inv', Frozen, CommitInv, NEW e \in Editors, EditorStep(e)
    PROVE  CommitInv'
<1>1. e \in Writers /\ e \notin Admins /\ TypeOK
  BY ConstantsAssumption DEF Writers, Inv
<1>2. CASE \E D \in SUBSET Rows : \E f \in [D -> Bodies] : Load(e, f)
  <2>1. UNCHANGED <<head, revisions, commits, request>> /\ plan' = plan
    BY <1>2 DEF Load, liveVars
  <2>2. \A a \in Admins : stage'[a] = stage[a]
    BY <1>1, <1>2 DEF Load, TypeOK, Writers
  <2> QED BY <2>1, <2>2, EdgeKeeps
<1>3. CASE \E d \in Rows : UpdateRow(e, d) \/ Cascade(e, d) \/ Record(e, d)
  BY <1>1, <1>3, RowStepKeeps
<1>4. CASE CommitEdit(e)
  <2>1. stage[e] = "open" /\ Complete(e) /\ Publish(e) /\ Idle(e) /\ commits' = commits
        /\ request' = request
    BY <1>4 DEF CommitEdit
  <2>2. head \in Nat /\ head' \in Nat /\ head <= head' /\ drawn[e] \in Nat
    BY <1>1, <2>1, PublishType, FieldTypes
  <2>3. Positive'
    BY <2>1, <2>2, PositiveStep DEF CommitInv
  <2>4. ImportAtHead'
    <3> SUFFICES ASSUME NEW a \in Admins, stage'[a] = "open", plan'[a].op = "import"
                 PROVE  LatestHead' = head'
      BY DEF ImportAtHead
    <3>1. stage[a] = "open" /\ plan'[a] = plan[a] /\ a # e
      BY <1>1, <2>1 DEF Idle, TypeOK, Writers
    <3>2. locks[Workspace] # e
      BY <3>1 DEF Frozen
    <3>3. ~ (drawn[e] > 0)
      BY <1>1, <3>2 DEF Inv, LockDiscipline, Disciplined, HoldsSequence
    <3>4. head' = head
      BY <2>1, <2>2, <3>3 DEF Publish
    <3>5. LatestHead' = LatestHead
      BY <2>1 DEF LatestHead
    <3> QED BY <3>1, <3>4, <3>5 DEF CommitInv, ImportAtHead
  <2> QED BY <1>4, <2>3, <2>4, CommitEditKeeps DEF CommitInv
<1>5. CASE Abort(e)
  <2>1. UNCHANGED <<head, revisions, commits, request>> /\ Idle(e)
    BY <1>5 DEF Abort, liveVars
  <2>2. \A a \in Admins : stage'[a] = stage[a] /\ plan'[a] = plan[a]
    BY <1>1, <2>1 DEF Idle, TypeOK, Writers
  <2> QED BY <2>1, <2>2, EdgeKeeps
<1> QED BY <1>2, <1>3, <1>4, <1>5 DEF EditorStep

\* The steps of an admin.
LEMMA AdminKeeps ==
    ASSUME Inv, Inv', Frozen, CommitInv, NEW a \in Admins, AdminStep(a)
    PROVE  CommitInv'
<1>1. a \in Writers /\ TypeOK
  BY DEF Writers, Inv
<1>2. CASE PlanRestore(a) \/ PlanImport(a)
  <2>1. UNCHANGED <<head, revisions, commits, request>> /\ stage[a] = "idle"
        /\ stage' = [stage EXCEPT ![a] = "planned"]
    BY <1>2 DEF PlanRestore, PlanImport, NewPlan, liveVars
  <2>2. \A b \in Admins : b # a => plan'[b] = plan[b]
    BY <1>1, <1>2 DEF PlanRestore, PlanImport, NewPlan, TypeOK, Writers
  <2>3. stage'[a] # "open" /\ \A b \in Admins : b # a => stage'[b] = stage[b]
    BY <1>1, <2>1 DEF TypeOK, Writers
  <2> QED BY <2>1, <2>2, <2>3, EdgeKeeps
<1>3. CASE BeginAdmin(a)
  <2>1. UNCHANGED <<head, revisions, commits, request, plan>>
        /\ (plan[a].op = "import" => LatestHead = head)
        /\ stage' = [stage EXCEPT ![a] = "open"]
    BY <1>3 DEF BeginAdmin, liveVars
  <2>2. \A b \in Admins : b # a => stage'[b] = stage[b]
    BY <1>1, <2>1 DEF TypeOK, Writers
  <2> QED BY <2>1, <2>2, EdgeKeeps
<1>4. CASE \E d \in Rows : UpdateRow(a, d) \/ Rewrite(a, d) \/ Record(a, d)
  BY <1>1, <1>4, RowStepKeeps
<1>5. CASE FinishAdmin(a)
  <2>1. stage[a] = "open" /\ Publish(a) /\ Idle(a) /\ request' = request
    BY <1>5 DEF FinishAdmin
  <2>2. head' \in Nat /\ head <= head'
    BY <1>1, <2>1, PublishType
  <2>3. Positive'
    BY <2>1, <2>2, PositiveStep DEF CommitInv
  <2>4. \A b \in Admins : stage'[b] # "open"
    <3>1. \A b \in Admins : b # a => stage[b] # "open"
      BY <2>1 DEF Frozen
    <3> QED BY <1>1, <2>1, <3>1 DEF Idle, TypeOK, Writers
  <2>5. ImportAtHead'
    BY <2>4 DEF ImportAtHead
  <2> QED BY <1>5, <2>3, <2>5, FinishAdminKeeps DEF CommitInv
<1>6. CASE Abort(a)
  <2>1. UNCHANGED <<head, revisions, commits, request>> /\ Idle(a)
    BY <1>6 DEF Abort, liveVars
  <2>2. \A b \in Admins : b # a => stage'[b] = stage[b] /\ plan'[b] = plan[b]
    BY <1>1, <2>1 DEF Idle, TypeOK, Writers
  <2>3. stage'[a] # "open"
    BY <1>1, <2>1 DEF Idle, TypeOK
  <2> QED BY <2>1, <2>2, <2>3, EdgeKeeps
<1> QED BY <1>2, <1>3, <1>4, <1>5, <1>6 DEF AdminStep

\* No commit is inserted while an admin holds the workspace lock.
LEMMA CommittingKeeps ==
    ASSUME Inv, Inv', Frozen, CommitInv, NEW c \in Committers,
           CommitPreserve(c) \/ CommitSquash(c) \/ BuildCommit(c)
    PROVE  CommitInv'
<1>1. UNCHANGED <<head, stage, plan>> /\ locks[Workspace] \notin Admins
  BY ConstantsAssumption
     DEF CommitPreserve, CommitSquash, BuildCommit, MayInsertCommit, liveVars, txVars, Writers
<1>2. \A a \in Admins : stage'[a] # "open"
  BY <1>1 DEF Frozen
<1>3. head' \in Nat /\ head <= head'
  BY <1>1 DEF Inv, TypeOK
<1>4. \A x \in Committers : request'[x] = request[x] \/ request'[x] = NoRequest
  BY DEF CommitPreserve, CommitSquash, BuildCommit, Answer, Inv, TypeOK
<1>5. Positive' /\ ImportAtHead'
  BY <1>2, <1>3, <1>4, PositiveStep DEF CommitInv, ImportAtHead
<1> QED BY <1>5, CommitPreserveKeeps, CommitSquashKeeps, BuildCommitKeeps DEF CommitInv

LEMMA NextCommitInv == Inv /\ Inv' /\ Frozen /\ CommitInv /\ [Next]_vars => CommitInv'
<1> SUFFICES ASSUME Inv, Inv', Frozen, CommitInv, [Next]_vars PROVE CommitInv'
  OBVIOUS
<1>1. CASE UNCHANGED vars
  BY <1>1, EdgeKeeps DEF vars
<1>2. ASSUME NEW c \in Committers, CommitterStep(c) PROVE CommitInv'
  BY <1>2, ReadingKeeps, CommittingKeeps DEF CommitterStep, CommitRequest
<1> QED BY <1>1, <1>2, EditorKeeps, AdminKeeps DEF Next

\* A new workspace has one commit, of its only revision.
LEMMA InitCommitInv == Init => CommitInv
<1> SUFFICES ASSUME Init PROVE CommitInv
  OBVIOUS
<1> DEFINE initial(v) == [d \in Rows |-> IF d = Workspace THEN v ELSE Gone]
           first(v) == [doc |-> Workspace, num |-> 1, seq |-> 1, basis |-> 0,
                        body |-> v, squashed |-> FALSE, commit |-> 1]
<1>1. PICK v \in Values :
        /\ head = 1
        /\ revisions = {first(v)}
        /\ commits = {[head |-> 1, base |-> 0, version |-> initial(v), target |-> initial(v)]}
        /\ stage = [w \in Writers |-> "idle"]
        /\ request = [c \in Committers |-> NoRequest]
  BY Zenon DEF Init
<1>2. Positive /\ Bases /\ Reads /\ ImportAtHead
  BY <1>1 DEF Positive, Bases, Reads, ImportAtHead, NoRequest, Writers
<1>3. NoStrandedRevision
  BY <1>1 DEF NoStrandedRevision
<1>4. CommitVersionStable
  <2>1. first(v) \in Revision /\ first(v).doc = Workspace /\ first(v).body = v
        /\ first(v).seq = 1
    BY DEF Revision, Rows, Bodies
  <2> HIDE DEF first
  <2>2. {r \in revisions : r.seq <= 1} = {first(v)}
    BY <1>1, <2>1
  <2>3. LastOf({first(v)}, Workspace) = first(v)
    <3>1. LastOf({first(v)}, Workspace) \in {first(v)}
      BY <2>1, LastOfIsLast
    <3> QED BY <3>1
  <2>4. Export(revisions, 1) = initial(v)
    BY <2>1, <2>2, <2>3 DEF Export
  <2> QED BY <1>1, <2>4 DEF CommitVersionStable
<1> QED BY <1>2, <1>3, <1>4 DEF CommitInv

-----------------------------------------------------------------------------
(* Theorems.                                                               *)

\* The inductive invariant of the commits holds in every reachable state.
THEOREM CommitInvariance == Spec => []CommitInv
<1>1. Init => CommitInv
  BY InitCommitInv
<1>2. Init => Frozen
  BY DEF Init, Frozen, Writers
<1>3. Inv /\ Frozen /\ [Next]_vars => Frozen'
  BY NextFrozen
<1>4. Inv /\ Inv' /\ Frozen /\ CommitInv /\ [Next]_vars => CommitInv'
  BY NextCommitInv
<1> QED BY <1>1, <1>2, <1>3, <1>4, Invariance, PTL DEF Spec

\* Every uncommitted revision lies after the newest commit, where PendingRevisions
\* looks for it: overlapping commits, squashes, restores and imports strand none.
THEOREM StrandedCorrect == Spec => []NoStrandedRevision
<1>1. CommitInv => NoStrandedRevision
  BY DEF CommitInv
<1> QED BY <1>1, CommitInvariance, PTL

\* ExportWorkspace at the head of a commit always yields what the commit's
\* domain version was computed from.
THEOREM VersionCorrect == Spec => []CommitVersionStable
<1>1. CommitInv => CommitVersionStable
  BY DEF CommitInv
<1> QED BY <1>1, CommitInvariance, PTL

\* Attaching to another commit changes nothing else of a revision.
LEMMA ReattachedSurvives ==
    ASSUME NEW revs \in SUBSET Revision, NEW ids, NEW h \in Nat, h > 0,
           NEW r \in revs, r.commit # 0
    PROVE  \E q \in Attach(revs, ids, h) : q.commit # 0 /\ [q EXCEPT !.commit = r.commit] = r
<1> DEFINE q == IF Id(r) \in ids THEN Committed(r, h) ELSE r
<1>1. q \in Attach(revs, ids, h)
  BY DEF Attach
<1>2. q.commit # 0 /\ [q EXCEPT !.commit = r.commit] = r
  BY DEF Committed, Revision
<1> QED BY <1>1, <1>2

\* What SurvivesCorrect says of one step.
Survives ==
    \A r \in revisions : r.commit # 0 =>
        \E q \in revisions' : q.commit # 0 /\ [q EXCEPT !.commit = r.commit] = r

LEMMA NextSurvives == Inv /\ CommitInv /\ [Next]_vars => [Survives]_vars
<1> SUFFICES ASSUME Inv, CommitInv, Next, NEW r \in revisions, r.commit # 0
             PROVE  \E q \in revisions' : q.commit # 0 /\ [q EXCEPT !.commit = r.commit] = r
  BY DEF Survives
<1>0. revisions \in SUBSET Revision /\ [r EXCEPT !.commit = r.commit] = r
  BY DEF Inv, TypeOK, Revision
<1>1. ASSUME r \in revisions'
      PROVE  \E q \in revisions' : q.commit # 0 /\ [q EXCEPT !.commit = r.commit] = r
  BY <1>0, <1>1
<1>2. ASSUME NEW e \in Editors, EditorStep(e) PROVE r \in revisions'
  BY <1>2 DEF EditorStep, Load, UpdateRow, Cascade, Record, CommitEdit, Abort
<1>3. ASSUME NEW a \in Admins, AdminStep(a)
      PROVE  \E q \in revisions' : q.commit # 0 /\ [q EXCEPT !.commit = r.commit] = r
  <2>1. CASE FinishAdmin(a)
    <3>1. a \in Writers /\ Publish(a)
      BY <2>1 DEF FinishAdmin, Writers
    <3>2. head' \in Nat /\ head' > 0
      <4>1. head \in Nat /\ head > 0
        BY DEF Inv, TypeOK, CommitInv, Positive
      <4>2. head' \in Nat /\ head <= head'
        BY <3>1, PublishType
      <4> QED BY <4>1, <4>2
    <3>3. revisions \cup fresh[a] \in SUBSET Revision
      BY <3>1, FieldTypes DEF Inv, TypeOK
    <3>4. \E ids : revisions' = Attach(revisions \cup fresh[a], ids, head')
      BY <2>1 DEF FinishAdmin
    <3> QED BY <3>2, <3>3, <3>4, ReattachedSurvives
  <2>2. CASE ~ FinishAdmin(a)
    <3>1. revisions' = revisions
      BY <1>3, <2>2 DEF AdminStep, PlanRestore, PlanImport, NewPlan, BeginAdmin, UpdateRow,
                        Rewrite, Record, Abort
    <3> QED BY <1>1, <3>1
  <2> QED BY <2>1, <2>2
<1>4. ASSUME NEW c \in Committers, CommitterStep(c)
      PROVE  \E q \in revisions' : q.commit # 0 /\ [q EXCEPT !.commit = r.commit] = r
  <2>1. CASE LoadScope(c) \/ ReadLatest(c) \/ ReadPending(c) \/ Fail(c)
    BY <1>1, <2>1 DEF LoadScope, ReadLatest, ReadPending, Fail
  <2>2. CASE CommitPreserve(c)
    <3>1. request[c].head \in Nat /\ request[c].head > 0
      BY <2>2 DEF CommitPreserve, Inv, TypeOK, Request, CommitInv, Positive
    <3>2. revisions' = Attach(revisions, request[c].pending, request[c].head)
      BY <2>2 DEF CommitPreserve, CommitHead
    <3> QED BY <1>0, <3>1, <3>2, ReattachedSurvives
  <2>3. CASE CommitSquash(c)
    <3>1. r \in revisions'
      BY <2>3 DEF CommitSquash, Pending
    <3> QED BY <1>1, <3>1
  <2>4. CASE BuildCommit(c)
    <3>1. head \in Nat /\ head > 0
      BY DEF Inv, TypeOK, CommitInv, Positive
    <3>2. \E ids : revisions' = Attach(revisions, ids, head)
      BY <2>4 DEF BuildCommit
    <3> QED BY <1>0, <3>1, <3>2, ReattachedSurvives
  <2> QED BY <1>4, <2>1, <2>2, <2>3, <2>4 DEF CommitterStep, CommitRequest
<1> QED BY <1>1, <1>2, <1>3, <1>4 DEF Next

\* SquashPending, AttachRevisions, restore and import never remove or rewrite
\* a revision that a commit has taken.
THEOREM SurvivesCorrect == Spec => CommittedHistorySurvives
<1>1. [Survives]_vars <=> [\A r \in revisions : r.commit # 0 =>
          \E q \in revisions' : q.commit # 0 /\ [q EXCEPT !.commit = r.commit] = r]_vars
  BY DEF Survives
<1> QED BY <1>1, NextSurvives, Invariance, CommitInvariance, PTL DEF Spec, CommittedHistorySurvives

-----------------------------------------------------------------------------
(* What a restore or an import was asked to bring back.                    *)

\* An admin at work writes what its target asks for, and a row it does not
\* write is the target's already.
AdminWants ==
    \A a \in Admins : stage[a] = "open" =>
        \A d \in Rows :
            \/ want[a][d] = plan[a].target[d]
            \/ want[a][d] = Untouched /\ rows[d].body = plan[a].target[d]

\* The admins' part of the invariant, relative to Inv and Frozen.
TargetInv == AdminWants /\ AdminCommitsReachTarget

\* Exporting the history at the head yields the live rows.
LEMMA ExportAtHead ==
    ASSUME NEW revs \in SUBSET Revision, NEW rs, NEW h \in Nat, Shape(revs, rs, h)
    PROVE  Export(revs, h) = BodiesOf(rs)
<1>1. {r \in revs : r.seq <= h} = revs /\ \A r \in revs : r.seq <= h /\ r.seq \in Nat
  BY DEF Shape, Revision
<1>2. ASSUME NEW d \in Rows
      PROVE  (IF \E r \in revs : r.doc = d THEN LastOf(revs, d).body ELSE Gone) = rs[d].body
  <2>1. CASE rs[d].body = Gone /\ \A q \in revs : q.doc # d
    BY <2>1
  <2>2. CASE \E r \in revs : /\ r.doc = d /\ r.num = rs[d].rev /\ r.body = rs[d].body
                             /\ Newest(revs, r)
    <3>1. PICK r \in revs : r.doc = d /\ r.body = rs[d].body /\ Newest(revs, r)
      BY <2>2
    <3>2. /\ LastOf(revs, d) \in revs /\ LastOf(revs, d).doc = d
          /\ \A q \in revs : q.doc = d => q.seq <= LastOf(revs, d).seq
      BY <1>1, <3>1, LastOfIsLast
    <3>3. LastOf(revs, d).seq = r.seq
      BY <1>1, <3>1, <3>2 DEF Newest
    <3>4. LastOf(revs, d) = r
      BY <3>1, <3>2, <3>3 DEF Shape, InOrder
    <3> QED BY <3>1, <3>4
  <2> QED BY <2>1, <2>2 DEF Shape
<1>3. Export(revs, h) = [d \in Rows |->
          IF \E r \in revs : r.doc = d THEN LastOf(revs, d).body ELSE Gone]
  BY <1>1 DEF Export
<1> QED BY <1>2, <1>3 DEF BodiesOf

\* After every COMMIT the history exports what the rows hold.
LEMMA ExportIsLive ==
    ASSUME Inv
    PROVE  Export(revisions, head) = BodiesOf(rows)
<1>1. revisions \in SUBSET Revision /\ head \in Nat /\ Shape(revisions, rows, head)
  BY ShapeIsHistory DEF Inv, TypeOK
<1> QED BY <1>1, ExportAtHead

LEMMA ExportIsLiveNext ==
    ASSUME Inv'
    PROVE  Export(revisions', head') = BodiesOf(rows')
<1>1. revisions' \in SUBSET Revision /\ head' \in Nat /\ Shape(revisions', rows', head')
  BY ShapeIsHistory DEF Inv, TypeOK
<1> QED BY <1>1, ExportAtHead

\* What an admin publishes is its target: Complete makes it update every row it
\* has to write, and what it does not write is the target's already.
LEMMA PublishesTarget ==
    ASSUME Inv, AdminWants, NEW a \in Admins, stage[a] = "open", Complete(a), Publish(a)
    PROVE  BodiesOf(rows') = plan[a].target
<1>1. a \in Writers /\ TypeOK /\ Disciplined(a) /\ plan[a].target \in [Rows -> Bodies]
  BY DEF Inv, Writers, LockDiscipline, HeadsBounded, Plan
<1>2. ASSUME NEW d \in Rows PROVE rows'[d].body = plan[a].target[d]
  <2>1. bumps[a][d] \in Nat
    BY <1>1, FieldTypes
  <2>2. CASE want[a][d] = plan[a].target[d]
    <3>1. want[a][d] # Untouched
      BY <1>1, <2>2, ConstantsAssumption
    <3>2. bumps[a][d] > 0
      BY <3>1 DEF Complete
    <3> QED BY <1>1, <2>2, <3>2 DEF Publish
  <2>3. CASE want[a][d] = Untouched /\ rows[d].body = plan[a].target[d]
    <3>1. ~ (bumps[a][d] > 0)
      BY <1>1, <2>3 DEF Disciplined, HoldsRow
    <3> QED BY <1>1, <2>3, <3>1 DEF Publish
  <2> QED BY <2>2, <2>3 DEF AdminWants
<1> QED BY <1>1, <1>2 DEF BodiesOf

\* No row changes under an admin at work.
LEMMA RowsStayForAdmin ==
    ASSUME Inv, Frozen, NEW e \in Editors, CommitEdit(e), NEW a \in Admins, stage[a] = "open"
    PROVE  rows' = rows
<1>1. e \in Writers /\ e # a /\ TypeOK
  BY ConstantsAssumption DEF Writers, Inv
<1>2. stage[e] = "open" /\ Complete(e) /\ Publish(e)
  BY DEF CommitEdit
<1>3. locks[Workspace] # e
  BY <1>1 DEF Frozen
<1>4. \A d \in Rows : ~ (bumps[e][d] > 0)
  BY <1>1, <1>2, <1>3, PublishingEditor
<1> QED BY <1>1, <1>2, <1>4 DEF Publish, TypeOK

\* A step that leaves the plan and the wishes of the admins at work, and the
\* rows under them, keeps AdminWants.
LEMMA WantsStay ==
    ASSUME AdminWants,
           \A a \in Admins : stage'[a] = "open" =>
               /\ stage[a] = "open" /\ plan'[a] = plan[a] /\ want'[a] = want[a]
               /\ rows' = rows
    PROVE  AdminWants'
<1> SUFFICES ASSUME NEW a \in Admins, stage'[a] = "open", NEW d \in Rows
             PROVE  \/ want'[a][d] = plan'[a].target[d]
                    \/ want'[a][d] = Untouched /\ rows'[d].body = plan'[a].target[d]
  BY DEF AdminWants
<1> QED BY DEF AdminWants

LEMMA EditorWants ==
    ASSUME Inv, Frozen, AdminWants, NEW e \in Editors, EditorStep(e)
    PROVE  AdminWants' /\ commits' = commits
<1>1. e \in Writers /\ e \notin Admins /\ TypeOK
  BY ConstantsAssumption DEF Writers, Inv
<1>2. commits' = commits
  BY DEF EditorStep, Load, UpdateRow, Cascade, Record, CommitEdit, Abort
<1>3. \A a \in Admins : stage'[a] = stage[a] /\ plan'[a] = plan[a] /\ want'[a] = want[a]
  BY <1>1 DEF EditorStep, Load, UpdateRow, Cascade, Record, CommitEdit, Abort, Idle, TypeOK,
              Writers
<1>4. \A a \in Admins : stage[a] = "open" => rows' = rows
  <2>1. CASE CommitEdit(e)
    BY <2>1, RowsStayForAdmin
  <2>2. CASE ~ CommitEdit(e)
    BY <2>2 DEF EditorStep, Load, UpdateRow, Cascade, Record, Abort, liveVars
  <2> QED BY <2>1, <2>2
<1> QED BY <1>2, <1>3, <1>4, WantsStay

\* The steps of an admin: only FinishAdmin adds a commit, and it is the target.
LEMMA AdminTarget ==
    ASSUME Inv, Inv', Frozen, TargetInv, NEW a \in Admins, AdminStep(a)
    PROVE  TargetInv'
<1>1. a \in Writers /\ TypeOK
  BY DEF Writers, Inv
<1>2. CASE PlanRestore(a) \/ PlanImport(a)
  <2>1. commits' = commits /\ rows' = rows /\ want' = want /\ stage[a] = "idle"
        /\ stage' = [stage EXCEPT ![a] = "planned"]
        /\ \A b \in Admins : b # a => plan'[b] = plan[b]
    BY <1>1, <1>2 DEF PlanRestore, PlanImport, NewPlan, liveVars, TypeOK, Writers
  <2>2. stage'[a] # "open" /\ \A b \in Admins : b # a => stage'[b] = stage[b]
    BY <1>1, <2>1 DEF TypeOK, Writers
  <2>3. AdminWants'
    BY <2>1, <2>2, WantsStay DEF TargetInv
  <2> QED BY <2>1, <2>3 DEF TargetInv, AdminCommitsReachTarget
<1>3. CASE BeginAdmin(a)
  <2>1. /\ commits' = commits /\ rows' = rows /\ plan' = plan
        /\ plan[a] \in Plan
        /\ \A b \in Admins : b # a => stage'[b] = stage[b] /\ want'[b] = want[b]
    BY <1>1, <1>3 DEF BeginAdmin, liveVars, TypeOK, Writers, Inv, HeadsBounded
  <2>2. ASSUME NEW d \in Rows
        PROVE  \/ want'[a][d] = plan[a].target[d]
               \/ want'[a][d] = Untouched /\ rows[d].body = plan[a].target[d]
    <3>1. want'[a][d] = IF MustWrite(a, d) THEN plan[a].target[d] ELSE Untouched
      BY <1>1, <1>3 DEF BeginAdmin, TypeOK
    <3>2. ~ MustWrite(a, d) => rows[d].body = plan[a].target[d]
      BY <2>1 DEF MustWrite, Plan
    <3> QED BY <3>1, <3>2
  <2>3. AdminWants'
    BY <2>1, <2>2 DEF TargetInv, AdminWants
  <2> QED BY <2>1, <2>3 DEF TargetInv, AdminCommitsReachTarget
<1>4. CASE \E d \in Rows : UpdateRow(a, d) \/ Rewrite(a, d) \/ Record(a, d)
  BY <1>4 DEF UpdateRow, Rewrite, Record, liveVars, TargetInv, AdminWants,
              AdminCommitsReachTarget
<1>5. CASE FinishAdmin(a)
  <2>1. /\ stage[a] = "open" /\ Complete(a) /\ Publish(a) /\ Idle(a)
        /\ commits' = commits \cup {NewCommit(head', LatestHead, plan[a].target)}
    BY <1>5 DEF FinishAdmin
  <2>2. \A b \in Admins : stage'[b] # "open"
    <3>1. \A b \in Admins : b # a => stage[b] # "open"
      BY <2>1 DEF Frozen
    <3> QED BY <1>1, <2>1, <3>1 DEF Idle, TypeOK, Writers
  <2>3. Export(revisions', head') = plan[a].target
    BY <2>1, ExportIsLiveNext, PublishesTarget DEF TargetInv
  <2>4. NewCommit(head', LatestHead, plan[a].target).version
          = NewCommit(head', LatestHead, plan[a].target).target
    BY <2>3 DEF NewCommit
  <2> QED BY <2>1, <2>2, <2>4 DEF TargetInv, AdminWants, AdminCommitsReachTarget
<1>6. CASE Abort(a)
  <2>1. commits' = commits /\ rows' = rows /\ stage'[a] # "open"
        /\ \A b \in Admins :
              b # a => stage'[b] = stage[b] /\ plan'[b] = plan[b] /\ want'[b] = want[b]
    BY <1>1, <1>6 DEF Abort, Idle, liveVars, TypeOK, Writers
  <2>2. AdminWants'
    BY <2>1, WantsStay DEF TargetInv
  <2> QED BY <2>1, <2>2 DEF TargetInv, AdminCommitsReachTarget
<1> QED BY <1>2, <1>3, <1>4, <1>5, <1>6 DEF AdminStep

\* A committer asks for what it takes.
LEMMA CommitterTarget ==
    ASSUME TargetInv, NEW c \in Committers, CommitterStep(c)
    PROVE  TargetInv'
<1>1. UNCHANGED <<rows, stage, want, plan>>
  BY DEF CommitterStep, LoadScope, ReadLatest, ReadPending, Fail, CommitRequest, CommitPreserve,
         CommitSquash, BuildCommit, liveVars, txVars
<1>2. \/ commits' = commits
      \/ \E h, base : commits' = commits \cup {NewCommit(h, base, Export(revisions', h))}
  BY DEF CommitterStep, LoadScope, ReadLatest, ReadPending, Fail, CommitRequest, CommitPreserve,
         CommitSquash, BuildCommit
<1>3. AdminCommitsReachTarget'
  BY <1>2 DEF TargetInv, AdminCommitsReachTarget, NewCommit
<1> QED BY <1>1, <1>3 DEF TargetInv, AdminWants

LEMMA NextTarget == Inv /\ Inv' /\ Frozen /\ TargetInv /\ [Next]_vars => TargetInv'
<1> SUFFICES ASSUME Inv, Inv', Frozen, TargetInv, [Next]_vars PROVE TargetInv'
  OBVIOUS
<1>1. CASE UNCHANGED vars
  BY <1>1 DEF vars, TargetInv, AdminWants, AdminCommitsReachTarget
<1>2. ASSUME NEW e \in Editors, EditorStep(e) PROVE TargetInv'
  BY <1>2, EditorWants DEF TargetInv, AdminCommitsReachTarget
<1> QED BY <1>1, <1>2, AdminTarget, CommitterTarget DEF Next

LEMMA InitTarget == Init => TargetInv
<1> SUFFICES ASSUME Init PROVE TargetInv
  OBVIOUS
<1>1. AdminWants
  BY DEF Init, AdminWants, Writers
<1>2. AdminCommitsReachTarget
  BY DEF Init, AdminCommitsReachTarget
<1> QED BY <1>1, <1>2 DEF TargetInv

\* RestoreCommit and Import commit exactly the state they were asked for: no row
\* of the workspace differs from the target, whatever editors did in between and
\* whatever squashes did to the history.
THEOREM TargetReached == Spec => []AdminCommitsReachTarget
<1>1. Init => Frozen
  BY DEF Init, Frozen, Writers
<1>2. Inv /\ Frozen /\ [Next]_vars => Frozen'
  BY NextFrozen
<1>3. TargetInv => AdminCommitsReachTarget
  BY DEF TargetInv
<1> QED BY <1>1, <1>2, <1>3, InitTarget, NextTarget, Invariance, PTL DEF Spec

\* A restore that was planned is to bring back what a commit holds.
RestoresCommit ==
    \A a \in Admins : stage[a] # "idle" /\ plan[a].op = "restore" =>
        \E k \in commits : plan[a].target = k.version

LEMMA NextRestores == Inv /\ CommitInv /\ RestoresCommit /\ [Next]_vars => RestoresCommit'
<1> SUFFICES ASSUME Inv, CommitInv, RestoresCommit, [Next]_vars, NEW a \in Admins,
                    stage'[a] # "idle", plan'[a].op = "restore"
             PROVE  \E k \in commits' : plan'[a].target = k.version
  BY DEF RestoresCommit
<1>1. TypeOK /\ a \in Writers /\ a \notin Editors
  BY ConstantsAssumption DEF Inv, Writers
<1>2. commits \subseteq commits'
  BY DEF Next, vars, EditorStep, AdminStep, CommitterStep, Load, UpdateRow, Cascade, Record,
         CommitEdit, Abort, PlanRestore, PlanImport, NewPlan, BeginAdmin, Rewrite, FinishAdmin,
         LoadScope, ReadLatest, ReadPending, CommitRequest, CommitPreserve, CommitSquash,
         BuildCommit, Fail
<1>3. ASSUME stage[a] # "idle", plan'[a] = plan[a]
      PROVE  \E k \in commits' : plan'[a].target = k.version
  BY <1>2, <1>3 DEF RestoresCommit
<1>4. CASE UNCHANGED vars
  BY <1>3, <1>4 DEF vars
<1>5. ASSUME NEW w \in Writers, Idle(w) PROVE stage[a] # "idle" /\ plan'[a] = plan[a]
  BY <1>1, <1>5 DEF Idle, TypeOK
<1>6. ASSUME NEW e \in Editors, EditorStep(e) PROVE stage[a] # "idle" /\ plan'[a] = plan[a]
  <2>1. e \in Writers /\ e # a
    BY <1>1 DEF Writers
  <2>2. CASE CommitEdit(e) \/ Abort(e)
    BY <1>5, <2>1, <2>2 DEF CommitEdit, Abort
  <2>3. CASE ~ (CommitEdit(e) \/ Abort(e))
    BY <1>1, <1>6, <2>1, <2>3 DEF EditorStep, Load, UpdateRow, Cascade, Record, TypeOK
  <2> QED BY <2>2, <2>3
<1>7. ASSUME NEW c \in Committers, CommitterStep(c) PROVE stage[a] # "idle" /\ plan'[a] = plan[a]
  BY <1>7 DEF CommitterStep, LoadScope, ReadLatest, ReadPending, Fail, CommitRequest,
              CommitPreserve, CommitSquash, BuildCommit, txVars
<1>8. ASSUME NEW b \in Admins, AdminStep(b)
      PROVE  \E k \in commits' : plan'[a].target = k.version
  <2>1. b \in Writers
    BY DEF Writers
  <2>2. CASE FinishAdmin(b) \/ Abort(b)
    BY <1>3, <1>5, <2>1, <2>2 DEF FinishAdmin, Abort
  <2>3. CASE BeginAdmin(b) \/ \E d \in Rows : UpdateRow(b, d) \/ Rewrite(b, d) \/ Record(b, d)
    <3>1. plan' = plan /\ (stage[a] # "idle" \/ stage' = stage)
      BY <1>1, <2>1, <2>3 DEF BeginAdmin, UpdateRow, Rewrite, Record, TypeOK
    <3> QED BY <1>3, <3>1
  <2>4. ASSUME NEW op, NEW target, NewPlan(b, op, target),
               op = "restore" => \E k \in commits : target = k.version
        PROVE  \E k \in commits' : plan'[a].target = k.version
    <3>1. CASE a = b
      <4>1. plan'[a] = [op |-> op, expect |-> head, target |-> target] /\ commits' = commits
        BY <1>1, <2>4, <3>1 DEF NewPlan, TypeOK
      <4> QED BY <2>4, <4>1
    <3>2. CASE a # b
      <4>1. stage'[a] = stage[a] /\ plan'[a] = plan[a]
        BY <1>1, <2>1, <2>4, <3>2 DEF NewPlan, TypeOK
      <4> QED BY <1>3, <4>1
    <3> QED BY <3>1, <3>2
  <2>5. CASE PlanRestore(b)
    <3>1. PICK k \in commits : NewPlan(b, "restore", Export(revisions, k.head))
      BY <2>5 DEF PlanRestore
    <3>2. Export(revisions, k.head) = k.version
      BY DEF CommitInv, CommitVersionStable
    <3> QED BY <2>4, <3>1, <3>2
  <2>6. CASE PlanImport(b)
    BY <2>4, <2>6 DEF PlanImport
  <2> QED BY <1>8, <2>2, <2>3, <2>5, <2>6 DEF AdminStep
<1> QED BY <1>3, <1>4, <1>6, <1>7, <1>8 DEF Next

\* A restore leaves the live rows as a commit has them: as that commit exported
\* when the restore was planned and, whatever was committed or squashed in
\* between, still exports.
THEOREM RestoreBringsBack ==
    Spec => [][\A a \in Admins : FinishAdmin(a) /\ plan[a].op = "restore" =>
                  \E k \in commits : BodiesOf(rows)' = k.version
                                     /\ Export(revisions, k.head) = k.version]_vars
<1> DEFINE Back == \A a \in Admins : FinishAdmin(a) /\ plan[a].op = "restore" =>
                       \E k \in commits : BodiesOf(rows)' = k.version
                                          /\ Export(revisions, k.head) = k.version
<1>1. Inv /\ CommitInv /\ TargetInv /\ RestoresCommit /\ [Next]_vars => [Back]_vars
  <2> SUFFICES ASSUME Inv, CommitInv, TargetInv, RestoresCommit,
                      NEW a \in Admins, FinishAdmin(a), plan[a].op = "restore"
               PROVE  \E k \in commits : BodiesOf(rows)' = k.version
                                         /\ Export(revisions, k.head) = k.version
    OBVIOUS
  <2>1. stage[a] = "open" /\ Complete(a) /\ Publish(a)
    BY DEF FinishAdmin
  <2>2. PICK k \in commits : plan[a].target = k.version
    BY <2>1 DEF RestoresCommit
  <2>3. BodiesOf(rows)' = plan[a].target
    BY <2>1, PublishesTarget DEF TargetInv, BodiesOf
  <2> QED BY <2>2, <2>3 DEF CommitInv, CommitVersionStable
<1>2. Init => Frozen /\ RestoresCommit
  BY DEF Init, Frozen, RestoresCommit, Writers
<1>3. Inv /\ Frozen /\ [Next]_vars => Frozen'
  BY NextFrozen
<1>4. Spec => []TargetInv
  BY <1>2, <1>3, InitTarget, NextTarget, Invariance, PTL DEF Spec
<1>5. Spec => []RestoresCommit
  BY <1>2, NextRestores, Invariance, CommitInvariance, PTL DEF Spec
<1> HIDE DEF Back
<1>6. Spec => [][Back]_vars
  BY <1>1, <1>4, <1>5, Invariance, CommitInvariance, PTL DEF Spec
<1> QED BY <1>6 DEF Back

-----------------------------------------------------------------------------
(* A commit is a state the workspace was in.                               *)

\* Every head the workspace had still exports what the rows held then.
PastExports ==
    \A p \in past : p.head <= head /\ Export(revisions, p.head) = p.bodies

\* Every head a commit has, or a request may commit at, is one of these.
PastHeads ==
    /\ \E p \in past : p.head = head
    /\ \A k \in commits : \E p \in past : p.head = k.head
    /\ \A c \in Committers : request[c].step # "idle" => \E p \in past : p.head = request[c].head

\* The head as it is has been published with the rows as they are.
PublishedNow == [head |-> head, bodies |-> BodiesOf(rows)] \in past

\* Relative to Inv; a squash does away with PastExports (it removes revisions
\* that lie before a head the workspace had).
PastInv == PublishedNow /\ PastHeads /\ ("squash" \notin Policies => PastExports)

\* Past exports stay while revisions are only marked.
LEMMA PastStays ==
    ASSUME Inv, Inv', PastExports, UNCHANGED <<head, past>>,
           \A q \in revisions' : \E r \in revisions : Alike(r, q),
           \A r \in revisions : \E q \in revisions' : Alike(r, q)
    PROVE  PastExports'
<1>1. /\ revisions \in SUBSET Revision /\ revisions' \in SUBSET Revision
      /\ \A q1, q2 \in revisions' : q1.seq = q2.seq => q1 = q2
      /\ \A p \in past : p.head \in Nat
  BY DEF Inv, TypeOK, SequenceTracksHead
<1>2. ASSUME NEW p \in past PROVE Export(revisions', p.head) = Export(revisions, p.head)
  BY <1>1, ExportSame
<1> QED BY <1>2 DEF PastExports

\* A COMMIT adds revisions behind every past head, and the head it publishes
\* exports the rows it publishes.
LEMMA PastPublished ==
    ASSUME Inv, Inv', PastExports, NEW w \in Writers, Publish(w),
           \A q \in revisions' : \E r \in revisions \cup fresh[w] : Alike(r, q),
           \A r \in revisions \cup fresh[w] : \E q \in revisions' : Alike(r, q)
    PROVE  PastExports'
<1> DEFINE new == [head |-> head', bodies |-> BodiesOf(rows')]
<1>1. past' = past \cup {new} /\ new.head = head' /\ new.bodies = BodiesOf(rows')
  BY DEF Publish
<1>2. /\ revisions \in SUBSET Revision /\ revisions' \in SUBSET Revision
      /\ \A q1, q2 \in revisions' : q1.seq = q2.seq => q1 = q2
      /\ \A p \in past : p.head \in Nat
      /\ head \in Nat /\ head' \in Nat /\ head <= head'
  BY PublishType DEF Inv, TypeOK, SequenceTracksHead
<1>3. \A r \in fresh[w] : r.seq > head /\ r.seq \in Nat
  <2>1. Disciplined(w) /\ \A r \in fresh[w] : r.seq \in Nat
    BY FieldTypes DEF Inv, LockDiscipline
  <2> QED BY <1>2, <2>1 DEF Disciplined, Continues
<1>4. ASSUME NEW p \in past
      PROVE  p.head <= head' /\ Export(revisions', p.head) = p.bodies
  <2>1. p.head \in Nat /\ p.head <= head /\ Export(revisions, p.head) = p.bodies
    BY <1>2 DEF PastExports
  <2>2. \A r \in revisions : \E q \in revisions' : Alike(r, q)
    OBVIOUS
  <2>3. ASSUME NEW q \in revisions', q.seq <= p.head
        PROVE  \E r \in revisions : Alike(r, q)
    <3>1. PICK r \in revisions \cup fresh[w] : Alike(r, q)
      OBVIOUS
    <3>2. r.seq <= head
      <4>1. q.seq \in Nat /\ r.seq = q.seq
        BY <1>2, <3>1 DEF Revision, Alike
      <4> QED BY <1>2, <2>1, <2>3, <4>1
    <3>3. r \notin fresh[w]
      BY <1>2, <1>3, <3>2
    <3> QED BY <3>1, <3>3
  <2>4. Export(revisions', p.head) = Export(revisions, p.head)
    BY <1>2, <2>1, <2>2, <2>3, ExportSame
  <2> QED BY <1>2, <2>1, <2>4
<1>5. new.head <= head' /\ Export(revisions', new.head) = new.bodies
  BY <1>1, <1>2, ExportIsLiveNext
<1> HIDE DEF new
<1> QED BY <1>1, <1>4, <1>5 DEF PastExports

\* Where the heads of commits and requests come from.
LEMMA PastHeadsStep ==
    ASSUME PastHeads, past \subseteq past', \E p \in past' : p.head = head',
           \A k \in commits' :
               \/ k \in commits
               \/ k.head = head'
               \/ \E c \in Committers : request[c].step # "idle" /\ k.head = request[c].head,
           \A c \in Committers :
               \/ request'[c].step = "idle"
               \/ request'[c].head = head'
               \/ request[c].step # "idle" /\ request'[c].head = request[c].head
    PROVE  PastHeads'
<1>1. \A k \in commits' : \E p \in past' : p.head = k.head
  BY DEF PastHeads
<1>2. \A c \in Committers : request'[c].step # "idle" => \E p \in past' : p.head = request'[c].head
  BY DEF PastHeads
<1> QED BY <1>1, <1>2 DEF PastHeads

\* A writer's transaction publishes a head and lets the requests be.
LEMMA PublisherPast ==
    ASSUME Inv, Inv', PastInv, NEW w \in Writers, Publish(w), request' = request,
           \A q \in revisions' : \E r \in revisions \cup fresh[w] : Alike(r, q),
           \A r \in revisions \cup fresh[w] : \E q \in revisions' : Alike(r, q),
           \A k \in commits' : k \in commits \/ k.head = head'
    PROVE  PastInv'
<1>1. ASSUME "squash" \notin Policies PROVE PastExports'
  BY <1>1, PastPublished DEF PastInv
<1>2. /\ past \subseteq past' /\ [head |-> head', bodies |-> BodiesOf(rows')] \in past'
      /\ PublishedNow'
  BY DEF Publish, PublishedNow, BodiesOf
<1>3. \E p \in past' : p.head = head'
  BY <1>2
<1>4. PastHeads'
  BY <1>2, <1>3, PastHeadsStep DEF PastInv
<1> QED BY <1>1, <1>2, <1>4 DEF PastInv

\* Everything else a writer does leaves the published state alone.
LEMMA WriterPast ==
    ASSUME Inv, Inv', PastInv, UNCHANGED <<rows, head, past, revisions, commits, request>>
    PROVE  PastInv'
  BY DEF PastInv, PastExports, PastHeads, PublishedNow, BodiesOf

LEMMA EditorPast ==
    ASSUME Inv, Inv', PastInv, NEW e \in Editors, EditorStep(e)
    PROVE  PastInv'
<1>1. CASE CommitEdit(e)
  <2>1. e \in Writers /\ Publish(e) /\ request' = request /\ commits' = commits
        /\ revisions' = revisions \cup fresh[e]
    BY <1>1 DEF CommitEdit, Writers
  <2>2. \A r \in revisions' : Alike(r, r)
    BY DEF Alike
  <2> QED BY <2>1, <2>2, PublisherPast
<1>2. CASE ~ CommitEdit(e)
  BY <1>2, WriterPast DEF EditorStep, Load, UpdateRow, Cascade, Record, Abort, liveVars
<1> QED BY <1>1, <1>2

LEMMA AdminPast ==
    ASSUME Inv, Inv', PastInv, NEW a \in Admins, AdminStep(a)
    PROVE  PastInv'
<1>1. CASE FinishAdmin(a)
  <2> DEFINE all == revisions \cup fresh[a]
             ids == {Id(r) : r \in Adopted(a)}
             k   == NewCommit(head', LatestHead, plan[a].target)
  <2>1. a \in Writers /\ Publish(a) /\ request' = request /\ commits' = commits \cup {k}
        /\ revisions' = Attach(all, ids, head')
    BY <1>1 DEF FinishAdmin, Writers
  <2>2. k.head = head'
    BY DEF NewCommit
  <2>3. all \in SUBSET Revision /\ head' \in Nat
    BY <2>1, FieldTypes, PublishType DEF Inv, TypeOK
  <2> HIDE DEF all, ids, k
  <2>4. /\ \A q \in revisions' : \E r \in all : Alike(r, q)
        /\ \A r \in all : \E q \in revisions' : Alike(r, q)
    BY <2>1, <2>3, AttachMarksOnly
  <2>5. \A m \in commits' : m \in commits \/ m.head = head'
    BY <2>1, <2>2
  <2> QED BY <2>1, <2>4, <2>5, PublisherPast DEF all
<1>2. CASE ~ FinishAdmin(a)
  BY <1>2, WriterPast DEF AdminStep, PlanRestore, PlanImport, NewPlan, BeginAdmin, UpdateRow,
                          Rewrite, Record, Abort, liveVars
<1> QED BY <1>1, <1>2

\* A commit at the head, or at a request's head.
LEMMA CommitPast ==
    ASSUME PastInv, UNCHANGED <<rows, head, past>>, NEW k,
           commits' = commits \cup {k},
           \/ k.head = head
           \/ \E c \in Committers : request[c].step # "idle" /\ k.head = request[c].head,
           \A c \in Committers : request'[c] = request[c] \/ request'[c] = NoRequest
    PROVE  PublishedNow' /\ PastHeads'
<1>1. PublishedNow'
  BY DEF PastInv, PublishedNow, BodiesOf
<1>2. PastHeads'
  BY PastHeadsStep DEF PastInv, PastHeads, NoRequest
<1> QED BY <1>1, <1>2

\* Attaching revisions changes no export.
LEMMA AttachPast ==
    ASSUME Inv, Inv', PastExports, UNCHANGED <<head, past>>, NEW ids, NEW h \in Nat,
           revisions' = Attach(revisions, ids, h)
    PROVE  PastExports'
<1>1. revisions \in SUBSET Revision
  BY DEF Inv, TypeOK
<1>2. /\ \A q \in revisions' : \E r \in revisions : Alike(r, q)
      /\ \A r \in revisions : \E q \in revisions' : Alike(r, q)
  BY <1>1, AttachMarksOnly
<1> QED BY <1>2, PastStays

LEMMA CommitterPast ==
    ASSUME Inv, Inv', PastInv, NEW c \in Committers, CommitterStep(c)
    PROVE  PastInv'
<1>1. request \in [Committers -> Request] /\ head \in Nat
  BY DEF Inv, TypeOK
<1>2. CASE LoadScope(c) \/ ReadLatest(c) \/ ReadPending(c) \/ Fail(c)
  <2>1. UNCHANGED <<rows, head, past, revisions, commits>>
    BY <1>2 DEF LoadScope, ReadLatest, ReadPending, Fail, liveVars
  <2>2. \A x \in Committers : \/ request'[x].step = "idle"
                              \/ request'[x].head = head'
                              \/ request[x].step # "idle" /\ request'[x].head = request[x].head
    BY <1>1, <1>2, <2>1 DEF LoadScope, ReadLatest, ReadPending, Fail, Answer, NoRequest, Request
  <2>3. PastHeads'
    BY <2>1, <2>2, PastHeadsStep DEF PastInv, PastHeads
  <2>4. PublishedNow' /\ (PastExports => PastExports')
    BY <2>1 DEF PastInv, PastExports, PublishedNow, BodiesOf
  <2> QED BY <2>3, <2>4 DEF PastInv
<1>3. CASE CommitPreserve(c) \/ ("squash" \in Policies /\ CommitSquash(c))
  <2> DEFINE k == NewCommit(request[c].head, request[c].base, Export(revisions', request[c].head))
  <2>1. /\ UNCHANGED <<rows, head, past>> /\ request[c].head \in Nat /\ request[c].step = "ready"
        /\ commits' = commits \cup {k}
    BY <1>1, <1>3 DEF CommitPreserve, CommitSquash, CommitHead, liveVars, Request
  <2>2. k.head = request[c].head
    BY DEF NewCommit
  <2>3. \A x \in Committers : request'[x] = request[x] \/ request'[x] = NoRequest
    BY <1>1, <1>3 DEF CommitPreserve, CommitSquash, Answer
  <2> HIDE DEF k
  <2>4. PublishedNow' /\ PastHeads'
    BY <2>1, <2>2, <2>3, CommitPast
  <2>5. CASE "squash" \in Policies
    BY <2>4, <2>5 DEF PastInv
  <2>6. CASE "squash" \notin Policies /\ CommitPreserve(c)
    <3>1. revisions' = Attach(revisions, request[c].pending, request[c].head)
      BY <2>6 DEF CommitPreserve, CommitHead
    <3>2. PastExports'
      BY <2>1, <2>6, <3>1, AttachPast DEF PastInv
    <3> QED BY <2>4, <3>2 DEF PastInv
  <2> QED BY <1>3, <2>5, <2>6
<1>4. CASE BuildCommit(c)
  <2> DEFINE k == NewCommit(head, LatestHead, Export(revisions', head))
  <2>1. UNCHANGED <<rows, head, past, request>> /\ commits' = commits \cup {k}
        /\ revisions' = Attach(revisions, {Id(r) : r \in Pending(revisions, LatestHead)}, head)
    BY <1>4 DEF BuildCommit, liveVars
  <2>2. k.head = head
    BY DEF NewCommit
  <2> HIDE DEF k
  <2>3. PublishedNow' /\ PastHeads'
    BY <2>1, <2>2, CommitPast
  <2>4. PastExports => PastExports'
    BY <1>1, <2>1, AttachPast
  <2> QED BY <2>3, <2>4 DEF PastInv
<1> QED BY <1>2, <1>3, <1>4 DEF CommitterStep, CommitRequest

LEMMA NextPast == Inv /\ Inv' /\ PastInv /\ [Next]_vars => PastInv'
<1> SUFFICES ASSUME Inv, Inv', PastInv, [Next]_vars PROVE PastInv'
  OBVIOUS
<1>1. CASE UNCHANGED vars
  BY <1>1, WriterPast DEF vars
<1> QED BY <1>1, EditorPast, AdminPast, CommitterPast DEF Next

LEMMA InitPast == Init => PastInv
<1> SUFFICES ASSUME Init PROVE PastInv
  OBVIOUS
<1>1. Inv
  BY InitInv
<1> DEFINE initial(v) == [d \in Rows |-> IF d = Workspace THEN v ELSE Gone]
<1>2. PICK v \in Values :
        /\ rows = [d \in Rows |-> [rev  |-> IF d = Workspace THEN 1 ELSE 0,
                                   body |-> initial(v)[d]]]
        /\ head = 1
        /\ commits = {[head |-> 1, base |-> 0, version |-> initial(v), target |-> initial(v)]}
        /\ request = [c \in Committers |-> NoRequest]
        /\ past = {[head |-> 1, bodies |-> initial(v)]}
  BY Zenon DEF Init
<1>3. BodiesOf(rows) = initial(v)
  BY <1>2 DEF BodiesOf
<1>4. Export(revisions, 1) = initial(v)
  BY <1>1, <1>2, <1>3, ExportIsLive
<1>5. PastExports
  BY <1>2, <1>4 DEF PastExports
<1>6. PastHeads
  BY <1>2 DEF PastHeads, NoRequest
<1>7. PublishedNow
  BY <1>2, <1>3 DEF PublishedNow
<1> QED BY <1>5, <1>6, <1>7 DEF PastInv

\* With policy preserve a commit is a state the workspace was in, although its
\* head was read before its transaction: what it exports at that head is what the
\* rows held when the head was published.
THEOREM PastCorrect ==
    ASSUME "squash" \notin Policies
    PROVE  Spec => []CommitIsPastState
<1>1. PastInv /\ CommitInv => CommitIsPastState
  BY DEF PastInv, PastExports, PastHeads, CommitInv, CommitVersionStable, CommitIsPastState
<1>2. Inv /\ Inv' /\ PastInv /\ [Next]_vars => PastInv'
  BY NextPast
<1> QED BY <1>1, <1>2, InitPast, Invariance, CommitInvariance, PTL DEF Spec

\* RestoreCommit and Import leave nothing pending and put the newest commit at
\* the head, with whatever squashes and edits before them.
THEOREM AdminsLeaveClean == Spec => AdminLeavesClean
<1> DEFINE Clean == \A a \in Admins :
              stage[a] = "open" /\ stage'[a] = "idle" /\ commits' # commits =>
                  /\ LatestHead' = head'
                  /\ \A r \in revisions' : r.commit # 0
<1>1. Inv /\ Inv' /\ CommitInv /\ [Next]_vars => [Clean]_vars
  <2> SUFFICES ASSUME Inv, Inv', CommitInv, Next, NEW a \in Admins,
                      stage[a] = "open", stage'[a] = "idle", commits' # commits
               PROVE  LatestHead' = head' /\ \A r \in revisions' : r.commit # 0
    OBVIOUS
  <2>1. FinishAdmin(a)
    <3>1. ASSUME NEW e \in Editors, EditorStep(e) PROVE commits' = commits
      BY <3>1 DEF EditorStep, Load, UpdateRow, Cascade, Record, CommitEdit, Abort
    <3>2. ASSUME NEW c \in Committers, CommitterStep(c) PROVE stage' = stage
      BY <3>2 DEF CommitterStep, LoadScope, ReadLatest, ReadPending, Fail, CommitRequest,
                  CommitPreserve, CommitSquash, BuildCommit, txVars
    <3>3. ASSUME NEW b \in Admins, AdminStep(b) PROVE FinishAdmin(b)
      BY <3>3 DEF AdminStep, PlanRestore, PlanImport, NewPlan, BeginAdmin, UpdateRow, Rewrite,
                  Record, Abort
    <3>4. ASSUME NEW b \in Admins, FinishAdmin(b) PROVE b = a
      BY <3>4 DEF FinishAdmin, Idle, Inv, TypeOK, Writers
    <3> QED BY <3>1, <3>2, <3>3, <3>4 DEF Next
  <2>2. \A r \in revisions' : r.commit # 0
    BY <2>1, FinishAdminCommitsAll
  <2>3. LatestHead' = head'
    <3>1. /\ LatestHead' \in Nat /\ LatestHead' <= head' /\ head' \in Nat
          /\ \A k \in commits' : k.head <= LatestHead'
      BY LatestHeadNext
    <3>2. \E k \in commits' : k.head = head'
      <4>1. NewCommit(head', LatestHead, plan[a].target) \in commits'
        BY <2>1 DEF FinishAdmin
      <4>2. NewCommit(head', LatestHead, plan[a].target).head = head'
        BY DEF NewCommit
      <4> QED BY <4>1, <4>2
    <3> QED BY <3>1, <3>2
  <2> QED BY <2>2, <2>3
<1> QED BY <1>1, Invariance, CommitInvariance, PTL DEF Spec, AdminLeavesClean

\* A commit at the head holds what the live rows hold, whatever its policy:
\* CreateFromBuild, restores, imports and commits that nothing overtook.
THEOREM HeadCommitIsLive ==
    Spec => [](\A k \in commits : k.head = head => k.version = BodiesOf(rows))
<1>1. Inv /\ CommitInv => \A k \in commits : k.head = head => k.version = BodiesOf(rows)
  BY ExportIsLive DEF CommitInv, CommitVersionStable
<1> QED BY <1>1, Invariance, CommitInvariance, PTL

-----------------------------------------------------------------------------
(* Where the content of a squashed commit comes from.                      *)

\* What a transaction recorded for a row is what it wants the row to hold.
FreshWanted == \A w \in Writers : \A r \in fresh[w] : r.body = want[w][r.doc]

PastBounded == \A p \in past : p.head <= head

\* A revision was first published under a head at which its row held its body.
RevisionsPublished ==
    \A r \in revisions : \E p \in past :
        p.bodies[r.doc] = r.body /\ \A q \in past : r.seq <= q.head => p.head <= q.head

\* The first head: no document, and a workspace row whose first revision stays.
Beginning ==
    /\ \E q \in past : q.head = 1 /\ \A d \in Documents : q.bodies[d] = Gone
    /\ \E r \in revisions : r.doc = Workspace /\ r.seq = 1 /\ r.commit # 0

\* Relative to Inv and CommitInv.
OriginInv == FreshWanted /\ PastBounded /\ RevisionsPublished /\ Beginning

\* A transaction that has not updated a row has not recorded it.
LEMMA RecordedIsUpdated ==
    ASSUME Inv, NEW w \in Writers, NEW r \in fresh[w]
    PROVE  /\ r \in Revision /\ r.doc \in Rows /\ r.seq \in Nat /\ head < r.seq
           /\ bumps[w][r.doc] > 0 /\ want[w][r.doc] # Untouched /\ stage[w] = "open"
<1>1. TypeOK /\ Disciplined(w)
  BY DEF Inv, LockDiscipline
<1>2. r \in Revision /\ r.doc \in Rows /\ r.seq \in Nat /\ r.num \in Nat /\ rows[r.doc].rev \in Nat
      /\ bumps[w][r.doc] \in Nat
  BY <1>1, FieldTypes
<1>3. Continues(w, r) /\ NothingBefore(w) /\ HoldsRow(w, r.doc)
  BY <1>1, <1>2 DEF Disciplined
<1>4. bumps[w][r.doc] > 0
  BY <1>2, <1>3 DEF Continues
<1> QED BY <1>2, <1>3, <1>4 DEF Continues, NothingBefore, HoldsRow

LEMMA NextWanted == Inv /\ FreshWanted /\ [Next]_vars => FreshWanted'
<1> SUFFICES ASSUME Inv, FreshWanted, [Next]_vars, NEW w \in Writers, NEW r \in fresh'[w]
             PROVE  r.body = want'[w][r.doc]
  BY DEF FreshWanted
<1>1. TypeOK
  BY DEF Inv
<1>2. \A q \in fresh[w] : /\ q.body = want[w][q.doc] /\ q.doc \in Rows
                          /\ want[w][q.doc] # Untouched /\ stage[w] = "open"
  BY RecordedIsUpdated DEF FreshWanted
<1>3. ASSUME fresh' = fresh, want' = want PROVE r.body = want'[w][r.doc]
  BY <1>2, <1>3
<1>4. CASE UNCHANGED vars
  BY <1>3, <1>4 DEF vars
<1>5. ASSUME NEW v \in Writers, Idle(v) PROVE r.body = want'[w][r.doc]
  BY <1>1, <1>2, <1>5 DEF Idle, TypeOK
<1>6. ASSUME NEW v \in Writers, NEW d \in Rows, Record(v, d) PROVE r.body = want'[w][r.doc]
  BY <1>1, <1>2, <1>6 DEF Record, TypeOK
<1>7. ASSUME NEW v \in Writers, fresh' = fresh, stage[v] # "open",
             \E f \in [Rows -> Bodies \cup {Untouched}] : want' = [want EXCEPT ![v] = f]
      PROVE  r.body = want'[w][r.doc]
  BY <1>1, <1>2, <1>7 DEF TypeOK
<1>8. ASSUME NEW e \in Editors, EditorStep(e) PROVE r.body = want'[w][r.doc]
  <2>1. e \in Writers
    BY DEF Writers
  <2>2. ASSUME NEW D \in SUBSET Rows, NEW f \in [D -> Bodies], Load(e, f)
        PROVE  r.body = want'[w][r.doc]
    <3>1. [d \in Rows |-> IF d \in DOMAIN f THEN f[d] ELSE Untouched]
              \in [Rows -> Bodies \cup {Untouched}]
      OBVIOUS
    <3>2. fresh' = fresh /\ stage[e] # "open"
      BY <2>2 DEF Load
    <3> QED BY <1>7, <2>1, <2>2, <3>1, <3>2 DEF Load
  <2>3. ASSUME NEW d \in Rows, Cascade(e, d) PROVE r.body = want'[w][r.doc]
    <3>1. PICK body \in Values : want' = [want EXCEPT ![e][d] = body]
      BY <2>3 DEF Cascade
    <3>2. fresh' = fresh /\ want[e][d] = Untouched
      BY <2>3 DEF Cascade
    <3>3. r \in fresh[w] /\ r.doc \in Rows /\ (w = e => r.doc # d)
      BY <1>2, <3>2
    <3> QED BY <1>1, <1>2, <2>1, <3>1, <3>3 DEF TypeOK
  <2>4. CASE \E d \in Rows : UpdateRow(e, d)
    BY <1>3, <2>4 DEF UpdateRow
  <2>5. CASE CommitEdit(e) \/ Abort(e)
    BY <1>5, <2>1, <2>5 DEF CommitEdit, Abort
  <2> QED BY <1>6, <1>8, <2>1, <2>2, <2>3, <2>4, <2>5 DEF EditorStep
<1>9. ASSUME NEW a \in Admins, AdminStep(a) PROVE r.body = want'[w][r.doc]
  <2>1. a \in Writers
    BY DEF Writers
  <2>2. CASE BeginAdmin(a)
    <3>1. plan[a].target \in [Rows -> Bodies]
      BY <2>2 DEF BeginAdmin, Inv, HeadsBounded, Plan
    <3>2. [d \in Rows |-> IF MustWrite(a, d) THEN plan[a].target[d] ELSE Untouched]
              \in [Rows -> Bodies \cup {Untouched}]
      BY <3>1
    <3>3. fresh' = fresh /\ stage[a] # "open"
      BY <2>2 DEF BeginAdmin
    <3> QED BY <1>7, <2>1, <2>2, <3>2, <3>3 DEF BeginAdmin
  <2>3. CASE PlanRestore(a) \/ PlanImport(a) \/ \E d \in Rows : UpdateRow(a, d) \/ Rewrite(a, d)
    BY <1>3, <2>3 DEF PlanRestore, PlanImport, NewPlan, UpdateRow, Rewrite
  <2>4. CASE FinishAdmin(a) \/ Abort(a)
    BY <1>5, <2>1, <2>4 DEF FinishAdmin, Abort
  <2> QED BY <1>6, <1>9, <2>1, <2>2, <2>3, <2>4 DEF AdminStep
<1>10. ASSUME NEW c \in Committers, CommitterStep(c) PROVE r.body = want'[w][r.doc]
  BY <1>3, <1>10 DEF CommitterStep, LoadScope, ReadLatest, ReadPending, Fail, CommitRequest,
                     CommitPreserve, CommitSquash, BuildCommit, txVars
<1> QED BY <1>4, <1>8, <1>9, <1>10 DEF Next

\* A COMMIT publishes its revisions with the rows they describe.
LEMMA PublishOrigin ==
    ASSUME Inv, OriginInv, NEW w \in Writers, Publish(w),
           \A q \in revisions' : \E r \in revisions \cup fresh[w] : Alike(r, q)
    PROVE  PastBounded' /\ RevisionsPublished'
<1> DEFINE new == [head |-> head', bodies |-> BodiesOf(rows')]
<1>1. past' = past \cup {new} /\ new.head = head' /\ new.bodies = BodiesOf(rows')
  BY DEF Publish
<1>2. /\ head \in Nat /\ head' \in Nat /\ head <= head'
      /\ \A p \in past : p.head \in Nat /\ p.head <= head
      /\ \A r \in revisions : r.seq \in Nat
  BY PublishType DEF Inv, TypeOK, Revision, OriginInv, PastBounded
<1> HIDE DEF new
<1>3. PastBounded'
  BY <1>1, <1>2 DEF PastBounded
<1>4. ASSUME NEW q \in revisions'
      PROVE  \E p \in past' : /\ p.bodies[q.doc] = q.body
                              /\ \A x \in past' : q.seq <= x.head => p.head <= x.head
  <2>1. PICK r \in revisions \cup fresh[w] : Alike(r, q)
    OBVIOUS
  <2>2. CASE r \in revisions
    <3>1. PICK p \in past : /\ p.bodies[r.doc] = r.body
                            /\ \A x \in past : r.seq <= x.head => p.head <= x.head
      BY <2>2 DEF OriginInv, RevisionsPublished
    <3>2. p.head <= new.head
      BY <1>1, <1>2
    <3> QED BY <1>1, <2>1, <3>1, <3>2 DEF Alike
  <2>3. CASE r \in fresh[w]
    <3>1. /\ r.doc \in Rows /\ r.seq \in Nat /\ head < r.seq
          /\ bumps[w][r.doc] > 0 /\ r.body = want[w][r.doc]
      BY <2>3, RecordedIsUpdated DEF OriginInv, FreshWanted
    <3>2. new.bodies[r.doc] = r.body
      BY <1>1, <3>1 DEF Publish, BodiesOf
    <3>3. \A x \in past' : r.seq <= x.head => new.head <= x.head
      BY <1>1, <1>2, <3>1
    <3> QED BY <1>1, <2>1, <3>2, <3>3 DEF Alike
  <2> QED BY <2>2, <2>3
<1> QED BY <1>3, <1>4 DEF RevisionsPublished

\* Steps that publish nothing only mark revisions, or remove them.
LEMMA MarkOrigin ==
    ASSUME OriginInv, UNCHANGED <<head, past>>,
           \A q \in revisions' : \E r \in revisions : Alike(r, q)
    PROVE  PastBounded' /\ RevisionsPublished'
<1>1. PastBounded'
  BY DEF OriginInv, PastBounded
<1>2. ASSUME NEW q \in revisions'
      PROVE  \E p \in past : /\ p.bodies[q.doc] = q.body
                             /\ \A x \in past : q.seq <= x.head => p.head <= x.head
  <2>1. PICK r \in revisions : Alike(r, q)
    OBVIOUS
  <2> QED BY <2>1 DEF Alike, OriginInv, RevisionsPublished
<1> QED BY <1>1, <1>2 DEF RevisionsPublished

\* What is left of the revisions after a squash.
LEMMA SquashMarks ==
    ASSUME Inv, NEW c \in Committers, CommitSquash(c)
    PROVE  \A q \in revisions' : \E r \in revisions : Alike(r, q)
<1> DEFINE old  == Pending(revisions, request[c].base)
           mark(r) == Committed(Squashed(r), CommitHead(c))
<1>1. revisions' = (revisions \ old) \cup {mark(r) : r \in LastPerRow(old)}
  BY DEF CommitSquash
<1>2. head \in Nat /\ old \in SUBSET Revision /\ old \subseteq revisions
      /\ \A r \in old : r.seq <= head
  BY DEF Pending, Inv, TypeOK, SequenceTracksHead
<1>3. CommitHead(c) \in Nat
  BY DEF CommitHead, Inv, TypeOK, Request
<1> HIDE DEF old
<1>4. LastPerRow(old) \subseteq old
  BY <1>2, LastOfIsLast DEF LastPerRow
<1>5. \A r \in old : Alike(r, mark(r))
  <2> SUFFICES ASSUME NEW r \in old PROVE Alike(r, mark(r))
    OBVIOUS
  <2>1. Squashed(r) \in Revision /\ Alike(r, Squashed(r))
    BY <1>2, <1>3, MarkedRevision DEF Alike
  <2>2. Alike(Squashed(r), mark(r))
    BY <1>3, <2>1, MarkedRevision DEF Alike
  <2> QED BY <2>1, <2>2 DEF Alike
<1> HIDE DEF mark
<1>6. \A r \in revisions : Alike(r, r)
  BY DEF Alike
<1> QED BY <1>1, <1>2, <1>4, <1>5, <1>6

\* Every step keeps the history's origins.
LEMMA NextOrigin == Inv /\ Inv' /\ CommitInv /\ OriginInv /\ [Next]_vars => OriginInv'
<1> SUFFICES ASSUME Inv, Inv', CommitInv, OriginInv, [Next]_vars PROVE OriginInv'
  OBVIOUS
<1>1. FreshWanted'
  BY NextWanted DEF OriginInv
<1>2. revisions \in SUBSET Revision /\ \A r \in revisions : Alike(r, r)
  BY DEF Inv, TypeOK, Alike
<1>3. ASSUME UNCHANGED <<head, past, revisions>>
      PROVE  past \subseteq past' /\ PastBounded' /\ RevisionsPublished'
  BY <1>2, <1>3, MarkOrigin
<1>4. past \subseteq past' /\ PastBounded' /\ RevisionsPublished'
  <2>1. CASE UNCHANGED vars
    BY <1>3, <2>1 DEF vars
  <2>2. ASSUME NEW e \in Editors, EditorStep(e)
        PROVE  past \subseteq past' /\ PastBounded' /\ RevisionsPublished'
    <3>1. CASE CommitEdit(e)
      <4>1. e \in Writers /\ Publish(e) /\ revisions' = revisions \cup fresh[e]
        BY <3>1 DEF CommitEdit, Writers
      <4>2. \A q \in revisions' : Alike(q, q)
        BY DEF Alike
      <4>3. past \subseteq past'
        BY <4>1 DEF Publish
      <4> QED BY <4>1, <4>2, <4>3, PublishOrigin
    <3>2. CASE ~ CommitEdit(e)
      BY <1>3, <2>2, <3>2 DEF EditorStep, Load, UpdateRow, Cascade, Record, Abort, liveVars
    <3> QED BY <3>1, <3>2
  <2>3. ASSUME NEW a \in Admins, AdminStep(a)
        PROVE  past \subseteq past' /\ PastBounded' /\ RevisionsPublished'
    <3>1. CASE FinishAdmin(a)
      <4> DEFINE all == revisions \cup fresh[a]
                 ids == {Id(r) : r \in Adopted(a)}
      <4>1. a \in Writers /\ Publish(a) /\ revisions' = Attach(all, ids, head')
        BY <3>1 DEF FinishAdmin, Writers
      <4>2. all \in SUBSET Revision /\ head' \in Nat
        BY <1>2, <4>1, FieldTypes, PublishType DEF Inv
      <4> HIDE DEF all, ids
      <4>3. \A q \in revisions' : \E r \in all : Alike(r, q)
        BY <4>1, <4>2, AttachMarksOnly
      <4>4. past \subseteq past'
        BY <4>1 DEF Publish
      <4> QED BY <4>1, <4>3, <4>4, PublishOrigin DEF all
    <3>2. CASE ~ FinishAdmin(a)
      BY <1>3, <2>3, <3>2 DEF AdminStep, PlanRestore, PlanImport, NewPlan, BeginAdmin, UpdateRow,
                              Rewrite, Record, Abort, liveVars
    <3> QED BY <3>1, <3>2
  <2>4. ASSUME NEW c \in Committers, CommitterStep(c)
        PROVE  past \subseteq past' /\ PastBounded' /\ RevisionsPublished'
    <3>1. UNCHANGED <<head, past>>
      BY <2>4 DEF CommitterStep, LoadScope, ReadLatest, ReadPending, Fail, CommitRequest,
                  CommitPreserve, CommitSquash, BuildCommit, liveVars
    <3>2. ASSUME NEW ids, NEW h \in Nat, revisions' = Attach(revisions, ids, h)
          PROVE  \A q \in revisions' : \E r \in revisions : Alike(r, q)
      BY <1>2, <3>2, AttachMarksOnly
    <3>3. CASE revisions' = revisions
      BY <1>3, <3>1, <3>3
    <3>4. CASE CommitPreserve(c)
      <4>1. request[c].head \in Nat
        BY DEF Inv, TypeOK, Request
      <4>2. revisions' = Attach(revisions, request[c].pending, request[c].head)
        BY <3>4 DEF CommitPreserve, CommitHead
      <4> QED BY <3>1, <3>2, <4>1, <4>2, MarkOrigin
    <3>5. CASE CommitSquash(c)
      BY <3>1, <3>5, SquashMarks, MarkOrigin
    <3>6. CASE BuildCommit(c)
      <4>1. head \in Nat /\ \E ids : revisions' = Attach(revisions, ids, head)
        BY <3>6 DEF BuildCommit, Inv, TypeOK
      <4> QED BY <3>1, <3>2, <4>1, MarkOrigin
    <3>7. CASE LoadScope(c) \/ ReadLatest(c) \/ ReadPending(c) \/ Fail(c)
      BY <3>3, <3>7 DEF LoadScope, ReadLatest, ReadPending, Fail
    <3> QED BY <2>4, <3>4, <3>5, <3>6, <3>7 DEF CommitterStep, CommitRequest
  <2> QED BY <2>1, <2>2, <2>3, <2>4 DEF Next
<1>5. Beginning'
  <2>1. PICK r \in revisions : r.doc = Workspace /\ r.seq = 1 /\ r.commit # 0
    BY DEF OriginInv, Beginning
  <2>2. \E q \in revisions' : q.commit # 0 /\ q.doc = Workspace /\ q.seq = 1
    <3>1. CASE revisions' = revisions
      BY <2>1, <3>1
    <3>2. CASE revisions' # revisions
      <4>1. Survives
        BY <3>2, NextSurvives DEF vars
      <4>2. PICK q \in revisions' : q.commit # 0 /\ [q EXCEPT !.commit = r.commit] = r
        BY <2>1, <4>1 DEF Survives
      <4>3. q.doc = r.doc /\ q.seq = r.seq
        BY <4>2 DEF Inv, TypeOK, Revision
      <4> QED BY <2>1, <4>2, <4>3
    <3> QED BY <3>1, <3>2
  <2> QED BY <1>4, <2>2 DEF OriginInv, Beginning
<1> QED BY <1>1, <1>4, <1>5 DEF OriginInv

LEMMA InitOrigin == Init => OriginInv
<1> SUFFICES ASSUME Init PROVE OriginInv
  OBVIOUS
<1> DEFINE initial(v) == [d \in Rows |-> IF d = Workspace THEN v ELSE Gone]
<1>1. PICK v \in Values :
        /\ head = 1
        /\ revisions = {[doc |-> Workspace, num |-> 1, seq |-> 1, basis |-> 0,
                         body |-> v, squashed |-> FALSE, commit |-> 1]}
        /\ fresh = [w \in Writers |-> {}]
        /\ past = {[head |-> 1, bodies |-> initial(v)]}
  BY Zenon DEF Init
<1>2. FreshWanted /\ PastBounded
  BY <1>1 DEF FreshWanted, PastBounded
<1>3. initial(v)[Workspace] = v /\ \A d \in Documents : initial(v)[d] = Gone
  BY ConstantsAssumption DEF Rows
<1> HIDE DEF initial
<1>4. RevisionsPublished /\ Beginning
  BY <1>1, <1>3 DEF RevisionsPublished, Beginning
<1> QED BY <1>2, <1>4 DEF OriginInv

-----------------------------------------------------------------------------
(* The history implements VersionedWorkspace: the steps that publish, the  *)
(* steps that commit, and the silent rest.                                 *)

Silent == UNCHANGED <<BodiesOf(rows), head, past, Saved>>

\* Nothing a reader of the workspace or of its commits can see.
LEMMA HiddenStep ==
    ASSUME UNCHANGED <<rows, head, past, commits>>
    PROVE  Silent
  BY DEF Silent, Saved, BodiesOf

\* A row that a transaction is to publish was updated and recorded, so a
\* transaction that drew no number publishes nothing new.
LEMMA EmptyTransaction ==
    ASSUME Inv, PublishedNow, NEW w \in Writers, Complete(w), Publish(w), drawn[w] = 0
    PROVE  rows' = rows /\ head' = head /\ past' = past
<1>1. TypeOK /\ Disciplined(w) /\ head \in Nat
  BY DEF Inv, LockDiscipline, TypeOK
<1>2. \A d \in Rows : ~ (bumps[w][d] > 0)
  <2> SUFFICES ASSUME NEW d \in Rows, bumps[w][d] > 0 PROVE FALSE
    OBVIOUS
  <2>1. want[w][d] # Untouched
    BY <1>1 DEF Disciplined, HoldsRow
  <2>2. PICK r \in fresh[w] : r.doc = d
    BY <2>1 DEF Complete, Recorded
  <2>3. r.seq \in Nat /\ head < r.seq /\ r.seq <= head + drawn[w]
    BY <1>1, <2>2, FieldTypes DEF Disciplined, Continues
  <2> QED BY <1>1, <2>3
<1>3. rows' = rows
  BY <1>1, <1>2 DEF Publish, TypeOK
<1>4. head' = head
  BY <1>1 DEF Publish
<1>5. past' = past \cup {[head |-> head, bodies |-> BodiesOf(rows)]}
  BY <1>3, <1>4 DEF Publish, BodiesOf
<1> QED BY <1>3, <1>4, <1>5 DEF PublishedNow

\* A transaction that drew a number changes the content under a greater head.
LEMMA PublishChanges ==
    ASSUME Inv, NEW w \in Writers, Publish(w), drawn[w] # 0
    PROVE  Versioned!Change
<1>1. head \in Nat /\ drawn[w] \in Nat /\ head' = head + drawn[w]
  BY FieldTypes DEF Inv, Publish
<1>2. head' \in Nat /\ head' > head
  BY <1>1
<1>3. BodiesOf(rows)' \in [Rows -> Bodies]
  BY PublishType DEF BodiesOf, Row
<1>4. past' = past \cup {[head |-> head', bodies |-> BodiesOf(rows)']}
  BY DEF Publish, BodiesOf
<1> QED BY <1>2, <1>3, <1>4 DEF Versioned!Change

LEMMA SavedGrows ==
    ASSUME NEW k, commits' = commits \cup {k}
    PROVE  Saved' = Saved \cup {[head |-> k.head, version |-> k.version]}
  BY DEF Saved

\* A commit at a head that was published and that no commit has.
LEMMA CommitSaves ==
    ASSUME UNCHANGED <<rows, head, past>>, NEW k, commits' = commits \cup {k},
           \A m \in commits : m.head # k.head, k.version \in [Rows -> Bodies],
           NEW p \in past, p.head = k.head,
           \/ k.version = p.bodies
           \/ "squash" \in Policies /\ p.head < head /\ Versioned!UpTo(p, k.version)
    PROVE  Versioned!Save
<1>1. Saved' = Saved \cup {[head |-> p.head, version |-> k.version]}
  BY SavedGrows
<1>2. \A s \in Saved : s.head # p.head
  BY DEF Saved
<1>3. UNCHANGED <<BodiesOf(rows), head, past>>
  BY DEF BodiesOf
<1>4. \/ Versioned!Exact(p, k.version)
      \/ "squash" \in Policies /\ p.head < head /\ Versioned!UpTo(p, k.version)
  BY DEF Versioned!Exact
<1>5. Saved' # Saved
  <2>1. [head |-> p.head, version |-> k.version] \notin Saved
    BY <1>2
  <2> QED BY <1>1, <2>1
<1> QED BY <1>1, <1>2, <1>3, <1>4, <1>5 DEF Versioned!Save

\* A commit at the head is exact.
LEMMA HeadSaves ==
    ASSUME Inv, Inv', PublishedNow, UNCHANGED <<rows, head, past>>, NEW k,
           commits' = commits \cup {k}, \A m \in commits : m.head # k.head,
           k.head = head, k.version = Export(revisions', head)
    PROVE  Versioned!Save
<1>1. Export(revisions', head) = BodiesOf(rows) /\ BodiesOf(rows) \in [Rows -> Bodies]
  BY ExportIsLiveNext DEF BodiesOf, Inv, TypeOK, Row
<1>2. PICK p \in past : p = [head |-> head, bodies |-> BodiesOf(rows)]
  BY DEF PublishedNow
<1>3. p.head = head /\ p.bodies = BodiesOf(rows)
  BY <1>2
<1> QED BY <1>1, <1>3, CommitSaves

\* What a squash at an earlier head exports there: of every row, a revision up
\* to that head, or nothing, as at the first head.
LEMMA SquashExport ==
    ASSUME Inv, Inv', CommitInv, OriginInv, OriginInv', past' = past,
           NEW p \in past, p.head > 0
    PROVE  Versioned!UpTo(p, Export(revisions', p.head))
<1> DEFINE known == {r \in revisions' : r.seq <= p.head}
<1>1. revisions' \in SUBSET Revision /\ p.head \in Nat
  BY DEF Inv, TypeOK
<1>2. known \in SUBSET Revision /\ \A r \in known : r.seq <= p.head
  BY <1>1
<1> SUFFICES ASSUME NEW d \in Rows
             PROVE  \E q \in past : /\ q.head <= p.head
                                    /\ Export(revisions', p.head)[d] = q.bodies[d]
  BY DEF Versioned!UpTo
<1>3. Export(revisions', p.head)[d]
        = IF \E r \in known : r.doc = d THEN LastOf(known, d).body ELSE Gone
  BY DEF Export
<1>4. CASE \E r \in known : r.doc = d
  <2>1. LastOf(known, d) \in known /\ LastOf(known, d).doc = d
    <3> HIDE DEF known
    <3> QED BY <1>1, <1>2, <1>4, LastOfIsLast
  <2>2. PICK q \in past : /\ q.bodies[d] = LastOf(known, d).body
                          /\ \A x \in past : LastOf(known, d).seq <= x.head => q.head <= x.head
    BY <2>1 DEF OriginInv, RevisionsPublished
  <2>3. q.head <= p.head
    BY <1>2, <2>1, <2>2
  <2> QED BY <1>3, <1>4, <2>2, <2>3
<1>5. CASE ~ \E r \in known : r.doc = d
  <2>1. PICK q \in past : q.head = 1 /\ \A x \in Documents : q.bodies[x] = Gone
    BY DEF OriginInv, Beginning
  <2>2. PICK r \in revisions' : r.doc = Workspace /\ r.seq = 1
    BY DEF OriginInv, Beginning
  <2>3. q.head <= p.head /\ r \in known
    BY <1>1, <2>1, <2>2
  <2>4. d \in Documents
    BY <1>5, <2>2, <2>3 DEF Rows
  <2> QED BY <1>3, <1>5, <2>1, <2>3, <2>4
<1> QED BY <1>4, <1>5

\* commits.Create at the head of the request's scope.
LEMMA RequestSaves ==
    ASSUME Inv, Inv', CommitInv, PastInv, PastInv', OriginInv, OriginInv', NEW c \in Committers,
           CommitRequest(c)
    PROVE  Versioned!Save
<1> DEFINE h == request[c].head
           k == NewCommit(h, request[c].base, Export(revisions', h))
<1>1. /\ UNCHANGED <<rows, head, past>> /\ commits' = commits \cup {k}
      /\ \A m \in commits : m.head # h
      /\ request[c].step = "ready"
      /\ ("squash" \notin Policies => CommitPreserve(c))
  BY DEF CommitRequest, CommitPreserve, CommitSquash, CommitHead, MayInsertCommit, liveVars
<1>2. k.head = h /\ k.version = Export(revisions', h)
  BY DEF NewCommit
<1>3. h \in Nat /\ h > 0 /\ h <= head /\ head \in Nat
  BY <1>1 DEF Inv, TypeOK, Request, HeadsBounded, CommitInv, Positive
<1> HIDE DEF k
<1>4. CASE h = head
  BY <1>1, <1>2, <1>4, HeadSaves DEF PastInv
<1>5. CASE h # head
  <2>1. PICK p \in past : p.head = h
    <3>1. PastHeads /\ request[c].step # "idle"
      BY <1>1 DEF PastInv
    <3> QED BY <3>1 DEF PastHeads
  <2>2. k.version \in [Rows -> Bodies]
    <3>1. revisions' \in SUBSET Revision
      BY DEF Inv, TypeOK
    <3> QED BY <1>2, <1>3, <3>1, ExportType
  <2>3. CASE "squash" \in Policies
    <3>1. Versioned!UpTo(p, k.version) /\ p.head < head
      BY <1>1, <1>2, <1>3, <1>5, <2>1, SquashExport
    <3> QED BY <1>1, <1>2, <2>1, <2>2, <2>3, <3>1, CommitSaves
  <2>4. CASE "squash" \notin Policies
    <3>1. k.version = p.bodies
      BY <1>1, <1>2, <2>1, <2>4 DEF PastInv, PastExports
    <3> QED BY <1>1, <1>2, <2>1, <2>2, <3>1, CommitSaves
  <2> QED BY <2>3, <2>4
<1> QED BY <1>3, <1>4, <1>5

\* CreateFromBuild.
LEMMA BuildSaves ==
    ASSUME Inv, Inv', PastInv, NEW c \in Committers, BuildCommit(c)
    PROVE  Versioned!Save
<1> DEFINE k == NewCommit(head, LatestHead, Export(revisions', head))
<1>1. UNCHANGED <<rows, head, past>> /\ commits' = commits \cup {k} /\ LatestHead # head
  BY DEF BuildCommit, liveVars
<1>2. k.head = head /\ k.version = Export(revisions', head)
  BY DEF NewCommit
<1>3. \A m \in commits : m.head # head
  <2>1. LatestHead \in Nat /\ LatestHead <= head /\ \A m \in commits : m.head <= LatestHead
    BY LatestHeadIsMaximum DEF Inv
  <2>2. head \in Nat /\ \A m \in commits : m.head \in Nat
    BY DEF Inv, TypeOK, Commit
  <2> QED BY <1>1, <2>1, <2>2
<1> HIDE DEF k
<1> QED BY <1>1, <1>2, <1>3, HeadSaves DEF PastInv

\* A restore or an import replaces the content, or, if what is live and pending
\* was its target already, saves it.
LEMMA AdminSaves ==
    ASSUME Inv, Inv', CommitInv, PastInv, NEW a \in Admins, FinishAdmin(a)
    PROVE  Versioned!Replace \/ Versioned!Save
<1> DEFINE k == NewCommit(head', LatestHead, plan[a].target)
<1>1. a \in Writers /\ Publish(a) /\ Complete(a) /\ commits' = commits \cup {k}
      /\ Adopted(a) # {} /\ stage[a] = "open"
  BY DEF FinishAdmin, Writers
<1>2. k.head = head' /\ k.version = Export(revisions', head')
  BY DEF NewCommit
<1> HIDE DEF k
<1>3. CASE drawn[a] # 0
  <2>1. Versioned!Change
    BY <1>1, <1>3, PublishChanges
  <2>2. k.version = BodiesOf(rows)'
    BY <1>2, ExportIsLiveNext DEF BodiesOf
  <2>3. Saved' = Saved \cup {[head |-> head', version |-> BodiesOf(rows)']}
    BY <1>1, <1>2, <2>2, SavedGrows
  <2> QED BY <2>1, <2>3 DEF Versioned!Replace
<1>4. CASE drawn[a] = 0
  <2>1. UNCHANGED <<rows, head, past>>
    BY <1>1, <1>4, EmptyTransaction DEF PastInv
  <2>2. fresh[a] = {}
    <3> SUFFICES ASSUME NEW r \in fresh[a] PROVE FALSE
      OBVIOUS
    <3>1. r.seq \in Nat /\ head < r.seq /\ r.seq <= head + drawn[a] /\ head \in Nat
      BY <1>1, FieldTypes DEF Inv, LockDiscipline, Disciplined, Continues
    <3> QED BY <1>4, <3>1
  <2>3. plan[a].op = "restore" /\ Adopted(a) = Pending(revisions, LatestHead)
    BY <1>1, <2>2 DEF Adopted
  <2>4. \A m \in commits : m.head # head
    <3>1. PICK r \in revisions : r.seq > LatestHead
      BY <1>1, <2>3 DEF Pending
    <3>2. r.seq \in Nat /\ r.seq <= head /\ head \in Nat
      BY <3>1 DEF Inv, TypeOK, Revision, SequenceTracksHead
    <3>3. LatestHead \in Nat /\ \A m \in commits : m.head \in Nat /\ m.head <= LatestHead
      BY LatestHeadIsMaximum DEF Inv, TypeOK, Commit
    <3> QED BY <3>1, <3>2, <3>3
  <2> QED BY <1>1, <1>2, <2>1, <2>4, HeadSaves DEF PastInv
<1> QED BY <1>3, <1>4

\* The COMMIT of an editor.
LEMMA EditMaps ==
    ASSUME Inv, PastInv, NEW e \in Editors, CommitEdit(e)
    PROVE  Versioned!Edit \/ Silent
<1>1. e \in Writers /\ Publish(e) /\ Complete(e) /\ commits' = commits
  BY DEF CommitEdit, Writers
<1>2. CASE drawn[e] # 0
  BY <1>1, <1>2, PublishChanges DEF Versioned!Edit, Saved
<1>3. CASE drawn[e] = 0
  BY <1>1, <1>3, EmptyTransaction, HiddenStep DEF PastInv
<1> QED BY <1>2, <1>3

LEMMA StepMaps ==
    Inv /\ Inv' /\ CommitInv /\ PastInv /\ PastInv' /\ OriginInv /\ OriginInv' /\ [Next]_vars
        => [Versioned!Next]_(Versioned!vars)
<1> SUFFICES ASSUME Inv, Inv', CommitInv, PastInv, PastInv', OriginInv, OriginInv', [Next]_vars
             PROVE  Versioned!Next \/ Silent
  BY DEF Silent, Versioned!vars
<1>1. CASE UNCHANGED vars
  BY <1>1, HiddenStep DEF vars
<1>2. ASSUME NEW e \in Editors, EditorStep(e) PROVE Versioned!Next \/ Silent
  <2>1. CASE CommitEdit(e)
    BY <2>1, EditMaps DEF Versioned!Next
  <2>2. CASE ~ CommitEdit(e)
    BY <1>2, <2>2, HiddenStep DEF EditorStep, Load, UpdateRow, Cascade, Record, Abort, liveVars
  <2> QED BY <2>1, <2>2
<1>3. ASSUME NEW a \in Admins, AdminStep(a) PROVE Versioned!Next \/ Silent
  <2>1. CASE FinishAdmin(a)
    BY <2>1, AdminSaves DEF Versioned!Next
  <2>2. CASE ~ FinishAdmin(a)
    BY <1>3, <2>2, HiddenStep DEF AdminStep, PlanRestore, PlanImport, NewPlan, BeginAdmin,
                                  UpdateRow, Rewrite, Record, Abort, liveVars
  <2> QED BY <2>1, <2>2
<1>4. ASSUME NEW c \in Committers, CommitterStep(c) PROVE Versioned!Next \/ Silent
  <2>1. CASE CommitRequest(c)
    BY <2>1, RequestSaves DEF Versioned!Next
  <2>2. CASE BuildCommit(c)
    BY <2>2, BuildSaves DEF Versioned!Next
  <2>3. CASE LoadScope(c) \/ ReadLatest(c) \/ ReadPending(c) \/ Fail(c)
    BY <2>3, HiddenStep DEF LoadScope, ReadLatest, ReadPending, Fail, liveVars
  <2> QED BY <1>4, <2>1, <2>2, <2>3 DEF CommitterStep
<1> QED BY <1>1, <1>2, <1>3, <1>4 DEF Next

LEMMA InitMaps == Init => Versioned!Init
<1> SUFFICES ASSUME Init PROVE Versioned!Init
  OBVIOUS
<1> DEFINE initial(v) == [d \in Rows |-> IF d = Workspace THEN v ELSE Gone]
<1>1. PICK v \in Values :
        /\ rows = [d \in Rows |-> [rev  |-> IF d = Workspace THEN 1 ELSE 0,
                                   body |-> initial(v)[d]]]
        /\ head = 1
        /\ commits = {[head |-> 1, base |-> 0, version |-> initial(v), target |-> initial(v)]}
        /\ past = {[head |-> 1, bodies |-> initial(v)]}
  BY Zenon DEF Init
<1>2. BodiesOf(rows) = initial(v) /\ initial(v) \in [Rows -> Bodies]
  BY <1>1 DEF BodiesOf, Bodies
<1> HIDE DEF initial
<1>3. Saved = {[head |-> 1, version |-> initial(v)]}
  BY <1>1 DEF Saved
<1> QED BY <1>1, <1>2, <1>3 DEF Versioned!Init

\* Editors, admins and committers that interleave statement by statement behave,
\* taken together, like a workspace whose content changes as a whole and whose
\* commits save what it was at one head.
THEOREM VersionedWorkspaceImplemented == Spec => ImplementsVersionedWorkspace
<1>1. Inv /\ Inv' /\ PastInv /\ [Next]_vars => PastInv'
  BY NextPast
<1>2. Spec => []PastInv
  BY <1>1, InitPast, Invariance, PTL DEF Spec
<1>3. Spec => []OriginInv
  BY InitOrigin, NextOrigin, Invariance, CommitInvariance, PTL DEF Spec
<1> QED BY <1>2, <1>3, InitMaps, StepMaps, Invariance, CommitInvariance, PTL
           DEF Spec, ImplementsVersionedWorkspace, Versioned!Spec
=============================================================================
