--------------------------- MODULE ContentsProofs ---------------------------
(* Proofs about Contents.                                                    *)
EXTENDS Contents, FiniteSetTheorems, TLAPS

(***************************************************************************)
(* The inductive invariant: types, one active item at most, and that what  *)
(* a request has read is still so until it is stale.                       *)
(***************************************************************************)
Single(row) == \A i, j \in row.items : i = j

Fresh(q) ==
    open[q].kind \in Kinds /\ ~open[q].stale =>
        open[q].seen = Viewed(rows[open[q].content])

IInv ==
    /\ rows \in [Content -> Row]
    /\ open \in [Requests -> Session]
    /\ \A c \in Content : Single(rows[c])
    /\ \A q \in Requests : Fresh(q)

\* Viewed is a View.
LEMMA ViewedType == \A row \in Row : Viewed(row) \in View
  BY DEF Viewed, View, Row

\* A session is a request exactly when its kind is one.
LEMMA SessionKinds ==
    ASSUME NEW s \in Session
    PROVE  /\ s.kind \in Kinds => s \in Request
           /\ s = Closed => s.kind \notin Kinds
           /\ \A c \in Content : s = Second(c) => s.kind \notin Kinds
  BY DEF Session, Closed, Second, Kinds, Request

\* Making others stale leaves the sessions sessions.
LEMMA OutdatedType ==
    ASSUME IInv, NEW c \in Content, NEW after
    PROVE  Outdated(c, after) \in [Requests -> Session]
<1> SUFFICES ASSUME NEW q \in Requests PROVE Outdated(c, after)[q] \in Session
  BY DEF Outdated
<1>1. open[q] \in Session  BY DEF IInv
<1>2. CASE open[q].kind \in Kinds /\ open[q].content = c /\ after # rows[c]
  <2>1. open[q] \in Request  BY <1>1, <1>2, SessionKinds
  <2>2. [open[q] EXCEPT !.stale = TRUE] \in Request  BY <2>1 DEF Request
  <2> QED  BY <1>2, <2>2 DEF Outdated, Session
<1>3. CASE ~(open[q].kind \in Kinds /\ open[q].content = c /\ after # rows[c])
  BY <1>1, <1>3 DEF Outdated
<1> QED  BY <1>2, <1>3

\* A view that was true and is not made stale is true of the new rows.
LEMMA OutdatedFresh ==
    ASSUME IInv, NEW c \in Content, NEW after, NEW q \in Requests,
           rows' = [rows EXCEPT ![c] = after],
           open'[q] = Outdated(c, after)[q]
    PROVE  Fresh(q)'
<1>1. open[q] \in Session /\ Fresh(q)  BY DEF IInv
<1>2. CASE open[q].kind \in Kinds
  <2>1. open[q] \in Request  BY <1>1, <1>2, SessionKinds
  <2>2. open[q].content \in Content  BY <2>1 DEF Request
  <2>3. CASE open[q].content = c /\ after # rows[c]
    <3>1. open'[q] = [open[q] EXCEPT !.stale = TRUE]  BY <1>2, <2>3 DEF Outdated
    <3>2. open'[q].stale  BY <2>1, <3>1 DEF Request
    <3> QED  BY <3>2 DEF Fresh
  <2>4. CASE open[q].content = c /\ after = rows[c]
    <3>1. open'[q] = open[q] /\ rows' = rows  BY <2>4 DEF Outdated, IInv
    <3> QED  BY <1>1, <3>1 DEF Fresh, Viewed
  <2>5. CASE open[q].content # c
    <3>1. open'[q] = open[q]  BY <2>5 DEF Outdated
    <3>2. rows'[open[q].content] = rows[open[q].content]  BY <2>2, <2>5 DEF IInv
    <3> QED  BY <1>1, <3>1, <3>2 DEF Fresh, Viewed
  <2> QED  BY <2>3, <2>4, <2>5
<1>3. CASE open[q].kind \notin Kinds
  BY <1>3 DEF Outdated, Fresh
<1> QED  BY <1>2, <1>3

LEMMA WriteInv ==
    ASSUME IInv, NEW c \in Content, NEW after \in Row, Single(after), Write(c, after)
    PROVE  IInv'
<1>1. rows' \in [Content -> Row]  BY DEF IInv, Write
<1>2. open' \in [Requests -> Session]  BY OutdatedType DEF Write
<1>3. \A d \in Content : Single(rows'[d])  BY DEF IInv, Write
<1>4. \A q \in Requests : Fresh(q)'  BY OutdatedFresh DEF Write
<1> QED  BY <1>1, <1>2, <1>3, <1>4 DEF IInv, Single

LEMMA CommitInv ==
    ASSUME IInv, NEW p \in Requests, NEW c \in Content, NEW after \in Row,
           Single(after), NEW next \in {Closed, Second(c)}, Commit(p, c, after, next)
    PROVE  IInv'
<1>1. rows' \in [Content -> Row]  BY DEF IInv, Commit
<1>2. next \in Session /\ next.kind \notin Kinds
  BY DEF Session, Closed, Second, Kinds
<1>3. Outdated(c, after) \in [Requests -> Session]  BY OutdatedType
<1>4. open' \in [Requests -> Session]  BY <1>2, <1>3 DEF Commit
<1>5. \A d \in Content : Single(rows'[d])  BY DEF IInv, Commit
<1>6. ASSUME NEW q \in Requests PROVE Fresh(q)'
  <2>1. CASE q = p
    <3>1. open'[q] = next  BY <2>1, <1>3 DEF Commit
    <3> QED  BY <3>1, <1>2 DEF Fresh
  <2>2. CASE q # p
    <3>1. open'[q] = Outdated(c, after)[q]  BY <2>2, <1>3 DEF Commit
    <3> QED  BY <3>1, OutdatedFresh DEF Commit
  <2> QED  BY <2>1, <2>2
<1> QED  BY <1>1, <1>4, <1>5, <1>6 DEF IInv, Single

-----------------------------------------------------------------------------
(* What the selections do to a row.                                        *)

\* What was known of the content is known of it still.
Learns(row, after) ==
    /\ row.known => after.known
    /\ row.fetched => after.fetched
    /\ row.judged => after.judged

\* after differs from row in its items at most.
OnlyItems(row, after) ==
    /\ after \in Row
    /\ Single(after)
    /\ after.user = row.user
    /\ after.details = row.details
    /\ Learns(row, after)

LEMMA CreatedRow ==
    ASSUME NEW row \in Row, NEW locked \in BOOLEAN, MayCreate(row)
    PROVE  OnlyItems(row, Created(row, locked))
<1> DEFINE i == [no |-> row.made + 1, locked |-> locked]
<1>1. row.made + 1 \in 1..MaxItems
  BY ContentsAssumption DEF MayCreate, Row
<1>2. i \in Item  BY <1>1 DEF Item
<1>3. Created(row, locked) = [row EXCEPT !.items = @ \cup {i}, !.made = @ + 1]
  BY DEF Created
<1>4. row.made + 1 \in 0..MaxItems  BY <1>1, ContentsAssumption
<1> HIDE DEF i
<1> QED  BY <1>2, <1>3, <1>4 DEF OnlyItems, Learns, Single, MayCreate, Row

LEMMA UpdatedRow ==
    ASSUME NEW row \in Row, Single(row), NEW i \in Item, NEW locked \in BOOLEAN
    PROVE  OnlyItems(row, Updated(row, i, locked))
<1> DEFINE New(j) == IF j.no = i.no THEN [j EXCEPT !.locked = locked] ELSE j
           items == {New(j) : j \in row.items}
<1>1. \A j \in row.items : New(j) \in Item  BY DEF Row, Item
<1>2. items \in SUBSET Item  BY <1>1
<1>3. \A j, k \in items : j = k  BY DEF Single
<1>4. Updated(row, i, locked) = [row EXCEPT !.items = items]  BY DEF Updated
<1> HIDE DEF items
<1> QED  BY <1>2, <1>3, <1>4 DEF OnlyItems, Learns, Single, Row

LEMMA SelectedRow ==
    ASSUME NEW seen \in View, NEW row \in Row, Single(row), NEW locked \in BOOLEAN,
           NEW after \in Selected(seen, row, locked)
    PROVE  OnlyItems(row, after)
<1>1. CASE seen.items = {} /\ MayCreate(row) /\ after = Created(row, locked)
  BY <1>1, CreatedRow
<1>2. CASE \E i \in seen.items : after = Updated(row, i, locked)
  <2>1. PICK i \in seen.items : after = Updated(row, i, locked)
    BY <1>2
  <2>2. i \in Item  BY DEF View
  <2> QED  BY <2>1, <2>2, UpdatedRow
<1>3. CASE after = row  BY <1>3 DEF OnlyItems, Learns
<1> QED  BY <1>1, <1>2, <1>3 DEF Selected

LEMMA ByRulesRow ==
    ASSUME NEW seen \in View, NEW judged, NEW row \in Row, Single(row),
           NEW after \in ByRules(seen, judged, row)
    PROVE  OnlyItems(row, after)
<1>1. CASE after = row  BY <1>1 DEF OnlyItems, Learns
<1>2. CASE after # row
  <2>1. after \in Selected(seen, row, FALSE)  BY <1>2 DEF ByRules
  <2> QED  BY <2>1, SelectedRow
<1> QED  BY <1>1, <1>2

\* The rules unlock nothing of a row they have seen as it is.
LEMMA ByRulesLocked ==
    ASSUME NEW seen, NEW judged, NEW row \in Row, Single(row),
           seen.items = row.items,
           NEW after \in ByRules(seen, judged, row),
           NEW i \in row.items, i.locked
    PROVE  after = row
  BY DEF ByRules, Locked
-----------------------------------------------------------------------------
(* Each action writes or commits a row of its own kind.                    *)

LEMMA RequestFields ==
    ASSUME IInv, NEW q \in Requests, open[q].kind \in Kinds
    PROVE  /\ open[q].content \in Content
           /\ open[q].seen \in View
           /\ rows[open[q].content] \in Row
           /\ Single(rows[open[q].content])
<1>1. open[q] \in Request  BY SessionKinds DEF IInv
<1> QED  BY <1>1 DEF Request, IInv

\* A step that commits or writes, and to which row.
Commits(q, after) ==
    /\ open[q].kind \in Kinds
    /\ after \in Row
    /\ Single(after)
    /\ \E next \in {Closed, Second(open[q].content)} :
          Commit(q, open[q].content, after, next)

LEMMA FeedCommits ==
    ASSUME IInv, NEW q \in Requests, NEW user \in Users \cup {NoUser},
           NEW policy \in BOOLEAN, NEW prelim \in BOOLEAN,
           IngestFeed(q, user, policy, prelim)
    PROVE  \E after :
             /\ Commits(q, after)
             /\ after.items = rows[open[q].content].items
             /\ after.user = AutoAssigned(open[q].seen, rows[open[q].content], user)
             /\ after.details # rows[open[q].content].details => ~open[q].seen.fetching
             /\ after.known
             /\ Learns(rows[open[q].content], after)
<1> DEFINE c == open[q].content
           seen == open[q].seen
           row == rows[c]
           asks == AsksForDetail(open[q].kind, seen, policy)
           after == [row EXCEPT !.known = TRUE,
                                !.user = AutoAssigned(seen, row, user),
                                !.judged = @ \/ prelim \/ seen.fetched,
                                !.details = IF asks THEN @ + 1 ELSE @]
<1>1. open[q].kind \in Kinds  BY DEF IngestFeed, Kinds
<1>2. /\ asks => row.details < MaxDetails
      /\ \E next \in {Closed, Second(c)} : Commit(q, c, after, next)
  BY DEF IngestFeed
<1>3. c \in Content /\ seen \in View /\ row \in Row /\ Single(row)
  BY <1>1, RequestFields
<1>4. AutoAssigned(seen, row, user) \in Users \cup {NoUser}
  BY <1>3 DEF AutoAssigned, Row
<1>5. (IF asks THEN row.details + 1 ELSE row.details) \in 0..MaxDetails
  BY <1>2, <1>3, ContentsAssumption DEF Row
<1>6. after \in Row /\ after.items = row.items
  BY <1>3, <1>4, <1>5 DEF Row, View
<1>7. Single(after)  BY <1>3, <1>6 DEF Single
<1>8. after.user = AutoAssigned(seen, row, user)  BY <1>3 DEF Row
<1>9. after.details # row.details => ~seen.fetching
  <2>1. after.details = IF asks THEN row.details + 1 ELSE row.details
    BY <1>3 DEF Row
  <2> QED  BY <2>1 DEF AsksForDetail
<1>10. after.known /\ Learns(row, after)  BY <1>3 DEF Row, View, Learns
<1>11. Commits(q, after)  BY <1>1, <1>2, <1>6, <1>7 DEF Commits
<1> HIDE DEF after
<1> QED  BY <1>6, <1>8, <1>9, <1>10, <1>11

\* What came of the rules on a row with the items of the content.
RulesOn(seen, row, after) ==
    \E judged \in BOOLEAN, base \in Row :
        /\ base.items = row.items /\ base.user = row.user /\ base.details = row.details
        /\ Learns(row, base)
        /\ after = base \/ after \in ByRules(seen, judged, base)

LEMMA RulesCommit ==
    ASSUME IInv, NEW q \in Requests,
           IngestDetail(q) \/ IngestComments(q) \/ Evaluate(q)
    PROVE  \E after :
             /\ Commits(q, after)
             /\ RulesOn(open[q].seen, rows[open[q].content], after)
<1> DEFINE c == open[q].content
           seen == open[q].seen
           row == rows[c]
<1>1. open[q].kind \in Kinds
  BY DEF IngestDetail, IngestComments, Evaluate, Kinds
<1>2. c \in Content /\ seen \in View /\ row \in Row /\ Single(row)
  BY <1>1, RequestFields
<1>3. ASSUME NEW judged \in BOOLEAN, NEW base \in Row, NEW after,
             base.items = row.items, base.user = row.user, base.details = row.details,
             Learns(row, base),
             after = base \/ after \in ByRules(seen, judged, base),
             Commit(q, c, after, Closed)
      PROVE  Commits(q, after) /\ RulesOn(seen, row, after)
  <2>1. Single(base)  BY <1>2, <1>3 DEF Single
  <2>2. after \in Row /\ Single(after)
    BY <1>2, <1>3, <2>1, ByRulesRow DEF OnlyItems
  <2> QED  BY <1>1, <1>3, <2>2 DEF Commits, RulesOn
<1>4. CASE IngestDetail(q)
  <2> DEFINE base == [row EXCEPT !.fetched = TRUE, !.judged = TRUE]
  <2>1. /\ base \in Row /\ base.items = row.items /\ base.user = row.user
        /\ base.details = row.details /\ Learns(row, base)
    BY <1>2 DEF Row, Learns
  <2>2. PICK after \in ByRules(seen, TRUE, base) : Commit(q, c, after, Closed)
    BY <1>4 DEF IngestDetail
  <2> HIDE DEF base
  <2> QED  BY <1>3, <2>1, <2>2
<1>5. CASE IngestComments(q)
  <2> DEFINE base == [row EXCEPT !.judged = @ \/ seen.fetched]
  <2>1. /\ base \in Row /\ base.items = row.items /\ base.user = row.user
        /\ base.details = row.details /\ Learns(row, base)
    BY <1>2 DEF Row, View, Learns
  <2>2. PICK after \in IF seen.fetched THEN ByRules(seen, TRUE, base) ELSE {base} :
          Commit(q, c, after, Closed)
    BY <1>5 DEF IngestComments
  <2>3. after = base \/ after \in ByRules(seen, TRUE, base)  BY <2>2
  <2> HIDE DEF base
  <2> QED  BY <1>3, <2>1, <2>2, <2>3
<1>6. CASE Evaluate(q)
  <2>1. PICK after \in ByRules(seen, seen.judged, row) : Commit(q, c, after, Closed)
    BY <1>6 DEF Evaluate
  <2>2. seen.judged \in BOOLEAN  BY <1>2 DEF View
  <2>3. Learns(row, row)  BY DEF Learns
  <2> QED  BY <1>2, <1>3, <2>1, <2>2, <2>3
<1> QED  BY <1>4, <1>5, <1>6

\* What came of a user's request on an item: an old lock is kept if what was
\* read is still so.
ByUser(seen, row, after) ==
    /\ Learns(row, after)
    /\ after.user = row.user
    /\ after.details = row.details
    /\ \A i \in row.items, j \in after.items :
          i.no = j.no /\ i.locked /\ ~j.locked => seen.items # row.items

LEMMA UserCommits ==
    ASSUME IInv, NEW q \in Requests, SelectByHand(q) \/ PrepareMaterial(q) \/ Promote(q)
    PROVE  \E after :
             /\ Commits(q, after)
             /\ ByUser(open[q].seen, rows[open[q].content], after)
             /\ open[q].kind = "promote" => after.known
<1> DEFINE c == open[q].content
           seen == open[q].seen
           row == rows[c]
<1>1. open[q].kind \in Kinds  BY DEF SelectByHand, PrepareMaterial, Promote, Kinds
<1>2. c \in Content /\ seen \in View /\ row \in Row /\ Single(row)
  BY <1>1, RequestFields
<1>3. CASE SelectByHand(q)
  <2>1. PICK after \in Selected(seen, row, TRUE) : Commit(q, c, after, Closed)
    BY <1>3 DEF SelectByHand
  <2>2. OnlyItems(row, after)  BY <1>2, <2>1, SelectedRow
  <2>3. ASSUME NEW i \in row.items, NEW j \in after.items, i.no = j.no, i.locked
        PROVE  j.locked
    <3>1. CASE after = row
      <4>1. i = j /\ i \in Item  BY <1>2, <2>3, <3>1 DEF Single, Row
      <4> QED  BY <2>3, <4>1
    <3>2. CASE \E e \in seen.items : after = Updated(row, e, TRUE)
      <4>1. PICK e \in seen.items : after = Updated(row, e, TRUE)  BY <3>2
      <4>2. after.items =
              {IF k.no = e.no THEN [k EXCEPT !.locked = TRUE] ELSE k : k \in row.items}
        BY <1>2, <4>1 DEF Updated, Row
      <4>3. PICK k \in row.items :
              j = IF k.no = e.no THEN [k EXCEPT !.locked = TRUE] ELSE k
        BY <2>3, <4>2
      <4>4. k = i /\ k \in Item  BY <1>2, <2>3, <4>3 DEF Single, Row
      <4> QED  BY <2>3, <4>3, <4>4 DEF Item
    <3>3. ~MayCreate(row)  BY <2>3 DEF MayCreate
    <3> QED  BY <2>1, <3>1, <3>2, <3>3 DEF Selected
  <2>4. open[q].kind # "promote"  BY <1>3 DEF SelectByHand
  <2> QED  BY <1>1, <2>1, <2>2, <2>3, <2>4 DEF Commits, ByUser, OnlyItems
<1>4. CASE PrepareMaterial(q)
  <2>1. PICK e \in seen.items : Commit(q, c, Updated(row, e, e.locked), Closed)
    BY <1>4 DEF PrepareMaterial
  <2> DEFINE after == Updated(row, e, e.locked)
  <2>2. e \in Item /\ e.locked \in BOOLEAN  BY <1>2 DEF View, Item
  <2>3. OnlyItems(row, after)  BY <1>2, <2>2, UpdatedRow
  <2>4. ASSUME NEW i \in row.items, NEW j \in after.items, i.no = j.no, i.locked,
               seen.items = row.items
        PROVE  j.locked
    <3>1. after.items =
            {IF k.no = e.no THEN [k EXCEPT !.locked = e.locked] ELSE k : k \in row.items}
      BY <1>2 DEF Updated, Row
    <3>2. PICK k \in row.items : j = IF k.no = e.no THEN [k EXCEPT !.locked = e.locked] ELSE k
      BY <3>1
    <3>3. k = i /\ e = i /\ k \in Item  BY <1>2, <2>4 DEF Single, Row
    <3> QED  BY <2>4, <3>2, <3>3 DEF Item
  <2>5. open[q].kind # "promote"  BY <1>4 DEF PrepareMaterial
  <2> HIDE DEF after
  <2> QED  BY <1>1, <2>1, <2>3, <2>4, <2>5 DEF Commits, ByUser, OnlyItems, after
<1>5. CASE Promote(q)
  <2>1. PICK fetched \in {row.fetched, TRUE} :
          Commit(q, c, [row EXCEPT !.known = TRUE, !.fetched = fetched], Closed)
    BY <1>5 DEF Promote
  <2> DEFINE after == [row EXCEPT !.known = TRUE, !.fetched = fetched]
  <2>2. /\ after \in Row /\ after.items = row.items
        /\ after.user = row.user /\ after.details = row.details
        /\ after.known /\ Learns(row, after)
    BY <1>2 DEF Row, Learns
  <2> HIDE DEF after
  <2>3. Single(after)  BY <1>2, <2>2 DEF Single
  <2>4. \A i \in row.items, j \in after.items : i.no = j.no => i = j
    BY <1>2, <2>2 DEF Single
  <2>5. Commit(q, c, after, Closed)  BY <2>1 DEF after
  <2>6. Commits(q, after)  BY <1>1, <2>2, <2>3, <2>5 DEF Commits
  <2>7. ByUser(seen, row, after)  BY <2>2, <2>4 DEF ByUser
  <2> QED  BY <2>2, <2>6, <2>7
<1> QED  BY <1>3, <1>4, <1>5
-----------------------------------------------------------------------------
(* The invariant.                                                          *)

LEMMA InitInv == Init => IInv
  BY ContentsAssumption DEF Init, IInv, Undiscovered, Row, Session, Closed, Single,
     Fresh, Kinds

LEMMA ReadInv ==
    ASSUME IInv, NEW q \in Requests, NEW kind \in Kinds, NEW c \in Content,
           rows' = rows,
           open' = [open EXCEPT ![q] = [kind |-> kind, content |-> c,
                                        seen |-> Viewed(rows[c]), stale |-> FALSE]]
    PROVE  IInv'
<1> DEFINE r == [kind |-> kind, content |-> c, seen |-> Viewed(rows[c]), stale |-> FALSE]
<1>1. Viewed(rows[c]) \in View  BY ViewedType DEF IInv
<1>2. r \in Session  BY <1>1 DEF Session, Request
<1>3. open' \in [Requests -> Session]  BY <1>2 DEF IInv
<1>4. ASSUME NEW p \in Requests PROVE Fresh(p)'
  BY DEF IInv, Fresh, Viewed
<1> QED  BY <1>3, <1>4 DEF IInv, Single

LEMMA CommitsInv ==
    ASSUME IInv, NEW q \in Requests, NEW after, Commits(q, after)
    PROVE  IInv'
  BY CommitInv, RequestFields DEF Commits

LEMMA RollbackInv == ASSUME IInv, NEW q \in Requests, Rollback(q) PROVE IInv'
<1>1. open' \in [Requests -> Session]  BY DEF IInv, Rollback, Session
<1>2. \A p \in Requests : Fresh(p)'
  BY DEF IInv, Rollback, Fresh, Closed, Kinds, Viewed
<1> QED  BY <1>1, <1>2 DEF IInv, Rollback, Single

LEMMA HandleInv == ASSUME IInv, NEW q \in Requests, Handle(q) PROVE IInv'
<1>1. CASE \E kind \in Kinds, c \in Content : Read(q, kind, c)
  BY <1>1, ReadInv DEF Read
<1>2. CASE ReadAgain(q)
  <2>1. open[q] \in Session  BY DEF IInv
  <2>2. open[q].kind = "second"  BY <1>2 DEF ReadAgain
  <2>3. open[q].content \in Content
    BY <2>1, <2>2 DEF Session, Request, Closed, Second, Kinds
  <2> QED  BY <1>2, <2>3, ReadInv DEF ReadAgain, Kinds
<1>3. CASE Rollback(q)
  BY <1>3, RollbackInv
<1>4. CASE \E user \in Users \cup {NoUser}, policy, prelim \in BOOLEAN :
             IngestFeed(q, user, policy, prelim)
  BY <1>4, FeedCommits, CommitsInv
<1>5. CASE IngestDetail(q) \/ IngestComments(q) \/ Evaluate(q)
  BY <1>5, RulesCommit, CommitsInv
<1>6. CASE SelectByHand(q) \/ PrepareMaterial(q) \/ Promote(q)
  BY <1>6, UserCommits, CommitsInv
<1> QED  BY <1>1, <1>2, <1>3, <1>4, <1>5, <1>6 DEF Handle

\* The steps outside sessions each write one row.
Writes(c, after) ==
    /\ after \in Row
    /\ Single(after)
    /\ Write(c, after)

LEMMA EditWrites ==
    ASSUME IInv, NEW c \in Content, Edit(c)
    PROVE  \E after :
             /\ Writes(c, after)
             /\ after.user = rows[c].user
             /\ after.details = rows[c].details
             /\ Learns(rows[c], after)
<1>1. PICK i \in rows[c].items, locked \in BOOLEAN : Write(c, Updated(rows[c], i, locked))
  BY DEF Edit
<1>2. rows[c] \in Row /\ Single(rows[c]) /\ i \in Item  BY DEF IInv, Row
<1>3. OnlyItems(rows[c], Updated(rows[c], i, locked))  BY <1>2, UpdatedRow
<1> QED  BY <1>1, <1>3 DEF Writes, OnlyItems

LEMMA ArchiveWrites ==
    ASSUME IInv, NEW c \in Content, Archive(c)
    PROVE  \E after :
             /\ Writes(c, after)
             /\ after.user = rows[c].user
             /\ after.details = rows[c].details
             /\ after.items \subseteq rows[c].items
             /\ Learns(rows[c], after)
<1>1. PICK i \in rows[c].items : Write(c, [rows[c] EXCEPT !.items = @ \ {i}])
  BY DEF Archive
<1>2. rows[c] \in Row /\ Single(rows[c])  BY DEF IInv
<1> QED  BY <1>1, <1>2 DEF Writes, Row, Single, Learns

LEMMA AssignWrites ==
    ASSUME IInv, NEW c \in Content, NEW user \in Users, Assign(c, user)
    PROVE  \E after :
             /\ Writes(c, after)
             /\ after.items = rows[c].items
             /\ after.details = rows[c].details
             /\ Learns(rows[c], after)
<1>1. rows[c] \in Row /\ Single(rows[c])  BY DEF IInv
<1> QED  BY <1>1 DEF Assign, Writes, Row, Single, Learns

LEMMA DetailWrites ==
    ASSUME IInv, NEW c \in Content, EnqueueDetail(c) \/ EndDetail(c)
    PROVE  \E after :
             /\ Writes(c, after)
             /\ after.items = rows[c].items
             /\ after.user = rows[c].user
             /\ after.details > rows[c].details => EnqueueDetail(c)
             /\ Learns(rows[c], after)
<1>1. rows[c] \in Row /\ Single(rows[c])  BY DEF IInv
<1>2. CASE EnqueueDetail(c)
  <2> DEFINE after == [rows[c] EXCEPT !.details = @ + 1]
  <2>1. Write(c, after)  BY <1>2 DEF EnqueueDetail
  <2>2. rows[c].details + 1 \in 0..MaxDetails
    BY <1>1, <1>2, ContentsAssumption DEF EnqueueDetail, Row
  <2>3. /\ after \in Row /\ after.items = rows[c].items /\ after.user = rows[c].user
        /\ Learns(rows[c], after)
    BY <1>1, <2>2 DEF Row, Learns
  <2> HIDE DEF after
  <2> QED  BY <1>1, <1>2, <2>1, <2>3 DEF Writes, Single
<1>3. CASE EndDetail(c)
  <2> DEFINE after == [rows[c] EXCEPT !.details = @ - 1]
  <2>1. Write(c, after)  BY <1>3 DEF EndDetail
  <2>2. rows[c].details - 1 \in 0..MaxDetails
    BY <1>1, <1>3, ContentsAssumption DEF EndDetail, Row
  <2>3. /\ after \in Row /\ after.items = rows[c].items /\ after.user = rows[c].user
        /\ Learns(rows[c], after)
    BY <1>1, <2>2 DEF Row, Learns
  <2>4. ~(after.details > rows[c].details)
    BY <1>1, ContentsAssumption DEF Row
  <2> HIDE DEF after
  <2> QED  BY <1>1, <2>1, <2>3, <2>4 DEF Writes, Single
<1> QED  BY <1>2, <1>3

\* A step of nobody's session.
Outside(c) ==
    \/ EndDetail(c)
    \/ Edit(c)
    \/ Archive(c)
    \/ \E user \in Users : Assign(c, user)
    \/ EnqueueDetail(c)

LEMMA OutsideInv == ASSUME IInv, NEW c \in Content, Outside(c) PROVE IInv'
  BY EditWrites, ArchiveWrites, AssignWrites, DetailWrites, WriteInv DEF Outside, Writes

LEMMA Inductive == IInv /\ [Next]_vars => IInv'
<1> SUFFICES ASSUME IInv, [Next]_vars PROVE IInv'  OBVIOUS
<1>1. CASE Next
  BY <1>1, HandleInv, OutsideInv DEF Next, Outside
<1>2. CASE UNCHANGED vars
  BY <1>2 DEF vars, IInv, Single, Fresh, Viewed
<1> QED  BY <1>1, <1>2

LEMMA Invariant == Spec => []IInv
  BY InitInv, Inductive, PTL DEF Spec

\* One active item at most is a cardinality.
LEMMA SingleCardinality ==
    ASSUME NEW row \in Row, Single(row)
    PROVE  Cardinality(row.items) <= 1
<1>1. CASE row.items = {}
  <2>1. Cardinality(row.items) = 0  BY <1>1, FS_EmptySet
  <2> QED  BY <2>1
<1>2. CASE row.items # {}
  <2>1. PICK i : row.items = {i}  BY <1>2 DEF Single
  <2>2. Cardinality(row.items) = 1  BY <2>1, FS_Singleton
  <2> QED  BY <2>2
<1> QED  BY <1>1, <1>2

\* Every state has the right types, and no content more than one active
\* library item, whatever requests overlap (reference_library_models.py:59).
THEOREM TypeCorrect == Spec => []TypeOK
<1>1. IInv => TypeOK
  BY SingleCardinality DEF IInv, TypeOK
<1> QED  BY <1>1, Invariant, PTL
-----------------------------------------------------------------------------
(* The action properties.                                                  *)

Unlocks(c) ==
    \E i \in rows[c].items, j \in rows'[c].items : i.no = j.no /\ i.locked /\ ~j.locked

Reassigns(c) == rows[c].user # NoUser /\ rows'[c].user # rows[c].user

AddsDetail(c) == rows'[c].details > rows[c].details /\ rows[c].details > 0

\* What a step may do to the content c.
Allowed(c) ==
    /\ Unlocks(c) => StaleCommit(c) \/ Edit(c)
    /\ Reassigns(c) => StaleCommit(c) \/ \E user \in Users : Assign(c, user)
    /\ AddsDetail(c) => StaleCommit(c) \/ EnqueueDetail(c)

LEMMA SameRow ==
    ASSUME IInv, NEW c \in Content, rows'[c] = rows[c]
    PROVE  Allowed(c)
<1>1. rows[c] \in Row /\ Single(rows[c])  BY DEF IInv
<1>2. ~Unlocks(c)  BY <1>1 DEF Unlocks, Single
<1>3. ~Reassigns(c)  BY DEF Reassigns
<1>4. ~AddsDetail(c)  BY <1>1, ContentsAssumption DEF AddsDetail, Row
<1> QED  BY <1>2, <1>3, <1>4 DEF Allowed

\* A commit touches one row, which is as its session has seen it or stale.
LEMMA CommitsSeen ==
    ASSUME IInv, NEW q \in Requests, NEW after, Commits(q, after), NEW c \in Content
    PROVE  \/ rows'[c] = rows[c]
           \/ StaleCommit(c)
           \/ /\ c = open[q].content
              /\ rows'[c] = after
              /\ open[q].seen = Viewed(rows[c])
<1>1. PICK next \in {Closed, Second(open[q].content)} :
        Commit(q, open[q].content, after, next)
  BY DEF Commits
<1>2. open[q].content \in Content  BY RequestFields DEF Commits
<1>3. CASE c # open[q].content
  BY <1>1, <1>3 DEF Commit, IInv
<1>4. CASE c = open[q].content /\ open[q].stale
  <2>1. open'[q] = next
    BY <1>1, OutdatedType, <1>2 DEF Commit
  <2>2. next.kind \notin Kinds  BY DEF Closed, Second, Kinds
  <2> QED  BY <1>4, <2>1, <2>2 DEF StaleCommit, Commits
<1>5. CASE c = open[q].content /\ ~open[q].stale
  <2>1. rows'[c] = after  BY <1>1, <1>5 DEF Commit, IInv
  <2>2. open[q].seen = Viewed(rows[c])  BY <1>5 DEF IInv, Fresh, Commits
  <2> QED  BY <1>5, <2>1, <2>2
<1> QED  BY <1>3, <1>4, <1>5

LEMMA HandleAllowed ==
    ASSUME IInv, NEW q \in Requests, Handle(q), NEW c \in Content
    PROVE  Allowed(c)
<1>0. rows[c] \in Row /\ Single(rows[c])  BY DEF IInv
<1>1. CASE UNCHANGED rows
  BY <1>1, SameRow
<1>2. CASE \E user \in Users \cup {NoUser}, policy, prelim \in BOOLEAN :
             IngestFeed(q, user, policy, prelim)
  <2>1. PICK user \in Users \cup {NoUser}, policy \in BOOLEAN, prelim \in BOOLEAN :
          IngestFeed(q, user, policy, prelim)
    BY <1>2
  <2>2. PICK after :
          /\ Commits(q, after)
          /\ after.items = rows[open[q].content].items
          /\ after.user = AutoAssigned(open[q].seen, rows[open[q].content], user)
          /\ after.details # rows[open[q].content].details => ~open[q].seen.fetching
    BY <2>1, FeedCommits
  <2>3. CASE rows'[c] = rows[c] \/ StaleCommit(c)
    BY <2>3, SameRow DEF Allowed
  <2>4. CASE /\ c = open[q].content
             /\ rows'[c] = after
             /\ open[q].seen = Viewed(rows[c])
    <3>1. ~Unlocks(c)  BY <1>0, <2>2, <2>4 DEF Unlocks, Single
    <3>2. open[q].seen.taken = (rows[c].user # NoUser)  BY <2>4 DEF Viewed
    <3>3. open[q].seen.fetching = (rows[c].details > 0)  BY <2>4 DEF Viewed
    <3>4. ~Reassigns(c)
      <4>1. rows'[c].user = AutoAssigned(open[q].seen, rows[c], user)  BY <2>2, <2>4
      <4>2. CASE rows[c].user = NoUser  BY <4>2 DEF Reassigns
      <4>3. CASE rows[c].user # NoUser
        <5>1. open[q].seen.taken  BY <3>2, <4>3
        <5> QED  BY <4>1, <5>1 DEF Reassigns, AutoAssigned
      <4> QED  BY <4>2, <4>3
    <3>5. ~AddsDetail(c)
      <4> SUFFICES ASSUME rows[c].details > 0 PROVE rows'[c].details = rows[c].details
        BY <1>0, ContentsAssumption DEF AddsDetail, Row
      <4>1. open[q].seen.fetching  BY <3>3
      <4> QED  BY <2>2, <2>4, <4>1
    <3> QED  BY <3>1, <3>4, <3>5 DEF Allowed
  <2> QED  BY <2>2, <2>3, <2>4, CommitsSeen
<1>3. CASE IngestDetail(q) \/ IngestComments(q) \/ Evaluate(q)
  <2>1. PICK after :
          Commits(q, after) /\ RulesOn(open[q].seen, rows[open[q].content], after)
    BY <1>3, RulesCommit
  <2>2. CASE rows'[c] = rows[c] \/ StaleCommit(c)
    BY <2>2, SameRow DEF Allowed
  <2>3. CASE /\ c = open[q].content
             /\ rows'[c] = after
             /\ open[q].seen = Viewed(rows[c])
    <3>1. PICK judged \in BOOLEAN, base \in Row :
            /\ base.items = rows[c].items /\ base.user = rows[c].user
            /\ base.details = rows[c].details
            /\ after = base \/ after \in ByRules(open[q].seen, judged, base)
      BY <2>1, <2>3 DEF RulesOn
    <3>2. Single(base)  BY <1>0, <3>1 DEF Single
    <3>3. open[q].seen \in View /\ open[q].seen.items = base.items
      BY <1>0, <2>3, <3>1, ViewedType DEF Viewed
    <3>4. after.user = rows[c].user /\ after.details = rows[c].details
      BY <3>1, <3>2, <3>3, ByRulesRow DEF OnlyItems
    <3>5. ~Unlocks(c)
      <4> SUFFICES ASSUME NEW i \in rows[c].items, NEW j \in after.items,
                          i.no = j.no, i.locked, ~j.locked
                   PROVE  FALSE
        BY <2>3 DEF Unlocks
      <4>1. after = base  BY <3>1, <3>2, <3>3, ByRulesLocked
      <4> QED  BY <1>0, <3>1, <4>1 DEF Single
    <3>6. ~AddsDetail(c)
      BY <1>0, <2>3, <3>4, ContentsAssumption DEF AddsDetail, Row
    <3> QED  BY <2>3, <3>4, <3>5, <3>6 DEF Allowed, Reassigns
  <2> QED  BY <2>1, <2>2, <2>3, CommitsSeen
<1>4. CASE SelectByHand(q) \/ PrepareMaterial(q) \/ Promote(q)
  <2>1. PICK after :
          Commits(q, after) /\ ByUser(open[q].seen, rows[open[q].content], after)
    BY <1>4, UserCommits
  <2>2. CASE rows'[c] = rows[c] \/ StaleCommit(c)
    BY <2>2, SameRow DEF Allowed
  <2>3. CASE /\ c = open[q].content
             /\ rows'[c] = after
             /\ open[q].seen = Viewed(rows[c])
    <3>1. ~Unlocks(c)  BY <2>1, <2>3 DEF Unlocks, ByUser, Viewed
    <3>2. ~Reassigns(c)  BY <2>1, <2>3 DEF Reassigns, ByUser
    <3>3. ~AddsDetail(c)
      BY <1>0, <2>1, <2>3, ContentsAssumption DEF AddsDetail, ByUser, Row
    <3> QED  BY <3>1, <3>2, <3>3 DEF Allowed
  <2> QED  BY <2>1, <2>2, <2>3, CommitsSeen
<1> QED
  BY <1>1, <1>2, <1>3, <1>4 DEF Handle, Read, ReadAgain, Rollback

LEMMA WritesRow ==
    ASSUME IInv, NEW d \in Content, NEW after, Writes(d, after), NEW c \in Content
    PROVE  IF c = d THEN rows'[c] = after ELSE rows'[c] = rows[c]
  BY DEF Writes, Write, IInv

LEMMA OutsideAllowed ==
    ASSUME IInv, NEW d \in Content, Outside(d), NEW c \in Content
    PROVE  Allowed(c)
<1>0. rows[d] \in Row /\ Single(rows[d])  BY DEF IInv
<1>1. CASE Edit(d)
  <2>1. PICK after : /\ Writes(d, after)
                     /\ after.user = rows[d].user
                     /\ after.details = rows[d].details
    BY <1>1, EditWrites
  <2>2. CASE c # d  BY <2>1, <2>2, WritesRow, SameRow
  <2>3. CASE c = d
    <3>1. ~Reassigns(c) /\ ~AddsDetail(c)
      BY <1>0, <2>1, <2>3, WritesRow, ContentsAssumption DEF Reassigns, AddsDetail, Row
    <3> QED  BY <1>1, <2>3, <3>1 DEF Allowed
  <2> QED  BY <2>2, <2>3
<1>2. CASE Archive(d)
  <2>1. PICK after : /\ Writes(d, after)
                     /\ after.user = rows[d].user
                     /\ after.details = rows[d].details
                     /\ after.items \subseteq rows[d].items
    BY <1>2, ArchiveWrites
  <2>2. CASE c # d  BY <2>1, <2>2, WritesRow, SameRow
  <2>3. CASE c = d
    <3>1. ~Reassigns(c) /\ ~AddsDetail(c)
      BY <1>0, <2>1, <2>3, WritesRow, ContentsAssumption DEF Reassigns, AddsDetail, Row
    <3>2. ~Unlocks(c)
      BY <1>0, <2>1, <2>3, WritesRow DEF Unlocks, Single
    <3> QED  BY <3>1, <3>2 DEF Allowed
  <2> QED  BY <2>2, <2>3
<1>3. CASE \E user \in Users : Assign(d, user)
  <2>1. PICK after : /\ Writes(d, after)
                     /\ after.items = rows[d].items
                     /\ after.details = rows[d].details
    BY <1>3, AssignWrites
  <2>2. CASE c # d  BY <2>1, <2>2, WritesRow, SameRow
  <2>3. CASE c = d
    <3>1. ~Unlocks(c)
      BY <1>0, <2>1, <2>3, WritesRow DEF Unlocks, Single
    <3>2. ~AddsDetail(c)
      BY <1>0, <2>1, <2>3, WritesRow, ContentsAssumption DEF AddsDetail, Row
    <3> QED  BY <1>3, <2>3, <3>1, <3>2 DEF Allowed
  <2> QED  BY <2>2, <2>3
<1>4. CASE EnqueueDetail(d) \/ EndDetail(d)
  <2>1. PICK after : /\ Writes(d, after)
                     /\ after.items = rows[d].items
                     /\ after.user = rows[d].user
                     /\ after.details > rows[d].details => EnqueueDetail(d)
    BY <1>4, DetailWrites
  <2>2. CASE c # d  BY <2>1, <2>2, WritesRow, SameRow
  <2>3. CASE c = d
    <3>1. ~Unlocks(c)
      BY <1>0, <2>1, <2>3, WritesRow DEF Unlocks, Single
    <3>2. ~Reassigns(c)
      BY <2>1, <2>3, WritesRow DEF Reassigns
    <3>3. AddsDetail(c) => EnqueueDetail(c)
      BY <2>1, <2>3, WritesRow DEF AddsDetail
    <3> QED  BY <3>1, <3>2, <3>3 DEF Allowed
  <2> QED  BY <2>2, <2>3
<1> QED  BY <1>1, <1>2, <1>3, <1>4 DEF Outside

LEMMA StepAllowed == IInv /\ [Next]_vars => \A c \in Content : Allowed(c)
<1> SUFFICES ASSUME IInv, [Next]_vars, NEW c \in Content PROVE Allowed(c)  OBVIOUS
<1>1. CASE Next
  BY <1>1, HandleAllowed, OutsideAllowed DEF Next, Outside
<1>2. CASE UNCHANGED vars
  BY <1>2, SameRow DEF vars
<1> QED  BY <1>1, <1>2

\* No report and no re-evaluation takes the lock of an operator's selection
\* away, unless the selection came between its reads and its commit
\* (benchmark_selection.py:113).
THEOREM ManualChoiceStays == Spec => ManualChoiceHolds
<1>1. IInv /\ [Next]_vars =>
        [\A c \in Content : \A i \in rows[c].items, j \in rows'[c].items :
           i.no = j.no /\ i.locked /\ ~j.locked => StaleCommit(c) \/ Edit(c)]_vars
  BY StepAllowed DEF Allowed, Unlocks
<1> QED  BY <1>1, Invariant, PTL DEF Spec, ManualChoiceHolds

\* No report hands a content somebody has to another user, unless it was
\* assigned between the report's reads and its commit
\* (workflow_repository.py:82).
THEOREM AssignmentStays == Spec => AssignmentHolds
<1>1. IInv /\ [Next]_vars =>
        [\A c \in Content :
           rows[c].user # NoUser /\ rows'[c].user # rows[c].user =>
               StaleCommit(c) \/ \E user \in Users : Assign(c, user)]_vars
  BY StepAllowed DEF Allowed, Reassigns
<1> QED  BY <1>1, Invariant, PTL DEF Spec, AssignmentHolds

\* While a detail job of a content is active, reports add none, except one
\* that has read before (content_repository.py:225).
THEOREM DetailsDoNotPileUp == Spec => OneDetailJob
<1>1. IInv /\ [Next]_vars =>
        [\A c \in Content :
           rows'[c].details > rows[c].details /\ rows[c].details > 0 =>
               StaleCommit(c) \/ EnqueueDetail(c)]_vars
  BY StepAllowed DEF Allowed, AddsDetail
<1> QED  BY <1>1, Invariant, PTL DEF Spec, OneDetailJob
-----------------------------------------------------------------------------
(* What is known of a content.                                             *)

\* A session of one of these kinds is about a content that is known.
Found == (Kinds \ {"feed", "monitor", "promote"}) \cup {"second"}

\* Nothing is about a content that is not known: no assignment, no detail job
\* and no library item hangs in the air, and no request works on one.
Grounded ==
    /\ \A c \in Content : ~rows[c].known => rows[c] = Undiscovered
    /\ \A q \in Requests : open[q].kind \in Found => rows[open[q].content].known

\* A step that begins, goes on with or drops a request.
Turns(q) ==
    \/ \E kind \in Kinds, c \in Content : Read(q, kind, c)
    \/ ReadAgain(q)
    \/ Rollback(q)

LEMMA HandleCommits ==
    ASSUME IInv, NEW q \in Requests, Handle(q)
    PROVE  \/ Turns(q)
           \/ \E after :
                 /\ Commits(q, after)
                 /\ Learns(rows[open[q].content], after)
                 /\ open[q].kind \notin Found => after.known
<1>1. CASE Turns(q)
  BY <1>1
<1>2. CASE \E user \in Users \cup {NoUser}, policy, prelim \in BOOLEAN :
             IngestFeed(q, user, policy, prelim)
  BY <1>2, FeedCommits
<1>3. CASE IngestDetail(q) \/ IngestComments(q) \/ Evaluate(q)
  <2>1. PICK after :
          Commits(q, after) /\ RulesOn(open[q].seen, rows[open[q].content], after)
    BY <1>3, RulesCommit
  <2>2. PICK judged \in BOOLEAN, base \in Row :
          /\ base.items = rows[open[q].content].items
          /\ Learns(rows[open[q].content], base)
          /\ after = base \/ after \in ByRules(open[q].seen, judged, base)
    BY <2>1 DEF RulesOn
  <2>3. Single(base) /\ open[q].seen \in View
    BY <2>1, <2>2, RequestFields DEF Single, Commits
  <2>4. Learns(base, after)  BY <2>2, <2>3, ByRulesRow DEF OnlyItems, Learns
  <2>5. Learns(rows[open[q].content], after)  BY <2>2, <2>4 DEF Learns
  <2>6. open[q].kind \in Found
    BY <1>3 DEF IngestDetail, IngestComments, Evaluate, Found, Kinds
  <2> QED  BY <2>1, <2>5, <2>6
<1>4. CASE SelectByHand(q) \/ PrepareMaterial(q) \/ Promote(q)
  <2>1. PICK after :
          /\ Commits(q, after)
          /\ ByUser(open[q].seen, rows[open[q].content], after)
          /\ open[q].kind = "promote" => after.known
    BY <1>4, UserCommits
  <2>2. open[q].kind \in Found \cup {"promote"}
    BY <1>4 DEF SelectByHand, PrepareMaterial, Promote, Found, Kinds
  <2> QED  BY <2>1, <2>2 DEF ByUser
<1> QED
  BY <1>1, <1>2, <1>3, <1>4 DEF Handle, Turns

LEMMA OutsideWrites ==
    ASSUME IInv, NEW c \in Content, Outside(c)
    PROVE  \E after : Writes(c, after) /\ Learns(rows[c], after)
  BY EditWrites, ArchiveWrites, AssignWrites, DetailWrites DEF Outside

LEMMA StepLearns ==
    ASSUME IInv, [Next]_vars, NEW c \in Content
    PROVE  Learns(rows[c], rows'[c])
<1>0. Learns(rows[c], rows[c])  BY DEF Learns
<1>1. ASSUME NEW q \in Requests, Handle(q) PROVE Learns(rows[c], rows'[c])
  <2>1. CASE Turns(q)  BY <1>0, <2>1 DEF Turns, Read, ReadAgain, Rollback
  <2>2. CASE \E after : Commits(q, after) /\ Learns(rows[open[q].content], after)
    <3>1. PICK after : Commits(q, after) /\ Learns(rows[open[q].content], after)
      BY <2>2
    <3>2. rows' = [rows EXCEPT ![open[q].content] = after]
      BY <3>1 DEF Commits, Commit
    <3>3. open[q].content \in Content  BY <3>1, RequestFields DEF Commits
    <3>4. CASE c = open[q].content  BY <3>1, <3>2, <3>4 DEF IInv
    <3>5. CASE c # open[q].content  BY <1>0, <3>2, <3>5 DEF IInv
    <3> QED  BY <3>4, <3>5
  <2> QED  BY <1>1, <2>1, <2>2, HandleCommits
<1>2. ASSUME NEW d \in Content, Outside(d) PROVE Learns(rows[c], rows'[c])
  <2>1. PICK after : Writes(d, after) /\ Learns(rows[d], after)  BY <1>2, OutsideWrites
  <2> QED  BY <1>0, <2>1, WritesRow
<1>3. CASE UNCHANGED vars  BY <1>0, <1>3 DEF vars
<1> QED  BY <1>1, <1>2, <1>3 DEF Next, Outside

\* A row that was not known stays as it is or becomes known.
LEMMA StepGroundsRows ==
    ASSUME IInv, Grounded, [Next]_vars, NEW c \in Content, ~rows'[c].known
    PROVE  rows'[c] = Undiscovered
<1>0. ~rows[c].known /\ rows[c] = Undiscovered
  BY StepLearns DEF Learns, Grounded
<1>1. ASSUME NEW q \in Requests, Handle(q) PROVE rows'[c] = rows[c]
  <2>1. CASE Turns(q)  BY <2>1 DEF Turns, Read, ReadAgain, Rollback
  <2>2. ASSUME NEW after, Commits(q, after), Learns(rows[open[q].content], after),
               open[q].kind \notin Found => after.known
        PROVE  rows'[c] = rows[c]
    <3>1. rows' = [rows EXCEPT ![open[q].content] = after]
      BY <2>2 DEF Commits, Commit
    <3>2. open[q].content \in Content  BY <2>2, RequestFields DEF Commits
    <3>3. after.known
      BY <2>2 DEF Grounded, Learns
    <3>4. c # open[q].content  BY <3>1, <3>2, <3>3 DEF IInv
    <3> QED  BY <3>1, <3>4 DEF IInv
  <2> QED  BY <1>1, <2>1, <2>2, HandleCommits
<1>2. ASSUME NEW d \in Content, Outside(d) PROVE rows'[c] = rows[c]
  <2>1. PICK after : Writes(d, after) /\ Learns(rows[d], after)  BY <1>2, OutsideWrites
  <2>2. CASE d # c  BY <2>1, <2>2, WritesRow
  <2>3. CASE d = c
    <3>1. rows[d] = Undiscovered /\ ~rows[d].known  BY <1>0, <2>3
    <3>2. FALSE
      BY <1>2, <3>1, ContentsAssumption
      DEF Outside, EndDetail, Edit, Archive, Assign, EnqueueDetail, Undiscovered
    <3> QED  BY <3>2
  <2> QED  BY <2>2, <2>3
<1>3. CASE UNCHANGED vars  BY <1>0, <1>3 DEF vars
<1> QED  BY <1>0, <1>1, <1>2, <1>3 DEF Next, Outside

\* A session keeps its kind and its content while others commit.
LEMMA OutdatedKeeps ==
    ASSUME IInv, NEW c \in Content, NEW after, NEW q \in Requests
    PROVE  /\ Outdated(c, after)[q].kind = open[q].kind
           /\ open[q].kind \in Found =>
                 Outdated(c, after)[q].content = open[q].content
<1>1. CASE open[q].kind \in Kinds
  <2>1. open[q] \in Request  BY <1>1, SessionKinds DEF IInv
  <2> QED  BY <2>1 DEF Outdated, Request
<1>2. CASE open[q].kind \notin Kinds
  BY <1>2 DEF Outdated
<1> QED  BY <1>1, <1>2

LEMMA StepGroundsSessions ==
    ASSUME IInv, Grounded, [Next]_vars, NEW p \in Requests, open'[p].kind \in Found
    PROVE  rows'[open'[p].content].known
<1>0. ASSUME open'[p].kind = open[p].kind,
             open[p].kind \in Found => open'[p].content = open[p].content
      PROVE  rows'[open'[p].content].known
  <2>1. open[p].kind \in Found /\ open'[p].content = open[p].content  BY <1>0
  <2>2. open[p].content \in Content
    BY <2>1 DEF IInv, Session, Request, Closed, Second, Found, Kinds
  <2>3. rows[open[p].content].known  BY <2>1 DEF Grounded
  <2> QED  BY <2>1, <2>2, <2>3, StepLearns DEF Learns
<1>1. ASSUME NEW q \in Requests, Handle(q) PROVE rows'[open'[p].content].known
  <2>1. CASE \E kind \in Kinds, c \in Content : Read(q, kind, c)
    <3>1. PICK kind \in Kinds, c \in Content : Read(q, kind, c)  BY <2>1
    <3>2. CASE p # q  BY <1>0, <3>1, <3>2 DEF Read, IInv
    <3>3. CASE p = q
      <4>1. open'[p].kind = kind /\ open'[p].content = c
        BY <3>1, <3>3 DEF Read, IInv
      <4> QED  BY <3>1, <4>1 DEF Read, Answers, Found
    <3> QED  BY <3>2, <3>3
  <2>2. CASE ReadAgain(q)
    <3>1. CASE p # q  BY <1>0, <2>2, <3>1 DEF ReadAgain, IInv
    <3>2. CASE p = q
      <4>1. open'[p].content = open[p].content /\ open[p].kind = "second"
        BY <2>2, <3>2 DEF ReadAgain, IInv
      <4> QED  BY <2>2, <4>1 DEF ReadAgain, Grounded, Found
    <3> QED  BY <3>1, <3>2
  <2>3. CASE Rollback(q)
    <3>1. CASE p # q  BY <1>0, <2>3, <3>1 DEF Rollback, IInv
    <3>2. CASE p = q
      BY <2>3, <3>2 DEF Rollback, IInv, Closed, Found, Kinds
    <3> QED  BY <3>1, <3>2
  <2>4. ASSUME NEW after, Commits(q, after), Learns(rows[open[q].content], after),
               open[q].kind \notin Found => after.known
        PROVE  rows'[open'[p].content].known
    <3> DEFINE c == open[q].content
    <3>1. PICK next \in {Closed, Second(c)} : Commit(q, c, after, next)
      BY <2>4 DEF Commits
    <3>2. c \in Content  BY <2>4, RequestFields DEF Commits
    <3>3. Outdated(c, after) \in [Requests -> Session]  BY <3>2, OutdatedType
    <3>4. CASE p # q
      <4>1. open'[p] = Outdated(c, after)[p]  BY <3>1, <3>3, <3>4 DEF Commit
      <4> QED  BY <1>0, <3>2, <4>1, OutdatedKeeps
    <3>5. CASE p = q
      <4>1. open'[p] = next  BY <3>1, <3>3, <3>5 DEF Commit
      <4>2. next = Second(c)  BY <4>1, <3>1 DEF Closed, Found, Kinds
      <4>3. rows'[c] = after  BY <3>1, <3>2 DEF Commit, IInv
      <4>4. after.known  BY <2>4 DEF Grounded, Learns
      <4> QED  BY <4>1, <4>2, <4>3, <4>4 DEF Second
    <3> QED  BY <3>4, <3>5
  <2> QED  BY <1>1, <2>1, <2>2, <2>3, <2>4, HandleCommits DEF Turns
<1>2. ASSUME NEW d \in Content, Outside(d) PROVE rows'[open'[p].content].known
  <2>1. PICK after : Writes(d, after)  BY <1>2, OutsideWrites
  <2>2. open'[p] = Outdated(d, after)[p]  BY <2>1 DEF Writes, Write
  <2> QED  BY <1>0, <2>2, OutdatedKeeps
<1>3. CASE UNCHANGED vars  BY <1>0, <1>3 DEF vars
<1> QED  BY <1>1, <1>2, <1>3 DEF Next, Outside

LEMMA GroundedInvariant == Spec => []Grounded
<1>1. Init => Grounded
  BY DEF Init, Grounded, Closed, Found, Kinds
<1>2. IInv /\ Grounded /\ [Next]_vars => Grounded'
  BY StepGroundsRows, StepGroundsSessions DEF Grounded
<1> QED  BY <1>1, <1>2, Invariant, PTL DEF Spec

\* Nothing is kept about a content that is not known: no assignment, detail
\* job, decision or library item is without its content, although an operator's
\* requests and the agents' reports create them in transactions that overlap.
THEOREM NothingHangsInTheAir ==
    Spec => [](\A c \in Content : ~rows[c].known => rows[c] = Undiscovered)
<1>1. Grounded => \A c \in Content : ~rows[c].known => rows[c] = Undiscovered
  BY DEF Grounded
<1> QED  BY <1>1, GroundedInvariant, PTL

\* What was learned of a content is never lost again: no commit of a request
\* that read before makes it unknown, unfetched or unjudged
\* (content_repository.py:115).
THEOREM KnowledgeLasts == Spec => [][\A c \in Content : Learns(rows[c], rows'[c])]_vars
<1>1. IInv /\ [Next]_vars => [\A c \in Content : Learns(rows[c], rows'[c])]_vars
  BY StepLearns
<1> QED  BY <1>1, Invariant, PTL DEF Spec

\* Were no request about a content to commit on rows that another has changed
\* since it read them, no report could unlock a selection by hand, reassign a
\* content or add to a detail job that is active: the overlap of two handlers
\* is all that ever breaks these (session.py:26).
THEOREM SerialHandlersKeepChoices ==
    Spec /\ [][\A c \in Content : ~StaleCommit(c)]_vars =>
        [][\A c \in Content :
              /\ Unlocks(c) => Edit(c)
              /\ Reassigns(c) => \E user \in Users : Assign(c, user)
              /\ AddsDetail(c) => EnqueueDetail(c)]_vars
<1>1. /\ IInv
      /\ [Next]_vars
      /\ [\A c \in Content : ~StaleCommit(c)]_vars
      => [\A c \in Content :
             /\ Unlocks(c) => Edit(c)
             /\ Reassigns(c) => \E user \in Users : Assign(c, user)
             /\ AddsDetail(c) => EnqueueDetail(c)]_vars
  BY StepAllowed DEF Allowed
<1> QED  BY <1>1, Invariant, PTL DEF Spec
=============================================================================
