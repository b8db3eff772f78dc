------------------------ MODULE CatalogClientProofs ------------------------
(***************************************************************************)
(* Theorems about Catalog and CatalogClient, for every vocabulary, set of  *)
(* templates and sequence of releases, any number of rows and versions.    *)
(***************************************************************************)
EXTENDS CatalogClient, FiniteSetTheorems, TLAPS

(* The tables. *)

\* What the release lists has a row, whatever earlier ones listed.
VocabularyThere == Deployed.vocabulary \subseteq Rows(categories)

\* An expense that is on its way has found its category.
ArrivingFound == \A k \in Codes : arriving[k] # "no" => k \in Rows(categories)

\* The names of events and tags are unique, so that a request by name means one row.
NamesUnique ==
    /\ \A e, f \in Rows(events) : events[e].name = events[f].name => e = f
    /\ \A t, u \in Rows(tags) : tags[t].name = tags[u].name => t = u

IInv == TypeOK /\ NoDangling /\ VocabularyThere /\ ArrivingFound /\ NamesUnique
-----------------------------------------------------------------------------
(* Ids and codes. *)

LEMMA Basics ==
    /\ GroupIds \subseteq Nat \ {0} /\ EventIds \subseteq Nat \ {0} /\ TagIds \subseteq Nat \ {0}
    /\ NoGroup = 0 /\ NoGroup \notin GroupIds /\ NoEvent = 0 /\ NoEvent \notin EventIds
    /\ NoRow \notin GroupRow /\ NoRow \notin CategoryRow
    /\ NoRow \notin EventRow /\ NoRow \notin TagRow
BY BoundsAssumption, NullsAssumption DEF GroupIds, EventIds, TagIds, NoGroup, NoEvent

\* Rows are typed, and their ids are.
LEMMA RowsTyped ==
    ASSUME TypeOK
    PROVE  /\ Rows(groups) \subseteq GroupIds /\ \A g \in Rows(groups) : groups[g] \in GroupRow
           /\ Rows(categories) \subseteq Codes
           /\ \A k \in Rows(categories) : categories[k] \in CategoryRow
           /\ Rows(events) \subseteq EventIds /\ \A e \in Rows(events) : events[e] \in EventRow
           /\ Rows(tags) \subseteq TagIds /\ \A t \in Rows(tags) : tags[t] \in TagRow
BY Basics DEF TypeOK, Rows

\* The group of a code has a row, if there is one.
LEMMA GroupOfCode ==
    ASSUME NEW code
    PROVE  GroupId(code) \in Rows(groups) \cup {NoGroup}
<1>1. CASE \E g \in Rows(groups) : groups[g].code = code
  <2> DEFINE c == CHOOSE g \in Rows(groups) : groups[g].code = code
  <2>1. c \in Rows(groups)
    BY <1>1
  <2> QED
    BY <1>1, <2>1 DEF GroupId
<1>2. CASE ~\E g \in Rows(groups) : groups[g].code = code
  BY <1>2 DEF GroupId
<1> QED
  BY <1>1, <1>2

\* A finite set of numbers that is not empty has a greatest one.
LEMMA GreatestExists ==
    ASSUME NEW S, S \subseteq Int, IsFiniteSet(S), S # {}
    PROVE  Largest(S) \in S /\ \A j \in S : j <= Largest(S)
<1> DEFINE Above(i) == {j \in S : j > i}
           T == {Above(i) : i \in S}
<1>1. IsWellFoundedOn(StrictSubsetOrdering(S), SUBSET S)
  BY FS_StrictSubsetOrderingWellFounded, FS_FiniteSubsetsOfFinite
<1>2. T \subseteq SUBSET S /\ T # {}
  OBVIOUS
<1>3. \E x \in T : \A y \in T : ~ (<<y, x>> \in StrictSubsetOrdering(S))
  <2> HIDE DEF T
  <2> QED
    BY <1>1, <1>2, WFMin
<1>4. PICK m \in S : \A j \in S : ~ (<<Above(j), Above(m)>> \in StrictSubsetOrdering(S))
  BY <1>3
<1>5. ASSUME NEW j \in S, ~(j <= m) PROVE FALSE
  <2>1. j > m /\ j \in Int /\ m \in Int
    BY <1>5
  <2>2. Above(j) \subseteq Above(m)
    <3>1. SUFFICES ASSUME NEW k \in S, k > j PROVE k > m
      OBVIOUS
    <3>2. k \in Int
      OBVIOUS
    <3> QED
      BY <2>1, <3>1, <3>2
  <2>3. j \in Above(m) /\ j \notin Above(j)
    BY <2>1
  <2>4. <<Above(j), Above(m)>> \in StrictSubsetOrdering(S)
    <3>1. Above(j) \in SUBSET S /\ Above(m) \in SUBSET S /\ Above(j) # Above(m)
      BY <2>2, <2>3
    <3> HIDE DEF Above
    <3> QED
      BY <2>2, <3>1 DEF StrictSubsetOrdering
  <2> QED
    BY <1>4, <2>4
<1>6. \E n \in S : \A j \in S : j <= n
  BY <1>5
<1> QED
  BY <1>6 DEF Largest

\* The id of a new group is no group's.
LEMMA NextGroupNew ==
    ASSUME TypeOK
    PROVE  NextGroup \in Nat \ {0} /\ NextGroup \notin Rows(groups)
<1> DEFINE S == Rows(groups) \cup {0}
<1>1. S \in SUBSET (0..MaxGroups) /\ S # {} /\ S \subseteq Int
  BY RowsTyped, BoundsAssumption DEF GroupIds
<1>2. IsFiniteSet(0..MaxGroups)
  BY BoundsAssumption, FS_Interval
<1>3. IsFiniteSet(S)
  BY <1>1, <1>2, FS_Subset
<1>4. Largest(S) \in S /\ \A j \in S : j <= Largest(S)
  <2> HIDE DEF S
  <2> QED
    BY <1>1, <1>3, GreatestExists
<1>5. Largest(S) \in Nat /\ NextGroup = Largest(S) + 1
  BY <1>1, <1>4, BoundsAssumption DEF NextGroup
<1>6. Rows(groups) \subseteq S
  OBVIOUS
<1> HIDE DEF S
<1> QED
  BY <1>1, <1>4, <1>5, <1>6

\* The groups of a start are numbered one after the other and have the missing codes.
LEMMA NumbersGiven ==
    ASSUME NEW codes, IsFiniteSet(codes), NEW first \in Nat
    PROVE  NewGroups(codes, first) \in [first..(first + Cardinality(codes) - 1) -> codes]
<1>1. Cardinality(codes) \in Nat /\ ExistsBijection(1..Cardinality(codes), codes)
  BY FS_CardinalityType
<1>2. PICK b : b \in Bijection(1..Cardinality(codes), codes)
  BY <1>1 DEF ExistsBijection
<1> DEFINE n == Cardinality(codes)
           I == first..(first + n - 1)
           h == [g \in I |-> b[g - first + 1]]
<1>3. \A g \in I : g - first + 1 \in 1..n
  BY <1>1
<1>4. h \in [I -> codes]
  BY <1>2, <1>3 DEF Bijection, Injection
<1>5. ASSUME NEW c \in codes PROVE \E g \in DOMAIN h : h[g] = c
  <2>1. PICK i \in 1..n : b[i] = c
    BY <1>2 DEF Bijection, Surjection
  <2>2. first + i - 1 \in I /\ (first + i - 1) - first + 1 = i
    BY <1>1
  <2> QED
    BY <2>1, <2>2
<1>6. \E f \in [I -> codes] : \A c \in codes : \E g \in DOMAIN f : f[g] = c
  BY <1>4, <1>5
<1> QED
  BY <1>6 DEF NewGroups
-----------------------------------------------------------------------------
(* What each kind of change leaves true. *)

\* Groups: a row that goes has no children.
LEMMA GroupsChange ==
    ASSUME IInv, groups' \in [GroupIds -> GroupRow \cup {NoRow}],
           \A g \in Rows(groups) : groups'[g] # NoRow \/ Children(g) = {},
           UNCHANGED <<categories, events, tags, lastEvent, lastTag, users, meta>>,
           version' \in Nat
    PROVE  IInv'
<1>1. TypeOK' /\ Rows(categories)' = Rows(categories) /\ Rows(events)' = Rows(events)
      /\ Rows(tags)' = Rows(tags) /\ UNCHANGED <<expenses, mapping, arriving, template, boots>>
  BY DEF IInv, TypeOK, Rows, users, meta
<1>2. ASSUME NEW k \in Rows(categories) PROVE categories[k].group \in Rows(groups)' \cup {NoGroup}
  <2>1. categories[k].group \in Rows(groups) \cup {NoGroup}
    BY DEF IInv, NoDangling
  <2>2. k \in Children(categories[k].group)
    BY DEF Children
  <2> QED
    BY <2>1, <2>2 DEF Rows, IInv, TypeOK
<1>3. NoDangling'
  BY <1>1, <1>2 DEF IInv, NoDangling
<1> QED
  BY <1>1, <1>3 DEF IInv, VocabularyThere, ArrivingFound, NamesUnique, Deployed

\* Events: a row that goes is not used, and the tags of one that stays have rows.
LEMMA EventsChange ==
    ASSUME IInv, events' \in [EventIds -> EventRow \cup {NoRow}], lastEvent' \in 0..MaxEvents,
           \A e \in Rows(events) : events'[e] # NoRow \/ ~EventUsed(e),
           \A e \in EventIds : events'[e] # NoRow => events'[e].tags \subseteq Rows(tags),
           \A e, f \in EventIds : events'[e] # NoRow /\ events'[f] # NoRow
                                     /\ events'[e].name = events'[f].name => e = f,
           UNCHANGED <<groups, categories, tags, lastTag, users, meta>>,
           version' \in Nat
    PROVE  IInv'
<1>1. TypeOK' /\ Rows(categories)' = Rows(categories) /\ Rows(groups)' = Rows(groups)
      /\ Rows(tags)' = Rows(tags) /\ UNCHANGED <<expenses, mapping, arriving, template, boots>>
  BY DEF IInv, TypeOK, Rows, users, meta
<1>2. Rows(events)' = {e \in EventIds : events'[e] # NoRow}
  BY DEF Rows
<1>3. \A e \in Rows(events) : EventUsed(e) => e \in Rows(events)'
  BY <1>2, RowsTyped DEF IInv
<1>4. mapping.events \subseteq Rows(events)'
  BY <1>3 DEF IInv, NoDangling, EventUsed
<1>5. \A x \in expenses : x.event \in Rows(events)' \cup {NoEvent}
  BY <1>3 DEF IInv, NoDangling, EventUsed
<1>6. NoDangling'
  BY <1>1, <1>2, <1>4, <1>5 DEF IInv, NoDangling
<1>7. NamesUnique'
  BY <1>1, <1>2 DEF IInv, NamesUnique
<1> QED
  BY <1>1, <1>6, <1>7 DEF IInv, VocabularyThere, ArrivingFound, Deployed

\* Tags: a row that goes is not used.
LEMMA TagsChange ==
    ASSUME IInv, tags' \in [TagIds -> TagRow \cup {NoRow}], lastTag' \in 0..MaxTags,
           \A t \in Rows(tags) : tags'[t] # NoRow \/ ~TagUsed(t),
           \A t, u \in TagIds : tags'[t] # NoRow /\ tags'[u] # NoRow
                                   /\ tags'[t].name = tags'[u].name => t = u,
           UNCHANGED <<groups, categories, events, lastEvent, users, meta>>,
           version' \in Nat
    PROVE  IInv'
<1>1. TypeOK' /\ Rows(categories)' = Rows(categories) /\ Rows(groups)' = Rows(groups)
      /\ Rows(events)' = Rows(events) /\ UNCHANGED <<expenses, mapping, arriving, template, boots>>
  BY DEF IInv, TypeOK, Rows, users, meta
<1>2. Rows(tags)' = {t \in TagIds : tags'[t] # NoRow}
  BY DEF Rows
<1>3. \A t \in Rows(tags) : TagUsed(t) => t \in Rows(tags)'
  BY <1>2, RowsTyped DEF IInv
<1>4. /\ mapping.tags \subseteq Rows(tags)'
      /\ \A x \in expenses : x.tags \subseteq Rows(tags)'
      /\ \A e \in Rows(events) : events[e].tags \subseteq Rows(tags)'
  BY <1>3 DEF IInv, NoDangling, TagUsed
<1>5. NoDangling'
  BY <1>1, <1>4 DEF IInv, NoDangling
<1>6. NamesUnique'
  BY <1>1, <1>2 DEF IInv, NamesUnique
<1> QED
  BY <1>1, <1>5, <1>6 DEF IInv, VocabularyThere, ArrivingFound, Deployed

\* Categories: no row goes, and each is in a group that has a row, or in none.
LEMMA CategoriesChange ==
    ASSUME IInv, categories' \in [Codes -> CategoryRow \cup {NoRow}],
           \A k \in Rows(categories) : categories'[k] # NoRow,
           \A k \in Codes : categories'[k] # NoRow =>
               categories'[k].group \in Rows(groups) \cup {NoGroup},
           groups' \in [GroupIds -> GroupRow \cup {NoRow}],
           \A g \in Rows(groups) : groups'[g] # NoRow,
           arriving' \in [Codes -> {"no", "activate", "insert"}],
           \A k \in Codes : arriving'[k] # "no" => k \in Rows(categories),
           template' \in DOMAIN Templates \cup {NoTemplate}, boots' \in 0..MaxBoots,
           \A k \in Releases[boots'].vocabulary : k \in Codes /\ categories'[k] # NoRow,
           UNCHANGED <<events, tags, lastEvent, lastTag, expenses, mapping>>, version' \in Nat
    PROVE  IInv'
<1>1. TypeOK' /\ Rows(events)' = Rows(events) /\ Rows(tags)' = Rows(tags)
  BY DEF IInv, TypeOK, Rows
<1>2. /\ Rows(categories)' = {k \in Codes : categories'[k] # NoRow}
      /\ Rows(groups)' = {g \in GroupIds : groups'[g] # NoRow}
      /\ Rows(categories) \subseteq Codes /\ Rows(groups) \subseteq GroupIds
  BY RowsTyped DEF IInv, Rows
<1>3. Rows(categories) \subseteq Rows(categories)' /\ Rows(groups) \subseteq Rows(groups)'
  BY <1>2
<1>4. NoDangling'
  BY <1>1, <1>2, <1>3 DEF IInv, NoDangling
<1>5. VocabularyThere' /\ ArrivingFound' /\ NamesUnique'
  BY <1>1, <1>2, <1>3 DEF IInv, VocabularyThere, ArrivingFound, NamesUnique, Deployed
<1> QED
  BY <1>1, <1>4, <1>5 DEF IInv

\* Expenses and the map: what they refer to has a row.
LEMMA UsersChange ==
    ASSUME IInv, expenses' \subseteq Expense,
           \A x \in expenses' : /\ x.category \in Rows(categories)
                                /\ x.event \in Rows(events) \cup {NoEvent}
                                /\ x.tags \subseteq Rows(tags),
           mapping' \in [events: SUBSET EventIds, tags: SUBSET TagIds],
           mapping'.events \subseteq Rows(events), mapping'.tags \subseteq Rows(tags),
           arriving' \in [Codes -> {"no", "activate", "insert"}],
           \A k \in Codes : arriving'[k] # "no" => k \in Rows(categories),
           UNCHANGED <<tables, meta, version>>
    PROVE  IInv'
<1>1. /\ TypeOK' /\ Rows(events)' = Rows(events) /\ Rows(tags)' = Rows(tags)
      /\ Rows(groups)' = Rows(groups) /\ Rows(categories)' = Rows(categories)
      /\ UNCHANGED <<groups, categories, events, tags, boots>>
  BY DEF IInv, TypeOK, Rows, tables, meta
<1>2. NoDangling'
  BY <1>1 DEF IInv, NoDangling
<1> QED
  BY <1>1, <1>2 DEF IInv, VocabularyThere, ArrivingFound, NamesUnique, Deployed
-----------------------------------------------------------------------------
(* The requests. *)

LEMMA Commits ==
    ASSUME IInv, CommitWithBump
    PROVE  /\ version \in Nat /\ version' \in Nat /\ version <= version'
           /\ Hashed' # Hashed => version' > version
           /\ UNCHANGED <<users, meta>>
BY DEF CommitWithBump, IInv, TypeOK

LEMMA Bumps ==
    ASSUME IInv, Bump
    PROVE  version \in Nat /\ version' \in Nat /\ version' > version
BY DEF Bump, IInv, TypeOK

\* A PATCH of a typed column is typed.
LEMMA PatchedIn ==
    ASSUME NEW S, NEW old \in S, NEW new \in S \cup {Same}
    PROVE  Patched(old, new) \in S
BY DEF Patched

\* One row of the groups changes.
LEMMA GroupWritten ==
    ASSUME IInv, GroupWrite
    PROVE  \E g \in GroupIds, row \in GroupRow \cup {NoRow} :
              /\ groups' = [groups EXCEPT ![g] = row]
              /\ groups[g] = NoRow => row # NoRow
              /\ groups[g] # NoRow /\ row = NoRow => Children(g) = {}
              /\ groups[g] # NoRow /\ row # NoRow => row.code = groups[g].code
              /\ UNCHANGED <<categories, events, tags, lastEvent, lastTag>> /\ CommitWithBump
<1>1. /\ groups \in [GroupIds -> GroupRow \cup {NoRow}]
      /\ Rows(groups) \subseteq GroupIds /\ \A g \in Rows(groups) : groups[g] \in GroupRow
      /\ NoRow \notin GroupRow
  BY RowsTyped, Basics DEF IInv, TypeOK
<1>2. ASSUME NEW n \in GroupNames, NEW g \in Rows(groups), groups' = [groups EXCEPT ![g].active = TRUE]
      PROVE  LET row == [groups[g] EXCEPT !.active = TRUE]
             IN  /\ row \in GroupRow /\ row.code = groups[g].code
                 /\ groups' = [groups EXCEPT ![g] = row]
  BY <1>1, <1>2 DEF GroupRow
<1>3. ASSUME NEW n \in GroupNames, AddGroup(n)
      PROVE  \E g \in GroupIds, row \in GroupRow \cup {NoRow} :
              /\ groups' = [groups EXCEPT ![g] = row]
              /\ groups[g] = NoRow => row # NoRow
              /\ groups[g] # NoRow /\ row = NoRow => Children(g) = {}
              /\ groups[g] # NoRow /\ row # NoRow => row.code = groups[g].code
  <2>1. CASE \E g \in Rows(groups) : groups' = [groups EXCEPT ![g].active = TRUE]
    <3>1. PICK g \in Rows(groups) : groups' = [groups EXCEPT ![g].active = TRUE]
      BY <2>1
    <3> DEFINE row == [groups[g] EXCEPT !.active = TRUE]
    <3>2. row \in GroupRow /\ row.code = groups[g].code /\ groups' = [groups EXCEPT ![g] = row]
      BY <1>2, <3>1
    <3>3. row # NoRow /\ groups[g] # NoRow /\ g \in GroupIds
      BY <1>1, <3>2 DEF Rows
    <3> HIDE DEF row
    <3> QED
      BY <3>2, <3>3
  <2>2. CASE /\ NextGroup \in GroupIds
             /\ groups' = [groups EXCEPT ![NextGroup] =
                              [code |-> NoCode, name |-> n, active |-> TRUE]]
    <3> DEFINE row == [code |-> NoCode, name |-> n, active |-> TRUE]
    <3>1. row \in GroupRow
      BY DEF GroupRow
    <3>2. groups[NextGroup] = NoRow
      BY <1>1, <2>2, NextGroupNew DEF Rows, IInv
    <3>3. row # NoRow
      BY <1>1, <3>1
    <3> HIDE DEF row
    <3> QED
      BY <2>2, <3>1, <3>2, <3>3 DEF row
  <2> QED
    BY <1>3, <2>1, <2>2 DEF AddGroup
<1>4. ASSUME NEW g \in GroupIds, NEW n \in GroupNames \cup {Same}, NEW a \in BOOLEAN \cup {Same},
             EditGroup(g, n, a)
      PROVE  \E row \in GroupRow \cup {NoRow} :
              /\ groups' = [groups EXCEPT ![g] = row]
              /\ groups[g] = NoRow => row # NoRow
              /\ groups[g] # NoRow /\ row = NoRow => Children(g) = {}
              /\ groups[g] # NoRow /\ row # NoRow => row.code = groups[g].code
  <2>1. g \in Rows(groups) /\ groups[g] \in GroupRow /\ groups[g] # NoRow
    BY <1>1, <1>4 DEF EditGroup, Rows
  <2>2. groups[g].name \in GroupNames /\ groups[g].active \in BOOLEAN
    BY <2>1 DEF GroupRow
  <2>3. Patched(groups[g].name, n) \in GroupNames /\ Patched(groups[g].active, a) \in BOOLEAN
    BY <2>2, PatchedIn
  <2> DEFINE row == [groups[g] EXCEPT !.name = Patched(groups[g].name, n),
                                      !.active = Patched(groups[g].active, a)]
  <2>4. row \in GroupRow /\ row.code = groups[g].code
    BY <2>1, <2>3 DEF GroupRow
  <2>5. groups' = [groups EXCEPT ![g] = row]
    BY <1>1, <1>4 DEF EditGroup
  <2> HIDE DEF row
  <2> QED
    BY <1>1, <2>1, <2>4, <2>5
<1>5. ASSUME NEW g \in GroupIds, DeleteGroup(g)
      PROVE  /\ groups' = [groups EXCEPT ![g] = NoRow]
             /\ groups[g] # NoRow /\ Children(g) = {}
  BY <1>5 DEF DeleteGroup, Rows
<1>6. UNCHANGED <<categories, events, tags, lastEvent, lastTag>> /\ CommitWithBump
  BY DEF GroupWrite, AddGroup, EditGroup, DeleteGroup
<1> QED
  BY <1>3, <1>4, <1>5, <1>6 DEF GroupWrite

\* One row of the events changes: its tags are those it had or have rows, its name is the
\* one it had or one no other row has, and it goes only if nobody refers to it.
EventWritten(e, row) ==
    /\ events' = [events EXCEPT ![e] = row]
    /\ events[e] = NoRow \/ row # NoRow \/ ~EventUsed(e)
    /\ row # NoRow => /\ row.tags \subseteq Rows(tags)
                      /\ \A f \in Rows(events) \ {e} : events[f].name # row.name

LEMMA AddEventWrites ==
    ASSUME IInv, NEW n \in EventNames, NEW ts \in SUBSET TagIds, AddEvent(n, ts)
    PROVE  \E e \in EventIds, row \in EventRow : EventWritten(e, row) /\ row.name = n
<1>1. /\ events \in [EventIds -> EventRow \cup {NoRow}] /\ NoRow \notin EventRow
      /\ Rows(events) \subseteq EventIds /\ \A e \in Rows(events) : events[e] \in EventRow
  BY RowsTyped, Basics DEF IInv, TypeOK
<1>2. CASE \E e \in Rows(events) : events[e].name = n /\ events' = [events EXCEPT ![e].active = TRUE]
  <2>1. PICK e \in Rows(events) : events[e].name = n /\ events' = [events EXCEPT ![e].active = TRUE]
    BY <1>2
  <2> DEFINE row == [events[e] EXCEPT !.active = TRUE]
  <2>2. row \in EventRow /\ row.tags = events[e].tags /\ row.name = events[e].name
        /\ events' = [events EXCEPT ![e] = row]
    BY <1>1, <2>1 DEF EventRow
  <2>3. events[e].tags \subseteq Rows(tags) /\ \A f \in Rows(events) \ {e} : events[f].name # events[e].name
    BY DEF IInv, NoDangling, NamesUnique
  <2> HIDE DEF row
  <2>4. e \in EventIds /\ EventWritten(e, row)
    BY <1>1, <2>2, <2>3 DEF EventWritten
  <2> QED
    BY <2>1, <2>2, <2>4
<1>3. CASE /\ \A e \in Rows(events) : events[e].name # n
           /\ lastEvent < MaxEvents
           /\ events' = [events EXCEPT ![lastEvent + 1] = [name |-> n, tags |-> ts, active |-> TRUE]]
  <2> DEFINE row == [name |-> n, tags |-> ts, active |-> TRUE]
  <2>1. row \in EventRow /\ lastEvent + 1 \in EventIds
    BY <1>3, BoundsAssumption DEF EventRow, IInv, TypeOK, EventIds
  <2>2. ts \subseteq Rows(tags)
    BY DEF AddEvent
  <2>3. row.tags = ts /\ row.name = n
    OBVIOUS
  <2>4. events' = [events EXCEPT ![lastEvent + 1] = row]
    BY <1>3
  <2> HIDE DEF row
  <2>5. EventWritten(lastEvent + 1, row)
    BY <1>1, <1>3, <2>1, <2>2, <2>3, <2>4 DEF EventWritten
  <2> QED
    BY <2>1, <2>3, <2>5
<1> QED
  BY <1>2, <1>3 DEF AddEvent

LEMMA EditEventWrites ==
    ASSUME IInv, NEW e, NEW n \in EventNames \cup {Same},
           NEW ts \in (SUBSET TagIds) \cup {Same}, NEW a \in BOOLEAN \cup {Same},
           EditEvent(e, n, ts, a)
    PROVE  LET row == [events[e] EXCEPT !.name = Patched(events[e].name, n),
                                        !.tags = Patched(events[e].tags, ts),
                                        !.active = Patched(events[e].active, a)]
           IN  e \in Rows(events) /\ events[e] \in EventRow /\ row \in EventRow /\ EventWritten(e, row)
<1>1. /\ events \in [EventIds -> EventRow \cup {NoRow}] /\ NoRow \notin EventRow
      /\ e \in Rows(events) /\ events[e] \in EventRow
  BY RowsTyped, Basics DEF IInv, TypeOK, EditEvent
<1> DEFINE row == [events[e] EXCEPT !.name = Patched(events[e].name, n),
                                    !.tags = Patched(events[e].tags, ts),
                                    !.active = Patched(events[e].active, a)]
<1>2. events[e].name \in EventNames /\ events[e].tags \in SUBSET TagIds /\ events[e].active \in BOOLEAN
  BY <1>1 DEF EventRow
<1>3. /\ Patched(events[e].name, n) \in EventNames /\ Patched(events[e].tags, ts) \in SUBSET TagIds
      /\ Patched(events[e].active, a) \in BOOLEAN
  BY <1>2, PatchedIn
<1>4. row \in EventRow /\ row.name = Patched(events[e].name, n) /\ row.tags = Patched(events[e].tags, ts)
  BY <1>1, <1>3 DEF EventRow
<1>5. events' = [events EXCEPT ![e] = row]
  BY <1>1 DEF EditEvent
<1>6. row.tags \subseteq Rows(tags)
  BY <1>1, <1>4 DEF EditEvent, Patched, IInv, NoDangling
<1>7. \A f \in Rows(events) \ {e} : events[f].name # row.name
  BY <1>1, <1>4 DEF EditEvent, Patched, IInv, NamesUnique
<1> HIDE DEF row
<1>8. EventWritten(e, row)
  BY <1>1, <1>4, <1>5, <1>6, <1>7 DEF EventWritten
<1> QED
  BY <1>1, <1>4, <1>8 DEF row

LEMMA EventWriteStep ==
    ASSUME IInv, EventWrite
    PROVE  /\ \E e \in EventIds, row \in EventRow \cup {NoRow} : EventWritten(e, row)
           /\ lastEvent' \in 0..MaxEvents
           /\ UNCHANGED <<groups, categories, tags, lastTag>> /\ CommitWithBump
<1>1. /\ events \in [EventIds -> EventRow \cup {NoRow}] /\ NoRow \notin EventRow
      /\ Rows(events) \subseteq EventIds /\ \A e \in Rows(events) : events[e] \in EventRow
      /\ lastEvent \in 0..MaxEvents
  BY RowsTyped, Basics DEF IInv, TypeOK
<1>2. ASSUME NEW e \in EventIds, DeleteEvent(e)
      PROVE  \E row \in EventRow \cup {NoRow} : EventWritten(e, row)
  <2>1. events[e] \in EventRow /\ e \in Rows(events)
    BY <1>1, <1>2 DEF DeleteEvent
  <2>2. CASE EventUsed(e)
    <3> DEFINE row == [events[e] EXCEPT !.active = FALSE]
    <3>1. row \in EventRow /\ row.tags = events[e].tags /\ row.name = events[e].name
      BY <2>1 DEF EventRow
    <3>2. events' = [events EXCEPT ![e] = row]
      BY <1>1, <1>2, <2>2 DEF DeleteEvent
    <3>3. events[e].tags \subseteq Rows(tags) /\ \A f \in Rows(events) \ {e} : events[f].name # events[e].name
      BY <2>1 DEF IInv, NoDangling, NamesUnique
    <3> HIDE DEF row
    <3>4. EventWritten(e, row)
      BY <1>1, <3>1, <3>2, <3>3 DEF EventWritten
    <3> QED
      BY <3>1, <3>4
  <2>3. CASE ~EventUsed(e)
    BY <1>2, <2>3 DEF DeleteEvent, EventWritten
  <2> QED
    BY <2>2, <2>3
<1>3. lastEvent' \in 0..MaxEvents
  <2> DEFINE Counted == lastEvent' = lastEvent \/ (lastEvent < MaxEvents /\ lastEvent' = lastEvent + 1)
  <2>1. ASSUME NEW n \in EventNames, NEW ts \in SUBSET TagIds, AddEvent(n, ts) PROVE Counted
    BY <2>1 DEF AddEvent
  <2>2. Counted
    BY <2>1 DEF EventWrite, EditEvent, DeleteEvent
  <2> QED
    BY <1>1, <2>2, BoundsAssumption
<1>4. UNCHANGED <<groups, categories, tags, lastTag>> /\ CommitWithBump
  BY DEF EventWrite, AddEvent, EditEvent, DeleteEvent
<1>5. CASE \E n \in EventNames, ts \in SUBSET TagIds : AddEvent(n, ts)
  BY <1>5, <1>3, <1>4, AddEventWrites
<1>6. CASE \E e \in EventIds, n \in EventNames \cup {Same},
              ts \in (SUBSET TagIds) \cup {Same}, a \in BOOLEAN \cup {Same} :
               EditEvent(e, n, ts, a)
  BY <1>6, <1>3, <1>4, EditEventWrites
<1>7. CASE \E e \in EventIds : DeleteEvent(e)
  BY <1>2, <1>3, <1>4, <1>7
<1> QED
  BY <1>5, <1>6, <1>7 DEF EventWrite

\* The same for the tags.
TagWritten(t, row) ==
    /\ tags' = [tags EXCEPT ![t] = row]
    /\ tags[t] = NoRow \/ row # NoRow \/ ~TagUsed(t)
    /\ row # NoRow => \A u \in Rows(tags) \ {t} : tags[u].name # row.name

LEMMA AddTagWrites ==
    ASSUME IInv, NEW n \in TagNames, AddTag(n)
    PROVE  \E t \in TagIds, row \in TagRow : TagWritten(t, row) /\ row.name = n
<1>1. /\ tags \in [TagIds -> TagRow \cup {NoRow}] /\ NoRow \notin TagRow
      /\ Rows(tags) \subseteq TagIds /\ \A t \in Rows(tags) : tags[t] \in TagRow
  BY RowsTyped, Basics DEF IInv, TypeOK
<1>2. CASE \E t \in Rows(tags) : tags[t].name = n /\ tags' = [tags EXCEPT ![t].active = TRUE]
  <2>1. PICK t \in Rows(tags) : tags[t].name = n /\ tags' = [tags EXCEPT ![t].active = TRUE]
    BY <1>2
  <2> DEFINE row == [tags[t] EXCEPT !.active = TRUE]
  <2>2. row \in TagRow /\ row.name = tags[t].name /\ tags' = [tags EXCEPT ![t] = row]
    BY <1>1, <2>1 DEF TagRow
  <2>3. \A u \in Rows(tags) \ {t} : tags[u].name # tags[t].name
    BY DEF IInv, NamesUnique
  <2> HIDE DEF row
  <2>4. t \in TagIds /\ TagWritten(t, row)
    BY <1>1, <2>2, <2>3 DEF TagWritten
  <2> QED
    BY <2>1, <2>2, <2>4
<1>3. CASE /\ \A t \in Rows(tags) : tags[t].name # n
           /\ lastTag < MaxTags
           /\ tags' = [tags EXCEPT ![lastTag + 1] = [name |-> n, active |-> TRUE]]
  <2> DEFINE row == [name |-> n, active |-> TRUE]
  <2>1. row \in TagRow /\ lastTag + 1 \in TagIds /\ row.name = n
    BY <1>3, BoundsAssumption DEF TagRow, IInv, TypeOK, TagIds
  <2>2. tags' = [tags EXCEPT ![lastTag + 1] = row]
    BY <1>3
  <2> HIDE DEF row
  <2>3. TagWritten(lastTag + 1, row)
    BY <1>1, <1>3, <2>1, <2>2 DEF TagWritten
  <2> QED
    BY <2>1, <2>3
<1> QED
  BY <1>2, <1>3 DEF AddTag

LEMMA EditTagWrites ==
    ASSUME IInv, NEW t, NEW n \in TagNames \cup {Same}, NEW a \in BOOLEAN \cup {Same},
           EditTag(t, n, a)
    PROVE  LET row == [tags[t] EXCEPT !.name = Patched(tags[t].name, n),
                                      !.active = Patched(tags[t].active, a)]
           IN  t \in Rows(tags) /\ tags[t] \in TagRow /\ row \in TagRow /\ TagWritten(t, row)
<1>1. /\ tags \in [TagIds -> TagRow \cup {NoRow}] /\ NoRow \notin TagRow
      /\ t \in Rows(tags) /\ tags[t] \in TagRow
  BY RowsTyped, Basics DEF IInv, TypeOK, EditTag
<1> DEFINE row == [tags[t] EXCEPT !.name = Patched(tags[t].name, n),
                                  !.active = Patched(tags[t].active, a)]
<1>2. tags[t].name \in TagNames /\ tags[t].active \in BOOLEAN
  BY <1>1 DEF TagRow
<1>3. Patched(tags[t].name, n) \in TagNames /\ Patched(tags[t].active, a) \in BOOLEAN
  BY <1>2, PatchedIn
<1>4. row \in TagRow /\ row.name = Patched(tags[t].name, n)
  BY <1>1, <1>3 DEF TagRow
<1>5. tags' = [tags EXCEPT ![t] = row]
  BY <1>1 DEF EditTag
<1>6. \A u \in Rows(tags) \ {t} : tags[u].name # row.name
  BY <1>1, <1>4 DEF EditTag, Patched, IInv, NamesUnique
<1> HIDE DEF row
<1>7. TagWritten(t, row)
  BY <1>1, <1>4, <1>5, <1>6 DEF TagWritten
<1> QED
  BY <1>1, <1>4, <1>7 DEF row

LEMMA TagWriteStep ==
    ASSUME IInv, TagWrite
    PROVE  /\ \E t \in TagIds, row \in TagRow \cup {NoRow} : TagWritten(t, row)
           /\ lastTag' \in 0..MaxTags
           /\ UNCHANGED <<groups, categories, events, lastEvent>> /\ CommitWithBump
<1>1. /\ tags \in [TagIds -> TagRow \cup {NoRow}] /\ NoRow \notin TagRow
      /\ Rows(tags) \subseteq TagIds /\ \A t \in Rows(tags) : tags[t] \in TagRow
      /\ lastTag \in 0..MaxTags
  BY RowsTyped, Basics DEF IInv, TypeOK
<1>2. ASSUME NEW t \in TagIds, DeleteTag(t)
      PROVE  \E row \in TagRow \cup {NoRow} : TagWritten(t, row)
  <2>1. tags[t] \in TagRow /\ t \in Rows(tags)
    BY <1>1, <1>2 DEF DeleteTag
  <2>2. CASE TagUsed(t)
    <3> DEFINE row == [tags[t] EXCEPT !.active = FALSE]
    <3>1. row \in TagRow /\ row.name = tags[t].name
      BY <2>1 DEF TagRow
    <3>2. tags' = [tags EXCEPT ![t] = row]
      BY <1>1, <1>2, <2>2 DEF DeleteTag
    <3>3. \A u \in Rows(tags) \ {t} : tags[u].name # tags[t].name
      BY <2>1 DEF IInv, NamesUnique
    <3> HIDE DEF row
    <3>4. TagWritten(t, row)
      BY <1>1, <3>1, <3>2, <3>3 DEF TagWritten
    <3> QED
      BY <3>1, <3>4
  <2>3. CASE ~TagUsed(t)
    BY <1>2, <2>3 DEF DeleteTag, TagWritten
  <2> QED
    BY <2>2, <2>3
<1>3. lastTag' \in 0..MaxTags
  <2> DEFINE Counted == lastTag' = lastTag \/ (lastTag < MaxTags /\ lastTag' = lastTag + 1)
  <2>1. ASSUME NEW n \in TagNames, AddTag(n) PROVE Counted
    BY <2>1 DEF AddTag
  <2>2. Counted
    BY <2>1 DEF TagWrite, EditTag, DeleteTag
  <2> QED
    BY <1>1, <2>2, BoundsAssumption
<1>4. UNCHANGED <<groups, categories, events, lastEvent>> /\ CommitWithBump
  BY DEF TagWrite, AddTag, EditTag, DeleteTag
<1>5. CASE \E n \in TagNames : AddTag(n)
  BY <1>5, <1>3, <1>4, AddTagWrites
<1>6. CASE \E t \in TagIds, n \in TagNames \cup {Same}, a \in BOOLEAN \cup {Same} : EditTag(t, n, a)
  BY <1>6, <1>3, <1>4, EditTagWrites
<1>7. CASE \E t \in TagIds : DeleteTag(t)
  BY <1>2, <1>3, <1>4, <1>7
<1> QED
  BY <1>5, <1>6, <1>7 DEF TagWrite

\* One row of the categories is set.
CategoryWritten(k, row) ==
    /\ k \in Codes /\ row \in CategoryRow
    /\ row.group \in Rows(groups) \cup {NoGroup}
    /\ categories' = [categories EXCEPT ![k] = row]

LEMMA ActivatedWrites ==
    ASSUME IInv, NEW k \in Codes, Activated(k)
    PROVE  LET row == [categories[k] EXCEPT
                          !.group = IF categories[k].group = NoGroup
                                    THEN PlacedBy(template, k) ELSE categories[k].group,
                          !.active = TRUE, !.hidden = FALSE]
           IN  k \in Rows(categories) /\ CategoryWritten(k, row)
<1>1. /\ categories \in [Codes -> CategoryRow \cup {NoRow}]
      /\ k \in Rows(categories) /\ categories[k] \in CategoryRow
  BY RowsTyped DEF IInv, TypeOK, Activated
<1> DEFINE g == IF categories[k].group = NoGroup THEN PlacedBy(template, k) ELSE categories[k].group
           row == [categories[k] EXCEPT !.group = g, !.active = TRUE, !.hidden = FALSE]
<1>2. g \in Rows(groups) \cup {NoGroup}
  <2>1. PlacedBy(template, k) \in Rows(groups) \cup {NoGroup}
    BY GroupOfCode DEF PlacedBy
  <2>2. categories[k].group \in Rows(groups) \cup {NoGroup}
    BY <1>1 DEF IInv, NoDangling
  <2> QED
    BY <2>1, <2>2
<1>3. categories' = [categories EXCEPT ![k] = row]
  BY <1>1 DEF Activated
<1>4. row \in CategoryRow /\ row.group = g
  <2>1. g \in GroupIds \cup {NoGroup}
    BY <1>2, RowsTyped DEF IInv
  <2> HIDE DEF g
  <2> QED
    BY <1>1, <2>1 DEF CategoryRow
<1> HIDE DEF row, g
<1>5. CategoryWritten(k, row)
  BY <1>2, <1>3, <1>4 DEF CategoryWritten
<1> QED
  BY <1>1, <1>5 DEF row, g

\* The requests that set columns of one row, with what they set.
LEMMA SetWrites ==
    ASSUME IInv, NEW k \in Codes, k \in Rows(categories)
    PROVE  /\ categories[k] \in CategoryRow
           /\ Hide(k) => CategoryWritten(k, [categories[k] EXCEPT !.hidden = TRUE])
           /\ Unhide(k) => CategoryWritten(k, [categories[k] EXCEPT !.hidden = FALSE])
           /\ \A n \in Labels : Rename(k, n) => CategoryWritten(k, [categories[k] EXCEPT !.name = n])
           /\ \A code : Move(k, code) =>
                 CategoryWritten(k, [categories[k] EXCEPT !.group = GroupId(code)])
<1>1. categories[k] \in CategoryRow /\ categories[k].group \in Rows(groups) \cup {NoGroup}
  BY RowsTyped DEF IInv, NoDangling
<1>2. Hide(k) => CategoryWritten(k, [categories[k] EXCEPT !.hidden = TRUE])
  BY <1>1 DEF Hide, SetCategory, CategoryWritten, CategoryRow
<1>3. Unhide(k) => CategoryWritten(k, [categories[k] EXCEPT !.hidden = FALSE])
  BY <1>1 DEF Unhide, SetCategory, CategoryWritten, CategoryRow
<1>4. ASSUME NEW n \in Labels, Rename(k, n)
      PROVE  CategoryWritten(k, [categories[k] EXCEPT !.name = n])
  BY <1>1, <1>4 DEF Rename, SetCategory, CategoryWritten, CategoryRow
<1>5. ASSUME NEW code, Move(k, code)
      PROVE  CategoryWritten(k, [categories[k] EXCEPT !.group = GroupId(code)])
  <2> DEFINE g == GroupId(code)
  <2>1. g \in Rows(groups) \cup {NoGroup} /\ g \in GroupIds \cup {NoGroup}
    BY RowsTyped, GroupOfCode DEF IInv
  <2>2. categories' = [categories EXCEPT ![k] = [categories[k] EXCEPT !.group = g]]
    BY <1>5 DEF Move, SetCategory
  <2> HIDE DEF g
  <2>3. [categories[k] EXCEPT !.group = g] \in CategoryRow /\ [categories[k] EXCEPT !.group = g].group = g
    BY <1>1, <2>1 DEF CategoryRow
  <2>4. CategoryWritten(k, [categories[k] EXCEPT !.group = g])
    BY <2>1, <2>2, <2>3 DEF CategoryWritten
  <2> QED
    BY <2>4 DEF g
<1> QED
  BY <1>1, <1>2, <1>3, <1>4, <1>5

LEMMA CreateWrites ==
    ASSUME IInv, NEW k \in Codes, NEW n \in Labels, NEW code, Create(k, n, code)
    PROVE  /\ GroupId(code) \in Rows(groups) /\ k \notin Rows(categories)
           /\ CategoryWritten(k, [group |-> GroupId(code), name |-> n,
                                  active |-> TRUE, hidden |-> FALSE, retired |-> FALSE])
<1> DEFINE g == GroupId(code)
<1>1. g \in Rows(groups) /\ g \in GroupIds
  BY RowsTyped, GroupOfCode DEF IInv, Create
<1>2. categories' = [categories EXCEPT ![k] =
                        [group |-> g, name |-> n, active |-> TRUE, hidden |-> FALSE, retired |-> FALSE]]
  BY DEF Create, SetCategory
<1>3. k \notin Rows(categories)
  BY DEF Create
<1> HIDE DEF g
<1>4. CategoryWritten(k, [group |-> g, name |-> n,
                          active |-> TRUE, hidden |-> FALSE, retired |-> FALSE])
  BY <1>1, <1>2 DEF CategoryWritten, CategoryRow
<1> QED
  BY <1>1, <1>3, <1>4 DEF g

LEMMA CategoryWrittenStep ==
    ASSUME IInv, NEW k \in Codes, NEW row, CategoryWritten(k, row),
           UNCHANGED <<groups, events, tags, lastEvent, lastTag, expenses, mapping, meta>>,
           arriving' \in [Codes -> {"no", "activate", "insert"}],
           \A j \in Codes : arriving'[j] # "no" => arriving[j] # "no", version' \in Nat
    PROVE  IInv'
<1>1. /\ categories \in [Codes -> CategoryRow \cup {NoRow}] /\ NoRow \notin CategoryRow
      /\ groups' \in [GroupIds -> GroupRow \cup {NoRow}] /\ \A g \in Rows(groups) : groups'[g] # NoRow
      /\ template' \in DOMAIN Templates \cup {NoTemplate} /\ boots' \in 0..MaxBoots /\ boots' = boots
  BY Basics DEF IInv, TypeOK, meta, Rows
<1>2. categories' \in [Codes -> CategoryRow \cup {NoRow}]
  BY <1>1 DEF CategoryWritten
<1>3. /\ \A j \in Rows(categories) : j \in Codes /\ categories'[j] # NoRow
      /\ \A j \in Codes : categories'[j] # NoRow => categories'[j].group \in Rows(groups) \cup {NoGroup}
  BY <1>1 DEF CategoryWritten, IInv, NoDangling, Rows
<1>4. \A j \in Releases[boots'].vocabulary : j \in Codes /\ categories'[j] # NoRow
  BY <1>1, <1>3 DEF IInv, VocabularyThere, Deployed
<1>5. \A j \in Codes : arriving'[j] # "no" => j \in Rows(categories)
  BY DEF IInv, ArrivingFound
<1> QED
  BY <1>1, <1>2, <1>3, <1>4, <1>5, CategoriesChange DEF meta

\* A template writes the categories of its vocabulary; of the groups it changes names.
LEMMA AppliedRow ==
    ASSUME IInv, NEW t \in Deployed.templates, NEW k \in Deployed.vocabulary
    PROVE  /\ t \in DOMAIN Templates /\ k \in FactoryCodes /\ k \in Rows(categories)
           /\ Applied(t, k) \in CategoryRow
           /\ Applied(t, k).group \in Rows(groups) \cup {NoGroup}
<1>1. boots \in 0..MaxBoots /\ Deployed \in Release
  BY ReleasesAssumption DEF IInv, TypeOK, Deployed
<1>2. t \in DOMAIN Templates /\ k \in FactoryCodes
  BY <1>1 DEF Release
<1>3. k \in Rows(categories) /\ categories[k] \in CategoryRow
  BY RowsTyped DEF IInv, VocabularyThere
<1>4. Templates[t].place[k].name \in Labels /\ Templates[t].place[k].visible \in BOOLEAN
  BY <1>2, TemplatesAssumption DEF Template
<1> DEFINE g == PlacedBy(t, k)
           b == Templates[t].place[k].visible \/ k \in UsedCodes
<1>5. g \in Rows(groups) \cup {NoGroup} /\ g \in GroupIds \cup {NoGroup}
  BY GroupOfCode, RowsTyped DEF PlacedBy, IInv
<1>6. b \in BOOLEAN
  OBVIOUS
<1>7. Applied(t, k) = [categories[k] EXCEPT !.group = g, !.name = Templates[t].place[k].name, !.active = b]
  BY DEF Applied
<1> HIDE DEF g, b
<1>8. Applied(t, k) \in CategoryRow /\ Applied(t, k).group = g
  BY <1>3, <1>4, <1>5, <1>6, <1>7 DEF CategoryRow
<1> QED
  BY <1>2, <1>3, <1>5, <1>8

\* Names of groups only: the rows stay, with their codes.
LEMMA RenamedGroups ==
    ASSUME IInv, NEW t, Apply(t)
    PROVE  /\ groups' \in [GroupIds -> GroupRow \cup {NoRow}]
           /\ \A g \in GroupIds : /\ groups[g] = NoRow => groups'[g] = NoRow
                                  /\ groups[g] # NoRow => groups'[g] # NoRow
                                                          /\ groups'[g].code = groups[g].code
<1>1. /\ groups \in [GroupIds -> GroupRow \cup {NoRow}] /\ NoRow \notin GroupRow
      /\ t \in DOMAIN Templates /\ Templates[t].groups \subseteq GroupCodes
  <2>1. boots \in 0..MaxBoots /\ Deployed \in Release /\ t \in Deployed.templates
    BY ReleasesAssumption DEF IInv, TypeOK, Deployed, Apply
  <2>2. t \in DOMAIN Templates
    BY <2>1 DEF Release
  <2> QED
    BY <2>2, TemplatesAssumption, Basics DEF IInv, TypeOK, Template
<1> DEFINE row(g) == IF g \in Rows(groups) /\ groups[g].code \in Templates[t].groups
                     THEN [groups[g] EXCEPT !.name = groups[g].code] ELSE groups[g]
<1>2. groups' = [g \in GroupIds |-> row(g)]
  BY DEF Apply
<1>3. ASSUME NEW g \in GroupIds
      PROVE  /\ row(g) \in GroupRow \cup {NoRow}
             /\ groups[g] = NoRow => row(g) = NoRow
             /\ groups[g] # NoRow => row(g) # NoRow /\ row(g).code = groups[g].code
  <2>1. CASE g \in Rows(groups) /\ groups[g].code \in Templates[t].groups
    <3>1. groups[g] \in GroupRow /\ groups[g].code \in GroupNames
      BY <1>1, <2>1, CodesAssumption DEF Rows
    <3>2. [groups[g] EXCEPT !.name = groups[g].code] \in GroupRow
      BY <3>1 DEF GroupRow
    <3>3. [groups[g] EXCEPT !.name = groups[g].code].code = groups[g].code
      BY <3>1 DEF GroupRow
    <3> QED
      BY <1>1, <2>1, <3>2, <3>3 DEF Rows
  <2>2. CASE ~(g \in Rows(groups) /\ groups[g].code \in Templates[t].groups)
    BY <1>1, <2>2
  <2> QED
    BY <2>1, <2>2
<1> HIDE DEF row
<1> QED
  BY <1>2, <1>3

LEMMA ApplyStep ==
    ASSUME IInv, NEW t, Apply(t)
    PROVE  IInv' /\ version' \in Nat
<1>1. /\ categories \in [Codes -> CategoryRow \cup {NoRow}] /\ NoRow \notin CategoryRow
      /\ boots \in 0..MaxBoots /\ Deployed.vocabulary \subseteq Codes
      /\ Rows(groups) \subseteq GroupIds /\ Rows(categories) \subseteq Codes
  BY RowsTyped, Basics DEF IInv, TypeOK, VocabularyThere
<1>2. t \in Deployed.templates
  BY DEF Apply
<1>3. \A k \in Deployed.vocabulary : /\ Applied(t, k) \in CategoryRow
                                     /\ Applied(t, k).group \in Rows(groups) \cup {NoGroup}
                                     /\ t \in DOMAIN Templates
  BY <1>2, AppliedRow
<1>4. categories' = [k \in Codes |-> IF k \in Deployed.vocabulary THEN Applied(t, k) ELSE categories[k]]
  BY DEF Apply
<1>5. /\ categories' \in [Codes -> CategoryRow \cup {NoRow}]
      /\ \A k \in Rows(categories) : categories'[k] # NoRow
      /\ \A k \in Codes : categories'[k] # NoRow =>
             categories'[k].group \in Rows(groups) \cup {NoGroup}
  BY <1>1, <1>3, <1>4 DEF IInv, NoDangling, Rows
<1>6. /\ groups' \in [GroupIds -> GroupRow \cup {NoRow}]
      /\ \A g \in Rows(groups) : groups'[g] # NoRow
  BY <1>1, RenamedGroups DEF Rows
<1>7. version' \in Nat
  BY Bumps DEF Apply
<1>8. /\ template' \in DOMAIN Templates \cup {NoTemplate} /\ boots' = boots
      /\ UNCHANGED <<events, tags, lastEvent, lastTag, expenses, mapping, arriving>>
  <2>1. boots' = boots /\ template' = t /\ Deployed \in Release
    BY <1>1, ReleasesAssumption DEF Apply, Deployed
  <2> QED
    BY <1>2, <2>1 DEF Apply, users, Release
<1>9. \A k \in Releases[boots'].vocabulary : k \in Codes /\ categories'[k] # NoRow
  BY <1>1, <1>5, <1>8 DEF IInv, VocabularyThere, Deployed
<1>10. /\ arriving' \in [Codes -> {"no", "activate", "insert"}]
       /\ \A k \in Codes : arriving'[k] # "no" => k \in Rows(categories)
  BY <1>8 DEF IInv, TypeOK, ArrivingFound
<1> QED
  BY <1>1, <1>5, <1>6, <1>7, <1>8, <1>9, <1>10, CategoriesChange

LEMMA CategoryWriteStep ==
    ASSUME IInv, CategoryWrite
    PROVE  IInv' /\ version' \in Nat /\ Bump /\ boots' = boots /\ UNCHANGED users
<1>1. Bump /\ boots' = boots /\ UNCHANGED users
  <2>1. ASSUME NEW k \in Codes, Activate(k) \/ Hide(k) \/ Unhide(k)
        PROVE  Bump /\ boots' = boots /\ UNCHANGED users
    BY <2>1 DEF Activate, Activated, Hide, Unhide, SetCategory, meta
  <2>2. ASSUME NEW k \in Codes, NEW n, NEW code, Rename(k, n) \/ Move(k, code) \/ Create(k, n, code)
        PROVE  Bump /\ boots' = boots /\ UNCHANGED users
    BY <2>2 DEF Rename, Move, Create, SetCategory, meta
  <2>3. ASSUME NEW t, Apply(t) PROVE Bump /\ boots' = boots /\ UNCHANGED users
    BY <2>3 DEF Apply
  <2> QED
    BY <2>1, <2>2, <2>3 DEF CategoryWrite
<1>2. version' \in Nat
  BY <1>1, Bumps
<1> DEFINE Left == UNCHANGED <<groups, events, tags, lastEvent, lastTag, expenses, mapping, arriving, meta>>
<1>3. ASSUME NEW k \in Codes, NEW row, CategoryWritten(k, row), Left PROVE IInv'
  <2>1. UNCHANGED arriving /\ arriving \in [Codes -> {"no", "activate", "insert"}]
    BY <1>3 DEF IInv, TypeOK
  <2> QED
    BY <1>2, <1>3, <2>1, CategoryWrittenStep
<1>4. ASSUME NEW k \in Codes, Activate(k) PROVE IInv'
  <2>1. Left
    BY <1>4 DEF Activate, Activated, users
  <2>2. \E row : CategoryWritten(k, row)
    BY <1>4, ActivatedWrites DEF Activate
  <2> QED
    BY <1>3, <2>1, <2>2
<1>6. ASSUME NEW k \in Codes, NEW n \in Labels, NEW code \in GroupCodes, Create(k, n, code)
      PROVE  IInv'
  <2>1. Left
    BY <1>6 DEF Create, SetCategory, users
  <2>2. \E row : CategoryWritten(k, row)
    BY <1>6, CreateWrites
  <2> QED
    BY <1>3, <2>1, <2>2
<1>7. ASSUME NEW k \in Codes, Hide(k) \/ Unhide(k) PROVE IInv'
  <2>1. Left
    BY <1>7 DEF Hide, Unhide, SetCategory, users
  <2>2. k \in Rows(categories)
    BY <1>7 DEF Hide, Unhide
  <2>3. \E row : CategoryWritten(k, row)
    BY <1>7, <2>2, SetWrites
  <2> QED
    BY <1>3, <2>1, <2>3
<1>8. ASSUME NEW k \in Codes, NEW n \in Labels, Rename(k, n) PROVE IInv'
  <2>1. Left
    BY <1>8 DEF Rename, SetCategory, users
  <2>2. k \in Rows(categories)
    BY <1>8 DEF Rename
  <2>3. \E row : CategoryWritten(k, row)
    BY <1>8, <2>2, SetWrites
  <2> QED
    BY <1>3, <2>1, <2>3
<1>9. ASSUME NEW k \in Codes, NEW code \in GroupCodes, Move(k, code) PROVE IInv'
  <2>1. Left
    BY <1>9 DEF Move, SetCategory, users
  <2>2. k \in Rows(categories)
    BY <1>9 DEF Move
  <2>3. \E row : CategoryWritten(k, row)
    BY <1>9, <2>2, SetWrites
  <2> QED
    BY <1>3, <2>1, <2>3
<1> HIDE DEF Left
<1>10. IInv'
  BY <1>4, <1>6, <1>7, <1>8, <1>9, ApplyStep DEF CategoryWrite
<1> QED
  BY <1>1, <1>2, <1>10
-----------------------------------------------------------------------------
(* Expenses, the map, and the start. *)

LEMMA IngestStep ==
    ASSUME IInv, Ingest
    PROVE  IInv'
<1>1. /\ expenses \subseteq Expense /\ mapping \in [events: SUBSET EventIds, tags: SUBSET TagIds]
      /\ mapping.events \subseteq Rows(events) /\ mapping.tags \subseteq Rows(tags)
      /\ arriving \in [Codes -> {"no", "activate", "insert"}]
      /\ \A k \in Codes : arriving[k] # "no" => k \in Rows(categories)
      /\ \A x \in expenses : /\ x.category \in Rows(categories)
                             /\ x.event \in Rows(events) \cup {NoEvent}
                             /\ x.tags \subseteq Rows(tags)
  BY DEF IInv, TypeOK, NoDangling, ArrivingFound
<1>2. ASSUME NEW k \in Codes, CheckCategory(k) PROVE IInv'
  <2>1. /\ arriving' \in [Codes -> {"no", "activate", "insert"}]
        /\ \A j \in Codes : arriving'[j] # "no" => j \in Rows(categories)
        /\ UNCHANGED <<tables, expenses, mapping, meta, version>>
    BY <1>1, <1>2 DEF CheckCategory
  <2> QED
    BY <1>1, <2>1, UsersChange
<1>3. ASSUME NEW k \in Codes, RefuseExpense(k) PROVE IInv'
  <2>1. /\ arriving' \in [Codes -> {"no", "activate", "insert"}]
        /\ \A j \in Codes : arriving'[j] # "no" => j \in Rows(categories)
        /\ UNCHANGED <<tables, expenses, mapping, meta, version>>
    BY <1>1, <1>3 DEF RefuseExpense
  <2> QED
    BY <1>1, <2>1, UsersChange
<1>4. ASSUME NEW k \in Codes, ActivateForExpense(k) PROVE IInv'
  <2>1. /\ arriving' \in [Codes -> {"no", "activate", "insert"}]
        /\ \A j \in Codes : arriving'[j] # "no" => arriving[j] # "no"
    BY <1>1, <1>4 DEF ActivateForExpense
  <2>2. UNCHANGED <<groups, events, tags, lastEvent, lastTag, expenses, mapping, meta>> /\ Activated(k) /\ Bump
    BY <1>4 DEF ActivateForExpense, Activated
  <2>3. \E row : CategoryWritten(k, row)
    BY <2>2, ActivatedWrites
  <2>4. version' \in Nat
    BY <2>2, Bumps
  <2> QED
    BY <2>1, <2>2, <2>3, <2>4, CategoryWrittenStep
<1>5. ASSUME NEW k \in Codes, NEW e \in EventIds \cup {NoEvent}, NEW ts \in SUBSET TagIds,
             InsertExpense(k, e, ts)
      PROVE  IInv'
  <2> DEFINE attached == IF e = NoEvent THEN ts ELSE ts \cup events[e].tags
             new == [category |-> k, event |-> e, tags |-> attached]
  <2>1. /\ arriving' \in [Codes -> {"no", "activate", "insert"}] /\ k \in Rows(categories)
        /\ \A j \in Codes : arriving'[j] # "no" => j \in Rows(categories)
        /\ UNCHANGED <<tables, mapping, meta, version>>
    BY <1>1, <1>5 DEF InsertExpense
  <2>2. attached \subseteq Rows(tags) /\ e \in Rows(events) \cup {NoEvent} /\ Rows(tags) \subseteq TagIds
    BY <1>5, RowsTyped DEF InsertExpense, IInv
  <2>3. expenses' = expenses \cup {new}
    BY <1>5 DEF InsertExpense
  <2> HIDE DEF attached
  <2>4. new \in Expense /\ new.category = k /\ new.event = e /\ new.tags = attached
    BY <2>2 DEF Expense
  <2> HIDE DEF new
  <2>5. /\ expenses' \subseteq Expense
        /\ \A x \in expenses' : /\ x.category \in Rows(categories)
                                /\ x.event \in Rows(events) \cup {NoEvent}
                                /\ x.tags \subseteq Rows(tags)
    BY <1>1, <2>1, <2>2, <2>3, <2>4
  <2> QED
    BY <1>1, <2>1, <2>5, UsersChange
<1>6. ASSUME NEW x \in expenses, DeleteExpense(x) PROVE IInv'
  <2>1. expenses' \subseteq expenses /\ UNCHANGED <<tables, mapping, arriving, meta, version>>
    BY <1>6 DEF DeleteExpense
  <2> QED
    BY <1>1, <2>1, UsersChange
<1>7. ASSUME NEW es \in SUBSET EventIds, NEW ts \in SUBSET TagIds, ReloadMapping(es, ts) PROVE IInv'
  <2>1. /\ mapping' \in [events: SUBSET EventIds, tags: SUBSET TagIds]
        /\ mapping'.events \subseteq Rows(events) /\ mapping'.tags \subseteq Rows(tags)
        /\ UNCHANGED <<tables, expenses, arriving, meta, version>>
    BY <1>7 DEF ReloadMapping
  <2> QED
    BY <1>1, <2>1, UsersChange
<1> QED
  BY <1>2, <1>3, <1>4, <1>5, <1>6, <1>7 DEF Ingest

\* The groups a start adds have ids after those of the others and codes of templates.
LEMMA NewGroupsTyped ==
    ASSUME NEW codes \in SUBSET GroupCodes, NEW first \in Nat \ {0}
    PROVE  LET new == NewGroups(codes, first)
           IN  /\ DOMAIN new \subseteq Nat /\ \A g \in DOMAIN new : first <= g
               /\ \A g \in DOMAIN new : [code |-> new[g], name |-> new[g], active |-> TRUE] \in GroupRow
<1>1. IsFiniteSet(codes) /\ Cardinality(codes) \in Nat
  BY CodesAssumption, FS_Subset, FS_CardinalityType
<1> DEFINE new == NewGroups(codes, first)
<1>2. new \in [first..(first + Cardinality(codes) - 1) -> codes]
  BY <1>1, NumbersGiven
<1> HIDE DEF new
<1>3. /\ DOMAIN new \subseteq Nat /\ \A g \in DOMAIN new : first <= g
      /\ \A g \in DOMAIN new : new[g] \in GroupCodes
  BY <1>1, <1>2
<1>4. \A g \in DOMAIN new : [code |-> new[g], name |-> new[g], active |-> TRUE] \in GroupRow
  BY <1>3, CodesAssumption DEF GroupRow
<1> QED
  BY <1>3, <1>4 DEF new

LEMMA ReconciledRow ==
    ASSUME IInv, NEW r, r.vocabulary \subseteq Codes, NEW k \in Codes
    PROVE  /\ Reconciled(k, r) \in CategoryRow \cup {NoRow}
           /\ k \in Rows(categories) \cup r.vocabulary => Reconciled(k, r) # NoRow
           /\ Reconciled(k, r) # NoRow => Reconciled(k, r).group \in Rows(groups) \cup {NoGroup}
           /\ k \in Rows(categories) => /\ categories[k] \in CategoryRow
                                        /\ Reconciled(k, r).group = categories[k].group
                                        /\ Reconciled(k, r).hidden = categories[k].hidden
<1>1. /\ categories \in [Codes -> CategoryRow \cup {NoRow}] /\ NoRow \notin CategoryRow
      /\ k \in Rows(categories) => /\ categories[k] \in CategoryRow
                                   /\ categories[k].group \in Rows(groups) \cup {NoGroup}
      /\ k \in Rows(categories) <=> categories[k] # NoRow
  BY RowsTyped, Basics DEF IInv, TypeOK, NoDangling, Rows
<1>2. FreshCategory(k) \in CategoryRow /\ FreshCategory(k).group = NoGroup
  <2>1. (CHOOSE n \in Labels : TRUE) \in Labels
    BY CodesAssumption
  <2> QED
    BY <2>1 DEF FreshCategory, CategoryRow
<1>3. CASE k \in r.vocabulary /\ categories[k] = NoRow
  <2>1. Reconciled(k, r) = FreshCategory(k)
    BY <1>3 DEF Reconciled, Vanished
  <2> QED
    BY <1>1, <1>2, <1>3, <2>1
<1>4. CASE k \in r.vocabulary /\ categories[k] # NoRow
  <2>1. Reconciled(k, r) = [categories[k] EXCEPT !.retired = FALSE]
    BY <1>4 DEF Reconciled, Vanished
  <2> QED
    BY <1>1, <1>4, <2>1 DEF CategoryRow
<1>5. CASE k \notin r.vocabulary /\ k \in Vanished(r)
  <2>1. Reconciled(k, r) = [categories[k] EXCEPT !.active = FALSE, !.retired = TRUE]
    BY <1>5 DEF Reconciled
  <2>2. k \in Rows(categories)
    BY <1>5 DEF Vanished
  <2> QED
    BY <1>1, <2>1, <2>2 DEF CategoryRow
<1>6. CASE k \notin r.vocabulary /\ k \notin Vanished(r)
  <2>1. Reconciled(k, r) = categories[k]
    BY <1>6 DEF Reconciled
  <2> QED
    BY <1>1, <1>6, <2>1
<1> QED
  BY <1>3, <1>4, <1>5, <1>6

LEMMA BootStep ==
    ASSUME IInv, Boot
    PROVE  IInv'
<1> DEFINE r == Releases[boots + 1]
           new == NewGroups(Missing(r), NextGroup)
<1>1. boots + 1 \in 0..MaxBoots /\ boots' = boots + 1 /\ r \in Release
  BY ReleasesAssumption, BoundsAssumption DEF Boot, IInv, TypeOK
<1>2. r.vocabulary \subseteq Codes /\ r.templates \subseteq DOMAIN Templates
  BY <1>1 DEF Release, Codes
<1>3. Missing(r) \in SUBSET GroupCodes
  BY <1>2, TemplatesAssumption DEF Missing, Template
<1>4. /\ DOMAIN new \subseteq Nat /\ \A g \in DOMAIN new : NextGroup <= g
      /\ \A g \in DOMAIN new : [code |-> new[g], name |-> new[g], active |-> TRUE] \in GroupRow
  BY <1>3, NewGroupsTyped, NextGroupNew DEF IInv
<1>5. groups' = [g \in GroupIds |->
               IF g \in DOMAIN new
               THEN [code |-> new[g], name |-> new[g], active |-> TRUE] ELSE groups[g]]
  BY DEF Boot, Reseed
<1>6. categories' = [k \in Codes |-> Reconciled(k, r)]
  BY DEF Boot, Reseed
<1> HIDE DEF new
<1>7. groups \in [GroupIds -> GroupRow \cup {NoRow}] /\ NoRow \notin GroupRow
  BY Basics DEF IInv, TypeOK
<1>8. /\ groups' \in [GroupIds -> GroupRow \cup {NoRow}]
      /\ \A g \in Rows(groups) : groups'[g] # NoRow
  BY <1>4, <1>5, <1>7 DEF Rows
<1> HIDE DEF r
<1>9. /\ categories' \in [Codes -> CategoryRow \cup {NoRow}]
      /\ \A k \in Rows(categories) : categories'[k] # NoRow
      /\ \A k \in r.vocabulary : k \in Codes /\ categories'[k] # NoRow
      /\ \A k \in Codes : categories'[k] # NoRow =>
             categories'[k].group \in Rows(groups) \cup {NoGroup}
  BY <1>2, <1>6, ReconciledRow, RowsTyped DEF IInv
<1>10. /\ template' \in DOMAIN Templates \cup {NoTemplate} /\ version' = version
       /\ arriving' = [k \in Codes |-> "no"]
       /\ UNCHANGED <<events, tags, lastEvent, lastTag, expenses, mapping>>
  BY DEF Boot, Surviving, IInv, TypeOK
<1>11. version' \in Nat
  BY <1>10 DEF IInv, TypeOK
<1>12. arriving' \in [Codes -> {"no", "activate", "insert"}]
       /\ \A k \in Codes : arriving'[k] # "no" => k \in Rows(categories)
  BY <1>10
<1>13. Releases[boots'] = r /\ boots' \in 0..MaxBoots
  BY <1>1 DEF r
<1> QED
  BY <1>8, <1>9, <1>10, <1>11, <1>12, <1>13, CategoriesChange

LEMMA InitIInv ==
    ASSUME Init
    PROVE  IInv
<1> DEFINE r == Releases[0]
           all == UNION {Templates[t].groups : t \in r.templates}
           first == NewGroups(all, 1)
<1>1. r \in Release /\ 0 \in 0..MaxBoots
  BY ReleasesAssumption, BoundsAssumption
<1>2. r.vocabulary \subseteq Codes /\ r.templates \subseteq DOMAIN Templates
  BY <1>1 DEF Release, Codes
<1>3. all \in SUBSET GroupCodes
  BY <1>2, TemplatesAssumption DEF Template
<1>4. \A g \in DOMAIN first : [code |-> first[g], name |-> first[g], active |-> TRUE] \in GroupRow
  BY <1>3, NewGroupsTyped
<1>5. groups = [g \in GroupIds |->
               IF g \in DOMAIN first
               THEN [code |-> first[g], name |-> first[g], active |-> TRUE] ELSE NoRow]
  BY DEF Init
<1> HIDE DEF first
<1>6. groups \in [GroupIds -> GroupRow \cup {NoRow}]
  BY <1>4, <1>5
<1>7. \A k \in Codes : FreshCategory(k) \in CategoryRow /\ FreshCategory(k).group = NoGroup
  <2>1. (CHOOSE n \in Labels : TRUE) \in Labels
    BY CodesAssumption
  <2> QED
    BY <2>1 DEF FreshCategory, CategoryRow
<1>8. categories = [k \in Codes |-> IF k \in r.vocabulary THEN FreshCategory(k) ELSE NoRow]
  BY DEF Init
<1>9. categories \in [Codes -> CategoryRow \cup {NoRow}]
  BY <1>7, <1>8
<1>10. /\ events = [e \in EventIds |-> NoRow] /\ tags = [t \in TagIds |-> NoRow]
       /\ lastEvent = 0 /\ lastTag = 0 /\ expenses = {} /\ mapping = [events |-> {}, tags |-> {}]
       /\ version = 1 /\ template = NoTemplate /\ boots = 0 /\ arriving = [k \in Codes |-> "no"]
  BY DEF Init
<1>11. TypeOK
  BY <1>1, <1>6, <1>9, <1>10, BoundsAssumption DEF TypeOK
<1>12. /\ Rows(events) = {} /\ Rows(tags) = {}
       /\ \A k \in Rows(categories) : k \in Codes /\ categories[k].group = NoGroup
       /\ r.vocabulary \subseteq Rows(categories)
  <2>1. NoRow \notin CategoryRow
    BY Basics
  <2> QED
    BY <1>2, <1>7, <1>8, <1>10, <2>1 DEF Rows
<1>13. NoDangling
  BY <1>10, <1>12 DEF NoDangling
<1>14. VocabularyThere /\ ArrivingFound /\ NamesUnique
  BY <1>10, <1>12 DEF VocabularyThere, ArrivingFound, NamesUnique, Deployed
<1> QED
  BY <1>11, <1>13, <1>14 DEF IInv
-----------------------------------------------------------------------------
(* Every step. *)

LEMMA GroupWriteIInv ==
    ASSUME IInv, GroupWrite
    PROVE  IInv'
<1>1. PICK g \in GroupIds, row \in GroupRow \cup {NoRow} :
              /\ groups' = [groups EXCEPT ![g] = row]
              /\ groups[g] # NoRow /\ row = NoRow => Children(g) = {}
              /\ UNCHANGED <<categories, events, tags, lastEvent, lastTag>> /\ CommitWithBump
  BY GroupWritten
<1>2. groups \in [GroupIds -> GroupRow \cup {NoRow}]
  BY DEF IInv, TypeOK
<1>3. groups' \in [GroupIds -> GroupRow \cup {NoRow}]
  BY <1>1, <1>2
<1>4. \A h \in Rows(groups) : groups'[h] # NoRow \/ Children(h) = {}
  BY <1>1, <1>2 DEF Rows
<1>5. version' \in Nat /\ UNCHANGED <<users, meta>>
  BY <1>1, Commits
<1> QED
  BY <1>1, <1>3, <1>4, <1>5, GroupsChange

LEMMA EventWriteIInv ==
    ASSUME IInv, EventWrite
    PROVE  IInv'
<1>1. PICK e \in EventIds, row \in EventRow \cup {NoRow} : EventWritten(e, row)
  BY EventWriteStep
<1>2. lastEvent' \in 0..MaxEvents /\ UNCHANGED <<groups, categories, tags, lastTag>> /\ CommitWithBump
  BY EventWriteStep
<1>3. events \in [EventIds -> EventRow \cup {NoRow}] /\ events' = [events EXCEPT ![e] = row]
      /\ Rows(events) = {f \in EventIds : events[f] # NoRow}
  BY <1>1 DEF IInv, TypeOK, EventWritten, Rows
<1>4. events' \in [EventIds -> EventRow \cup {NoRow}]
  BY <1>3
<1>5. \A f \in Rows(events) : events'[f] # NoRow \/ ~EventUsed(f)
  BY <1>1, <1>3 DEF EventWritten
<1>6. \A f \in EventIds : events'[f] # NoRow => events'[f].tags \subseteq Rows(tags)
  BY <1>1, <1>3 DEF EventWritten, IInv, NoDangling
<1>7. \A f, h \in EventIds : events'[f] # NoRow /\ events'[h] # NoRow
                                /\ events'[f].name = events'[h].name => f = h
  BY <1>1, <1>3 DEF EventWritten, IInv, NamesUnique
<1>8. version' \in Nat /\ UNCHANGED <<users, meta>>
  BY <1>2, Commits
<1> QED
  BY <1>2, <1>4, <1>5, <1>6, <1>7, <1>8, EventsChange

LEMMA TagWriteIInv ==
    ASSUME IInv, TagWrite
    PROVE  IInv'
<1>1. PICK t \in TagIds, row \in TagRow \cup {NoRow} : TagWritten(t, row)
  BY TagWriteStep
<1>2. lastTag' \in 0..MaxTags /\ UNCHANGED <<groups, categories, events, lastEvent>> /\ CommitWithBump
  BY TagWriteStep
<1>3. tags \in [TagIds -> TagRow \cup {NoRow}] /\ tags' = [tags EXCEPT ![t] = row]
      /\ Rows(tags) = {u \in TagIds : tags[u] # NoRow}
  BY <1>1 DEF IInv, TypeOK, TagWritten, Rows
<1>4. tags' \in [TagIds -> TagRow \cup {NoRow}]
  BY <1>3
<1>5. \A u \in Rows(tags) : tags'[u] # NoRow \/ ~TagUsed(u)
  BY <1>1, <1>3 DEF TagWritten
<1>6. \A u, w \in TagIds : tags'[u] # NoRow /\ tags'[w] # NoRow
                              /\ tags'[u].name = tags'[w].name => u = w
  BY <1>1, <1>3 DEF TagWritten, IInv, NamesUnique
<1>7. version' \in Nat /\ UNCHANGED <<users, meta>>
  BY <1>2, Commits
<1> QED
  BY <1>2, <1>4, <1>5, <1>6, <1>7, TagsChange

LEMMA NextIInv ==
    ASSUME IInv, [Next]_dbvars
    PROVE  IInv'
<1>1. CASE UNCHANGED dbvars
  BY <1>1 DEF dbvars, tables, users, meta, IInv, TypeOK, NoDangling, VocabularyThere,
              ArrivingFound, NamesUnique, Rows, Deployed
<1>2. CASE Next
  BY <1>2, GroupWriteIInv, EventWriteIInv, TagWriteIInv, CategoryWriteStep, IngestStep, BootStep DEF Next
<1> QED
  BY <1>1, <1>2

\* The tables are well formed and nothing in them dangles: delete_group, delete_event and
\* delete_tag count every reference that the other handlers make.
THEOREM NothingDangles == Spec => []Consistent
<1>1. Init => IInv
  BY InitIInv
<1>2. IInv /\ [Next]_dbvars => IInv'
  BY NextIInv
<1>3. IInv => Consistent
  BY DEF IInv, Consistent
<1> QED
  BY <1>1, <1>2, <1>3, PTL DEF Spec

-----------------------------------------------------------------------------
(* The version. *)

LEMMA ContentKept ==
    ASSUME UNCHANGED <<groups, categories, events, tags>>
    PROVE  Content' = Content
BY DEF Content, Rows

\* A write of groups that leaves the hash alone leaves the groups alone, codes included.
LEMMA HashedGroups ==
    ASSUME IInv, GroupWrite, Hashed' = Hashed
    PROVE  groups' = groups
<1>1. PICK g \in GroupIds, row \in GroupRow \cup {NoRow} :
              /\ groups' = [groups EXCEPT ![g] = row]
              /\ groups[g] # NoRow /\ row # NoRow => row.code = groups[g].code
  BY GroupWritten
<1>2. /\ groups \in [GroupIds -> GroupRow \cup {NoRow}] /\ groups'[g] = row
      /\ Rows(groups) = {h \in GroupIds : groups[h] # NoRow}
      /\ Rows(groups)' = {h \in GroupIds : groups'[h] # NoRow}
  BY <1>1 DEF IInv, TypeOK, Rows
<1> DEFINE f == [h \in Rows(groups) |-> <<groups[h].name, groups[h].active>>]
<1>3. f' = f
  BY DEF Hashed
<1>4. DOMAIN f = Rows(groups) /\ DOMAIN f' = Rows(groups)'
  OBVIOUS
<1>5. Rows(groups)' = Rows(groups)
  BY <1>3, <1>4
<1>6. CASE g \in Rows(groups)
  <2>1. row # NoRow /\ groups[g] # NoRow /\ row \in GroupRow /\ groups[g] \in GroupRow
    BY <1>1, <1>2, <1>5, <1>6
  <2>2. f[g] = <<groups[g].name, groups[g].active>> /\ f'[g] = <<row.name, row.active>>
    BY <1>2, <1>5, <1>6
  <2> HIDE DEF f
  <2>3. <<row.name, row.active>> = <<groups[g].name, groups[g].active>>
    BY <1>3, <2>2
  <2>4. row = groups[g]
    BY <1>1, <2>1, <2>3 DEF GroupRow
  <2> QED
    BY <1>1, <1>2, <2>4
<1>7. CASE g \notin Rows(groups)
  BY <1>1, <1>2, <1>5, <1>7
<1> QED
  BY <1>6, <1>7

\* The version never counts down, and while the server runs it stays only if the
\* catalog does.
LEMMA VersionStep ==
    ASSUME IInv, [Next]_dbvars
    PROVE  /\ version \in Nat /\ version' \in Nat /\ version <= version'
           /\ version' > version \/ Content' = Content \/ Boot
<1> DEFINE Goal == /\ version \in Nat /\ version' \in Nat /\ version <= version'
                   /\ version' > version \/ Content' = Content \/ Boot
<1>1. version \in Nat
  BY DEF IInv, TypeOK
<1>2. ASSUME CommitWithBump, Hashed' = Hashed => UNCHANGED <<groups, categories, events, tags>> PROVE Goal
  BY <1>2, Commits, ContentKept
<1>3. ASSUME Bump PROVE Goal
  BY <1>1, <1>3, Bumps
<1>4. ASSUME UNCHANGED <<groups, categories, events, tags, version>> PROVE Goal
  BY <1>1, <1>4, ContentKept
<1>5. CASE GroupWrite
  <2>1. CommitWithBump /\ UNCHANGED <<categories, events, tags>>
    BY <1>5, GroupWritten
  <2> QED
    BY <1>2, <1>5, <2>1, HashedGroups
<1>6. CASE EventWrite
  <2>1. CommitWithBump /\ UNCHANGED <<groups, categories, tags>>
    BY <1>6, EventWriteStep
  <2> QED
    BY <1>2, <2>1 DEF Hashed
<1>7. CASE TagWrite
  <2>1. CommitWithBump /\ UNCHANGED <<groups, categories, events>>
    BY <1>7, TagWriteStep
  <2> QED
    BY <1>2, <2>1 DEF Hashed
<1>8. CASE CategoryWrite
  BY <1>3, <1>8, CategoryWriteStep
<1>9. CASE Ingest
  <2>1. ASSUME NEW k \in Codes, ActivateForExpense(k) PROVE Bump
    BY <2>1 DEF ActivateForExpense, Activated
  <2>2. Bump \/ UNCHANGED <<groups, categories, events, tags, version>>
    BY <1>9, <2>1 DEF Ingest, CheckCategory, RefuseExpense, InsertExpense, DeleteExpense,
                      ReloadMapping, tables
  <2> QED
    BY <1>3, <1>4, <2>2
<1>10. CASE Boot
  BY <1>1, <1>10 DEF Boot
<1>11. CASE UNCHANGED dbvars
  BY <1>4, <1>11 DEF dbvars, tables
<1> QED
  BY <1>5, <1>6, <1>7, <1>8, <1>9, <1>10, <1>11 DEF Next

\* Whatever a request changes in the answer of GET /api/catalog moves the version, though
\* the hash that decides it leaves out the codes of the groups and two columns of the
\* categories.
THEOREM VersionTells == Spec => VersionMarks
<1>1. Init => IInv
  BY InitIInv
<1>2. IInv /\ [Next]_dbvars => IInv'
  BY NextIInv
<1>3. IInv /\ [Next]_dbvars => [Content' # Content /\ boots' = boots => version' > version]_dbvars
  <2>1. SUFFICES ASSUME IInv, [Next]_dbvars, Content' # Content, boots' = boots
                 PROVE  version' > version
    OBVIOUS
  <2>2. ~Boot
    BY <2>1 DEF Boot, IInv, TypeOK
  <2> QED
    BY <2>1, <2>2, VersionStep
<1> QED
  BY <1>1, <1>2, <1>3, PTL DEF Spec, VersionMarks
-----------------------------------------------------------------------------
(* What may be hidden or shown. *)

\* A step that writes categories writes one row, and does not deactivate it, or applies
\* a template, or is a start.
LEMMA CategoryEffect ==
    ASSUME IInv, [Next]_dbvars
    PROVE  \/ categories' = categories
           \/ \E k \in Codes, row \in CategoryRow :
                 /\ categories' = [categories EXCEPT ![k] = row]
                 /\ k \in Rows(categories) /\ categories[k].active => row.active
           \/ \E t \in DOMAIN Templates : Apply(t)
           \/ Boot
<1> DEFINE OneRow == \E k \in Codes, row \in CategoryRow :
                 /\ categories' = [categories EXCEPT ![k] = row]
                 /\ k \in Rows(categories) /\ categories[k].active => row.active
<1>1. ASSUME NEW k \in Codes, Activated(k) PROVE OneRow
  <2> DEFINE g == IF categories[k].group = NoGroup THEN PlacedBy(template, k) ELSE categories[k].group
             row == [categories[k] EXCEPT !.group = g, !.active = TRUE, !.hidden = FALSE]
  <2>1. CategoryWritten(k, row) /\ categories[k] \in CategoryRow
    BY <1>1, ActivatedWrites, RowsTyped DEF IInv
  <2>2. row.active
    BY <2>1 DEF CategoryRow
  <2> HIDE DEF row
  <2> QED
    BY <2>1, <2>2 DEF CategoryWritten
<1>3. ASSUME NEW k \in Codes, Hide(k) \/ Unhide(k) PROVE OneRow
  <2>1. k \in Rows(categories) /\ categories[k] \in CategoryRow
    BY <1>3, RowsTyped DEF Hide, Unhide, IInv
  <2>2. PICK b \in BOOLEAN : CategoryWritten(k, [categories[k] EXCEPT !.hidden = b])
    BY <1>3, <2>1, SetWrites
  <2> DEFINE row == [categories[k] EXCEPT !.hidden = b]
  <2>3. categories[k].active => row.active
    BY <2>1 DEF CategoryRow
  <2> HIDE DEF row
  <2> QED
    BY <2>2, <2>3 DEF CategoryWritten, row
<1>4. ASSUME NEW k \in Codes, NEW n \in Labels, Rename(k, n) PROVE OneRow
  <2>1. k \in Rows(categories) /\ categories[k] \in CategoryRow
    BY <1>4, RowsTyped DEF Rename, IInv
  <2> DEFINE row == [categories[k] EXCEPT !.name = n]
  <2>2. CategoryWritten(k, row)
    BY <1>4, <2>1, SetWrites
  <2>3. categories[k].active => row.active
    BY <2>1 DEF CategoryRow
  <2> HIDE DEF row
  <2> QED
    BY <2>2, <2>3 DEF CategoryWritten
<1>5. ASSUME NEW k \in Codes, NEW code \in GroupCodes, Move(k, code) PROVE OneRow
  <2>1. k \in Rows(categories) /\ categories[k] \in CategoryRow
    BY <1>5, RowsTyped DEF Move, IInv
  <2> DEFINE row == [categories[k] EXCEPT !.group = GroupId(code)]
  <2>2. CategoryWritten(k, row)
    BY <1>5, <2>1, SetWrites
  <2>3. categories[k].active => row.active
    BY <2>1 DEF CategoryRow
  <2> HIDE DEF row
  <2> QED
    BY <2>2, <2>3 DEF CategoryWritten
<1>6. ASSUME NEW k \in Codes, NEW n \in Labels, NEW code \in GroupCodes, Create(k, n, code) PROVE OneRow
  BY <1>6, CreateWrites DEF CategoryWritten
<1> HIDE DEF OneRow
<1>7. CASE CategoryWrite
  BY <1>1, <1>3, <1>4, <1>5, <1>6, <1>7 DEF CategoryWrite, Activate, OneRow
<1>8. CASE Ingest
  <2>1. (\E k \in Codes : Activated(k)) \/ categories' = categories
    BY <1>8 DEF Ingest, CheckCategory, ActivateForExpense, RefuseExpense, InsertExpense,
                DeleteExpense, ReloadMapping, tables
  <2> QED
    BY <1>1, <2>1 DEF OneRow
<1>9. CASE GroupWrite \/ EventWrite \/ TagWrite \/ UNCHANGED dbvars
  BY <1>9, GroupWritten, EventWriteStep, TagWriteStep DEF dbvars, tables
<1> QED
  BY <1>7, <1>8, <1>9 DEF Next, OneRow

\* No request deactivates a category that has expenses, the application of a template
\* least of all: only a start that retires the category may.
THEOREM UsedIsSpared == Spec => UsedStaysActive
<1>1. Init => IInv
  BY InitIInv
<1>2. IInv /\ [Next]_dbvars => IInv'
  BY NextIInv
<1>3. IInv /\ [Next]_dbvars =>
          [\A k \in UsedCodes : categories[k].active /\ boots' = boots => categories'[k].active]_dbvars
  <2>1. SUFFICES ASSUME IInv, [Next]_dbvars, boots' = boots,
                        NEW k \in UsedCodes, categories[k].active
                 PROVE  categories'[k].active
    OBVIOUS
  <2>2. k \in Rows(categories) /\ k \in Codes /\ categories[k] \in CategoryRow /\ ~Boot
        /\ categories \in [Codes -> CategoryRow \cup {NoRow}]
    BY <2>1, RowsTyped DEF UsedCodes, IInv, NoDangling, TypeOK, Boot
  <2>3. CASE \E j \in Codes, row \in CategoryRow :
                 /\ categories' = [categories EXCEPT ![j] = row]
                 /\ j \in Rows(categories) /\ categories[j].active => row.active
    BY <2>1, <2>2, <2>3
  <2>4. ASSUME NEW t, Apply(t) PROVE categories'[k].active
    <3>1. categories'[k] = IF k \in Deployed.vocabulary THEN Applied(t, k) ELSE categories[k]
      BY <2>2, <2>4 DEF Apply
    <3>2. Applied(t, k).active
      BY <2>1, <2>2 DEF Applied, CategoryRow
    <3> QED
      BY <2>1, <3>1, <3>2
  <2> QED
    BY <2>1, <2>2, <2>3, <2>4, CategoryEffect
<1> QED
  BY <1>1, <1>2, <1>3, PTL DEF Spec, UsedStaysActive

\* A category the user hid is shown again only by a request that names it, or by an expense
\* that found it not hidden; no template and no start does it.
THEOREM HiddenStays == Spec => HiddenSticky
<1>1. Init => IInv
  BY InitIInv
<1>2. IInv /\ [Next]_dbvars => IInv'
  BY NextIInv
<1>3. IInv /\ [Next]_dbvars =>
          [\A k \in Rows(categories) : categories[k].hidden /\ ~categories'[k].hidden
              => arriving[k] = "activate" \/ (\A j \in Codes \ {k} : categories'[j] = categories[j])]_dbvars
  <2>1. SUFFICES ASSUME IInv, [Next]_dbvars, NEW k \in Rows(categories),
                        categories[k].hidden, ~categories'[k].hidden
                 PROVE  \A j \in Codes \ {k} : categories'[j] = categories[j]
    OBVIOUS
  <2>2. k \in Codes /\ categories[k] \in CategoryRow
        /\ categories \in [Codes -> CategoryRow \cup {NoRow}]
    BY <2>1, RowsTyped DEF IInv, TypeOK
  <2>3. ASSUME NEW t, Apply(t) PROVE FALSE
    <3>1. categories'[k] = IF k \in Deployed.vocabulary THEN Applied(t, k) ELSE categories[k]
      BY <2>2, <2>3 DEF Apply
    <3>2. Applied(t, k).hidden
      BY <2>1, <2>2 DEF Applied, CategoryRow
    <3> QED
      BY <2>1, <3>1, <3>2
  <2>4. ASSUME Boot PROVE FALSE
    <3>1. boots + 1 \in 0..MaxBoots
      BY <2>1, <2>4, BoundsAssumption DEF Boot, IInv, TypeOK
    <3> DEFINE r == Releases[boots + 1]
    <3>2. r.vocabulary \subseteq Codes /\ categories'[k] = Reconciled(k, r)
      BY <2>2, <2>4, <3>1, ReleasesAssumption DEF Boot, Reseed, Release, Codes
    <3> HIDE DEF r
    <3> QED
      BY <2>1, <2>2, <3>2, ReconciledRow
  <2> QED
    BY <2>1, <2>2, <2>3, <2>4, CategoryEffect
<1> QED
  BY <1>1, <1>2, <1>3, PTL DEF Spec, HiddenSticky
-----------------------------------------------------------------------------
(* The device. *)

\* What the GET in progress is going to show, once it has read the categories.
Fetched == IF fetch.at = "answered" THEN fetch.shown
           ELSE [groups |-> fetch.groups, categories |-> fetch.categories,
                 events |-> events, tags |-> tags]
Fetching == fetch.at \in {"categories", "answered"}

\* What the answer to request r, carried out on row, is if the catalog is c.
Ideal(r, row, gone, c) == [req |-> r, row |-> row, gone |-> gone, shown |-> Shown(c, r, row)]

\* The patch of snapshot s for the request that was served gives catalog c, if the answer
\* shows it; or it is the one request whose patch does not.
MendsTo(s, answer, c) ==
    \/ Unplaced(s, answer)
    \/ Patch(s, Ideal(answer.req, answer.row, answer.gone, c)) = c

\* The versions a device has come from the server.
VersionsKnown ==
    /\ cver \in Nat /\ cver <= version
    /\ Fetching \/ fetch.at = "version" => fetch.ver \in Nat /\ fetch.ver <= version
    /\ call.at # "none" => call.req \in Request
    /\ call.at \in {"served", "answered"} =>
           /\ call.base \in Nat /\ call.own \in Nat /\ call.base <= call.own /\ call.own <= version
    /\ call.at = "answered" => call.ver \in Nat /\ call.own <= call.ver /\ call.ver <= version

\* As long as the version is the one that was read, what was read is what there is.
FetchTrue == Fetching /\ fetch.ver = version => Fetched = Content
AnswerTrue ==
    call.at = "answered" /\ call.ver = version => call.shown = Shown(Content, call.req, call.row)

\* As long as the version is the one the request left, its patch mends every copy of the
\* catalog as it was before or is after: the snapshot, and what the GET is going to bring.
PatchTrue ==
    call.at \in {"served", "answered"} /\ call.own = version =>
        /\ MendsTo(Content, call, Content)
        /\ cver = call.base /\ ~missed => MendsTo(snap, call, Content)
        /\ Fetching /\ fetch.ver = call.base => MendsTo(Fetched, call, Content)

CInv == /\ IInv /\ VersionsKnown /\ FetchTrue /\ AnswerTrue /\ PatchTrue
        /\ CurrentUnlessMissed

\* The requests of categories, but the application of a template.
CategoryOps == {"activate", "hide", "unhide", "rename", "move", "create"}

\* The parts of a request, by its operation.
LEMMA RequestTyped ==
    ASSUME NEW r \in Request
    PROVE  /\ r.op = "add_event" => r.id \in EventNames /\ r.arg \in SUBSET TagIds
           /\ r.op = "add_tag" => r.id \in TagNames
           /\ r.op \in {"name_event", "tag_event", "set_event", "delete_event"} => r.id \in EventIds
           /\ r.op = "name_event" => r.arg \in EventNames
           /\ r.op = "tag_event" => r.arg \in SUBSET TagIds
           /\ r.op \in {"name_tag", "set_tag", "delete_tag"} => r.id \in TagIds
           /\ r.op = "name_tag" => r.arg \in TagNames
           /\ r.op \in {"set_event", "set_tag"} => r.arg \in BOOLEAN
           /\ r.op \in {"activate", "hide", "unhide", "rename", "move"} => r.id \in Codes
           /\ r.op = "rename" => r.arg \in Labels
           /\ r.op = "create" => r.id \in Labels
           /\ r.op \in {"move", "create"} => r.arg \in GroupCodes
           /\ r.op = "apply" => r.id \in DOMAIN Templates
           /\ r.op \in EventOps \cup TagOps \cup CategoryOps \cup {"apply"}
BY DEF Request, EventOps, TagOps, CategoryOps

\* The answer of a request, taken apart.
LEMMA IdealParts ==
    ASSUME NEW r, NEW row, NEW gone, NEW c
    PROVE  LET a == Ideal(r, row, gone, c)
           IN  /\ a.req = r /\ a.row = row /\ a.gone = gone
               /\ r.op \in Makers => a.shown = RowIn(c, r, row)
               /\ r.op = "apply" => a.shown = c
BY DEF Ideal, Shown, Makers

\* The row of a request, and the table its patch is about.
LEMMA RowInParts ==
    ASSUME NEW c, NEW r, NEW row
    PROVE  /\ r.op \in EventOps => RowIn(c, r, row) = c.events[row]
           /\ r.op \in TagOps => RowIn(c, r, row) = c.tags[row]
           /\ r.op \in CategoryOps => RowIn(c, r, row) = c.categories[row]
<1>1. CASE r.op \in EventOps
  BY <1>1 DEF RowIn, EventOps, TagOps, CategoryOps
<1>2. CASE r.op \in TagOps
  BY <1>2 DEF RowIn, EventOps, TagOps, CategoryOps
<1>3. CASE r.op \in CategoryOps
  BY <1>3 DEF RowIn, EventOps, TagOps, CategoryOps
<1> QED
  BY <1>1, <1>2, <1>3

LEMMA PatchParts ==
    ASSUME NEW s, NEW a
    PROVE  /\ a.req.op \in EventOps => Patch(s, a) =
                  [s EXCEPT !.events[a.row] = PatchRow(s, a.req, s.events[a.row], a)]
           /\ a.req.op \in TagOps => Patch(s, a) =
                  [s EXCEPT !.tags[a.row] = PatchRow(s, a.req, s.tags[a.row], a)]
           /\ a.req.op \in CategoryOps => Patch(s, a) =
                  [s EXCEPT !.categories[a.row] = PatchRow(s, a.req, s.categories[a.row], a)]
           /\ a.req.op = "apply" => Patch(s, a) = a.shown
<1> DEFINE new == PatchRow(s, a.req, RowIn(s, a.req, a.row), a)
<1>1. Patch(s, a) = CASE a.req.op = "apply" -> a.shown
                      [] a.req.op \in EventOps -> [s EXCEPT !.events[a.row] = new]
                      [] a.req.op \in TagOps -> [s EXCEPT !.tags[a.row] = new]
                      [] OTHER -> [s EXCEPT !.categories[a.row] = new]
  BY DEF Patch
<1>2. /\ a.req.op \in EventOps => new = PatchRow(s, a.req, s.events[a.row], a)
      /\ a.req.op \in TagOps => new = PatchRow(s, a.req, s.tags[a.row], a)
      /\ a.req.op \in CategoryOps => new = PatchRow(s, a.req, s.categories[a.row], a)
  BY RowInParts
<1> HIDE DEF new
<1>3. a.req.op \in EventOps => Patch(s, a) = [s EXCEPT !.events[a.row] = new]
  BY <1>1 DEF EventOps, TagOps, CategoryOps
<1>4. a.req.op \in TagOps => Patch(s, a) = [s EXCEPT !.tags[a.row] = new]
  BY <1>1 DEF EventOps, TagOps, CategoryOps
<1>5. a.req.op \in CategoryOps => Patch(s, a) = [s EXCEPT !.categories[a.row] = new]
  BY <1>1 DEF EventOps, TagOps, CategoryOps
<1>6. a.req.op = "apply" => Patch(s, a) = a.shown
  BY <1>1 DEF EventOps, TagOps, CategoryOps
<1> QED
  BY <1>2, <1>3, <1>4, <1>5, <1>6

\* A copy from before or after a write of one event gives the catalog with the new row.
LEMMA EventPatched ==
    ASSUME IInv, NEW row \in EventIds, events' = [events EXCEPT ![row] = events'[row]],
           UNCHANGED <<groups, categories, tags>>, NEW s \in {Content, Content'}
    PROVE  /\ [s EXCEPT !.events[row] = events'[row]] = Content'
           /\ s.events[row] \in {events[row], events'[row]}
<1>1. events \in [EventIds -> EventRow \cup {NoRow}]
  BY DEF IInv, TypeOK
<1> DEFINE cats == Content.categories
<1>2. Content = [groups |-> groups, events |-> events, tags |-> tags, categories |-> cats]
  BY DEF Content
<1>3. Content' = [groups |-> groups, events |-> events', tags |-> tags, categories |-> cats]
  BY DEF Content, Rows
<1>4. [events EXCEPT ![row] = events'[row]] = events' /\ [events' EXCEPT ![row] = events'[row]] = events'
  <2>1. events' = [i \in EventIds |-> IF i = row THEN events'[row] ELSE events[i]]
    BY <1>1
  <2> QED
    BY <2>1
<1> HIDE DEF cats
<1>5. [s EXCEPT !.events[row] = events'[row]] = Content'
  BY <1>2, <1>3, <1>4
<1> QED
  BY <1>2, <1>3, <1>5

LEMMA TagPatched ==
    ASSUME IInv, NEW row \in TagIds, tags' = [tags EXCEPT ![row] = tags'[row]],
           UNCHANGED <<groups, categories, events>>, NEW s \in {Content, Content'}
    PROVE  /\ [s EXCEPT !.tags[row] = tags'[row]] = Content'
           /\ s.tags[row] \in {tags[row], tags'[row]}
<1>1. tags \in [TagIds -> TagRow \cup {NoRow}]
  BY DEF IInv, TypeOK
<1> DEFINE cats == Content.categories
<1>2. Content = [groups |-> groups, events |-> events, tags |-> tags, categories |-> cats]
  BY DEF Content
<1>3. Content' = [groups |-> groups, events |-> events, tags |-> tags', categories |-> cats]
  BY DEF Content, Rows
<1>4. [tags EXCEPT ![row] = tags'[row]] = tags' /\ [tags' EXCEPT ![row] = tags'[row]] = tags'
  <2>1. tags' = [i \in TagIds |-> IF i = row THEN tags'[row] ELSE tags[i]]
    BY <1>1
  <2> QED
    BY <2>1
<1> HIDE DEF cats
<1>5. [s EXCEPT !.tags[row] = tags'[row]] = Content'
  BY <1>2, <1>3, <1>4
<1> QED
  BY <1>2, <1>3, <1>5

\* The same for a category, as far as GET /api/catalog shows it.
LEMMA CategoryPatched ==
    ASSUME IInv, NEW row \in Codes, NEW x, categories' = [categories EXCEPT ![row] = x],
           UNCHANGED <<groups, events, tags>>, NEW s \in {Content, Content'}
    PROVE  /\ [s EXCEPT !.categories[row] = Content'.categories[row]] = Content'
           /\ s.categories[row] \in {Content.categories[row], Content'.categories[row]}
           /\ s.groups = groups
<1> DEFINE cats == Content.categories
           new == Content'.categories
<1>1. /\ Content = [groups |-> groups, events |-> events, tags |-> tags, categories |-> cats]
      /\ Content' = [groups |-> groups, events |-> events, tags |-> tags, categories |-> new]
  BY DEF Content
<1>2. /\ cats = [k \in Codes |-> IF k \in Rows(categories) /\ categories[k].group \in Rows(groups)
                                 THEN categories[k] ELSE NoRow]
      /\ new = [k \in Codes |-> IF k \in Rows(categories') /\ categories'[k].group \in Rows(groups)
                                THEN categories'[k] ELSE NoRow]
  BY DEF Content, Rows
<1>3. \A k \in Codes \ {row} : new[k] = cats[k]
  BY <1>2 DEF Rows, IInv, TypeOK
<1>4. DOMAIN cats = Codes /\ DOMAIN new = Codes
  BY <1>2
<1>5. /\ new = [k \in DOMAIN new |-> new[k]] /\ cats = [k \in DOMAIN cats |-> cats[k]]
  BY <1>2
<1> HIDE DEF cats, new
<1>6. [cats EXCEPT ![row] = new[row]] = new /\ [new EXCEPT ![row] = new[row]] = new
  BY <1>3, <1>4, <1>5
<1> QED
  BY <1>1, <1>6

\* A request of events, carried out on row: its patch of a copy gives the catalog.
LEMMA EventRequest ==
    ASSUME IInv, IInv', NEW r \in Request, NEW row, r.op \in EventOps, HandleEvent(r, row),
           NEW gone, r.op = "delete_event" => gone = (events'[row] = NoRow),
           NEW s \in {Content, Content'}
    PROVE  Patch(s, Ideal(r, row, gone, Content')) = Content'
<1> DEFINE a == Ideal(r, row, gone, Content')
           new == PatchRow(s, r, s.events[row], a)
<1>1. /\ events \in [EventIds -> EventRow \cup {NoRow}] /\ NoRow \notin EventRow
      /\ Rows(events) = {e \in EventIds : events[e] # NoRow}
      /\ Rows(events)' = {e \in EventIds : events'[e] # NoRow}
  BY Basics DEF IInv, TypeOK, Rows
<1>2. /\ a.req = r /\ a.row = row /\ a.gone = gone
      /\ r.op = "add_event" => a.shown = events'[row]
  <2>1. Content'.events = events'
    BY DEF Content
  <2>2. RowIn(Content', r, row) = events'[row]
    BY <2>1, RowInParts
  <2> QED
    BY <2>2, IdealParts DEF Makers
<1> HIDE DEF a
<1> DEFINE Result == /\ row \in EventIds /\ events' = [events EXCEPT ![row] = events'[row]]
                     /\ UNCHANGED <<groups, categories, tags>>
                     /\ s.events[row] \in {events[row], events'[row]} => new = events'[row]
<1>3. ASSUME r.op = "add_event" PROVE Result
  <2>1. AddEvent(r.id, r.arg) /\ row \in Named(events', r.id)
    BY <1>3 DEF HandleEvent
  <2>2. r.id \in EventNames /\ r.arg \in SUBSET TagIds
    BY <1>3, RequestTyped
  <2>3. PICK e \in EventIds, x \in EventRow : EventWritten(e, x) /\ x.name = r.id
    BY <2>1, <2>2, AddEventWrites
  <2>4. events' = [events EXCEPT ![e] = x] /\ events'[e] = x
    BY <1>1, <2>3 DEF EventWritten
  <2>5. e \in Rows(events)' /\ row \in Rows(events)' /\ events'[row].name = r.id /\ events'[e].name = r.id
    BY <1>1, <2>1, <2>3, <2>4 DEF Named, Rows
  <2>6. row = e
    BY <2>5 DEF IInv, NamesUnique
  <2>7. UNCHANGED <<groups, categories, tags>>
    BY <2>1 DEF AddEvent
  <2>8. new = events'[row]
    BY <1>2, <1>3 DEF PatchRow, Makers
  <2> QED
    BY <2>4, <2>6, <2>7, <2>8
<1>4. ASSUME r.op \in {"name_event", "tag_event", "set_event"} PROVE Result
  <2> DEFINE n == IF r.op = "name_event" THEN r.arg ELSE Same
             ts == IF r.op = "tag_event" THEN r.arg ELSE Same
             b == IF r.op = "set_event" THEN r.arg ELSE Same
             x == [events[row] EXCEPT !.name = Patched(events[row].name, n),
                                      !.tags = Patched(events[row].tags, ts),
                                      !.active = Patched(events[row].active, b)]
  <2>1. EditEvent(row, n, ts, b)
    BY <1>4 DEF HandleEvent
  <2>2. /\ n \in EventNames \cup {Same} /\ ts \in (SUBSET TagIds) \cup {Same} /\ b \in BOOLEAN \cup {Same}
        /\ r.arg # Same
    BY <1>4, RequestTyped, NullsAssumption
  <2>3. row \in Rows(events) /\ events[row] \in EventRow /\ x \in EventRow /\ EventWritten(row, x)
    BY <2>1, <2>2, EditEventWrites
  <2>4. row \in EventIds /\ events' = [events EXCEPT ![row] = x] /\ events'[row] = x
    BY <1>1, <2>3 DEF EventWritten
  <2>5. UNCHANGED <<groups, categories, tags>>
    BY <2>1 DEF EditEvent
  <2>6. x = CASE r.op = "name_event" -> [events[row] EXCEPT !.name = r.arg]
              [] r.op = "tag_event" -> [events[row] EXCEPT !.tags = r.arg]
              [] r.op = "set_event" -> [events[row] EXCEPT !.active = r.arg]
    BY <1>4, <2>2, <2>3 DEF Patched, EventRow
  <2> HIDE DEF x, n, ts, b
  <2>7. ASSUME NEW old \in {events[row], events'[row]}
        PROVE  PatchRow(s, r, old, a) = events'[row]
    <3>1. old \in EventRow /\ old # NoRow /\ r.op \notin Makers
      BY <1>1, <1>4, <2>3, <2>4 DEF Makers
    <3>2. CASE r.op = "name_event"
      <4>1. PatchRow(s, r, old, a) = [old EXCEPT !.name = r.arg]
        BY <3>1, <3>2 DEF PatchRow
      <4> QED
        BY <2>3, <2>4, <2>6, <3>1, <3>2, <4>1 DEF EventRow
    <3>3. CASE r.op = "tag_event"
      <4>1. PatchRow(s, r, old, a) = [old EXCEPT !.tags = r.arg]
        BY <3>1, <3>3 DEF PatchRow
      <4> QED
        BY <2>3, <2>4, <2>6, <3>1, <3>3, <4>1 DEF EventRow
    <3>4. CASE r.op = "set_event"
      <4>1. PatchRow(s, r, old, a) = [old EXCEPT !.active = r.arg]
        BY <3>1, <3>4 DEF PatchRow
      <4> QED
        BY <2>3, <2>4, <2>6, <3>1, <3>4, <4>1 DEF EventRow
    <3> QED
      BY <1>4, <3>2, <3>3, <3>4
  <2> QED
    BY <2>4, <2>5, <2>7
<1>5. ASSUME r.op = "delete_event" PROVE Result
  <2>1. DeleteEvent(row)
    BY <1>5 DEF HandleEvent
  <2> DEFINE x == IF EventUsed(row) THEN [events[row] EXCEPT !.active = FALSE] ELSE NoRow
  <2>2. row \in EventIds /\ events[row] \in EventRow
    BY <2>1, RowsTyped DEF DeleteEvent, IInv
  <2>3. events' = [events EXCEPT ![row] = x] /\ events'[row] = x
    BY <1>1, <2>1, <2>2 DEF DeleteEvent
  <2>4. UNCHANGED <<groups, categories, tags>>
    BY <2>1 DEF DeleteEvent
  <2>5. x # NoRow => x = [events[row] EXCEPT !.active = FALSE]
    BY <1>1, <2>2 DEF EventRow
  <2> HIDE DEF x
  <2>6. ASSUME NEW old \in {events[row], events'[row]}
        PROVE  PatchRow(s, r, old, a) = events'[row]
    <3>1. gone = (x = NoRow)
      BY <1>5, <2>3
    <3>2. CASE old = NoRow
      BY <1>1, <1>5, <2>2, <2>3, <3>2 DEF PatchRow, Makers
    <3>3. CASE old # NoRow
      <4>1. PatchRow(s, r, old, a) = IF gone THEN NoRow ELSE [old EXCEPT !.active = FALSE]
        BY <1>2, <1>5, <3>3 DEF PatchRow, Makers
      <4>2. CASE x = NoRow
        BY <2>3, <3>1, <4>1, <4>2
      <4>3. CASE x # NoRow
        <5>1. x = [events[row] EXCEPT !.active = FALSE] /\ old \in {events[row], x}
          BY <2>3, <2>5, <4>3
        <5>2. [old EXCEPT !.active = FALSE] = x
          BY <2>2, <5>1 DEF EventRow
        <5> QED
          BY <2>3, <3>1, <4>1, <4>3, <5>2
      <4> QED
        BY <4>2, <4>3
    <3> QED
      BY <3>2, <3>3
  <2> QED
    BY <2>2, <2>3, <2>4, <2>6
<1> HIDE DEF new
<1>6. Result
  BY <1>3, <1>4, <1>5 DEF EventOps
<1>7. /\ [s EXCEPT !.events[row] = events'[row]] = Content'
      /\ s.events[row] \in {events[row], events'[row]}
  BY <1>6, EventPatched
<1>8. Patch(s, a) = [s EXCEPT !.events[row] = new]
  BY <1>2, PatchParts DEF new
<1>9. Patch(s, a) = Content'
  BY <1>6, <1>7, <1>8
<1> QED
  BY <1>9 DEF a

\* The same for a request of tags.
LEMMA TagRequest ==
    ASSUME IInv, IInv', NEW r \in Request, NEW row, r.op \in TagOps, HandleEvent(r, row),
           NEW gone, r.op = "delete_tag" => gone = (tags'[row] = NoRow),
           NEW s \in {Content, Content'}
    PROVE  Patch(s, Ideal(r, row, gone, Content')) = Content'
<1> DEFINE a == Ideal(r, row, gone, Content')
           new == PatchRow(s, r, s.tags[row], a)
<1>1. /\ tags \in [TagIds -> TagRow \cup {NoRow}] /\ NoRow \notin TagRow
      /\ Rows(tags) = {t \in TagIds : tags[t] # NoRow}
      /\ Rows(tags)' = {t \in TagIds : tags'[t] # NoRow}
  BY Basics DEF IInv, TypeOK, Rows
<1>2. /\ a.req = r /\ a.row = row /\ a.gone = gone
      /\ r.op = "add_tag" => a.shown = tags'[row]
  <2>1. Content'.tags = tags'
    BY DEF Content
  <2>2. RowIn(Content', r, row) = tags'[row]
    BY <2>1, RowInParts
  <2> QED
    BY <2>2, IdealParts DEF Makers
<1> HIDE DEF a
<1> DEFINE Result == /\ row \in TagIds /\ tags' = [tags EXCEPT ![row] = tags'[row]]
                     /\ UNCHANGED <<groups, categories, events>>
                     /\ s.tags[row] \in {tags[row], tags'[row]} => new = tags'[row]
<1>3. ASSUME r.op = "add_tag" PROVE Result
  <2>1. AddTag(r.id) /\ row \in Named(tags', r.id)
    BY <1>3 DEF HandleEvent
  <2>2. r.id \in TagNames
    BY <1>3, RequestTyped
  <2>3. PICK t \in TagIds, x \in TagRow : TagWritten(t, x) /\ x.name = r.id
    BY <2>1, <2>2, AddTagWrites
  <2>4. tags' = [tags EXCEPT ![t] = x] /\ tags'[t] = x
    BY <1>1, <2>3 DEF TagWritten
  <2>5. t \in Rows(tags)' /\ row \in Rows(tags)' /\ tags'[row].name = r.id /\ tags'[t].name = r.id
    BY <1>1, <2>1, <2>3, <2>4 DEF Named, Rows
  <2>6. row = t
    BY <2>5 DEF IInv, NamesUnique
  <2>7. UNCHANGED <<groups, categories, events>>
    BY <2>1 DEF AddTag
  <2>8. new = tags'[row]
    BY <1>2, <1>3 DEF PatchRow, Makers
  <2> QED
    BY <2>4, <2>6, <2>7, <2>8
<1>4. ASSUME r.op \in {"name_tag", "set_tag"} PROVE Result
  <2> DEFINE n == IF r.op = "name_tag" THEN r.arg ELSE Same
             b == IF r.op = "set_tag" THEN r.arg ELSE Same
             x == [tags[row] EXCEPT !.name = Patched(tags[row].name, n),
                                    !.active = Patched(tags[row].active, b)]
  <2>1. EditTag(row, n, b)
    BY <1>4 DEF HandleEvent
  <2>2. n \in TagNames \cup {Same} /\ b \in BOOLEAN \cup {Same} /\ r.arg # Same
    BY <1>4, RequestTyped, NullsAssumption
  <2>3. row \in Rows(tags) /\ tags[row] \in TagRow /\ x \in TagRow /\ TagWritten(row, x)
    BY <2>1, <2>2, EditTagWrites
  <2>4. row \in TagIds /\ tags' = [tags EXCEPT ![row] = x] /\ tags'[row] = x
    BY <1>1, <2>3 DEF TagWritten
  <2>5. UNCHANGED <<groups, categories, events>>
    BY <2>1 DEF EditTag
  <2>6. x = CASE r.op = "name_tag" -> [tags[row] EXCEPT !.name = r.arg]
              [] r.op = "set_tag" -> [tags[row] EXCEPT !.active = r.arg]
    BY <1>4, <2>2, <2>3 DEF Patched, TagRow
  <2> HIDE DEF x, n, b
  <2>7. ASSUME NEW old \in {tags[row], tags'[row]}
        PROVE  PatchRow(s, r, old, a) = tags'[row]
    <3>1. old \in TagRow /\ old # NoRow /\ r.op \notin Makers
      BY <1>1, <1>4, <2>3, <2>4 DEF Makers
    <3>2. CASE r.op = "name_tag"
      <4>1. PatchRow(s, r, old, a) = [old EXCEPT !.name = r.arg]
        BY <3>1, <3>2 DEF PatchRow
      <4> QED
        BY <2>3, <2>4, <2>6, <3>1, <3>2, <4>1 DEF TagRow
    <3>3. CASE r.op = "set_tag"
      <4>1. PatchRow(s, r, old, a) = [old EXCEPT !.active = r.arg]
        BY <3>1, <3>3 DEF PatchRow
      <4> QED
        BY <2>3, <2>4, <2>6, <3>1, <3>3, <4>1 DEF TagRow
    <3> QED
      BY <1>4, <3>2, <3>3
  <2> QED
    BY <2>4, <2>5, <2>7
<1>5. ASSUME r.op = "delete_tag" PROVE Result
  <2>1. DeleteTag(row)
    BY <1>5 DEF HandleEvent
  <2> DEFINE x == IF TagUsed(row) THEN [tags[row] EXCEPT !.active = FALSE] ELSE NoRow
  <2>2. row \in TagIds /\ tags[row] \in TagRow
    BY <2>1, RowsTyped DEF DeleteTag, IInv
  <2>3. tags' = [tags EXCEPT ![row] = x] /\ tags'[row] = x
    BY <1>1, <2>1, <2>2 DEF DeleteTag
  <2>4. UNCHANGED <<groups, categories, events>>
    BY <2>1 DEF DeleteTag
  <2>5. x # NoRow => x = [tags[row] EXCEPT !.active = FALSE]
    BY <1>1, <2>2 DEF TagRow
  <2> HIDE DEF x
  <2>6. ASSUME NEW old \in {tags[row], tags'[row]}
        PROVE  PatchRow(s, r, old, a) = tags'[row]
    <3>1. gone = (x = NoRow)
      BY <1>5, <2>3
    <3>2. CASE old = NoRow
      BY <1>1, <1>5, <2>2, <2>3, <3>2 DEF PatchRow, Makers
    <3>3. CASE old # NoRow
      <4>1. PatchRow(s, r, old, a) = IF gone THEN NoRow ELSE [old EXCEPT !.active = FALSE]
        BY <1>2, <1>5, <3>3 DEF PatchRow, Makers
      <4>2. CASE x = NoRow
        BY <2>3, <3>1, <4>1, <4>2
      <4>3. CASE x # NoRow
        <5>1. x = [tags[row] EXCEPT !.active = FALSE] /\ old \in {tags[row], x}
          BY <2>3, <2>5, <4>3
        <5>2. [old EXCEPT !.active = FALSE] = x
          BY <2>2, <5>1 DEF TagRow
        <5> QED
          BY <2>3, <3>1, <4>1, <4>3, <5>2
      <4> QED
        BY <4>2, <4>3
    <3> QED
      BY <3>2, <3>3
  <2> QED
    BY <2>2, <2>3, <2>4, <2>6
<1> HIDE DEF new
<1>6. Result
  BY <1>3, <1>4, <1>5 DEF TagOps
<1>7. /\ [s EXCEPT !.tags[row] = tags'[row]] = Content'
      /\ s.tags[row] \in {tags[row], tags'[row]}
  BY <1>6, TagPatched
<1>8. Patch(s, a) = [s EXCEPT !.tags[row] = new]
  BY <1>2, PatchParts DEF new
<1>9. Patch(s, a) = Content'
  BY <1>6, <1>7, <1>8
<1> QED
  BY <1>9 DEF a

\* Before and after a request that sets a row of the categories: what is shown of that row.
LEMMA ShownRow ==
    ASSUME IInv, NEW k \in Codes, NEW x, CategoryWritten(k, x), groups' = groups
    PROVE  /\ Content.categories[k] = IF k \in Rows(categories) /\ categories[k].group # NoGroup
                                      THEN categories[k] ELSE NoRow
           /\ Content'.categories[k] = IF x.group # NoGroup THEN x ELSE NoRow
<1>1. /\ categories \in [Codes -> CategoryRow \cup {NoRow}] /\ NoRow \notin CategoryRow
      /\ NoGroup \notin Rows(groups) /\ x \in CategoryRow
      /\ categories'[k] = x /\ k \in Rows(categories)'
      /\ x.group \in Rows(groups) \cup {NoGroup} /\ Rows(groups)' = Rows(groups)
      /\ k \in Rows(categories) => categories[k].group \in Rows(groups) \cup {NoGroup}
  BY Basics, RowsTyped DEF IInv, TypeOK, CategoryWritten, Rows, NoDangling
<1>2. Content.categories[k] = IF k \in Rows(categories) /\ categories[k].group \in Rows(groups)
                              THEN categories[k] ELSE NoRow
  BY DEF Content
<1>3. Content'.categories[k] = IF k \in Rows(categories)' /\ categories'[k].group \in Rows(groups)'
                               THEN categories'[k] ELSE NoRow
  BY DEF Content
<1> QED
  BY <1>1, <1>2, <1>3

\* The group of a code in a copy of the groups.
CodedIn(table, code) == {g \in Rows(table) : table[g].code = code}
FirstCoded(table, code) == CHOOSE g \in Rows(table) : table[g].code = code

\* A request of categories: the same, except for the move of a row the copy lacks.
LEMMA CategoryRequest ==
    ASSUME IInv, NEW r \in Request, NEW row \in Codes, r.op \in CategoryOps, HandleCategory(r, row),
           NEW gone, NEW s \in {Content, Content'}
    PROVE  \/ r.op = "move" /\ s.categories[row] = NoRow
           \/ Patch(s, Ideal(r, row, gone, Content')) = Content'
<1> DEFINE a == Ideal(r, row, gone, Content')
           new == PatchRow(s, r, s.categories[row], a)
           want == Content'.categories[row]
<1>1. /\ a.req = r /\ a.row = row
      /\ r.op \in {"activate", "create"} => a.shown = want
  BY IdealParts, RowInParts DEF Makers
<1> HIDE DEF a
<1> DEFINE Result == \/ r.op = "move" /\ s.categories[row] = NoRow
                     \/ new = want
           Left == UNCHANGED <<groups, events, tags>> /\ \E x : CategoryWritten(row, x)
<1>2. ASSUME NEW x, CategoryWritten(row, x), UNCHANGED <<groups, events, tags>>
      PROVE  /\ [s EXCEPT !.categories[row] = want] = Content'
             /\ s.categories[row] \in {Content.categories[row], want}
             /\ s.groups = groups
  BY <1>2, CategoryPatched DEF CategoryWritten
<1>3. ASSUME r.op \in {"activate", "create"} PROVE Result /\ Left
  <2>1. new = want
    BY <1>1, <1>3 DEF PatchRow, Makers
  <2>2. CASE r.op = "activate"
    <3>1. Activated(row)
      BY <2>2 DEF HandleCategory, Activate
    <3>2. \E x : CategoryWritten(row, x)
      BY <3>1, ActivatedWrites
    <3> QED
      BY <2>1, <3>1, <3>2 DEF Activated
  <2>3. CASE r.op = "create"
    <3>1. Create(row, r.id, r.arg) /\ r.id \in Labels
      BY <2>3, RequestTyped DEF HandleCategory
    <3>2. \E x : CategoryWritten(row, x)
      BY <3>1, CreateWrites
    <3> QED
      BY <2>1, <3>1, <3>2 DEF Create, SetCategory
  <2> QED
    BY <1>3, <2>2, <2>3
<1>4. ASSUME r.op \in {"hide", "unhide", "rename"} PROVE Result /\ Left
  <2> DEFINE x == CASE r.op = "hide" -> [categories[row] EXCEPT !.hidden = TRUE]
                    [] r.op = "unhide" -> [categories[row] EXCEPT !.hidden = FALSE]
                    [] r.op = "rename" -> [categories[row] EXCEPT !.name = r.arg]
  <2>1. /\ row \in Rows(categories) /\ UNCHANGED <<groups, events, tags>>
        /\ r.op = "rename" => r.arg \in Labels /\ Rename(row, r.arg)
        /\ r.op = "hide" => Hide(row)
        /\ r.op = "unhide" => Unhide(row)
    BY <1>4, RequestTyped DEF HandleCategory, Hide, Unhide, Rename, SetCategory
  <2>2. CategoryWritten(row, x) /\ categories[row] \in CategoryRow
    BY <1>4, <2>1, SetWrites
  <2>3. x \in CategoryRow /\ x # NoRow /\ x.group = categories[row].group /\ categories[row] # NoRow
    BY <1>4, <2>1, <2>2, Basics DEF CategoryWritten, CategoryRow
  <2> HIDE DEF x
  <2>4. /\ Content.categories[row] = IF categories[row].group # NoGroup THEN categories[row] ELSE NoRow
        /\ want = IF categories[row].group # NoGroup THEN x ELSE NoRow
    BY <2>1, <2>2, <2>3, ShownRow
  <2>5. s.categories[row] \in {Content.categories[row], want}
    BY <1>2, <2>1, <2>2
  <2> HIDE DEF want
  <2>6. CASE categories[row].group = NoGroup
    <3>1. s.categories[row] = NoRow /\ want = NoRow
      BY <2>4, <2>5, <2>6
    <3>2. new = NoRow
      BY <1>4, <3>1 DEF PatchRow, Makers
    <3> QED
      BY <2>1, <2>2, <3>1, <3>2
  <2>7. CASE categories[row].group # NoGroup
    <3>1. s.categories[row] \in {categories[row], x} /\ want = x
      BY <2>4, <2>5, <2>7
    <3>2. new = CASE r.op = "rename" -> [s.categories[row] EXCEPT !.name = r.arg]
                  [] r.op = "hide" -> [s.categories[row] EXCEPT !.hidden = TRUE]
                  [] r.op = "unhide" -> [s.categories[row] EXCEPT !.hidden = FALSE]
      <4>1. s.categories[row] # NoRow /\ r.op \notin Makers
        BY <1>4, <2>3, <3>1 DEF Makers
      <4> QED
        BY <1>4, <4>1 DEF PatchRow
    <3>3. new = x
      BY <1>4, <2>2, <3>1, <3>2 DEF x, CategoryRow
    <3> QED
      BY <2>1, <2>2, <3>1, <3>3
  <2> QED
    BY <2>6, <2>7
<1>5. ASSUME r.op = "move" PROVE Result /\ Left
  <2> DEFINE g == GroupId(r.arg)
             x == [categories[row] EXCEPT !.group = g]
  <2>1. row \in Rows(categories) /\ Move(row, r.arg) /\ UNCHANGED <<groups, events, tags>>
    BY <1>5 DEF HandleCategory, Move, SetCategory
  <2>2. CategoryWritten(row, x) /\ categories[row] \in CategoryRow
    BY <2>1, SetWrites
  <2>3. /\ g # NoGroup
        /\ g = CHOOSE h \in Rows(groups) : groups[h].code = r.arg
        /\ \E h \in Rows(groups) : groups[h].code = r.arg
    BY <2>1 DEF Move, GroupId
  <2>4. g \in GroupIds
    BY <2>3, GroupOfCode, RowsTyped DEF IInv
  <2>5. s.groups = groups /\ s.categories[row] \in {Content.categories[row], want}
    BY <1>2, <2>1, <2>2
  <2>6. CASE s.categories[row] # NoRow
    <3>1. new = [s.categories[row] EXCEPT !.group = g]
      <4>1. new = IF \E h \in Rows(s.groups) : s.groups[h].code = r.arg
                  THEN [s.categories[row] EXCEPT !.group =
                           CHOOSE h \in Rows(s.groups) : s.groups[h].code = r.arg]
                  ELSE s.categories[row]
        BY <1>5, <2>6 DEF PatchRow, Makers
      <4>2. new = IF CodedIn(s.groups, r.arg) # {}
                  THEN [s.categories[row] EXCEPT !.group = FirstCoded(s.groups, r.arg)]
                  ELSE s.categories[row]
        BY <4>1 DEF CodedIn, FirstCoded
      <4>3. CodedIn(groups, r.arg) # {} /\ FirstCoded(groups, r.arg) = g
        BY <2>3 DEF CodedIn, FirstCoded
      <4> HIDE DEF new, g
      <4> QED
        BY <2>5, <4>2, <4>3
    <3> HIDE DEF g
    <3>2. x.group = g /\ x \in CategoryRow
      BY <2>2, <2>4 DEF CategoryRow
    <3>3. want = x /\ s.categories[row] \in {categories[row], x}
      <4> HIDE DEF x, want
      <4>1. want = x
        BY <2>1, <2>2, <2>3, <3>2, ShownRow DEF want
      <4>2. Content.categories[row] = categories[row] \/ Content.categories[row] = NoRow
        BY <2>1, <2>2, ShownRow
      <4> QED
        BY <2>5, <2>6, <4>1, <4>2
    <3>4. [s.categories[row] EXCEPT !.group = g] = x
      BY <2>2, <3>3 DEF CategoryRow
    <3> HIDE DEF new, want, x
    <3> QED
      BY <2>1, <2>2, <3>1, <3>3, <3>4
  <2>7. CASE s.categories[row] = NoRow
    BY <1>5, <2>1, <2>2, <2>7
  <2> QED
    BY <2>6, <2>7
<1> HIDE DEF new, want
<1>6. Result /\ Left
  BY <1>3, <1>4, <1>5 DEF CategoryOps
<1>7. [s EXCEPT !.categories[row] = want] = Content'
  BY <1>2, <1>6
<1>8. Patch(s, a) = [s EXCEPT !.categories[row] = new]
  BY <1>1, PatchParts DEF new
<1>9. (r.op = "move" /\ s.categories[row] = NoRow) \/ Patch(s, a) = Content'
  BY <1>6, <1>7, <1>8
<1> QED
  BY <1>9 DEF a

\* Which handler serves a request, and which tables it leaves alone.
LEMMA ServeKinds ==
    ASSUME IInv, NEW r \in Request, NEW row, HandleEvent(r, row) \/ HandleCategory(r, row)
    PROVE  /\ \/ r.op \in EventOps /\ HandleEvent(r, row) /\ EventWrite
              \/ r.op \in TagOps /\ HandleEvent(r, row) /\ TagWrite
              \/ r.op \in CategoryOps /\ row \in Codes /\ HandleCategory(r, row) /\ CategoryWrite
              \/ r.op = "apply" /\ CategoryWrite
           /\ UNCHANGED <<groups, categories>> \/ UNCHANGED <<events, tags>>
<1>1. CASE r.op = "add_event"
  <2>1. HandleEvent(r, row) /\ AddEvent(r.id, r.arg)
    BY <1>1 DEF HandleEvent, HandleCategory
  <2> QED
    BY <1>1, <2>1, RequestTyped DEF EventOps, EventWrite, AddEvent
<1>2. CASE r.op \in {"name_event", "tag_event", "set_event"}
  <2>1. HandleEvent(r, row) /\ \E n \in {r.arg, Same}, ts \in {r.arg, Same}, b \in {r.arg, Same} :
            /\ EditEvent(r.id, n, ts, b)
            /\ n = Same \/ r.op = "name_event"
            /\ ts = Same \/ r.op = "tag_event"
            /\ b = Same \/ r.op = "set_event"
    BY <1>2 DEF HandleEvent, HandleCategory
  <2>2. PICK n \in EventNames \cup {Same}, ts \in (SUBSET TagIds) \cup {Same}, b \in BOOLEAN \cup {Same} :
            EditEvent(r.id, n, ts, b)
    BY <1>2, <2>1, RequestTyped
  <2>3. r.id \in EventIds /\ r.op \in EventOps
    BY <1>2, RequestTyped DEF EventOps
  <2>4. EventWrite
    BY <2>2, <2>3 DEF EventWrite
  <2> QED
    BY <2>1, <2>2, <2>3, <2>4 DEF EditEvent
<1>3. CASE r.op = "delete_event"
  <2>1. HandleEvent(r, row) /\ DeleteEvent(r.id)
    BY <1>3 DEF HandleEvent, HandleCategory
  <2> QED
    BY <1>3, <2>1, RequestTyped DEF EventOps, EventWrite, DeleteEvent
<1>4. CASE r.op = "add_tag"
  <2>1. HandleEvent(r, row) /\ AddTag(r.id)
    BY <1>4 DEF HandleEvent, HandleCategory
  <2> QED
    BY <1>4, <2>1, RequestTyped DEF TagOps, TagWrite, AddTag
<1>5. CASE r.op \in {"name_tag", "set_tag"}
  <2>1. HandleEvent(r, row) /\ \E n \in {r.arg, Same}, b \in {r.arg, Same} :
            /\ EditTag(r.id, n, b)
            /\ n = Same \/ r.op = "name_tag"
            /\ b = Same \/ r.op = "set_tag"
    BY <1>5 DEF HandleEvent, HandleCategory
  <2>2. PICK n \in TagNames \cup {Same}, b \in BOOLEAN \cup {Same} : EditTag(r.id, n, b)
    BY <1>5, <2>1, RequestTyped
  <2>3. r.id \in TagIds /\ r.op \in TagOps
    BY <1>5, RequestTyped DEF TagOps
  <2>4. TagWrite
    BY <2>2, <2>3 DEF TagWrite
  <2> QED
    BY <2>1, <2>2, <2>3, <2>4 DEF EditTag
<1>6. CASE r.op = "delete_tag"
  <2>1. HandleEvent(r, row) /\ DeleteTag(r.id)
    BY <1>6 DEF HandleEvent, HandleCategory
  <2> QED
    BY <1>6, <2>1, RequestTyped DEF TagOps, TagWrite, DeleteTag
<1>7. CASE r.op \in {"activate", "hide", "unhide"}
  <2>1. row = r.id /\ HandleCategory(r, row) /\ (Activate(row) \/ Hide(row) \/ Unhide(row))
    BY <1>7 DEF HandleEvent, HandleCategory
  <2> QED
    BY <1>7, <2>1, RequestTyped
       DEF CategoryOps, CategoryWrite, Activate, Activated, Hide, Unhide, SetCategory
<1>8. CASE r.op \in {"rename", "move"}
  <2>1. /\ row = r.id /\ HandleCategory(r, row)
        /\ (r.op = "rename" /\ Rename(row, r.arg)) \/ (r.op = "move" /\ Move(row, r.arg))
    BY <1>8 DEF HandleEvent, HandleCategory
  <2> QED
    BY <1>8, <2>1, RequestTyped DEF CategoryOps, CategoryWrite, Rename, Move, SetCategory
<1>9. CASE r.op = "create"
  <2>1. HandleCategory(r, row) /\ Create(row, r.id, r.arg)
    BY <1>9 DEF HandleEvent, HandleCategory
  <2>2. row \in Codes
    BY <2>1 DEF Create, Codes
  <2> QED
    BY <1>9, <2>1, <2>2, RequestTyped DEF CategoryOps, CategoryWrite, Create, SetCategory
<1>10. CASE r.op = "apply"
  <2>1. Apply(r.id)
    BY <1>10 DEF HandleEvent, HandleCategory
  <2> QED
    BY <1>10, <2>1, RequestTyped DEF CategoryWrite, Apply
<1> QED
  BY <1>1, <1>2, <1>3, <1>4, <1>5, <1>6, <1>7, <1>8, <1>9, <1>10, RequestTyped
     DEF EventOps, TagOps, CategoryOps

\* What a request did to the tables, its patch does to a copy from before or after.
LEMMA ServeMends ==
    ASSUME IInv, IInv', NEW row, Serve(row), call.req \in Request, NEW s \in {Content, Content'}
    PROVE  MendsTo(s, call', Content')
<1> DEFINE r == call.req
           gone == CASE r.op = "delete_event" -> events'[row] = NoRow
                     [] r.op = "delete_tag" -> tags'[row] = NoRow
                     [] OTHER -> FALSE
<1>1. /\ call'.req = r /\ call'.row = row /\ call'.gone = gone
      /\ HandleEvent(r, row) \/ HandleCategory(r, row)
  BY DEF Serve
<1>2. /\ r.op = "delete_event" => gone = (events'[row] = NoRow)
      /\ r.op = "delete_tag" => gone = (tags'[row] = NoRow)
  OBVIOUS
<1> HIDE DEF gone
<1>3. (r.op = "move" /\ s.categories[row] = NoRow) \/ Patch(s, Ideal(r, row, gone, Content')) = Content'
  <2>1. CASE r.op \in EventOps /\ HandleEvent(r, row)
    BY <1>2, <2>1, EventRequest
  <2>2. CASE r.op \in TagOps /\ HandleEvent(r, row)
    BY <1>2, <2>2, TagRequest
  <2>3. CASE r.op \in CategoryOps /\ row \in Codes /\ HandleCategory(r, row)
    BY <2>3, CategoryRequest
  <2>4. CASE r.op = "apply"
    BY <2>4, PatchParts, IdealParts
  <2> QED
    BY <1>1, <2>1, <2>2, <2>3, <2>4, ServeKinds
<1> QED
  BY <1>1, <1>3 DEF MendsTo, Unplaced

\* The patch uses of an answer what Ideal has.
LEMMA SamePatch ==
    ASSUME NEW s, NEW a, NEW c, a.shown = Shown(c, a.req, a.row)
    PROVE  Patch(s, Ideal(a.req, a.row, a.gone, c)) = Patch(s, a)
<1> DEFINE i == Ideal(a.req, a.row, a.gone, c)
<1>1. i.req = a.req /\ i.row = a.row /\ i.gone = a.gone /\ i.shown = a.shown
  BY DEF Ideal
<1> HIDE DEF i
<1>2. \A old : PatchRow(s, a.req, old, i) = PatchRow(s, a.req, old, a)
  BY <1>1 DEF PatchRow
<1>3. Patch(s, i) = Patch(s, a)
  BY <1>1, <1>2 DEF Patch
<1> QED
  BY <1>3 DEF i
-----------------------------------------------------------------------------
(* The steps of a device and of the others. *)

\* No request restarts the server.
LEMMA NoRestart ==
    ASSUME IInv, GroupWrite \/ EventWrite \/ TagWrite \/ CategoryWrite
                 \/ (\E es \in SUBSET EventIds, ts \in SUBSET TagIds : ReloadMapping(es, ts))
    PROVE  Next /\ ~Boot
<1>1. boots' = boots
  <2>1. CASE GroupWrite
    BY <2>1, GroupWritten, Commits DEF meta
  <2>2. CASE EventWrite
    BY <2>2, EventWriteStep, Commits DEF meta
  <2>3. CASE TagWrite
    BY <2>3, TagWriteStep, Commits DEF meta
  <2>4. CASE CategoryWrite
    BY <2>4, CategoryWriteStep
  <2>5. CASE \E es \in SUBSET EventIds, ts \in SUBSET TagIds : ReloadMapping(es, ts)
    BY <2>5 DEF ReloadMapping, meta
  <2> QED
    BY <2>1, <2>2, <2>3, <2>4, <2>5
<1>2. Next
  BY DEF Next, Ingest
<1>3. ~Boot
  BY <1>1 DEF Boot, IInv, TypeOK
<1> QED
  BY <1>2, <1>3

\* A request of others: what the device has is as true as it was, or its version is old.
LEMMA OthersStep ==
    ASSUME CInv, Others
    PROVE  CInv'
<1>1. IInv /\ Next /\ ~Boot /\ UNCHANGED <<snap, cver, call, fetch, missed>>
  <2>1. UNCHANGED <<snap, cver, call, fetch, missed>>
    BY DEF Others, dvars
  <2>2. {} \in SUBSET TagIds
    OBVIOUS
  <2> QED
    BY <2>1, <2>2, NoRestart DEF Others, CInv
<1>2. IInv'
  BY <1>1, NextIInv
<1>3. /\ version \in Nat /\ version' \in Nat /\ version <= version'
      /\ version' > version \/ Content' = Content
  BY <1>1, VersionStep
<1>4. VersionsKnown'
  BY <1>1, <1>3 DEF CInv, VersionsKnown, Fetching
<1>5. CASE version' > version
  <2>1. CurrentUnlessMissed' /\ FetchTrue' /\ AnswerTrue' /\ PatchTrue'
    BY <1>1, <1>3, <1>5 DEF CInv, VersionsKnown, Fetching, CurrentUnlessMissed, FetchTrue,
                            AnswerTrue, PatchTrue
  <2> QED
    BY <1>2, <1>4, <2>1 DEF CInv
<1>6. CASE version' = version /\ Content' = Content
  <2>1. Fetched' = Fetched /\ (Fetching <=> Fetching')
    <3>1. Content.events = events /\ Content.tags = tags /\ Content'.events = events' /\ Content'.tags = tags'
      BY DEF Content
    <3> QED
      BY <1>1, <1>6, <3>1 DEF Fetched, Fetching
  <2>2. CurrentUnlessMissed' /\ FetchTrue' /\ AnswerTrue' /\ PatchTrue'
    <3> USE <1>1, <1>6, <2>1 DEF CInv
    <3>1. CurrentUnlessMissed'
      BY DEF CurrentUnlessMissed
    <3>2. FetchTrue'
      BY DEF FetchTrue
    <3>3. AnswerTrue'
      BY DEF AnswerTrue
    <3>4. PatchTrue'
      BY DEF PatchTrue
    <3> QED
      BY <3>1, <3>2, <3>3, <3>4
  <2> QED
    BY <1>2, <1>4, <2>2 DEF CInv
<1> QED
  BY <1>3, <1>5, <1>6

\* The device's own request is carried out.
LEMMA ServeStep ==
    ASSUME CInv, NEW row, Serve(row)
    PROVE  CInv'
<1>1. /\ IInv /\ call.at = "sent" /\ call.req \in Request
      /\ UNCHANGED <<snap, cver, fetch, missed>>
      /\ HandleEvent(call.req, row) \/ HandleCategory(call.req, row)
  BY DEF CInv, Serve, VersionsKnown
<1>2. EventWrite \/ TagWrite \/ CategoryWrite
  BY <1>1, ServeKinds
<1>3. Next /\ ~Boot
  BY <1>1, <1>2, NoRestart
<1>4. IInv'
  BY <1>1, <1>3, NextIInv
<1>5. /\ version \in Nat /\ version' \in Nat /\ version <= version'
      /\ version' > version \/ Content' = Content
  BY <1>1, <1>3, VersionStep
<1>6. call'.at = "served" /\ call'.base = version /\ call'.own = version' /\ call'.req = call.req
  BY DEF Serve
<1>7. VersionsKnown'
  BY <1>1, <1>5, <1>6 DEF CInv, VersionsKnown, Fetching
<1>8. AnswerTrue'
  BY <1>6 DEF AnswerTrue
<1>9. /\ Content = [groups |-> groups, events |-> events, tags |-> tags, categories |-> Content.categories]
      /\ Content' = [groups |-> groups', events |-> events', tags |-> tags', categories |-> Content'.categories]
  BY DEF Content
<1>10. UNCHANGED <<groups, categories>> => Content'.categories = Content.categories
  BY DEF Content, Rows
<1>11. ASSUME Fetching, Fetched = Content PROVE Fetched' \in {Content, Content'}
  <2>1. CASE fetch.at = "answered"
    BY <1>1, <1>11, <2>1 DEF Fetched
  <2>2. CASE fetch.at = "categories"
    <3>1. /\ Fetched = [groups |-> fetch.groups, categories |-> fetch.categories,
                        events |-> events, tags |-> tags]
          /\ Fetched' = [groups |-> fetch.groups, categories |-> fetch.categories,
                         events |-> events', tags |-> tags']
      BY <1>1, <2>2 DEF Fetched
    <3>2. CASE UNCHANGED <<events, tags>>
      BY <1>11, <3>1, <3>2
    <3>3. CASE UNCHANGED <<groups, categories>>
      <4> DEFINE old == Content.categories
                 new == Content'.categories
      <4>1. new = old
        BY <1>10, <3>3
      <4>2. /\ Content = [groups |-> groups, events |-> events, tags |-> tags, categories |-> old]
            /\ Content' = [groups |-> groups', events |-> events', tags |-> tags', categories |-> new]
        BY <1>9
      <4> HIDE DEF old, new
      <4>3. fetch.groups = groups /\ fetch.categories = old
        <5>1. Fetched.groups = fetch.groups /\ Fetched.categories = fetch.categories
          BY <3>1
        <5>2. Content.groups = groups /\ Content.categories = old
          BY <4>2
        <5> QED
          BY <1>11, <5>1, <5>2
      <4> QED
        BY <3>1, <3>3, <4>1, <4>2, <4>3
    <3> QED
      BY <1>1, <3>2, <3>3, ServeKinds
  <2> QED
    BY <1>11, <2>1, <2>2 DEF Fetching
<1>12. PatchTrue'
  <2>1. \A s \in {Content, Content'} : MendsTo(s, call', Content')
    BY <1>1, <1>4, ServeMends
  <2>2. cver = version /\ ~missed => MendsTo(snap, call', Content')
    BY <2>1 DEF CInv, CurrentUnlessMissed
  <2>3. Fetching /\ fetch.ver = version => MendsTo(Fetched', call', Content')
    BY <1>11, <2>1 DEF CInv, FetchTrue
  <2> QED
    BY <1>1, <1>6, <2>1, <2>2, <2>3 DEF PatchTrue, Fetching
<1>13. CASE version' > version
  <2>1. CurrentUnlessMissed' /\ FetchTrue'
    BY <1>1, <1>5, <1>13 DEF CInv, VersionsKnown, Fetching, CurrentUnlessMissed, FetchTrue
  <2> QED
    BY <1>4, <1>7, <1>8, <1>12, <2>1 DEF CInv
<1>14. CASE version' = version /\ Content' = Content
  <2>1. CurrentUnlessMissed'
    BY <1>1, <1>14 DEF CInv, CurrentUnlessMissed
  <2>2. FetchTrue'
    BY <1>1, <1>11, <1>14 DEF CInv, FetchTrue, Fetching
  <2> QED
    BY <1>4, <1>7, <1>8, <1>12, <2>1, <2>2 DEF CInv
<1> QED
  BY <1>5, <1>13, <1>14

\* Steps that leave the server alone.
LEMMA ServerStays ==
    ASSUME CInv, UNCHANGED dbvars
    PROVE  /\ IInv' /\ version' = version /\ Content' = Content /\ version \in Nat
           /\ UNCHANGED <<events, tags, groups>>
<1>1. UNCHANGED <<groups, categories, events, tags, version>>
  BY DEF dbvars, tables
<1> QED
  BY <1>1, NextIInv, ContentKept DEF CInv, IInv, TypeOK

LEMMA AnswerStep ==
    ASSUME CInv, Answer
    PROVE  CInv'
<1>1. /\ call.at = "served" /\ UNCHANGED <<snap, cver, fetch, missed>> /\ UNCHANGED dbvars
      /\ call'.at = "answered" /\ call'.req = call.req /\ call'.row = call.row
      /\ call'.base = call.base /\ call'.own = call.own /\ call'.gone = call.gone
      /\ call'.ver = version /\ call'.shown = Shown(Content, call.req, call.row)
  BY DEF Answer
<1>2. /\ IInv' /\ version' = version /\ Content' = Content /\ version \in Nat
      /\ UNCHANGED <<events, tags, groups>>
  BY <1>1, ServerStays
<1>3. Fetched' = Fetched /\ (Fetching <=> Fetching')
  BY <1>1, <1>2 DEF Fetched, Fetching
<1>4. \A s : MendsTo(s, call', Content) <=> MendsTo(s, call, Content)
  BY <1>1 DEF MendsTo, Unplaced
<1> USE <1>1, <1>2 DEF CInv
<1>5. VersionsKnown'
  BY DEF VersionsKnown, Fetching
<1>6. CurrentUnlessMissed' /\ AnswerTrue'
  BY DEF CurrentUnlessMissed, AnswerTrue
<1>7. FetchTrue'
  BY <1>3 DEF FetchTrue
<1>8. PatchTrue'
  BY <1>3, <1>4 DEF PatchTrue
<1> QED
  BY <1>5, <1>6, <1>7, <1>8

LEMMA ReceiveStep ==
    ASSUME CInv, Receive
    PROVE  CInv'
<1>1. /\ call.at = "answered" /\ snap' = Patch(snap, call) /\ cver' = call.ver
      /\ missed' = IF call.req.op = "apply" THEN FALSE
                   ELSE missed \/ ~Seamless(call) \/ Unplaced(snap, call)
      /\ call'.at = "none" /\ UNCHANGED dbvars /\ UNCHANGED fetch
  BY DEF Receive, NoCall
<1>2. /\ IInv' /\ version' = version /\ Content' = Content /\ version \in Nat
      /\ UNCHANGED <<events, tags, groups>>
  BY <1>1, ServerStays
<1>3. VersionsKnown' /\ AnswerTrue' /\ PatchTrue'
  BY <1>1, <1>2 DEF CInv, VersionsKnown, Fetching, AnswerTrue, PatchTrue
<1>4. FetchTrue'
  BY <1>1, <1>2 DEF CInv, FetchTrue, Fetched, Fetching
<1>5. ASSUME call.ver = version, ~missed' PROVE Patch(snap, call) = Content
  <2>1. call.shown = Shown(Content, call.req, call.row)
    BY <1>1, <1>5 DEF CInv, AnswerTrue
  <2>2. CASE call.req.op = "apply"
    <3>1. Patch(snap, call) = call.shown
      BY <2>2, PatchParts
    <3> QED
      BY <2>1, <2>2, <3>1 DEF Shown, Makers
  <2>3. CASE call.req.op # "apply"
    <3>1. ~missed /\ Seamless(call) /\ ~Unplaced(snap, call)
      BY <1>1, <1>5, <2>3
    <3>2. call.own = version /\ cver \in {call.base, version}
      BY <1>5, <3>1 DEF Seamless
    <3>3. MendsTo(snap, call, Content)
      <4>1. CASE cver = call.base
        BY <1>1, <3>1, <3>2, <4>1 DEF CInv, PatchTrue
      <4>2. CASE cver = version
        BY <1>1, <3>1, <3>2, <4>2 DEF CInv, PatchTrue, CurrentUnlessMissed
      <4> QED
        BY <3>2, <4>1, <4>2
    <3>4. Patch(snap, Ideal(call.req, call.row, call.gone, Content)) = Content
      BY <3>1, <3>3 DEF MendsTo
    <3>5. Patch(snap, Ideal(call.req, call.row, call.gone, Content)) = Patch(snap, call)
      BY <2>1, <2>3, SamePatch
    <3> QED
      BY <3>4, <3>5
  <2> QED
    BY <2>2, <2>3
<1>6. CurrentUnlessMissed'
  BY <1>1, <1>2, <1>5 DEF CurrentUnlessMissed
<1> QED
  BY <1>2, <1>3, <1>4, <1>6 DEF CInv

\* The other steps of the device: a request is sent or fails, the parts of a GET.
LEMMA DeviceStep ==
    ASSUME CInv, \/ \E r \in Request : Send(r)
                 \/ Fail \/ Load \/ ReadVersion \/ ReadCategories \/ ReadEvents \/ LoadFails
    PROVE  CInv'
<1>1. UNCHANGED dbvars /\ UNCHANGED <<snap, cver, missed>>
  BY DEF Send, Fail, Load, ReadVersion, ReadCategories, ReadEvents, LoadFails
<1>2. /\ IInv' /\ version' = version /\ Content' = Content /\ version \in Nat
      /\ UNCHANGED <<events, tags, groups>>
  BY <1>1, ServerStays
<1>3. CurrentUnlessMissed'
  BY <1>1, <1>2 DEF CInv, CurrentUnlessMissed
<1>4. ASSUME call'.at \in {"none", "sent"}, call'.at = "sent" => call'.req \in Request, UNCHANGED fetch
      PROVE  CInv'
  <2>1. Fetched' = Fetched /\ (Fetching <=> Fetching')
    BY <1>2, <1>4 DEF Fetched, Fetching
  <2>2. VersionsKnown' /\ FetchTrue'
    BY <1>1, <1>2, <1>4, <2>1 DEF CInv, VersionsKnown, FetchTrue, Fetching
  <2>3. AnswerTrue' /\ PatchTrue'
    BY <1>4 DEF AnswerTrue, PatchTrue
  <2> QED
    BY <1>2, <1>3, <2>2, <2>3 DEF CInv
<1>5. CASE (\E r \in Request : Send(r)) \/ Fail
  BY <1>4, <1>5 DEF Send, Fail, NoCall
<1>6. ASSUME fetch'.at \in {"none", "sent", "version"}, fetch'.at = "version" => fetch'.ver = version,
             UNCHANGED call
      PROVE  CInv'
  <2>1. ~Fetching'
    BY <1>6 DEF Fetching
  <2>2. VersionsKnown' /\ FetchTrue'
    BY <1>1, <1>2, <1>6, <2>1 DEF CInv, VersionsKnown, FetchTrue
  <2>3. AnswerTrue' /\ PatchTrue'
    BY <1>1, <1>2, <1>6, <2>1 DEF CInv, AnswerTrue, PatchTrue
  <2> QED
    BY <1>2, <1>3, <2>2, <2>3 DEF CInv
<1>7. CASE Load \/ ReadVersion \/ LoadFails
  BY <1>6, <1>7 DEF Load, ReadVersion, LoadFails, NoCall
<1>8. CASE ReadCategories
  <2>1. /\ fetch.at = "version" /\ fetch'.at = "categories" /\ fetch'.ver = fetch.ver /\ UNCHANGED call
        /\ fetch'.groups = groups /\ fetch'.categories = Content.categories
    BY <1>8 DEF ReadCategories
  <2>2. Fetched' = Content
    BY <1>2, <2>1 DEF Fetched, Content
  <2>3. VersionsKnown' /\ FetchTrue' /\ AnswerTrue'
    BY <1>1, <1>2, <2>1, <2>2 DEF CInv, VersionsKnown, FetchTrue, Fetching, AnswerTrue
  <2>4. PatchTrue'
    BY <1>1, <1>2, <2>1, <2>2 DEF CInv, PatchTrue
  <2> QED
    BY <1>2, <1>3, <2>3, <2>4 DEF CInv
<1>9. CASE ReadEvents
  <2>1. /\ fetch.at = "categories" /\ fetch'.at = "answered" /\ fetch'.ver = fetch.ver /\ UNCHANGED call
        /\ fetch'.shown = [groups |-> fetch.groups, categories |-> fetch.categories,
                           events |-> events, tags |-> tags]
    BY <1>9 DEF ReadEvents
  <2>2. Fetched' = Fetched /\ Fetching /\ Fetching'
    BY <2>1 DEF Fetched, Fetching
  <2>3. VersionsKnown' /\ FetchTrue' /\ AnswerTrue'
    BY <1>1, <1>2, <2>1, <2>2 DEF CInv, VersionsKnown, FetchTrue, AnswerTrue
  <2>4. PatchTrue'
    BY <1>1, <1>2, <2>1, <2>2 DEF CInv, PatchTrue
  <2> QED
    BY <1>2, <1>3, <2>3, <2>4 DEF CInv
<1> QED
  BY <1>5, <1>7, <1>8, <1>9

LEMMA LoadedStep ==
    ASSUME CInv, Loaded
    PROVE  CInv'
<1>1. /\ fetch.at = "answered" /\ fetch'.at = "none" /\ UNCHANGED dbvars /\ UNCHANGED call
      /\ \/ UNCHANGED <<snap, cver, missed>>
         \/ snap' = fetch.shown /\ cver' = fetch.ver /\ missed' = FALSE
  BY DEF Loaded, NoCall
<1>2. /\ IInv' /\ version' = version /\ Content' = Content /\ version \in Nat
      /\ UNCHANGED <<events, tags, groups>>
  BY <1>1, ServerStays
<1>3. Fetching /\ Fetched = fetch.shown /\ ~Fetching'
  BY <1>1 DEF Fetching, Fetched
<1>4. VersionsKnown' /\ FetchTrue' /\ AnswerTrue'
  BY <1>1, <1>2, <1>3 DEF CInv, VersionsKnown, FetchTrue, AnswerTrue
<1>5. PatchTrue'
  BY <1>1, <1>2, <1>3 DEF CInv, PatchTrue
<1>6. CurrentUnlessMissed'
  BY <1>1, <1>2, <1>3 DEF CInv, CurrentUnlessMissed, FetchTrue
<1> QED
  BY <1>2, <1>4, <1>5, <1>6 DEF CInv

LEMMA RestartStep ==
    ASSUME CInv, Restart
    PROVE  CInv'
<1>1. /\ Boot /\ IInv /\ call'.at = "none" /\ fetch'.at = "none" /\ version' = version
      /\ missed' = (missed \/ Content' # Content) /\ UNCHANGED <<snap, cver>>
  BY DEF Restart, Boot, NoCall, CInv
<1>2. IInv'
  BY <1>1, BootStep
<1>3. VersionsKnown' /\ FetchTrue' /\ AnswerTrue' /\ PatchTrue'
  BY <1>1 DEF CInv, VersionsKnown, FetchTrue, AnswerTrue, PatchTrue, Fetching
<1>4. CurrentUnlessMissed'
  BY <1>1 DEF CInv, CurrentUnlessMissed
<1> QED
  BY <1>2, <1>3, <1>4 DEF CInv

LEMMA ClientNextCInv ==
    ASSUME CInv, [ClientNext]_vars
    PROVE  CInv'
<1>1. CASE UNCHANGED vars
  <2>1. UNCHANGED dbvars /\ UNCHANGED <<snap, cver, call, fetch, missed>>
    BY <1>1 DEF vars, dvars
  <2>2. /\ IInv' /\ version' = version /\ Content' = Content /\ version \in Nat
        /\ UNCHANGED <<events, tags, groups>>
    BY <2>1, ServerStays
  <2>3. Fetched' = Fetched /\ (Fetching <=> Fetching')
    BY <2>1, <2>2 DEF Fetched, Fetching
  <2> QED
    BY <2>1, <2>2, <2>3
       DEF CInv, VersionsKnown, FetchTrue, AnswerTrue, PatchTrue, CurrentUnlessMissed
<1>2. CASE ClientNext
  BY <1>2, ServeStep, AnswerStep, ReceiveStep, DeviceStep, LoadedStep, OthersStep, RestartStep
     DEF ClientNext
<1> QED
  BY <1>1, <1>2

LEMMA ClientInitCInv == ClientInit => CInv
<1>1. SUFFICES ASSUME ClientInit PROVE CInv
  OBVIOUS
<1>2. IInv /\ snap = Content /\ cver = version /\ call.at = "none" /\ fetch.at = "none"
  BY <1>1, InitIInv DEF ClientInit, NoCall
<1>3. version \in Nat
  BY <1>2 DEF IInv, TypeOK
<1> QED
  BY <1>2, <1>3 DEF CInv, VersionsKnown, FetchTrue, AnswerTrue, PatchTrue,
                    CurrentUnlessMissed, Fetching

\* A device whose version is the server's has the server's catalog, unless it took over a
\* version across a change of somebody else or with the move of a row it does not have.
THEOREM DeviceIsCurrent == ClientSpec => []CurrentUnlessMissed
<1>1. ClientInit => CInv
  BY ClientInitCInv
<1>2. CInv /\ [ClientNext]_vars => CInv'
  BY ClientNextCInv
<1>3. CInv => CurrentUnlessMissed
  BY DEF CInv
<1> QED
  BY <1>1, <1>2, <1>3, PTL DEF ClientSpec

\* A step of the composed system is one of the server, or the server does not see it.
LEMMA ServerStep ==
    ASSUME CInv, [ClientNext]_vars
    PROVE  [Next]_dbvars
<1>1. CASE UNCHANGED vars
  BY <1>1 DEF vars
<1>2. CASE \E row \in EventIds \cup TagIds \cup Codes \cup DOMAIN Templates : Serve(row)
  <2>1. PICK row : Serve(row)
    BY <1>2
  <2>2. IInv /\ call.req \in Request /\ (HandleEvent(call.req, row) \/ HandleCategory(call.req, row))
    BY <2>1 DEF Serve, CInv, VersionsKnown
  <2>3. EventWrite \/ TagWrite \/ CategoryWrite
    BY <2>2, ServeKinds
  <2> QED
    BY <2>2, <2>3, NoRestart
<1>3. CASE Others
  <2>1. {} \in SUBSET TagIds
    OBVIOUS
  <2> QED
    BY <1>3, <2>1, NoRestart DEF Others, CInv
<1>4. CASE Restart
  BY <1>4 DEF Restart, Next
<1>5. CASE (\E r \in Request : Send(r)) \/ Answer \/ Fail \/ Receive
  BY <1>5 DEF Send, Answer, Fail, Receive
<1>6. CASE Load \/ ReadVersion \/ ReadCategories \/ ReadEvents \/ Loaded \/ LoadFails
  BY <1>6 DEF Load, ReadVersion, ReadCategories, ReadEvents, Loaded, LoadFails
<1> QED
  BY <1>1, <1>2, <1>3, <1>4, <1>5, <1>6 DEF ClientNext

\* Devices do nothing to the catalog that the server's specification does not have, so
\* its theorems hold beside any device.
THEOREM ServerInside == ClientSpec => Spec
<1>1. ClientInit => CInv /\ Init
  BY ClientInitCInv DEF ClientInit
<1>2. CInv /\ [ClientNext]_vars => CInv' /\ [Next]_dbvars
  BY ClientNextCInv, ServerStep
<1> QED
  BY <1>1, <1>2, PTL DEF ClientSpec, Spec
=============================================================================
