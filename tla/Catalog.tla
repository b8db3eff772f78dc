------------------------------ MODULE Catalog ------------------------------
(***************************************************************************)
(* The catalog of the server: category groups, categories, events and      *)
(* tags, which expenses and the sheet mapping refer to.  Every handler is  *)
(* one transaction (BEGIN IMMEDIATE), so every action here is one handler; *)
(* an expense that comes in first looks at its category and, if the        *)
(* category is inactive, activates it in a transaction of its own, and is  *)
(* inserted in a third step.  A handler that refuses its request (404,     *)
(* 409, 422) changes nothing: its action is not enabled.  Abstractions:    *)
(*   - dates, sort orders, taglines, sheet columns and the languages are   *)
(*     left out: a template bakes one name per category and group;         *)
(*   - an expense is the rows it refers to, and so is the sheet mapping.   *)
(***************************************************************************)
EXTENDS Integers, FiniteSets

CONSTANTS
    FactoryCodes,  \* codes of the categories of the packaged vocabularies
    UserCodes,     \* codes that create_category can produce: u_...
    MatchU,        \* the factory codes that match LIKE 'u_%', as utilities does
    GroupCodes,    \* codes of the groups that templates declare
    Labels,        \* names of categories
    GroupNames,    \* names of groups; a template bakes the code of the group
    EventNames,
    TagNames,
    Templates,     \* Templates[t]: the definition of template t
    Releases,      \* the packages a deployment may bring, the first one first
    MaxGroups, MaxEvents, MaxTags, MaxExpenses,  \* bounds: rows of the tables
    MaxVersion,    \* bound: catalog_version
    MaxBoots,      \* bound: restarts of the server
    NoRow, NoCode, NoTemplate, Same

Codes == FactoryCodes \cup UserCodes
GroupIds == 1..MaxGroups
EventIds == 1..MaxEvents
TagIds == 1..MaxTags
NoGroup == 0   \* group_id IS NULL
NoEvent == 0   \* event_id IS NULL

GroupRow == [code: GroupCodes \cup {NoCode}, name: GroupNames, active: BOOLEAN]
CategoryRow == [group: GroupIds \cup {NoGroup}, name: Labels,
                active: BOOLEAN, hidden: BOOLEAN, retired: BOOLEAN]
EventRow == [name: EventNames, tags: SUBSET TagIds, active: BOOLEAN]
TagRow == [name: TagNames, active: BOOLEAN]
Expense == [category: Codes, event: EventIds \cup {NoEvent}, tags: SUBSET TagIds]

\* loader.validate: a template places every code in a group it declares.
CoversVocabulary(t) == \A k \in FactoryCodes : t.place[k].group \in t.groups

\* A template: the groups it declares, and for every category the group it
\* belongs to, whether it is in the visible subset, and its name.
Template == [groups: SUBSET GroupCodes,
             place: [FactoryCodes -> [group: GroupCodes, visible: BOOLEAN, name: Labels]]]
Release == [vocabulary: SUBSET FactoryCodes, templates: SUBSET DOMAIN Templates]

ASSUME CodesAssumption ==
    /\ FactoryCodes \cap UserCodes = {} /\ MatchU \subseteq FactoryCodes
    /\ GroupCodes \subseteq GroupNames /\ IsFiniteSet(GroupCodes) /\ Labels # {}
ASSUME TemplatesAssumption ==
    \A t \in DOMAIN Templates : Templates[t] \in Template /\ CoversVocabulary(Templates[t])
ASSUME ReleasesAssumption ==
    DOMAIN Releases = 0..MaxBoots /\ \A b \in 0..MaxBoots : Releases[b] \in Release
ASSUME BoundsAssumption ==
    /\ MaxGroups \in Nat /\ MaxEvents \in Nat /\ MaxTags \in Nat
    /\ MaxVersion \in Nat /\ MaxBoots \in Nat /\ MaxExpenses \in Nat
ASSUME NullsAssumption ==
    /\ NoRow \notin GroupRow \cup CategoryRow \cup EventRow \cup TagRow
    /\ NoCode \notin GroupCodes /\ NoTemplate \notin DOMAIN Templates
    /\ Same \notin BOOLEAN \cup GroupNames \cup EventNames \cup TagNames
    /\ \A ts \in SUBSET TagIds : Same # ts

VARIABLES
    groups,      \* table category_groups
    categories,  \* table categories, by code
    events,      \* table events, with auto_tags
    tags,        \* table tags
    lastEvent,   \* the AUTOINCREMENT counter of events
    lastTag,     \* and the one of tags
    expenses,    \* what the rows of expenses and expense_tags refer to
    mapping,     \* the events and tags that sheet_mapping refers to
    version,     \* app_metadata.catalog_version
    template,    \* app_metadata.active_template
    boots,       \* restarts so far; Releases[boots] is deployed
    arriving     \* an expense of the category being recorded: its next step

tables == <<groups, categories, events, tags, lastEvent, lastTag>>
users == <<expenses, mapping, arriving>>
meta == <<template, boots>>
dbvars == <<tables, users, meta, version>>

Rows(table) == {i \in DOMAIN table : table[i] # NoRow}
Deployed == Releases[boots]
Largest(S) == CHOOSE n \in S : \A m \in S : m <= n
NextGroup == Largest(Rows(groups) \cup {0}) + 1

\* SELECT id FROM category_groups WHERE code = ?, NULL when there is none.
GroupId(code) ==
    IF \E g \in Rows(groups) : groups[g].code = code
    THEN CHOOSE g \in Rows(groups) : groups[g].code = code
    ELSE NoGroup

TypeOK ==
    /\ groups \in [GroupIds -> GroupRow \cup {NoRow}]
    /\ categories \in [Codes -> CategoryRow \cup {NoRow}]
    /\ events \in [EventIds -> EventRow \cup {NoRow}]
    /\ tags \in [TagIds -> TagRow \cup {NoRow}]
    /\ lastEvent \in 0..MaxEvents /\ lastTag \in 0..MaxTags
    /\ expenses \subseteq Expense
    /\ mapping \in [events: SUBSET EventIds, tags: SUBSET TagIds]
    /\ version \in Nat
    /\ template \in DOMAIN Templates \cup {NoTemplate}
    /\ boots \in 0..MaxBoots
    /\ arriving \in [Codes -> {"no", "activate", "insert"}]

(***************************************************************************)
(* The version.  The writers of groups, events and tags compare a hash of  *)
(* the catalog before and after; the hash leaves out the code of a group   *)
(* and whether a category is hidden or retired.  The writers of categories *)
(* and templates always count up.                                          *)
(***************************************************************************)
Hashed ==
    <<[g \in Rows(groups) |-> <<groups[g].name, groups[g].active>>],
      [k \in Rows(categories) |->
          <<categories[k].name, categories[k].group, categories[k].active>>],
      events, tags>>

CommitWithBump ==
    /\ version < MaxVersion
    /\ version' = version + (IF Hashed' = Hashed THEN 0 ELSE 1)
    /\ UNCHANGED <<users, meta>>

Bump ==
    /\ version < MaxVersion
    /\ version' = version + 1

\* A PATCH leaves a column alone that the body does not name.
Patched(old, new) == IF new = Same THEN old ELSE new

--------------------------------------------------------------------------
(* Category groups *)

AddGroup(name) ==
    /\ \/ \E g \in Rows(groups) :
             /\ groups[g].name = name
             /\ groups' = [groups EXCEPT ![g].active = TRUE]
       \/ /\ \A g \in Rows(groups) : groups[g].name # name
          /\ NextGroup \in GroupIds
          /\ groups' = [groups EXCEPT ![NextGroup] =
                           [code |-> NoCode, name |-> name, active |-> TRUE]]
    /\ UNCHANGED <<categories, events, tags, lastEvent, lastTag>>
    /\ CommitWithBump

EditGroup(g, name, active) ==
    /\ g \in Rows(groups)
    /\ \A h \in Rows(groups) \ {g} : groups[h].name # name
    /\ active = FALSE =>
          \A k \in Rows(categories) : ~(categories[k].group = g /\ categories[k].active)
    /\ groups' = [groups EXCEPT ![g].name = Patched(@, name), ![g].active = Patched(@, active)]
    /\ UNCHANGED <<categories, events, tags, lastEvent, lastTag>>
    /\ CommitWithBump

ActiveChildren(g) ==   \* mutant: an inactive category does not count
    {k \in Rows(categories) : categories[k].group = g /\ categories[k].active}
\* The children of g, active or not: any of them refuses the DELETE.
Children(g) == {k \in Rows(categories) : categories[k].group = g}

DeleteGroup(g) ==
    /\ g \in Rows(groups)
    /\ Children(g) = {}
    /\ groups' = [groups EXCEPT ![g] = NoRow]
    /\ UNCHANGED <<categories, events, tags, lastEvent, lastTag>>
    /\ CommitWithBump

--------------------------------------------------------------------------
(* Events and tags *)

\* References from expenses and mappings; auto_tags count as mapping of a tag.
EventUsed(e) == e \in mapping.events \/ \E x \in expenses : x.event = e
TagUsed(t) ==
    \/ t \in mapping.tags
    \/ \E x \in expenses : t \in x.tags
    \/ \E e \in Rows(events) : t \in events[e].tags

AddEvent(name, autoTags) ==
    /\ autoTags \subseteq Rows(tags)
    /\ \/ \E e \in Rows(events) :
             /\ events[e].name = name
             /\ events' = [events EXCEPT ![e].active = TRUE]
             /\ UNCHANGED lastEvent
       \/ /\ \A e \in Rows(events) : events[e].name # name
          /\ lastEvent < MaxEvents
          /\ lastEvent' = lastEvent + 1
          /\ events' = [events EXCEPT ![lastEvent + 1] =
                           [name |-> name, tags |-> autoTags, active |-> TRUE]]
    /\ UNCHANGED <<groups, categories, tags, lastTag>>
    /\ CommitWithBump

EditEvent(e, name, autoTags, active) ==
    /\ e \in Rows(events)
    /\ \A f \in Rows(events) \ {e} : events[f].name # name
    /\ autoTags # Same => autoTags \subseteq Rows(tags)
    /\ events' = [events EXCEPT ![e].name = Patched(@, name),
                                ![e].tags = Patched(@, autoTags),
                                ![e].active = Patched(@, active)]
    /\ UNCHANGED <<groups, categories, tags, lastEvent, lastTag>>
    /\ CommitWithBump

DeleteEvent(e) ==
    /\ e \in Rows(events)
    /\ events' = IF EventUsed(e) THEN [events EXCEPT ![e].active = FALSE]
                                 ELSE [events EXCEPT ![e] = NoRow]
    /\ UNCHANGED <<groups, categories, tags, lastEvent, lastTag>>
    /\ CommitWithBump

AddTag(name) ==
    /\ \/ \E t \in Rows(tags) :
             /\ tags[t].name = name
             /\ tags' = [tags EXCEPT ![t].active = TRUE]
             /\ UNCHANGED lastTag
       \/ /\ \A t \in Rows(tags) : tags[t].name # name
          /\ lastTag < MaxTags
          /\ lastTag' = lastTag + 1
          /\ tags' = [tags EXCEPT ![lastTag + 1] = [name |-> name, active |-> TRUE]]
    /\ UNCHANGED <<groups, categories, events, lastEvent>>
    /\ CommitWithBump

EditTag(t, name, active) ==
    /\ t \in Rows(tags)
    /\ \A u \in Rows(tags) \ {t} : tags[u].name # name
    /\ tags' = [tags EXCEPT ![t].name = Patched(@, name), ![t].active = Patched(@, active)]
    /\ UNCHANGED <<groups, categories, events, lastEvent, lastTag>>
    /\ CommitWithBump

DeleteTag(t) ==
    /\ t \in Rows(tags)
    /\ tags' = IF TagUsed(t) THEN [tags EXCEPT ![t].active = FALSE]
                             ELSE [tags EXCEPT ![t] = NoRow]
    /\ UNCHANGED <<groups, categories, events, lastEvent, lastTag>>
    /\ CommitWithBump

--------------------------------------------------------------------------
(* Categories *)

\* The group the active template puts category k in: in its visible or its
\* hidden part, which together list the vocabulary of the release.
PlacedBy(t, k) ==
    IF t \in Deployed.templates /\ k \in Deployed.vocabulary
    THEN GroupId(Templates[t].place[k].group) ELSE NoGroup

\* activate_category: a category without a group gets the one of the active
\* template; it is refused when no template lists it, but not when the group
\* the template names has no row.
Activated(k) ==
    /\ k \in Rows(categories)
    /\ categories[k].group = NoGroup =>
          template \in Deployed.templates /\ k \in Deployed.vocabulary
    /\ categories' = [categories EXCEPT
           ![k].group = IF @ = NoGroup THEN PlacedBy(template, k) ELSE @,
           ![k].active = TRUE, ![k].hidden = FALSE]
    /\ UNCHANGED <<groups, events, tags, lastEvent, lastTag>>
    /\ Bump

Activate(k) == Activated(k) /\ UNCHANGED <<users, meta>>

SetCategoryHashed(k, row) ==   \* mutant: these writers use the hash too
    /\ categories' = [categories EXCEPT ![k] = row]
    /\ UNCHANGED <<groups, events, tags, lastEvent, lastTag>>
    /\ CommitWithBump

\* The other writers of one category: a column of its row is set.
SetCategory(k, row) ==
    /\ categories' = [categories EXCEPT ![k] = row]
    /\ UNCHANGED <<groups, events, tags, lastEvent, lastTag, users, meta>>
    /\ Bump

Hide(k) == k \in Rows(categories) /\ SetCategory(k, [categories[k] EXCEPT !.hidden = TRUE])
Unhide(k) == k \in Rows(categories) /\ SetCategory(k, [categories[k] EXCEPT !.hidden = FALSE])
Rename(k, name) ==
    k \in Rows(categories) /\ SetCategory(k, [categories[k] EXCEPT !.name = name])
Move(k, code) ==
    /\ k \in Rows(categories)
    /\ GroupId(code) # NoGroup
    /\ SetCategory(k, [categories[k] EXCEPT !.group = GroupId(code)])
Create(k, name, code) ==
    /\ k \in UserCodes \ Rows(categories)
    /\ GroupId(code) # NoGroup
    /\ SetCategory(k, [group |-> GroupId(code), name |-> name,
                       active |-> TRUE, hidden |-> FALSE, retired |-> FALSE])

\* apply_template: every category of the vocabulary gets the group and the name
\* of template t, and is active when t shows it or an expense uses it.
UsedCodes == {x.category : x \in expenses}
AppliedBlind(t, k) ==   \* mutant: nobody looks for expenses
    [categories[k] EXCEPT !.group = PlacedBy(t, k),
                          !.name = Templates[t].place[k].name,
                          !.active = Templates[t].place[k].visible]
AppliedShown(t, k) ==   \* mutant: what the template shows is shown
    [categories[k] EXCEPT !.group = PlacedBy(t, k), !.active = TRUE, !.hidden = FALSE]
Applied(t, k) ==
    [categories[k] EXCEPT !.group = PlacedBy(t, k),
                          !.name = Templates[t].place[k].name,
                          !.active = Templates[t].place[k].visible \/ k \in UsedCodes]
Apply(t) ==
    /\ t \in Deployed.templates
    /\ groups' = [g \in GroupIds |->
           IF g \in Rows(groups) /\ groups[g].code \in Templates[t].groups
           THEN [groups[g] EXCEPT !.name = groups[g].code] ELSE groups[g]]
    /\ categories' = [k \in Codes |->
           IF k \in Deployed.vocabulary THEN Applied(t, k) ELSE categories[k]]
    /\ template' = t
    /\ UNCHANGED <<events, tags, lastEvent, lastTag, users, boots>>
    /\ Bump

--------------------------------------------------------------------------
(* The server starts: bootstrap_categories reconciles the catalog with the *)
(* package.  It never counts the version up.                               *)

FreshCategory(k) == [group |-> NoGroup, name |-> CHOOSE n \in Labels : TRUE,
                     active |-> FALSE, hidden |-> FALSE, retired |-> FALSE]

\* Factory categories that dropped out of the package; the pattern that is to
\* spare the categories of the user spares some factory codes too.
Vanished(r) == Rows(categories) \ (r.vocabulary \cup MatchU \cup UserCodes)

Reconciled(k, r) ==
    CASE k \in r.vocabulary /\ categories[k] = NoRow -> FreshCategory(k)
      [] k \in r.vocabulary /\ categories[k] # NoRow ->
             [categories[k] EXCEPT !.retired = FALSE]
      [] k \in Vanished(r) -> [categories[k] EXCEPT !.active = FALSE, !.retired = TRUE]
      [] OTHER -> categories[k]

\* The groups of the templates that have no row, in the order of new ids.
Missing(r) == UNION {Templates[t].groups : t \in r.templates}
                 \ {groups[g].code : g \in Rows(groups)}
NewGroups(codes, first) ==
    CHOOSE f \in [first..(first + Cardinality(codes) - 1) -> codes] :
        \A c \in codes : \E g \in DOMAIN f : f[g] = c

Reseed(r) ==
    LET new == NewGroups(Missing(r), NextGroup)
    IN  /\ DOMAIN new \subseteq GroupIds
        /\ groups' = [g \in GroupIds |->
               IF g \in DOMAIN new
               THEN [code |-> new[g], name |-> new[g], active |-> TRUE] ELSE groups[g]]
        /\ categories' = [k \in Codes |-> Reconciled(k, r)]

\* A template that left the package is deleted, and is not the active one then.
Surviving(r) == IF template \in r.templates THEN template ELSE NoTemplate

Boot ==
    /\ boots < MaxBoots
    /\ boots' = boots + 1
    /\ Reseed(Releases[boots + 1])
    /\ template' = Surviving(Releases[boots + 1])
    /\ arriving' = [k \in Codes |-> "no"]
    /\ UNCHANGED <<events, tags, lastEvent, lastTag, expenses, mapping, version>>

--------------------------------------------------------------------------
(* Expenses and the sheet mapping, as far as they concern the catalog *)

\* _resolve_category_for_write: a retired or a hidden category is refused, an
\* inactive one is going to be activated.
CheckCategory(k) ==
    /\ arriving = [c \in Codes |-> "no"]   \* bound: one expense at a time
    /\ k \in Rows(categories) /\ ~categories[k].retired /\ ~categories[k].hidden
    /\ arriving' = [arriving EXCEPT ![k] =
                       IF categories[k].active THEN "insert" ELSE "activate"]
    /\ UNCHANGED <<tables, expenses, mapping, meta, version>>

ActivateForExpense(k) ==
    /\ arriving[k] = "activate"
    /\ Activated(k)
    /\ arriving' = [arriving EXCEPT ![k] = "insert"]
    /\ UNCHANGED <<expenses, mapping, meta>>

\* The expense is refused after all: no group for its category, an unknown
\* event or tag, no exchange rate.  An activation made for it stays.
RefuseExpense(k) ==
    /\ arriving[k] # "no"
    /\ arriving' = [arriving EXCEPT ![k] = "no"]
    /\ UNCHANGED <<tables, expenses, mapping, meta, version>>

\* insert_expense: the tags of the request and those of the event, which all
\* have to exist.
InsertExpense(k, e, chosen) ==
    LET attached == IF e = NoEvent THEN chosen ELSE chosen \cup events[e].tags
    IN  /\ arriving[k] = "insert"
        /\ e = NoEvent \/ e \in Rows(events)
        /\ attached \subseteq Rows(tags)
        /\ expenses' = expenses \cup {[category |-> k, event |-> e, tags |-> attached]}
        /\ Cardinality(expenses') <= MaxExpenses
        /\ arriving' = [arriving EXCEPT ![k] = "no"]
        /\ UNCHANGED <<tables, mapping, meta, version>>

DeleteExpense(x) ==
    /\ x \in expenses
    /\ expenses' = expenses \ {x}
    /\ UNCHANGED <<tables, mapping, arriving, meta, version>>

\* The map tab is loaded again: any rows of the catalog, active or not.
ReloadMapping(es, ts) ==
    /\ es \subseteq Rows(events) /\ ts \subseteq Rows(tags)
    /\ mapping' = [events |-> es, tags |-> ts]
    /\ UNCHANGED <<tables, expenses, arriving, meta, version>>

--------------------------------------------------------------------------

\* The first start on a migrated database, before anybody picked a template.
Init ==
    LET all == UNION {Templates[t].groups : t \in Releases[0].templates}
        first == NewGroups(all, 1)
    IN  /\ groups = [g \in GroupIds |->
               IF g \in DOMAIN first
               THEN [code |-> first[g], name |-> first[g], active |-> TRUE] ELSE NoRow]
        /\ categories = [k \in Codes |->
               IF k \in Releases[0].vocabulary THEN FreshCategory(k) ELSE NoRow]
        /\ events = [e \in EventIds |-> NoRow] /\ lastEvent = 0
        /\ tags = [t \in TagIds |-> NoRow] /\ lastTag = 0
        /\ expenses = {} /\ mapping = [events |-> {}, tags |-> {}]
        /\ version = 1 /\ template = NoTemplate /\ boots = 0
        /\ arriving = [k \in Codes |-> "no"]

GroupWrite ==
    \/ \E n \in GroupNames : AddGroup(n)
    \/ \E g \in GroupIds, n \in GroupNames \cup {Same}, a \in BOOLEAN \cup {Same} :
           EditGroup(g, n, a)
    \/ \E g \in GroupIds : DeleteGroup(g)

EventWrite ==
    \/ \E n \in EventNames, ts \in SUBSET TagIds : AddEvent(n, ts)
    \/ \E e \in EventIds, n \in EventNames \cup {Same},
          ts \in (SUBSET TagIds) \cup {Same}, a \in BOOLEAN \cup {Same} :
           EditEvent(e, n, ts, a)
    \/ \E e \in EventIds : DeleteEvent(e)

TagWrite ==
    \/ \E n \in TagNames : AddTag(n)
    \/ \E t \in TagIds, n \in TagNames \cup {Same}, a \in BOOLEAN \cup {Same} :
           EditTag(t, n, a)
    \/ \E t \in TagIds : DeleteTag(t)

CategoryWrite ==
    \/ \E k \in Codes : Activate(k) \/ Hide(k) \/ Unhide(k)
    \/ \E k \in Codes, n \in Labels : Rename(k, n)
    \/ \E k \in Codes, code \in GroupCodes : Move(k, code)
    \/ \E k \in Codes, n \in Labels, code \in GroupCodes : Create(k, n, code)
    \/ \E t \in DOMAIN Templates : Apply(t)

Ingest ==
    \/ \E k \in Codes : CheckCategory(k) \/ ActivateForExpense(k) \/ RefuseExpense(k)
    \/ \E k \in Codes, e \in EventIds \cup {NoEvent}, ts \in SUBSET TagIds :
           InsertExpense(k, e, ts)
    \/ \E x \in expenses : DeleteExpense(x)
    \/ \E es \in SUBSET EventIds, ts \in SUBSET TagIds : ReloadMapping(es, ts)

Next == GroupWrite \/ EventWrite \/ TagWrite \/ CategoryWrite \/ Ingest \/ Boot

Spec == Init /\ [][Next]_dbvars

--------------------------------------------------------------------------
(* Properties *)

\* What GET /api/catalog shows: a category without a group is not in it, since
\* the query joins the groups.
Content ==
    [groups |-> groups, events |-> events, tags |-> tags,
     categories |-> [k \in Codes |->
         IF k \in Rows(categories) /\ categories[k].group \in Rows(groups)
         THEN categories[k] ELSE NoRow]]

\* Nothing in the catalog is deleted while something refers to it: a category
\* to its group, an event to its auto tags (a JSON list no foreign key guards),
\* an expense to its category, event and tags, a row of the map to its event
\* and tags.  The counts of delete_group, delete_event and delete_tag and the
\* checks of everything that makes a reference have to agree on what counts.
NoDangling ==
    /\ \A k \in Rows(categories) : categories[k].group \in Rows(groups) \cup {NoGroup}
    /\ \A e \in Rows(events) : events[e].tags \subseteq Rows(tags)
    /\ \A x \in expenses :
          /\ x.category \in Rows(categories)
          /\ x.event \in Rows(events) \cup {NoEvent}
          /\ x.tags \subseteq Rows(tags)
    /\ mapping.events \subseteq Rows(events) /\ mapping.tags \subseteq Rows(tags)

\* Both: the tables are well formed and no reference in them dangles.
Consistent == TypeOK /\ NoDangling

\* catalog-api.md: catalog_version is the ETag.  Whatever a request changes in
\* the answer of GET /api/catalog moves the version, although the hash that
\* decides it does not cover every column and half of the writers do not use it.
VersionMarks ==
    [][Content' # Content /\ boots' = boots => version' > version]_dbvars

\* category-templates.md: applying a template never deactivates a category that
\* has expenses, and no other request does; only a retirement at a start may.
UsedStaysActive ==
    [][\A k \in UsedCodes : categories[k].active /\ boots' = boots
           => categories'[k].active]_dbvars

\* category-templates.md: a category the user hid is not shown again by a
\* template, a start, or a map reload, but only by a request that names it; an
\* expense counts as one if it found the category not hidden when it came in.
HiddenSticky ==
    [][\A k \in Rows(categories) : categories[k].hidden /\ ~categories'[k].hidden
           => arriving[k] = "activate" \/ (\A j \in Codes \ {k} : categories'[j] = categories[j])]_dbvars

\* activate_category: is_active with group_id NULL is never a valid state.
CategoryPlaced ==
    \A k \in Rows(categories) : categories[k].active => categories[k].group # NoGroup
=============================================================================
