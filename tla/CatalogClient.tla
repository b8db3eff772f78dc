--------------------------- MODULE CatalogClient ---------------------------
(***************************************************************************)
(* A device and its cached snapshot of the catalog (stores/catalog.js),    *)
(* next to a server that other devices and the API change too.  A request  *)
(* of the device is four steps: it is sent, the handler commits, the       *)
(* handler reads the version (and, for add and activate, the row) for its  *)
(* answer, the answer arrives.  The device does not load the catalog then: *)
(* it patches its snapshot with what it asked for and takes over the       *)
(* version of the answer.  GET /api/catalog reads the version, the groups  *)
(* and categories, and the events and tags in separate statements outside  *)
(* a transaction, and answers 304 when the version is the one the device   *)
(* has.  The pages of the app send no requests for category groups.        *)
(***************************************************************************)
EXTENDS Catalog

VARIABLES
    snap,    \* the device's snapshot, as Content
    cver,    \* its catalog_version
    call,    \* its outstanding write, NoCall if none
    fetch,   \* its outstanding GET, NoCall if none
    missed   \* history: it took over a version that covers a change its snapshot lacks

dvars == <<snap, cver, call, fetch, missed>>
vars == <<dbvars, dvars>>
NoCall == [at |-> "none"]

--------------------------------------------------------------------------
(* Requests *)

\* What a device may ask for; id and arg as the server's actions take them.
Request ==
    [op: {"add_event"}, id: EventNames, arg: SUBSET TagIds] \cup
    [op: {"add_tag"}, id: TagNames, arg: {Same}] \cup
    [op: {"name_event"}, id: EventIds, arg: EventNames] \cup
    [op: {"tag_event"}, id: EventIds, arg: SUBSET TagIds] \cup
    [op: {"set_event"}, id: EventIds, arg: BOOLEAN] \cup
    [op: {"name_tag"}, id: TagIds, arg: TagNames] \cup
    [op: {"set_tag"}, id: TagIds, arg: BOOLEAN] \cup
    [op: {"delete_event"}, id: EventIds, arg: {Same}] \cup
    [op: {"delete_tag"}, id: TagIds, arg: {Same}] \cup
    [op: {"activate", "hide", "unhide"}, id: Codes, arg: {Same}] \cup
    [op: {"rename"}, id: Codes, arg: Labels] \cup
    [op: {"move"}, id: Codes, arg: GroupCodes] \cup
    [op: {"create"}, id: Labels, arg: GroupCodes] \cup
    [op: {"apply"}, id: DOMAIN Templates, arg: {Same}]

\* The buttons a device offers: rows its snapshot has.
Offered(r) ==
    CASE r.op \in {"name_event", "tag_event", "set_event", "delete_event"} ->
             r.id \in Rows(snap.events)
      [] r.op \in {"name_tag", "set_tag", "delete_tag"} -> r.id \in Rows(snap.tags)
      [] r.op \in {"activate", "hide", "unhide", "rename", "move"} ->
             r.id \in Rows(snap.categories)
      [] OTHER -> TRUE

\* The requests whose answer carries the row, and what kinds of rows others name.
Makers == {"add_event", "add_tag", "activate", "create"}
EventOps == {"add_event", "name_event", "tag_event", "set_event", "delete_event"}
TagOps == {"add_tag", "name_tag", "set_tag", "delete_tag"}
Named(table, name) == {i \in Rows(table) : table[i].name = name}
RowIn(content, r, row) ==
    CASE r.op \in EventOps -> content.events[row]
      [] r.op \in TagOps -> content.tags[row]
      [] r.op = "apply" -> NoRow
      [] OTHER -> content.categories[row]

Send(r) ==
    /\ call = NoCall /\ Offered(r)
    /\ call' = [at |-> "sent", req |-> r]
    /\ UNCHANGED <<dbvars, snap, cver, fetch, missed>>

\* The endpoints of events and tags, each with the row it works on or makes.
HandleEvent(r, row) ==
    \/ r.op = "add_event" /\ AddEvent(r.id, r.arg) /\ row \in Named(events', r.id)
    \/ r.op = "add_tag" /\ AddTag(r.id) /\ row \in Named(tags', r.id)
    \/ /\ row = r.id
       /\ \/ r.op = "name_event" /\ EditEvent(row, r.arg, Same, Same)
          \/ r.op = "tag_event" /\ EditEvent(row, Same, r.arg, Same)
          \/ r.op = "set_event" /\ EditEvent(row, Same, Same, r.arg)
          \/ r.op = "name_tag" /\ EditTag(row, r.arg, Same)
          \/ r.op = "set_tag" /\ EditTag(row, Same, r.arg)
          \/ r.op = "delete_event" /\ DeleteEvent(row)
          \/ r.op = "delete_tag" /\ DeleteTag(row)

\* And those of categories and templates.
HandleCategory(r, row) ==
    \/ r.op = "create" /\ Create(row, r.id, r.arg)
    \/ /\ row = r.id
       /\ \/ r.op = "activate" /\ Activate(row)
          \/ r.op = "hide" /\ Hide(row)
          \/ r.op = "unhide" /\ Unhide(row)
          \/ r.op = "rename" /\ Rename(row, r.arg)
          \/ r.op = "move" /\ Move(row, r.arg)
          \/ r.op = "apply" /\ Apply(row)

\* A request is carried out; base and own are the versions around its commit.
\* The answer to a DELETE says whether the row is gone (delete_status).
Serve(row) ==
    /\ call.at = "sent"
    /\ HandleEvent(call.req, row) \/ HandleCategory(call.req, row)
    /\ call' = [at |-> "served", req |-> call.req, row |-> row, base |-> version,
                own |-> version',
                gone |-> CASE call.req.op = "delete_event" -> events'[row] = NoRow
                           [] call.req.op = "delete_tag" -> tags'[row] = NoRow
                           [] OTHER -> FALSE]
    /\ UNCHANGED <<snap, cver, fetch, missed>>

\* What the answer to a request shows: a row, or for a template the whole catalog.
Shown(content, r, row) ==
    CASE r.op = "apply" -> content
      [] r.op \in Makers -> RowIn(content, r, row)
      [] OTHER -> NoRow

\* The handler reads the version and the row its answer shows; a row that is
\* gone by now, or a category without a group, is an error instead.
Answer ==
    /\ call.at = "served"
    /\ call.req.op \in Makers => RowIn(Content, call.req, call.row) # NoRow
    /\ call' = [at |-> "answered", req |-> call.req, row |-> call.row, base |-> call.base,
                own |-> call.own, gone |-> call.gone, ver |-> version,
                shown |-> Shown(Content, call.req, call.row)]
    /\ UNCHANGED <<dbvars, snap, cver, fetch, missed>>

\* The request or its answer is lost, or the server refuses: the app shows an
\* error and leaves its snapshot alone.
Fail ==
    /\ call # NoCall
    /\ call' = NoCall
    /\ UNCHANGED <<dbvars, snap, cver, fetch, missed>>

--------------------------------------------------------------------------
(* The snapshot *)

\* The local patch of snapshot s after an answered request; a row the snapshot
\* lacks is only added by a request whose answer shows it.
PatchRow(s, r, old, answer) ==
    IF r.op \in Makers THEN answer.shown ELSE IF old = NoRow THEN NoRow ELSE
    CASE r.op \in {"name_event", "name_tag", "rename"} -> [old EXCEPT !.name = r.arg]
      [] r.op = "tag_event" -> [old EXCEPT !.tags = r.arg]
      [] r.op \in {"set_event", "set_tag"} -> [old EXCEPT !.active = r.arg]
      [] r.op \in {"delete_event", "delete_tag"} ->
             IF answer.gone THEN NoRow ELSE [old EXCEPT !.active = FALSE]
      [] r.op = "hide" -> [old EXCEPT !.hidden = TRUE]
      [] r.op = "unhide" -> [old EXCEPT !.hidden = FALSE]
      [] r.op = "move" ->
             IF \E g \in Rows(s.groups) : s.groups[g].code = r.arg
             THEN [old EXCEPT !.group = CHOOSE g \in Rows(s.groups) : s.groups[g].code = r.arg]
             ELSE old

Patch(s, answer) ==
    LET r == answer.req
        new == PatchRow(s, r, RowIn(s, r, answer.row), answer)
    IN  CASE r.op = "apply" -> answer.shown
          [] r.op \in EventOps -> [s EXCEPT !.events[answer.row] = new]
          [] r.op \in TagOps -> [s EXCEPT !.tags[answer.row] = new]
          [] OTHER -> [s EXCEPT !.categories[answer.row] = new]

\* Nothing happened between the state the snapshot shows and the answer but
\* the request itself, or the snapshot is as new as the answer.
Seamless(answer) == answer.ver = answer.own /\ cver \in {answer.base, answer.own}

\* The move of a category that has lost its group, and the device with it the row,
\* since it was asked for: the category is back, but not in the snapshot.
Unplaced(s, answer) == answer.req.op = "move" /\ s.categories[answer.row] = NoRow

Receive ==
    /\ call.at = "answered"
    /\ snap' = Patch(snap, call)
    /\ cver' = call.ver
    /\ missed' = IF call.req.op = "apply" THEN FALSE
                 ELSE missed \/ ~Seamless(call) \/ Unplaced(snap, call)
    /\ call' = NoCall
    /\ UNCHANGED <<dbvars, fetch>>

Load ==
    /\ fetch = NoCall
    /\ fetch' = [at |-> "sent", seen |-> cver]
    /\ UNCHANGED <<dbvars, snap, cver, call, missed>>

ReadVersion ==
    /\ fetch.at = "sent"
    /\ fetch' = [at |-> "version", seen |-> fetch.seen, ver |-> version]
    /\ UNCHANGED <<dbvars, snap, cver, call, missed>>

ReadCategories ==
    /\ fetch.at = "version"
    /\ fetch' = [at |-> "categories", seen |-> fetch.seen, ver |-> fetch.ver,
                 groups |-> groups, categories |-> Content.categories]
    /\ UNCHANGED <<dbvars, snap, cver, call, missed>>

ReadEventsFirst ==   \* mutant: the version is read last
    /\ fetch.at = "categories"
    /\ fetch' = [at |-> "answered", seen |-> fetch.seen, ver |-> version,
                 shown |-> [groups |-> fetch.groups, categories |-> fetch.categories,
                            events |-> events, tags |-> tags]]
    /\ UNCHANGED <<dbvars, snap, cver, call, missed>>

ReadEvents ==
    /\ fetch.at = "categories"
    /\ fetch' = [at |-> "answered", seen |-> fetch.seen, ver |-> fetch.ver,
                 shown |-> [groups |-> fetch.groups, categories |-> fetch.categories,
                            events |-> events, tags |-> tags]]
    /\ UNCHANGED <<dbvars, snap, cver, call, missed>>

\* _etag_response: 304 if the device has the version that was read.
NotModified(answer) == answer.ver = answer.seen

Loaded ==
    /\ fetch.at = "answered"
    /\ IF NotModified(fetch)
       THEN UNCHANGED <<snap, cver, missed>>
       ELSE snap' = fetch.shown /\ cver' = fetch.ver /\ missed' = FALSE
    /\ fetch' = NoCall
    /\ UNCHANGED <<dbvars, call>>

LoadFails ==
    /\ fetch # NoCall
    /\ fetch' = NoCall
    /\ UNCHANGED <<dbvars, snap, cver, call, missed>>

--------------------------------------------------------------------------

ClientInit ==
    /\ Init
    /\ snap = Content /\ cver = version
    /\ call = NoCall /\ fetch = NoCall /\ missed = FALSE

\* Other devices, the API and the map tab.  What an expense does to the catalog
\* is an activation, which is among them.
Others ==
    /\ \/ GroupWrite \/ EventWrite \/ TagWrite \/ CategoryWrite
       \/ \E es \in SUBSET EventIds : ReloadMapping(es, {})
    /\ UNCHANGED dvars

\* A restart drops the connections; what it changes no version tells.
Restart ==
    /\ Boot
    /\ call' = NoCall /\ fetch' = NoCall
    /\ missed' = (missed \/ Content' # Content)
    /\ UNCHANGED <<snap, cver>>

ClientNext ==
    \/ \E r \in Request : Send(r)
    \/ \E row \in EventIds \cup TagIds \cup Codes \cup DOMAIN Templates : Serve(row)
    \/ Answer \/ Fail \/ Receive
    \/ Load \/ ReadVersion \/ ReadCategories \/ ReadEvents \/ Loaded \/ LoadFails
    \/ Others \/ Restart

ClientSpec == ClientInit /\ [][ClientNext]_vars

--------------------------------------------------------------------------
(* Properties *)

\* A device whose version is the server's has the server's catalog: its patches
\* do to the snapshot what the handlers did to the tables, and a version that
\* is taken over, or a 304, never hides a change.  What hides changes is only
\* what missed records: a version taken over across a change of somebody else, or
\* with the move of a category the snapshot does not have any more.
CurrentUnlessMissed == cver = version /\ ~missed => snap = Content

\* frontend-cache.md: changes made on other devices are picked up by the next
\* refresh.  A device that has the server's version is answered 304, so it has
\* to have the server's catalog.
RefreshPicksUp == cver = version => snap = Content
=============================================================================
