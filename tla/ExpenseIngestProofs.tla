------------------------ MODULE ExpenseIngestProofs ------------------------
(***************************************************************************)
(* Theorems about ExpenseIngest, for any number of expenses, tabs, threads *)
(* of the server, events and tags, lost answers, restarts and changes.     *)
(***************************************************************************)
EXTENDS ExpenseIngest, FiniteSetTheorems, TLAPS

Flush == [pc: {"idle", "flush", "wait"}, items: Seq(Clients)]

Typed ==
    /\ queue \in Seq(Clients)
    /\ tab \in [Tabs -> Flush] /\ \A t \in Tabs : tab[t].pc # "idle" => tab[t].items # <<>>
    /\ req \in [Requests -> Request]
    /\ rows \in [RowIds -> Row \cup {NoRow}]
    /\ lastRow \in 0..MaxRows /\ Recorded \subseteq 1..lastRow
    /\ category \in CategoryStatus
    /\ event \in [Events -> RowStatus] /\ tag \in [Tags -> RowStatus]
    /\ auto \in [Events -> SUBSET Tags]

\* The tags of a row or a request are those chosen and the auto_tags of the
\* event, which are all tags until somebody changes them.
TagsAsSent(c, ts) ==
    LET p == Payload[c]
    IN  /\ p.tags \subseteq ts /\ ts \subseteq Tags
        /\ p.event = NoEvent => ts = p.tags
        /\ p.event # NoEvent /\ p.event \notin retagged /\ event[p.event] # "gone" => ts = Tags

Later == {"event", "tags", "convert", "attach", "insert", "compare"}

ReqSound(q) ==
    /\ q.pc # "idle" => q.client \in Clients
    /\ q.pc = "answer" /\ q.result \in Settled => RowsOf(q.client) # {} \/ q.client \in deleted
    /\ q.pc \in Later => category # "unplaced"
    /\ q.pc \in {"insert", "compare"} => TagsAsSent(q.client, q.tags)

RequestsSound == \A r \in Requests : ReqSound(req[r])

\* What a row refers to exists, and a row nobody edited is as it was sent.
RowSound(row) ==
    /\ row.event # NoEvent => event[row.event] # "gone"
    /\ \A t \in row.tags : tag[t] # "gone"
    /\ ~row.edited => row.event = Payload[row.client].event /\ TagsAsSent(row.client, row.tags)

RowsSound == \A i \in Recorded : RowSound(rows[i])

OneRow == \A i, j \in Recorded : rows[i].client = rows[j].client => i = j

Placed == Recorded # {} => category # "unplaced"

AutoAtFirst == \A e \in Events : e \notin retagged /\ event[e] # "gone" => auto[e] = Tags

IInv ==
    /\ Typed /\ RequestsSound /\ RowsSound /\ OneRow /\ Placed /\ AutoAtFirst
    /\ NothingLost

--------------------------------------------------------------------------
(* The queue *)

LEMMA QueueKeepsOthers ==
    ASSUME NEW q \in Seq(Clients), NEW c
    PROVE  /\ Without(q, c) \in Seq(Clients)
           /\ \A n \in 1..Len(q) : q[n] # c =>
                 \E m \in 1..Len(Without(q, c)) : Without(q, c)[m] = q[n]
<1>1. CASE ~\E n \in 1..Len(q) : q[n] = c
  BY <1>1 DEF Without
<1>2. CASE \E n \in 1..Len(q) : q[n] = c
  <2> DEFINE k == CHOOSE n \in 1..Len(q) : q[n] = c
             a == SubSeq(q, 1, k - 1)
             b == SubSeq(q, k + 1, Len(q))
  <2>1. k \in 1..Len(q) /\ q[k] = c /\ Without(q, c) = a \o b
    BY <1>2 DEF Without
  <2> HIDE DEF k
  <2>2. /\ a \in Seq(Clients) /\ Len(a) = k - 1 /\ \A n \in 1..(k - 1) : a[n] = q[n]
    BY <2>1
  <2>3. /\ b \in Seq(Clients) /\ Len(b) = Len(q) - k
        /\ \A n \in 1..(Len(q) - k) : b[n] = q[n + k]
    BY <2>1
  <2> HIDE DEF a, b
  <2>4. a \o b \in Seq(Clients) /\ Len(a \o b) = Len(q) - 1
    <3>1. a \o b \in Seq(Clients) /\ Len(a \o b) = Len(a) + Len(b)
      BY <2>2, <2>3
    <3> QED
      BY <2>1, <2>2, <2>3, <3>1
  <2>5. ASSUME NEW n \in 1..Len(q), q[n] # c
        PROVE  \E m \in 1..Len(a \o b) : (a \o b)[m] = q[n]
    <3>1. CASE n < k
      <4>1. n \in 1..Len(a) /\ n \in 1..Len(a \o b)
        BY <2>1, <2>2, <2>4, <2>5, <3>1
      <4>2. (a \o b)[n] = a[n] /\ a[n] = q[n]
        BY <2>2, <2>3, <4>1
      <4> QED
        BY <4>1, <4>2
    <3>2. CASE n > k
      <4>1. n - 1 \in 1..Len(a \o b) /\ n - k \in 1..Len(b) /\ k \in Nat /\ n \in Nat
        BY <2>1, <2>3, <2>4, <2>5, <3>2
      <4>2. (a \o b)[n - 1] = b[n - 1 - Len(a)] /\ n - 1 - Len(a) = n - k
        BY <2>2, <2>3, <4>1
      <4>3. b[n - k] = q[n]
        BY <2>1, <2>3, <4>1
      <4> QED
        BY <4>1, <4>2, <4>3
    <3> QED
      BY <2>1, <2>5, <3>1, <3>2
  <2> QED
    BY <2>1, <2>4, <2>5
<1> QED
  BY <1>1, <1>2


--------------------------------------------------------------------------
(* Steps of the device and of the threads *)

LEMMA SameRows ==
    ASSUME UNCHANGED rows
    PROVE  Recorded' = Recorded /\ \A c : RowsOf(c)' = RowsOf(c)
BY DEF Recorded, RowsOf

\* One request moves on; rows, events and tags stay as they are.
LEMMA OneRequest ==
    ASSUME IInv, NEW r \in Requests, NEW q \in Request, req' = [req EXCEPT ![r] = q],
           UNCHANGED <<rows, lastRow, deleted, event, tag, auto, retagged>>,
           category' \in CategoryStatus, category' = "unplaced" => category = "unplaced",
           queue' \in Seq(Clients), tab' \in [Tabs -> Flush],
           \A t \in Tabs : tab'[t].pc # "idle" => tab'[t].items # <<>>,
           NothingLost',
           q.pc # "idle" => q.client \in Clients,
           q.pc = "answer" /\ q.result \in Settled
              => RowsOf(q.client) # {} \/ q.client \in deleted,
           q.pc \in Later => category' # "unplaced",
           q.pc \in {"insert", "compare"} => TagsAsSent(q.client, q.tags)
    PROVE  IInv'
<1>1. Recorded' = Recorded /\ \A c : RowsOf(c)' = RowsOf(c)
  BY SameRows
<1>2. req' \in [Requests -> Request] /\ \A u \in Requests : req'[u] = IF u = r THEN q ELSE req[u]
  BY DEF IInv, Typed
<1>3. Typed'
  BY <1>1, <1>2 DEF IInv, Typed
<1>4. RequestsSound'
  <2>1. SUFFICES ASSUME NEW u \in Requests PROVE ReqSound(req[u])'
    BY DEF RequestsSound
  <2>2. CASE u = r
    BY <1>1, <1>2, <2>2 DEF ReqSound, TagsAsSent
  <2>3. CASE u # r
    <3>1. req'[u] = req[u] /\ ReqSound(req[u])
      BY <1>2, <2>3 DEF IInv, RequestsSound
    <3> QED
      BY <1>1, <3>1 DEF ReqSound, TagsAsSent, Later
  <2> QED
    BY <2>2, <2>3
<1>5. RowsSound' /\ OneRow' /\ Placed' /\ AutoAtFirst'
  BY <1>1 DEF IInv, RowsSound, RowSound, TagsAsSent, OneRow, Placed, AutoAtFirst
<1> QED
  BY <1>3, <1>4, <1>5 DEF IInv

LEMMA IdleRequest == Idle \in Request /\ Idle.pc = "idle"
BY DEF Idle, Request, Used, Results

\* What the device does to its queue keeps every item but a settled one.
LEMMA StillQueued ==
    ASSUME IInv, UNCHANGED <<rows, deleted>>, entered' = entered, queue' = queue
    PROVE  NothingLost'
BY SameRows DEF IInv, NothingLost, Queued

LEMMA EnterStep ==
    ASSUME IInv, NEW c \in Clients, Enter(c)
    PROVE  IInv'
<1>1. /\ entered' = entered \cup {c} /\ queue' = Append(queue, c)
      /\ UNCHANGED <<tab, req, rows, lastRow, deleted, category, event, tag, auto, retagged>>
  BY DEF Enter, table, catalog
<1>2. queue \in Seq(Clients) /\ queue' \in Seq(Clients)
  BY <1>1 DEF IInv, Typed
<1>3. Recorded' = Recorded /\ \A d : RowsOf(d)' = RowsOf(d)
  BY <1>1, SameRows
<1>4. c \in Queued' /\ Queued \subseteq Queued'
  <2>1. /\ Len(queue') = Len(queue) + 1 /\ Len(queue) \in Nat /\ queue'[Len(queue) + 1] = c
        /\ \A n \in 1..Len(queue) : queue'[n] = queue[n]
    BY <1>1, <1>2
  <2> QED
    BY <2>1 DEF Queued
<1>5. NothingLost'
  BY <1>1, <1>3, <1>4 DEF IInv, NothingLost
<1>6. Typed' /\ RequestsSound'
  BY <1>1, <1>2, <1>3 DEF IInv, Typed, RequestsSound, ReqSound, TagsAsSent
<1>7. RowsSound' /\ OneRow' /\ Placed' /\ AutoAtFirst'
  BY <1>1, <1>3 DEF IInv, RowsSound, RowSound, TagsAsSent, OneRow, Placed, AutoAtFirst
<1> QED
  BY <1>5, <1>6, <1>7 DEF IInv

\* The flag and the copy of a tab are nobody else's business.
LEMMA TabStep ==
    ASSUME IInv, tab' \in [Tabs -> Flush],
           \A t \in Tabs : tab'[t].pc # "idle" => tab'[t].items # <<>>,
           UNCHANGED <<entered, queue, req, rows, lastRow, deleted, category, event, tag,
                       auto, retagged>>
    PROVE  IInv'
<1>1. Recorded' = Recorded /\ \A c : RowsOf(c)' = RowsOf(c)
  BY SameRows
<1>2. Typed' /\ RequestsSound' /\ NothingLost'
  BY <1>1, StillQueued DEF IInv, Typed, RequestsSound, ReqSound, TagsAsSent
<1>3. RowsSound' /\ OneRow' /\ Placed' /\ AutoAtFirst'
  BY <1>1 DEF IInv, RowsSound, RowSound, TagsAsSent, OneRow, Placed, AutoAtFirst
<1> QED
  BY <1>2, <1>3 DEF IInv

LEMMA FlushStartStep == ASSUME IInv, NEW t \in Tabs, FlushStart(t) PROVE IInv'
<1>1. tab' = [tab EXCEPT ![t] = [pc |-> "flush", items |-> queue]] /\ queue # <<>>
  BY DEF FlushStart
<1>2. tab' \in [Tabs -> Flush] /\ \A u \in Tabs : tab'[u].pc # "idle" => tab'[u].items # <<>>
  BY <1>1 DEF IInv, Typed, Flush
<1> QED
  BY <1>2, TabStep DEF FlushStart, table, catalog

LEMMA Fresh ==
    ASSUME NEW t \in Tabs, NEW c \in Clients
    PROVE  /\ [Idle EXCEPT !.pc = "category", !.tab = t, !.client = c] \in Request
           /\ [Idle EXCEPT !.pc = "category", !.tab = t, !.client = c].pc = "category"
           /\ [Idle EXCEPT !.pc = "category", !.tab = t, !.client = c].client = c
BY DEF Idle, Request, Steps, Used, Results

LEMMA SendStep == ASSUME IInv, NEW t \in Tabs, Send(t) PROVE IInv'
<1> DEFINE r == CHOOSE r \in Free : TRUE
           c == Head(tab[t].items)
           q == [Idle EXCEPT !.pc = "category", !.tab = t, !.client = c]
<1>1. /\ tab[t].pc = "flush" /\ tab' = [tab EXCEPT ![t].pc = "wait"]
      /\ req' = [req EXCEPT ![r] = q] /\ Free # {}
      /\ UNCHANGED <<entered, queue, rows, lastRow, deleted, category, event, tag, auto, retagged>>
  BY DEF Send, table, catalog
<1>2. r \in Requests
  BY <1>1 DEF Free
<1> HIDE DEF r
<1>3. tab[t] \in Flush /\ tab[t].items # <<>>
  BY <1>1 DEF IInv, Typed
<1>4. c \in Clients
  BY <1>3 DEF Flush
<1> HIDE DEF c
<1>5. PICK d \in Clients : d = c
  BY <1>4
<1>6. q \in Request /\ q.pc = "category" /\ q.client \in Clients
  BY <1>5, Fresh
<1>7. tab' \in [Tabs -> Flush] /\ \A u \in Tabs : tab'[u].pc # "idle" => tab'[u].items # <<>>
  BY <1>1, <1>3 DEF IInv, Typed, Flush
<1>8. NothingLost'
  BY <1>1, StillQueued
<1>9. category' \in CategoryStatus /\ queue' \in Seq(Clients)
  BY <1>1 DEF IInv, Typed
<1> HIDE DEF q
<1> QED
  BY <1>1, <1>2, <1>6, <1>7, <1>8, <1>9, OneRequest DEF Later

LEMMA AnsweredStep ==
    ASSUME IInv, NEW t \in Tabs, NEW r \in Requests, Answered(t, r)
    PROVE  IInv'
<1>1. /\ req[r].tab = t /\ req[r].pc = "answer" /\ req' = [req EXCEPT ![r] = Idle]
      /\ UNCHANGED <<entered, rows, lastRow, deleted, category, event, tag, auto, retagged>>
  BY DEF Answered, table, catalog
<1>2. tab' \in [Tabs -> Flush] /\ \A u \in Tabs : tab'[u].pc # "idle" => tab'[u].items # <<>>
  <2>1. CASE req[r].result \in Settled
    <3> DEFINE rest == Rest(Tail(tab[t].items))
    <3>1. tab' = [tab EXCEPT ![t] = rest]
      BY <2>1 DEF Answered
    <3>2. rest \in Flush /\ (rest.pc # "idle" => rest.items # <<>>)
      <4>1. tab[t] \in Flush
        BY DEF IInv, Typed
      <4>2. Tail(tab[t].items) \in Seq(Clients) \/ tab[t].items = <<>>
        BY <4>1 DEF Flush
      <4> QED
        BY <4>1, <4>2 DEF Rest, Stopped, Flush
    <3> QED
      BY <3>1, <3>2 DEF IInv, Typed
  <2>2. CASE req[r].result \notin Settled
    <3>1. tab' = [tab EXCEPT ![t] = Stopped] /\ Stopped \in Flush /\ Stopped.pc = "idle"
      BY <2>2 DEF Answered, Stopped, Flush
    <3> QED
      BY <3>1 DEF IInv, Typed
  <2> QED
    BY <2>1, <2>2
<1>3. queue' \in Seq(Clients) /\ NothingLost'
  <2>1. queue \in Seq(Clients)
    BY DEF IInv, Typed
  <2>2. CASE req[r].result \in Settled
    <3> DEFINE c == req[r].client
    <3>1. queue' = Without(queue, c)
      BY <2>2 DEF Answered
    <3>2. \A d \in Queued : d # c => d \in Queued'
      BY <2>1, <3>1, QueueKeepsOthers DEF Queued
    <3>3. RowsOf(c) # {} \/ c \in deleted
      BY <1>1, <2>2 DEF IInv, RequestsSound, ReqSound
    <3>4. \A d : RowsOf(d)' = RowsOf(d)
      BY <1>1, SameRows
    <3>5. NothingLost'
      BY <1>1, <3>2, <3>3, <3>4 DEF IInv, NothingLost
    <3> QED
      BY <2>1, <3>1, <3>5, QueueKeepsOthers
  <2>3. CASE req[r].result \notin Settled
    BY <1>1, <2>1, <2>3, StillQueued DEF Answered
  <2> QED
    BY <2>2, <2>3
<1>4. category' \in CategoryStatus
  BY <1>1 DEF IInv, Typed
<1> QED
  BY <1>1, <1>2, <1>3, <1>4, IdleRequest, OneRequest DEF Later

\* Only the tab is forgotten, so the request stays sound.
LEMMA GiveUpStep == ASSUME IInv, NEW t \in Tabs, GiveUp(t) PROVE IInv'
<1>1. /\ tab' = [tab EXCEPT ![t] = Stopped] /\ req' = Orphaned(t)
      /\ UNCHANGED <<entered, queue, rows, lastRow, deleted, category, event, tag, auto, retagged>>
  BY DEF GiveUp, table, catalog
<1>2. Recorded' = Recorded /\ \A c : RowsOf(c)' = RowsOf(c)
  BY <1>1, SameRows
<1>3. ASSUME NEW r \in Requests
      PROVE  /\ req'[r] \in Request /\ req'[r].pc = req[r].pc /\ req'[r].client = req[r].client
             /\ req'[r].tags = req[r].tags /\ req'[r].result = req[r].result
  <2>1. req[r] \in Request /\ req'[r] = IF req[r].tab = t THEN [req[r] EXCEPT !.tab = NoTab] ELSE req[r]
    BY <1>1 DEF IInv, Typed, Orphaned
  <2> QED
    BY <2>1 DEF Request
<1>4. req' \in [Requests -> Request]
  BY <1>1, <1>3 DEF Orphaned
<1>5. tab' \in [Tabs -> Flush] /\ \A u \in Tabs : tab'[u].pc # "idle" => tab'[u].items # <<>>
  <2>1. Stopped \in Flush /\ Stopped.pc = "idle"
    BY DEF Stopped, Flush
  <2> QED
    BY <1>1, <2>1 DEF IInv, Typed
<1>6. Typed' /\ NothingLost'
  BY <1>1, <1>2, <1>4, <1>5, StillQueued DEF IInv, Typed
<1>7. RequestsSound'
  BY <1>1, <1>2, <1>3 DEF IInv, RequestsSound, ReqSound, TagsAsSent
<1>8. RowsSound' /\ OneRow' /\ Placed' /\ AutoAtFirst'
  BY <1>1, <1>2 DEF IInv, RowsSound, RowSound, TagsAsSent, OneRow, Placed, AutoAtFirst
<1> QED
  BY <1>6, <1>7, <1>8 DEF IInv

\* A thread that passes a check.
LEMMA GoesOn ==
    ASSUME IInv, NEW r \in Requests, NEW step \in Steps, GoOn(r, step), req[r].pc # "idle",
           UNCHANGED <<device, rows, lastRow, deleted, event, tag, auto, retagged>>,
           category' \in CategoryStatus, category' = "unplaced" => category = "unplaced",
           step \in Later => category' # "unplaced",
           step \in {"insert", "compare"} => req[r].pc = "insert"
    PROVE  IInv'
<1> DEFINE q == [req[r] EXCEPT !.pc = step]
<1>1. req[r] \in Request /\ ReqSound(req[r])
  BY DEF IInv, Typed, RequestsSound
<1>2. /\ q \in Request /\ q.pc = step /\ q.client = req[r].client /\ q.tags = req[r].tags
      /\ q.pc # "idle" /\ q.pc # "answer"
  BY <1>1 DEF Request, Steps
<1>3. req' = [req EXCEPT ![r] = q]
  BY DEF GoOn
<1>4. q.client \in Clients
  BY <1>1, <1>2 DEF ReqSound
<1>5. q.pc \in {"insert", "compare"} => TagsAsSent(q.client, q.tags)
  BY <1>1, <1>2 DEF ReqSound
<1>6. /\ queue' \in Seq(Clients) /\ tab' \in [Tabs -> Flush]
      /\ \A t \in Tabs : tab'[t].pc # "idle" => tab'[t].items # <<>>
  BY DEF IInv, Typed, device
<1>7. NothingLost'
  BY StillQueued DEF device
<1> HIDE DEF q
<1> QED
  BY <1>2, <1>3, <1>4, <1>5, <1>6, <1>7, OneRequest

\* A thread that comes to an answer: one that settles the item needs a row of
\* it, or a deleted one.
LEMMA Answers ==
    ASSUME IInv, NEW r \in Requests, NEW result \in Results, Answer(r, result),
           req[r].pc # "idle",
           UNCHANGED <<device, rows, lastRow, deleted, event, tag, auto, retagged, category>>,
           result \in Settled => RowsOf(req[r].client) # {} \/ req[r].client \in deleted
    PROVE  IInv'
<1> DEFINE q == [req[r] EXCEPT !.pc = "answer", !.result = result]
<1>1. req[r] \in Request /\ ReqSound(req[r])
  BY DEF IInv, Typed, RequestsSound
<1>2. q \in Request /\ q.pc = "answer" /\ q.client = req[r].client /\ q.result = result
  BY <1>1 DEF Request
<1>3. req' = [req EXCEPT ![r] = q]
  BY DEF Answer
<1>4. q.client \in Clients
  BY <1>1, <1>2 DEF ReqSound
<1>5. q.pc = "answer" /\ q.result \in Settled => RowsOf(q.client) # {} \/ q.client \in deleted
  BY <1>2
<1>6. /\ queue' \in Seq(Clients) /\ tab' \in [Tabs -> Flush] /\ category' \in CategoryStatus
      /\ \A t \in Tabs : tab'[t].pc # "idle" => tab'[t].items # <<>>
  BY DEF IInv, Typed, device
<1>7. NothingLost'
  BY StillQueued DEF device
<1>8. q.pc \notin Later /\ q.pc \notin {"insert", "compare"}
  BY <1>2 DEF Later
<1> HIDE DEF q
<1> QED
  BY <1>2, <1>3, <1>4, <1>5, <1>6, <1>7, <1>8, OneRequest

LEMMA Refused == {"refused", "error"} \subseteq Results /\ "refused" \notin Settled /\ "error" \notin Settled
BY DEF Results, Settled

LEMMA CheckStep ==
    ASSUME IInv, NEW r \in Requests,
           CheckCategory(r) \/ ValidateEvent(r) \/ ValidateTags(r)
    PROVE  IInv'
<1>1. UNCHANGED <<device, rows, lastRow, deleted, event, tag, auto, retagged, category>>
  BY DEF CheckCategory, ValidateEvent, ValidateTags, reading, table, catalog
<1>2. /\ category \in CategoryStatus /\ req[r].pc # "idle" /\ ReqSound(req[r])
  BY DEF IInv, Typed, RequestsSound, CheckCategory, ValidateEvent, ValidateTags
<1>3. \/ Answer(r, "refused")
      \/ GoOn(r, "activate")
      \/ \E step \in {"event", "tags", "convert"} : GoOn(r, step) /\ category # "unplaced"
  <2>1. CASE CheckCategory(r)
    BY <2>1, <1>2 DEF CheckCategory, CategoryStatus
  <2>2. CASE ValidateEvent(r)
    BY <2>2, <1>2 DEF ValidateEvent, ReqSound, Later
  <2>3. CASE ValidateTags(r)
    BY <2>3, <1>2 DEF ValidateTags, ReqSound, Later
  <2> QED
    BY <2>1, <2>2, <2>3
<1>4. CASE Answer(r, "refused")
  BY <1>1, <1>2, <1>4, Refused, Answers
<1>5. CASE GoOn(r, "activate")
  <2>1. "activate" \in Steps /\ "activate" \notin Later /\ "activate" \notin {"insert", "compare"}
    BY DEF Steps, Later
  <2> QED
    BY <1>1, <1>2, <1>5, <2>1, GoesOn
<1>6. ASSUME NEW step \in {"event", "tags", "convert"}, GoOn(r, step), category # "unplaced"
      PROVE  IInv'
  <2>1. step \in Steps /\ step \notin {"insert", "compare"}
    BY DEF Steps
  <2> QED
    BY <1>1, <1>2, <1>6, <2>1, GoesOn
<1> QED
  BY <1>3, <1>4, <1>5, <1>6

LEMMA ActivateStep == ASSUME IInv, NEW r \in Requests, ActivateCategory(r) PROVE IInv'
<1>1. /\ UNCHANGED <<device, rows, lastRow, deleted, event, tag, auto, retagged>>
      /\ req[r].pc # "idle" /\ category \in CategoryStatus
  BY DEF ActivateCategory, table, IInv, Typed
<1>2. CASE category = "unplaced"
  <2>1. Answer(r, "refused") /\ UNCHANGED category
    BY <1>2 DEF ActivateCategory
  <2> QED
    BY <1>1, <2>1, Refused, Answers
<1>3. CASE category # "unplaced"
  <2>1. GoOn(r, "event") /\ category' = IF category = "retired" THEN category ELSE "active"
    BY <1>3 DEF ActivateCategory
  <2>2. category' \in CategoryStatus /\ category' # "unplaced"
    BY <2>1 DEF CategoryStatus
  <2>3. "event" \in Steps /\ "event" \notin {"insert", "compare"}
    BY DEF Steps
  <2> QED
    BY <1>1, <2>1, <2>2, <2>3, GoesOn
<1> QED
  BY <1>2, <1>3

LEMMA ConvertStep == ASSUME IInv, NEW r \in Requests, Convert(r) PROVE IInv'
<1>1. /\ UNCHANGED <<device, rows, lastRow, deleted, event, tag, auto, retagged, category>>
      /\ req[r].pc = "convert" /\ req[r] \in Request /\ ReqSound(req[r])
      /\ category \in CategoryStatus
  BY DEF Convert, table, catalog, IInv, Typed, RequestsSound
<1>2. CASE rate = "none"
  BY <1>1, <1>2, Refused, Answers DEF Convert
<1>3. CASE rate # "none"
  <2> DEFINE q == [req[r] EXCEPT !.pc = "attach", !.rate = Found]
  <2>1. req' = [req EXCEPT ![r] = q]
    BY <1>3 DEF Convert
  <2>2. Found \in Used /\ "attach" \in Steps
    BY DEF Found, Used, Steps
  <2>3. q \in Request /\ q.pc = "attach" /\ q.client = req[r].client
    BY <1>1, <2>2 DEF Request
  <2>4. q.client \in Clients /\ category' # "unplaced"
    BY <1>1, <2>3 DEF ReqSound, Later
  <2>5. /\ queue' \in Seq(Clients) /\ tab' \in [Tabs -> Flush] /\ category' \in CategoryStatus
        /\ \A t \in Tabs : tab'[t].pc # "idle" => tab'[t].items # <<>>
    BY <1>1 DEF IInv, Typed, device
  <2>6. NothingLost'
    BY <1>1, StillQueued DEF device
  <2> HIDE DEF q
  <2> QED
    BY <1>1, <2>1, <2>3, <2>4, <2>5, <2>6, OneRequest
<1> QED
  BY <1>2, <1>3

LEMMA AttachStep == ASSUME IInv, NEW r \in Requests, AttachTags(r) PROVE IInv'
<1> DEFINE p == Payload[req[r].client]
           ts == IF p.event = NoEvent THEN p.tags ELSE p.tags \cup auto[p.event]
           q == [req[r] EXCEPT !.pc = "insert", !.tags = ts]
<1>1. /\ UNCHANGED <<device, rows, lastRow, deleted, event, tag, auto, retagged, category>>
      /\ req[r].pc = "attach" /\ req[r] \in Request /\ ReqSound(req[r])
      /\ category \in CategoryStatus /\ req' = [req EXCEPT ![r] = q]
  BY DEF AttachTags, reading, table, catalog, IInv, Typed, RequestsSound
<1>2. req[r].client \in Clients /\ category' # "unplaced"
  BY <1>1 DEF ReqSound, Later
<1>3. p.event \in Events \cup {NoEvent} /\ p.tags \subseteq Tags
  BY <1>2, PayloadAssumption
<1>4. p.event # NoEvent => auto[p.event] \subseteq Tags
  BY <1>3 DEF IInv, Typed
<1>5. ts \subseteq Tags
  BY <1>3, <1>4
<1>6. p.event # NoEvent /\ p.event \notin retagged /\ event[p.event] # "gone" => auto[p.event] = Tags
  BY <1>3 DEF IInv, AutoAtFirst
<1>7. TagsAsSent(req[r].client, ts)
  BY <1>3, <1>4, <1>5, <1>6 DEF TagsAsSent
<1> HIDE DEF ts
<1>8. q \in Request /\ q.pc = "insert" /\ q.client = req[r].client /\ q.tags = ts
  BY <1>1, <1>5 DEF Request, Steps
<1>9. /\ queue' \in Seq(Clients) /\ tab' \in [Tabs -> Flush] /\ category' \in CategoryStatus
      /\ \A t \in Tabs : tab'[t].pc # "idle" => tab'[t].items # <<>>
  BY <1>1 DEF IInv, Typed, device
<1>10. NothingLost'
  BY <1>1, StillQueued DEF device
<1> HIDE DEF q
<1> QED
  BY <1>1, <1>2, <1>7, <1>8, <1>9, <1>10, OneRequest

\* The client id is free, so the new row is the only one of the expense.
LEMMA RecordStep ==
    ASSUME IInv, NEW r \in Requests, req[r].pc = "insert", RefsExist(r), Taken(r) = {},
           lastRow < MaxRows, lastRow' = lastRow + 1,
           rows' = [rows EXCEPT ![lastRow + 1] = NewRow(r)], Answer(r, "ok"),
           UNCHANGED <<device, deleted, catalog>>
    PROVE  IInv'
<1> DEFINE n == lastRow + 1
           c == req[r].client
           row == NewRow(r)
           q == [req[r] EXCEPT !.pc = "answer", !.result = "ok"]
<1>1. req[r] \in Request /\ ReqSound(req[r]) /\ rows \in [RowIds -> Row \cup {NoRow}]
  BY DEF IInv, Typed, RequestsSound
<1>2. /\ c \in Clients /\ category # "unplaced" /\ TagsAsSent(c, req[r].tags)
      /\ req[r].tags \subseteq Tags /\ req[r].rate \in Used
  BY <1>1 DEF ReqSound, Later, Request
<1>3. Payload[c].event \in Events \cup {NoEvent}
  BY <1>2, PayloadAssumption
<1>4. row \in Row /\ row # NoRow
  <2>1. row \in Row
    BY <1>2, <1>3 DEF NewRow, Row
  <2> QED
    BY <2>1, NullsAssumption
<1>5. /\ row.client = c /\ row.event = Payload[c].event /\ row.tags = req[r].tags /\ ~row.edited
  BY DEF NewRow
<1>6. n \in RowIds /\ n \notin Recorded /\ lastRow' \in 0..MaxRows /\ lastRow \in Nat
  BY BoundsAssumption DEF IInv, Typed, RowIds
<1>7. /\ rows' \in [RowIds -> Row \cup {NoRow}]
      /\ \A i \in RowIds : rows'[i] = IF i = n THEN row ELSE rows[i]
  BY <1>1, <1>4, <1>6
<1> HIDE DEF row
<1>8. Recorded' = Recorded \cup {n}
  BY <1>4, <1>6, <1>7 DEF Recorded
<1>9. \A d : RowsOf(d)' = IF d = c THEN RowsOf(d) \cup {n} ELSE RowsOf(d)
  BY <1>5, <1>6, <1>7, <1>8 DEF RowsOf, Recorded
<1>10. Recorded' \subseteq 1..lastRow'
  <2>1. Recorded \subseteq 1..lastRow
    BY DEF IInv, Typed
  <2>2. lastRow' = lastRow + 1 /\ n = lastRow + 1
    OBVIOUS
  <2>3. Recorded \subseteq 1..lastRow' /\ n \in 1..lastRow'
    BY <1>6, <2>1, <2>2
  <2> QED
    BY <1>8, <2>3
<1>11. /\ q \in Request /\ q.pc = "answer" /\ q.client = c
       /\ req' \in [Requests -> Request] /\ \A u \in Requests : req'[u] = IF u = r THEN q ELSE req[u]
  <2>1. q \in Request /\ q.pc = "answer" /\ q.client = c
    BY <1>1 DEF Request, Results
  <2>2. req' = [req EXCEPT ![r] = q]
    BY DEF Answer
  <2> QED
    BY <2>1, <2>2 DEF IInv, Typed
<1> HIDE DEF q
<1>12. Typed'
  BY <1>6, <1>7, <1>10, <1>11 DEF IInv, Typed, device, catalog
<1>13. RequestsSound'
  <2>1. SUFFICES ASSUME NEW u \in Requests PROVE ReqSound(req[u])'
    BY DEF RequestsSound
  <2>2. ReqSound(req[u])
    BY DEF IInv, RequestsSound
  <2>3. CASE u = r
    BY <1>2, <1>9, <1>11, <2>3 DEF ReqSound, Later
  <2>4. CASE u # r
    <3>1. req'[u] = req[u] /\ (RowsOf(req[u].client) # {} => RowsOf(req[u].client)' # {})
      BY <1>9, <1>11, <2>4
    <3> QED
      BY <2>2, <3>1, <1>9 DEF ReqSound, TagsAsSent, catalog
  <2> QED
    BY <2>3, <2>4
<1>14. RowsSound'
  <2>1. SUFFICES ASSUME NEW i \in Recorded' PROVE RowSound(rows[i])'
    BY DEF RowsSound
  <2>2. CASE i = n
    <3>1. rows'[i] = row
      BY <1>6, <1>7, <2>2
    <3> QED
      BY <1>2, <1>5, <3>1 DEF RowSound, TagsAsSent, RefsExist, catalog
  <2>3. CASE i # n
    <3>1. i \in Recorded /\ i \in RowIds /\ rows'[i] = rows[i]
      BY <1>7, <1>8, <2>3 DEF Recorded
    <3>2. RowSound(rows[i])
      BY <3>1 DEF IInv, RowsSound
    <3> QED
      BY <3>1, <3>2 DEF RowSound, TagsAsSent, catalog
  <2> QED
    BY <2>2, <2>3
<1>15. OneRow'
  <2>1. \A i \in Recorded : rows[i].client # c
    BY DEF Taken, RowsOf
  <2>2. \A i \in Recorded : rows'[i] = rows[i] /\ i # n
    BY <1>6, <1>7 DEF Recorded
  <2>3. rows'[n].client = c
    BY <1>5, <1>6, <1>7
  <2> QED
    BY <1>8, <2>1, <2>2, <2>3 DEF IInv, OneRow
<1>16. Placed' /\ AutoAtFirst' /\ NothingLost'
  <2>1. \A d : RowsOf(d) # {} => RowsOf(d)' # {}
    BY <1>9
  <2>2. Placed' /\ AutoAtFirst'
    BY <1>2 DEF IInv, Placed, AutoAtFirst, catalog
  <2>3. NothingLost'
    BY <2>1 DEF IInv, NothingLost, Queued, device
  <2> QED
    BY <2>2, <2>3
<1> QED
  BY <1>12, <1>13, <1>14, <1>15, <1>16 DEF IInv

LEMMA InsertStep == ASSUME IInv, NEW r \in Requests, Insert(r) PROVE IInv'
<1>1. req[r].pc = "insert" /\ UNCHANGED <<device, deleted, catalog>>
  BY DEF Insert
<1>2. UNCHANGED <<event, tag, auto, retagged, category>> /\ category \in CategoryStatus
  BY <1>1 DEF catalog, IInv, Typed
<1>3. CASE ~RefsExist(r)
  <2>1. Answer(r, "refused") /\ UNCHANGED <<rows, lastRow>>
    BY <1>3 DEF Insert
  <2> QED
    BY <1>1, <1>2, <2>1, Refused, Answers
<1>4. CASE RefsExist(r) /\ Taken(r) # {}
  <2>1. GoOn(r, "compare") /\ UNCHANGED <<rows, lastRow>>
    BY <1>4 DEF Insert
  <2>2. "compare" \in Steps /\ category' # "unplaced"
    BY <1>1, <1>2 DEF Steps, IInv, RequestsSound, ReqSound, Later
  <2> QED
    BY <1>1, <1>2, <2>1, <2>2, GoesOn
<1>5. CASE RefsExist(r) /\ Taken(r) = {}
  BY <1>1, <1>5, RecordStep DEF Insert
<1> QED
  BY <1>3, <1>4, <1>5

LEMMA CompareStep == ASSUME IInv, NEW r \in Requests, Compare(r) PROVE IInv'
<1>1. /\ req[r].pc = "compare"
      /\ UNCHANGED <<device, rows, lastRow, deleted, event, tag, auto, retagged, category>>
  BY DEF Compare, reading, table, catalog
<1>2. CASE Answer(r, "error")
  BY <1>1, <1>2, Refused, Answers
<1>3. ASSUME NEW i \in Taken(r), Answer(r, IF SameData(i, r) THEN "duplicate" ELSE "conflict")
      PROVE  IInv'
  <2>1. RowsOf(req[r].client) # {}
    BY <1>3 DEF Taken
  <2>2. (IF SameData(i, r) THEN "duplicate" ELSE "conflict") \in Results
    BY DEF Results
  <2> QED
    BY <1>1, <1>3, <2>1, <2>2, Answers
<1> QED
  BY <1>2, <1>3 DEF Compare

LEMMA UnheardStep == ASSUME IInv, NEW r \in Requests, Unheard(r) PROVE IInv'
<1>1. /\ req' = [req EXCEPT ![r] = Idle]
      /\ UNCHANGED <<device, rows, lastRow, deleted, event, tag, auto, retagged, category>>
  BY DEF Unheard, reading, table, catalog
<1>2. /\ queue' \in Seq(Clients) /\ tab' \in [Tabs -> Flush] /\ category' \in CategoryStatus
      /\ \A t \in Tabs : tab'[t].pc # "idle" => tab'[t].items # <<>>
  BY <1>1 DEF IInv, Typed, device
<1>3. NothingLost'
  BY <1>1, StillQueued DEF device
<1> QED
  BY <1>1, <1>2, <1>3, IdleRequest, OneRequest DEF Later

LEMMA ServeStep == ASSUME IInv, NEW r \in Requests, Serve(r) PROVE IInv'
BY CheckStep, ActivateStep, ConvertStep, AttachStep, InsertStep, CompareStep, UnheardStep
   DEF Serve

LEMMA RestartStep == ASSUME IInv, Restart PROVE IInv'
<1>1. /\ req' = [r \in Requests |-> Idle]
      /\ tab' = [t \in Tabs |-> IF tab[t].pc = "wait" THEN Stopped ELSE tab[t]]
      /\ category' \in {category, "inactive", "retired"}
      /\ UNCHANGED <<entered, queue, rows, lastRow, deleted, event, tag, auto, retagged>>
  BY DEF Restart
<1>2. Recorded' = Recorded /\ \A c : RowsOf(c)' = RowsOf(c)
  BY <1>1, SameRows
<1>3. req' \in [Requests -> Request] /\ \A r \in Requests : req'[r].pc = "idle"
  BY <1>1, IdleRequest
<1>4. tab' \in [Tabs -> Flush] /\ \A u \in Tabs : tab'[u].pc # "idle" => tab'[u].items # <<>>
  <2>1. Stopped \in Flush /\ Stopped.pc = "idle"
    BY DEF Stopped, Flush
  <2> QED
    BY <1>1, <2>1 DEF IInv, Typed
<1>5. category' \in CategoryStatus /\ (category' = "unplaced" => category = "unplaced")
  BY <1>1 DEF CategoryStatus, IInv, Typed
<1>6. Typed' /\ NothingLost'
  BY <1>1, <1>2, <1>3, <1>4, <1>5, StillQueued DEF IInv, Typed
<1>7. RequestsSound'
  BY <1>3 DEF RequestsSound, ReqSound, Later
<1>8. RowsSound' /\ OneRow' /\ Placed' /\ AutoAtFirst'
  BY <1>1, <1>2, <1>5 DEF IInv, RowsSound, RowSound, TagsAsSent, OneRow, Placed, AutoAtFirst
<1> QED
  BY <1>6, <1>7, <1>8 DEF IInv

--------------------------------------------------------------------------
(* Steps of others *)

\* A row is replaced by an edited one of the same expense.
LEMMA EditedRow ==
    ASSUME IInv, NEW i \in Recorded, NEW row \in Row, rows' = [rows EXCEPT ![i] = row],
           row.client = rows[i].client, row.edited,
           row.event # NoEvent => event[row.event] # "gone",
           \A t \in row.tags : tag[t] # "gone",
           UNCHANGED <<lastRow, deleted, device, req, catalog>>
    PROVE  IInv'
<1>1. i \in RowIds /\ row # NoRow
  BY NullsAssumption DEF Recorded
<1>2. /\ rows' \in [RowIds -> Row \cup {NoRow}]
      /\ \A j \in RowIds : rows'[j] = IF j = i THEN row ELSE rows[j]
  BY <1>1 DEF IInv, Typed
<1>3. Recorded' = Recorded
  BY <1>1, <1>2 DEF Recorded
<1>4. \A j \in Recorded : rows'[j].client = rows[j].client
  BY <1>2 DEF Recorded
<1>5. \A d : RowsOf(d)' = RowsOf(d)
  BY <1>3, <1>4 DEF RowsOf
<1>6. Typed'
  BY <1>2, <1>3 DEF IInv, Typed, device, catalog
<1>7. RequestsSound'
  BY <1>5 DEF IInv, RequestsSound, ReqSound, TagsAsSent, device, catalog
<1>8. RowsSound'
  <2>1. SUFFICES ASSUME NEW j \in Recorded PROVE RowSound(rows[j])'
    BY <1>3 DEF RowsSound
  <2>2. CASE j = i
    BY <1>1, <1>2, <2>2 DEF RowSound, catalog
  <2>3. CASE j # i
    <3>1. rows'[j] = rows[j] /\ RowSound(rows[j])
      BY <1>2, <2>3 DEF Recorded, IInv, RowsSound
    <3> QED
      BY <3>1 DEF RowSound, TagsAsSent, catalog
  <2> QED
    BY <2>2, <2>3
<1>9. OneRow' /\ Placed' /\ AutoAtFirst' /\ NothingLost'
  BY <1>3, <1>4, <1>5 DEF IInv, OneRow, Placed, AutoAtFirst, NothingLost, Queued, device, catalog
<1> QED
  BY <1>6, <1>7, <1>8, <1>9 DEF IInv

LEMMA EditStep ==
    ASSUME IInv, NEW i \in RowIds, NEW e \in Events \cup {NoEvent}, NEW ts \in SUBSET Tags,
           Edit(i, e, ts)
    PROVE  IInv'
<1>1. /\ i \in Recorded /\ (e # NoEvent => event[e] # "gone") /\ \A t \in ts : tag[t] # "gone"
      /\ UNCHANGED <<lastRow, deleted, device, req, catalog>>
  BY DEF Edit
<1>2. PICK used \in Used :
         rows' = [rows EXCEPT ![i] =
            [rows[i] EXCEPT !.event = e, !.tags = ts, !.rate = used, !.edited = TRUE]]
  BY DEF Edit
<1> DEFINE row == [rows[i] EXCEPT !.event = e, !.tags = ts, !.rate = used, !.edited = TRUE]
<1>3. rows[i] \in Row
  BY <1>1 DEF IInv, Typed, Recorded
<1>4. /\ row \in Row /\ row.client = rows[i].client /\ row.edited
      /\ row.event = e /\ row.tags = ts
  BY <1>3 DEF Row
<1>5. rows' = [rows EXCEPT ![i] = row]
  BY <1>2
<1> HIDE DEF row
<1> QED
  BY <1>1, <1>4, <1>5, EditedRow

LEMMA DeleteTagsStep == ASSUME IInv, NEW i \in RowIds, DeleteTags(i) PROVE IInv'
<1> DEFINE row == [rows[i] EXCEPT !.tags = {}, !.edited = TRUE]
<1>1. /\ i \in Recorded /\ UNCHANGED <<lastRow, deleted, device, req, catalog>>
      /\ rows' = [rows EXCEPT ![i] = row]
  BY DEF DeleteTags
<1>2. rows[i] \in Row /\ RowSound(rows[i])
  BY <1>1 DEF IInv, Typed, Recorded, RowsSound
<1>3. /\ row \in Row /\ row.client = rows[i].client /\ row.edited
      /\ row.event = rows[i].event /\ row.tags = {}
  BY <1>2 DEF Row
<1> HIDE DEF row
<1>4. row.event # NoEvent => event[row.event] # "gone"
  BY <1>2, <1>3 DEF RowSound
<1>5. \A t \in row.tags : tag[t] # "gone"
  BY <1>3
<1> QED
  BY <1>1, <1>3, <1>4, <1>5, EditedRow

LEMMA DeleteRowStep == ASSUME IInv, NEW i \in RowIds, DeleteRow(i) PROVE IInv'
<1>1. UNCHANGED <<lastRow, device, req, catalog>>
  BY DEF DeleteRow
<1>2. CASE UNCHANGED <<rows, deleted>>
  <2>1. Recorded' = Recorded /\ \A d : RowsOf(d)' = RowsOf(d)
    BY <1>2, SameRows
  <2>2. Typed' /\ RequestsSound' /\ RowsSound' /\ OneRow'
    BY <1>1, <1>2, <2>1 DEF IInv, Typed, RequestsSound, ReqSound, TagsAsSent, RowsSound,
       RowSound, OneRow, device, catalog
  <2>3. Placed' /\ AutoAtFirst' /\ NothingLost'
    BY <1>1, <1>2, <2>1 DEF IInv, Placed, AutoAtFirst, NothingLost, Queued, device, catalog
  <2> QED
    BY <2>2, <2>3 DEF IInv
<1>3. CASE rows' = [rows EXCEPT ![i] = NoRow] /\ deleted' = deleted \cup {rows[i].client}
  <2> DEFINE c == rows[i].client
  <2>1. /\ rows' \in [RowIds -> Row \cup {NoRow}]
        /\ \A j \in RowIds : rows'[j] = IF j = i THEN NoRow ELSE rows[j]
    BY <1>3 DEF IInv, Typed
  <2>2. Recorded' = Recorded \ {i} /\ \A j \in Recorded' : rows'[j] = rows[j]
    BY <2>1 DEF Recorded
  <2>3. \A d : RowsOf(d) # {} => RowsOf(d)' # {} \/ d \in deleted'
    <3>1. ASSUME NEW d, d # c PROVE RowsOf(d)' = RowsOf(d)
      BY <2>2, <3>1 DEF RowsOf
    <3> QED
      BY <1>3, <3>1
  <2>4. Typed'
    BY <1>1, <2>1, <2>2 DEF IInv, Typed, device, catalog
  <2>5. RequestsSound'
    BY <1>1, <1>3, <2>3 DEF IInv, RequestsSound, ReqSound, TagsAsSent, device, catalog
  <2>6. RowsSound' /\ OneRow'
    BY <1>1, <2>2 DEF IInv, RowsSound, RowSound, TagsAsSent, OneRow, catalog
  <2>7. Placed' /\ AutoAtFirst' /\ NothingLost'
    BY <1>1, <1>3, <2>2, <2>3 DEF IInv, Placed, AutoAtFirst, NothingLost, Queued, device, catalog
  <2> QED
    BY <2>4, <2>5, <2>6, <2>7 DEF IInv
<1> QED
  BY <1>2, <1>3 DEF DeleteRow

\* The catalog changes; what is recorded and requested stays sound.
LEMMA CatalogMoves ==
    ASSUME IInv, UNCHANGED <<rows, lastRow, deleted, device, req>>,
           category' \in CategoryStatus, category' = "unplaced" => category = "unplaced",
           event' \in [Events -> RowStatus], tag' \in [Tags -> RowStatus],
           auto' \in [Events -> SUBSET Tags],
           retagged \subseteq retagged',
           \A e \in Events : event[e] = "gone" => event'[e] = "gone",
           \A i \in Recorded : rows[i].event # NoEvent => event'[rows[i].event] # "gone",
           \A i \in Recorded : \A t \in rows[i].tags : tag'[t] # "gone",
           AutoAtFirst'
    PROVE  IInv'
<1>1. Recorded' = Recorded /\ \A c : RowsOf(c)' = RowsOf(c)
  BY SameRows
<1>2. ASSUME NEW c \in Clients, NEW ts, TagsAsSent(c, ts) PROVE TagsAsSent(c, ts)'
  BY <1>2, PayloadAssumption DEF TagsAsSent
<1>3. Typed' /\ OneRow' /\ Placed' /\ NothingLost'
  BY <1>1 DEF IInv, Typed, OneRow, Placed, NothingLost, Queued, device
<1>4. RequestsSound'
  <2>1. SUFFICES ASSUME NEW r \in Requests PROVE ReqSound(req[r])'
    BY DEF RequestsSound
  <2>2. ReqSound(req[r]) /\ req'[r] = req[r]
    BY DEF IInv, RequestsSound
  <2>3. req[r].pc \in {"insert", "compare"} => TagsAsSent(req[r].client, req[r].tags)'
    BY <1>2, <2>2 DEF ReqSound
  <2> QED
    BY <1>1, <2>2, <2>3 DEF ReqSound, Later
<1>5. RowsSound'
  <2>1. SUFFICES ASSUME NEW i \in Recorded PROVE RowSound(rows[i])'
    BY <1>1 DEF RowsSound
  <2>2. RowSound(rows[i]) /\ rows[i].client \in Clients /\ rows'[i] = rows[i]
    BY DEF IInv, RowsSound, Typed, Recorded, Row
  <2>3. ~rows[i].edited => TagsAsSent(rows[i].client, rows[i].tags)'
    BY <1>2, <2>2 DEF RowSound
  <2> QED
    BY <2>2, <2>3 DEF RowSound
<1> QED
  BY <1>1, <1>3, <1>4, <1>5 DEF IInv

LEMMA RowsReferTo ==
    ASSUME IInv
    PROVE  /\ \A i \in Recorded : rows[i].event # NoEvent => event[rows[i].event] # "gone"
           /\ \A i \in Recorded : \A t \in rows[i].tags : tag[t] # "gone"
           /\ \A i \in Recorded : rows[i].event \in Events \cup {NoEvent} /\ rows[i].tags \subseteq Tags
BY DEF IInv, RowsSound, RowSound, Typed, Recorded, Row

LEMMA ChangeCategoryStep ==
    ASSUME IInv, NEW s \in CategoryStatus, ChangeCategory(s) \/ \E f \in Rates : ChangeRate(f)
    PROVE  IInv'
<1>1. /\ UNCHANGED <<rows, lastRow, deleted, device, req, event, tag, auto, retagged>>
      /\ category' \in CategoryStatus /\ (category' = "unplaced" => category = "unplaced")
  BY DEF ChangeCategory, ChangeRate, table, catalog, IInv, Typed
<1>2. AutoAtFirst'
  BY <1>1 DEF IInv, AutoAtFirst
<1> QED
  BY <1>1, <1>2, RowsReferTo, CatalogMoves DEF IInv, Typed

LEMMA ChangeEventStep ==
    ASSUME IInv, NEW e \in Events, NEW s \in RowStatus, ChangeEvent(e, s)
    PROVE  IInv'
<1>1. /\ UNCHANGED <<rows, lastRow, deleted, device, req, category, tag, retagged>>
      /\ event[e] # "gone" /\ event' = [event EXCEPT ![e] = s]
      /\ auto' = IF s = "gone" THEN [auto EXCEPT ![e] = {}] ELSE auto
      /\ s = "gone" => \A i \in Recorded : rows[i].event # e
  BY DEF ChangeEvent, table
<1>2. /\ event' \in [Events -> RowStatus] /\ auto' \in [Events -> SUBSET Tags]
      /\ \A x \in Events : event'[x] = IF x = e THEN s ELSE event[x]
      /\ \A x \in Events : x # e \/ s # "gone" => auto'[x] = auto[x]
  BY <1>1 DEF IInv, Typed
<1>3. AutoAtFirst'
  BY <1>1, <1>2 DEF IInv, AutoAtFirst
<1>4. /\ \A i \in Recorded : rows[i].event # NoEvent => event'[rows[i].event] # "gone"
      /\ \A i \in Recorded : \A t \in rows[i].tags : tag'[t] # "gone"
  BY <1>1, <1>2, RowsReferTo
<1>5. \A x \in Events : event[x] = "gone" => event'[x] = "gone"
  BY <1>1, <1>2
<1> QED
  BY <1>1, <1>2, <1>3, <1>4, <1>5, CatalogMoves DEF IInv, Typed

LEMMA RetagStep ==
    ASSUME IInv, NEW e \in Events, NEW ts \in SUBSET Tags, Retag(e, ts)
    PROVE  IInv'
<1>1. /\ UNCHANGED <<rows, lastRow, deleted, device, req, category, event, tag>>
      /\ auto' = [auto EXCEPT ![e] = ts] /\ retagged' = retagged \cup {e}
  BY DEF Retag, table
<1>2. /\ auto' \in [Events -> SUBSET Tags] /\ \A x \in Events : x # e => auto'[x] = auto[x]
  BY <1>1 DEF IInv, Typed
<1>3. AutoAtFirst'
  BY <1>1, <1>2 DEF IInv, AutoAtFirst
<1> QED
  BY <1>1, <1>2, <1>3, RowsReferTo, CatalogMoves DEF IInv, Typed

LEMMA ChangeTagStep ==
    ASSUME IInv, NEW t \in Tags, NEW s \in RowStatus, ChangeTag(t, s)
    PROVE  IInv'
<1>1. /\ UNCHANGED <<rows, lastRow, deleted, device, req, category, event, auto, retagged>>
      /\ tag' = [tag EXCEPT ![t] = s] /\ tag[t] # "gone"
      /\ s = "gone" => \A i \in Recorded : t \notin rows[i].tags
  BY DEF ChangeTag, table
<1>2. /\ tag' \in [Tags -> RowStatus] /\ \A x \in Tags : tag'[x] = IF x = t THEN s ELSE tag[x]
  BY <1>1 DEF IInv, Typed
<1>3. \A i \in Recorded : \A x \in rows[i].tags : tag'[x] # "gone"
  BY <1>1, <1>2, RowsReferTo
<1>4. AutoAtFirst'
  BY <1>1 DEF IInv, AutoAtFirst
<1> QED
  BY <1>1, <1>2, <1>3, <1>4, RowsReferTo, CatalogMoves DEF IInv, Typed

--------------------------------------------------------------------------

LEMMA Starts == Init => IInv
<1> SUFFICES ASSUME Init PROVE IInv
  OBVIOUS
<1>1. Recorded = {} /\ \A c : RowsOf(c) = {}
  BY DEF Init, Recorded, RowsOf
<1>2. Typed
  <2>1. Stopped \in Flush /\ Stopped.pc = "idle"
    BY DEF Stopped, Flush
  <2>2. /\ queue \in Seq(Clients) /\ req \in [Requests -> Request]
        /\ tab \in [Tabs -> Flush] /\ \A t \in Tabs : tab[t].pc # "idle" => tab[t].items # <<>>
    BY <2>1, IdleRequest DEF Init
  <2>3. category \in CategoryStatus
    BY FirstAssumption DEF Init, CategoryStatus
  <2>4. lastRow \in 0..MaxRows /\ Recorded \subseteq 1..lastRow
    BY <1>1, BoundsAssumption DEF Init
  <2> QED
    BY <2>2, <2>3, <2>4 DEF Init, Typed, RowStatus
<1>3. RequestsSound
  BY IdleRequest DEF Init, RequestsSound, ReqSound, Later
<1>4. RowsSound /\ OneRow /\ Placed /\ AutoAtFirst /\ NothingLost
  BY <1>1 DEF Init, RowsSound, OneRow, Placed, AutoAtFirst, NothingLost
<1> QED
  BY <1>2, <1>3, <1>4 DEF IInv

LEMMA Unchanged == ASSUME IInv, UNCHANGED vars PROVE IInv'
<1>1. UNCHANGED <<device, req, rows, lastRow, deleted, category, event, tag, auto, retagged>>
  BY DEF vars, table, catalog
<1>2. tab \in [Tabs -> Flush] /\ \A t \in Tabs : tab[t].pc # "idle" => tab[t].items # <<>>
  BY DEF IInv, Typed
<1> QED
  BY <1>1, <1>2, TabStep DEF device

LEMMA StepsKeep == IInv /\ [Next]_vars => IInv'
<1> SUFFICES ASSUME IInv, [Next]_vars PROVE IInv'
  OBVIOUS
<1>1. CASE DeviceStep
  BY <1>1, EnterStep, FlushStartStep, SendStep, GiveUpStep, AnsweredStep DEF DeviceStep
<1>2. CASE \E r \in Requests : Serve(r)
  BY <1>2, ServeStep
<1>3. CASE Restart
  BY <1>3, RestartStep
<1>4. CASE RowStep
  BY <1>4, EditStep, DeleteTagsStep, DeleteRowStep DEF RowStep
<1>5. CASE CatalogStep
  BY <1>5, ChangeCategoryStep, ChangeEventStep, RetagStep, ChangeTagStep
     DEF CatalogStep, CategoryStatus
<1>6. CASE UNCHANGED vars
  BY <1>6, Unchanged
<1> QED
  BY <1>1, <1>2, <1>3, <1>4, <1>5, <1>6 DEF Next

LEMMA Always == Spec => []IInv
<1> QED
  BY Starts, StepsKeep, PTL DEF Spec

--------------------------------------------------------------------------
(* Theorems *)

\* What the user saved stays in the queue until a row of it is recorded: a
\* thread answers with success or a conflict only when it has seen the row.
THEOREM StaysUntilRecorded == Spec => []NothingLost
<1>1. IInv => NothingLost
  BY DEF IInv
<1> QED
  BY <1>1, Always, PTL

\* An expense never has two rows: the check of the client id and the insertion
\* are one transaction.
THEOREM Once == Spec => []RecordedOnce
<1>1. IInv => RecordedOnce
  <2> SUFFICES ASSUME IInv, NEW c \in Clients PROVE Cardinality(RowsOf(c)) <= 1
    BY DEF RecordedOnce
  <2>1. CASE RowsOf(c) = {}
    BY <2>1, FS_EmptySet
  <2>2. CASE RowsOf(c) # {}
    <3>1. PICK i : RowsOf(c) = {i}
      BY <2>2 DEF IInv, OneRow, RowsOf
    <3>2. Cardinality({i}) = 1
      BY FS_Singleton
    <3> QED
      BY <3>1, <3>2
  <2> QED
    BY <2>1, <2>2
<1> QED
  BY <1>1, Always, PTL

\* Only the thread itself moves to an answer, and only by its own steps.
LEMMA OwnStep ==
    ASSUME IInv, [Next]_vars, NEW r \in Requests,
           req[r].pc \notin {"idle", "answer"}, req'[r].pc = "answer"
    PROVE  Serve(r)
<1>1. req \in [Requests -> Request]
  BY DEF IInv, Typed
<1>2. ASSUME NEW t \in Tabs, Send(t) PROVE FALSE
  <2> DEFINE u == CHOOSE u \in Free : TRUE
             c == Head(tab[t].items)
             q == [Idle EXCEPT !.pc = "category", !.tab = t, !.client = c]
  <2>1. req' = [req EXCEPT ![u] = q] /\ u \in Free
    BY <1>2 DEF Send
  <2>2. req[u].pc = "idle" /\ u \in Requests
    BY <2>1 DEF Free
  <2> QED
    BY <1>1, <2>1, <2>2
<1>3. ASSUME NEW t \in Tabs, GiveUp(t) PROVE FALSE
  <2>1. req'[r] = IF req[r].tab = t THEN [req[r] EXCEPT !.tab = NoTab] ELSE req[r]
    BY <1>3 DEF GiveUp, Orphaned
  <2> QED
    BY <1>1, <2>1 DEF Request
<1>4. ASSUME NEW t \in Tabs, NEW u \in Requests, Answered(t, u) PROVE FALSE
  BY <1>1, <1>4 DEF Answered
<1>5. CASE DeviceStep
  <2>1. ASSUME NEW t \in Tabs, FlushStart(t) PROVE FALSE
    BY <2>1 DEF FlushStart
  <2>2. ASSUME NEW c \in Clients, Enter(c) PROVE FALSE
    BY <2>2 DEF Enter
  <2> QED
    BY <1>2, <1>3, <1>4, <1>5, <2>1, <2>2 DEF DeviceStep
<1>6. CASE Restart
  BY <1>6, IdleRequest DEF Restart
<1>7. CASE RowStep \/ CatalogStep \/ UNCHANGED vars
  <2>1. UNCHANGED req
    BY <1>7 DEF RowStep, Edit, DeleteTags, DeleteRow, CatalogStep, ChangeCategory, ChangeEvent,
       Retag, ChangeTag, ChangeRate, vars
  <2> QED
    BY <2>1
<1>8. ASSUME NEW u \in Requests, Serve(u) PROVE u = r
  <2>2. SUFFICES \A w \in Requests \ {u} : req'[w] = req[w]
    BY <1>1
  <2>3. CASE \E step : GoOn(u, step)
    BY <1>1, <2>3 DEF GoOn
  <2>4. CASE \E result : Answer(u, result)
    BY <1>1, <2>4 DEF Answer
  <2>5. CASE Convert(u)
    <3>1. CASE rate = "none"
      BY <2>4, <2>5, <3>1 DEF Convert
    <3>2. CASE rate # "none"
      BY <1>1, <2>5, <3>2 DEF Convert
    <3> QED
      BY <3>1, <3>2
  <2>6. CASE AttachTags(u)
    BY <1>1, <2>6 DEF AttachTags
  <2>7. CASE Unheard(u)
    BY <1>1, <2>7 DEF Unheard
  <2>8. CASE CheckCategory(u) \/ ActivateCategory(u)
    <3>1. category \in CategoryStatus
      BY DEF IInv, Typed
    <3> QED
      BY <2>3, <2>4, <2>8, <3>1 DEF CheckCategory, ActivateCategory, CategoryStatus
  <2>9. CASE ValidateEvent(u) \/ ValidateTags(u)
    BY <2>3, <2>4, <2>9 DEF ValidateEvent, ValidateTags
  <2>10. CASE Insert(u) \/ Compare(u)
    BY <2>3, <2>4, <2>10 DEF Insert, Compare
  <2> QED
    BY <1>8, <2>5, <2>6, <2>7, <2>8, <2>9, <2>10 DEF Serve
<1> QED
  BY <1>5, <1>6, <1>7, <1>8 DEF Next

\* The checks of the references pass for an expense that is recorded as sent:
\* a category nobody shows or an inactive event or tag is forgiven, and what a
\* row refers to cannot be deleted.
THEOREM Replays == Spec => ReplayPasses
<1>1. ASSUME IInv, [Next]_vars, NEW r \in Requests,
             req[r].pc \in {"category", "activate", "event", "tags"}, req'[r].pc = "answer",
             NEW i \in RowsOf(req[r].client)
      PROVE  rows[i].edited
  <2> DEFINE c == req[r].client
             p == Payload[c]
  <2>1. SUFFICES ASSUME ~rows[i].edited PROVE FALSE
    BY <1>1 DEF IInv, Typed, RowsOf, Recorded, Row
  <2>2. Serve(r)
    BY <1>1, OwnStep
  <2>3. /\ Replay(r) /\ i \in Recorded /\ rows[i].client = c /\ RowSound(rows[i])
        /\ category # "unplaced" /\ req \in [Requests -> Request] /\ c \in Clients
        /\ category \in CategoryStatus
    BY <1>1 DEF Replay, RowsOf, IInv, Placed, RowsSound, Typed, RequestsSound, ReqSound
  <2>4. /\ rows[i].event = p.event /\ p.tags \subseteq rows[i].tags
        /\ (p.event # NoEvent => event[p.event] \in {"active", "inactive"})
        /\ p.event \in Events \cup {NoEvent} /\ \A t \in p.tags : tag[t] \in {"active", "inactive"}
    BY <1>1, <2>1, <2>3, PayloadAssumption DEF RowSound, TagsAsSent, IInv, Typed, RowStatus
  <2>5. ASSUME NEW step \in Steps, GoOn(r, step) PROVE FALSE
    BY <1>1, <2>3, <2>5 DEF GoOn, Steps
  <2>6. CASE CheckCategory(r)
    BY <2>3, <2>5, <2>6 DEF CheckCategory, CategoryStatus, Steps
  <2>7. CASE ActivateCategory(r)
    BY <2>3, <2>5, <2>7 DEF ActivateCategory, Steps
  <2>8. CASE ValidateEvent(r)
    BY <2>3, <2>4, <2>5, <2>8 DEF ValidateEvent, Steps
  <2>9. CASE ValidateTags(r)
    BY <2>3, <2>4, <2>5, <2>9 DEF ValidateTags, Steps
  <2>10. ~(Convert(r) \/ AttachTags(r) \/ Insert(r) \/ Compare(r) \/ Unheard(r))
    BY <1>1 DEF Convert, AttachTags, Insert, Compare, Unheard
  <2> QED
    BY <2>2, <2>6, <2>7, <2>8, <2>9, <2>10 DEF Serve
<1>2. IInv /\ [Next]_vars => [\A r \in Requests :
          (req[r].pc \in {"category", "activate", "event", "tags"} /\ req'[r].pc = "answer")
             => \A i \in RowsOf(req[r].client) : rows[i].edited]_vars
  BY <1>1
<1> QED
  BY <1>2, Always, PTL DEF Spec, ReplayPasses

\* The tags stored and the tags of a repetition are both the ones chosen with
\* the auto_tags of the event, so a difference has a cause.
THEOREM Conflicts == Spec => ConflictHasCause
<1>1. ASSUME IInv, [Next]_vars, NEW r \in Requests,
             req[r].pc = "compare", req'[r].pc = "answer", req'[r].result = "conflict"
      PROVE  \E i \in RowsOf(req[r].client) :
                 rows[i].edited \/ rows[i].event \in retagged \/ rows[i].rate # req[r].rate
  <2> DEFINE c == req[r].client
             p == Payload[c]
  <2>1. Serve(r)
    BY <1>1, OwnStep
  <2>2. Compare(r)
    BY <1>1, <2>1 DEF Serve, CheckCategory, ActivateCategory, ValidateEvent, ValidateTags,
       Convert, AttachTags, Insert, Unheard
  <2>3. req \in [Requests -> Request] /\ ReqSound(req[r]) /\ c \in Clients
    BY <1>1 DEF IInv, Typed, RequestsSound, ReqSound
  <2>4. PICK i \in Taken(r) : Answer(r, IF SameData(i, r) THEN "duplicate" ELSE "conflict")
    <3>1. ~Answer(r, "error")
      BY <1>1, <2>3 DEF Answer, Request
    <3> QED
      BY <2>2, <3>1 DEF Compare
  <2>5. ~SameData(i, r)
    BY <1>1, <2>3, <2>4 DEF Answer, Request
  <2>6. i \in RowsOf(c) /\ i \in Recorded /\ rows[i].client = c /\ RowSound(rows[i])
    BY <1>1, <2>4 DEF Taken, RowsOf, IInv, RowsSound
  <2>7. ASSUME ~rows[i].edited, p.event \notin retagged
        PROVE  rows[i].event = p.event /\ rows[i].tags = req[r].tags
    BY <1>1, <2>3, <2>6, <2>7 DEF RowSound, ReqSound, TagsAsSent
  <2>8. ~rows[i].edited => rows[i].event = p.event
    BY <2>6 DEF RowSound
  <2> QED
    BY <2>5, <2>6, <2>7, <2>8 DEF SameData
<1>2. IInv /\ [Next]_vars => [\A r \in Requests :
          (req[r].pc = "compare" /\ req'[r].pc = "answer" /\ req'[r].result = "conflict")
             => \E i \in RowsOf(req[r].client) :
                   \/ rows[i].edited
                   \/ rows[i].event \in retagged
                   \/ rows[i].rate # req[r].rate]_vars
  BY <1>1
<1> QED
  BY <1>2, Always, PTL DEF Spec, ConflictHasCause
=============================================================================
