------------------------ MODULE ClassificationRules ------------------------
(***************************************************************************)
(* How the lines of a receipt get their categories, and how the user has   *)
(* the last word.  Receipts are worked on concurrently: each one finds the *)
(* chain of its shop (asking the LLM for the name of an unknown one), looks*)
(* up a rule for every line, asks the LLM about the lines no rule decides, *)
(* and books one expense per line in a single transaction, which also      *)
(* turns the answers into rules.  Meanwhile the user corrects expenses,    *)
(* edits them, approves or confirms rules, and reclassifies receipts; a    *)
(* correction of what an LLM call said rates that call.  Abstractions:     *)
(*   - a line is its normalised name; amounts, dates and tags are left out;*)
(*   - every category is visible (the module Catalog has the others);      *)
(*   - a receipt is claimed by one coroutine (the module ReceiptQueue): its*)
(*     work is here a sequence of steps that can be given up after each;   *)
(*   - a rating is made with the correction; the call that reports it to   *)
(*     the broker after the commit may fail, which only loses it.          *)
(***************************************************************************)
EXTENDS Integers, FiniteSets, Sequences

CONSTANTS
    Receipts,
    Lines,        \* the lines of all the receipts; a line is its expense's key
    ReceiptOf,    \* ReceiptOf[i]: the receipt of line i
    Name,         \* Name[i]: the normalised name of line i, Blank if nothing is left
    Names,
    Blank,
    Shop,         \* Shop[r]: the shop of receipt r (its PIB or its raw name)
    Shops,
    NoShop,       \* the receipt names no shop
    Legacy,       \* shops that may be stored without a chain from before chains
    Chains,
    NoChain,      \* chain_id IS NULL
    Journal,      \* Journal[r]: "no", or how the lines of the journal miss the total:
                  \* "add" an amount, or "replace" the lines
    OldReceipts,  \* receipts before the time a correction with a scope goes back to
    Categories,
    Answers,      \* what an LLM may say about a line
    MaxCalls,     \* bound: LLM answers
    MaxRules,     \* bound: rows of classification_rules
    MaxTouches,   \* bound: requests of the user
    NoRow

RuleIds == 1..MaxRules
NoRule == 0      \* rule_id IS NULL
NoCall == 0      \* llm_call_id IS NULL
Calls == 1..MaxCalls
ExpenseIds == Lines \cup Receipts   \* a receipt: the correction of its journal

Answer == [category: Categories, conf: 1..4, alts: SUBSET Categories]
Rule == [chain: Chains \cup {NoChain}, name: Names, category: Categories, conf: 1..4,
         source: {"llm", "user_correction"}, alts: SUBSET Categories, call: Calls \cup {NoCall}]
Expense == [category: Categories, conf: 1..4, rule: RuleIds \cup {NoRule}]
Hit == [rule: RuleIds, category: Categories, conf: 1..4]
Rating == [call: Calls, rule: RuleIds, to: Categories, half: BOOLEAN]

ASSUME LinesAssumption ==
    /\ IsFiniteSet(Receipts) /\ IsFiniteSet(Lines)
    /\ Lines \cap Receipts = {} /\ ReceiptOf \in [Lines -> Receipts]
    /\ Name \in [Lines -> Names \cup {Blank}] /\ Blank \notin Names
    /\ Lines \subseteq Int
ASSUME ShopsAssumption ==
    /\ Shop \in [Receipts -> Shops \cup {NoShop}] /\ NoShop \notin Shops
    /\ Legacy \subseteq Shops /\ NoChain \notin Chains
ASSUME ReceiptsAssumption ==
    Journal \in [Receipts -> {"no", "add", "replace"}] /\ OldReceipts \subseteq Receipts
ASSUME AnswersAssumption == Answers \subseteq Answer
ASSUME BoundsAssumption == MaxCalls \in Nat /\ MaxRules \in Nat /\ MaxTouches \in Nat
ASSUME NullAssumption ==
    NoRow \notin Rule \cup Expense \cup Hit \cup Chains \cup {NoChain}

VARIABLES
    stores,    \* table stores: the chain of every stored shop
    linked,    \* receipts with a store_id
    rules,     \* table classification_rules
    lastRule,  \* its AUTOINCREMENT counter
    expenses,  \* the expenses booked for receipts
    named,     \* lines whose name_normalized is stored
    work,      \* the coroutine of every receipt
    answers,   \* history: what every accepted call said, line by line
    ratings,   \* what corrections reported about calls
    edit,      \* an edit between its two transactions
    touches    \* requests of the user so far

vars == <<stores, linked, rules, lastRule, expenses, named, work, answers, ratings, edit, touches>>

Rows(table) == {k \in DOMAIN table : table[k] # NoRow}
NoEdit == [at |-> "none"]
Same == "same"   \* an edit that names no category
LinesOf(r) == {i \in Lines : ReceiptOf[i] = r /\ Journal[r] # "replace"}
Idle == [at |-> "idle", chain |-> NoChain, hits |-> [i \in {} |-> NoRow], settled |-> {}]

TypeOK ==
    /\ stores \in [Shops -> Chains \cup {NoChain, NoRow}]
    /\ linked \subseteq Receipts
    /\ rules \in [RuleIds -> Rule \cup {NoRow}]
    /\ lastRule \in 0..MaxRules
    /\ expenses \in [ExpenseIds -> Expense \cup {NoRow}]
    /\ named \subseteq Lines
    /\ \A r \in Receipts :
          /\ work[r].at \in {"idle", "chain", "rules", "llm", "done", "deleted"}
          /\ work[r].chain \in Chains \cup {NoChain}
          /\ work[r].hits \in [DOMAIN work[r].hits -> Hit \cup {NoRow}]
          /\ work[r].settled \subseteq RuleIds
    /\ \A c \in Calls : answers[c] \in [DOMAIN answers[c] -> Answer]
    /\ ratings \subseteq Rating
    /\ touches \in 0..MaxTouches
    /\ edit \in {NoEdit} \cup
          [at: {"rule"}, expense: ExpenseIds, category: Categories \cup {Same}]

--------------------------------------------------------------------------
(* The shop of a receipt *)

\* get_chain_name returned: the row of the shop is made unless another receipt
\* made it meanwhile, and is read again; its chain counts, not the answer.
ChainAnswered(r, answer) ==   \* mutant: the chain of this answer counts
    answer
ChainStored(r, answer) ==
    IF stores[Shop[r]] = NoRow THEN answer ELSE stores[Shop[r]]

\* Continue with the lines of receipt r, which belongs to the chain.
Located(r, chain) == work' = [work EXCEPT ![r] = [Idle EXCEPT !.at = "rules", !.chain = chain]]

FindStore(r) ==
    /\ work[r].at = "idle"
    /\ IF Shop[r] = NoShop
       THEN Located(r, NoChain) /\ UNCHANGED linked
       ELSE IF stores[Shop[r]] # NoRow
       THEN Located(r, stores[Shop[r]]) /\ linked' = linked \cup {r}
       ELSE work' = [work EXCEPT ![r].at = "chain"] /\ UNCHANGED linked
    /\ UNCHANGED <<stores, rules, lastRule, expenses, named, answers, ratings, edit>>

ResolveStore(r, answer) ==
    /\ work[r].at = "chain"
    /\ stores' = [stores EXCEPT ![Shop[r]] = IF @ = NoRow THEN answer ELSE @]
    /\ Located(r, ChainStored(r, answer))
    /\ linked' = linked \cup {r}
    /\ UNCHANGED <<rules, lastRule, expenses, named, answers, ratings, edit>>

--------------------------------------------------------------------------
(* Rules *)

\* The rule of a name in a chain, or without one, NoRule if there is none.
FindRuleEqual(chain, name) ==   \* mutant: chain_id = ?, which NULL never is
    IF chain # NoChain /\ \E k \in Rows(rules) : rules[k].chain = chain /\ rules[k].name = name
    THEN CHOOSE k \in Rows(rules) : rules[k].chain = chain /\ rules[k].name = name
    ELSE NoRule
FindRule(chain, name) ==
    IF \E k \in Rows(rules) : rules[k].chain = chain /\ rules[k].name = name
    THEN CHOOSE k \in Rows(rules) : rules[k].chain = chain /\ rules[k].name = name
    ELSE NoRule

\* classify_by_rules: the rule of the chain beats the generic one; a rule that
\* is sure of nothing (confidence 1) does not decide.
HitOf(chain, i) ==
    LET own == FindRule(chain, Name[i])
        k == IF own # NoRule THEN own ELSE FindRule(NoChain, Name[i])
    IN  IF k # NoRule /\ rules[k].conf > 1
        THEN [rule |-> k, category |-> rules[k].category, conf |-> rules[k].conf]
        ELSE NoRow

Settled(rule) == rule # NoRow /\ rule.source = "user_correction"

RulesPass(r) ==
    /\ work[r].at = "rules"
    /\ work' = [work EXCEPT ![r].at = "llm",
                            ![r].hits = [i \in LinesOf(r) |-> HitOf(work[r].chain, i)],
                            ![r].settled = {k \in RuleIds : Settled(rules[k])}]
    /\ UNCHANGED <<stores, linked, rules, lastRule, expenses, named, answers, ratings, edit>>

\* create_or_update_rule for several names of one chain at once: the row each
\* name has, or a new one, the new ones with the next free ids.
RuleIdsFor(chain, names) ==
    LET fresh == {n \in names : FindRule(chain, n) = NoRule}
    IN  {id \in [names -> RuleIds] :
            /\ \A n \in names \ fresh : id[n] = FindRule(chain, n)
            /\ \A n \in fresh : lastRule < id[n] /\ id[n] <= lastRule + Cardinality(fresh)
            /\ \A m, n \in fresh : m # n => id[m] # id[n]}

Fresh(chain, names) == Cardinality({n \in names : FindRule(chain, n) = NoRule})

LearnedKeepsCall(k, chain, name, answer, call) ==   \* mutant: COALESCE(?, llm_call_id)
    [chain |-> chain, name |-> name, category |-> answer.category, conf |-> answer.conf,
     source |-> "llm", alts |-> answer.alts,
     call |-> IF call = NoCall /\ rules[k] # NoRow THEN rules[k].call ELSE call]
Learned(k, chain, name, answer, call) ==
    [chain |-> chain, name |-> name, category |-> answer.category, conf |-> answer.conf,
     source |-> "llm", alts |-> answer.alts, call |-> call]

\* A correction of the user: certain, without alternatives and without a call.
Corrected(chain, name, category) ==
    [chain |-> chain, name |-> name, category |-> category, conf |-> 4,
     source |-> "user_correction", alts |-> {}, call |-> NoCall]

--------------------------------------------------------------------------
(* Booking a receipt *)

Missed(r) == {i \in DOMAIN work[r].hits : work[r].hits[i] = NoRow}
NamesMissed(r) == {Name[i] : i \in Missed(r)} \ {Blank}

\* Of two lines with one name, the rule is written for both, the later one last.
LastLine(r, name) ==
    CHOOSE i \in Missed(r) : Name[i] = name /\ \A j \in Missed(r) : Name[j] = name => j <= i

\* The expense of a line: by its rule as the pass saw it, or by the answer, with
\* the rule the answer becomes; a line without a name gets none.
Booked(r, i, said, id) ==
    IF i \notin Missed(r)
    THEN [category |-> work[r].hits[i].category, conf |-> work[r].hits[i].conf,
          rule |-> work[r].hits[i].rule]
    ELSE [category |-> said[i].category, conf |-> said[i].conf,
          rule |-> IF Name[i] = Blank THEN NoRule ELSE id[Name[i]]]

\* persist_classification_results.  A rule that was deleted since the pass fails
\* the transaction on its foreign key; the receipt is poisoned then (GiveUp).
Persist(r, said, call, rest) ==
    LET chain == work[r].chain
        names == NamesMissed(r)
    IN  /\ \A i \in LinesOf(r) \ Missed(r) : rules[work[r].hits[i].rule] # NoRow
        /\ lastRule + Fresh(chain, names) <= MaxRules
        /\ lastRule' = lastRule + Fresh(chain, names)
        /\ \E id \in RuleIdsFor(chain, names) :
              /\ rules' = [k \in RuleIds |->
                     IF \E n \in names : id[n] = k
                     THEN LET n == CHOOSE n \in names : id[n] = k
                          IN  Learned(k, chain, n, said[LastLine(r, n)], call)
                     ELSE rules[k]]
              /\ expenses' = [x \in ExpenseIds |->
                     CASE x \in LinesOf(r) -> Booked(r, x, said, id)
                       [] x = r /\ Journal[r] # "no" ->
                              [category |-> rest, conf |-> 1, rule |-> NoRule]
                       [] OTHER -> expenses[x]]
        /\ named' = named \cup LinesOf(r)
        /\ work' = [work EXCEPT ![r] = [Idle EXCEPT !.at = "done"]]
        /\ UNCHANGED <<stores, linked, ratings, edit>>

\* The calls are numbered as their answers are accepted.
LastCall == Cardinality({c \in Calls : DOMAIN answers[c] # {}})

\* The LLM answers for every line that missed, or there was nothing to ask.
PersistAnswers(r, said, rest) ==
    /\ work[r].at = "llm"
    /\ LET call == IF Missed(r) = {} THEN NoCall ELSE LastCall + 1
       IN  /\ call <= MaxCalls
           /\ answers' = [c \in Calls |-> IF c = call THEN said ELSE answers[c]]
           /\ Persist(r, said, call, rest)

\* _load_top_fallback_categories: the most used category, whichever that is, and
\* the next ones as alternatives.
Fallback(primary) == [category |-> primary, conf |-> 1, alts |-> Categories \ {primary}]

\* No attempt brought a usable answer: the most used categories take its place.
PersistFallback(r, primary, rest) ==
    /\ work[r].at = "llm" /\ Missed(r) # {}
    /\ UNCHANGED answers
    /\ Persist(r, [i \in Missed(r) |-> Fallback(primary)], NoCall, rest)

\* A transient error, a crash or a poisoned receipt that is put back later.
GiveUp(r) ==
    /\ work[r].at \in {"chain", "rules", "llm"}
    /\ work' = [work EXCEPT ![r] = Idle]
    /\ UNCHANGED <<stores, linked, rules, lastRule, expenses, named, answers, ratings, edit>>

--------------------------------------------------------------------------
(* What the user does *)

\* pending_rating_for_rule: the call a rule still owes to, judged by its own
\* category and alternatives.
RatingOf(k, category) ==
    IF k # NoRule /\ rules[k].source = "llm" /\ rules[k].call # NoCall
                  /\ rules[k].category # category
    THEN {[call |-> rules[k].call, rule |-> k, to |-> category,
           half |-> category \in rules[k].alts]}
    ELSE {}

ChainOf(r) == IF r \in linked THEN stores[Shop[r]] ELSE NoChain
ReceiptOfExpense(x) == IF x \in Lines THEN ReceiptOf[x] ELSE x

\* _query_other_items: the expenses of lines with the same name and chain; a
\* shop without a chain has none, as only receipts without a shop count then.
OtherExpenses(x, scope) ==
    IF x \notin Lines \/ scope = "single" \/ Name[x] = Blank THEN {}
    ELSE {i \in named \ {x} :
            /\ expenses[i] # NoRow /\ Name[i] = Name[x]
            /\ LET chain == ChainOf(ReceiptOf[x])
               IN  IF chain # NoChain THEN ChainOf(ReceiptOf[i]) = chain
                                      ELSE ReceiptOf[i] \notin linked
            /\ scope = "recent" => ReceiptOf[i] \notin OldReceipts}

Recategorized(x, category, scope) ==
    [y \in ExpenseIds |->
        IF y = x \/ y \in OtherExpenses(x, scope)
        THEN [expenses[y] EXCEPT !.category = category, !.conf = 4] ELSE expenses[y]]

\* correct_category_sync: PATCH /api/expenses/{id}/category
Correct(x, category, scope) ==
    LET names == IF x \in Lines THEN {Name[x]} \ {Blank} ELSE {}
        chain == ChainOf(ReceiptOfExpense(x))
    IN  /\ x \in Rows(expenses)
        /\ expenses' = Recategorized(x, category, scope)
        /\ lastRule + Fresh(chain, names) <= MaxRules
        /\ lastRule' = lastRule + Fresh(chain, names)
        /\ \E id \in RuleIdsFor(chain, names) :
              rules' = [k \in RuleIds |->
                  IF \E n \in names : id[n] = k THEN Corrected(chain, Name[x], category)
                  ELSE rules[k]]
        /\ ratings' = ratings \cup UNION {RatingOf(FindRule(chain, n), category) : n \in names}
        /\ UNCHANGED <<stores, linked, named, work, answers, edit>>

\* edit_expense_sync with update_rule: the correction leaves the rule alone; a
\* second transaction settles the rule of the expense.
Edit(x, category, scope) ==
    /\ edit = NoEdit   \* bound: one edit at a time
    /\ x \in Rows(expenses)
    /\ expenses' = IF category = Same THEN expenses ELSE Recategorized(x, category, scope)
    /\ edit' = [at |-> "rule", expense |-> x, category |-> category]
    /\ UNCHANGED <<stores, linked, rules, lastRule, named, work, answers, ratings>>

\* A rule the user approves or confirms keeps its alternatives and its call.
ApprovedSource(rule, category) ==   \* mutant: the source stays
    [rule EXCEPT !.category = category, !.conf = 4]
Approved(rule, category) ==
    [rule EXCEPT !.category = category, !.conf = 4, !.source = "user_correction"]
ConfirmedSource(rule) ==   \* mutant: the confidence stays
    [rule EXCEPT !.source = "user_correction"]
Confirmed(rule) == [rule EXCEPT !.conf = 4, !.source = "user_correction"]

SettleRule(k, category) ==
    /\ ratings' = ratings \cup RatingOf(k, category)
    /\ rules' = [rules EXCEPT ![k] = Approved(@, category)]
    /\ expenses' = [x \in ExpenseIds |->
           IF x \in Rows(expenses) /\ expenses[x].rule = k
           THEN [expenses[x] EXCEPT !.category = category, !.conf = 4] ELSE expenses[x]]

UpdateRule ==
    /\ edit # NoEdit
    /\ LET x == edit.expense
       IN  IF x \in Rows(expenses) /\ expenses[x].rule # NoRule
           THEN SettleRule(expenses[x].rule,
                           IF edit.category = Same THEN expenses[x].category ELSE edit.category)
           ELSE UNCHANGED <<ratings, rules, expenses>>
    /\ edit' = NoEdit
    /\ UNCHANGED <<stores, linked, lastRule, named, work, answers>>

\* approve_rule_category: PATCH /api/rules/{id}/category
Approve(k, category) ==
    /\ k \in Rows(rules)
    /\ SettleRule(k, category)
    /\ UNCHANGED <<stores, linked, lastRule, named, work, answers, edit>>

\* confirm_rules_bulk: POST /api/rules/confirm-all
Confirm(ks) ==
    /\ rules' = [k \in RuleIds |-> IF k \in ks \cap Rows(rules) THEN Confirmed(rules[k])
                                   ELSE rules[k]]
    /\ expenses' = [x \in ExpenseIds |->
           IF x \in Rows(expenses) /\ expenses[x].rule \in ks
           THEN [expenses[x] EXCEPT !.conf = 4] ELSE expenses[x]]
    /\ UNCHANGED <<stores, linked, lastRule, named, work, answers, ratings, edit>>

ExpensesOf(r) == {x \in ExpenseIds : ReceiptOfExpense(x) = r}
WithoutExpenses(r) ==
    [x \in ExpenseIds |-> IF x \in ExpensesOf(r) THEN NoRow ELSE expenses[x]]

\* requeue_receipts, with or without the rules of the receipt's names: those of
\* its chain and the generic ones, which no expense that is left may refer to.
\* Of a receipt that is being worked on, ReceiptQueue says what happens.
Cleared(r) ==
    {k \in Rows(rules) : /\ \E i \in named \cap LinesOf(r) : Name[i] = rules[k].name
                         /\ rules[k].chain \in {NoChain, ChainOf(r)}}
Reclassify(r, clear) ==
    /\ work[r].at = "done"
    /\ clear => \A x \in Rows(expenses) \ ExpensesOf(r) : expenses[x].rule \notin Cleared(r)
    /\ expenses' = WithoutExpenses(r)
    /\ rules' = [k \in RuleIds |-> IF clear /\ k \in Cleared(r) THEN NoRow ELSE rules[k]]
    /\ work' = [work EXCEPT ![r] = Idle]
    /\ UNCHANGED <<stores, linked, lastRule, named, answers, ratings, edit>>

\* delete_receipt_cascade; a coroutine that works on the receipt fails later on
\* (it may still store the shop, as the next receipt of the shop would).
DeleteReceipt(r) ==
    /\ work[r].at # "deleted"
    /\ expenses' = WithoutExpenses(r)
    /\ named' = named \ LinesOf(r)
    /\ linked' = linked \ {r}
    /\ work' = [work EXCEPT ![r] = [Idle EXCEPT !.at = "deleted"]]
    /\ UNCHANGED <<stores, rules, lastRule, answers, ratings, edit>>

--------------------------------------------------------------------------

Init ==
    /\ \E old \in SUBSET Legacy : stores = [s \in Shops |-> IF s \in old THEN NoChain ELSE NoRow]
    /\ linked = {} /\ named = {} /\ ratings = {} /\ edit = NoEdit /\ touches = 0
    /\ rules = [k \in RuleIds |-> NoRow] /\ lastRule = 0
    /\ expenses = [x \in ExpenseIds |-> NoRow]
    /\ work = [r \in Receipts |-> Idle]
    /\ answers = [c \in Calls |-> [i \in {} |-> NoRow]]

Classify ==
    \E r \in Receipts :
        \/ FindStore(r) \/ RulesPass(r) \/ GiveUp(r)
        \/ \E chain \in Chains : ResolveStore(r, chain)
        \/ \E said \in [Missed(r) -> Answers], rest \in Categories :
              PersistAnswers(r, said, rest)
        \/ \E primary, rest \in Categories : PersistFallback(r, primary, rest)

Request ==
    \/ \E x \in ExpenseIds, scope \in {"single", "recent", "all"} :
          \/ \E category \in Categories : Correct(x, category, scope)
          \/ \E category \in Categories \cup {Same} : Edit(x, category, scope)
    \/ \E k \in RuleIds, category \in Categories : Approve(k, category)
    \/ \E ks \in (SUBSET Rows(rules)) \ {{}} : Confirm(ks)
    \/ \E r \in Receipts, clear \in BOOLEAN : Reclassify(r, clear)
    \/ \E r \in Receipts : DeleteReceipt(r)

Next ==
    \/ (Classify \/ UpdateRule) /\ UNCHANGED touches
    \/ Request /\ touches < MaxTouches /\ touches' = touches + 1

Spec == Init /\ [][Next]_vars

--------------------------------------------------------------------------
(* The review feed (GET /api/rules/feed) *)

\* query_rules and count_doubtful: a rule is listed with the lines that bear its
\* name, in receipts of its chain unless it is generic.
Listed(k) ==
    /\ k \in Rows(rules)
    /\ \E i \in named : /\ Name[i] = rules[k].name
                        /\ rules[k].chain \in {NoChain, ChainOf(ReceiptOf[i])}
DoubtfulRules == {k \in RuleIds : Listed(k) /\ rules[k].conf < 4}

\* query_pending_correction_reviews: doubtful expenses of a receipt that no line
\* and no rule stands for.
PendingReviews == {x \in Rows(expenses) \cap Receipts : expenses[x].conf < 4 /\ expenses[x].rule = NoRule}

\* Both in some fixed order; amounts, which are left out, give the real one.
InOrder(S) == CHOOSE s \in [1..Cardinality(S) -> S] : {s[n] : n \in DOMAIN s} = S
Slice(s, limit, offset) == SubSeq(s, offset + 1, IF offset + limit < Len(s) THEN offset + limit ELSE Len(s))

PageOffset(page, size) ==   \* mutant: the rules are not shifted by the corrections
    (page - 1) * size
RuleOffset(page, size) ==
    LET offset == (page - 1) * size - Cardinality(PendingReviews)
    IN  IF offset < 0 THEN 0 ELSE offset

FeedPage(page, size) ==
    LET reviews == Slice(InOrder(PendingReviews), size, (page - 1) * size)
    IN  reviews \o Slice(InOrder(DoubtfulRules), size - Len(reviews), RuleOffset(page, size))
FeedTotal == Cardinality(DoubtfulRules) + Cardinality(PendingReviews)
HasMore(page, size) == page * size < FeedTotal

--------------------------------------------------------------------------
(* Properties *)

\* Every rule by which an expense was booked is a rule for the name of its line,
\* of the chain of its shop or generic: it is listed in the review feed, and the
\* next receipt of the shop finds it.  Receipts of one unknown shop ask for its
\* chain at the same time and may be told different names.
BookedRulesListed ==
    \A x \in Rows(expenses) : expenses[x].rule # NoRule =>
        LET k == expenses[x].rule
        IN  /\ x \in named /\ k \in Rows(rules) /\ rules[k].name = Name[x]
            /\ rules[k].chain \in {NoChain, ChainOf(ReceiptOf[x])}

\* One rule for a name in a chain: the lookup before every insert sees what the
\* unique indexes would refuse, which would poison the receipt.
OneRulePerName ==
    \A j, k \in Rows(rules) :
        rules[j].chain = rules[k].chain /\ rules[j].name = rules[k].name => j = k

\* Both: the tables and what the coroutines hold are well formed, and no two rows of
\* the rules compete for a name.
Consistent == TypeOK /\ OneRulePerName

\* correction_ratings.py: a call is rated once for each of its rules, however
\* often the rule is corrected, approved, confirmed or edited.
RatedOnce ==
    \A a, b \in ratings : a.call = b.call /\ a.rule = b.rule => a = b

\* correction_ratings.py: a call is rated for a category that it did not give
\* itself, with half the credit if that was one of its own alternatives: never
\* for the answer of another call or of the fallback.
RatingsFair ==
    \A m \in ratings : \E i \in DOMAIN answers[m.call] :
        /\ m.to # answers[m.call][i].category
        /\ m.half = (m.to \in answers[m.call][i].alts)

\* A rule the user settled is replaced only by an answer for a receipt that had
\* looked up its rules before: whoever looks later is told by the rule.
SettledBeforePass ==
    [][\A k \in RuleIds : Settled(rules[k]) /\ rules'[k] # NoRow /\ ~Settled(rules'[k]) =>
          \E r \in Receipts : /\ work[r].at = "llm" /\ work'[r].at = "done"
                              /\ k \notin work[r].settled]_vars

\* classification-pipeline.md: a user correction is the highest authority, so no
\* answer of an LLM replaces the rule it made.
UserRuleStands ==
    [][\A k \in RuleIds : Settled(rules[k]) /\ rules'[k] # NoRow => Settled(rules'[k])]_vars

LastPage(size) ==
    CHOOSE p \in 1..(FeedTotal + 1) :
        ~HasMore(p, size) /\ \A q \in 1..(p - 1) : HasMore(q, size)
Places(size) ==
    {c \in (1..LastPage(size)) \X (1..size) : c[2] <= Len(FeedPage(c[1], size))}
PagesComplete(size) ==
    /\ {FeedPage(c[1], size)[c[2]] : c \in Places(size)} = DoubtfulRules \cup PendingReviews
    /\ Cardinality(Places(size)) = FeedTotal

\* The pages of the feed up to the last one hold every doubtful rule and every
\* pending correction exactly once, when nothing changes between the requests.
FeedPagesComplete == \A size \in 1..2 : PagesComplete(size)
=============================================================================
