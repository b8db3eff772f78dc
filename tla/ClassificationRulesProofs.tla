--------------------- MODULE ClassificationRulesProofs ---------------------
(***************************************************************************)
(* Theorems about ClassificationRules, for every set of receipts, lines,   *)
(* names, shops, chains, categories and answers, every journal, and every  *)
(* number of calls, rules, requests of the user and rows of a page.        *)
(***************************************************************************)
EXTENDS ClassificationRules, FiniteSetTheorems, SequenceTheorems, TLAPS

\* What TypeOK leaves open: a coroutine per receipt, which after its pass holds a hit
\* or a miss for every line, and an answer per call.
WorkRow == [at: {"idle", "chain", "rules", "llm", "done", "deleted"},
            chain: Chains \cup {NoChain},
            hits: UNION {[S -> Hit \cup {NoRow}] : S \in SUBSET Lines},
            settled: SUBSET RuleIds]
Shape ==
    /\ work \in [Receipts -> WorkRow]
    /\ answers \in [Calls -> UNION {[S -> Answer] : S \in SUBSET Lines}]
    /\ \A r \in Receipts : work[r].at = "llm" => DOMAIN work[r].hits = LinesOf(r)

\* Ids of rules are given in order and never again.
IdsGiven == \A k \in Rows(rules) : k <= lastRule

\* The user's word is certain.
SettledSure == \A k \in RuleIds : Settled(rules[k]) => rules[k].conf > 1

\* A linked receipt has a stored shop, a receipt that asks for its chain has a shop, and
\* one that is past the lookup belongs to the chain it was told.
LinkedStored ==
    /\ \A r \in linked : Shop[r] # NoShop /\ stores[Shop[r]] # NoRow
    /\ \A r \in Receipts : work[r].at = "chain" => Shop[r] # NoShop
    /\ \A r \in Receipts : work[r].at \in {"rules", "llm"} => work[r].chain = ChainOf(r)

\* A receipt that is not done has no expenses.
NothingBooked ==
    \A r \in Receipts : work[r].at # "done" => \A x \in ExpensesOf(r) : expenses[x] = NoRow

\* What the pass saw: a hit is a rule of the name, if it is still there; a line that
\* missed has no rule that was settled then.
Fits(k, chain, i) ==
    rules[k] # NoRow => rules[k].name = Name[i] /\ rules[k].chain \in {NoChain, chain}
PassTrue ==
    \A r \in Receipts : work[r].at = "llm" =>
        /\ \A i \in LinesOf(r) \ Missed(r) :
              LET k == work[r].hits[i].rule
              IN  k <= lastRule /\ Fits(k, work[r].chain, i)
        /\ \A k \in work[r].settled :
              /\ k <= lastRule
              /\ rules[k] # NoRow /\ rules[k].chain = work[r].chain =>
                     \A i \in Missed(r) : rules[k].name # Name[i]

\* Calls are answered one after the other.
CallsInOrder ==
    \E n \in 0..MaxCalls : \A c \in Calls : DOMAIN answers[c] # {} <=> c <= n

\* A rule that owes to a call says what the call said, and the call was not yet rated
\* for it; only answered calls are rated.
Owes ==
    /\ \A k \in Rows(rules) : rules[k].source = "llm" /\ rules[k].call # NoCall =>
          /\ \E i \in DOMAIN answers[rules[k].call] :
                /\ rules[k].category = answers[rules[k].call][i].category
                /\ rules[k].alts = answers[rules[k].call][i].alts
          /\ \A m \in ratings : ~(m.call = rules[k].call /\ m.rule = k)

IInv ==
    /\ TypeOK /\ Shape
    /\ OneRulePerName /\ IdsGiven /\ SettledSure
    /\ LinkedStored /\ NothingBooked /\ PassTrue /\ BookedRulesListed
    /\ CallsInOrder /\ Owes /\ RatedOnce /\ RatingsFair
-----------------------------------------------------------------------------
(* Lines, names and ids. *)

LEMMA Basics ==
    /\ RuleIds \subseteq Nat /\ NoRule \notin RuleIds /\ NoRule = 0
    /\ Calls \subseteq Nat /\ NoCall \notin Calls /\ NoCall = 0
    /\ \A r : LinesOf(r) \subseteq Lines
    /\ Lines \subseteq ExpenseIds /\ Receipts \subseteq ExpenseIds
    /\ \A x \in ExpenseIds : ReceiptOfExpense(x) \in Receipts
    /\ NoRow \notin Rule /\ NoRow \notin Expense /\ NoRow \notin Hit
    /\ NoRow \notin Chains \cup {NoChain}
    /\ Blank \notin Names
BY LinesAssumption, BoundsAssumption, NullAssumption
DEF RuleIds, NoRule, Calls, NoCall, LinesOf, ExpenseIds, ReceiptOfExpense

\* A finite set of numbers that is not empty has a greatest one.
LEMMA FiniteMax ==
    ASSUME NEW S, S \subseteq Int, IsFiniteSet(S), S # {}
    PROVE  \E m \in S : \A j \in S : j <= m
<1> DEFINE Above(i) == {j \in S : j > i}
           T == {Above(i) : i \in S}
<1>1. IsWellFoundedOn(StrictSubsetOrdering(S), SUBSET S)
  BY FS_StrictSubsetOrderingWellFounded, FS_FiniteSubsetsOfFinite
<1>2. T \subseteq SUBSET S /\ T # {}
  OBVIOUS
<1>3. \E x \in T : \A y \in T : ~ (<<y, x>> \in StrictSubsetOrdering(S))
  <2> HIDE DEF T
  <2> QED
    BY <1>1, <1>2, WFMin
<1>4. PICK m \in S : \A j \in S : ~ (<<Above(j), Above(m)>> \in StrictSubsetOrdering(S))
  BY <1>3
<1>5. ASSUME NEW j \in S, ~(j <= m) PROVE FALSE
  <2>1. j > m /\ j \in Int /\ m \in Int
    BY <1>5
  <2>2. Above(j) \subseteq Above(m)
    <3>1. SUFFICES ASSUME NEW k \in S, k > j PROVE k > m
      OBVIOUS
    <3>2. k \in Int
      OBVIOUS
    <3> QED
      BY <2>1, <3>1, <3>2
  <2>3. j \in Above(m) /\ j \notin Above(j)
    BY <2>1
  <2>4. <<Above(j), Above(m)>> \in StrictSubsetOrdering(S)
    <3>1. Above(j) \in SUBSET S /\ Above(m) \in SUBSET S /\ Above(j) # Above(m)
      BY <2>2, <2>3
    <3> HIDE DEF Above
    <3> QED
      BY <2>2, <3>1 DEF StrictSubsetOrdering
  <2> QED
    BY <1>4, <2>4
<1> QED
  BY <1>5

\* Missed lines are lines of the receipt, and of each missed name there is a last one.
LEMMA MissedLines ==
    ASSUME TypeOK, Shape, NEW r \in Receipts, work[r].at = "llm"
    PROVE  /\ DOMAIN work[r].hits = LinesOf(r)
           /\ Missed(r) \subseteq LinesOf(r) /\ Missed(r) \subseteq Lines
           /\ IsFiniteSet(Missed(r))
           /\ NamesMissed(r) \subseteq Names /\ IsFiniteSet(NamesMissed(r))
           /\ \A n \in NamesMissed(r) :
                 LastLine(r, n) \in Missed(r) /\ Name[LastLine(r, n)] = n
           /\ \A i \in LinesOf(r) \ Missed(r) : work[r].hits[i] \in Hit
           /\ work[r].chain \in Chains \cup {NoChain}
<1>1. DOMAIN work[r].hits = LinesOf(r) /\ work[r] \in WorkRow
  BY DEF Shape
<1>2. Missed(r) \subseteq LinesOf(r) /\ LinesOf(r) \subseteq Lines
  BY <1>1, Basics DEF Missed
<1>3. IsFiniteSet(Missed(r)) /\ Missed(r) \subseteq Int
  <2>1. IsFiniteSet(Lines) /\ Missed(r) \in SUBSET Lines
    BY <1>2, LinesAssumption
  <2>2. IsFiniteSet(Missed(r))
    BY <2>1, FS_Subset
  <2> QED
    BY <2>1, <2>2, LinesAssumption
<1>4. \A i \in Missed(r) : Name[i] \in Names \cup {Blank}
  BY <1>2, LinesAssumption
<1>5. NamesMissed(r) \subseteq Names
  BY <1>4 DEF NamesMissed
<1>6. IsFiniteSet(NamesMissed(r))
  <2> DEFINE S == Missed(r)
             f == [i \in S |-> Name[i]]
             All == {Name[i] : i \in S}
  <2>1. f \in Surjection(S, All)
    BY DEF Surjection
  <2>2. IsFiniteSet(All)
    <3> HIDE DEF f, All
    <3> QED
      BY <1>3, <2>1, FS_Surjection
  <2>3. NamesMissed(r) \in SUBSET All
    BY DEF NamesMissed
  <2> QED
    BY <2>2, <2>3, FS_Subset
<1>7. ASSUME NEW n \in NamesMissed(r)
      PROVE  LastLine(r, n) \in Missed(r) /\ Name[LastLine(r, n)] = n
  <2> DEFINE S == {i \in Missed(r) : Name[i] = n}
  <2>1. S \in SUBSET Missed(r) /\ S # {} /\ S \subseteq Int
    BY <1>3 DEF NamesMissed
  <2>2. IsFiniteSet(S)
    BY <1>3, <2>1, FS_Subset
  <2>3. \E m \in S : \A j \in S : j <= m
    <3> HIDE DEF S
    <3> QED
      BY <2>1, <2>2, FiniteMax
  <2>4. \E i \in Missed(r) : Name[i] = n /\ \A j \in Missed(r) : Name[j] = n => j <= i
    BY <2>3
  <2> QED
    BY <2>4 DEF LastLine
<1>8. ASSUME NEW i \in LinesOf(r) \ Missed(r) PROVE work[r].hits[i] \in Hit
  <2>1. work[r].hits[i] # NoRow
    BY <1>1, <1>8 DEF Missed
  <2>2. work[r].hits[i] \in Hit \cup {NoRow}
    BY <1>1, <1>8 DEF TypeOK
  <2> QED
    BY <2>1, <2>2
<1>9. work[r].chain \in Chains \cup {NoChain}
  BY DEF TypeOK
<1> QED
  BY <1>1, <1>2, <1>3, <1>5, <1>6, <1>7, <1>8, <1>9

\* The lookup returns a rule of the name in the chain, the only one there is.
LEMMA Lookup ==
    ASSUME NEW chain, NEW name
    PROVE  /\ FindRule(chain, name) # NoRule =>
                 /\ FindRule(chain, name) \in Rows(rules)
                 /\ rules[FindRule(chain, name)].chain = chain
                 /\ rules[FindRule(chain, name)].name = name
           /\ TypeOK => FindRule(chain, name) \in RuleIds \cup {NoRule}
           /\ TypeOK /\ OneRulePerName =>
                 \A k \in Rows(rules) : rules[k].chain = chain /\ rules[k].name = name =>
                     FindRule(chain, name) = k
<1>1. CASE \E k \in Rows(rules) : rules[k].chain = chain /\ rules[k].name = name
  <2> DEFINE c == CHOOSE k \in Rows(rules) : rules[k].chain = chain /\ rules[k].name = name
  <2>1. c \in Rows(rules) /\ rules[c].chain = chain /\ rules[c].name = name
    BY <1>1
  <2>2. FindRule(chain, name) = c
    BY <1>1 DEF FindRule
  <2> HIDE DEF c
  <2>3. TypeOK => c \in RuleIds /\ c # NoRule
    BY <2>1, Basics DEF TypeOK, Rows
  <2> QED
    BY <2>1, <2>2, <2>3 DEF OneRulePerName
<1>2. CASE ~\E k \in Rows(rules) : rules[k].chain = chain /\ rules[k].name = name
  BY <1>2 DEF FindRule
<1> QED
  BY <1>1, <1>2

\* What every step leaves of a rule: its chain and its name, as long as it has a row.
Kept ==
    /\ lastRule' \in Nat /\ lastRule <= lastRule'
    /\ \A k \in RuleIds : k <= lastRule /\ rules'[k] # NoRow =>
          rules[k] # NoRow /\ rules'[k].chain = rules[k].chain /\ rules'[k].name = rules[k].name

\* create_or_update_rule for the names of a receipt: each name ends up with one row,
\* the one it had or a new one, and nothing else changes.
LEMMA RulesWritten ==
    ASSUME TypeOK, OneRulePerName, IdsGiven,
           NEW chain \in Chains \cup {NoChain}, NEW names \in SUBSET Names, IsFiniteSet(names),
           NEW id \in RuleIdsFor(chain, names),
           NEW new \in [names -> Rule],
           \A n \in names : new[n].chain = chain /\ new[n].name = n,
           rules' = [k \in RuleIds |-> rules'[k]],
           \A k \in RuleIds :
               \/ \E n \in names : id[n] = k /\ rules'[k] = new[n]
               \/ (\A n \in names : id[n] # k) /\ rules'[k] = rules[k],
           lastRule' = lastRule + Fresh(chain, names), lastRule' <= MaxRules
    PROVE  /\ rules' \in [RuleIds -> Rule \cup {NoRow}] /\ lastRule' \in 0..MaxRules
           /\ OneRulePerName' /\ IdsGiven' /\ Kept
           /\ \A k \in Rows(rules) : rules'[k] # NoRow
           /\ id \in [names -> RuleIds] /\ \A n \in names : rules'[id[n]] = new[n]
           /\ \A k \in Rows(rules), n \in names :
                 k = id[n] => /\ rules[k].chain = chain /\ rules[k].name = n
                              /\ k = FindRule(chain, n)
<1> DEFINE fresh == {n \in names : FindRule(chain, n) = NoRule}
<1>1. /\ id \in [names -> RuleIds]
      /\ \A n \in names \ fresh : id[n] = FindRule(chain, n)
      /\ \A n \in fresh : lastRule < id[n] /\ id[n] <= lastRule + Cardinality(fresh)
      /\ \A m, n \in fresh : m # n => id[m] # id[n]
  BY DEF RuleIdsFor
<1>2. /\ lastRule \in Nat /\ Cardinality(fresh) \in Nat /\ MaxRules \in Nat
      /\ lastRule' = lastRule + Cardinality(fresh)
      /\ RuleIds \subseteq Nat
  <2>1. fresh \in SUBSET names
    OBVIOUS
  <2>2. IsFiniteSet(fresh)
    BY <2>1, FS_Subset
  <2>3. Cardinality(fresh) \in Nat
    BY <2>2, FS_CardinalityType
  <2> QED
    BY <2>3, BoundsAssumption, Basics DEF Fresh, TypeOK
<1>3. /\ \A k \in Rows(rules) : k \in RuleIds /\ k <= lastRule /\ rules[k] \in Rule
      /\ rules \in [RuleIds -> Rule \cup {NoRow}]
  BY DEF IdsGiven, TypeOK, Rows
<1>4. ASSUME NEW n \in names, n \notin fresh
      PROVE  id[n] \in Rows(rules) /\ rules[id[n]].chain = chain /\ rules[id[n]].name = n
  <2>1. FindRule(chain, n) # NoRule /\ id[n] = FindRule(chain, n)
    BY <1>1, <1>4
  <2> QED
    BY <2>1, Lookup
<1> HIDE DEF fresh
<1>5. ASSUME NEW k \in Rows(rules), NEW n \in names, k = id[n]
      PROVE  rules[k].chain = chain /\ rules[k].name = n /\ k = FindRule(chain, n)
  <2>1. n \notin fresh
    BY <1>1, <1>2, <1>3, <1>5
  <2> QED
    BY <1>1, <1>4, <1>5, <2>1
<1>6. ASSUME NEW m \in names, NEW n \in names, id[m] = id[n]
      PROVE  m = n
  <2>1. CASE m \in fresh /\ n \in fresh
    BY <1>1, <1>6, <2>1
  <2>2. CASE m \notin fresh
    BY <1>4, <1>5, <1>6, <2>2
  <2>3. CASE n \notin fresh
    BY <1>4, <1>5, <1>6, <2>3
  <2> QED
    BY <2>1, <2>2, <2>3
<1>7. \A n \in names : id[n] \in RuleIds /\ rules'[id[n]] = new[n]
  BY <1>1, <1>6
<1>8. rules' \in [RuleIds -> Rule \cup {NoRow}]
  <2>1. \A k \in RuleIds : rules'[k] \in Rule \cup {NoRow}
    BY <1>3
  <2> QED
    BY <2>1
<1>9. \A k \in Rows(rules) : rules'[k] # NoRow
  BY <1>3, Basics DEF Rows
<1>10. ASSUME NEW j \in RuleIds, NEW k \in RuleIds, rules'[j] # NoRow, rules'[k] # NoRow,
              rules'[j].chain = rules'[k].chain, rules'[j].name = rules'[k].name
       PROVE  j = k
  <2>1. CASE \E m \in names : id[m] = j /\ rules'[j] = new[m]
    <3>1. PICK m \in names : id[m] = j /\ rules'[j] = new[m]
      BY <2>1
    <3>2. CASE \E n \in names : id[n] = k /\ rules'[k] = new[n]
      BY <1>10, <3>1, <3>2
    <3>3. CASE (\A n \in names : id[n] # k) /\ rules'[k] = rules[k]
      <4>1. k \in Rows(rules) /\ rules[k].chain = chain /\ rules[k].name = m
        BY <1>3, <1>10, <3>1, <3>3 DEF Rows
      <4>2. FindRule(chain, m) = k
        BY <4>1, Lookup
      <4>3. m \notin fresh
        BY <4>1, <4>2, <1>3, Basics DEF fresh
      <4> QED
        BY <1>1, <3>3, <4>2, <4>3
    <3> QED
      BY <3>2, <3>3
  <2>2. CASE \E n \in names : id[n] = k /\ rules'[k] = new[n]
    <3>1. PICK m \in names : id[m] = k /\ rules'[k] = new[m]
      BY <2>2
    <3>2. CASE \E n \in names : id[n] = j /\ rules'[j] = new[n]
      BY <1>10, <3>1, <3>2
    <3>3. CASE (\A n \in names : id[n] # j) /\ rules'[j] = rules[j]
      <4>1. j \in Rows(rules) /\ rules[j].chain = chain /\ rules[j].name = m
        BY <1>3, <1>10, <3>1, <3>3 DEF Rows
      <4>2. FindRule(chain, m) = j
        BY <4>1, Lookup
      <4>3. m \notin fresh
        BY <4>1, <4>2, <1>3, Basics DEF fresh
      <4> QED
        BY <1>1, <3>3, <4>2, <4>3
    <3> QED
      BY <3>2, <3>3
  <2>3. CASE rules'[j] = rules[j] /\ rules'[k] = rules[k]
    BY <1>3, <1>10, <2>3 DEF OneRulePerName, Rows
  <2> QED
    BY <2>1, <2>2, <2>3
<1>11. OneRulePerName'
  BY <1>8, <1>10 DEF OneRulePerName, Rows
<1>12. ASSUME NEW k \in RuleIds, rules'[k] # NoRow PROVE k <= lastRule'
  <2>1. CASE \E n \in names : id[n] = k
    <3>1. PICK n \in names : id[n] = k
      BY <2>1
    <3>2. CASE n \in fresh
      BY <1>1, <1>2, <3>1, <3>2
    <3>3. CASE n \notin fresh
      <4>1. k <= lastRule /\ k \in Nat
        BY <1>2, <1>3, <1>4, <3>1, <3>3
      <4> QED
        BY <1>2, <4>1
    <3> QED
      BY <3>2, <3>3
  <2>2. CASE rules'[k] = rules[k]
    <3>1. k <= lastRule /\ k \in Nat
      BY <1>2, <1>3, <1>12, <2>2 DEF Rows
    <3> QED
      BY <1>2, <3>1
  <2> QED
    BY <2>1, <2>2
<1>13. IdsGiven'
  BY <1>8, <1>12 DEF IdsGiven, Rows
<1>14. ASSUME NEW k \in RuleIds, k <= lastRule, rules'[k] # NoRow
       PROVE  rules[k] # NoRow /\ rules'[k].chain = rules[k].chain /\ rules'[k].name = rules[k].name
  <2>1. CASE \E n \in names : id[n] = k /\ rules'[k] = new[n]
    <3>1. PICK n \in names : id[n] = k /\ rules'[k] = new[n]
      BY <2>1
    <3>2. n \notin fresh
      BY <1>1, <1>2, <1>14, <3>1
    <3> QED
      BY <1>4, <3>1, <3>2 DEF Rows
  <2>2. CASE rules'[k] = rules[k]
    BY <1>14, <2>2
  <2> QED
    BY <2>1, <2>2
<1>15. lastRule' \in 0..MaxRules /\ lastRule' \in Nat /\ lastRule <= lastRule'
  BY <1>2
<1> QED
  BY <1>1, <1>5, <1>7, <1>8, <1>9, <1>11, <1>13, <1>14, <1>15 DEF Kept

-----------------------------------------------------------------------------
(* What booking a receipt does. *)

LEMMA PersistRules ==
    ASSUME IInv, NEW r \in Receipts, work[r].at = "llm",
           NEW said \in [Missed(r) -> Answer], NEW call \in Calls \cup {NoCall},
           NEW rest \in Categories, Persist(r, said, call, rest)
    PROVE  /\ rules' \in [RuleIds -> Rule \cup {NoRow}] /\ lastRule' \in 0..MaxRules
           /\ OneRulePerName' /\ IdsGiven' /\ Kept
           /\ \A k \in Rows(rules) : rules'[k] # NoRow
           /\ \A k \in RuleIds :
                 \/ rules'[k] = rules[k]
                 \/ \E i \in Missed(r) :
                       /\ rules'[k] = Learned(k, work[r].chain, Name[i], said[i], call)
                       /\ k \in Rows(rules) => rules[k].chain = work[r].chain
                                               /\ rules[k].name = Name[i]
           /\ \E id \in [NamesMissed(r) -> RuleIds] :
                 /\ \A n \in NamesMissed(r) : /\ rules'[id[n]] \in Rule
                                              /\ rules'[id[n]].chain = work[r].chain
                                              /\ rules'[id[n]].name = n
                 /\ expenses' = [x \in ExpenseIds |->
                        CASE x \in LinesOf(r) -> Booked(r, x, said, id)
                          [] x = r /\ Journal[r] # "no" ->
                                 [category |-> rest, conf |-> 1, rule |-> NoRule]
                          [] OTHER -> expenses[x]]
<1> DEFINE chain == work[r].chain
           names == NamesMissed(r)
           new == [n \in names |-> Learned(0, chain, n, said[LastLine(r, n)], call)]
<1>1. /\ chain \in Chains \cup {NoChain} /\ names \in SUBSET Names /\ IsFiniteSet(names)
      /\ \A n \in names : LastLine(r, n) \in Missed(r) /\ Name[LastLine(r, n)] = n
  BY MissedLines DEF IInv
<1>2. \A n \in names : /\ new[n] \in Rule /\ new[n].chain = chain /\ new[n].name = n
                       /\ \A k : new[n] = Learned(k, chain, n, said[LastLine(r, n)], call)
  <2>1. SUFFICES ASSUME NEW n \in names
                 PROVE  /\ new[n] \in Rule /\ new[n].chain = chain /\ new[n].name = n
                        /\ \A k : new[n] = Learned(k, chain, n, said[LastLine(r, n)], call)
    OBVIOUS
  <2>2. said[LastLine(r, n)] \in Answer /\ n \in Names
    BY <1>1
  <2>3. new[n] = Learned(0, chain, n, said[LastLine(r, n)], call)
    OBVIOUS
  <2> HIDE DEF new, chain, names
  <2> QED
    BY <1>1, <2>2, <2>3 DEF Learned, Rule, Answer
<1>3. new \in [names -> Rule]
  <2>1. new = [n \in names |-> new[n]]
    OBVIOUS
  <2> HIDE DEF new
  <2> QED
    BY <1>2, <2>1
<1>4. PICK id \in RuleIdsFor(chain, names) :
         /\ rules' = [k \in RuleIds |->
                IF \E n \in names : id[n] = k
                THEN LET n == CHOOSE n \in names : id[n] = k
                     IN  Learned(k, chain, n, said[LastLine(r, n)], call)
                ELSE rules[k]]
         /\ expenses' = [x \in ExpenseIds |->
                CASE x \in LinesOf(r) -> Booked(r, x, said, id)
                  [] x = r /\ Journal[r] # "no" ->
                         [category |-> rest, conf |-> 1, rule |-> NoRule]
                  [] OTHER -> expenses[x]]
  BY DEF Persist
<1>5. /\ lastRule' = lastRule + Fresh(chain, names) /\ lastRule' <= MaxRules
  BY DEF Persist
<1>6. rules' = [k \in RuleIds |-> rules'[k]]
  BY <1>4
<1>7. \A k \in RuleIds :
         \/ \E n \in names : id[n] = k /\ rules'[k] = new[n]
         \/ (\A n \in names : id[n] # k) /\ rules'[k] = rules[k]
  <2> SUFFICES ASSUME NEW k \in RuleIds
               PROVE  \/ \E n \in names : id[n] = k /\ rules'[k] = new[n]
                      \/ (\A n \in names : id[n] # k) /\ rules'[k] = rules[k]
    OBVIOUS
  <2> HIDE DEF new, chain, names
  <2>1. CASE \E n \in names : id[n] = k
    <3> DEFINE c == CHOOSE n \in names : id[n] = k
    <3>1. c \in names /\ id[c] = k
      BY <2>1
    <3>2. rules'[k] = Learned(k, chain, c, said[LastLine(r, c)], call)
      BY <1>4, <2>1
    <3> HIDE DEF c
    <3>3. rules'[k] = new[c]
      BY <1>2, <3>1, <3>2
    <3> QED
      BY <3>1, <3>3
  <2>2. CASE ~\E n \in names : id[n] = k
    BY <1>4, <2>2
  <2> QED
    BY <2>1, <2>2
<1>8. /\ rules' \in [RuleIds -> Rule \cup {NoRow}] /\ lastRule' \in 0..MaxRules
      /\ OneRulePerName' /\ IdsGiven' /\ Kept
      /\ \A k \in Rows(rules) : rules'[k] # NoRow
      /\ id \in [names -> RuleIds] /\ \A n \in names : rules'[id[n]] = new[n]
      /\ \A k \in Rows(rules), n \in names :
            k = id[n] => rules[k].chain = chain /\ rules[k].name = n
  <2> HIDE DEF new, chain, names
  <2> QED
    BY <1>1, <1>2, <1>3, <1>5, <1>6, <1>7, RulesWritten DEF IInv
<1>9. ASSUME NEW k \in RuleIds, rules'[k] # rules[k]
      PROVE  \E i \in Missed(r) :
                /\ rules'[k] = Learned(k, chain, Name[i], said[i], call)
                /\ k \in Rows(rules) => rules[k].chain = chain /\ rules[k].name = Name[i]
  <2> HIDE DEF new, chain, names
  <2>1. PICK n \in names : id[n] = k /\ rules'[k] = new[n]
    BY <1>7, <1>9
  <2>2. /\ LastLine(r, n) \in Missed(r) /\ Name[LastLine(r, n)] = n
        /\ rules'[k] = Learned(k, chain, n, said[LastLine(r, n)], call)
    BY <1>1, <1>2, <2>1
  <2> QED
    BY <1>8, <2>1, <2>2
<1>10. \A n \in names : /\ rules'[id[n]] \in Rule /\ rules'[id[n]].chain = chain
                        /\ rules'[id[n]].name = n
  <2> HIDE DEF new, chain, names
  <2> QED
    BY <1>2, <1>8
<1>11. \E id2 \in [NamesMissed(r) -> RuleIds] :
          /\ \A n \in NamesMissed(r) : /\ rules'[id2[n]] \in Rule
                                       /\ rules'[id2[n]].chain = work[r].chain
                                       /\ rules'[id2[n]].name = n
          /\ expenses' = [x \in ExpenseIds |->
                 CASE x \in LinesOf(r) -> Booked(r, x, said, id2)
                   [] x = r /\ Journal[r] # "no" ->
                          [category |-> rest, conf |-> 1, rule |-> NoRule]
                   [] OTHER -> expenses[x]]
  <2>1. id \in [NamesMissed(r) -> RuleIds]
    BY <1>8
  <2> HIDE DEF new
  <2> QED
    BY <1>4, <1>10, <2>1
<1> HIDE DEF new
<1> QED
  BY <1>8, <1>9, <1>11

\* The expenses: one for every line, by a rule of its name, and the correction of the
\* journal without one.
LEMMA PersistExpenses ==
    ASSUME IInv, NEW r \in Receipts, work[r].at = "llm",
           NEW said \in [Missed(r) -> Answer], NEW call \in Calls \cup {NoCall},
           NEW rest \in Categories, Persist(r, said, call, rest)
    PROVE  /\ expenses' \in [ExpenseIds -> Expense \cup {NoRow}]
           /\ \A x \in ExpenseIds \ ExpensesOf(r) : expenses'[x] = expenses[x]
           /\ \A x \in ExpensesOf(r) :
                 expenses'[x] # NoRow /\ expenses'[x].rule # NoRule =>
                     /\ x \in LinesOf(r) /\ expenses'[x].rule \in RuleIds
                     /\ rules'[expenses'[x].rule] # NoRow
                     /\ rules'[expenses'[x].rule].name = Name[x]
                     /\ rules'[expenses'[x].rule].chain \in {NoChain, work[r].chain}
<1>1. PICK id \in [NamesMissed(r) -> RuleIds] :
         /\ \A n \in NamesMissed(r) : /\ rules'[id[n]] \in Rule
                                      /\ rules'[id[n]].chain = work[r].chain
                                      /\ rules'[id[n]].name = n
         /\ expenses' = [x \in ExpenseIds |->
                CASE x \in LinesOf(r) -> Booked(r, x, said, id)
                  [] x = r /\ Journal[r] # "no" ->
                         [category |-> rest, conf |-> 1, rule |-> NoRule]
                  [] OTHER -> expenses[x]]
  BY PersistRules
<1>2. Kept /\ \A k \in Rows(rules) : rules'[k] # NoRow
  BY PersistRules
<1>3. /\ expenses \in [ExpenseIds -> Expense \cup {NoRow}]
      /\ \A x \in ExpensesOf(r) : expenses[x] = NoRow
  BY DEF IInv, TypeOK, NothingBooked
<1>4. /\ LinesOf(r) \subseteq Lines /\ LinesOf(r) \subseteq ExpensesOf(r) /\ r \in ExpensesOf(r)
      /\ r \notin LinesOf(r)
  BY LinesAssumption, Basics DEF LinesOf, ExpensesOf, ReceiptOfExpense, ExpenseIds
<1>5. ASSUME NEW x \in LinesOf(r)
      PROVE  LET b == Booked(r, x, said, id)
             IN  /\ b \in Expense
                 /\ b.rule # NoRule =>
                       /\ b.rule \in RuleIds /\ rules'[b.rule] # NoRow
                       /\ rules'[b.rule].name = Name[x]
                       /\ rules'[b.rule].chain \in {NoChain, work[r].chain}
  <2>1. CASE x \notin Missed(r)
    <3> DEFINE h == work[r].hits[x]
    <3>1. h \in Hit /\ Booked(r, x, said, id) = [category |-> h.category, conf |-> h.conf,
                                                 rule |-> h.rule]
      BY <2>1, MissedLines DEF Booked, IInv
    <3>2. h.rule <= lastRule /\ Fits(h.rule, work[r].chain, x)
      BY <2>1 DEF IInv, PassTrue
    <3>3. rules[h.rule] # NoRow
      BY <2>1 DEF Persist
    <3>4. h.rule \in RuleIds /\ h.category \in Categories /\ h.conf \in 1..4
      BY <3>1 DEF Hit
    <3>5. h.rule \in Rows(rules)
      BY <3>3, <3>4 DEF IInv, TypeOK, Rows
    <3> HIDE DEF h
    <3>6. /\ rules'[h.rule] # NoRow
          /\ rules'[h.rule].name = Name[x] /\ rules'[h.rule].chain \in {NoChain, work[r].chain}
      BY <1>2, <3>2, <3>3, <3>4, <3>5 DEF Kept, Fits
    <3> QED
      BY <3>1, <3>4, <3>6 DEF Expense
  <2>2. CASE x \in Missed(r)
    <3>1. said[x] \in Answer
      BY <2>2
    <3>2. CASE Name[x] = Blank
      <4>1. Booked(r, x, said, id) = [category |-> said[x].category, conf |-> said[x].conf,
                                      rule |-> NoRule]
        BY <2>2, <3>2 DEF Booked
      <4> QED
        BY <3>1, <4>1 DEF Expense, Answer
    <3>3. CASE Name[x] # Blank
      <4>1. Booked(r, x, said, id) = [category |-> said[x].category, conf |-> said[x].conf,
                                      rule |-> id[Name[x]]]
        BY <2>2, <3>3 DEF Booked
      <4>2. Name[x] \in NamesMissed(r)
        BY <2>2, <3>3 DEF NamesMissed
      <4>3. /\ id[Name[x]] \in RuleIds /\ rules'[id[Name[x]]] \in Rule
            /\ rules'[id[Name[x]]].chain = work[r].chain /\ rules'[id[Name[x]]].name = Name[x]
        BY <1>1, <4>2
      <4> QED
        BY <3>1, <4>1, <4>3, Basics DEF Expense, Answer
    <3> QED
      BY <3>2, <3>3
  <2> QED
    BY <2>1, <2>2
<1>6. ASSUME NEW x \in ExpenseIds
      PROVE  /\ x \in LinesOf(r) => expenses'[x] = Booked(r, x, said, id)
             /\ x = r => \/ expenses'[x] = [category |-> rest, conf |-> 1, rule |-> NoRule]
                         \/ expenses'[x] = expenses[x]
             /\ x \notin LinesOf(r) /\ x # r => expenses'[x] = expenses[x]
  BY <1>1, <1>4
<1>7. [category |-> rest, conf |-> 1, rule |-> NoRule] \in Expense
  BY DEF Expense
<1>8. \A x \in ExpenseIds : expenses'[x] \in Expense \cup {NoRow}
  BY <1>3, <1>4, <1>5, <1>6, <1>7
<1>9. expenses' \in [ExpenseIds -> Expense \cup {NoRow}]
  <2>1. expenses' = [x \in ExpenseIds |-> expenses'[x]]
    BY <1>1
  <2> QED
    BY <1>8, <2>1
<1>10. \A x \in ExpenseIds \ ExpensesOf(r) : expenses'[x] = expenses[x]
  BY <1>4, <1>6
<1>11. ASSUME NEW x \in ExpensesOf(r), expenses'[x] # NoRow, expenses'[x].rule # NoRule
       PROVE  /\ x \in LinesOf(r) /\ expenses'[x].rule \in RuleIds
              /\ rules'[expenses'[x].rule] # NoRow
              /\ rules'[expenses'[x].rule].name = Name[x]
              /\ rules'[expenses'[x].rule].chain \in {NoChain, work[r].chain}
  <2>1. x \in ExpenseIds
    BY DEF ExpensesOf
  <2>2. x \in LinesOf(r)
    BY <1>3, <1>6, <1>11, <2>1
  <2> QED
    BY <1>5, <1>6, <1>11, <2>1, <2>2
<1> QED
  BY <1>9, <1>10, <1>11

-----------------------------------------------------------------------------
(* What the parts of the invariant need of a step. *)

LEMMA IdleRow ==
    /\ Idle \in WorkRow /\ Idle.at = "idle"
    /\ \A chain \in Chains \cup {NoChain} :
          LET w == [Idle EXCEPT !.at = "rules", !.chain = chain]
          IN  w \in WorkRow /\ w.at = "rules" /\ w.chain = chain
    /\ \A a \in {"done", "deleted"} :
          LET w == [Idle EXCEPT !.at = a] IN w \in WorkRow /\ w.at = a
<1>1. [i \in {} |-> NoRow] \in UNION {[S -> Hit \cup {NoRow}] : S \in SUBSET Lines}
  <2>1. {} \in SUBSET Lines /\ [i \in {} |-> NoRow] \in [{} -> Hit \cup {NoRow}]
    OBVIOUS
  <2> QED
    BY <2>1
<1> QED
  BY <1>1 DEF Idle, WorkRow

LEMMA ShapeTypes ==
    ASSUME Shape'
    PROVE  /\ \A r \in Receipts :
                 /\ work'[r].at \in {"idle", "chain", "rules", "llm", "done", "deleted"}
                 /\ work'[r].chain \in Chains \cup {NoChain}
                 /\ work'[r].hits \in [DOMAIN work'[r].hits -> Hit \cup {NoRow}]
                 /\ work'[r].settled \subseteq RuleIds
           /\ \A c \in Calls : answers'[c] \in [DOMAIN answers'[c] -> Answer]
<1>1. ASSUME NEW r \in Receipts
      PROVE  /\ work'[r].at \in {"idle", "chain", "rules", "llm", "done", "deleted"}
             /\ work'[r].chain \in Chains \cup {NoChain}
             /\ work'[r].hits \in [DOMAIN work'[r].hits -> Hit \cup {NoRow}]
             /\ work'[r].settled \subseteq RuleIds
  <2>1. work'[r] \in WorkRow
    BY DEF Shape
  <2>2. PICK S \in SUBSET Lines : work'[r].hits \in [S -> Hit \cup {NoRow}]
    BY <2>1 DEF WorkRow
  <2> QED
    BY <2>1, <2>2 DEF WorkRow
<1>2. ASSUME NEW c \in Calls PROVE answers'[c] \in [DOMAIN answers'[c] -> Answer]
  <2>1. PICK S \in SUBSET Lines : answers'[c] \in [S -> Answer]
    BY DEF Shape
  <2> QED
    BY <2>1
<1> QED
  BY <1>1, <1>2

\* The pass: its hits are rules of the names, and a rule that is settled decides.
LEMMA PassMade ==
    ASSUME IInv, NEW r \in Receipts, RulesPass(r)
    PROVE  /\ work' = [work EXCEPT ![r] = work'[r]]
           /\ work'[r] \in WorkRow /\ work'[r].at = "llm" /\ work'[r].chain = work[r].chain
           /\ DOMAIN work'[r].hits = LinesOf(r)
           /\ \A i \in LinesOf(r) : LET h == work'[r].hits[i]
                                    IN  h # NoRow => h.rule <= lastRule
                                                     /\ Fits(h.rule, work'[r].chain, i)
           /\ \A k \in work'[r].settled :
                 /\ k \in RuleIds /\ k <= lastRule
                 /\ rules[k] # NoRow /\ rules[k].chain = work'[r].chain =>
                        \A i \in LinesOf(r) : work'[r].hits[i] = NoRow => rules[k].name # Name[i]
<1> DEFINE chain == work[r].chain
           hits == [i \in LinesOf(r) |-> HitOf(chain, i)]
           settled == {k \in RuleIds : Settled(rules[k])}
<1>1. /\ work \in [Receipts -> WorkRow] /\ work[r] \in WorkRow /\ TypeOK /\ OneRulePerName
      /\ IdsGiven /\ SettledSure
  BY DEF IInv, Shape
<1>2. work' = [work EXCEPT ![r].at = "llm", ![r].hits = hits, ![r].settled = settled]
  BY DEF RulesPass
<1>3. ASSUME NEW i \in LinesOf(r)
      PROVE  /\ HitOf(chain, i) # NoRow =>
                    /\ HitOf(chain, i) \in Hit /\ HitOf(chain, i).rule <= lastRule
                    /\ Fits(HitOf(chain, i).rule, chain, i)
             /\ \A k \in settled : rules[k].chain = chain /\ rules[k].name = Name[i] =>
                    HitOf(chain, i) # NoRow
  <2> DEFINE own == FindRule(chain, Name[i])
             k == IF own # NoRule THEN own ELSE FindRule(NoChain, Name[i])
             hit == [rule |-> k, category |-> rules[k].category, conf |-> rules[k].conf]
  <2>1. HitOf(chain, i) = IF k # NoRule /\ rules[k].conf > 1 THEN hit ELSE NoRow
    BY DEF HitOf
  <2>2. k # NoRule => /\ k \in Rows(rules) /\ rules[k].name = Name[i]
                      /\ rules[k].chain \in {NoChain, chain}
    BY Lookup
  <2>3. k # NoRule => k \in RuleIds /\ rules[k] \in Rule /\ k <= lastRule
    BY <1>1, <2>2 DEF TypeOK, Rows, IdsGiven
  <2>4. \A j \in settled : rules[j].chain = chain /\ rules[j].name = Name[i] =>
           k = j /\ rules[k].conf > 1 /\ k # NoRule
    <3>1. SUFFICES ASSUME NEW j \in settled, rules[j].chain = chain, rules[j].name = Name[i]
                   PROVE  k = j /\ rules[k].conf > 1 /\ k # NoRule
      OBVIOUS
    <3>2. j \in Rows(rules) /\ j \in RuleIds
      BY <1>1 DEF TypeOK, Rows, Settled
    <3>3. own = j
      BY <1>1, <3>1, <3>2, Lookup
    <3> QED
      BY <1>1, <3>2, <3>3, Basics DEF SettledSure
  <2> HIDE DEF k
  <2>5. k # NoRule => hit \in Hit
    BY <2>3 DEF Hit, Rule
  <2>6. k # NoRule => hit # NoRow
    BY <2>5, Basics DEF Hit
  <2> HIDE DEF settled
  <2>7. k # NoRule => Fits(k, chain, i)
    BY <2>2 DEF Fits
  <2> QED
    BY <2>1, <2>3, <2>4, <2>5, <2>6, <2>7
<1>4. hits \in UNION {[S -> Hit \cup {NoRow}] : S \in SUBSET Lines} /\ DOMAIN hits = LinesOf(r)
  <2>1. LinesOf(r) \in SUBSET Lines
    BY Basics
  <2>2. hits \in [LinesOf(r) -> Hit \cup {NoRow}]
    BY <1>3
  <2> QED
    BY <2>1, <2>2
<1>5. settled \in SUBSET RuleIds
  OBVIOUS
<1>6. \A k \in settled : k \in RuleIds /\ k <= lastRule
  BY <1>1 DEF TypeOK, Rows, Settled, IdsGiven
<1>7. \A i \in LinesOf(r) : hits[i] = HitOf(chain, i)
  OBVIOUS
<1> HIDE DEF hits, settled
<1>8. /\ work'[r] \in WorkRow /\ work'[r].at = "llm" /\ work'[r].chain = chain
      /\ work'[r].hits = hits /\ work'[r].settled = settled
      /\ work' = [work EXCEPT ![r] = work'[r]]
  BY <1>1, <1>2, <1>4, <1>5 DEF WorkRow
<1> QED
  BY <1>3, <1>4, <1>6, <1>7, <1>8

\* Fits after a step.
StillFits(k, chain, i) ==
    rules'[k] # NoRow => rules'[k].name = Name[i] /\ rules'[k].chain \in {NoChain, chain}

LEMMA PassKept ==
    ASSUME IInv, Kept, NEW r \in Receipts, work'[r].at = "llm",
           work'[r] = work[r] \/ (RulesPass(r) /\ UNCHANGED <<rules, lastRule>>)
    PROVE  /\ \A i \in LinesOf(r) \ Missed(r)' :
                 LET k == work'[r].hits[i].rule
                 IN  k <= lastRule' /\ StillFits(k, work'[r].chain, i)
           /\ \A k \in work'[r].settled :
                 /\ k <= lastRule'
                 /\ rules'[k] # NoRow /\ rules'[k].chain = work'[r].chain =>
                        \A i \in Missed(r)' : rules'[k].name # Name[i]
<1>1. CASE work'[r] = work[r]
  <2>1. Missed(r)' = Missed(r) /\ work[r].at = "llm"
    BY <1>1 DEF Missed
  <2>2. lastRule \in Nat /\ lastRule' \in Nat /\ lastRule <= lastRule' /\ RuleIds \subseteq Nat
    BY Basics DEF Kept, IInv, TypeOK
  <2>3. ASSUME NEW k \in RuleIds, k <= lastRule
        PROVE  /\ rules'[k] # NoRow => /\ rules[k] # NoRow
                                       /\ rules'[k].chain = rules[k].chain
                                       /\ rules'[k].name = rules[k].name
    BY <2>3 DEF Kept
  <2>4. ASSUME NEW i \in LinesOf(r) \ Missed(r)
        PROVE  LET k == work[r].hits[i].rule
               IN  k <= lastRule' /\ StillFits(k, work[r].chain, i)
    <3> DEFINE k == work[r].hits[i].rule
    <3>1. work[r].hits[i] \in Hit
      BY <2>1, MissedLines DEF IInv
    <3>2. k \in RuleIds
      BY <3>1 DEF Hit
    <3>3. k <= lastRule /\ Fits(k, work[r].chain, i)
      BY <2>1 DEF IInv, PassTrue
    <3> HIDE DEF k
    <3>4. k <= lastRule'
      BY <2>2, <3>2, <3>3 DEF Kept
    <3>5. rules'[k] # NoRow => rules'[k].name = Name[i] /\ rules'[k].chain \in {NoChain, work[r].chain}
      BY <2>3, <3>2, <3>3 DEF Fits
    <3> QED
      BY <3>4, <3>5 DEF StillFits, k
  <2>5. ASSUME NEW k \in work[r].settled
        PROVE  /\ k <= lastRule'
               /\ rules'[k] # NoRow /\ rules'[k].chain = work[r].chain =>
                      \A i \in Missed(r) : rules'[k].name # Name[i]
    <3>1. k \in RuleIds
      BY DEF IInv, TypeOK
    <3>2. /\ k <= lastRule
          /\ rules[k] # NoRow /\ rules[k].chain = work[r].chain =>
                 \A i \in Missed(r) : rules[k].name # Name[i]
      BY <2>1 DEF IInv, PassTrue
    <3>3. k <= lastRule'
      <4>1. k \in Nat
        BY <2>2, <3>1
      <4> QED
        BY <2>2, <3>2, <4>1
    <3>4. rules'[k] # NoRow => /\ rules[k] # NoRow
                               /\ rules'[k].chain = rules[k].chain
                               /\ rules'[k].name = rules[k].name
      BY <2>3, <3>1, <3>2
    <3> QED
      BY <3>2, <3>3, <3>4
  <2> QED
    BY <1>1, <2>1, <2>4, <2>5
<1>2. CASE RulesPass(r) /\ UNCHANGED <<rules, lastRule>>
  <2>1. /\ DOMAIN work'[r].hits = LinesOf(r) /\ work'[r].chain = work[r].chain
        /\ \A i \in LinesOf(r) : LET h == work'[r].hits[i]
                                 IN  h # NoRow => h.rule <= lastRule
                                                  /\ Fits(h.rule, work'[r].chain, i)
        /\ \A k \in work'[r].settled :
              /\ k \in RuleIds /\ k <= lastRule
              /\ rules[k] # NoRow /\ rules[k].chain = work'[r].chain =>
                     \A i \in LinesOf(r) : work'[r].hits[i] = NoRow => rules[k].name # Name[i]
    BY <1>2, PassMade
  <2>2. Missed(r)' = {i \in LinesOf(r) : work'[r].hits[i] = NoRow}
    BY <2>1 DEF Missed
  <2> QED
    BY <1>2, <2>1, <2>2 DEF Fits, StillFits
<1> QED
  BY <1>1, <1>2

\* A rule that keeps its row keeps its chain and its name, and no row is added.
LEMMA RulesKept ==
    ASSUME IInv, lastRule' = lastRule, rules' \in [RuleIds -> Rule \cup {NoRow}],
           \A k \in RuleIds : rules'[k] # NoRow =>
               rules[k] # NoRow /\ rules'[k].chain = rules[k].chain /\ rules'[k].name = rules[k].name
    PROVE  Kept /\ OneRulePerName' /\ IdsGiven'
<1>1. lastRule \in Nat /\ lastRule \in 0..MaxRules /\ rules \in [RuleIds -> Rule \cup {NoRow}]
  BY BoundsAssumption DEF IInv, TypeOK
<1>2. Rows(rules') \subseteq Rows(rules) /\ Rows(rules') \subseteq RuleIds
  BY <1>1 DEF Rows
<1>3. Kept
  BY <1>1 DEF Kept
<1>4. OneRulePerName'
  BY <1>2 DEF IInv, OneRulePerName, Rows
<1>5. IdsGiven'
  BY <1>2 DEF IInv, IdsGiven, Rows
<1> QED
  BY <1>3, <1>4, <1>5

LEMMA PassTrueKept ==
    ASSUME IInv, Kept,
           \A r \in Receipts : work'[r].at = "llm" =>
               work'[r] = work[r] \/ (RulesPass(r) /\ UNCHANGED <<rules, lastRule>>)
    PROVE  PassTrue'
<1>1. SUFFICES ASSUME NEW r \in Receipts, work'[r].at = "llm"
               PROVE  /\ \A i \in LinesOf(r) \ Missed(r)' :
                            LET k == work'[r].hits[i].rule
                            IN  k <= lastRule' /\ StillFits(k, work'[r].chain, i)
                      /\ \A k \in work'[r].settled :
                            /\ k <= lastRule'
                            /\ rules'[k] # NoRow /\ rules'[k].chain = work'[r].chain =>
                                   \A i \in Missed(r)' : rules'[k].name # Name[i]
  BY DEF PassTrue, Fits, StillFits
<1>2. work'[r] = work[r] \/ (RulesPass(r) /\ UNCHANGED <<rules, lastRule>>)
  BY <1>1
<1> QED
  BY <1>1, <1>2, PassKept

\* The expenses that stay keep the rule they were booked by, if it has a row still.
LEMMA BookedKept ==
    ASSUME IInv, Kept, expenses' \in [ExpenseIds -> Expense \cup {NoRow}],
           rules' \in [RuleIds -> Rule \cup {NoRow}],
           \A x \in ExpenseIds : expenses'[x] # NoRow /\ expenses'[x].rule # NoRule =>
               /\ expenses[x] # NoRow /\ expenses'[x].rule = expenses[x].rule
               /\ rules'[expenses[x].rule] # NoRow
               /\ x \in named' /\ ChainOf(ReceiptOf[x])' = ChainOf(ReceiptOf[x])
    PROVE  BookedRulesListed'
<1>1. SUFFICES ASSUME NEW x \in ExpenseIds, expenses'[x] # NoRow, expenses'[x].rule # NoRule
               PROVE  LET k == expenses'[x].rule
                      IN  /\ x \in named' /\ k \in RuleIds /\ rules'[k] # NoRow
                          /\ rules'[k].name = Name[x]
                          /\ rules'[k].chain \in {NoChain, ChainOf(ReceiptOf[x])'}
  BY DEF BookedRulesListed, Rows
<1> DEFINE k == expenses[x].rule
<1>2. /\ expenses'[x].rule = k /\ rules'[k] # NoRow /\ x \in Rows(expenses) /\ k # NoRule
      /\ x \in named' /\ ChainOf(ReceiptOf[x])' = ChainOf(ReceiptOf[x])
  BY <1>1 DEF IInv, TypeOK, Rows
<1>3. /\ k \in Rows(rules) /\ rules[k].name = Name[x]
      /\ rules[k].chain \in {NoChain, ChainOf(ReceiptOf[x])}
  BY <1>2 DEF IInv, BookedRulesListed
<1> HIDE DEF k
<1>4. k \in RuleIds /\ k <= lastRule
  BY <1>3 DEF IInv, TypeOK, IdsGiven, Rows
<1>5. rules'[k].name = Name[x] /\ rules'[k].chain \in {NoChain, ChainOf(ReceiptOf[x])}
  BY <1>2, <1>3, <1>4 DEF Kept
<1> QED
  BY <1>2, <1>4, <1>5

\* Corrections rate what they overrule: of a rule that owes to a call, and only once, as
\* the rule is the user's from then on.
LEMMA RatedStep ==
    ASSUME IInv, NEW ks, NEW category, ks = {} \/ category \in Categories,
           ks \subseteq RuleIds \cup {NoRule},
           \A k \in ks : k # NoRule => rules[k] # NoRow,
           ratings' = ratings \cup UNION {RatingOf(k, category) : k \in ks},
           answers' = answers, rules' \in [RuleIds -> Rule \cup {NoRow}],
           \A k \in RuleIds :
               \/ rules'[k] = NoRow \/ rules'[k].source = "user_correction"
               \/ rules'[k] = rules[k] /\ k \notin ks
    PROVE  ratings' \subseteq Rating /\ Owes' /\ RatedOnce' /\ RatingsFair'
<1> DEFINE made(k) == [call |-> rules[k].call, rule |-> k, to |-> category,
                       half |-> category \in rules[k].alts]
<1>1. /\ rules \in [RuleIds -> Rule \cup {NoRow}] /\ ratings \subseteq Rating
      /\ Owes /\ RatedOnce /\ RatingsFair
  BY DEF IInv, TypeOK
<1>2. ASSUME NEW m \in ratings', m \notin ratings
      PROVE  /\ m.rule \in ks /\ m \in Rating
             /\ rules[m.rule].source = "llm" /\ rules[m.rule].call # NoCall
             /\ m.rule \in Rows(rules)
             /\ rules[m.rule].category # category
             /\ m = made(m.rule)
  <2>1. PICK k \in ks : m \in RatingOf(k, category)
    BY <1>2
  <2>2. /\ k # NoRule /\ rules[k].source = "llm" /\ rules[k].call # NoCall
        /\ rules[k].category # category
        /\ m = made(k)
    BY <2>1 DEF RatingOf
  <2>3. k \in RuleIds /\ rules[k] \in Rule /\ k \in Rows(rules)
    BY <1>1, <2>1, <2>2 DEF Rows
  <2>4. rules[k].call \in Calls
    BY <2>2, <2>3 DEF Rule
  <2>5. m \in Rating /\ m.rule = k
    BY <2>2, <2>3, <2>4 DEF Rating
  <2> QED
    BY <2>1, <2>2, <2>3, <2>5
<1>3. ratings' \subseteq Rating
  BY <1>1, <1>2
<1>4. ASSUME NEW k \in RuleIds, rules'[k] # NoRow, rules'[k].source = "llm", rules'[k].call # NoCall
      PROVE  /\ \E i \in DOMAIN answers'[rules'[k].call] :
                   /\ rules'[k].category = answers'[rules'[k].call][i].category
                   /\ rules'[k].alts = answers'[rules'[k].call][i].alts
             /\ \A m \in ratings' : ~(m.call = rules'[k].call /\ m.rule = k)
  <2>1. rules'[k] = rules[k] /\ k \notin ks /\ k \in Rows(rules)
    BY <1>1, <1>4 DEF Rows
  <2>2. /\ \E i \in DOMAIN answers[rules[k].call] :
              /\ rules[k].category = answers[rules[k].call][i].category
              /\ rules[k].alts = answers[rules[k].call][i].alts
        /\ \A m \in ratings : ~(m.call = rules[k].call /\ m.rule = k)
    BY <1>1, <1>4, <2>1 DEF Owes
  <2>3. \A m \in ratings' : m \notin ratings => m.rule # k
    BY <1>2, <2>1
  <2> QED
    BY <2>1, <2>2, <2>3
<1>5. Owes'
  BY <1>4 DEF Owes, Rows
<1>6. ASSUME NEW a \in ratings', NEW b \in ratings', a.call = b.call, a.rule = b.rule
      PROVE  a = b
  <2>1. CASE a \in ratings /\ b \in ratings
    BY <1>1, <1>6, <2>1 DEF RatedOnce
  <2>2. CASE a \notin ratings /\ b \notin ratings
    <3> HIDE DEF made
    <3> QED
      BY <1>2, <1>6, <2>2
  <2>3. CASE a \in ratings /\ b \notin ratings
    <3>1. b.rule \in Rows(rules) /\ rules[b.rule].source = "llm" /\ rules[b.rule].call # NoCall
      BY <1>2, <2>3
    <3>2. b.call = rules[b.rule].call
      BY <1>2, <2>3
    <3> QED
      BY <1>1, <1>6, <2>3, <3>1, <3>2 DEF Owes
  <2>4. CASE a \notin ratings /\ b \in ratings
    <3>1. a.rule \in Rows(rules) /\ rules[a.rule].source = "llm" /\ rules[a.rule].call # NoCall
      BY <1>2, <2>4
    <3>2. a.call = rules[a.rule].call
      BY <1>2, <2>4
    <3> QED
      BY <1>1, <1>6, <2>4, <3>1, <3>2 DEF Owes
  <2> QED
    BY <2>1, <2>2, <2>3, <2>4
<1>7. ASSUME NEW m \in ratings'
      PROVE  \E i \in DOMAIN answers[m.call] : /\ m.to # answers[m.call][i].category
                                               /\ m.half = (m.to \in answers[m.call][i].alts)
  <2>1. CASE m \in ratings
    BY <1>1, <2>1 DEF RatingsFair
  <2>2. CASE m \notin ratings
    <3> DEFINE k == m.rule
    <3>1. /\ k \in Rows(rules) /\ rules[k].source = "llm" /\ rules[k].call # NoCall
          /\ m.call = rules[k].call /\ m.to = category /\ m.half = (category \in rules[k].alts)
          /\ rules[k].category # category
      BY <1>2, <2>2
    <3>2. PICK i \in DOMAIN answers[rules[k].call] :
             /\ rules[k].category = answers[rules[k].call][i].category
             /\ rules[k].alts = answers[rules[k].call][i].alts
      BY <1>1, <3>1 DEF Owes
    <3> QED
      BY <3>1, <3>2
  <2> QED
    BY <2>1, <2>2
<1> QED
  BY <1>3, <1>5, <1>6, <1>7 DEF RatedOnce, RatingsFair

-----------------------------------------------------------------------------
(* The requests of the user. *)

Edits == {NoEdit} \cup [at: {"rule"}, expense: ExpenseIds, category: Categories \cup {Same}]

\* A request that leaves receipts alone: rules and expenses keep their names and links.
LEMMA UserKeeps ==
    ASSUME IInv, UNCHANGED <<stores, linked, named, work, answers>>,
           Kept, OneRulePerName', IdsGiven', lastRule' \in 0..MaxRules,
           rules' \in [RuleIds -> Rule \cup {NoRow}],
           \A k \in Rows(rules) : rules'[k] # NoRow,
           \A k \in RuleIds : Settled(rules'[k]) => rules'[k] = rules[k] \/ rules'[k].conf > 1,
           expenses' \in [ExpenseIds -> Expense \cup {NoRow}],
           \A x \in ExpenseIds : expenses'[x] # NoRow =>
               expenses[x] # NoRow /\ expenses'[x].rule = expenses[x].rule,
           ratings' \subseteq Rating, Owes', RatedOnce', RatingsFair',
           edit' \in Edits, touches' \in 0..MaxTouches
    PROVE  IInv'
<1>1. /\ TypeOK /\ Shape /\ SettledSure /\ LinkedStored /\ NothingBooked /\ BookedRulesListed
      /\ CallsInOrder
  BY DEF IInv
<1>2. Shape' /\ LinkedStored' /\ CallsInOrder'
  BY <1>1 DEF Shape, LinkedStored, CallsInOrder, ChainOf
<1>3. TypeOK'
  BY <1>1, <1>2, ShapeTypes DEF TypeOK, Edits
<1>4. SettledSure'
  BY <1>1 DEF SettledSure
<1>5. NothingBooked'
  <2>1. SUFFICES ASSUME NEW r \in Receipts, work'[r].at # "done", NEW x \in ExpensesOf(r)
                 PROVE  expenses'[x] = NoRow
    BY DEF NothingBooked
  <2>2. x \in ExpenseIds /\ expenses[x] = NoRow
    BY <1>1, <2>1 DEF NothingBooked, ExpensesOf
  <2> QED
    BY <2>2
<1>6. PassTrue'
  BY PassTrueKept
<1>7. BookedRulesListed'
  <2>1. ASSUME NEW x \in ExpenseIds, expenses'[x] # NoRow, expenses'[x].rule # NoRule
        PROVE  /\ expenses[x] # NoRow /\ expenses'[x].rule = expenses[x].rule
               /\ rules'[expenses[x].rule] # NoRow
               /\ x \in named' /\ ChainOf(ReceiptOf[x])' = ChainOf(ReceiptOf[x])
    <3>1. x \in Rows(expenses) /\ expenses'[x].rule = expenses[x].rule /\ expenses[x] # NoRow
      BY <1>1, <2>1 DEF TypeOK, Rows
    <3>2. x \in named /\ expenses[x].rule \in Rows(rules)
      BY <1>1, <2>1, <3>1 DEF BookedRulesListed
    <3> QED
      BY <3>1, <3>2 DEF ChainOf
  <2> QED
    BY <2>1, BookedKept
<1> QED
  BY <1>2, <1>3, <1>4, <1>5, <1>6, <1>7 DEF IInv

\* The user's word changes the category and the certainty of a row, and nothing else.
LEMMA Touched ==
    ASSUME NEW category \in Categories
    PROVE  /\ \A e \in Expense :
                 /\ [e EXCEPT !.category = category, !.conf = 4] \in Expense
                 /\ [e EXCEPT !.conf = 4] \in Expense
                 /\ [e EXCEPT !.category = category, !.conf = 4].rule = e.rule
                 /\ [e EXCEPT !.conf = 4].rule = e.rule
           /\ \A rule \in Rule : \A new \in {Approved(rule, category), Confirmed(rule)} :
                 /\ new \in Rule /\ new.chain = rule.chain /\ new.name = rule.name
                 /\ new.source = "user_correction" /\ new.conf = 4
<1>1. ASSUME NEW e \in Expense
      PROVE  /\ [e EXCEPT !.category = category, !.conf = 4] \in Expense
             /\ [e EXCEPT !.conf = 4] \in Expense
             /\ [e EXCEPT !.category = category, !.conf = 4].rule = e.rule
             /\ [e EXCEPT !.conf = 4].rule = e.rule
  <2> DEFINE d == [e EXCEPT !.category = category]
  <2>1. d \in Expense /\ d.rule = e.rule
    BY DEF Expense
  <2>2. [e EXCEPT !.category = category, !.conf = 4] = [d EXCEPT !.conf = 4]
    OBVIOUS
  <2> HIDE DEF d
  <2>3. \A f \in Expense : [f EXCEPT !.conf = 4] \in Expense /\ [f EXCEPT !.conf = 4].rule = f.rule
    BY DEF Expense
  <2> QED
    BY <2>1, <2>2, <2>3
<1>2. ASSUME NEW rule \in Rule
      PROVE  \A new \in {Approved(rule, category), Confirmed(rule)} :
                /\ new \in Rule /\ new.chain = rule.chain /\ new.name = rule.name
                /\ new.source = "user_correction" /\ new.conf = 4
  <2> DEFINE d == [rule EXCEPT !.category = category]
             sure(f) == [f EXCEPT !.conf = 4]
             settled(f) == [f EXCEPT !.source = "user_correction"]
  <2>1. d \in Rule /\ d.chain = rule.chain /\ d.name = rule.name
    BY DEF Rule
  <2>2. \A f \in Rule : /\ sure(f) \in Rule /\ sure(f).conf = 4
                        /\ sure(f).chain = f.chain /\ sure(f).name = f.name
    BY DEF Rule
  <2>3. \A f \in Rule : /\ settled(f) \in Rule /\ settled(f).source = "user_correction"
                        /\ settled(f).chain = f.chain /\ settled(f).name = f.name
                        /\ settled(f).conf = f.conf
    BY DEF Rule
  <2>4. Approved(rule, category) = settled(sure(d)) /\ Confirmed(rule) = settled(sure(rule))
    BY DEF Approved, Confirmed
  <2> HIDE DEF d, sure, settled
  <2> QED
    BY <2>1, <2>2, <2>3, <2>4
<1> QED
  BY <1>1, <1>2

\* Other lines change their category, not their rule.
LEMMA RecategorizedRows ==
    ASSUME TypeOK, NEW x \in Rows(expenses), NEW category \in Categories, NEW scope
    PROVE  /\ Recategorized(x, category, scope) \in [ExpenseIds -> Expense \cup {NoRow}]
           /\ \A y \in ExpenseIds : Recategorized(x, category, scope)[y] # NoRow =>
                 /\ expenses[y] # NoRow
                 /\ Recategorized(x, category, scope)[y].rule = expenses[y].rule
<1> DEFINE new == Recategorized(x, category, scope)
<1>1. expenses \in [ExpenseIds -> Expense \cup {NoRow}] /\ x \in ExpenseIds
  BY DEF TypeOK, Rows
<1>2. ASSUME NEW y \in ExpenseIds, y = x \/ y \in OtherExpenses(x, scope)
      PROVE  expenses[y] \in Expense
  <2>1. expenses[y] # NoRow
    BY <1>2 DEF OtherExpenses, Rows
  <2> QED
    BY <1>1, <2>1
<1>3. ASSUME NEW y \in ExpenseIds
      PROVE  new[y] \in Expense \cup {NoRow} /\ (new[y] # NoRow =>
                 expenses[y] # NoRow /\ new[y].rule = expenses[y].rule)
  <2>1. CASE y = x \/ y \in OtherExpenses(x, scope)
    <3>1. new[y] = [expenses[y] EXCEPT !.category = category, !.conf = 4]
      BY <2>1 DEF Recategorized
    <3> HIDE DEF new
    <3>2. expenses[y] \in Expense
      BY <1>2, <2>1
    <3>3. new[y] \in Expense /\ new[y].rule = expenses[y].rule
      BY <3>1, <3>2, Touched
    <3> QED
      BY <3>2, <3>3, Basics
  <2>2. CASE ~(y = x \/ y \in OtherExpenses(x, scope))
    <3>1. new[y] = expenses[y]
      BY <2>2 DEF Recategorized
    <3> HIDE DEF new
    <3> QED
      BY <1>1, <3>1
  <2> QED
    BY <2>1, <2>2
<1>4. new = [y \in ExpenseIds |-> new[y]]
  BY DEF Recategorized
<1> HIDE DEF new
<1>5. new \in [ExpenseIds -> Expense \cup {NoRow}]
  BY <1>3, <1>4
<1> QED
  BY <1>3, <1>5 DEF new

LEMMA CorrectKeeps ==
    ASSUME IInv, NEW x \in ExpenseIds, NEW category \in Categories, NEW scope,
           Correct(x, category, scope), touches' \in 0..MaxTouches
    PROVE  IInv'
<1> DEFINE names == IF x \in Lines THEN {Name[x]} \ {Blank} ELSE {}
           chain == ChainOf(ReceiptOfExpense(x))
           new == [n \in names |-> Corrected(chain, Name[x], category)]
           ks == {FindRule(chain, n) : n \in names}
<1>1. TypeOK /\ Shape /\ OneRulePerName /\ IdsGiven /\ LinkedStored
  BY DEF IInv
<1>2. /\ names \in SUBSET Names /\ IsFiniteSet(names)
      /\ \A n \in names : x \in Lines /\ n = Name[x]
  <2>1. names \in SUBSET Names /\ \A n \in names : x \in Lines /\ n = Name[x]
    BY LinesAssumption
  <2>2. names \in SUBSET {Name[x]}
    OBVIOUS
  <2>3. IsFiniteSet({Name[x]})
    BY FS_Singleton
  <2> HIDE DEF names
  <2> QED
    BY <2>1, <2>2, <2>3, FS_Subset
<1>3. chain \in Chains \cup {NoChain}
  <2> DEFINE r == ReceiptOfExpense(x)
  <2>1. r \in linked => Shop[r] \in Shops /\ stores[Shop[r]] \in Chains \cup {NoChain}
    <3>1. r \in Receipts
      BY Basics
    <3>2. r \in linked => Shop[r] \in Shops /\ stores[Shop[r]] # NoRow
      BY <1>1, <3>1, ShopsAssumption DEF LinkedStored
    <3> QED
      BY <1>1, <3>2 DEF TypeOK
  <2> QED
    BY <2>1 DEF ChainOf
<1>4. /\ x \in Rows(expenses) /\ expenses' = Recategorized(x, category, scope)
      /\ lastRule' = lastRule + Fresh(chain, names) /\ lastRule' <= MaxRules
      /\ ratings' = ratings \cup UNION {RatingOf(FindRule(chain, n), category) : n \in names}
      /\ UNCHANGED <<stores, linked, named, work, answers, edit>>
  BY DEF Correct
<1>5. PICK id \in RuleIdsFor(chain, names) :
         rules' = [k \in RuleIds |->
             IF \E n \in names : id[n] = k THEN Corrected(chain, Name[x], category) ELSE rules[k]]
  BY DEF Correct
<1>6. /\ \A n \in names : /\ new[n] \in Rule /\ new[n].chain = chain /\ new[n].name = n
                          /\ new[n].source = "user_correction" /\ new[n].conf = 4
                          /\ new[n] = Corrected(chain, Name[x], category)
      /\ new = [n \in names |-> new[n]]
  <2>1. SUFFICES ASSUME NEW n \in names
                 PROVE  /\ new[n] \in Rule /\ new[n].chain = chain /\ new[n].name = n
                        /\ new[n].source = "user_correction" /\ new[n].conf = 4
                        /\ new[n] = Corrected(chain, Name[x], category)
    OBVIOUS
  <2>2. new[n] = Corrected(chain, Name[x], category)
    OBVIOUS
  <2> HIDE DEF new, chain, names
  <2> QED
    BY <1>2, <1>3, <2>2 DEF Corrected, Rule
<1> HIDE DEF names, chain, new
<1>7. new \in [names -> Rule]
  BY <1>6
<1>8. /\ \A k \in RuleIds :
            \/ \E n \in names : id[n] = k /\ rules'[k] = new[n]
            \/ (\A n \in names : id[n] # k) /\ rules'[k] = rules[k]
      /\ rules' = [k \in RuleIds |-> rules'[k]]
  BY <1>5, <1>6
<1>9. /\ rules' \in [RuleIds -> Rule \cup {NoRow}] /\ lastRule' \in 0..MaxRules
      /\ OneRulePerName' /\ IdsGiven' /\ Kept
      /\ \A k \in Rows(rules) : rules'[k] # NoRow
      /\ id \in [names -> RuleIds] /\ \A n \in names : rules'[id[n]] = new[n]
  BY <1>1, <1>2, <1>3, <1>4, <1>6, <1>7, <1>8, RulesWritten
<1>10. \A k \in RuleIds : rules'[k] = rules[k] \/ (rules'[k].source = "user_correction"
                                                   /\ rules'[k].conf = 4)
  BY <1>6, <1>8
<1>11. ASSUME NEW n \in names
       PROVE  /\ FindRule(chain, n) \in RuleIds \cup {NoRule}
              /\ FindRule(chain, n) # NoRule =>
                    /\ rules[FindRule(chain, n)] # NoRow
                    /\ rules'[FindRule(chain, n)].source = "user_correction"
  <2> DEFINE k == FindRule(chain, n)
  <2>1. k # NoRule => k \in Rows(rules)
    BY Lookup
  <2>2. k \in RuleIds \cup {NoRule}
    BY <1>1, Lookup
  <2>3. k # NoRule => id[n] = k
    BY DEF RuleIdsFor
  <2> HIDE DEF k
  <2> QED
    BY <1>6, <1>9, <2>1, <2>2, <2>3 DEF Rows, k
<1>12. ratings' \subseteq Rating /\ Owes' /\ RatedOnce' /\ RatingsFair'
  <2>1. ks \subseteq RuleIds \cup {NoRule} /\ \A k \in ks : k # NoRule => rules[k] # NoRow
    BY <1>11
  <2>2. \A k \in RuleIds : \/ rules'[k] = NoRow \/ rules'[k].source = "user_correction"
                           \/ rules'[k] = rules[k] /\ k \notin ks
    BY <1>10, <1>11, Basics
  <2>3. ratings' = ratings \cup UNION {RatingOf(k, category) : k \in ks}
    BY <1>4
  <2> HIDE DEF ks
  <2> QED
    BY <1>4, <1>9, <2>1, <2>2, <2>3, RatedStep
<1>13. /\ expenses' \in [ExpenseIds -> Expense \cup {NoRow}]
       /\ \A y \in ExpenseIds : expenses'[y] # NoRow =>
             expenses[y] # NoRow /\ expenses'[y].rule = expenses[y].rule
  BY <1>1, <1>4, RecategorizedRows
<1>14. edit' \in Edits
  BY <1>1, <1>4 DEF TypeOK, Edits
<1>15. \A k \in RuleIds : Settled(rules'[k]) => rules'[k] = rules[k] \/ rules'[k].conf > 1
  BY <1>10
<1> QED
  BY <1>4, <1>9, <1>12, <1>13, <1>14, <1>15, UserKeeps

LEMMA EditKeeps ==
    ASSUME IInv, NEW x \in ExpenseIds, NEW category \in Categories \cup {Same}, NEW scope,
           Edit(x, category, scope), touches' \in 0..MaxTouches
    PROVE  IInv'
<1>1. /\ TypeOK /\ OneRulePerName /\ IdsGiven /\ SettledSure
      /\ ratings \subseteq Rating /\ rules \in [RuleIds -> Rule \cup {NoRow}]
      /\ lastRule \in 0..MaxRules /\ expenses \in [ExpenseIds -> Expense \cup {NoRow}]
  BY DEF IInv, TypeOK
<1>2. /\ UNCHANGED <<stores, linked, rules, lastRule, named, work, answers, ratings>>
      /\ x \in Rows(expenses)
  BY DEF Edit
<1>3. Kept /\ OneRulePerName' /\ IdsGiven'
  BY <1>1, <1>2, RulesKept
<1>4. Owes' /\ RatedOnce' /\ RatingsFair'
  BY <1>2 DEF IInv, Owes, RatedOnce, RatingsFair
<1>5. /\ expenses' \in [ExpenseIds -> Expense \cup {NoRow}]
      /\ \A y \in ExpenseIds : expenses'[y] # NoRow =>
            expenses[y] # NoRow /\ expenses'[y].rule = expenses[y].rule
  <2>1. CASE category = Same
    BY <1>1, <2>1 DEF Edit
  <2>2. CASE category # Same
    BY <1>1, <1>2, <2>2, RecategorizedRows DEF Edit
  <2> QED
    BY <2>1, <2>2
<1>6. edit' \in Edits
  BY DEF Edit, Edits
<1>7. \A k \in Rows(rules) : rules'[k] # NoRow
  BY <1>2 DEF Rows
<1>8. \A k \in RuleIds : Settled(rules'[k]) => rules'[k] = rules[k] \/ rules'[k].conf > 1
  BY <1>2
<1> QED
  BY <1>1, <1>2, <1>3, <1>4, <1>5, <1>6, <1>7, <1>8, UserKeeps

\* What a settled rule, or the rules that are confirmed, look like afterwards.
LEMMA RulesTouched ==
    ASSUME IInv, rules' \in [RuleIds -> Rule \cup {NoRow}], lastRule' = lastRule,
           \A k \in RuleIds : \/ rules'[k] = rules[k]
                              \/ /\ rules[k] # NoRow /\ rules'[k] # NoRow
                                 /\ rules'[k].chain = rules[k].chain
                                 /\ rules'[k].name = rules[k].name
                                 /\ rules'[k].source = "user_correction" /\ rules'[k].conf = 4
    PROVE  /\ Kept /\ OneRulePerName' /\ IdsGiven' /\ lastRule' \in 0..MaxRules
           /\ \A k \in Rows(rules) : rules'[k] # NoRow
           /\ \A k \in RuleIds : Settled(rules'[k]) => rules'[k] = rules[k] \/ rules'[k].conf > 1
           /\ \A k \in RuleIds : rules'[k] = rules[k] \/ rules'[k].source = "user_correction"
<1>1. lastRule \in 0..MaxRules /\ rules \in [RuleIds -> Rule \cup {NoRow}]
  BY DEF IInv, TypeOK
<1>2. \A k \in RuleIds : rules'[k] # NoRow =>
         rules[k] # NoRow /\ rules'[k].chain = rules[k].chain /\ rules'[k].name = rules[k].name
  OBVIOUS
<1>3. Kept /\ OneRulePerName' /\ IdsGiven'
  BY <1>2, RulesKept
<1>4. \A k \in Rows(rules) : rules'[k] # NoRow
  BY <1>1 DEF Rows
<1> QED
  BY <1>1, <1>3, <1>4

LEMMA SettleKeeps ==
    ASSUME IInv, NEW k \in Rows(rules), NEW category \in Categories, SettleRule(k, category),
           UNCHANGED <<stores, linked, lastRule, named, work, answers>>,
           edit' \in Edits, touches' \in 0..MaxTouches
    PROVE  IInv'
<1>1. /\ rules \in [RuleIds -> Rule \cup {NoRow}] /\ k \in RuleIds /\ rules[k] \in Rule
      /\ expenses \in [ExpenseIds -> Expense \cup {NoRow}]
  BY DEF IInv, TypeOK, Rows
<1>2. /\ rules' = [rules EXCEPT ![k] = Approved(rules[k], category)]
      /\ ratings' = ratings \cup RatingOf(k, category)
  BY DEF SettleRule
<1>3. /\ Approved(rules[k], category) \in Rule
      /\ Approved(rules[k], category).chain = rules[k].chain
      /\ Approved(rules[k], category).name = rules[k].name
      /\ Approved(rules[k], category).source = "user_correction"
      /\ Approved(rules[k], category).conf = 4
  BY <1>1, Touched
<1>4. /\ rules' \in [RuleIds -> Rule \cup {NoRow}] /\ rules'[k] = Approved(rules[k], category)
      /\ \A j \in RuleIds : j # k => rules'[j] = rules[j]
  BY <1>1, <1>2, <1>3
<1>5. \A j \in RuleIds : \/ rules'[j] = rules[j]
                         \/ /\ rules[j] # NoRow /\ rules'[j] # NoRow
                            /\ rules'[j].chain = rules[j].chain
                            /\ rules'[j].name = rules[j].name
                            /\ rules'[j].source = "user_correction" /\ rules'[j].conf = 4
  BY <1>1, <1>3, <1>4, Basics
<1>6. /\ Kept /\ OneRulePerName' /\ IdsGiven' /\ lastRule' \in 0..MaxRules
      /\ \A j \in Rows(rules) : rules'[j] # NoRow
      /\ \A j \in RuleIds : Settled(rules'[j]) => rules'[j] = rules[j] \/ rules'[j].conf > 1
  BY <1>4, <1>5, RulesTouched
<1>7. ratings' \subseteq Rating /\ Owes' /\ RatedOnce' /\ RatingsFair'
  <2>1. ratings' = ratings \cup UNION {RatingOf(j, category) : j \in {k}}
    BY <1>2
  <2>2. \A j \in RuleIds : \/ rules'[j] = NoRow \/ rules'[j].source = "user_correction"
                           \/ rules'[j] = rules[j] /\ j \notin {k}
    BY <1>3, <1>4
  <2>3. {k} \subseteq RuleIds \cup {NoRule} /\ \A j \in {k} : j # NoRule => rules[j] # NoRow
    BY <1>1, Basics
  <2> QED
    BY <1>4, <2>1, <2>2, <2>3, RatedStep
<1>8. /\ expenses' \in [ExpenseIds -> Expense \cup {NoRow}]
      /\ \A x \in ExpenseIds : expenses'[x] # NoRow =>
            expenses[x] # NoRow /\ expenses'[x].rule = expenses[x].rule
  <2>1. ASSUME NEW x \in ExpenseIds
        PROVE  expenses'[x] \in Expense \cup {NoRow} /\ (expenses'[x] # NoRow =>
                   expenses[x] # NoRow /\ expenses'[x].rule = expenses[x].rule)
    <3>1. CASE x \in Rows(expenses) /\ expenses[x].rule = k
      <4>1. expenses'[x] = [expenses[x] EXCEPT !.category = category, !.conf = 4]
        BY <3>1 DEF SettleRule
      <4>2. expenses[x] \in Expense /\ expenses[x] # NoRow
        BY <1>1, <3>1 DEF Rows
      <4>3. expenses'[x] \in Expense /\ expenses'[x].rule = expenses[x].rule
        BY <4>1, <4>2, Touched
      <4> QED
        BY <4>2, <4>3
    <3>2. CASE ~(x \in Rows(expenses) /\ expenses[x].rule = k)
      <4>1. expenses'[x] = expenses[x]
        BY <3>2 DEF SettleRule
      <4> QED
        BY <1>1, <4>1
    <3> QED
      BY <3>1, <3>2
  <2>2. expenses' = [x \in ExpenseIds |-> expenses'[x]]
    BY DEF SettleRule
  <2> QED
    BY <2>1, <2>2
<1> QED
  BY <1>4, <1>6, <1>7, <1>8, UserKeeps

LEMMA ApproveKeeps ==
    ASSUME IInv, NEW k \in RuleIds, NEW category \in Categories,
           Approve(k, category), touches' \in 0..MaxTouches
    PROVE  IInv'
<1>1. /\ k \in Rows(rules) /\ SettleRule(k, category)
      /\ UNCHANGED <<stores, linked, lastRule, named, work, answers, edit>>
  BY DEF Approve
<1>2. edit' \in Edits
  BY <1>1 DEF IInv, TypeOK, Edits
<1> QED
  BY <1>1, <1>2, SettleKeeps

\* The rule of the expense at that time has a row: the expense was booked by it.
LEMMA UpdateRuleKeeps ==
    ASSUME IInv, UpdateRule, UNCHANGED touches
    PROVE  IInv'
<1> DEFINE x == edit.expense
           category == IF edit.category = Same THEN expenses[x].category ELSE edit.category
<1>1. /\ edit # NoEdit /\ edit' = NoEdit
      /\ UNCHANGED <<stores, linked, lastRule, named, work, answers>>
  BY DEF UpdateRule
<1>2. /\ edit' \in Edits /\ touches' \in 0..MaxTouches
      /\ x \in ExpenseIds /\ edit.category \in Categories \cup {Same}
  BY <1>1 DEF IInv, TypeOK, Edits
<1>3. CASE x \in Rows(expenses) /\ expenses[x].rule # NoRule
  <2>1. SettleRule(expenses[x].rule, category)
    BY <1>3 DEF UpdateRule
  <2>2. expenses[x].rule \in Rows(rules)
    BY <1>3 DEF IInv, BookedRulesListed
  <2>3. category \in Categories
    <3>1. expenses[x] \in Expense
      BY <1>2, <1>3 DEF IInv, TypeOK, Rows
    <3>2. expenses[x].category \in Categories
      BY <3>1 DEF Expense
    <3> QED
      BY <1>2, <3>2
  <2> HIDE DEF x, category
  <2> QED
    BY <1>1, <1>2, <2>1, <2>2, <2>3, SettleKeeps
<1>4. CASE ~(x \in Rows(expenses) /\ expenses[x].rule # NoRule)
  <2>1. UNCHANGED <<rules, expenses, ratings, lastRule>>
    BY <1>1, <1>4 DEF UpdateRule
  <2>2. /\ rules \in [RuleIds -> Rule \cup {NoRow}] /\ ratings \subseteq Rating
        /\ expenses \in [ExpenseIds -> Expense \cup {NoRow}]
    BY DEF IInv, TypeOK
  <2>3. /\ Kept /\ OneRulePerName' /\ IdsGiven' /\ lastRule' \in 0..MaxRules
        /\ \A k \in Rows(rules) : rules'[k] # NoRow
        /\ \A k \in RuleIds : Settled(rules'[k]) => rules'[k] = rules[k] \/ rules'[k].conf > 1
    BY <2>1, <2>2, RulesTouched
  <2>4. Owes' /\ RatedOnce' /\ RatingsFair'
    BY <1>1, <2>1 DEF IInv, Owes, RatedOnce, RatingsFair
  <2> HIDE DEF x
  <2> QED
    BY <1>1, <1>2, <2>1, <2>2, <2>3, <2>4, UserKeeps
<1> QED
  BY <1>3, <1>4

LEMMA ConfirmKeeps ==
    ASSUME IInv, NEW ks \in SUBSET Rows(rules), Confirm(ks), touches' \in 0..MaxTouches
    PROVE  IInv'
<1>1. /\ rules \in [RuleIds -> Rule \cup {NoRow}] /\ ratings \subseteq Rating
      /\ expenses \in [ExpenseIds -> Expense \cup {NoRow}] /\ edit \in Edits
  BY DEF IInv, TypeOK, Edits
<1>2. /\ UNCHANGED <<stores, linked, lastRule, named, work, answers, ratings, edit>>
      /\ rules' = [k \in RuleIds |-> rules'[k]] /\ expenses' = [x \in ExpenseIds |-> expenses'[x]]
  BY DEF Confirm
<1>3. ASSUME NEW k \in RuleIds
      PROVE  /\ rules'[k] \in Rule \cup {NoRow}
             /\ \/ rules'[k] = rules[k]
                \/ /\ rules[k] # NoRow /\ rules'[k] # NoRow
                   /\ rules'[k].chain = rules[k].chain
                   /\ rules'[k].name = rules[k].name
                   /\ rules'[k].source = "user_correction" /\ rules'[k].conf = 4
  <2>1. CASE k \in ks \cap Rows(rules)
    <3>1. rules'[k] = Confirmed(rules[k])
      BY <2>1 DEF Confirm
    <3>2. rules[k] \in Rule /\ rules[k] # NoRow
      BY <1>1, <2>1 DEF Rows
    <3>3. /\ rules'[k] \in Rule /\ rules'[k].chain = rules[k].chain
          /\ rules'[k].name = rules[k].name
          /\ rules'[k].source = "user_correction" /\ rules'[k].conf = 4
      <4>1. PICK category \in Categories : TRUE
        BY <3>2 DEF Rule
      <4> QED
        BY <3>1, <3>2, Touched
    <3> QED
      BY <3>2, <3>3, Basics
  <2>2. CASE k \notin ks \cap Rows(rules)
    <3>1. rules'[k] = rules[k]
      BY <2>2 DEF Confirm
    <3> QED
      BY <1>1, <3>1
  <2> QED
    BY <2>1, <2>2
<1>4. rules' \in [RuleIds -> Rule \cup {NoRow}]
  BY <1>2, <1>3
<1>5. /\ Kept /\ OneRulePerName' /\ IdsGiven' /\ lastRule' \in 0..MaxRules
      /\ \A k \in Rows(rules) : rules'[k] # NoRow
      /\ \A k \in RuleIds : Settled(rules'[k]) => rules'[k] = rules[k] \/ rules'[k].conf > 1
      /\ \A k \in RuleIds : rules'[k] = rules[k] \/ rules'[k].source = "user_correction"
  BY <1>2, <1>3, <1>4, RulesTouched
<1>6. Owes' /\ RatedOnce' /\ RatingsFair'
  <2> DEFINE none == {}
  <2>1. /\ ratings' = ratings \cup UNION {RatingOf(k, Same) : k \in none}
        /\ none = {} /\ none \subseteq RuleIds \cup {NoRule}
        /\ \A k \in none : k # NoRule => rules[k] # NoRow
    BY <1>2
  <2>2. \A k \in RuleIds : \/ rules'[k] = NoRow \/ rules'[k].source = "user_correction"
                           \/ rules'[k] = rules[k] /\ k \notin none
    BY <1>5
  <2> HIDE DEF none
  <2> QED
    BY <1>2, <1>4, <2>1, <2>2, RatedStep
<1>7. ASSUME NEW x \in ExpenseIds
      PROVE  expenses'[x] \in Expense \cup {NoRow} /\ (expenses'[x] # NoRow =>
                 expenses[x] # NoRow /\ expenses'[x].rule = expenses[x].rule)
  <2>1. CASE x \in Rows(expenses) /\ expenses[x].rule \in ks
    <3>1. expenses'[x] = [expenses[x] EXCEPT !.conf = 4]
      BY <2>1 DEF Confirm
    <3>2. expenses[x] \in Expense /\ expenses[x] # NoRow
      BY <1>1, <2>1 DEF Rows
    <3>3. expenses'[x] \in Expense /\ expenses'[x].rule = expenses[x].rule
      BY <3>1, <3>2 DEF Expense
    <3> QED
      BY <3>2, <3>3
  <2>2. CASE ~(x \in Rows(expenses) /\ expenses[x].rule \in ks)
    <3>1. expenses'[x] = expenses[x]
      BY <2>2 DEF Confirm
    <3> QED
      BY <1>1, <3>1
  <2> QED
    BY <2>1, <2>2
<1>8. expenses' \in [ExpenseIds -> Expense \cup {NoRow}]
  BY <1>2, <1>7
<1> QED
  BY <1>1, <1>2, <1>4, <1>5, <1>6, <1>7, <1>8, UserKeeps

-----------------------------------------------------------------------------
(* Receipts that are put back or deleted. *)

LEMMA WorkSet ==
    ASSUME IInv, NEW r \in Receipts, work' = [work EXCEPT ![r] = work'[r]],
           work'[r] \in WorkRow, work'[r].at = "llm" => DOMAIN work'[r].hits = LinesOf(r),
           answers' \in [Calls -> UNION {[S -> Answer] : S \in SUBSET Lines}]
    PROVE  Shape' /\ \A q \in Receipts : q # r => work'[q] = work[q]
<1>1. work \in [Receipts -> WorkRow]
  BY DEF IInv, Shape
<1>2. /\ work' \in [Receipts -> WorkRow]
      /\ \A q \in Receipts : q # r => work'[q] = work[q]
  BY <1>1
<1>3. \A q \in Receipts : work'[q].at = "llm" => DOMAIN work'[q].hits = LinesOf(q)
  BY <1>2 DEF IInv, Shape
<1> QED
  BY <1>2, <1>3 DEF Shape

LEMMA RemoveKeeps ==
    ASSUME IInv, NEW r \in Receipts, work' = [work EXCEPT ![r] = work'[r]],
           work'[r] \in WorkRow, work'[r].at \in {"idle", "deleted"},
           expenses' = WithoutExpenses(r),
           linked' = linked \/ linked' = linked \ {r},
           named' = named \/ named' = named \ LinesOf(r),
           rules' \in [RuleIds -> Rule \cup {NoRow}],
           \A k \in RuleIds : rules'[k] = rules[k] \/ rules'[k] = NoRow,
           \A x \in Rows(expenses) \ ExpensesOf(r) :
               expenses[x].rule # NoRule => rules'[expenses[x].rule] # NoRow,
           UNCHANGED <<stores, lastRule, answers, ratings, edit>>, touches' \in 0..MaxTouches
    PROVE  IInv'
<1>1. /\ TypeOK /\ Shape /\ SettledSure /\ LinkedStored /\ NothingBooked /\ BookedRulesListed
      /\ CallsInOrder
  BY DEF IInv
<1>2. Shape' /\ \A q \in Receipts : q # r => work'[q] = work[q]
  <2>1. answers' \in [Calls -> UNION {[S -> Answer] : S \in SUBSET Lines}]
    BY <1>1 DEF Shape
  <2> QED
    BY <2>1, WorkSet
<1>3. /\ expenses' \in [ExpenseIds -> Expense \cup {NoRow}]
      /\ \A x \in ExpenseIds : /\ x \in ExpensesOf(r) => expenses'[x] = NoRow
                               /\ x \notin ExpensesOf(r) => expenses'[x] = expenses[x]
  BY <1>1 DEF TypeOK, WithoutExpenses
<1>4. TypeOK'
  BY <1>1, <1>2, <1>3, ShapeTypes DEF TypeOK
<1>5. Kept /\ OneRulePerName' /\ IdsGiven'
  BY RulesKept
<1>6. SettledSure'
  BY <1>1 DEF SettledSure, Settled
<1>7. LinkedStored'
  <2>1. \A q \in linked' : Shop[q] # NoShop /\ stores'[Shop[q]] # NoRow
    BY <1>1 DEF LinkedStored
  <2>2. ASSUME NEW q \in Receipts, work'[q].at \in {"rules", "llm"}
        PROVE  work'[q].chain = IF q \in linked' THEN stores'[Shop[q]] ELSE NoChain
    <3>1. q # r /\ work'[q] = work[q]
      BY <1>2, <2>2
    <3>2. work[q].chain = ChainOf(q)
      BY <1>1, <2>2, <3>1 DEF LinkedStored
    <3> QED
      BY <3>1, <3>2 DEF ChainOf
  <2>3. \A q \in Receipts : work'[q].at = "chain" => Shop[q] # NoShop
    BY <1>1, <1>2 DEF LinkedStored
  <2> QED
    BY <2>1, <2>2, <2>3 DEF LinkedStored, ChainOf
<1>8. NothingBooked'
  <2>1. SUFFICES ASSUME NEW q \in Receipts, work'[q].at # "done", NEW x \in ExpensesOf(q)
                 PROVE  expenses'[x] = NoRow
    BY DEF NothingBooked
  <2>2. x \in ExpenseIds
    BY DEF ExpensesOf
  <2>3. CASE q = r
    BY <1>3, <2>2, <2>3
  <2>4. CASE q # r
    BY <1>1, <1>2, <1>3, <2>1, <2>2, <2>4 DEF NothingBooked
  <2> QED
    BY <2>3, <2>4
<1>9. PassTrue'
  BY <1>2, <1>5, PassTrueKept
<1>10. BookedRulesListed'
  <2>1. ASSUME NEW x \in ExpenseIds, expenses'[x] # NoRow, expenses'[x].rule # NoRule
        PROVE  /\ expenses[x] # NoRow /\ expenses'[x].rule = expenses[x].rule
               /\ rules'[expenses[x].rule] # NoRow
               /\ x \in named' /\ ChainOf(ReceiptOf[x])' = ChainOf(ReceiptOf[x])
    <3>1. /\ x \in Rows(expenses) \ ExpensesOf(r) /\ expenses'[x] = expenses[x]
      BY <1>1, <1>3, <2>1 DEF TypeOK, Rows
    <3>2. x \in named /\ x \in Lines
      BY <1>1, <2>1, <3>1 DEF BookedRulesListed, TypeOK
    <3>3. ReceiptOf[x] # r /\ x \notin LinesOf(r)
      BY <2>1, <3>1, <3>2 DEF ExpensesOf, ReceiptOfExpense, LinesOf
    <3> QED
      BY <2>1, <3>1, <3>2, <3>3 DEF ChainOf
  <2> QED
    BY <1>3, <1>5, <2>1, BookedKept
<1>11. CallsInOrder'
  BY <1>1 DEF CallsInOrder
<1>12. Owes' /\ RatedOnce' /\ RatingsFair'
  <2> DEFINE none == {}
  <2>1. /\ ratings' = ratings \cup UNION {RatingOf(k, Same) : k \in none}
        /\ none = {} /\ none \subseteq RuleIds \cup {NoRule}
        /\ \A k \in none : k # NoRule => rules[k] # NoRow
    OBVIOUS
  <2>2. \A k \in RuleIds : \/ rules'[k] = NoRow \/ rules'[k].source = "user_correction"
                           \/ rules'[k] = rules[k] /\ k \notin none
    OBVIOUS
  <2> HIDE DEF none
  <2> QED
    BY <2>1, <2>2, RatedStep
<1> QED
  BY <1>2, <1>4, <1>5, <1>6, <1>7, <1>8, <1>9, <1>10, <1>11, <1>12 DEF IInv

LEMMA ReclassifyKeeps ==
    ASSUME IInv, NEW r \in Receipts, NEW clear \in BOOLEAN,
           Reclassify(r, clear), touches' \in 0..MaxTouches
    PROVE  IInv'
<1>1. /\ rules \in [RuleIds -> Rule \cup {NoRow}] /\ Shape
      /\ expenses \in [ExpenseIds -> Expense \cup {NoRow}]
  BY DEF IInv, TypeOK
<1>2. /\ clear => \A x \in Rows(expenses) \ ExpensesOf(r) : expenses[x].rule \notin Cleared(r)
      /\ expenses' = WithoutExpenses(r) /\ work' = [work EXCEPT ![r] = Idle]
      /\ rules' = [k \in RuleIds |-> IF clear /\ k \in Cleared(r) THEN NoRow ELSE rules[k]]
      /\ UNCHANGED <<stores, linked, lastRule, named, answers, ratings, edit>>
  BY DEF Reclassify
<1>3. /\ work'[r] = Idle /\ Idle \in WorkRow /\ Idle.at = "idle"
      /\ work' = [work EXCEPT ![r] = work'[r]]
  BY <1>1, <1>2, IdleRow DEF Shape
<1>4. /\ rules' \in [RuleIds -> Rule \cup {NoRow}]
      /\ \A k \in RuleIds : rules'[k] = rules[k] \/ rules'[k] = NoRow
  BY <1>1, <1>2
<1>5. ASSUME NEW x \in Rows(expenses) \ ExpensesOf(r), expenses[x].rule # NoRule
      PROVE  rules'[expenses[x].rule] # NoRow
  <2> DEFINE k == expenses[x].rule
  <2>1. k \in Rows(rules)
    BY <1>5 DEF IInv, BookedRulesListed
  <2>2. k \in RuleIds /\ rules[k] # NoRow
    BY <1>1, <2>1 DEF Rows
  <2>3. ~(clear /\ k \in Cleared(r))
    BY <1>2
  <2> QED
    BY <1>2, <2>2, <2>3
<1> QED
  BY <1>2, <1>3, <1>4, <1>5, RemoveKeeps

LEMMA DeleteReceiptKeeps ==
    ASSUME IInv, NEW r \in Receipts, DeleteReceipt(r), touches' \in 0..MaxTouches
    PROVE  IInv'
<1>1. rules \in [RuleIds -> Rule \cup {NoRow}] /\ Shape
  BY DEF IInv, TypeOK
<1> DEFINE w == [Idle EXCEPT !.at = "deleted"]
<1>2. /\ expenses' = WithoutExpenses(r) /\ work' = [work EXCEPT ![r] = w]
      /\ named' = named \ LinesOf(r) /\ linked' = linked \ {r}
      /\ UNCHANGED <<stores, rules, lastRule, answers, ratings, edit>>
  BY DEF DeleteReceipt
<1>3. w \in WorkRow /\ w.at = "deleted"
  BY IdleRow
<1> HIDE DEF w
<1>4. work'[r] = w /\ work' = [work EXCEPT ![r] = work'[r]]
  BY <1>1, <1>2 DEF Shape
<1>5. \A x \in Rows(expenses) : expenses[x].rule # NoRule => rules'[expenses[x].rule] # NoRow
  BY <1>2 DEF IInv, BookedRulesListed, Rows
<1>6. /\ rules' \in [RuleIds -> Rule \cup {NoRow}]
      /\ \A k \in RuleIds : rules'[k] = rules[k] \/ rules'[k] = NoRow
  BY <1>1, <1>2
<1> QED
  BY <1>2, <1>3, <1>4, <1>5, <1>6, RemoveKeeps

-----------------------------------------------------------------------------
(* Finding the shop and looking up the rules. *)

LEMMA WorkKeeps ==
    ASSUME IInv, NEW r \in Receipts, work' = [work EXCEPT ![r] = work'[r]],
           work'[r] \in WorkRow, work[r].at # "done", work'[r].at # "done",
           work'[r].at = "llm" => RulesPass(r), work'[r].at = "chain" => Shop[r] # NoShop,
           linked' = linked \/ linked' = linked \cup {r},
           stores' \in [Shops -> Chains \cup {NoChain, NoRow}],
           \A s \in Shops : stores[s] # NoRow => stores'[s] = stores[s],
           r \in linked' => Shop[r] # NoShop /\ stores'[Shop[r]] # NoRow,
           work'[r].at \in {"rules", "llm"} =>
               work'[r].chain = IF r \in linked' THEN stores'[Shop[r]] ELSE NoChain,
           UNCHANGED <<rules, lastRule, expenses, named, answers, ratings, edit>>,
           touches' \in 0..MaxTouches
    PROVE  IInv'
<1>1. /\ TypeOK /\ Shape /\ SettledSure /\ LinkedStored /\ NothingBooked /\ BookedRulesListed
      /\ CallsInOrder /\ Owes /\ RatedOnce /\ RatingsFair
  BY DEF IInv
<1>2. Shape' /\ \A q \in Receipts : q # r => work'[q] = work[q]
  <2>1. answers' \in [Calls -> UNION {[S -> Answer] : S \in SUBSET Lines}]
    BY <1>1 DEF Shape
  <2>2. work'[r].at = "llm" => DOMAIN work'[r].hits = LinesOf(r)
    BY PassMade
  <2> QED
    BY <2>1, <2>2, WorkSet
<1>3. TypeOK'
  BY <1>1, <1>2, ShapeTypes DEF TypeOK
<1>4. Kept /\ OneRulePerName' /\ IdsGiven'
  <2>1. rules' \in [RuleIds -> Rule \cup {NoRow}]
    BY <1>1 DEF TypeOK
  <2> QED
    BY <2>1, RulesKept
<1>5. SettledSure'
  BY <1>1 DEF SettledSure
<1>6. \A q \in linked : /\ Shop[q] # NoShop /\ stores[Shop[q]] # NoRow /\ Shop[q] \in Shops
                        /\ stores'[Shop[q]] = stores[Shop[q]]
  <2>1. \A q \in linked : Shop[q] # NoShop /\ stores[Shop[q]] # NoRow /\ q \in Receipts
    BY <1>1 DEF LinkedStored, TypeOK
  <2> QED
    BY <2>1, ShopsAssumption
<1>7. LinkedStored'
  <2>1. \A q \in linked' : Shop[q] # NoShop /\ stores'[Shop[q]] # NoRow
    BY <1>6
  <2>2. ASSUME NEW q \in Receipts, work'[q].at \in {"rules", "llm"}
        PROVE  work'[q].chain = IF q \in linked' THEN stores'[Shop[q]] ELSE NoChain
    <3>1. CASE q = r
      BY <2>2, <3>1
    <3>2. CASE q # r
      <4>1. work'[q] = work[q] /\ (q \in linked' <=> q \in linked)
        BY <1>2, <3>2
      <4>2. work[q].chain = ChainOf(q)
        BY <1>1, <2>2, <4>1 DEF LinkedStored
      <4> QED
        BY <1>6, <4>1, <4>2 DEF ChainOf
    <3> QED
      BY <3>1, <3>2
  <2>3. \A q \in Receipts : work'[q].at = "chain" => Shop[q] # NoShop
    BY <1>1, <1>2 DEF LinkedStored
  <2> QED
    BY <2>1, <2>2, <2>3 DEF LinkedStored, ChainOf
<1>8. NothingBooked'
  BY <1>1, <1>2 DEF NothingBooked
<1>9. PassTrue'
  <2>1. \A q \in Receipts : work'[q].at = "llm" =>
           work'[q] = work[q] \/ (RulesPass(q) /\ UNCHANGED <<rules, lastRule>>)
    BY <1>2
  <2> QED
    BY <1>4, <2>1, PassTrueKept
<1>10. BookedRulesListed'
  <2>1. ASSUME NEW x \in ExpenseIds, expenses'[x] # NoRow, expenses'[x].rule # NoRule
        PROVE  /\ expenses[x] # NoRow /\ expenses'[x].rule = expenses[x].rule
               /\ rules'[expenses[x].rule] # NoRow
               /\ x \in named' /\ ChainOf(ReceiptOf[x])' = ChainOf(ReceiptOf[x])
    <3>1. x \in Rows(expenses) /\ expenses[x].rule # NoRule
      BY <1>1, <2>1 DEF TypeOK, Rows
    <3>2. /\ x \in named /\ x \in Lines /\ expenses[x].rule \in Rows(rules)
      BY <1>1, <3>1 DEF BookedRulesListed, TypeOK
    <3>3. ReceiptOf[x] # r
      <4>1. x \notin ExpensesOf(r)
        BY <1>1, <2>1 DEF NothingBooked
      <4> QED
        BY <3>2, <4>1 DEF ExpensesOf, ReceiptOfExpense
    <3> QED
      BY <1>6, <3>1, <3>2, <3>3 DEF ChainOf, Rows
  <2>2. /\ expenses' \in [ExpenseIds -> Expense \cup {NoRow}]
        /\ rules' \in [RuleIds -> Rule \cup {NoRow}]
    BY <1>1 DEF TypeOK
  <2> QED
    BY <1>4, <2>1, <2>2, BookedKept
<1>11. CallsInOrder' /\ Owes' /\ RatedOnce' /\ RatingsFair'
  BY <1>1 DEF CallsInOrder, Owes, RatedOnce, RatingsFair
<1> QED
  BY <1>2, <1>3, <1>4, <1>5, <1>7, <1>8, <1>9, <1>10, <1>11 DEF IInv

LEMMA FindStoreKeeps ==
    ASSUME IInv, NEW r \in Receipts, FindStore(r), UNCHANGED touches
    PROVE  IInv'
<1>1. /\ work \in [Receipts -> WorkRow] /\ LinkedStored /\ work[r].at = "idle"
      /\ stores \in [Shops -> Chains \cup {NoChain, NoRow}] /\ touches' \in 0..MaxTouches
      /\ linked \subseteq Receipts
      /\ UNCHANGED <<stores, rules, lastRule, expenses, named, answers, ratings, edit>>
  BY DEF IInv, Shape, TypeOK, FindStore
<1>2. Shop[r] # NoShop => Shop[r] \in Shops
  BY ShopsAssumption
<1>3. CASE Shop[r] = NoShop
  <2> DEFINE w == [Idle EXCEPT !.at = "rules", !.chain = NoChain]
  <2>1. w \in WorkRow /\ w.at = "rules" /\ w.chain = NoChain
    BY IdleRow
  <2>2. work' = [work EXCEPT ![r] = w] /\ UNCHANGED linked
    BY <1>3 DEF FindStore, Located
  <2> HIDE DEF w
  <2>3. work'[r] = w /\ work' = [work EXCEPT ![r] = work'[r]]
    BY <1>1, <2>2
  <2>4. r \notin linked
    BY <1>1, <1>3 DEF LinkedStored
  <2> QED
    BY <1>1, <2>1, <2>2, <2>3, <2>4, WorkKeeps
<1>4. CASE Shop[r] # NoShop /\ stores[Shop[r]] # NoRow
  <2> DEFINE w == [Idle EXCEPT !.at = "rules", !.chain = stores[Shop[r]]]
  <2>1. w \in WorkRow /\ w.at = "rules" /\ w.chain = stores[Shop[r]]
    BY <1>1, <1>2, <1>4, IdleRow
  <2>2. work' = [work EXCEPT ![r] = w] /\ linked' = linked \cup {r}
    BY <1>4 DEF FindStore, Located
  <2> HIDE DEF w
  <2>3. work'[r] = w /\ work' = [work EXCEPT ![r] = work'[r]]
    BY <1>1, <2>2
  <2> QED
    BY <1>1, <1>4, <2>1, <2>2, <2>3, WorkKeeps
<1>5. CASE Shop[r] # NoShop /\ stores[Shop[r]] = NoRow
  <2>1. work' = [work EXCEPT ![r].at = "chain"] /\ UNCHANGED linked
    BY <1>5 DEF FindStore
  <2>2. work[r] \in WorkRow /\ work'[r] = [work[r] EXCEPT !.at = "chain"]
    BY <1>1, <2>1
  <2>3. work'[r] \in WorkRow /\ work'[r].at = "chain"
    BY <2>2 DEF WorkRow
  <2>4. work' = [work EXCEPT ![r] = work'[r]]
    BY <1>1, <2>1
  <2>5. r \notin linked
    BY <1>1, <1>5 DEF LinkedStored
  <2> QED
    BY <1>1, <1>5, <2>1, <2>3, <2>4, <2>5, WorkKeeps
<1> QED
  BY <1>3, <1>4, <1>5

\* Only receipts of a shop ask for its chain.
LEMMA ResolveStoreKeeps ==
    ASSUME IInv, NEW r \in Receipts, NEW answer \in Chains, ResolveStore(r, answer),
           UNCHANGED touches
    PROVE  IInv'
<1> DEFINE w == [Idle EXCEPT !.at = "rules", !.chain = ChainStored(r, answer)]
<1>1. /\ work \in [Receipts -> WorkRow] /\ work[r].at = "chain"
      /\ stores \in [Shops -> Chains \cup {NoChain, NoRow}] /\ touches' \in 0..MaxTouches
      /\ stores' = [stores EXCEPT ![Shop[r]] = IF @ = NoRow THEN answer ELSE @]
      /\ linked' = linked \cup {r} /\ work' = [work EXCEPT ![r] = w]
      /\ UNCHANGED <<rules, lastRule, expenses, named, answers, ratings, edit>>
  BY DEF IInv, Shape, TypeOK, ResolveStore, Located
<1>2. Shop[r] \in Shops /\ Shop[r] # NoShop
  <2>1. Shop[r] # NoShop
    BY <1>1 DEF IInv, LinkedStored
  <2> QED
    BY <2>1, ShopsAssumption
<1>3. /\ stores' \in [Shops -> Chains \cup {NoChain, NoRow}]
      /\ \A s \in Shops : stores[s] # NoRow => stores'[s] = stores[s]
      /\ stores'[Shop[r]] = ChainStored(r, answer)
      /\ ChainStored(r, answer) \in Chains \cup {NoChain} /\ stores'[Shop[r]] # NoRow
  <2>1. stores' = [stores EXCEPT ![Shop[r]] = ChainStored(r, answer)]
    BY <1>1 DEF ChainStored
  <2>2. ChainStored(r, answer) \in Chains \cup {NoChain}
    BY <1>1, <1>2 DEF ChainStored
  <2>3. stores[Shop[r]] # NoRow => ChainStored(r, answer) = stores[Shop[r]]
    BY DEF ChainStored
  <2> QED
    BY <1>1, <1>2, <2>1, <2>2, <2>3, Basics
<1>4. w \in WorkRow /\ w.at = "rules" /\ w.chain = ChainStored(r, answer)
  BY <1>3, IdleRow
<1> HIDE DEF w
<1>5. work'[r] = w /\ work' = [work EXCEPT ![r] = work'[r]]
  BY <1>1
<1> QED
  BY <1>1, <1>2, <1>3, <1>4, <1>5, WorkKeeps

LEMMA RulesPassKeeps ==
    ASSUME IInv, NEW r \in Receipts, RulesPass(r), UNCHANGED touches
    PROVE  IInv'
<1>1. /\ work[r].at = "rules" /\ LinkedStored /\ touches' \in 0..MaxTouches
      /\ stores \in [Shops -> Chains \cup {NoChain, NoRow}]
      /\ UNCHANGED <<stores, linked, rules, lastRule, expenses, named, answers, ratings, edit>>
  BY DEF IInv, TypeOK, RulesPass
<1>2. /\ work' = [work EXCEPT ![r] = work'[r]] /\ work'[r] \in WorkRow
      /\ work'[r].at = "llm" /\ work'[r].chain = work[r].chain
  BY PassMade
<1>3. work[r].chain = IF r \in linked THEN stores[Shop[r]] ELSE NoChain
  BY <1>1 DEF LinkedStored, ChainOf
<1>4. r \in linked => Shop[r] # NoShop /\ stores[Shop[r]] # NoRow
  BY <1>1 DEF LinkedStored
<1> QED
  BY <1>1, <1>2, <1>3, <1>4, WorkKeeps

LEMMA GiveUpKeeps ==
    ASSUME IInv, NEW r \in Receipts, GiveUp(r), UNCHANGED touches
    PROVE  IInv'
<1>1. /\ work[r].at \in {"chain", "rules", "llm"} /\ LinkedStored /\ touches' \in 0..MaxTouches
      /\ stores \in [Shops -> Chains \cup {NoChain, NoRow}] /\ work \in [Receipts -> WorkRow]
      /\ work' = [work EXCEPT ![r] = Idle]
      /\ UNCHANGED <<stores, linked, rules, lastRule, expenses, named, answers, ratings, edit>>
  BY DEF IInv, TypeOK, Shape, GiveUp
<1>2. /\ work'[r] = Idle /\ work' = [work EXCEPT ![r] = work'[r]]
      /\ Idle \in WorkRow /\ Idle.at = "idle"
  BY <1>1, IdleRow
<1>3. r \in linked => Shop[r] # NoShop /\ stores[Shop[r]] # NoRow
  BY <1>1 DEF LinkedStored
<1> QED
  BY <1>1, <1>2, <1>3, WorkKeeps

-----------------------------------------------------------------------------
(* Booking a receipt. *)

LEMMA PersistKeeps ==
    ASSUME IInv, NEW r \in Receipts, work[r].at = "llm",
           NEW said \in [Missed(r) -> Answer], NEW call \in Calls \cup {NoCall},
           NEW rest \in Categories, Persist(r, said, call, rest), UNCHANGED touches,
           \/ call = NoCall /\ answers' = answers
           \/ /\ call \in Calls /\ DOMAIN answers[call] = {}
              /\ answers' = [c \in Calls |-> IF c = call THEN said ELSE answers[c]],
           CallsInOrder'
    PROVE  IInv'
<1>1. /\ TypeOK /\ Shape /\ SettledSure /\ LinkedStored /\ NothingBooked /\ BookedRulesListed
      /\ Owes /\ RatedOnce /\ RatingsFair /\ ratings \subseteq Rating
      /\ UNCHANGED <<stores, linked, ratings, edit>> /\ touches' \in 0..MaxTouches
      /\ rules \in [RuleIds -> Rule \cup {NoRow}]
  BY DEF IInv, TypeOK, Persist
<1>2. /\ rules' \in [RuleIds -> Rule \cup {NoRow}] /\ lastRule' \in 0..MaxRules
      /\ OneRulePerName' /\ IdsGiven' /\ Kept
      /\ \A k \in Rows(rules) : rules'[k] # NoRow
      /\ \A k \in RuleIds :
            \/ rules'[k] = rules[k]
            \/ \E i \in Missed(r) :
                  rules'[k] = Learned(k, work[r].chain, Name[i], said[i], call)
  BY PersistRules
<1>3. /\ expenses' \in [ExpenseIds -> Expense \cup {NoRow}]
      /\ \A x \in ExpenseIds \ ExpensesOf(r) : expenses'[x] = expenses[x]
      /\ \A x \in ExpensesOf(r) :
            expenses'[x] # NoRow /\ expenses'[x].rule # NoRule =>
                /\ x \in LinesOf(r) /\ expenses'[x].rule \in RuleIds
                /\ rules'[expenses'[x].rule] # NoRow
                /\ rules'[expenses'[x].rule].name = Name[x]
                /\ rules'[expenses'[x].rule].chain \in {NoChain, work[r].chain}
  BY PersistExpenses
<1>4. named' = named \cup LinesOf(r) /\ LinesOf(r) \subseteq Lines
  BY Basics DEF Persist
<1>5. /\ work'[r] \in WorkRow /\ work'[r].at = "done"
      /\ work' = [work EXCEPT ![r] = work'[r]]
  <2> DEFINE w == [Idle EXCEPT !.at = "done"]
  <2>1. w \in WorkRow /\ w.at = "done"
    BY IdleRow
  <2>2. work' = [work EXCEPT ![r] = w]
    BY DEF Persist
  <2> HIDE DEF w
  <2> QED
    BY <1>1, <2>1, <2>2 DEF Shape
<1>6. Shape' /\ \A q \in Receipts : q # r => work'[q] = work[q]
  <2>1. answers' \in [Calls -> UNION {[S -> Answer] : S \in SUBSET Lines}]
    <3>1. said \in UNION {[S -> Answer] : S \in SUBSET Lines}
      <4>1. Missed(r) \in SUBSET Lines
        BY MissedLines DEF IInv
      <4> QED
        BY <4>1
    <3> QED
      BY <1>1, <3>1 DEF Shape
  <2> QED
    BY <1>5, <2>1, WorkSet
<1>7. TypeOK'
  BY <1>1, <1>2, <1>3, <1>4, <1>6, ShapeTypes DEF TypeOK
<1>8. SettledSure'
  <2>1. SUFFICES ASSUME NEW k \in RuleIds, Settled(rules'[k]) PROVE rules'[k].conf > 1
    BY DEF SettledSure
  <2>2. rules'[k] = rules[k]
    BY <1>2, <2>1 DEF Settled, Learned
  <2> QED
    BY <1>1, <2>1, <2>2 DEF SettledSure
<1>9. LinkedStored'
  BY <1>1, <1>5, <1>6 DEF LinkedStored, ChainOf
<1>10. NothingBooked'
  <2>1. SUFFICES ASSUME NEW q \in Receipts, work'[q].at # "done", NEW x \in ExpensesOf(q)
                 PROVE  expenses'[x] = NoRow
    BY DEF NothingBooked
  <2>2. q # r /\ work'[q] = work[q]
    BY <1>5, <1>6, <2>1
  <2>3. x \in ExpenseIds \ ExpensesOf(r)
    BY <2>2 DEF ExpensesOf
  <2> QED
    BY <1>1, <1>3, <2>1, <2>2, <2>3 DEF NothingBooked
<1>11. PassTrue'
  <2>1. \A q \in Receipts : work'[q].at = "llm" => work'[q] = work[q]
    BY <1>5, <1>6
  <2> QED
    BY <1>2, <2>1, PassTrueKept
<1>12. BookedRulesListed'
  <2>1. SUFFICES ASSUME NEW x \in ExpenseIds, expenses'[x] # NoRow, expenses'[x].rule # NoRule
                 PROVE  LET k == expenses'[x].rule
                        IN  /\ x \in named' /\ k \in RuleIds /\ rules'[k] # NoRow
                            /\ rules'[k].name = Name[x]
                            /\ rules'[k].chain \in {NoChain, ChainOf(ReceiptOf[x])'}
    <3>1. DOMAIN expenses' = ExpenseIds /\ DOMAIN rules' = RuleIds
      BY <1>2, <1>3
    <3> QED
      BY <3>1 DEF BookedRulesListed, Rows
  <2>2. ChainOf(ReceiptOf[x])' = ChainOf(ReceiptOf[x])
    BY <1>1 DEF ChainOf
  <2>3. CASE x \in ExpensesOf(r)
    <3>1. x \in LinesOf(r) /\ ReceiptOf[x] = r
      BY <1>3, <2>1, <2>3 DEF LinesOf
    <3>2. work[r].chain = ChainOf(ReceiptOf[x])
      BY <1>1, <3>1 DEF LinkedStored
    <3> QED
      BY <1>3, <1>4, <2>1, <2>2, <2>3, <3>1, <3>2
  <2>4. CASE x \notin ExpensesOf(r)
    <3> DEFINE k == expenses[x].rule
    <3>1. expenses'[x] = expenses[x] /\ x \in Rows(expenses) /\ k # NoRule
      BY <1>1, <1>3, <2>1, <2>4 DEF TypeOK, Rows
    <3>2. /\ x \in named /\ k \in Rows(rules) /\ rules[k].name = Name[x]
          /\ rules[k].chain \in {NoChain, ChainOf(ReceiptOf[x])}
      BY <1>1, <3>1 DEF BookedRulesListed
    <3> HIDE DEF k
    <3>3. k \in RuleIds /\ k <= lastRule /\ rules'[k] # NoRow
      BY <1>1, <1>2, <3>2 DEF IInv, IdsGiven, Rows
    <3>4. rules'[k].name = rules[k].name /\ rules'[k].chain = rules[k].chain
      BY <1>2, <3>3 DEF Kept
    <3> QED
      BY <1>4, <2>2, <3>1, <3>2, <3>3, <3>4 DEF k
  <2> QED
    BY <2>3, <2>4
<1>13. ASSUME NEW c \in Calls, DOMAIN answers[c] # {} PROVE c # call /\ answers'[c] = answers[c]
  BY <1>13, Basics
<1>14. \A m \in ratings : m.call # call /\ answers'[m.call] = answers[m.call]
  <2>1. \A m \in ratings : m.call \in Calls /\ DOMAIN answers[m.call] # {}
    BY <1>1 DEF RatingsFair, Rating
  <2> QED
    BY <1>13, <2>1
<1>15. RatedOnce' /\ RatingsFair'
  BY <1>1, <1>14 DEF RatedOnce, RatingsFair
<1>16. Owes'
  <2>1. SUFFICES ASSUME NEW k \in RuleIds, rules'[k] # NoRow, rules'[k].source = "llm",
                        rules'[k].call # NoCall
                 PROVE  /\ \E i \in DOMAIN answers'[rules'[k].call] :
                              /\ rules'[k].category = answers'[rules'[k].call][i].category
                              /\ rules'[k].alts = answers'[rules'[k].call][i].alts
                        /\ \A m \in ratings : ~(m.call = rules'[k].call /\ m.rule = k)
    BY <1>1, <1>2 DEF Owes, Rows
  <2>2. CASE rules'[k] = rules[k]
    <3>1. k \in Rows(rules) /\ rules[k].call \in Calls
      BY <1>1, <2>1, <2>2 DEF Rows, Rule
    <3>2. /\ \E i \in DOMAIN answers[rules[k].call] :
                /\ rules[k].category = answers[rules[k].call][i].category
                /\ rules[k].alts = answers[rules[k].call][i].alts
          /\ \A m \in ratings : ~(m.call = rules[k].call /\ m.rule = k)
      BY <1>1, <2>1, <2>2, <3>1 DEF Owes
    <3>3. answers'[rules[k].call] = answers[rules[k].call]
      BY <1>13, <3>1, <3>2
    <3> QED
      BY <2>2, <3>2, <3>3
  <2>3. CASE \E i \in Missed(r) : rules'[k] = Learned(k, work[r].chain, Name[i], said[i], call)
    <3>1. PICK i \in Missed(r) : rules'[k] = Learned(k, work[r].chain, Name[i], said[i], call)
      BY <2>3
    <3>2. /\ rules'[k].call = call /\ rules'[k].category = said[i].category
          /\ rules'[k].alts = said[i].alts
      BY <3>1 DEF Learned
    <3>3. call \in Calls /\ answers'[call] = said
      BY <2>1, <3>2
    <3>4. i \in DOMAIN said
      OBVIOUS
    <3> QED
      BY <1>14, <3>2, <3>3, <3>4
  <2> QED
    BY <1>2, <2>2, <2>3
<1> QED
  BY <1>2, <1>6, <1>7, <1>8, <1>9, <1>10, <1>11, <1>12, <1>15, <1>16 DEF IInv

\* The calls that were answered are the first ones.
LEMMA UsedCalls ==
    ASSUME IInv
    PROVE  \E n \in 0..MaxCalls : /\ \A c \in Calls : DOMAIN answers[c] # {} <=> c <= n
                                  /\ LastCall = n
<1>1. MaxCalls \in Nat
  BY BoundsAssumption
<1>2. PICK n \in 0..MaxCalls : \A c \in Calls : DOMAIN answers[c] # {} <=> c <= n
  BY DEF IInv, CallsInOrder
<1>3. {c \in Calls : DOMAIN answers[c] # {}} = 1..n
  <2>1. \A c : c \in Calls /\ c <= n <=> c \in 1..n
    BY <1>1 DEF Calls
  <2> QED
    BY <1>2, <2>1
<1>4. Cardinality(1..n) = n
  <2>1. 1 \in Int /\ n \in Nat /\ n \in Int
    BY <1>1
  <2>2. Cardinality(1..n) = IF 1 > n THEN 0 ELSE n - 1 + 1
    BY <2>1, FS_Interval
  <2> QED
    BY <2>1, <2>2
<1>5. LastCall = n
  BY <1>3, <1>4 DEF LastCall
<1> QED
  BY <1>2, <1>5

LEMMA PersistAnswersKeeps ==
    ASSUME IInv, NEW r \in Receipts, NEW said \in [Missed(r) -> Answers], NEW rest \in Categories,
           PersistAnswers(r, said, rest), UNCHANGED touches
    PROVE  IInv'
<1> DEFINE call == IF Missed(r) = {} THEN NoCall ELSE LastCall + 1
<1>1. /\ work[r].at = "llm" /\ call <= MaxCalls /\ Persist(r, said, call, rest)
      /\ answers' = [c \in Calls |-> IF c = call THEN said ELSE answers[c]]
  BY DEF PersistAnswers
<1>2. said \in [Missed(r) -> Answer]
  BY AnswersAssumption
<1>3. /\ answers = [c \in Calls |-> answers[c]] /\ MaxCalls \in Nat
  BY BoundsAssumption DEF IInv, Shape
<1>4. PICK n \in 0..MaxCalls : /\ \A c \in Calls : DOMAIN answers[c] # {} <=> c <= n
                               /\ LastCall = n
  BY UsedCalls
<1>5. CASE Missed(r) = {}
  <2>1. call = NoCall /\ answers' = answers
    BY <1>1, <1>3, <1>5, Basics
  <2>2. CallsInOrder'
    BY <2>1 DEF IInv, CallsInOrder
  <2> HIDE DEF call
  <2> QED
    BY <1>1, <1>2, <2>1, <2>2, PersistKeeps
<1>6. CASE Missed(r) # {}
  <2>1. call = n + 1 /\ call \in Calls /\ n + 1 \in 0..MaxCalls
    BY <1>1, <1>3, <1>4, <1>6 DEF Calls
  <2>2. DOMAIN answers[call] = {}
    BY <1>4, <2>1
  <2>3. CallsInOrder'
    <3>1. \A c \in Calls : DOMAIN answers'[c] # {} <=> c <= n + 1
      <4>1. SUFFICES ASSUME NEW c \in Calls PROVE DOMAIN answers'[c] # {} <=> c <= n + 1
        OBVIOUS
      <4>2. CASE c = n + 1
        BY <1>1, <1>6, <2>1, <4>2
      <4>3. CASE c # n + 1
        <5>1. answers'[c] = answers[c] /\ c \in Nat /\ n \in Nat
          BY <1>1, <1>3, <2>1, <4>3, Basics
        <5>2. DOMAIN answers[c] # {} <=> c <= n
          BY <1>4
        <5> QED
          BY <4>3, <5>1, <5>2
      <4> QED
        BY <4>2, <4>3
    <3> QED
      BY <2>1, <3>1 DEF CallsInOrder
  <2> HIDE DEF call
  <2> QED
    BY <1>1, <1>2, <2>1, <2>2, <2>3, PersistKeeps
<1> QED
  BY <1>5, <1>6

LEMMA PersistFallbackKeeps ==
    ASSUME IInv, NEW r \in Receipts, NEW primary \in Categories, NEW rest \in Categories,
           PersistFallback(r, primary, rest), UNCHANGED touches
    PROVE  IInv'
<1> DEFINE said == [i \in Missed(r) |-> Fallback(primary)]
<1>1. work[r].at = "llm" /\ UNCHANGED answers /\ Persist(r, said, NoCall, rest)
  BY DEF PersistFallback
<1>2. said \in [Missed(r) -> Answer]
  BY DEF Fallback, Answer
<1>3. CallsInOrder'
  BY <1>1 DEF IInv, CallsInOrder
<1> HIDE DEF said
<1> QED
  BY <1>1, <1>2, <1>3, PersistKeeps

-----------------------------------------------------------------------------
(* The theorems. *)

LEMMA InitIInv == Init => IInv
<1> SUFFICES ASSUME Init PROVE IInv
  OBVIOUS
<1> DEFINE none == [i \in {} |-> NoRow]
<1>1. /\ linked = {} /\ named = {} /\ ratings = {} /\ edit = NoEdit /\ touches = 0
      /\ rules = [k \in RuleIds |-> NoRow] /\ lastRule = 0
      /\ expenses = [x \in ExpenseIds |-> NoRow] /\ work = [r \in Receipts |-> Idle]
      /\ answers = [c \in Calls |-> none]
      /\ stores \in [Shops -> Chains \cup {NoChain, NoRow}]
  BY DEF Init
<1>2. work \in [Receipts -> WorkRow] /\ \A r \in Receipts : work[r].at = "idle"
  BY <1>1, IdleRow
<1>3. /\ answers \in [Calls -> UNION {[S -> Answer] : S \in SUBSET Lines}]
      /\ \A c \in Calls : answers[c] = none /\ DOMAIN answers[c] = {}
  <2>1. {} \in SUBSET Lines /\ none \in [{} -> Answer] /\ DOMAIN none = {}
    OBVIOUS
  <2>2. none \in UNION {[S -> Answer] : S \in SUBSET Lines}
    BY <2>1
  <2> HIDE DEF none
  <2> QED
    BY <1>1, <2>1, <2>2
<1> HIDE DEF none
<1>4. Shape
  BY <1>2, <1>3 DEF Shape
<1>5. /\ \A r \in Receipts : /\ work[r].at \in {"idle", "chain", "rules", "llm", "done", "deleted"}
                             /\ work[r].chain \in Chains \cup {NoChain}
                             /\ work[r].hits \in [DOMAIN work[r].hits -> Hit \cup {NoRow}]
                             /\ work[r].settled \subseteq RuleIds
      /\ \A c \in Calls : answers[c] \in [DOMAIN answers[c] -> Answer]
  <2>1. \A r \in Receipts : work[r] = Idle
    BY <1>1
  <2>2. \A c \in Calls : answers[c] \in [DOMAIN answers[c] -> Answer]
    BY <1>3 DEF none
  <2>3. /\ Idle.at = "idle" /\ Idle.chain = NoChain /\ Idle.settled = {}
        /\ Idle.hits \in [DOMAIN Idle.hits -> Hit \cup {NoRow}]
    BY DEF Idle
  <2> HIDE DEF Idle
  <2> QED
    BY <2>1, <2>2, <2>3
<1>6. TypeOK
  BY <1>1, <1>5, BoundsAssumption DEF TypeOK
<1>7. Rows(rules) = {} /\ Rows(expenses) = {} /\ \A k \in RuleIds : rules[k] = NoRow
  BY <1>1 DEF Rows
<1>8. OneRulePerName /\ IdsGiven /\ SettledSure /\ BookedRulesListed
  BY <1>7 DEF OneRulePerName, IdsGiven, SettledSure, Settled, BookedRulesListed
<1>9. LinkedStored /\ PassTrue
  BY <1>1, <1>2 DEF LinkedStored, PassTrue
<1>10. NothingBooked
  BY <1>1 DEF NothingBooked, ExpensesOf
<1>11. CallsInOrder
  <2>1. 0 \in 0..MaxCalls /\ \A c \in Calls : ~(c <= 0)
    BY BoundsAssumption DEF Calls
  <2> QED
    BY <1>3, <2>1 DEF CallsInOrder
<1>12. Owes /\ RatedOnce /\ RatingsFair
  BY <1>1, <1>7 DEF Owes, RatedOnce, RatingsFair
<1> QED
  BY <1>4, <1>6, <1>8, <1>9, <1>10, <1>11, <1>12 DEF IInv

LEMMA StutterKeeps == IInv /\ UNCHANGED vars => IInv'
<1> SUFFICES ASSUME IInv, UNCHANGED vars PROVE IInv'
  OBVIOUS
<1>1. /\ UNCHANGED <<stores, linked, named, work, answers, rules, lastRule, expenses>>
      /\ UNCHANGED <<ratings, edit, touches>>
  BY DEF vars
<1>2. /\ rules' \in [RuleIds -> Rule \cup {NoRow}] /\ ratings' \subseteq Rating
      /\ expenses' \in [ExpenseIds -> Expense \cup {NoRow}]
      /\ edit' \in Edits /\ touches' \in 0..MaxTouches
  BY <1>1 DEF IInv, TypeOK, Edits
<1>3. /\ Kept /\ OneRulePerName' /\ IdsGiven' /\ lastRule' \in 0..MaxRules
      /\ \A k \in Rows(rules) : rules'[k] # NoRow
      /\ \A k \in RuleIds : Settled(rules'[k]) => rules'[k] = rules[k] \/ rules'[k].conf > 1
  BY <1>1, <1>2, RulesTouched
<1>4. Owes' /\ RatedOnce' /\ RatingsFair'
  BY <1>1 DEF IInv, Owes, RatedOnce, RatingsFair
<1> QED
  BY <1>1, <1>2, <1>3, <1>4, UserKeeps

LEMMA NextIInv == IInv /\ [Next]_vars => IInv'
<1> SUFFICES ASSUME IInv, [Next]_vars PROVE IInv'
  OBVIOUS
<1>1. ASSUME Classify, UNCHANGED touches PROVE IInv'
  <2>1. PICK r \in Receipts :
           \/ FindStore(r) \/ RulesPass(r) \/ GiveUp(r)
           \/ \E chain \in Chains : ResolveStore(r, chain)
           \/ \E said \in [Missed(r) -> Answers], rest \in Categories :
                 PersistAnswers(r, said, rest)
           \/ \E primary, rest \in Categories : PersistFallback(r, primary, rest)
    BY <1>1 DEF Classify
  <2> QED
    BY <1>1, <2>1, FindStoreKeeps, RulesPassKeeps, GiveUpKeeps, ResolveStoreKeeps,
       PersistAnswersKeeps, PersistFallbackKeeps
<1>2. ASSUME Request, touches < MaxTouches, touches' = touches + 1 PROVE IInv'
  <2>1. touches' \in 0..MaxTouches
    BY <1>2, BoundsAssumption DEF IInv, TypeOK
  <2>2. CASE \E x \in ExpenseIds, scope \in {"single", "recent", "all"} :
                \/ \E category \in Categories : Correct(x, category, scope)
                \/ \E category \in Categories \cup {Same} : Edit(x, category, scope)
    BY <2>1, <2>2, CorrectKeeps, EditKeeps
  <2>3. CASE \E k \in RuleIds, category \in Categories : Approve(k, category)
    BY <2>1, <2>3, ApproveKeeps
  <2>4. CASE \E ks \in (SUBSET Rows(rules)) \ {{}} : Confirm(ks)
    BY <2>1, <2>4, ConfirmKeeps
  <2>5. CASE \E r \in Receipts, clear \in BOOLEAN : Reclassify(r, clear)
    BY <2>1, <2>5, ReclassifyKeeps
  <2>6. CASE \E r \in Receipts : DeleteReceipt(r)
    BY <2>1, <2>6, DeleteReceiptKeeps
  <2> QED
    BY <1>2, <2>2, <2>3, <2>4, <2>5, <2>6 DEF Request
<1>3. ASSUME UpdateRule, UNCHANGED touches PROVE IInv'
  BY <1>3, UpdateRuleKeeps
<1>4. CASE UNCHANGED vars
  BY <1>4, StutterKeeps
<1> QED
  BY <1>1, <1>2, <1>3, <1>4 DEF Next

THEOREM InductiveInvariant == Spec => []IInv
<1>1. Init => IInv
  BY InitIInv
<1>2. IInv /\ [Next]_vars => IInv'
  BY NextIInv
<1> QED
  BY <1>1, <1>2, PTL DEF Spec

\* The tables and what the coroutines hold are well formed, and no two rules compete for
\* a name in a chain: the lookup before every insert sees what the unique indexes of
\* classification_rules would refuse.
THEOREM WellFormed == Spec => []Consistent
<1>1. IInv => Consistent
  BY DEF IInv, Consistent
<1> QED
  BY <1>1, InductiveInvariant, PTL

\* Every rule by which an expense was booked is a rule for the name of its line, of the
\* chain of its shop or generic, however receipts, corrections, deletions and
\* reclassifications interleave.
THEOREM BookedListed == Spec => []BookedRulesListed
<1>1. IInv => BookedRulesListed
  BY DEF IInv
<1> QED
  BY <1>1, InductiveInvariant, PTL

\* A call is rated once for each of its rules, whatever the user does afterwards.
THEOREM RatedAtMostOnce == Spec => []RatedOnce
<1>1. IInv => RatedOnce
  BY DEF IInv
<1> QED
  BY <1>1, InductiveInvariant, PTL

\* A rating is about an answer the call gave: for another category than that answer's,
\* with half the credit exactly if it was one of its alternatives.
THEOREM RatedFairly == Spec => []RatingsFair
<1>1. IInv => RatingsFair
  BY DEF IInv
<1> QED
  BY <1>1, InductiveInvariant, PTL

\* What a step does to a rule the user settled: it keeps the user's word or goes, unless
\* a receipt is booked whose pass had not seen it.
LEMMA SettledStep ==
    ASSUME IInv, Next, NEW k \in RuleIds,
           Settled(rules[k]), rules'[k] # NoRow, ~Settled(rules'[k])
    PROVE  \E r \in Receipts : /\ work[r].at = "llm" /\ work'[r].at = "done"
                               /\ k \notin work[r].settled
<1>1. /\ rules \in [RuleIds -> Rule \cup {NoRow}] /\ k \in Rows(rules) /\ rules[k] # NoRow
      /\ work \in [Receipts -> WorkRow]
  BY DEF IInv, TypeOK, Shape, Settled, Rows
<1>2. rules'[k] # rules[k]
  OBVIOUS
<1>3. ~(rules'[k].source = "user_correction")
  BY DEF Settled
<1>4. ASSUME NEW r \in Receipts, NEW said \in [Missed(r) -> Answer],
             NEW call \in Calls \cup {NoCall}, NEW rest \in Categories,
             work[r].at = "llm", Persist(r, said, call, rest)
      PROVE  work'[r].at = "done" /\ k \notin work[r].settled
  <2>1. PICK i \in Missed(r) : rules[k].chain = work[r].chain /\ rules[k].name = Name[i]
    BY <1>1, <1>2, <1>4, PersistRules
  <2>2. k \notin work[r].settled
    BY <1>1, <1>4, <2>1 DEF IInv, PassTrue
  <2>3. work'[r].at = "done"
    <3> DEFINE w == [Idle EXCEPT !.at = "done"]
    <3>1. w.at = "done"
      BY IdleRow
    <3>2. work' = [work EXCEPT ![r] = w]
      BY <1>4 DEF Persist
    <3> HIDE DEF w
    <3> QED
      BY <1>1, <3>1, <3>2
  <2> QED
    BY <2>2, <2>3
<1>5. CASE Classify
  <2>1. PICK r \in Receipts :
           \/ FindStore(r) \/ RulesPass(r) \/ GiveUp(r)
           \/ \E chain \in Chains : ResolveStore(r, chain)
           \/ \E said \in [Missed(r) -> Answers], rest \in Categories :
                 PersistAnswers(r, said, rest)
           \/ \E primary, rest \in Categories : PersistFallback(r, primary, rest)
    BY <1>5 DEF Classify
  <2>2. CASE \/ FindStore(r) \/ RulesPass(r) \/ GiveUp(r)
             \/ \E chain \in Chains : ResolveStore(r, chain)
    BY <1>2, <2>2 DEF FindStore, RulesPass, GiveUp, ResolveStore
  <2>3. ASSUME NEW said \in [Missed(r) -> Answers], NEW rest \in Categories,
               PersistAnswers(r, said, rest)
        PROVE  work[r].at = "llm" /\ work'[r].at = "done" /\ k \notin work[r].settled
    <3> DEFINE call == IF Missed(r) = {} THEN NoCall ELSE LastCall + 1
    <3>1. work[r].at = "llm" /\ call <= MaxCalls /\ Persist(r, said, call, rest)
      BY <2>3 DEF PersistAnswers
    <3>2. said \in [Missed(r) -> Answer]
      BY AnswersAssumption
    <3>3. call \in Calls \cup {NoCall}
      BY <3>1, UsedCalls DEF Calls
    <3> HIDE DEF call
    <3> QED
      BY <1>4, <3>1, <3>2, <3>3
  <2>4. ASSUME NEW primary \in Categories, NEW rest \in Categories,
               PersistFallback(r, primary, rest)
        PROVE  work[r].at = "llm" /\ work'[r].at = "done" /\ k \notin work[r].settled
    <3> DEFINE said == [i \in Missed(r) |-> Fallback(primary)]
    <3>1. work[r].at = "llm" /\ Persist(r, said, NoCall, rest)
      BY <2>4 DEF PersistFallback
    <3>2. said \in [Missed(r) -> Answer]
      BY DEF Fallback, Answer
    <3> HIDE DEF said
    <3> QED
      BY <1>4, <3>1, <3>2
  <2> QED
    BY <2>1, <2>2, <2>3, <2>4
<1>6. ASSUME NEW j \in Rows(rules), NEW category, SettleRule(j, category) PROVE FALSE
  <2>1. CASE j = k
    <3>1. rules'[k] = Approved(rules[k], category) /\ rules[k] \in Rule
      BY <1>1, <1>6, <2>1 DEF SettleRule
    <3> QED
      BY <1>3, <3>1 DEF Approved, Rule
  <2>2. CASE j # k
    BY <1>1, <1>2, <1>6, <2>2 DEF SettleRule
  <2> QED
    BY <2>1, <2>2
<1>7. CASE UpdateRule
  <2> DEFINE x == edit.expense
             category == IF edit.category = Same THEN expenses[x].category ELSE edit.category
  <2>1. \/ UNCHANGED rules
        \/ /\ x \in Rows(expenses) /\ expenses[x].rule # NoRule
           /\ SettleRule(expenses[x].rule, category)
    BY <1>7 DEF UpdateRule
  <2>2. x \in Rows(expenses) /\ expenses[x].rule # NoRule => expenses[x].rule \in Rows(rules)
    BY DEF IInv, BookedRulesListed
  <2> HIDE DEF x, category
  <2> QED
    BY <1>2, <1>6, <2>1, <2>2
<1>8. CASE Request
  <2>1. ASSUME NEW x \in ExpenseIds, NEW category, NEW scope, Correct(x, category, scope)
        PROVE  FALSE
    <3>1. \/ rules'[k] = rules[k]
          \/ rules'[k] = Corrected(ChainOf(ReceiptOfExpense(x)), Name[x], category)
      BY <2>1 DEF Correct
    <3> QED
      BY <1>2, <1>3, <3>1 DEF Corrected
  <2>2. ASSUME NEW x \in ExpenseIds, NEW category, NEW scope, Edit(x, category, scope)
        PROVE  FALSE
    BY <1>2, <2>2 DEF Edit
  <2>3. ASSUME NEW j \in RuleIds, NEW category, Approve(j, category)
        PROVE  FALSE
    BY <1>6, <2>3 DEF Approve
  <2>4. ASSUME NEW ks, Confirm(ks) PROVE FALSE
    <3>1. rules'[k] = rules[k] \/ rules'[k] = Confirmed(rules[k])
      BY <2>4 DEF Confirm
    <3> QED
      BY <1>1, <1>2, <1>3, <3>1 DEF Confirmed, Rule
  <2>5. ASSUME NEW r, NEW clear, Reclassify(r, clear) PROVE FALSE
    BY <1>2, <2>5 DEF Reclassify
  <2>6. ASSUME NEW r, DeleteReceipt(r) PROVE FALSE
    BY <1>2, <2>6 DEF DeleteReceipt
  <2> QED
    BY <1>8, <2>1, <2>2, <2>3, <2>4, <2>5, <2>6 DEF Request
<1> QED
  BY <1>5, <1>7, <1>8 DEF Next

\* A rule the user settled is replaced only by an answer for a receipt that had looked up
\* its rules before: whoever looks later is told by the rule.
THEOREM SettledStays == Spec => SettledBeforePass
<1>1. IInv /\ [Next]_vars =>
          [\A k \in RuleIds : Settled(rules[k]) /\ rules'[k] # NoRow /\ ~Settled(rules'[k]) =>
               \E r \in Receipts : /\ work[r].at = "llm" /\ work'[r].at = "done"
                                   /\ k \notin work[r].settled]_vars
  BY SettledStep
<1> QED
  BY <1>1, InductiveInvariant, PTL DEF Spec, SettledBeforePass
-----------------------------------------------------------------------------
(* The review feed. *)

\* The feed without pages: the corrections, then the rules.
WholeFeed == InOrder(PendingReviews) \o InOrder(DoubtfulRules)

LEMMA InOrderLists ==
    ASSUME NEW S, IsFiniteSet(S)
    PROVE  /\ Cardinality(S) \in Nat
           /\ InOrder(S) \in Seq(S) /\ Len(InOrder(S)) = Cardinality(S)
           /\ {InOrder(S)[n] : n \in 1..Cardinality(S)} = S
<1> DEFINE k == Cardinality(S)
<1>1. k \in Nat /\ ExistsBijection(1..k, S)
  BY FS_CardinalityType
<1>2. PICK f : f \in Bijection(1..k, S)
  BY <1>1 DEF ExistsBijection
<1>3. f \in [1..k -> S] /\ {f[n] : n \in DOMAIN f} = S
  BY <1>2 DEF Bijection, Injection, Surjection
<1>4. InOrder(S) \in [1..k -> S] /\ {InOrder(S)[n] : n \in DOMAIN InOrder(S)} = S
  BY <1>3 DEF InOrder
<1>5. InOrder(S) \in Seq(S)
  BY <1>1, <1>4, SeqDef
<1>6. Len(InOrder(S)) = k
  <2> HIDE DEF k
  <2>1. Len(InOrder(S)) \in Nat /\ 1..Len(InOrder(S)) = 1..k
    BY <1>4, <1>5, LenProperties
  <2> QED
    BY <1>1, <2>1
<1> QED
  BY <1>1, <1>4, <1>5, <1>6

LEMMA SliceLists ==
    ASSUME NEW S, NEW s \in Seq(S), NEW limit \in Nat, NEW offset \in Nat
    PROVE  /\ Slice(s, limit, offset) \in Seq(S)
           /\ Len(Slice(s, limit, offset)) =
                  IF Len(s) <= offset THEN 0 ELSE IF offset + limit < Len(s) THEN limit ELSE Len(s) - offset
           /\ \A n \in 1..Len(Slice(s, limit, offset)) :
                  offset + n \in 1..Len(s) /\ Slice(s, limit, offset)[n] = s[offset + n]
<1> DEFINE a == offset + 1
           b == IF offset + limit < Len(s) THEN offset + limit ELSE Len(s)
<1>1. Len(s) \in Nat /\ s \in [1..Len(s) -> S]
  BY LenProperties
<1>2. a \in Int /\ b \in Int /\ a >= 1 /\ b <= Len(s)
  BY <1>1
<1>3. \A i \in a..b : s[i] \in S
  BY <1>1, <1>2
<1>4. Slice(s, limit, offset) = SubSeq(s, a, b)
  BY DEF Slice
<1>5. b = IF offset + limit < Len(s) THEN offset + limit ELSE Len(s)
  OBVIOUS
<1> HIDE DEF b
<1>6. SubSeq(s, a, b) \in Seq(S) /\ Len(SubSeq(s, a, b)) = IF a <= b THEN b - a + 1 ELSE 0
  BY <1>2, <1>3, SubSeqProperties
<1>9. \A i \in 1..(b - a + 1) : SubSeq(s, a, b)[i] = s[a + i - 1]
  BY <1>2, <1>3, SubSeqProperties
<1>7. Len(SubSeq(s, a, b)) = IF Len(s) <= offset THEN 0
                             ELSE IF offset + limit < Len(s) THEN limit ELSE Len(s) - offset
  <2> DEFINE k == Len(s)
             l == Len(SubSeq(s, a, b))
  <2>1. /\ k \in Nat /\ b = (IF offset + limit < k THEN offset + limit ELSE k)
        /\ l = IF a <= b THEN b - a + 1 ELSE 0
    BY <1>1, <1>5, <1>6
  <2> HIDE DEF k, l
  <2>2. l = IF k <= offset THEN 0 ELSE IF offset + limit < k THEN limit ELSE k - offset
    BY <2>1
  <2> QED
    BY <2>2 DEF k, l
<1>8. ASSUME NEW n \in 1..Len(SubSeq(s, a, b))
      PROVE  offset + n \in 1..Len(s) /\ SubSeq(s, a, b)[n] = s[offset + n]
  <2>1. n \in 1..(b - a + 1) /\ a + n - 1 = offset + n
    BY <1>2, <1>6
  <2>2. offset + n \in 1..Len(s)
    BY <1>1, <1>2, <2>1
  <2> QED
    BY <1>9, <2>1, <2>2
<1> QED
  BY <1>4, <1>6, <1>7, <1>8

LEMMA FeedFinite ==
    /\ IsFiniteSet(PendingReviews) /\ IsFiniteSet(DoubtfulRules)
    /\ Cardinality(PendingReviews) \in Nat /\ Cardinality(DoubtfulRules) \in Nat
    /\ FeedTotal = Cardinality(PendingReviews) + Cardinality(DoubtfulRules) /\ FeedTotal \in Nat
<1>1. IsFiniteSet(PendingReviews)
  BY LinesAssumption, FS_Subset DEF PendingReviews
<1>2. IsFiniteSet(DoubtfulRules)
  <2>1. IsFiniteSet(RuleIds)
    BY BoundsAssumption, FS_Interval DEF RuleIds
  <2> QED
    BY <2>1, FS_Subset DEF DoubtfulRules
<1> QED
  BY <1>1, <1>2, FS_CardinalityType DEF FeedTotal

\* WholeFeed has every item, and no more.
LEMMA WholeFeedLists ==
    /\ Len(InOrder(PendingReviews)) = Cardinality(PendingReviews)
    /\ {WholeFeed[i] : i \in 1..FeedTotal} = DoubtfulRules \cup PendingReviews
    /\ \A i \in 1..FeedTotal : WholeFeed[i] =
           IF i <= Cardinality(PendingReviews) THEN InOrder(PendingReviews)[i]
           ELSE InOrder(DoubtfulRules)[i - Cardinality(PendingReviews)]
<1> DEFINE P == PendingReviews
           D == DoubtfulRules
           a == Cardinality(P)
           b == Cardinality(D)
           p == InOrder(P)
           d == InOrder(D)
<1>1. a \in Nat /\ b \in Nat /\ FeedTotal = a + b
  BY FeedFinite
<1>2. /\ p \in Seq(P) /\ Len(p) = a /\ {p[n] : n \in 1..a} = P
      /\ d \in Seq(D) /\ Len(d) = b /\ {d[n] : n \in 1..b} = D
  BY FeedFinite, InOrderLists
<1>3. p \in Seq(P \cup D) /\ d \in Seq(P \cup D) /\ WholeFeed = p \o d
  BY <1>2, SeqMonotonic DEF WholeFeed
<1> HIDE DEF a, b, p, d, P, D
<1>4. \A i \in 1..(a + b) : WholeFeed[i] = IF i <= a THEN p[i] ELSE d[i - a]
  BY <1>2, <1>3, ConcatProperties
<1>5. {WholeFeed[i] : i \in 1..(a + b)} = P \cup D
  <2>1. ASSUME NEW i \in 1..(a + b) PROVE WholeFeed[i] \in P \cup D
    <3>1. CASE i <= a
      <4>1. i \in 1..a
        BY <1>1, <3>1
      <4> QED
        BY <1>2, <1>4, <3>1, <4>1
    <3>2. CASE ~(i <= a)
      <4>1. i - a \in 1..b
        BY <1>1, <3>2
      <4> QED
        BY <1>2, <1>4, <3>2, <4>1
    <3> QED
      BY <3>1, <3>2
  <2>2. ASSUME NEW x \in P PROVE \E i \in 1..(a + b) : WholeFeed[i] = x
    <3>1. PICK n \in 1..a : p[n] = x
      BY <1>2
    <3>2. n \in 1..(a + b) /\ n <= a
      BY <1>1
    <3> QED
      BY <1>4, <3>1, <3>2
  <2>3. ASSUME NEW x \in D PROVE \E i \in 1..(a + b) : WholeFeed[i] = x
    <3>1. PICK n \in 1..b : d[n] = x
      BY <1>2
    <3>2. n + a \in 1..(a + b) /\ ~(n + a <= a) /\ (n + a) - a = n
      BY <1>1
    <3> QED
      BY <1>4, <3>1, <3>2
  <2> QED
    BY <2>1, <2>2, <2>3
<1> QED
  BY <1>1, <1>2, <1>4, <1>5 DEF a, b, p, d, P, D

\* A page is the part of the feed that begins at its offset, as long as there is any.
LEMMA PageLists ==
    ASSUME NEW page \in Nat \ {0}, NEW size \in Nat \ {0}, NEW o \in Nat, o = (page - 1) * size
    PROVE  /\ Len(FeedPage(page, size)) = IF FeedTotal <= o THEN 0
                                          ELSE IF o + size < FeedTotal THEN size ELSE FeedTotal - o
           /\ \A n \in 1..Len(FeedPage(page, size)) :
                  o + n \in 1..FeedTotal /\ FeedPage(page, size)[n] = WholeFeed[o + n]
<1> DEFINE P == PendingReviews
           D == DoubtfulRules
           a == Cardinality(P)
           b == Cardinality(D)
           p == InOrder(P)
           d == InOrder(D)
           t == Slice(p, size, o)
           rest == IF o - a < 0 THEN 0 ELSE o - a
           left == size - Len(t)
           u == Slice(d, left, rest)
<1>1. a \in Nat /\ b \in Nat /\ FeedTotal = a + b
  BY FeedFinite
<1>2. p \in Seq(P) /\ Len(p) = a /\ d \in Seq(D) /\ Len(d) = b
  BY FeedFinite, InOrderLists
<1>3. \A i \in 1..(a + b) : WholeFeed[i] = IF i <= a THEN p[i] ELSE d[i - a]
  BY <1>1, WholeFeedLists
<1>4. FeedPage(page, size) = t \o u
  BY DEF FeedPage, RuleOffset
<1>5. rest \in Nat /\ rest = IF o - a < 0 THEN 0 ELSE o - a
  BY <1>1
<1> HIDE DEF a, b, p, d, rest, P, D
<1>6. /\ t \in Seq(P) /\ Len(t) = (IF a <= o THEN 0 ELSE IF o + size < a THEN size ELSE a - o)
      /\ \A n \in 1..Len(t) : o + n \in 1..a /\ t[n] = p[o + n]
  BY <1>2, SliceLists
<1> HIDE DEF t
<1>7. left \in Nat /\ left = size - Len(t)
  BY <1>1, <1>6
<1> HIDE DEF left
<1>13. d \in Seq(D) /\ Len(d) = b /\ rest \in Nat /\ left \in Nat
  BY <1>2, <1>5, <1>7
<1>8. /\ u \in Seq(D)
      /\ Len(u) = (IF b <= rest THEN 0 ELSE IF rest + left < b THEN left ELSE b - rest)
      /\ \A n \in 1..Len(u) : rest + n \in 1..b /\ u[n] = d[rest + n]
  BY <1>13, SliceLists
<1> HIDE DEF u
<1>9. t \in Seq(P \cup D) /\ u \in Seq(P \cup D)
  BY <1>6, <1>8, SeqMonotonic
<1>10. /\ Len(t \o u) = Len(t) + Len(u)
       /\ \A n \in 1..(Len(t) + Len(u)) : (t \o u)[n] = IF n <= Len(t) THEN t[n] ELSE u[n - Len(t)]
  BY <1>9, ConcatProperties
<1>11. Len(t) + Len(u) = IF a + b <= o THEN 0 ELSE IF o + size < a + b THEN size ELSE (a + b) - o
  BY <1>1, <1>5, <1>6, <1>7, <1>8
<1>12. ASSUME NEW n \in 1..(Len(t) + Len(u))
       PROVE  o + n \in 1..(a + b) /\ (t \o u)[n] = WholeFeed[o + n]
  <2>1. Len(t) \in Nat /\ Len(u) \in Nat
    BY <1>6, <1>8, LenProperties
  <2>2. CASE n <= Len(t)
    <3>1. n \in 1..Len(t)
      BY <2>1, <2>2
    <3>2. o + n \in 1..a /\ t[n] = p[o + n]
      BY <1>6, <3>1
    <3> QED
      BY <1>1, <1>3, <1>10, <2>2, <3>2
  <2>3. CASE ~(n <= Len(t))
    <3>1. n - Len(t) \in 1..Len(u)
      BY <2>1, <2>3
    <3>2. rest + (n - Len(t)) \in 1..b /\ u[n - Len(t)] = d[rest + (n - Len(t))]
      BY <1>8, <3>1
    <3>3. o + n = a + (rest + (n - Len(t)))
      BY <1>1, <1>5, <1>6, <1>7, <1>8, <2>1, <3>1
    <3>4. o + n \in 1..(a + b) /\ ~(o + n <= a) /\ (o + n) - a = rest + (n - Len(t))
      <4> DEFINE i == rest + (n - Len(t))
      <4>1. i \in 1..b /\ o + n = a + i
        BY <3>2, <3>3
      <4> HIDE DEF i
      <4>2. o + n \in 1..(a + b) /\ ~(o + n <= a) /\ (o + n) - a = i
        BY <1>1, <4>1
      <4> QED
        BY <4>2 DEF i
    <3> QED
      BY <1>3, <1>10, <2>3, <3>2, <3>4
  <2> QED
    BY <2>2, <2>3
<1> QED
  BY <1>1, <1>4, <1>10, <1>11, <1>12
LEMMA Products ==
    ASSUME NEW m \in Nat, NEW n \in Nat, NEW size \in Nat
    PROVE  /\ m * size \in Nat /\ (m + 1) * size = m * size + size
           /\ m <= n => m * size <= n * size
           /\ 1 * size = size /\ 0 * size = 0
           /\ size >= 1 => m <= m * size
<1>1. m * size \in Nat /\ (m + 1) * size = m * size + size /\ 1 * size = size /\ 0 * size = 0
  OBVIOUS
<1>2. ASSUME m <= n PROVE m * size <= n * size
  <2>1. PICK d \in Nat : n = m + d
    <3>1. n - m \in Nat /\ n = m + (n - m)
      BY <1>2
    <3> QED
      BY <3>1
  <2>2. n * size = m * size + d * size /\ d * size >= 0 /\ m * size \in Nat /\ d * size \in Nat
    BY <2>1
  <2> QED
    BY <2>2
<1>3. ASSUME size >= 1 PROVE m <= m * size
  <2>1. PICK d \in Nat : size = 1 + d
    <3>1. size - 1 \in Nat /\ size = 1 + (size - 1)
      BY <1>3
    <3> QED
      BY <3>1
  <2>2. m * size = m + m * d /\ m * d \in Nat
    BY <2>1
  <2> QED
    BY <2>2
<1> QED
  BY <1>1, <1>2, <1>3

\* A set of numbers that is not empty has a least one.
LEMMA LeastExists ==
    ASSUME NEW k \in Nat, NEW S, S \subseteq 1..k, S # {}
    PROVE  \E m \in S : \A j \in S : m <= j
<1> DEFINE Below(i) == {j \in S : j < i}
           T == {Below(i) : i \in S}
<1>1. IsWellFoundedOn(StrictSubsetOrdering(S), SUBSET S)
  <2>1. IsFiniteSet(S)
    <3>1. IsFiniteSet(1..k)
      BY FS_Interval
    <3> QED
      BY <3>1, FS_Subset
  <2> QED
    BY <2>1, FS_StrictSubsetOrderingWellFounded, FS_FiniteSubsetsOfFinite
<1>2. T \subseteq SUBSET S /\ T # {}
  OBVIOUS
<1>3. \E x \in T : \A y \in T : ~ (<<y, x>> \in StrictSubsetOrdering(S))
  <2> HIDE DEF T
  <2> QED
    BY <1>1, <1>2, WFMin
<1>4. PICK m \in S : \A j \in S : ~ (<<Below(j), Below(m)>> \in StrictSubsetOrdering(S))
  BY <1>3
<1>5. ASSUME NEW j \in S, ~(m <= j) PROVE FALSE
  <2>1. j < m /\ j \in Int /\ m \in Int
    BY <1>5
  <2>2. Below(j) \subseteq Below(m)
    <3>1. SUFFICES ASSUME NEW i \in S, i < j PROVE i < m
      OBVIOUS
    <3>2. i \in Int
      OBVIOUS
    <3> QED
      BY <2>1, <3>1, <3>2
  <2>3. j \in Below(m) /\ j \notin Below(j)
    BY <2>1
  <2>4. <<Below(j), Below(m)>> \in StrictSubsetOrdering(S)
    <3>1. Below(j) \in SUBSET S /\ Below(m) \in SUBSET S /\ Below(j) # Below(m)
      BY <2>2, <2>3
    <3> HIDE DEF Below
    <3> QED
      BY <2>2, <3>1 DEF StrictSubsetOrdering
  <2> QED
    BY <1>4, <2>4
<1> QED
  BY <1>5

\* There is a last page, and every earlier one is full.
LEMMA PagesEnd ==
    ASSUME NEW size \in Nat \ {0}
    PROVE  /\ LastPage(size) \in Nat \ {0} /\ LastPage(size) * size >= FeedTotal
           /\ \A q \in 1..(LastPage(size) - 1) : q * size < FeedTotal
<1> DEFINE k == FeedTotal + 1
           S == {p \in 1..k : ~HasMore(p, size)}
<1>1. k \in Nat \ {0} /\ FeedTotal \in Nat
  BY FeedFinite
<1>2. \A p \in 1..k : HasMore(p, size) <=> p * size < FeedTotal
  BY DEF HasMore
<1>3. k \in S
  <2>1. k <= k * size /\ k * size \in Nat
    BY <1>1, Products
  <2> QED
    BY <1>1, <1>2, <2>1
<1>4. PICK m \in S : \A j \in S : m <= j
  <2>1. S \subseteq 1..k /\ S # {} /\ k \in Nat
    BY <1>1, <1>3
  <2> HIDE DEF S
  <2> QED
    BY <2>1, LeastExists
<1>5. m \in 1..k /\ ~HasMore(m, size) /\ \A q \in 1..(m - 1) : HasMore(q, size)
  <2>1. ASSUME NEW q \in 1..(m - 1) PROVE HasMore(q, size)
    <3>1. m \in 1..k /\ q \in 1..k /\ ~(m <= q)
      BY <1>1, <1>4
    <3> QED
      BY <1>4, <3>1
  <2> QED
    BY <1>4, <2>1
<1>6. /\ LastPage(size) \in 1..k /\ ~HasMore(LastPage(size), size)
      /\ \A q \in 1..(LastPage(size) - 1) : HasMore(q, size)
  BY <1>5 DEF LastPage
<1>7. LastPage(size) \in Nat \ {0} /\ LastPage(size) * size \in Nat
  BY <1>1, <1>6
<1>8. \A q \in 1..(LastPage(size) - 1) : q * size < FeedTotal
  BY <1>6 DEF HasMore
<1> QED
  BY <1>1, <1>6, <1>7, <1>8 DEF HasMore

\* For pages of any size: each item has one place.
LEMMA PagesAreComplete ==
    ASSUME NEW size \in Nat \ {0}
    PROVE  PagesComplete(size)
<1> DEFINE L == LastPage(size)
           T == FeedTotal
           off(p) == (p - 1) * size
           length(p) == Len(FeedPage(p, size))
           place == [c \in Places(size) |-> off(c[1]) + c[2]]
<1>1. /\ L \in Nat \ {0} /\ T \in Nat /\ L * size >= T
      /\ \A q \in 1..(L - 1) : q * size < T
  BY PagesEnd, FeedFinite
<1>2. \A p \in 1..L : off(p) \in Nat /\ off(p) <= T /\ p * size = off(p) + size
  <2>1. SUFFICES ASSUME NEW p \in 1..L PROVE off(p) \in Nat /\ off(p) <= T /\ p * size = off(p) + size
    OBVIOUS
  <2>2. p - 1 \in Nat /\ (p - 1) + 1 = p
    BY <1>1
  <2>3. off(p) \in Nat /\ p * size = off(p) + size
    BY <2>2, Products
  <2>4. CASE p = 1
    BY <1>1, <2>3, <2>4, Products
  <2>5. CASE p # 1
    <3>1. p - 1 \in 1..(L - 1)
      BY <1>1, <2>5
    <3> QED
      BY <1>1, <2>3, <3>1
  <2> QED
    BY <2>3, <2>4, <2>5
<1>3. \A p \in 1..L :
          /\ length(p) = IF off(p) + size <= T THEN size ELSE T - off(p)
          /\ \A n \in 1..length(p) : off(p) + n \in 1..T /\ FeedPage(p, size)[n] = WholeFeed[off(p) + n]
  <2>1. SUFFICES ASSUME NEW p \in 1..L
                 PROVE  /\ length(p) = IF off(p) + size <= T THEN size ELSE T - off(p)
                        /\ \A n \in 1..length(p) : off(p) + n \in 1..T /\ FeedPage(p, size)[n] = WholeFeed[off(p) + n]
    OBVIOUS
  <2>2. p \in Nat \ {0} /\ off(p) \in Nat /\ off(p) <= T
    BY <1>1, <1>2
  <2>3. /\ length(p) = IF T <= off(p) THEN 0 ELSE IF off(p) + size < T THEN size ELSE T - off(p)
        /\ \A n \in 1..length(p) : off(p) + n \in 1..T /\ FeedPage(p, size)[n] = WholeFeed[off(p) + n]
    BY <2>2, PageLists
  <2> HIDE DEF off, length
  <2> QED
    BY <1>1, <2>2, <2>3
<1>4. \A c : c \in Places(size) <=> \E p \in 1..L, n \in 1..size : c = <<p, n>> /\ n <= length(p)
  BY DEF Places
<1> HIDE DEF L, T, off, length
<1>5. \A p \in 1..L, n \in 1..size : n <= length(p) =>
          <<p, n>> \in Places(size) /\ n \in 1..length(p) /\ place[<<p, n>>] = off(p) + n
  <2>1. SUFFICES ASSUME NEW p \in 1..L, NEW n \in 1..size, n <= length(p)
                 PROVE  <<p, n>> \in Places(size) /\ n \in 1..length(p) /\ place[<<p, n>>] = off(p) + n
    OBVIOUS
  <2>2. <<p, n>> \in Places(size)
    BY <1>4, <2>1
  <2>3. length(p) \in Int
    BY <1>1, <1>2, <1>3
  <2> QED
    BY <2>1, <2>2, <2>3
<1> HIDE DEF place
<1>6. place \in [Places(size) -> 1..T]
  <2>1. place = [c \in Places(size) |-> off(c[1]) + c[2]]
    BY DEF place
  <2>2. ASSUME NEW c \in Places(size) PROVE off(c[1]) + c[2] \in 1..T
    <3>1. PICK p \in 1..L, n \in 1..size : c = <<p, n>> /\ n <= length(p)
      BY <1>4
    <3>2. n \in 1..length(p)
      BY <1>5, <3>1
    <3> QED
      BY <1>3, <3>1, <3>2
  <2> QED
    BY <2>1, <2>2
<1>7. ASSUME NEW c \in Places(size), NEW e \in Places(size), place[c] = place[e] PROVE c = e
  <2>1. PICK p \in 1..L, n \in 1..size : c = <<p, n>> /\ n <= length(p)
    BY <1>4
  <2>2. PICK q \in 1..L, m \in 1..size : e = <<q, m>> /\ m <= length(q)
    BY <1>4
  <2>3. off(p) + n = off(q) + m
    BY <1>5, <1>7, <2>1, <2>2
  <2>4. \A a, b \in 1..L : a < b => off(a) + size <= off(b)
    <3>1. SUFFICES ASSUME NEW a \in 1..L, NEW b \in 1..L, a < b PROVE off(a) + size <= off(b)
      OBVIOUS
    <3>2. a \in Nat /\ b - 1 \in Nat /\ a <= b - 1
      BY <1>1, <3>1
    <3>3. a * size <= (b - 1) * size
      BY <3>2, Products
    <3>4. off(b) = (b - 1) * size /\ a * size = off(a) + size
      BY <1>2 DEF off
    <3> QED
      BY <3>3, <3>4
  <2>5. off(p) \in Nat /\ off(q) \in Nat
    BY <1>2
  <2>6. ~(p < q)
    <3>1. SUFFICES ASSUME p < q PROVE FALSE
      OBVIOUS
    <3>2. off(p) + size <= off(q)
      BY <2>4, <3>1
    <3> QED
      BY <2>3, <2>5, <3>2
  <2>7. ~(q < p)
    <3>1. SUFFICES ASSUME q < p PROVE FALSE
      OBVIOUS
    <3>2. off(q) + size <= off(p)
      BY <2>4, <3>1
    <3> QED
      BY <2>3, <2>5, <3>2
  <2>8. p = q
    BY <1>1, <2>6, <2>7
  <2> QED
    BY <2>1, <2>2, <2>3, <2>5, <2>8
<1>8. ASSUME NEW i \in 1..T PROVE \E c \in Places(size) : place[c] = i
  <2> DEFINE S == {p \in 1..L : i <= p * size}
  <2>1. L \in S /\ S \subseteq 1..L
    <3>1. L \in 1..L /\ L * size \in Nat
      BY <1>1
    <3> QED
      BY <1>1, <3>1
  <2>2. PICK p \in S : \A j \in S : p <= j
    <3> HIDE DEF S
    <3> QED
      BY <1>1, <2>1, LeastExists
  <2>3. p \in 1..L /\ i <= off(p) + size /\ off(p) \in Nat /\ off(p) <= T
    BY <1>2, <2>2
  <2>4. off(p) < i
    <3>1. CASE p = 1
      <4>1. off(p) = 0
        BY <3>1, Products DEF off
      <4> QED
        BY <4>1
    <3>2. CASE p # 1
      <4>1. p - 1 \in 1..L /\ p - 1 \notin S
        BY <1>1, <2>2, <2>3, <3>2
      <4>2. ~(i <= (p - 1) * size)
        BY <4>1
      <4>3. off(p) = (p - 1) * size
        BY DEF off
      <4> QED
        BY <2>3, <4>2, <4>3
    <3> QED
      BY <3>1, <3>2
  <2>5. i - off(p) \in 1..size /\ i - off(p) <= length(p) /\ off(p) + (i - off(p)) = i
    BY <1>1, <1>3, <2>3, <2>4
  <2> QED
    BY <1>5, <2>3, <2>5
<1>9. Cardinality(Places(size)) = T
  <2>1. IsFiniteSet(Places(size))
    <3>1. IsFiniteSet((1..L) \X (1..size))
      <4>1. IsFiniteSet(1..L) /\ IsFiniteSet(1..size)
        BY <1>1, FS_Interval
      <4> QED
        BY <4>1, FS_Product
    <3>2. Places(size) \subseteq (1..L) \X (1..size)
      BY DEF Places, L
    <3> QED
      BY <3>1, <3>2, FS_Subset
  <2>2. place \in Bijection(Places(size), 1..T)
    <3>1. place \in Injection(Places(size), 1..T)
      BY <1>6, <1>7 DEF Injection, IsInjective
    <3>2. place \in Surjection(Places(size), 1..T)
      BY <1>6, <1>8 DEF Surjection
    <3> QED
      BY <3>1, <3>2 DEF Bijection
  <2>3. Cardinality(1..T) = Cardinality(Places(size))
    BY <2>1, <2>2, FS_Bijection DEF ExistsBijection
  <2>4. Cardinality(1..T) = T
    BY <1>1, FS_Interval
  <2> QED
    BY <2>3, <2>4
<1>10. \A c \in Places(size) : FeedPage(c[1], size)[c[2]] = WholeFeed[place[c]]
  <2>1. SUFFICES ASSUME NEW c \in Places(size) PROVE FeedPage(c[1], size)[c[2]] = WholeFeed[place[c]]
    OBVIOUS
  <2>2. PICK p \in 1..L, n \in 1..size : c = <<p, n>> /\ n <= length(p)
    BY <1>4
  <2>3. n \in 1..length(p) /\ place[c] = off(p) + n
    BY <1>5, <2>2
  <2> QED
    BY <1>3, <2>2, <2>3
<1>11. {FeedPage(c[1], size)[c[2]] : c \in Places(size)} = {WholeFeed[i] : i \in 1..T}
  BY <1>6, <1>8, <1>10
<1>12. {WholeFeed[i] : i \in 1..T} = DoubtfulRules \cup PendingReviews
  BY WholeFeedLists DEF T
<1> QED
  BY <1>9, <1>11, <1>12 DEF PagesComplete, T

\* Whatever is booked and learned, the pages of the feed hold every doubtful rule and every
\* pending correction once: for pages of any size, of which the runs try two.
THEOREM FeedIsWhole == Spec => [](FeedPagesComplete /\ \A size \in Nat \ {0} : PagesComplete(size))
<1>1. FeedPagesComplete /\ \A size \in Nat \ {0} : PagesComplete(size)
  <2>1. \A size \in Nat \ {0} : PagesComplete(size)
    BY PagesAreComplete
  <2>2. 1..2 \subseteq Nat \ {0}
    OBVIOUS
  <2> QED
    BY <2>1, <2>2 DEF FeedPagesComplete
<1> QED
  BY <1>1, PTL
=============================================================================
