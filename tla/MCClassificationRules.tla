----------------------- MODULE MCClassificationRules -----------------------
EXTENDS ClassificationRules, TLC
CONSTANTS maxi, Maxi, Mini, milk, food, home, r1, r2

MCReceiptOf == 11 :> r1 @@ 12 :> r1 @@ 21 :> r2
MCName == 11 :> milk @@ 12 :> Blank @@ 21 :> milk
MCShop == r1 :> maxi @@ r2 :> maxi
MCJournal == r1 :> "no" @@ r2 :> "add"
MCAnswers == {[category |-> food, conf |-> 1, alts |-> {home}],
              [category |-> home, conf |-> 3, alts |-> {}]}
MCSymmetry == Permutations(Chains)
=============================================================================
