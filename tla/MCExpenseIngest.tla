-------------------------- MODULE MCExpenseIngest --------------------------
EXTENDS ExpenseIngest, TLC
CONSTANTS coffee, hotel, trip, holiday

MCPayload == coffee :> [event |-> NoEvent, tags |-> {holiday}]
          @@ hotel :> [event |-> trip, tags |-> {}]
=============================================================================
