--------------------------- MODULE MCReceiptQueue ---------------------------
(***************************************************************************)
(* Instances of ReceiptQueue for TLC.                                      *)
(***************************************************************************)
EXTENDS ReceiptQueue, TLC

CONSTANTS c1, c2, none, a1, a2, t1, t2

OneClient == {c1}
TwoClients == {c1, c2}
OneRequest == {a1}
TwoRequests == {a1, a2}
TwoTokens == {t1, t2}

Symmetry == Permutations(TwoTokens) \union Permutations(TwoRequests)
-----------------------------------------------------------------------------
(* The instance for liveness has two receipts in the queue at once, and no symmetry *)
(* set may be used for it.  These conditions keep it small.                         *)

\* Tokens without a coroutine are interchangeable, and so are clients without a receipt.
FirstFree ==
    /\ proc[t2].pc = "free" /\ proc'[t2].pc # "free" => proc[t1].pc # "free"
    /\ \A a \in Requests : api[a].pc = "idle" /\ api'[a].client = c2 => Known(c1)

\* bound: no upload once every receipt id is used, nothing could be stored for it.
IdsLeft ==
    \A a \in Requests :
        api[a].pc = "idle" /\ api'[a].pc = "insert" =>
            \E r \in Receipts : receipt[r].state = "absent"

\* bound: no journal fallback, which the other instance has.
NoJournal == \A t \in Tokens : ~proc'[t].fallback

LiveSpec == Init /\ [][Next /\ FirstFree /\ IdsLeft /\ NoJournal]_vars /\ Fairness
-----------------------------------------------------------------------------
(* Statements of the repository that the code does not keep. *)

\* claim_next_job claims "the oldest pending (or stale in_progress) job", stale after
\* stale_minutes = 10: a claim that old can be claimed again.
OldClaimsAreStale ==
    \A r \in Receipts :
        job[r].status = "in_progress" /\ job[r].age \in {"old", "day"} => Claimable(r)
=============================================================================
