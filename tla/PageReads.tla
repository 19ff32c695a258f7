------------------------------ MODULE PageReads ------------------------------
(***************************************************************************)
(* One load of the purchase page.  transaction-overview-service reads the  *)
(* transaction row, and only then, in queries of their own, the quote, the *)
(* hold, the retry gate, the trail and the attempt rows; nothing holds     *)
(* these reads together, so handlers commit in between.  The page is shown *)
(* to be sound for every such mix: `seen` is the status the load began     *)
(* with, and the rest is read in any later state.                          *)
(***************************************************************************)
EXTENDS PurchasePage

VARIABLE seen

\* loadTransactionOverview, its first query.
ReadTransaction == seen' = status /\ UNCHANGED vars

LoadInit == Init /\ seen = status
LoadNext == (Next /\ UNCHANGED seen) \/ ReadTransaction
LoadSpec == LoadInit /\ [][LoadNext]_<<vars, seen>>

-----------------------------------------------------------------------------
(* Properties. *)

\* However far the rest of the reads lag behind the state, a page that shows a
\* completed purchase shows every step above it as recorded.
PageIsComplete == EveryStepRecordedFor(seen)

\* A page never invites a second payment beside the confirmation of the first,
\* although the invitation may come of the older reading.
NoPaymentOfferedOnceCaptured == CaptureLine(seen) = "CAPTURED" => Offer(seen) \notin {"PAY", "RETRY"}

\* So a page never contradicts itself about the end of a purchase.
PageIsConsistent == PageIsComplete /\ NoPaymentOfferedOnceCaptured
=============================================================================
