------------------------------ MODULE Passport ------------------------------
(***************************************************************************)
(* The safety passport: what the purchase page certifies about a purchase, *)
(* worked out on every read from persisted rows and from the audit trail   *)
(* (safety-passport, passport-service).  Nothing here is stored, so every  *)
(* line is a function of the payment state.                                *)
(*                                                                         *)
(* The lines about the agent, the policy and the approval are settled      *)
(* before stock is held and are left out; the retry section repeats the    *)
(* attempt rows and the gate's answer.                                     *)
(***************************************************************************)
EXTENDS PaymentProperties

\* The value of the first case whose condition holds.
FirstOf(cases) ==
    LET i == CHOOSE j \in DOMAIN cases :
                 cases[j][1] /\ \A k \in DOMAIN cases : k < j => ~cases[k][1]
    IN  cases[i][2]

-----------------------------------------------------------------------------
(* The evidence: what the audit trail says happened, written by the commit *)
(* that made it happen.                                                    *)

\* payment_captured: a capture that moved the purchase, or a second capture.
MultipleCaptureDetected == \E e \in ledger : e[2] = "MULTIPLE_CAPTURE"
PaymentCapturedRecorded ==
    \/ MultipleCaptureDetected
    \/ \E p \in Payments : \E kind \in {"captured", "status"} : <<kind, p>> \in recorded

\* payment_failed: a reported failure that moved the purchase.
PaymentFailedRecorded == \E p \in Payments : <<"failed", p>> \in recorded

\* payment_verified: a callback was verified.  (One that came too late to move
\* the purchase shows in its attempt, until that attempt is settled.)
PaymentVerifiedRecorded ==
    SomeAttempt({"VERIFIED"}) \/ \E n \in DOMAIN attempts : <<"payment_verified", n>> \in recorded

\* Faulty variant: what the attempts say today, without the history.
HasCaptureInRows == SomeAttempt({"CAPTURED"})

\* Faulty variant: a verified callback is money.
HasCaptureOrCallback ==
    PaymentCapturedRecorded \/ PaymentVerifiedRecorded \/ SomeAttempt({"CAPTURED"})

HasCapture == PaymentCapturedRecorded \/ SomeAttempt({"CAPTURED"})

-----------------------------------------------------------------------------
(* The lines.  `s` is the state the page read: it reads the transaction     *)
(* row first, and everything else a moment later.                          *)

Halted == {"BLOCKED", "CANCELLED", "EXPIRED"}

\* A step that has begun and has no answer yet.
Outstanding(s) == IF attempts # <<>> /\ s \notin Halted THEN "PENDING" ELSE "NOT_REACHED"

\* Every attempt's amount is that of a quote this purchase was given.
PaymentAmountLine ==
    FirstOf(<< <<attempts = <<>>,                                       "NOT_REACHED">>,
               <<\E n \in DOMAIN attempts : attempts[n].quote > quote.id, "BLOCKED">>,
               <<TRUE,                                                    "VERIFIED">> >>)

\* Faulty variant: a hold whose window has passed is shown as gone.
InventoryLineIfHeld ==
    FirstOf(<< <<hold.lapsed,               "GIVEN_BACK">>,
               <<hold.status = "COMMITTED", "COMMITTED">>,
               <<hold.status = "ACTIVE",    "RESERVED">>,
               <<TRUE,                      "GIVEN_BACK">> >>)

\* Of all the purchase's holds; the earlier ones were given back, and show only
\* while the newest was given back as well (RELEASED or EXPIRED).
InventoryLine ==
    FirstOf(<< <<hold.status = "COMMITTED", "COMMITTED">>,
               <<hold.status = "ACTIVE",    "RESERVED">>,
               <<TRUE,                      "GIVEN_BACK">> >>)

\* Once the provider has confirmed the money, the browser's word is not
\* waited for.  `refused`: a callback of this purchase was turned down.
CallbackLine(s, refused) ==
    FirstOf(<< <<PaymentVerifiedRecorded, "VERIFIED">>,
               <<refused,                 "BLOCKED">>,
               <<HasCapture,              "NOT_REQUIRED">>,
               <<TRUE,                    Outstanding(s)>> >>)

\* FAILED is shown with the words "No money was taken."
CaptureLine(s) ==
    FirstOf(<< <<HasCapture,                                    "CAPTURED">>,
               <<s = "PAYMENT_VERIFIED",                        "PENDING">>,
               <<s = "PAYMENT_FAILED" \/ PaymentFailedRecorded, "FAILED">>,
               <<TRUE,                                          Outstanding(s)>> >>)

CommitLine ==
    FirstOf(<< <<hold.status = "COMMITTED", "COMMITTED">>,
               <<HasCapture,                "PENDING">>,
               <<TRUE,                      "NOT_REACHED">> >>)

-----------------------------------------------------------------------------
(* Properties. *)

\* A confirmation once shown is not taken back, although attempt rows are
\* rewritten by callbacks and failures that come late.
CapturedLineStays ==
    [][CaptureLine(status) = "CAPTURED" => CaptureLine(status)' = "CAPTURED"]_vars

\* The note on a completed purchase is true of the payment lines: every step
\* above was recorded before this one.  No message that did not come, and no
\* earlier attempt that failed, leaves a line open or red.
EveryStepRecordedFor(s) ==
    s = "COMPLETED" =>
        /\ PaymentAmountLine = "VERIFIED"
        /\ CaptureLine(s) = "CAPTURED"
        /\ InventoryLine = "COMMITTED" /\ CommitLine = "COMMITTED"
        /\ \A refused \in BOOLEAN :
               CallbackLine(s, refused) \in {"VERIFIED", "NOT_REQUIRED"}
                   \cup (IF refused THEN {"BLOCKED"} ELSE {})
=============================================================================
