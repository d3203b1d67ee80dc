------------------------------ MODULE Checkout ------------------------------
(***************************************************************************)
(* The checkout page of one payment: checkout-page.js polls the public     *)
(* status endpoint, which may reconcile the payment before it answers.     *)
(* Polls are sent by a timer and not serialised, so answers may be lost    *)
(* and may overtake each other.                                            *)
(***************************************************************************)
EXTENDS Reconciliation, FiniteSets

CONSTANTS
    Paying,             \* the payment of the page
    ReconcileOnPoll,    \* settings.CHECKOUT_RECONCILE_ON_POLL
    MaxPolls            \* bound: polls that wait for an answer

ASSUME PageAssumption == Paying \in Payments /\ ReconcileOnPoll \in BOOLEAN /\ MaxPolls \in Nat

VARIABLES
    polls,      \* polls no worker has taken up
    serving,    \* workers that serve a poll
    held,       \* the phase of the copy such a worker has read
    answers,    \* phases on their way to the page
    shown,      \* the phase the page shows
    ticking,    \* pollTimer is set
    told        \* the page has shown an outcome (history)

page == <<polls, serving, held, answers, shown, ticking, told>>

Phases == {"pending", "confirming", "confirmed", "failed"}
Outcomes == {"confirmed", "failed"}

PageInit ==
    /\ polls = 0
    /\ serving = {}
    /\ held = [w \in Workers |-> "pending"]
    /\ answers = {}
    /\ shown = "loading"
    /\ ticking = FALSE
    /\ told = FALSE

\* Mutant: enough confirmations make a payment paid.
PhaseByCount(p) ==
    CASE status[p] = "failed" -> "failed"
      [] status[p] # "failed" /\ txHash[p] = None -> status[p]
      [] OTHER -> IF confs[p] < Required THEN "confirming" ELSE "confirmed"

\* phaseFrom, applied to what PublicPaymentStatusSerializer reads from the row.
PhaseFrom(p) ==
    CASE status[p] \in Outcomes -> status[p]
      [] status[p] \notin Outcomes /\ txHash[p] # None /\ confs[p] < Required -> "confirming"
      [] OTHER -> "pending"

-----------------------------------------------------------------------------
\* init: the payer opens the link.
OpenPage ==
    /\ shown = "loading" /\ ~ticking /\ status[Paying] # "absent"
    /\ ticking' = TRUE
    /\ UNCHANGED <<vars, polls, serving, held, answers, shown, told>>

CanPoll == polls + Cardinality(serving) + Cardinality(answers) < MaxPolls

Poll ==
    /\ ticking /\ CanPoll
    /\ polls' = polls + 1
    /\ UNCHANGED <<vars, serving, held, answers, shown, ticking, told>>

\* PublicPaymentStatusView reads the row; a pending payment is reconciled first.
TakeUp(w) ==
    /\ polls > 0 /\ w \notin Listeners /\ w \notin serving /\ pc[w] = "idle"
    /\ polls' = polls - 1
    /\ serving' = serving \cup {w}
    /\ held' = [held EXCEPT ![w] = PhaseFrom(Paying)]
    /\ IF ReconcileOnPoll /\ status[Paying] = "pending"
       THEN StartBatch(w, {Paying})
       ELSE UNCHANGED vars
    /\ UNCHANGED <<answers, shown, ticking, told>>

\* What it answers: the copy it has read, or after a batch that did not raise the
\* row as it is now.  Whether the batch raised, or the second reading itself, is
\* left open.
Answered(w) == {held[w]} \cup
    {phase \in {PhaseFrom(Paying)} : ReconcileOnPoll /\ held[w] \notin Outcomes}

Respond(w) ==
    /\ w \in serving /\ pc[w] = "idle"
    /\ serving' = serving \ {w}
    /\ \E phase \in Answered(w) : answers' = answers \cup {phase}
    /\ held' = [held EXCEPT ![w] = "pending"]
    /\ UNCHANGED <<vars, polls, shown, ticking, told>>

\* Mutant: the timer is cleared as soon as a deposit is seen.
RenderAndRest(phase) ==
    /\ phase \in answers
    /\ answers' = answers \ {phase}
    /\ shown' = phase
    /\ ticking' = (ticking /\ phase = "pending")
    /\ told' = (told \/ phase \in Outcomes)
    /\ UNCHANGED <<vars, polls, serving, held>>

\* poll: an outcome clears the timer; an older answer that comes later is shown
\* all the same.
Render(phase) ==
    /\ phase \in answers
    /\ answers' = answers \ {phase}
    /\ shown' = phase
    /\ ticking' = (ticking /\ phase \notin Outcomes)
    /\ told' = (told \/ phase \in Outcomes)
    /\ UNCHANGED <<vars, polls, serving, held>>

\* fetch throws or the answer is an error: the page waits for the next tick.
LoseAnswer(phase) ==
    /\ phase \in answers
    /\ answers' = answers \ {phase}
    /\ UNCHANGED <<vars, polls, serving, held, shown, ticking, told>>

\* onConfirmPay, clicked some time ago on a loaded page: the payer's wallet has
\* sent the transaction.  "confirming" is shown over whatever is shown by now, and
\* the page polls.
Submitted ==
    /\ shown # "loading" /\ CanPoll
    /\ shown' = "confirming"
    /\ polls' = polls + 1
    /\ UNCHANGED <<vars, serving, held, answers, ticking, told>>

\* A worker that serves a poll takes up nothing else before it has answered.
ServerStep ==
    /\ Next
    /\ \A w \in serving : pc[w] = "idle" => pc'[w] = "idle"
    /\ UNCHANGED page

PageStep ==
    \/ OpenPage \/ Poll \/ Submitted
    \/ \E w \in Workers : TakeUp(w) \/ Respond(w)
    \/ \E phase \in Phases : Render(phase) \/ LoseAnswer(phase)

PageNext == ServerStep \/ PageStep

\* The page stays open.  Every answer comes or is given up, not all are lost, and
\* other requests do not keep the server from every poll.
PageFairness ==
    /\ WF_page(Poll)
    /\ SF_page(\E w \in Workers : TakeUp(w))
    /\ WF_page(\E w \in Workers : Respond(w))
    /\ WF_page(\E phase \in Phases : Render(phase) \/ LoseAnswer(phase))
    /\ SF_page(\E phase \in Outcomes : Render(phase))

PageSpec == Init /\ PageInit /\ [][PageNext]_<<vars, page>> /\ Fairness /\ PageFairness

-----------------------------------------------------------------------------
(* Properties                                                              *)

\* The page shows an outcome or will, when an answer arrives.
Tells(phase) == shown = phase \/ phase \in answers

\* However late an answer is, a payer told "Paid" has a deposit in the books, and
\* one told "Expired" a payment that is failed and will not be paid any more.
OutcomesAreTrue ==
    /\ Tells("confirmed") => \E t \in Txs : ledger[t] = Paying
    /\ Tells("failed") => status[Paying] = "failed"

\* Whatever answers are lost or late, a page that is open and polls when its
\* payment is confirmed or failed comes to show an outcome.
PageGetsOutcome == (status[Paying] \in Outcomes /\ ticking) ~> told

=============================================================================
