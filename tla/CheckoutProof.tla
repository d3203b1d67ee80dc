---------------------------- MODULE CheckoutProof ----------------------------
(***************************************************************************)
(* The checkout page over the reconciler, proved for every page, any       *)
(* number of polls under way, and all that Reconciliation leaves open: the *)
(* page is one more client of the reconciler, so what is proved of that    *)
(* holds with the page, and no outcome the page tells of is untrue.        *)
(***************************************************************************)
EXTENDS Checkout, ReconciliationProof

USE PageAssumption

-----------------------------------------------------------------------------
(* A poll is a request like any other.                                     *)

\* A step of the page and the server it asks is a step of the reconciler, or leaves
\* it alone.
LEMMA PageStepIsServed == [PageNext]_<<vars, page>> => [Next]_vars
<1> SUFFICES ASSUME [PageNext]_<<vars, page>> PROVE [Next]_vars OBVIOUS
<1>1. ASSUME NEW w \in Workers, TakeUp(w) PROVE [Next]_vars
  <2>1. CASE StartBatch(w, {Paying})
    BY <2>1 DEF Next, Begin, Asked
  <2> QED BY <1>1, <2>1 DEF TakeUp
<1> QED
  BY <1>1 DEF PageNext, ServerStep, PageStep, OpenPage, Poll, Submitted, Respond, Render, LoseAnswer

\* Every behaviour of the page and the server is one of the reconciler.
THEOREM PageIsServed == PageSpec => Spec
BY PageStepIsServed, PTL DEF PageSpec, Spec

\* So the books are as consistent with the page as without it, they keep both
\* abstract promises, and without a fault Redis marks nothing that is not being
\* booked.
THEOREM PageKeepsTheBooks ==
    PageSpec => /\ []Consistent /\ []CreditIsSettledOrSlipped /\ []ShownIsPaid
                /\ [](faults = 0 => ProcessedIsCredited)
                /\ ImplementsCreditOnce /\ ImplementsRacedLifecycle
BY PageIsServed, AlwaysConsistent, BookedIsSettled, ShownWasPaid, ProcessedUnlessFault,
   BooksKeepThePromise, RacesKeepTheCredit, PTL

-----------------------------------------------------------------------------
(* What the page tells.                                                    *)

\* A credit is for good.
LEMMA CreditStays ==
    ASSUME Consistent, [Next]_vars, NEW t \in Txs, ledger[t] # None
    PROVE  ledger'[t] = ledger[t]
BY StepCreditsOnce DEF Books!Next, Books!Credit, Consistent, TypeOK

\* An outcome read from the row is the row's status.
LEMMA PhaseIsStatus ==
    ASSUME NEW phase \in Outcomes, PhaseFrom(Paying) = phase
    PROVE  status[Paying] = phase
BY DEF PhaseFrom, Outcomes

\* An outcome is known to the page, or to a worker that may still answer it.
Known(phase) == Tells(phase) \/ \E w \in Workers : held[w] = phase

\* What is known is true, and so is what is told.
KnownIsTrue ==
    /\ held \in [Workers -> Phases]
    /\ Known("confirmed") => \E t \in Txs : ledger[t] = Paying
    /\ Known("failed") => status[Paying] = "failed"

\* The row shows one of the page's phases.
LEMMA PhaseIsPhase == PhaseFrom(Paying) \in Phases
BY DEF PhaseFrom, Phases, Outcomes

\* An outcome comes to be known only by reading the row.
LEMMA KnownAnew ==
    ASSUME held \in [Workers -> Phases], [PageNext]_<<vars, page>>,
           NEW phase \in Outcomes, Known(phase)'
    PROVE  Known(phase) \/ (PhaseFrom(Paying) = phase /\ UNCHANGED <<status, ledger>>)
<1>1. ASSUME NEW w \in Workers, Respond(w)
      PROVE  Known(phase) \/ (PhaseFrom(Paying) = phase /\ UNCHANGED <<status, ledger>>)
  <2>1. /\ held' = [held EXCEPT ![w] = "pending"] /\ phase # "pending"
        /\ UNCHANGED <<shown, status, ledger>>
    BY <1>1 DEF Respond, vars, db, Outcomes
  <2>2. \A v \in Workers : held'[v] = phase => held[v] = phase
    BY <2>1
  <2>3. PICK x \in Answered(w) : answers' = answers \cup {x}
    BY <1>1 DEF Respond
  <2>4. x = held[w] \/ x = PhaseFrom(Paying)
    BY <2>3 DEF Answered
  <2> QED BY <2>1, <2>2, <2>3, <2>4 DEF Known, Tells
<1>2. ASSUME NEW w \in Workers, TakeUp(w)
      PROVE  Known(phase) \/ (PhaseFrom(Paying) = phase /\ UNCHANGED <<status, ledger>>)
  <2>1. /\ held' = [held EXCEPT ![w] = PhaseFrom(Paying)]
        /\ UNCHANGED <<answers, shown, status, ledger>>
    BY <1>2 DEF TakeUp, StartBatch, vars, db
  <2> QED BY <2>1 DEF Known, Tells
<1>3. ASSUME NEW x \in Phases, Render(x) \/ LoseAnswer(x) PROVE Known(phase)
  BY <1>3 DEF Render, LoseAnswer, Known, Tells
<1>4. CASE Submitted
  BY <1>4 DEF Submitted, Known, Tells, Outcomes
<1>5. CASE UNCHANGED <<answers, shown, held>>
  BY <1>5 DEF Known, Tells
<1> QED
  BY <1>1, <1>2, <1>3, <1>4, <1>5 DEF PageNext, ServerStep, PageStep, OpenPage, Poll, page

\* The phases workers hold are phases.
LEMMA HeldTyped ==
    held \in [Workers -> Phases] /\ [PageNext]_<<vars, page>> => held' \in [Workers -> Phases]
<1> SUFFICES ASSUME held \in [Workers -> Phases], [PageNext]_<<vars, page>>
             PROVE  held' \in [Workers -> Phases]
  OBVIOUS
<1>1. ASSUME NEW w \in Workers, TakeUp(w) \/ Respond(w) PROVE held' \in [Workers -> Phases]
  <2>1. PICK x \in Phases : held' = [held EXCEPT ![w] = x]
    BY <1>1, PhaseIsPhase DEF TakeUp, Respond, Phases
  <2> QED BY <2>1
<1>2. CASE UNCHANGED held
  BY <1>2
<1> QED
  BY <1>1, <1>2 DEF PageNext, ServerStep, PageStep, OpenPage, Poll, Submitted, Render, LoseAnswer, page

\* Every step keeps what is known true: credits and failures are for good.
LEMMA StepKnown == Consistent /\ KnownIsTrue /\ [PageNext]_<<vars, page>> => KnownIsTrue'
<1> SUFFICES ASSUME Consistent, KnownIsTrue, [PageNext]_<<vars, page>>
             PROVE  KnownIsTrue'
  OBVIOUS
<1>1. [Next]_vars /\ held \in [Workers -> Phases]
  BY PageStepIsServed DEF KnownIsTrue
<1>2. ASSUME Known("confirmed")' PROVE \E t \in Txs : ledger'[t] = Paying
  <2>1. \E t \in Txs : ledger[t] = Paying
    <3>1. CASE Known("confirmed")
      BY <3>1 DEF KnownIsTrue
    <3>2. CASE PhaseFrom(Paying) = "confirmed"
      BY <3>2, PhaseIsStatus DEF Outcomes, Consistent, ConfirmedIsCredited
    <3> QED BY <1>1, <1>2, <3>1, <3>2, KnownAnew DEF Outcomes
  <2>2. Paying # None
    BY NoneAssumption
  <2> QED BY <1>1, <2>1, <2>2, CreditStays
<1>3. ASSUME Known("failed")' PROVE status'[Paying] = "failed"
  <2>1. status[Paying] = "failed"
    <3>1. CASE Known("failed")
      BY <3>1 DEF KnownIsTrue
    <3>2. CASE PhaseFrom(Paying) = "failed"
      BY <3>2, PhaseIsStatus DEF Outcomes
    <3> QED BY <1>1, <1>3, <3>1, <3>2, KnownAnew DEF Outcomes
  <2> QED BY <1>1, <2>1, StepKeepsFailed
<1> QED BY <1>1, <1>2, <1>3, HeldTyped DEF KnownIsTrue

\* A payer is told the truth, by any answers, however late, and whatever copy of the
\* row a worker answers from.
THEOREM PayersAreToldTheTruth == PageSpec => []OutcomesAreTrue
<1>1. PageInit => KnownIsTrue
  BY DEF PageInit, KnownIsTrue, Known, Tells, Phases
<1>2. KnownIsTrue => OutcomesAreTrue
  BY DEF KnownIsTrue, Known, OutcomesAreTrue
<1> QED BY <1>1, <1>2, StepKnown, PageKeepsTheBooks, PTL DEF PageSpec

=============================================================================
