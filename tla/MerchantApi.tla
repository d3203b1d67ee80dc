---------------------------- MODULE MerchantApi ----------------------------
(***************************************************************************)
(* The requests of merchants that make rows: sign-in and the creation of   *)
(* payments.  They share no variable, so what one of them does in a        *)
(* behaviour of both it does in a behaviour of it alone: `load` picks the  *)
(* one requests come for.                                                  *)
(***************************************************************************)
EXTENDS Accounts, PaymentCreation

VARIABLE load

vars == <<load, accountVars, creationVars>>

Init == load \in {"accounts", "creation"} /\ AccountsInit /\ CreationInit

Next ==
    /\ UNCHANGED load
    /\ \/ load = "accounts" /\ AccountsNext /\ UNCHANGED creationVars
       \/ load = "creation" /\ CreationNext /\ UNCHANGED accountVars

\* AccountsFairness or CreationFairness.
Fairness ==
    /\ \A h \in Handlers :
          /\ WF_accountVars(load = "accounts" /\ Serve(h))
          /\ SF_accountVars(load = "accounts" /\ Spend(h) /\ Acceptable(req[h].nonce))
    /\ \A w \in Wallets :
          /\ WF_accountVars(load = "accounts" /\ \E n \in Nonces : AskNonce(w, n))
          /\ SF_accountVars(load = "accounts" /\ \E h \in Handlers : StartVerify(h, w))
          /\ SF_accountVars(load = "accounts" /\ \E h \in Handlers : RefuseVerify(h, w))
    /\ \A r \in Requests : WF_creationVars(load = "creation" /\ Progress(r))

Spec == Init /\ [][Next]_vars /\ Fairness

\* The types of both parts.
TypeOK == AccountsTypeOK /\ CreationTypeOK

\* WalletsGetIn, of a server that people sign in to.
EveryWalletGetsIn == load = "accounts" => WalletsGetIn

\* ClientsAreServed, of a server that payments are created at.
EveryClientIsServed == load = "creation" => ClientsAreServed

=============================================================================
