--------------------------- MODULE MCMerchantApi ---------------------------
(* The instance of MerchantApi for TLC.                                    *)
EXTENDS MerchantApi, TLC

CONSTANTS
    w1, m1, m2,                                           \* logins
    shop, rival, k, twice1, twice2, other, plain, bad     \* payment requests

\* A wallet, the email made up for it and another one.
MCNames == 0 .. 2
MCMailOf == w1 :> m1

\* Two requests of one merchant with one key, one of another merchant with the
\* same key, and two without a key, one of which is refused for its amount or its
\* callback URL.
Five == {twice1, twice2, other, plain, bad}

Users == [r \in Five |-> IF r = other THEN rival ELSE shop]
Keys == [r \in Five |-> IF r \in {plain, bad} THEN None ELSE k]

\* One of the keyless requests comes from the dashboard, which takes any amount.
FromForm == {plain}

Good == [amount |-> 1, scheme |-> "https", host |-> "public", addresses |-> {"public"}]
Refused ==
    {[Good EXCEPT !.amount = a] : a \in {0, 3}} \cup
    {[Good EXCEPT !.scheme = x] : x \in {"http", "ftp"}} \cup
    {[Good EXCEPT !.host = x] : x \in {"", "blocked"}} \cup
    {[Good EXCEPT !.addresses = x] : x \in {{}, {"private"}, {"public", "private"}}}
Forms == [r \in Five |->
    CASE r = bad -> Refused
      [] r = plain -> {[Good EXCEPT !.amount = a] : a \in 0 .. 3}
      [] OTHER -> {Good}]

=============================================================================
