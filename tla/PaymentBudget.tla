---------------------------- MODULE PaymentBudget ----------------------------
(***************************************************************************)
(* What POST /settle promises of signed payments and payment sessions,     *)
(* without its handlers: a payment claims its nonce and, under a session,  *)
(* a part of the budget the payer signed, before money moves; a claim is   *)
(* given back only if the payment has not been made.  The one exception is *)
(* stated: a payment whose outcome was lost sight of may be given back and *)
(* still be made.                                                          *)
(***************************************************************************)
EXTENDS Integers

CONSTANTS
    Payment,     \* one attempt to pay
    Nonce,       \* what at most one payment may be made for
    Account,     \* a budget
    NoAccount,   \* of a payment that draws on no budget
    Amount,      \* what a payment may be of
    Limit        \* what may be drawn from each account

VARIABLES
    status,      \* of each account: "unsigned", "open" or "closed"
    spent,       \* what is drawn from each account
    claims,      \* payment -> what it claims
    made,        \* payments made
    lost         \* payments whose outcome was lost sight of

budgetVars == <<status, spent, claims, made, lost>>

Claim(n, a, x) == [nonce |-> n, account |-> a, amount |-> x]

Init ==
    /\ status = [a \in Account |-> "unsigned"]
    /\ spent = [a \in Account |-> 0]
    /\ claims = [p \in {} |-> NoAccount]
    /\ made = {}
    /\ lost = {}

\* The payer's consent opens the account, once.
Open(a) ==
    /\ status[a] = "unsigned"
    /\ status' = [status EXCEPT ![a] = "open"]
    /\ UNCHANGED <<spent, claims, made, lost>>

\* It is revoked or expires, for good.
Close(a) ==
    /\ status[a] = "open"
    /\ status' = [status EXCEPT ![a] = "closed"]
    /\ UNCHANGED <<spent, claims, made, lost>>

Unclaimed(n) == \A p \in DOMAIN claims : claims[p].nonce # n

\* A claim on a free nonce; the amount comes out of an open account and stays
\* within its limit.
Take(p, n, a, x) ==
    /\ p \notin DOMAIN claims \cup made
    /\ Unclaimed(n)
    /\ a # NoAccount => status[a] = "open" /\ spent[a] + x <= Limit[a]
    /\ claims' = [o \in DOMAIN claims \cup {p} |->
                    IF o = p THEN Claim(n, a, x) ELSE claims[o]]
    /\ spent' = [b \in Account |-> IF b = a THEN spent[a] + x ELSE spent[b]]
    /\ UNCHANGED <<status, made, lost>>

\* A payment is made under its claim, or its outcome had been lost sight of.
Make(p) ==
    /\ p \in DOMAIN claims \cup lost
    /\ made' = made \cup {p}
    /\ UNCHANGED <<status, spent, claims, lost>>

Lose(p) ==
    /\ p \in DOMAIN claims
    /\ lost' = lost \cup {p}
    /\ UNCHANGED <<status, spent, claims, made>>

\* A claim is given back, with no more than it took.
GiveBack(p) ==
    /\ p \in DOMAIN claims
    /\ p \notin made \ lost
    /\ claims' = [o \in DOMAIN claims \ {p} |-> claims[o]]
    /\ \A a \in Account :
          IF a = claims[p].account
          THEN spent[a] - claims[p].amount <= spent'[a] /\ spent'[a] <= spent[a]
          ELSE spent'[a] = spent[a]
    /\ spent' \in [Account -> Nat]
    /\ UNCHANGED <<status, made, lost>>

\* The payments whose claim a step takes, and whose claim it gives back.
Taken == Payment \cap (DOMAIN claims' \ DOMAIN claims)
GivenBack == Payment \cap (DOMAIN claims \ DOMAIN claims')

Next ==
    \/ \E a \in Account : Open(a) \/ Close(a)
    \/ \E p \in Taken, n \in Nonce, a \in Account \cup {NoAccount}, x \in Amount :
          Take(p, n, a, x)
    \/ \E p \in GivenBack : GiveBack(p)
    \/ \E p \in Payment : Make(p) \/ Lose(p)

Spec == Init /\ [][Next]_budgetVars

=============================================================================
