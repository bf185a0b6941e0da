--------------------------- MODULE MCGuardedSettle ---------------------------
(***************************************************************************)
(* Small instances of GuardedSettle: one signed challenge, two authorize   *)
(* requests that race for it, payments and retries over shared nonces.     *)
(***************************************************************************)
EXTENDS GuardedSettle, TLC

\* A budget two payments contend for; without a limit of its own on a single one.
MCMaxTotal == [c \in Challenge |-> 1]

Interchangeable ==
    Permutations(Request) \cup Permutations(Token) \cup Permutations(Nonce)
=============================================================================
