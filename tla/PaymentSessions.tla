--------------------------- MODULE PaymentSessions ---------------------------
(***************************************************************************)
(* Payment sessions of services/x402-facilitator (src/routes/session.ts    *)
(* over the session_challenges and payment_sessions tables of              *)
(* src/db/queries.ts): a payer signs a challenge that names a budget, any  *)
(* number of authorize requests race to turn it into a session, and the    *)
(* session is drawn on until it is revoked or expires.                     *)
(*                                                                         *)
(* A session is identified with the token its authorize request draws.     *)
(* Checks of wallets, networks and formats only refuse and are left out.   *)
(***************************************************************************)
EXTENDS Integers, FiniteSets, FiniteSetsExt

CONSTANTS
    Challenge,    \* session_challenges.nonce
    Token,        \* session tokens, one per authorize request
    MaxTotal,     \* max_total_micro of each challenge
    MaxSingle,    \* max_single_micro, equal to MaxTotal where it is NULL
    Disturbance   \* which of the Disturbances below may happen

Disturbances ==
    {"unconfirmed",  \* a transfer is sent but its confirmation is not seen
     "db",           \* a statement fails
     "crash"}        \* the process dies

ASSUME MaxTotalAssumption == MaxTotal \in [Challenge -> Nat]
ASSUME MaxSingleAssumption == MaxSingle \in [Challenge -> Nat]
ASSUME SingleWithinTotal == \A c \in Challenge : MaxSingle[c] <= MaxTotal[c]
ASSUME DisturbanceAssumption == Disturbance \subseteq Disturbances

VARIABLES
    challenges,   \* "none", "open", "used" or "expired"
    authorizing,  \* the authorize requests under way, keyed by the token they draw
    sessions      \* payment_sessions, keyed by token

sessionVars == <<challenges, authorizing, sessions>>

-----------------------------------------------------------------------------
SessionRow == [challenge: Challenge, spent: Nat, revoked: BOOLEAN, expired: BOOLEAN]

Authorizer ==
    [pc: {"allowance", "mark", "insert"}, challenge: Challenge]

\* The type of the session tables and of the authorize requests.
SessionsTypeOK ==
    /\ challenges \in [Challenge -> {"none", "open", "used", "expired"}]
    /\ DOMAIN authorizing \subseteq Token
    /\ authorizing \in [DOMAIN authorizing -> Authorizer]
    /\ DOMAIN sessions \subseteq Token
    /\ sessions \in [DOMAIN sessions -> SessionRow]

SessionsInit ==
    /\ challenges = [c \in Challenge |-> "none"]
    /\ authorizing = [t \in {} |-> "none"]
    /\ sessions = [t \in {} |-> "none"]

May(d) == d \in Disturbance

\* f with the row r inserted under the fresh key k.
WithRow(f, k, r) == [x \in DOMAIN f \cup {k} |-> IF x = k THEN r ELSE f[x]]

Greatest0(x) == IF x >= 0 THEN x ELSE 0

-----------------------------------------------------------------------------
(* POST /session/challenge, /authorize and /revoke *)

\* The nonce is drawn at random: ON CONFLICT DO NOTHING never applies.
insertSessionChallenge(c) ==
    /\ challenges[c] = "none"
    /\ challenges' = [challenges EXCEPT ![c] = "open"]
    /\ UNCHANGED <<authorizing, sessions>>

ChallengeExpires(c) ==
    /\ challenges[c] = "open"
    /\ challenges' = [challenges EXCEPT ![c] = "expired"]
    /\ UNCHANGED <<authorizing, sessions>>

\* WHERE nonce = $1 AND used_at IS NULL AND expires_at > NOW()
IsOpen(c) == challenges[c] = "open"

Authorizing(t, pc) == t \in DOMAIN authorizing /\ authorizing[t].pc = pc

AuthorizeTo(t, pc) ==
    authorizing' = [authorizing EXCEPT
                      ![t] = [pc |-> pc, challenge |-> authorizing[t].challenge]]

\* The request is over.
AuthorizeEnds(t) ==
    authorizing' = [u \in DOMAIN authorizing \ {t} |-> authorizing[u]]

\* getSessionChallenge and the signature check; a request refused here leaves
\* no trace and is not a step.
BeginAuthorize(t, c) ==
    /\ t \notin DOMAIN authorizing \cup DOMAIN sessions
    /\ IsOpen(c)
    /\ authorizing' = WithRow(authorizing, t, [pc |-> "allowance", challenge |-> c])
    /\ UNCHANGED <<challenges, sessions>>

\* The payer's token allowance is read from the chain, on Base after an approval
\* it signed was sent.  It covers the budget, or the request is refused.
CheckAllowance(t) ==
    /\ Authorizing(t, "allowance")
    /\ AuthorizeTo(t, "mark") \/ AuthorizeEnds(t)
    /\ UNCHANGED <<challenges, sessions>>

markSessionChallengeUsed_Unchecked(t) ==
    /\ Authorizing(t, "mark")
    /\ challenges' = [challenges EXCEPT ![authorizing[t].challenge] = "used"]
    /\ AuthorizeTo(t, "insert")
    /\ UNCHANGED sessions

\* The update matches the row only while it is unused and fresh; the request
\* that finds it taken is answered 409.
markSessionChallengeUsed(t) ==
    LET c == authorizing[t].challenge
    IN  /\ Authorizing(t, "mark")
        /\ \/ /\ IsOpen(c)
              /\ challenges' = [challenges EXCEPT ![c] = "used"]
              /\ AuthorizeTo(t, "insert")
           \/ /\ ~IsOpen(c)
              /\ AuthorizeEnds(t)
              /\ UNCHANGED challenges
        /\ UNCHANGED sessions

\* The limits are copied from the challenge, which is what the payer signed.
insertPaymentSession(t) ==
    /\ Authorizing(t, "insert")
    /\ sessions' = WithRow(sessions, t,
                           [challenge |-> authorizing[t].challenge, spent |-> 0,
                            revoked |-> FALSE, expired |-> FALSE])
    /\ AuthorizeEnds(t)
    /\ UNCHANGED challenges

\* A statement throws (errorHandler answers the request) or the process dies; a
\* challenge marked used stays used.
AuthorizeAborts(t) ==
    /\ May("db") \/ May("crash")
    /\ t \in DOMAIN authorizing
    /\ AuthorizeEnds(t)
    /\ UNCHANGED <<challenges, sessions>>

revokePaymentSession(t) ==
    /\ t \in DOMAIN sessions /\ ~sessions[t].revoked
    /\ sessions' = [sessions EXCEPT ![t].revoked = TRUE]
    /\ UNCHANGED <<challenges, authorizing>>

\* Time passes the expires_at of a session.  Nothing reads that of a revoked one.
SessionExpires(t) ==
    /\ t \in DOMAIN sessions /\ ~sessions[t].expired /\ ~sessions[t].revoked
    /\ sessions' = [sessions EXCEPT ![t].expired = TRUE]
    /\ UNCHANGED <<challenges, authorizing>>

-----------------------------------------------------------------------------
(* Drawing on a session *)

MayDraw_ExpiryOnly(t, amount) ==
    /\ ~sessions[t].expired
    /\ sessions[t].spent + amount <= MaxTotal[sessions[t].challenge]

MayDraw_Uncapped(t, amount) == ~sessions[t].revoked /\ ~sessions[t].expired

\* The WHERE clause of reservePaymentSessionSpend.
MayDraw(t, amount) ==
    /\ ~sessions[t].revoked
    /\ ~sessions[t].expired
    /\ sessions[t].spent + amount <= MaxTotal[sessions[t].challenge]

WithSpent(t, spent) ==
    [sessions EXCEPT ![t] = [challenge |-> sessions[t].challenge, spent |-> spent,
                             revoked |-> sessions[t].revoked,
                             expired |-> sessions[t].expired]]

reservePaymentSessionSpend(t, amount) ==
    sessions' = WithSpent(t, sessions[t].spent + amount)

releasePaymentSessionSpend(t, amount) ==
    sessions' = WithSpent(t, Greatest0(sessions[t].spent - amount))

-----------------------------------------------------------------------------
SessionStep ==
    \/ \E c \in Challenge : insertSessionChallenge(c) \/ ChallengeExpires(c)
    \/ \E t \in Token, c \in Challenge : BeginAuthorize(t, c)
    \/ \E t \in Token :
          \/ CheckAllowance(t)
          \/ markSessionChallengeUsed(t)
          \/ insertPaymentSession(t)
          \/ AuthorizeAborts(t)
          \/ revokePaymentSession(t)
          \/ SessionExpires(t)

=============================================================================
