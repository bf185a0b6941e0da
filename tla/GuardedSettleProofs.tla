------------------------- MODULE GuardedSettleProofs -------------------------
(***************************************************************************)
(* Concurrent settle and authorize requests implement the payment budget,  *)
(* answer retries consistently and pay a nonce again only after losing     *)
(* sight of a transfer.                                                    *)
(***************************************************************************)
EXTENDS GuardedSettle, TLAPS

-----------------------------------------------------------------------------
(* The inductive invariant *)

\* An authorize request that marked its challenge is alone with it.
AuthorizerSound(t) ==
    LET c == authorizing[t].challenge
    IN  /\ t \notin DOMAIN sessions
        /\ authorizing[t].pc = "insert" =>
              /\ challenges[c] = "used"
              /\ \A u \in DOMAIN sessions : sessions[u].challenge # c
              /\ \A u \in DOMAIN authorizing :
                    u # t /\ authorizing[u].pc = "insert" =>
                       authorizing[u].challenge # c

SessionsInv ==
    /\ SessionsTypeOK
    /\ \A t \in DOMAIN authorizing : AuthorizerSound(t)
    /\ \A t \in DOMAIN sessions : challenges[sessions[t].challenge] = "used"
    /\ OneSessionPerChallenge

\* Where a request stands between claiming its nonce and giving it back, where
\* it has claimed all it needs, and before it claims anything.
Claimed == {"insert", "link", "pay", "confirm", "fee", "setTx", "setTxAgain",
            "innerCatch", "catch", "release"}
Owning == Claimed \cup {"budget", "refund", "unguard"}
Unclaimed == {"read", "guard", "existing", "budget", "refund"}

Unpaid == Unclaimed \cup {"insert", "link", "pay"}
Paid == {"confirm", "fee", "setTx", "setTxAgain"}
Failing == {"innerCatch", "catch", "release", "unguard"}
Undecided == {"link", "pay", "innerCatch", "catch"}

Owns(q) == req[q].nonce \in DOMAIN guards /\ guards[req[q].nonce].by = q

\* A request over, whose transfer x the nonce n is answered with.
Settled(n, x) ==
    /\ x \in DOMAIN req
    /\ req[x].pc = "done"
    /\ req[x].nonce = n
    /\ n \in DOMAIN guards
    /\ guards[n].by = x
    /\ x \in landed

\* What a request claims, wherever it stands.
ClaimSound(q) ==
    LET h == req[q]
    IN  /\ h.pc \in Owning => Owns(q) /\ guards[h.nonce].tx = NoTx
        /\ h.holds => Owns(q)
        /\ h.pc \in Claimed => h.holds
        /\ h.pc \in Unclaimed => ~h.holds
        /\ h.pc = "unguard" => h.scheme # "plain" /\ (InSession(q) => ~h.holds)
        /\ h.pc \in {"budget", "refund", "release"} => InSession(q)
        /\ h.pc = "innerCatch" => h.scheme = "authorized"
        /\ /\ InSession(q)
           /\ h.pc \in Owning \cup {"guard", "existing"} \/ h.holds \/ q \in landed
           => h.token \in DOMAIN sessions

\* What has become of its transfer, and what secures it.
MoneySound(q) ==
    LET h == req[q]
    IN  /\ h.pc \in Unpaid => q \notin landed \cup pending \cup lost
        /\ h.pc \in Paid => q \in landed /\ q \notin pending \cup lost
        /\ h.pc \in Failing => q \notin (landed \cup pending) \ lost
        /\ q \in landed \cup pending /\ (q \notin lost \/ h.scheme = "plain") => h.holds
        /\ q \in pending =>
              /\ q \in lost \/ h.pc = "crashed"
              /\ InSession(q) => h.token \in DOMAIN sessions
        /\ h.reply = "ok" => h.pc = "done" /\ Settled(h.nonce, h.tx)

\* What a request that failed leaves behind.
FailureSound(q) ==
    LET h == req[q]
    IN  /\ h.pc \in Unclaimed \cup {"insert"} => q \notin DOMAIN settlements
        /\ h.pc \in Undecided /\ q \in DOMAIN settlements => settlements[q] = "pending"
        /\ h.pc \in {"release", "unguard"} /\ q \in DOMAIN settlements =>
              settlements[q] = "failed"
        /\ h.pc = "done" /\ h.reply # "ok" =>
              /\ q \notin (landed \cup pending) \ lost
              /\ q \in DOMAIN settlements =>
                    settlements[q] = "failed" \/ (settlements[q] = "pending" /\ h.reply = "error")
              /\ InSession(q) /\ h.holds => h.reply = "error"
              /\ h.holds => guards[h.nonce].tx = NoTx

SoundAt(q) == ClaimSound(q) /\ MoneySound(q) /\ FailureSound(q)

\* The row of a nonce belongs to the request that inserted it.
GuardSound(n) ==
    /\ guards[n].by # NoTx => guards[n].by \in DOMAIN req /\ req[guards[n].by].nonce = n
    /\ guards[n].tx # NoTx => Settled(n, guards[n].tx)

GuardedInv ==
    /\ GuardedTypeOK
    /\ SessionsInv
    /\ landed \cup pending \cup lost \cup DOMAIN settlements \subseteq DOMAIN req
    /\ \A n \in DOMAIN guards : GuardSound(n)
    /\ \A q \in DOMAIN req : SoundAt(q)

\* Sessions are never deleted and keep the challenge they were opened under.
SessionsKept ==
    \A t \in DOMAIN sessions : /\ t \in DOMAIN sessions'
                               /\ sessions'[t].challenge = sessions[t].challenge

-----------------------------------------------------------------------------
(* Payment sessions, one lemma per action *)

\* insertSessionChallenge and the expiry of a challenge touch no used one.
LEMMA ChallengeSafe ==
    ASSUME SessionsInv, NEW c \in Challenge,
           insertSessionChallenge(c) \/ ChallengeExpires(c)
    PROVE  SessionsInv' /\ SessionsKept
  <1>1. challenges[c] # "used" /\ UNCHANGED <<authorizing, sessions>>
    BY DEF insertSessionChallenge, ChallengeExpires
  <1>2. PICK v \in {"open", "expired"} : challenges' = [challenges EXCEPT ![c] = v]
    BY DEF insertSessionChallenge, ChallengeExpires
  <1>3. SessionsTypeOK'
    BY <1>1, <1>2 DEF SessionsInv, SessionsTypeOK
  <1>4. \A d \in Challenge : challenges[d] = "used" => challenges'[d] = "used"
    BY <1>1, <1>2 DEF SessionsInv, SessionsTypeOK
  <1>5. \A t \in DOMAIN authorizing : AuthorizerSound(t)'
    BY <1>1, <1>4 DEF SessionsInv, SessionsTypeOK, Authorizer, AuthorizerSound
  <1>6. \A t \in DOMAIN sessions : challenges'[sessions[t].challenge] = "used"
    BY <1>4 DEF SessionsInv, SessionsTypeOK, SessionRow
  <1>7. QED
    BY <1>1, <1>3, <1>5, <1>6 DEF SessionsInv, SessionsKept, OneSessionPerChallenge

\* BeginAuthorize: a new authorize request has marked nothing yet.
LEMMA BeginSafe ==
    ASSUME SessionsInv, NEW t \in Token, NEW c \in Challenge, BeginAuthorize(t, c)
    PROVE  SessionsInv' /\ SessionsKept
  <1> DEFINE row == [pc |-> "allowance", challenge |-> c]
  <1>1. /\ t \notin DOMAIN authorizing \cup DOMAIN sessions
        /\ UNCHANGED <<challenges, sessions>>
        /\ authorizing' = WithRow(authorizing, t, row)
    BY DEF BeginAuthorize
  <1>2. row \in Authorizer /\ row.pc # "insert"
    BY DEF Authorizer
  <1> HIDE DEF row
  <1>3. /\ DOMAIN authorizing' = DOMAIN authorizing \cup {t}
        /\ authorizing'[t] = row
        /\ \A u \in DOMAIN authorizing : authorizing'[u] = authorizing[u]
        /\ authorizing' \in [DOMAIN authorizing' -> Authorizer]
    BY <1>1, <1>2 DEF WithRow, SessionsInv, SessionsTypeOK
  <1>4. SessionsTypeOK'
    BY <1>1, <1>3 DEF SessionsInv, SessionsTypeOK
  <1>5. \A u \in DOMAIN authorizing' : AuthorizerSound(u)'
    BY <1>1, <1>2, <1>3 DEF SessionsInv, AuthorizerSound
  <1>6. QED
    BY <1>1, <1>4, <1>5 DEF SessionsInv, SessionsKept, OneSessionPerChallenge

\* An authorize request that ends, refused or aborted, takes nothing away.
LEMMA EndsSafe ==
    ASSUME SessionsInv, NEW t \in DOMAIN authorizing, AuthorizeEnds(t),
           UNCHANGED <<challenges, sessions>>
    PROVE  SessionsInv' /\ SessionsKept
  <1>1. /\ DOMAIN authorizing' = DOMAIN authorizing \ {t}
        /\ \A u \in DOMAIN authorizing' : authorizing'[u] = authorizing[u]
        /\ authorizing' \in [DOMAIN authorizing' -> Authorizer]
    BY DEF AuthorizeEnds, SessionsInv, SessionsTypeOK
  <1>2. SessionsTypeOK'
    BY <1>1 DEF SessionsInv, SessionsTypeOK
  <1>3. \A u \in DOMAIN authorizing' : AuthorizerSound(u)'
    BY <1>1 DEF SessionsInv, AuthorizerSound
  <1>4. QED
    BY <1>2, <1>3 DEF SessionsInv, SessionsKept, OneSessionPerChallenge

\* AuthorizeTo moves one authorize request.
LEMMA AuthorizeToMoves ==
    ASSUME SessionsTypeOK, NEW t \in DOMAIN authorizing,
           NEW pc \in {"allowance", "mark", "insert"}, AuthorizeTo(t, pc)
    PROVE  /\ DOMAIN authorizing' = DOMAIN authorizing
           /\ authorizing' \in [DOMAIN authorizing -> Authorizer]
           /\ authorizing'[t].pc = pc
           /\ authorizing'[t].challenge = authorizing[t].challenge
           /\ \A u \in DOMAIN authorizing : u # t => authorizing'[u] = authorizing[u]
  <1> DEFINE row == [pc |-> pc, challenge |-> authorizing[t].challenge]
  <1>1. row \in Authorizer /\ row.pc = pc /\ row.challenge = authorizing[t].challenge
    BY DEF SessionsTypeOK, Authorizer
  <1>2. authorizing' = [authorizing EXCEPT ![t] = row]
    BY DEF AuthorizeTo
  <1> HIDE DEF row
  <1>3. QED
    BY <1>1, <1>2 DEF SessionsTypeOK

\* CheckAllowance lets the request go on to the mark.
LEMMA AllowanceSafe ==
    ASSUME SessionsInv, NEW t, CheckAllowance(t)
    PROVE  SessionsInv' /\ SessionsKept
  <1>1. t \in DOMAIN authorizing /\ UNCHANGED <<challenges, sessions>>
    BY DEF CheckAllowance, Authorizing
  <1>2. CASE AuthorizeEnds(t)
    BY <1>1, <1>2, EndsSafe
  <1>3. CASE AuthorizeTo(t, "mark")
    <2>1. /\ DOMAIN authorizing' = DOMAIN authorizing
          /\ authorizing' \in [DOMAIN authorizing -> Authorizer]
          /\ authorizing'[t].pc = "mark"
          /\ \A u \in DOMAIN authorizing : u # t => authorizing'[u] = authorizing[u]
      BY <1>1, <1>3, AuthorizeToMoves DEF SessionsInv
    <2>2. SessionsTypeOK'
      BY <1>1, <2>1 DEF SessionsInv, SessionsTypeOK
    <2>3. \A u \in DOMAIN authorizing' : AuthorizerSound(u)'
      BY <1>1, <2>1 DEF SessionsInv, AuthorizerSound
    <2>4. QED
      BY <1>1, <2>2, <2>3 DEF SessionsInv, SessionsKept, OneSessionPerChallenge
  <1>4. QED
    BY <1>2, <1>3 DEF CheckAllowance

\* markSessionChallengeUsed: the request that marks a challenge is the only one.
LEMMA MarkSafe ==
    ASSUME SessionsInv, NEW t, markSessionChallengeUsed(t)
    PROVE  SessionsInv' /\ SessionsKept
  <1> DEFINE c == authorizing[t].challenge
  <1>1. t \in DOMAIN authorizing /\ UNCHANGED sessions
    BY DEF markSessionChallengeUsed, Authorizing
  <1>2. CASE AuthorizeEnds(t) /\ UNCHANGED challenges
    BY <1>1, <1>2, EndsSafe
  <1>3. CASE /\ IsOpen(c)
             /\ challenges' = [challenges EXCEPT ![c] = "used"]
             /\ AuthorizeTo(t, "insert")
    <2>1. /\ DOMAIN authorizing' = DOMAIN authorizing
          /\ authorizing' \in [DOMAIN authorizing -> Authorizer]
          /\ authorizing'[t].pc = "insert"
          /\ authorizing'[t].challenge = c
          /\ \A u \in DOMAIN authorizing : u # t => authorizing'[u] = authorizing[u]
      BY <1>1, <1>3, AuthorizeToMoves DEF SessionsInv
    <2>2. c \in Challenge
      BY <1>1 DEF SessionsInv, SessionsTypeOK, Authorizer
    <2>3. /\ challenges'[c] = "used"
          /\ challenges[c] # "used"
          /\ \A d \in Challenge : challenges[d] = "used" => challenges'[d] = "used"
      BY <1>3, <2>2 DEF SessionsInv, SessionsTypeOK, IsOpen
    <2> HIDE DEF c
    <2>4. SessionsTypeOK'
      BY <1>1, <1>3, <2>1, <2>2 DEF SessionsInv, SessionsTypeOK
    <2>5. \A u \in DOMAIN sessions : sessions[u].challenge # c
      BY <2>3 DEF SessionsInv
    <2>6. \A u \in DOMAIN authorizing : authorizing[u].pc = "insert" =>
                                          authorizing[u].challenge # c
      BY <2>3 DEF SessionsInv, AuthorizerSound
    <2>7. \A u \in DOMAIN authorizing : authorizing[u].challenge \in Challenge
      BY DEF SessionsInv, SessionsTypeOK, Authorizer
    <2>8. \A u \in DOMAIN authorizing' : AuthorizerSound(u)'
      BY <1>1, <2>1, <2>3, <2>5, <2>6, <2>7 DEF SessionsInv, AuthorizerSound
    <2>9. \A u \in DOMAIN sessions : challenges'[sessions[u].challenge] = "used"
      BY <2>3 DEF SessionsInv, SessionsTypeOK, SessionRow
    <2>10. QED
      BY <1>1, <2>4, <2>8, <2>9 DEF SessionsInv, SessionsKept, OneSessionPerChallenge
  <1>4. QED
    BY <1>2, <1>3 DEF markSessionChallengeUsed

\* insertPaymentSession: the session is the only one of its challenge.
LEMMA InsertSessionSafe ==
    ASSUME SessionsInv, NEW t, insertPaymentSession(t)
    PROVE  /\ SessionsInv' /\ SessionsKept
           /\ t \notin DOMAIN sessions
           /\ DOMAIN sessions' = DOMAIN sessions \cup {t}
           /\ \A u \in DOMAIN sessions : sessions'[u] = sessions[u]
           /\ sessions'[t] = [challenge |-> authorizing[t].challenge, spent |-> 0,
                              revoked |-> FALSE, expired |-> FALSE]
           /\ authorizing[t].challenge \in Challenge
           /\ \A u \in DOMAIN sessions : sessions[u].challenge # authorizing[t].challenge
  <1> DEFINE c == authorizing[t].challenge
             row == [challenge |-> c, spent |-> 0, revoked |-> FALSE, expired |-> FALSE]
  <1>1. /\ t \in DOMAIN authorizing
        /\ authorizing[t].pc = "insert"
        /\ UNCHANGED challenges
        /\ AuthorizeEnds(t)
        /\ sessions' = WithRow(sessions, t, row)
    BY DEF insertPaymentSession, Authorizing
  <1>2. /\ t \notin DOMAIN sessions
        /\ challenges[c] = "used"
        /\ \A u \in DOMAIN sessions : sessions[u].challenge # c
        /\ \A u \in DOMAIN authorizing :
              u # t /\ authorizing[u].pc = "insert" => authorizing[u].challenge # c
    BY <1>1 DEF SessionsInv, AuthorizerSound
  <1>3. t \in Token /\ c \in Challenge
    BY <1>1 DEF SessionsInv, SessionsTypeOK, Authorizer
  <1>4. row \in SessionRow /\ row.challenge = c
    BY <1>3 DEF SessionRow
  <1>5. /\ DOMAIN authorizing' = DOMAIN authorizing \ {t}
        /\ \A u \in DOMAIN authorizing' : authorizing'[u] = authorizing[u]
        /\ authorizing' \in [DOMAIN authorizing' -> Authorizer]
    BY <1>1 DEF AuthorizeEnds, SessionsInv, SessionsTypeOK
  <1>6. sessions'[t] = row
    BY <1>1 DEF WithRow
  <1> HIDE DEF row, c
  <1>7. /\ DOMAIN sessions' = DOMAIN sessions \cup {t}
        /\ \A u \in DOMAIN sessions : sessions'[u] = sessions[u]
        /\ sessions' \in [DOMAIN sessions' -> SessionRow]
    BY <1>1, <1>2, <1>4 DEF WithRow, SessionsInv, SessionsTypeOK
  <1>8. SessionsTypeOK'
    BY <1>1, <1>3, <1>5, <1>7 DEF SessionsInv, SessionsTypeOK
  <1>9. \A u \in DOMAIN authorizing' : AuthorizerSound(u)'
    BY <1>1, <1>2, <1>4, <1>5, <1>6, <1>7 DEF SessionsInv, AuthorizerSound
  <1>10. \A u \in DOMAIN sessions' : challenges'[sessions'[u].challenge] = "used"
    BY <1>1, <1>2, <1>4, <1>6, <1>7 DEF SessionsInv
  <1>11. OneSessionPerChallenge'
    BY <1>2, <1>4, <1>6, <1>7 DEF SessionsInv, OneSessionPerChallenge
  <1>12. SessionsInv' /\ SessionsKept
    BY <1>7, <1>8, <1>9, <1>10, <1>11 DEF SessionsInv, SessionsKept
  <1>13. QED
    BY <1>2, <1>3, <1>6, <1>7, <1>12 DEF row, c

\* A session row that keeps its challenge disturbs nothing else.
LEMMA RowChangeSafe ==
    ASSUME SessionsInv, NEW t \in DOMAIN sessions, NEW row \in SessionRow,
           row.challenge = sessions[t].challenge,
           sessions' = [sessions EXCEPT ![t] = row],
           UNCHANGED <<challenges, authorizing>>
    PROVE  /\ SessionsInv' /\ SessionsKept
           /\ DOMAIN sessions' = DOMAIN sessions
           /\ sessions'[t] = row
           /\ \A u \in DOMAIN sessions : u # t => sessions'[u] = sessions[u]
  <1>1. /\ DOMAIN sessions' = DOMAIN sessions
        /\ sessions'[t] = row
        /\ sessions' \in [DOMAIN sessions' -> SessionRow]
        /\ \A u \in DOMAIN sessions : u # t => sessions'[u] = sessions[u]
    BY DEF SessionsInv, SessionsTypeOK
  <1>2. \A u \in DOMAIN sessions : sessions'[u].challenge = sessions[u].challenge
    BY <1>1
  <1>3. SessionsTypeOK'
    BY <1>1 DEF SessionsInv, SessionsTypeOK
  <1>4. \A u \in DOMAIN authorizing : AuthorizerSound(u)'
    BY <1>1, <1>2 DEF SessionsInv, AuthorizerSound
  <1>5. QED
    BY <1>1, <1>2, <1>3, <1>4 DEF SessionsInv, SessionsKept, OneSessionPerChallenge

\* revokePaymentSession and the expiry of a session close it and keep the rest.
LEMMA CloseSafe ==
    ASSUME SessionsInv, NEW t, revokePaymentSession(t) \/ SessionExpires(t)
    PROVE  /\ SessionsInv' /\ SessionsKept
           /\ t \in DOMAIN sessions
           /\ DOMAIN sessions' = DOMAIN sessions
           /\ \A u \in DOMAIN sessions : u # t => sessions'[u] = sessions[u]
           /\ sessions'[t].challenge = sessions[t].challenge
           /\ sessions'[t].spent = sessions[t].spent
           /\ sessions'[t].revoked \/ sessions'[t].expired
  <1>1. t \in DOMAIN sessions /\ UNCHANGED <<challenges, authorizing>>
    BY DEF revokePaymentSession, SessionExpires
  <1>2. sessions[t] \in SessionRow
    BY <1>1 DEF SessionsInv, SessionsTypeOK
  <1>3. PICK row \in SessionRow : /\ sessions' = [sessions EXCEPT ![t] = row]
                                  /\ row.challenge = sessions[t].challenge
                                  /\ row.spent = sessions[t].spent
                                  /\ row.revoked \/ row.expired
    <2>1. CASE revokePaymentSession(t)
      <3> DEFINE r == [sessions[t] EXCEPT !.revoked = TRUE]
      <3>1. /\ r \in SessionRow
            /\ r.challenge = sessions[t].challenge
            /\ r.spent = sessions[t].spent
            /\ r.revoked \/ r.expired
        BY <1>2 DEF SessionRow
      <3>2. sessions' = [sessions EXCEPT ![t] = r]
        BY <2>1 DEF revokePaymentSession
      <3>3. QED
        BY <3>1, <3>2
    <2>2. CASE SessionExpires(t)
      <3> DEFINE r == [sessions[t] EXCEPT !.expired = TRUE]
      <3>1. /\ r \in SessionRow
            /\ r.challenge = sessions[t].challenge
            /\ r.spent = sessions[t].spent
            /\ r.revoked \/ r.expired
        BY <1>2 DEF SessionRow
      <3>2. sessions' = [sessions EXCEPT ![t] = r]
        BY <2>2 DEF SessionExpires
      <3>3. QED
        BY <3>1, <3>2
    <2>3. QED
      BY <2>1, <2>2
  <1>4. QED
    BY <1>1, <1>3, RowChangeSafe

\* A session drawn on or given back to keeps its challenge and stays as open or
\* closed as it was.
LEMMA SpentSafe ==
    ASSUME SessionsInv, NEW t \in DOMAIN sessions, NEW x \in Nat,
           sessions' = WithSpent(t, x), UNCHANGED <<challenges, authorizing>>
    PROVE  /\ SessionsInv' /\ SessionsKept
           /\ DOMAIN sessions' = DOMAIN sessions
           /\ \A u \in DOMAIN sessions : u # t => sessions'[u] = sessions[u]
           /\ sessions'[t].challenge = sessions[t].challenge
           /\ sessions'[t].spent = x
           /\ sessions'[t].revoked = sessions[t].revoked
           /\ sessions'[t].expired = sessions[t].expired
  <1> DEFINE row == [challenge |-> sessions[t].challenge, spent |-> x,
                     revoked |-> sessions[t].revoked, expired |-> sessions[t].expired]
  <1>1. /\ row \in SessionRow
        /\ row.challenge = sessions[t].challenge
        /\ row.spent = x
        /\ row.revoked = sessions[t].revoked
        /\ row.expired = sessions[t].expired
    BY DEF SessionsInv, SessionsTypeOK, SessionRow
  <1>2. sessions' = [sessions EXCEPT ![t] = row]
    BY DEF WithSpent
  <1> HIDE DEF row
  <1>3. QED
    BY <1>1, <1>2, RowChangeSafe

\* No step of the session routes breaks the sessions' invariant.
LEMMA SessionStepSafe ==
    ASSUME SessionsInv, SessionStep
    PROVE  SessionsInv' /\ SessionsKept
  <1>1. ASSUME NEW c \in Challenge, insertSessionChallenge(c) \/ ChallengeExpires(c)
        PROVE  SessionsInv' /\ SessionsKept
    BY <1>1, ChallengeSafe
  <1>2. ASSUME NEW t \in Token, NEW c \in Challenge, BeginAuthorize(t, c)
        PROVE  SessionsInv' /\ SessionsKept
    BY <1>2, BeginSafe
  <1>3. ASSUME NEW t \in Token, AuthorizeAborts(t)
        PROVE  SessionsInv' /\ SessionsKept
    BY <1>3, EndsSafe DEF AuthorizeAborts
  <1>4. ASSUME NEW t \in Token, revokePaymentSession(t) \/ SessionExpires(t)
        PROVE  SessionsInv' /\ SessionsKept
    BY <1>4, CloseSafe
  <1>5. QED
    BY <1>1, <1>2, <1>3, <1>4, AllowanceSafe, MarkSafe, InsertSessionSafe DEF SessionStep

\* Steps of the settle handlers that leave the sessions alone.
LEMMA SessionsUnchanged ==
    ASSUME SessionsInv, UNCHANGED sessionVars
    PROVE  SessionsInv' /\ SessionsKept
  BY DEF SessionsInv, SessionsTypeOK, AuthorizerSound, sessionVars, SessionsKept,
         OneSessionPerChallenge

-----------------------------------------------------------------------------
(* What a step of one request leaves alone *)

\* A step changes no guard row that another request inserted, and the rows it
\* changes or inserts are those of q's own nonce.
GuardsMoved(q) ==
    /\ \A n \in DOMAIN guards :
          guards[n].by # q => n \in DOMAIN guards' /\ guards'[n] = guards[n]
    /\ \A n \in DOMAIN guards' :
          \/ n \in DOMAIN guards /\ guards'[n] = guards[n]
          \/ /\ n = req[q].nonce
             /\ guards'[n].by = q
             /\ guards'[n].tx # NoTx => Settled(n, guards[n].tx)'

\* The transfer and the settlement row of o are as before.
Untouched(o) ==
    /\ (o \in landed') = (o \in landed)
    /\ (o \in pending') = (o \in pending)
    /\ (o \in lost') = (o \in lost)
    /\ (o \in DOMAIN settlements') = (o \in DOMAIN settlements)
    /\ o \in DOMAIN settlements => settlements'[o] = settlements[o]

\* A request that is not moved stays sound.
LEMMA StaysSound ==
    ASSUME NEW o \in DOMAIN req, SoundAt(o), req'[o] = req[o], SessionsKept, Untouched(o),
           \A n, x : Settled(n, x) => Settled(n, x)',
           \A n \in DOMAIN guards :
              guards[n].by = o => n \in DOMAIN guards' /\ guards'[n] = guards[n]
    PROVE  SoundAt(o)'
  <1>1. Owns(o) => Owns(o)' /\ guards'[req[o].nonce] = guards[req[o].nonce]
    BY DEF Owns
  <1>2. InSession(o)' = InSession(o)
    BY DEF InSession
  <1>3. req[o].token \in DOMAIN sessions => req[o].token \in DOMAIN sessions'
    BY DEF SessionsKept
  <1>4. ClaimSound(o)'
    BY <1>1, <1>2, <1>3 DEF SoundAt, ClaimSound, Untouched
  <1>5. MoneySound(o)'
    BY <1>2, <1>3 DEF SoundAt, MoneySound, Untouched
  <1>6. FailureSound(o)'
    BY <1>1, <1>2 DEF SoundAt, FailureSound, ClaimSound, Untouched
  <1>7. QED
    BY <1>4, <1>5, <1>6 DEF SoundAt

\* The invariant after a step in which only q moves, to where its facts hold.
LEMMA MoveSafe ==
    ASSUME GuardedInv, NEW q \in DOMAIN req, req[q].pc # "done",
           GuardedTypeOK', SessionsInv', SessionsKept,
           DOMAIN req' = DOMAIN req,
           \A o \in DOMAIN req : o # q => req'[o] = req[o] /\ Untouched(o),
           req'[q].nonce = req[q].nonce,
           landed \subseteq landed', landed' \cup pending' \cup lost' \cup DOMAIN settlements' \subseteq DOMAIN req,
           GuardsMoved(q), SoundAt(q)'
    PROVE  GuardedInv'
  <1>1. \A n, x : Settled(n, x) => Settled(n, x)'
    <2> SUFFICES ASSUME NEW n, NEW x, Settled(n, x)
                 PROVE  Settled(n, x)'
      OBVIOUS
    <2>1. x # q /\ x \in DOMAIN req /\ n \in DOMAIN guards /\ guards[n].by = x
      BY DEF Settled
    <2>2. req'[x] = req[x] /\ n \in DOMAIN guards' /\ guards'[n] = guards[n]
      BY <2>1 DEF GuardsMoved
    <2>3. QED
      BY <2>1, <2>2 DEF Settled
  <1>2. \A o \in DOMAIN req' : SoundAt(o)'
    <2> SUFFICES ASSUME NEW o \in DOMAIN req, o # q
                 PROVE  SoundAt(o)'
      OBVIOUS
    <2>1. \A n \in DOMAIN guards :
             guards[n].by = o => n \in DOMAIN guards' /\ guards'[n] = guards[n]
      BY DEF GuardsMoved
    <2>2. SoundAt(o)
      BY DEF GuardedInv
    <2>3. QED
      BY <1>1, <2>1, <2>2, StaysSound
  <1>3. \A n \in DOMAIN guards' : GuardSound(n)'
    <2> SUFFICES ASSUME NEW n \in DOMAIN guards'
                 PROVE  GuardSound(n)'
      OBVIOUS
    <2>1. CASE n \in DOMAIN guards /\ guards'[n] = guards[n]
      <3>1. GuardSound(n)
        BY <2>1 DEF GuardedInv
      <3>2. \A x \in DOMAIN req : req'[x].nonce = req[x].nonce
        OBVIOUS
      <3>3. QED
        BY <1>1, <2>1, <3>1, <3>2 DEF GuardSound
    <2>2. CASE /\ n = req[q].nonce
               /\ guards'[n].by = q
               /\ guards'[n].tx # NoTx => Settled(n, guards[n].tx)'
      BY <2>2 DEF GuardSound
    <2>3. QED
      BY <2>1, <2>2 DEF GuardsMoved
  <1>4. QED
    BY <1>2, <1>3 DEF GuardedInv

\* Become moves one request and keeps what it asked for.
LEMMA BecomeMoves ==
    ASSUME GuardedTypeOK, NEW q \in DOMAIN req, NEW pc \in PC, NEW holds \in BOOLEAN,
           NEW tx \in Request \cup {NoTx}, NEW reply \in Reply,
           Become(q, pc, holds, tx, reply)
    PROVE  /\ DOMAIN req' = DOMAIN req
           /\ req' \in [DOMAIN req' -> Handler]
           /\ \A o \in DOMAIN req : o # q => req'[o] = req[o]
           /\ req'[q].pc = pc /\ req'[q].holds = holds
           /\ req'[q].tx = tx /\ req'[q].reply = reply
           /\ req'[q].scheme = req[q].scheme /\ req'[q].nonce = req[q].nonce
           /\ req'[q].token = req[q].token /\ req'[q].amount = req[q].amount
  <1> DEFINE row == [pc |-> pc, scheme |-> req[q].scheme, nonce |-> req[q].nonce,
                     token |-> req[q].token, amount |-> req[q].amount,
                     holds |-> holds, tx |-> tx, reply |-> reply]
  <1>1. req[q] \in Handler
    BY DEF GuardedTypeOK
  <1>2. row \in Handler
    BY <1>1 DEF Handler
  <1>3. /\ row.pc = pc /\ row.holds = holds /\ row.tx = tx /\ row.reply = reply
        /\ row.scheme = req[q].scheme /\ row.nonce = req[q].nonce
        /\ row.token = req[q].token /\ row.amount = req[q].amount
    OBVIOUS
  <1>4. req' = [req EXCEPT ![q] = row]
    BY DEF Become
  <1>5. req \in [DOMAIN req -> Handler]
    BY DEF GuardedTypeOK
  <1> HIDE DEF row
  <1>6. QED
    BY <1>2, <1>3, <1>4, <1>5

\* What every action relies on.
LEMMA InvFacts ==
    ASSUME GuardedInv
    PROVE  /\ GuardedTypeOK /\ SessionsInv
           /\ landed \cup pending \cup lost \cup DOMAIN settlements \subseteq DOMAIN req
           /\ \A q \in DOMAIN req :
                 /\ q \in Request
                 /\ req[q].nonce \in Nonce /\ req[q].amount \in Amount
                 /\ req[q].holds \in BOOLEAN
                 /\ ClaimSound(q) /\ MoneySound(q) /\ FailureSound(q)
           /\ \A n \in DOMAIN guards : GuardSound(n) /\ guards[n] \in Guard
  BY DEF GuardedInv, SoundAt, GuardedTypeOK, Handler

\* The fields of a handler that Become moved.
Moved(q, pc, holds, tx, reply) ==
    /\ DOMAIN req' = DOMAIN req
    /\ req' \in [DOMAIN req' -> Handler]
    /\ \A o \in DOMAIN req : o # q => req'[o] = req[o]
    /\ req'[q].pc = pc /\ req'[q].holds = holds
    /\ req'[q].tx = tx /\ req'[q].reply = reply
    /\ req'[q].scheme = req[q].scheme /\ req'[q].nonce = req[q].nonce
    /\ req'[q].token = req[q].token /\ req'[q].amount = req[q].amount
    /\ InSession(q)' = InSession(q)

\* Goto, Answer and Throws are such moves.
LEMMA GotoMoves ==
    ASSUME GuardedTypeOK, NEW q \in DOMAIN req
    PROVE  /\ \A pc \in PC, holds \in BOOLEAN, tx \in Request \cup {NoTx}, reply \in Reply :
                 Become(q, pc, holds, tx, reply) => Moved(q, pc, holds, tx, reply)
           /\ \A pc \in PC : Goto(q, pc) => Moved(q, pc, req[q].holds, NoTx, "none")
           /\ \A reply \in Reply, tx \in Request \cup {NoTx} :
                 Answer(q, reply, tx) => Moved(q, "done", req[q].holds, tx, reply)
           /\ Throws(q) => Moved(q, "done", req[q].holds, NoTx, "error")
  <1>1. req[q].holds \in BOOLEAN
    BY DEF GuardedTypeOK, Handler
  <1>2. "none" \in Reply /\ "error" \in Reply /\ "done" \in PC
    BY DEF Reply, PC
  <1>3. \A pc \in PC, holds \in BOOLEAN, tx \in Request \cup {NoTx}, reply \in Reply :
           Become(q, pc, holds, tx, reply) => Moved(q, pc, holds, tx, reply)
    BY BecomeMoves DEF Moved, InSession
  <1>4. \A pc \in PC : Goto(q, pc) => Moved(q, pc, req[q].holds, NoTx, "none")
    BY <1>1, <1>2, <1>3 DEF Goto
  <1>5. \A reply \in Reply, tx \in Request \cup {NoTx} :
           Answer(q, reply, tx) => Moved(q, "done", req[q].holds, tx, reply)
    BY <1>1, <1>2, <1>3 DEF Answer
  <1>6. QED
    BY <1>2, <1>3, <1>4, <1>5 DEF Throws

\* A handler's step that keeps the other rows keeps the invariant, if the handler is
\* sound where it arrives.
LEMMA StepSafe ==
    ASSUME GuardedInv, NEW q \in DOMAIN req, req[q].pc # "done",
           NEW pc, NEW holds, NEW tx, NEW reply, Moved(q, pc, holds, tx, reply),
           SessionsInv', SessionsKept,
           DOMAIN guards' \subseteq Nonce, guards' \in [DOMAIN guards' -> Guard],
           GuardsMoved(q),
           DOMAIN settlements' \subseteq Request,
           settlements' \in [DOMAIN settlements' -> {"pending", "confirmed", "failed"}],
           fees' \subseteq Request,
           landed \subseteq landed', landed' \cup pending' \cup lost' \cup DOMAIN settlements' \subseteq DOMAIN req,
           \A o \in DOMAIN req : o # q => Untouched(o),
           SoundAt(q)'
    PROVE  GuardedInv'
  <1>1. GuardedTypeOK'
    BY DEF Moved, GuardedInv, GuardedTypeOK, SessionsInv
  <1>2. QED
    BY <1>1, MoveSafe DEF Moved

\* A step that moves no guard row.
LEMMA GuardsStay ==
    ASSUME NEW q, UNCHANGED guards
    PROVE  GuardsMoved(q)
  BY DEF GuardsMoved

\* A step that changes only where one request stands.
LEMMA QuietStepSafe ==
    ASSUME GuardedInv, NEW q \in DOMAIN req, req[q].pc # "done",
           NEW pc, NEW holds, NEW tx, NEW reply, Moved(q, pc, holds, tx, reply),
           UNCHANGED <<sessionVars, guards, settlements, fees, pending, landed, lost>>,
           SoundAt(q)'
    PROVE  GuardedInv'
  <1>1. GuardsMoved(q) /\ SessionsInv' /\ SessionsKept
    BY GuardsStay, SessionsUnchanged DEF GuardedInv
  <1>2. \A o \in DOMAIN req : Untouched(o)
    BY DEF Untouched
  <1>3. QED
    BY <1>1, <1>2, StepSafe DEF GuardedInv, GuardedTypeOK

\* A crash leaves all that was claimed where it is.
LEMMA CrashSound ==
    ASSUME GuardedInv, NEW q \in DOMAIN req, req[q].pc \notin {"done", "crashed"},
           Moved(q, "crashed", req[q].holds, NoTx, "none"), UNCHANGED <<guards, landed, lost>>,
           SessionsKept, pending' = pending \/ (pending' = pending \cup {q} /\ req[q].pc = "pay")
    PROVE  SoundAt(q)'
  <1>1. ClaimSound(q) /\ MoneySound(q)
    BY DEF GuardedInv, SoundAt
  <1>2. ClaimSound(q)'
    BY <1>1 DEF Moved, ClaimSound, Owns, Owning, Claimed, Unclaimed, SessionsKept
  <1>3. MoneySound(q)'
    BY <1>1 DEF Moved, ClaimSound, MoneySound, Unpaid, Unclaimed, Paid, Failing, Owning,
                Claimed, SessionsKept
  <1>4. FailureSound(q)'
    BY DEF Moved, FailureSound, Unclaimed, Undecided
  <1>5. QED
    BY <1>2, <1>3, <1>4 DEF SoundAt

\* A request whose handler throws is answered with all it claimed still its own: the
\* nonce of what it holds is not settled, so it is not answered for by another.
LEMMA ThrowsSafe ==
    ASSUME GuardedInv, NEW q \in DOMAIN req,
           req[q].pc \in {"read", "guard", "budget", "insert", "catch", "release"}, Throws(q),
           UNCHANGED <<sessionVars, guards, settlements, fees, pending, landed, lost>>
    PROVE  GuardedInv'
  <1>1. Moved(q, "done", req[q].holds, NoTx, "error")
    BY GotoMoves DEF GuardedInv
  <1>2. ClaimSound(q) /\ MoneySound(q) /\ FailureSound(q)
    BY DEF GuardedInv, SoundAt
  <1>3. q \notin (landed \cup pending) \ lost
    BY <1>2 DEF MoneySound, Unpaid, Unclaimed, Failing
  <1>4. req[q].holds => guards[req[q].nonce].tx = NoTx
    BY <1>2 DEF ClaimSound, Owning, Claimed, Unclaimed
  <1>5. ClaimSound(q)'
    BY <1>1, <1>2 DEF Moved, ClaimSound, Owns, Owning, Claimed, Unclaimed, sessionVars
  <1>6. MoneySound(q)'
    BY <1>1, <1>2, <1>3 DEF Moved, MoneySound, Unpaid, Unclaimed, Paid, Failing, sessionVars
  <1>7. FailureSound(q)'
    BY <1>1, <1>2, <1>3, <1>4 DEF Moved, FailureSound, Unclaimed, Undecided
  <1>8. SoundAt(q)'
    BY <1>5, <1>6, <1>7 DEF SoundAt
  <1>9. QED
    BY <1>1, <1>8, QuietStepSafe

-----------------------------------------------------------------------------
(* One lemma per action of the handlers *)

\* A request answered without having claimed anything leaves nothing behind.
LEMMA RefusalSound ==
    ASSUME GuardedInv, NEW q \in DOMAIN req, req[q].pc \in {"read", "guard", "existing"},
           NEW reply, reply # "ok", NEW tx, Moved(q, "done", req[q].holds, tx, reply),
           UNCHANGED <<sessionVars, guards, settlements, fees, pending, landed, lost>>
    PROVE  SoundAt(q)'
  <1>1. ClaimSound(q) /\ MoneySound(q) /\ FailureSound(q)
    BY DEF GuardedInv, SoundAt
  <1>2. ClaimSound(q)'
    BY <1>1 DEF Moved, ClaimSound, Owning, Claimed, Unclaimed, MoneySound, Unpaid
  <1>3. MoneySound(q)'
    BY <1>1 DEF Moved, MoneySound, Unpaid, Unclaimed, Paid, Failing
  <1>4. FailureSound(q)'
    BY <1>1 DEF Moved, FailureSound, ClaimSound, MoneySound, Unpaid, Unclaimed, Undecided
  <1>5. QED
    BY <1>2, <1>3, <1>4 DEF SoundAt

\* A request that has claimed nothing moves on to the guard.
LEMMA AdvanceSound ==
    ASSUME GuardedInv, NEW q \in DOMAIN req, NEW pc \in {"guard", "existing"},
           req[q].pc \in {"read", "guard"},
           InSession(q) => req[q].token \in DOMAIN sessions,
           Moved(q, pc, req[q].holds, NoTx, "none"),
           UNCHANGED <<sessionVars, guards, settlements, fees, pending, landed, lost>>
    PROVE  SoundAt(q)'
  <1>1. ClaimSound(q) /\ MoneySound(q) /\ FailureSound(q)
    BY DEF GuardedInv, SoundAt
  <1>2. ClaimSound(q)'
    BY <1>1 DEF Moved, ClaimSound, Owning, Claimed, Unclaimed, sessionVars
  <1>3. MoneySound(q)'
    BY <1>1 DEF Moved, MoneySound, Unpaid, Unclaimed, Paid, Failing
  <1>4. FailureSound(q)'
    BY <1>1 DEF Moved, FailureSound, Unclaimed, Undecided
  <1>5. QED
    BY <1>2, <1>3, <1>4 DEF SoundAt

\* ReadSession only reads.
LEMMA ReadSafe ==
    ASSUME GuardedInv, NEW q, ReadSession(q)
    PROVE  GuardedInv'
  <1>1. q \in DOMAIN req /\ req[q].pc = "read" /\ GuardedTypeOK
    BY DEF ReadSession, At, GuardedInv
  <1>2. UNCHANGED <<sessionVars, guards, settlements, fees, pending, landed, lost>>
    BY DEF ReadSession
  <1>4. "guard" \in PC /\ "refused" \in Reply /\ NoTx \in Request \cup {NoTx}
    BY DEF PC, Reply
  <1>5. CASE SessionAllows(req[q].token, req[q].amount) /\ Goto(q, "guard")
    <2>1. Moved(q, "guard", req[q].holds, NoTx, "none")
      BY <1>1, <1>4, <1>5, GotoMoves
    <2>2. SoundAt(q)'
      BY <1>1, <1>2, <1>5, <2>1, AdvanceSound DEF SessionAllows
    <2>3. QED
      BY <1>1, <1>2, <2>1, <2>2, QuietStepSafe
  <1>6. CASE Answer(q, "refused", NoTx)
    <2>1. Moved(q, "done", req[q].holds, NoTx, "refused")
      BY <1>1, <1>4, <1>6, GotoMoves
    <2>2. SoundAt(q)'
      BY <1>1, <1>2, <2>1, RefusalSound
    <2>3. QED
      BY <1>1, <1>2, <2>1, <2>2, QuietStepSafe
  <1>7. CASE Throws(q)
    BY <1>1, <1>2, <1>7, ThrowsSafe
  <1>8. QED
    BY <1>5, <1>6, <1>7 DEF ReadSession

\* A fresh guard row moves no other.
LEMMA InsertGuard ==
    ASSUME GuardedTypeOK, NEW n \in Nonce, n \notin DOMAIN guards, NEW q \in Request \cup {NoTx},
           guards' = WithRow(guards, n, [by |-> q, tx |-> NoTx, settlement |-> NoTx])
    PROVE  /\ DOMAIN guards' = DOMAIN guards \cup {n}
           /\ guards' \in [DOMAIN guards' -> Guard]
           /\ guards'[n].by = q /\ guards'[n].tx = NoTx
           /\ \A m \in DOMAIN guards : guards'[m] = guards[m]
  <1> DEFINE row == [by |-> q, tx |-> NoTx, settlement |-> NoTx]
  <1>1. row \in Guard /\ row.by = q /\ row.tx = NoTx
    BY DEF Guard
  <1>2. guards' = WithRow(guards, n, row)
    OBVIOUS
  <1> HIDE DEF row
  <1>3. QED
    BY <1>1, <1>2 DEF WithRow, GuardedTypeOK

\* ReserveNonce: the request that inserts the row owns it.
LEMMA ReserveNonceSafe ==
    ASSUME GuardedInv, NEW q, ReserveNonce(q)
    PROVE  GuardedInv'
  <1> DEFINE n == req[q].nonce
             pc == IF InSession(q) THEN "budget" ELSE "insert"
  <1>1. /\ q \in DOMAIN req /\ req[q].pc = "guard" /\ GuardedTypeOK
        /\ UNCHANGED <<sessionVars, settlements, fees, pending, landed, lost>>
    BY DEF ReserveNonce, At, GuardedInv
  <1>2. /\ ClaimSound(q) /\ MoneySound(q) /\ FailureSound(q)
        /\ q \in Request /\ n \in Nonce
    BY <1>1, InvFacts
  <1>3. SessionsInv' /\ SessionsKept
    BY <1>1, SessionsUnchanged DEF GuardedInv
  <1>4. CASE /\ n \notin DOMAIN guards
             /\ guards' = WithRow(guards, n, [by |-> q, tx |-> NoTx, settlement |-> NoTx])
             /\ Become(q, pc, ~InSession(q), NoTx, "none")
    <2>1. pc \in PC /\ (~InSession(q)) \in BOOLEAN /\ "none" \in Reply
      BY DEF PC, Reply, InSession
    <2>2. Moved(q, pc, ~InSession(q), NoTx, "none")
      BY <1>1, <1>4, <2>1, GotoMoves
    <2>3. /\ DOMAIN guards' = DOMAIN guards \cup {n}
          /\ guards' \in [DOMAIN guards' -> Guard]
          /\ guards'[n].by = q /\ guards'[n].tx = NoTx
          /\ \A m \in DOMAIN guards : guards'[m] = guards[m]
      BY <1>1, <1>2, <1>4, InsertGuard
    <2>4. GuardsMoved(q)
      BY <2>3 DEF GuardsMoved
    <2>5. DOMAIN guards' \subseteq Nonce
      BY <1>1, <1>2, <2>3 DEF GuardedTypeOK
    <2>6. \A o \in DOMAIN req : Untouched(o)
      BY <1>1 DEF Untouched
    <2>7. ClaimSound(q)'
      BY <1>1, <1>2, <2>2, <2>3 DEF Moved, ClaimSound, Owns, Owning, Claimed, Unclaimed,
                                    sessionVars
    <2>8. MoneySound(q)'
      BY <1>1, <1>2, <2>2 DEF Moved, MoneySound, Unpaid, Unclaimed, Paid, Failing
    <2>9. FailureSound(q)'
      BY <1>1, <1>2, <2>2 DEF Moved, FailureSound, Unclaimed, Undecided
    <2>10. SoundAt(q)'
      BY <2>7, <2>8, <2>9 DEF SoundAt
    <2>11. QED
      BY <1>1, <1>3, <2>2, <2>3, <2>4, <2>5, <2>6, <2>10, StepSafe
         DEF GuardedInv, GuardedTypeOK
  <1>5. CASE Goto(q, "existing") /\ UNCHANGED guards
    <2>1. Moved(q, "existing", req[q].holds, NoTx, "none")
      BY <1>1, <1>5, GotoMoves DEF PC
    <2>2. InSession(q) => req[q].token \in DOMAIN sessions
      BY <1>1, <1>2 DEF ClaimSound
    <2>3. SoundAt(q)'
      BY <1>1, <1>5, <2>1, <2>2, AdvanceSound
    <2>4. QED
      BY <1>1, <1>5, <2>1, <2>3, QuietStepSafe
  <1>6. CASE Answer(q, "refused", NoTx) /\ UNCHANGED guards
    <2>1. Moved(q, "done", req[q].holds, NoTx, "refused")
      BY <1>1, <1>6, GotoMoves DEF Reply
    <2>2. SoundAt(q)'
      BY <1>1, <1>6, <2>1, RefusalSound
    <2>3. QED
      BY <1>1, <1>6, <2>1, <2>2, QuietStepSafe
  <1>7. CASE Throws(q) /\ UNCHANGED guards
    BY <1>1, <1>7, ThrowsSafe
  <1>8. QED
    BY <1>4, <1>5, <1>6, <1>7 DEF ReserveNonce

\* AnswerExisting: a settled nonce is answered with the transfer of its row.
LEMMA AnswerExistingSafe ==
    ASSUME GuardedInv, NEW q, AnswerExisting(q)
    PROVE  GuardedInv'
  <1> DEFINE n == req[q].nonce
             x == guards[n].tx
  <1>1. /\ q \in DOMAIN req /\ req[q].pc = "existing" /\ GuardedTypeOK
        /\ UNCHANGED <<sessionVars, guards, settlements, fees, pending, landed, lost>>
    BY DEF AnswerExisting, At, GuardedInv
  <1>2. /\ ClaimSound(q) /\ MoneySound(q) /\ FailureSound(q)
    BY <1>1, InvFacts
  <1>3. CASE IsSettled(n) /\ Answer(q, "ok", x)
    <2>1. n \in DOMAIN guards /\ x \in Request \cup {NoTx}
      BY <1>1, <1>3 DEF IsSettled, GuardedTypeOK, Guard
    <2>2. Moved(q, "done", req[q].holds, x, "ok")
      BY <1>1, <1>3, <2>1, GotoMoves DEF Reply
    <2>3. Settled(n, x)
      BY <1>3, <2>1, InvFacts DEF IsSettled, GuardSound
    <2>4. Settled(req[q].nonce, req[q].tx)'
      BY <1>1, <2>2, <2>3 DEF Moved, Settled
    <2>5. ClaimSound(q)'
      BY <1>1, <1>2, <2>2 DEF Moved, ClaimSound, Owning, Claimed, Unclaimed, MoneySound, Unpaid
    <2>6. MoneySound(q)'
      BY <1>1, <1>2, <2>2, <2>4 DEF Moved, MoneySound, Unpaid, Unclaimed, Paid, Failing
    <2>7. FailureSound(q)'
      BY <2>2 DEF Moved, FailureSound, Unclaimed, Undecided
    <2>8. SoundAt(q)'
      BY <2>5, <2>6, <2>7 DEF SoundAt
    <2>9. QED
      BY <1>1, <2>2, <2>8, QuietStepSafe
  <1>4. CASE Answer(q, "replayed", NoTx)
    <2>1. Moved(q, "done", req[q].holds, NoTx, "replayed")
      BY <1>1, <1>4, GotoMoves DEF Reply
    <2>2. SoundAt(q)'
      BY <1>1, <2>1, RefusalSound
    <2>3. QED
      BY <1>1, <2>1, <2>2, QuietStepSafe
  <1>5. QED
    BY <1>3, <1>4 DEF AnswerExisting

\* ReserveBudget: the request that draws on an open session holds all it needs.
LEMMA ReserveBudgetSafe ==
    ASSUME GuardedInv, NEW q, ReserveBudget(q)
    PROVE  GuardedInv'
  <1> DEFINE t == req[q].token
             x == sessions[t].spent + req[q].amount
  <1>1. /\ q \in DOMAIN req /\ req[q].pc = "budget" /\ GuardedTypeOK /\ SessionsInv
        /\ UNCHANGED <<challenges, authorizing, guards, settlements, fees, pending,
                       landed, lost>>
    BY DEF ReserveBudget, At, GuardedInv
  <1>2. /\ ClaimSound(q) /\ MoneySound(q) /\ FailureSound(q)
        /\ req[q].amount \in Amount
    BY <1>1, InvFacts
  <1>3. InSession(q) /\ t \in DOMAIN sessions
    BY <1>1, <1>2 DEF ClaimSound, Owning
  <1>4. x \in Nat
    BY <1>1, <1>2, <1>3, AmountAssumption DEF SessionsInv, SessionsTypeOK, SessionRow
  <1>5. CASE /\ sessions' = WithSpent(t, x)
             /\ Become(q, "insert", TRUE, NoTx, "none")
    <2>1. Moved(q, "insert", TRUE, NoTx, "none")
      BY <1>1, <1>5, GotoMoves DEF PC, Reply
    <2>2. SessionsInv' /\ SessionsKept
      BY <1>1, <1>3, <1>4, <1>5, SpentSafe
    <2>3. ClaimSound(q)'
      BY <1>1, <1>2, <1>3, <2>1, <2>2 DEF Moved, ClaimSound, Owns, Owning, Claimed,
                                          Unclaimed, SessionsKept
    <2>4. MoneySound(q)'
      BY <1>1, <1>2, <2>1 DEF Moved, MoneySound, Unpaid, Unclaimed, Paid, Failing
    <2>5. FailureSound(q)'
      BY <1>1, <1>2, <2>1 DEF Moved, FailureSound, Unclaimed, Undecided
    <2>6. SoundAt(q)'
      BY <2>3, <2>4, <2>5 DEF SoundAt
    <2>7. GuardsMoved(q)
      BY <1>1, GuardsStay
    <2>8. \A o \in DOMAIN req : Untouched(o)
      BY <1>1 DEF Untouched
    <2>9. QED
      BY <1>1, <2>1, <2>2, <2>6, <2>7, <2>8, StepSafe DEF GuardedInv, GuardedTypeOK
  <1>6. CASE Goto(q, "refund") /\ UNCHANGED sessions
    <2>1. Moved(q, "refund", req[q].holds, NoTx, "none")
      BY <1>1, <1>6, GotoMoves DEF PC
    <2>2. ClaimSound(q)'
      BY <1>1, <1>2, <1>3, <1>6, <2>1 DEF Moved, ClaimSound, Owns, Owning, Claimed, Unclaimed
    <2>3. MoneySound(q)'
      BY <1>1, <1>2, <2>1 DEF Moved, MoneySound, Unpaid, Unclaimed, Paid, Failing
    <2>4. FailureSound(q)'
      BY <1>1, <1>2, <2>1 DEF Moved, FailureSound, Unclaimed, Undecided
    <2>5. SoundAt(q)'
      BY <2>2, <2>3, <2>4 DEF SoundAt
    <2>6. QED
      BY <1>1, <1>6, <2>1, <2>5, QuietStepSafe DEF sessionVars
  <1>7. CASE Throws(q) /\ UNCHANGED sessions
    BY <1>1, <1>7, ThrowsSafe DEF sessionVars
  <1>8. QED
    BY <1>5, <1>6, <1>7 DEF ReserveBudget, reservePaymentSessionSpend

\* Deleting the row of the nonce q owns moves no other.
LEMMA DeleteOwn ==
    ASSUME GuardedInv, NEW q \in DOMAIN req, Owns(q), guards[req[q].nonce].tx = NoTx,
           guards' = GuardsWithout(req[q].nonce)
    PROVE  /\ GuardsMoved(q)
           /\ DOMAIN guards' \subseteq Nonce /\ guards' \in [DOMAIN guards' -> Guard]
  <1>1. /\ DOMAIN guards' = DOMAIN guards \ {req[q].nonce}
        /\ \A m \in DOMAIN guards' : guards'[m] = guards[m]
    BY DEF GuardsWithout, IsSettled
  <1>2. \A m \in DOMAIN guards : guards[m].by # q => m # req[q].nonce
    BY DEF Owns
  <1>3. GuardsMoved(q)
    BY <1>1, <1>2 DEF GuardsMoved
  <1>4. QED
    BY <1>1, <1>3 DEF GuardsWithout, GuardedInv, GuardedTypeOK

\* RefuseBudget gives the nonce of a request that claimed nothing else back.
LEMMA RefuseBudgetSafe ==
    ASSUME GuardedInv, NEW q, RefuseBudget(q)
    PROVE  GuardedInv'
  <1> DEFINE n == req[q].nonce
  <1>1. /\ q \in DOMAIN req /\ req[q].pc = "refund" /\ GuardedTypeOK
        /\ UNCHANGED <<sessionVars, settlements, fees, pending, landed, lost>>
        /\ Answer(q, "refused", NoTx)
    BY DEF RefuseBudget, At, GuardedInv
  <1>2. /\ ClaimSound(q) /\ MoneySound(q) /\ FailureSound(q)
    BY <1>1, InvFacts
  <1>3. Owns(q) /\ guards[n].tx = NoTx /\ ~req[q].holds
    BY <1>1, <1>2 DEF ClaimSound, Owning, Unclaimed
  <1>4. Moved(q, "done", req[q].holds, NoTx, "refused")
    BY <1>1, GotoMoves DEF Reply
  <1>5. SessionsInv' /\ SessionsKept
    BY <1>1, SessionsUnchanged DEF GuardedInv
  <1>6. /\ GuardsMoved(q)
        /\ DOMAIN guards' \subseteq Nonce /\ guards' \in [DOMAIN guards' -> Guard]
    <2>1. CASE guards' = GuardsWithout(n)
      BY <1>1, <1>3, <2>1, DeleteOwn
    <2>2. CASE UNCHANGED guards
      BY <1>1, <2>2, GuardsStay DEF GuardedTypeOK
    <2>3. QED
      BY <2>1, <2>2 DEF RefuseBudget, DeleteGuard
  <1>7. ClaimSound(q)'
    BY <1>1, <1>2, <1>3, <1>4 DEF Moved, ClaimSound, Owning, Claimed, Unclaimed,
                                  MoneySound, Unpaid
  <1>8. MoneySound(q)'
    BY <1>1, <1>2, <1>4 DEF Moved, MoneySound, Unpaid, Unclaimed, Paid, Failing
  <1>9. FailureSound(q)'
    BY <1>1, <1>2, <1>3, <1>4 DEF Moved, FailureSound, Unclaimed, Undecided, MoneySound, Unpaid
  <1>10. SoundAt(q)'
    BY <1>7, <1>8, <1>9 DEF SoundAt
  <1>11. \A o \in DOMAIN req : Untouched(o)
    BY <1>1 DEF Untouched
  <1>12. QED
    BY <1>1, <1>4, <1>5, <1>6, <1>10, <1>11, StepSafe DEF GuardedInv, GuardedTypeOK

\* A request that keeps its claims and its guard row stays sound about them.
LEMMA ClaimStays ==
    ASSUME GuardedInv, NEW q \in DOMAIN req, req[q].pc \in Claimed,
           NEW pc \in Claimed, NEW tx, NEW reply, Moved(q, pc, req[q].holds, tx, reply),
           pc = "release" => InSession(q),
           pc = "innerCatch" => req[q].scheme = "authorized",
           SessionsKept, req[q].nonce \in DOMAIN guards',
           guards'[req[q].nonce].by = q, guards'[req[q].nonce].tx = NoTx
    PROVE  ClaimSound(q)'
  <1>1. ClaimSound(q)
    BY InvFacts
  <1>2. req[q].holds /\ (InSession(q) => req[q].token \in DOMAIN sessions')
    BY <1>1 DEF ClaimSound, Owning, SessionsKept
  <1>3. QED
    BY <1>2 DEF Moved, ClaimSound, Owns, Owning, Claimed, Unclaimed

\* What a request that has claimed all it needs may rely on.
LEMMA ClaimedFacts ==
    ASSUME GuardedInv, NEW q \in DOMAIN req, req[q].pc \in Claimed
    PROVE  /\ GuardedTypeOK /\ SessionsInv /\ q \in Request
           /\ landed \cup pending \cup lost \cup DOMAIN settlements \subseteq DOMAIN req
           /\ req[q].nonce \in Nonce
           /\ ClaimSound(q) /\ MoneySound(q) /\ FailureSound(q)
           /\ req[q].holds /\ Owns(q)
           /\ req[q].nonce \in DOMAIN guards
           /\ guards[req[q].nonce].by = q
           /\ guards[req[q].nonce].tx = NoTx
           /\ InSession(q) => req[q].token \in DOMAIN sessions
  <1>1. /\ GuardedTypeOK /\ SessionsInv /\ q \in Request
        /\ landed \cup pending \cup lost \cup DOMAIN settlements \subseteq DOMAIN req
        /\ req[q].nonce \in Nonce
        /\ ClaimSound(q) /\ MoneySound(q) /\ FailureSound(q)
    BY InvFacts
  <1>2. QED
    BY <1>1 DEF ClaimSound, Owns, Owning

\* A handler's step that leaves sessions and guards alone.
LEMMA ClaimedStepSafe ==
    ASSUME GuardedInv, NEW q \in DOMAIN req, req[q].pc \in Claimed,
           NEW pc \in Claimed, Moved(q, pc, req[q].holds, NoTx, "none"),
           pc = "release" => InSession(q),
           pc = "innerCatch" => req[q].scheme = "authorized",
           UNCHANGED <<sessionVars, guards>>,
           DOMAIN settlements' \subseteq Request,
           settlements' \in [DOMAIN settlements' -> {"pending", "confirmed", "failed"}],
           fees' \subseteq Request,
           landed \subseteq landed', landed' \cup pending' \cup lost' \cup DOMAIN settlements' \subseteq DOMAIN req,
           \A o \in DOMAIN req : o # q => Untouched(o),
           MoneySound(q)', FailureSound(q)'
    PROVE  GuardedInv'
  <1>1. SessionsInv' /\ SessionsKept
    BY SessionsUnchanged DEF GuardedInv
  <1>2. GuardsMoved(q)
    BY GuardsStay
  <1>3. ClaimSound(q)'
    BY <1>1, ClaimStays, ClaimedFacts
  <1>4. SoundAt(q)'
    BY <1>3 DEF SoundAt
  <1>5. req[q].pc # "done"
    BY DEF Claimed
  <1>6. QED
    BY <1>1, <1>2, <1>4, <1>5, StepSafe DEF GuardedInv, GuardedTypeOK

\* InsertPending adds the row of q, or sends it to where it failed.
LEMMA InsertPendingSafe ==
    ASSUME GuardedInv, NEW q, InsertPending(q)
    PROVE  GuardedInv'
  <1>1. /\ q \in DOMAIN req /\ req[q].pc = "insert" /\ req[q].pc \in Claimed
        /\ UNCHANGED <<sessionVars, guards, fees, pending, landed, lost>>
    BY DEF InsertPending, At, Claimed
  <1>2. /\ GuardedTypeOK /\ q \in Request
        /\ landed \cup pending \cup lost \cup DOMAIN settlements \subseteq DOMAIN req
        /\ MoneySound(q) /\ FailureSound(q)
    BY <1>1, ClaimedFacts
  <1>3. CASE settlements' = WithRow(settlements, q, "pending") /\ Goto(q, "link")
    <2>1. Moved(q, "link", req[q].holds, NoTx, "none")
      BY <1>1, <1>2, <1>3, GotoMoves DEF PC
    <2>2. /\ DOMAIN settlements' = DOMAIN settlements \cup {q}
          /\ \A o \in DOMAIN settlements : o # q => settlements'[o] = settlements[o]
          /\ settlements' \in [DOMAIN settlements' -> {"pending", "confirmed", "failed"}]
      BY <1>2, <1>3 DEF WithRow, GuardedTypeOK
    <2>3. MoneySound(q)'
      BY <1>1, <1>2, <2>1 DEF Moved, MoneySound, Unpaid, Unclaimed, Paid, Failing
    <2>4. FailureSound(q)'
      <3>1. settlements'[q] = "pending"
        BY <1>2, <1>3 DEF WithRow, GuardedTypeOK
      <3>2. QED
        BY <2>1, <3>1 DEF Moved, FailureSound, Unclaimed, Undecided
    <2>5. \A o \in DOMAIN req : o # q => Untouched(o)
      BY <1>1, <2>2 DEF Untouched
    <2>6. DOMAIN settlements' \subseteq Request /\ fees' \subseteq Request
      BY <1>1, <1>2, <2>2 DEF GuardedTypeOK
    <2>7. QED
      BY <1>1, <1>2, <2>1, <2>2, <2>3, <2>4, <2>5, <2>6, ClaimedStepSafe DEF Claimed
  <1>4. CASE InSession(q) /\ Goto(q, "catch") /\ UNCHANGED settlements
    <2>1. Moved(q, "catch", req[q].holds, NoTx, "none")
      BY <1>1, <1>2, <1>4, GotoMoves DEF PC
    <2>2. MoneySound(q)'
      BY <1>1, <1>2, <2>1 DEF Moved, MoneySound, Unpaid, Unclaimed, Paid, Failing
    <2>3. FailureSound(q)'
      BY <1>1, <1>2, <1>4, <2>1 DEF Moved, FailureSound, Unclaimed, Undecided
    <2>4. \A o \in DOMAIN req : Untouched(o)
      BY <1>1, <1>4 DEF Untouched
    <2>5. QED
      BY <1>1, <1>2, <1>4, <2>1, <2>2, <2>3, <2>4, ClaimedStepSafe DEF Claimed, GuardedTypeOK
  <1>5. CASE Throws(q) /\ UNCHANGED settlements
    BY <1>1, <1>5, ThrowsSafe
  <1>6. QED
    BY <1>3, <1>4, <1>5 DEF InsertPending

\* LinkSettlement changes only q's own guard row.
LEMMA LinkSafe ==
    ASSUME GuardedInv, NEW q, LinkSettlement(q)
    PROVE  GuardedInv'
  <1> DEFINE n == req[q].nonce
  <1>1. /\ q \in DOMAIN req /\ req[q].pc = "link" /\ req[q].pc \in Claimed
        /\ UNCHANGED <<sessionVars, settlements, fees, pending, landed, lost>>
    BY DEF LinkSettlement, At, Claimed
  <1>2. /\ GuardedTypeOK /\ q \in Request
        /\ landed \cup pending \cup lost \cup DOMAIN settlements \subseteq DOMAIN req
        /\ MoneySound(q) /\ FailureSound(q)
        /\ n \in DOMAIN guards /\ guards[n].by = q /\ guards[n].tx = NoTx
    BY <1>1, ClaimedFacts
  <1>3. PICK pc \in {"pay", "catch"} : Moved(q, pc, req[q].holds, NoTx, "none")
    BY <1>1, <1>2, GotoMoves DEF LinkSettlement, PC
  <1>4. /\ DOMAIN guards' = DOMAIN guards
        /\ guards' \in [DOMAIN guards -> Guard]
        /\ guards'[n].by = q /\ guards'[n].tx = NoTx
        /\ \A m \in DOMAIN guards : m # n => guards'[m] = guards[m]
    <2>1. CASE UNCHANGED guards
      BY <1>2, <2>1 DEF GuardedTypeOK
    <2>2. CASE guards' = [guards EXCEPT ![n].settlement = q]
      <3> DEFINE row == [guards[n] EXCEPT !.settlement = q]
      <3>1. row \in Guard /\ row.by = q /\ row.tx = NoTx
        BY <1>2 DEF GuardedTypeOK, Guard
      <3>2. guards' = [guards EXCEPT ![n] = row]
        BY <2>2
      <3> HIDE DEF row
      <3>3. QED
        BY <1>2, <3>1, <3>2 DEF GuardedTypeOK
    <2>3. QED
      BY <2>1, <2>2 DEF LinkSettlement
  <1>5. GuardsMoved(q)
    BY <1>2, <1>4 DEF GuardsMoved
  <1>6. SessionsInv' /\ SessionsKept
    BY <1>1, SessionsUnchanged DEF GuardedInv
  <1>7. ClaimSound(q)'
    BY <1>1, <1>2, <1>3, <1>4, <1>6, ClaimStays DEF Claimed
  <1>8. MoneySound(q)'
    BY <1>1, <1>2, <1>3 DEF Moved, MoneySound, Unpaid, Unclaimed, Paid, Failing
  <1>9. FailureSound(q)'
    BY <1>1, <1>2, <1>3 DEF Moved, FailureSound, Unclaimed, Undecided
  <1>10. SoundAt(q)'
    BY <1>7, <1>8, <1>9 DEF SoundAt
  <1>11. \A o \in DOMAIN req : Untouched(o)
    BY <1>1 DEF Untouched
  <1>12. QED
    BY <1>1, <1>2, <1>3, <1>4, <1>5, <1>6, <1>10, <1>11, StepSafe DEF GuardedTypeOK

\* Pay: a transfer seen to execute is on the way to being recorded, one whose outcome
\* is not seen is lost.
LEMMA PaySafe ==
    ASSUME GuardedInv, NEW q, Pay(q)
    PROVE  GuardedInv'
  <1>1. /\ q \in DOMAIN req /\ req[q].pc = "pay" /\ req[q].pc \in Claimed
        /\ UNCHANGED <<sessionVars, guards, settlements, fees>>
    BY DEF Pay, At, Claimed
  <1>2. /\ GuardedTypeOK /\ q \in Request
        /\ landed \cup pending \cup lost \cup DOMAIN settlements \subseteq DOMAIN req
        /\ MoneySound(q) /\ FailureSound(q) /\ req[q].holds
        /\ InSession(q) => req[q].token \in DOMAIN sessions
        /\ q \notin landed \cup pending \cup lost
    BY <1>1, ClaimedFacts DEF MoneySound, Unpaid
  <1>3. CASE landed' = landed \cup {q} /\ Goto(q, "confirm") /\ UNCHANGED <<pending, lost>>
    <2>1. Moved(q, "confirm", req[q].holds, NoTx, "none")
      BY <1>1, <1>2, <1>3, GotoMoves DEF PC
    <2>2. MoneySound(q)'
      BY <1>1, <1>2, <1>3, <2>1 DEF Moved, MoneySound, Unpaid, Unclaimed, Paid, Failing
    <2>3. FailureSound(q)'
      BY <2>1 DEF Moved, FailureSound, Unclaimed, Undecided
    <2>4. \A o \in DOMAIN req : o # q => Untouched(o)
      BY <1>1, <1>3 DEF Untouched
    <2>5. QED
      BY <1>1, <1>2, <1>3, <2>1, <2>2, <2>3, <2>4, ClaimedStepSafe DEF Claimed, GuardedTypeOK
  <1>4. ASSUME Goto(q, CatchOf(q)), UNCHANGED landed,
               \/ UNCHANGED <<pending, lost>>
               \/ pending' = pending \cup {q} /\ lost' = lost \cup {q}
        PROVE  GuardedInv'
    <2>1. CatchOf(q) \in Claimed \cap PC /\ CatchOf(q) # "release"
      BY DEF CatchOf, Claimed, PC
    <2>2. CatchOf(q) = "innerCatch" => req[q].scheme = "authorized"
      BY DEF CatchOf
    <2>3. CatchOf(q) \in {"innerCatch", "catch"}
      BY DEF CatchOf
    <2>4. Moved(q, CatchOf(q), req[q].holds, NoTx, "none")
      BY <1>1, <1>2, <1>4, <2>1, GotoMoves
    <2>5. MoneySound(q)'
      BY <1>1, <1>2, <1>4, <2>3, <2>4
         DEF Moved, MoneySound, Unpaid, Unclaimed, Paid, Failing, sessionVars
    <2>6. FailureSound(q)'
      BY <1>1, <1>2, <2>3, <2>4 DEF Moved, FailureSound, Unclaimed, Undecided
    <2>7. \A o \in DOMAIN req : o # q => Untouched(o)
      BY <1>1, <1>4 DEF Untouched
    <2>8. landed' \cup pending' \cup lost' \cup DOMAIN settlements' \subseteq DOMAIN req
      BY <1>1, <1>2, <1>4
    <2>9. QED
      BY <1>1, <1>2, <1>4, <2>1, <2>2, <2>4, <2>5, <2>6, <2>7, <2>8, ClaimedStepSafe
         DEF GuardedTypeOK
  <1>5. QED
    BY <1>3, <1>4 DEF Pay

\* updateSettlementConfirmed and insertFeeLedger record a payment that was made.
LEMMA RecordSafe ==
    ASSUME GuardedInv, NEW q, updateSettlementConfirmed(q) \/ insertFeeLedger(q)
    PROVE  GuardedInv'
  <1>1. /\ q \in DOMAIN req /\ req[q].pc \in {"confirm", "fee"} /\ req[q].pc \in Claimed
        /\ UNCHANGED <<sessionVars, guards, pending, landed, lost>>
    BY DEF updateSettlementConfirmed, insertFeeLedger, At, Claimed
  <1>2. /\ GuardedTypeOK /\ q \in Request
        /\ landed \cup pending \cup lost \cup DOMAIN settlements \subseteq DOMAIN req
        /\ MoneySound(q) /\ req[q].holds
    BY <1>1, ClaimedFacts
  <1>3. PICK pc \in {"fee", "setTx", "setTxAgain"} : Moved(q, pc, req[q].holds, NoTx, "none")
    BY <1>1, <1>2, GotoMoves DEF updateSettlementConfirmed, insertFeeLedger, PC
  <1>4. \/ UNCHANGED settlements
        \/ settlements' = [settlements EXCEPT ![q] = "confirmed"]
    BY DEF updateSettlementConfirmed, insertFeeLedger
  <1>5. fees' \subseteq Request
    BY <1>2 DEF updateSettlementConfirmed, insertFeeLedger, GuardedTypeOK
  <1>6. /\ DOMAIN settlements' \subseteq Request
        /\ DOMAIN settlements' = DOMAIN settlements
        /\ settlements' \in [DOMAIN settlements' -> {"pending", "confirmed", "failed"}]
        /\ \A o \in DOMAIN req : o # q => Untouched(o)
    BY <1>1, <1>2, <1>4 DEF GuardedTypeOK, Untouched
  <1>7. MoneySound(q)'
    BY <1>1, <1>2, <1>3 DEF Moved, MoneySound, Unpaid, Unclaimed, Paid, Failing
  <1>8. FailureSound(q)'
    BY <1>3 DEF Moved, FailureSound, Unclaimed, Undecided
  <1>9. pc \in Claimed /\ pc # "release" /\ pc # "innerCatch"
    BY DEF Claimed
  <1>10. QED
    BY <1>1, <1>2, <1>3, <1>5, <1>6, <1>7, <1>8, <1>9, ClaimedStepSafe

\* SetTxHash answers with the transfer that was made, recorded or not.
LEMMA SetTxHashSafe ==
    ASSUME GuardedInv, NEW q, SetTxHash(q)
    PROVE  GuardedInv'
  <1> DEFINE n == req[q].nonce
  <1>1. /\ q \in DOMAIN req /\ req[q].pc \in {"setTx", "setTxAgain"} /\ req[q].pc \in Claimed
        /\ UNCHANGED <<sessionVars, settlements, fees, pending, landed, lost>>
    BY DEF SetTxHash, At, Claimed
  <1>2. /\ GuardedTypeOK /\ q \in Request /\ n \in Nonce
        /\ landed \cup pending \cup lost \cup DOMAIN settlements \subseteq DOMAIN req
        /\ ClaimSound(q) /\ MoneySound(q) /\ req[q].holds
        /\ n \in DOMAIN guards /\ guards[n].by = q /\ guards[n].tx = NoTx
        /\ InSession(q) => req[q].token \in DOMAIN sessions
        /\ q \in landed /\ q \notin pending \cup lost
    BY <1>1, ClaimedFacts DEF MoneySound, Paid
  <1>3. CASE Goto(q, "setTxAgain") /\ UNCHANGED guards
    <2>1. Moved(q, "setTxAgain", req[q].holds, NoTx, "none")
      BY <1>1, <1>2, <1>3, GotoMoves DEF PC
    <2>2. MoneySound(q)'
      BY <1>1, <1>2, <2>1 DEF Moved, MoneySound, Unpaid, Unclaimed, Paid, Failing
    <2>3. FailureSound(q)'
      BY <2>1 DEF Moved, FailureSound, Unclaimed, Undecided
    <2>4. \A o \in DOMAIN req : Untouched(o)
      BY <1>1 DEF Untouched
    <2>5. QED
      BY <1>1, <1>2, <1>3, <2>1, <2>2, <2>3, <2>4, ClaimedStepSafe DEF Claimed, GuardedTypeOK
  <1>4. ASSUME Answer(q, "ok", q),
               UNCHANGED guards \/ guards' = [guards EXCEPT ![n].tx = q]
        PROVE  GuardedInv'
    <2>1. Moved(q, "done", req[q].holds, q, "ok")
      BY <1>1, <1>2, <1>4, GotoMoves DEF Reply
    <2>2. /\ DOMAIN guards' = DOMAIN guards
          /\ guards' \in [DOMAIN guards -> Guard]
          /\ guards'[n].by = q /\ guards'[n].tx \in {NoTx, q}
          /\ \A m \in DOMAIN guards : m # n => guards'[m] = guards[m]
      <3>1. CASE UNCHANGED guards
        BY <1>2, <3>1 DEF GuardedTypeOK
      <3>2. CASE guards' = [guards EXCEPT ![n].tx = q]
        <4> DEFINE row == [guards[n] EXCEPT !.tx = q]
        <4>1. row \in Guard /\ row.by = q /\ row.tx = q
          BY <1>2 DEF GuardedTypeOK, Guard
        <4>2. guards' = [guards EXCEPT ![n] = row]
          BY <3>2
        <4> HIDE DEF row
        <4>3. QED
          BY <1>2, <4>1, <4>2 DEF GuardedTypeOK
      <3>3. QED
        BY <1>4, <3>1, <3>2
    <2>3. Settled(req[q].nonce, req[q].tx)'
      BY <1>1, <1>2, <2>1, <2>2 DEF Moved, Settled
    <2>4. GuardsMoved(q)
      BY <1>2, <2>1, <2>2, <2>3 DEF GuardsMoved, Moved, Settled
    <2>5. SessionsInv' /\ SessionsKept
      BY <1>1, SessionsUnchanged DEF GuardedInv
    <2>6. ClaimSound(q)'
      BY <1>1, <1>2, <2>1, <2>2 DEF Moved, ClaimSound, Owns, Owning, Claimed, Unclaimed,
                                    sessionVars
    <2>7. MoneySound(q)'
      BY <1>1, <1>2, <2>1, <2>3 DEF Moved, MoneySound, Unpaid, Unclaimed, Paid, Failing
    <2>8. FailureSound(q)'
      BY <2>1 DEF Moved, FailureSound, Unclaimed, Undecided
    <2>9. SoundAt(q)'
      BY <2>6, <2>7, <2>8 DEF SoundAt
    <2>10. \A o \in DOMAIN req : Untouched(o)
      BY <1>1 DEF Untouched
    <2>11. QED
      BY <1>1, <1>2, <2>1, <2>2, <2>4, <2>5, <2>9, <2>10, StepSafe DEF GuardedTypeOK
  <1>5. QED
    BY <1>3, <1>4 DEF SetTxHash

\* A request that is about to give its nonce back.
LEMMA UnguardSound ==
    ASSUME GuardedInv, NEW q \in DOMAIN req, req[q].pc \in Claimed,
           NEW holds, req[q].scheme # "plain", InSession(q) => ~holds,
           Moved(q, "unguard", holds, NoTx, "none"), SessionsKept, UNCHANGED guards
    PROVE  ClaimSound(q)'
  <1>1. /\ Owns(q) /\ guards[req[q].nonce].tx = NoTx
        /\ InSession(q) => req[q].token \in DOMAIN sessions
    BY ClaimedFacts
  <1>2. QED
    BY <1>1 DEF Moved, ClaimSound, Owns, Owning, Claimed, Unclaimed, SessionsKept, InSession

\* InnerCatchFailed: a failed authorized payment.
LEMMA InnerCatchSafe ==
    ASSUME GuardedInv, NEW q, InnerCatchFailed(q)
    PROVE  GuardedInv'
  <1>1. /\ q \in DOMAIN req /\ req[q].pc = "innerCatch" /\ req[q].pc \in Claimed
        /\ UNCHANGED <<sessionVars, guards, fees, pending, landed, lost>>
    BY DEF InnerCatchFailed, At, Claimed
  <1>2. /\ GuardedTypeOK /\ q \in Request
        /\ landed \cup pending \cup lost \cup DOMAIN settlements \subseteq DOMAIN req
        /\ MoneySound(q) /\ FailureSound(q) /\ req[q].holds
        /\ req[q].scheme = "authorized" /\ ~InSession(q)
    BY <1>1, ClaimedFacts DEF ClaimSound, InSession
  <1>3. SessionsInv' /\ SessionsKept
    BY <1>1, SessionsUnchanged DEF GuardedInv
  <1>4. CASE settlements' = [settlements EXCEPT ![q] = "failed"] /\ Goto(q, "unguard")
    <2>1. Moved(q, "unguard", req[q].holds, NoTx, "none")
      BY <1>1, <1>2, <1>4, GotoMoves DEF PC
    <2>2. ClaimSound(q)'
      BY <1>1, <1>2, <1>3, <2>1, UnguardSound
    <2>3. MoneySound(q)'
      BY <1>1, <1>2, <2>1 DEF Moved, MoneySound, Unpaid, Unclaimed, Paid, Failing
    <2>4. FailureSound(q)'
      BY <1>2, <1>4, <2>1 DEF Moved, FailureSound, Unclaimed, Undecided, GuardedTypeOK
    <2>5. SoundAt(q)'
      BY <2>2, <2>3, <2>4 DEF SoundAt
    <2>6. /\ DOMAIN settlements' \subseteq Request
          /\ DOMAIN settlements' = DOMAIN settlements
          /\ settlements' \in [DOMAIN settlements' -> {"pending", "confirmed", "failed"}]
          /\ \A o \in DOMAIN req : o # q => Untouched(o)
      BY <1>1, <1>2, <1>4 DEF GuardedTypeOK, Untouched
    <2>7. GuardsMoved(q)
      BY <1>1, GuardsStay
    <2>8. QED
      BY <1>1, <1>2, <1>3, <2>1, <2>5, <2>6, <2>7, StepSafe DEF GuardedTypeOK
  <1>5. CASE Goto(q, "catch") /\ UNCHANGED settlements
    <2>1. Moved(q, "catch", req[q].holds, NoTx, "none")
      BY <1>1, <1>2, <1>5, GotoMoves DEF PC
    <2>2. MoneySound(q)'
      BY <1>1, <1>2, <2>1 DEF Moved, MoneySound, Unpaid, Unclaimed, Paid, Failing
    <2>3. FailureSound(q)'
      BY <1>1, <1>2, <1>5, <2>1 DEF Moved, FailureSound, Unclaimed, Undecided
    <2>4. \A o \in DOMAIN req : Untouched(o)
      BY <1>1, <1>5 DEF Untouched
    <2>5. QED
      BY <1>1, <1>2, <1>5, <2>1, <2>2, <2>3, <2>4, ClaimedStepSafe DEF Claimed, GuardedTypeOK
  <1>6. QED
    BY <1>4, <1>5 DEF InnerCatchFailed

\* CatchFailed: a session payment goes on to its release, another keeps its nonce.
LEMMA CatchFailedSafe ==
    ASSUME GuardedInv, NEW q, CatchFailed(q)
    PROVE  GuardedInv'
  <1>1. /\ q \in DOMAIN req /\ req[q].pc = "catch" /\ req[q].pc \in Claimed
        /\ UNCHANGED <<sessionVars, guards, fees, pending, landed, lost>>
    BY DEF CatchFailed, At, Claimed
  <1>2. /\ GuardedTypeOK /\ q \in Request
        /\ landed \cup pending \cup lost \cup DOMAIN settlements \subseteq DOMAIN req
        /\ ClaimSound(q) /\ MoneySound(q) /\ req[q].holds /\ Owns(q)
        /\ InSession(q) => req[q].token \in DOMAIN sessions
    BY <1>1, ClaimedFacts
  <1>3. CASE Throws(q) /\ UNCHANGED settlements
    BY <1>1, <1>3, ThrowsSafe
  <1>4. ASSUME settlements' = IF q \in DOMAIN settlements
                              THEN [settlements EXCEPT ![q] = "failed"]
                              ELSE settlements,
               Become(q, AfterCatch(q), req[q].holds, NoTx,
                      IF AfterCatch(q) = "done" THEN "failed" ELSE "none")
        PROVE  GuardedInv'
    <2>1. /\ DOMAIN settlements' \subseteq Request
          /\ DOMAIN settlements' = DOMAIN settlements
          /\ settlements' \in [DOMAIN settlements' -> {"pending", "confirmed", "failed"}]
          /\ q \in DOMAIN settlements' => settlements'[q] = "failed"
          /\ \A o \in DOMAIN req : o # q => Untouched(o)
      BY <1>1, <1>2, <1>4 DEF GuardedTypeOK, Untouched
    <2>2. CASE InSession(q)
      <3>1. AfterCatch(q) = "release"
        BY <2>2 DEF AfterCatch
      <3>2. Moved(q, "release", req[q].holds, NoTx, "none")
        BY <1>1, <1>2, <1>4, <3>1, GotoMoves DEF PC, Reply
      <3>3. MoneySound(q)'
        BY <1>1, <1>2, <3>2 DEF Moved, MoneySound, Unpaid, Unclaimed, Paid, Failing,
                                sessionVars
      <3>4. FailureSound(q)'
        BY <2>1, <3>2 DEF Moved, FailureSound, Unclaimed, Undecided
      <3>5. QED
        BY <1>1, <1>2, <2>1, <2>2, <3>2, <3>3, <3>4, ClaimedStepSafe DEF Claimed, GuardedTypeOK
    <2>3. CASE ~InSession(q)
      <3>1. AfterCatch(q) = "done"
        BY <2>3 DEF AfterCatch
      <3>2. Moved(q, "done", req[q].holds, NoTx, "failed")
        BY <1>1, <1>2, <1>4, <3>1, GotoMoves DEF PC, Reply
      <3>3. ClaimSound(q)'
        BY <1>1, <1>2, <2>3, <3>2 DEF Moved, ClaimSound, Owns, Owning, Claimed, Unclaimed
      <3>4. MoneySound(q)'
        BY <1>1, <1>2, <2>3, <3>2 DEF Moved, MoneySound, Unpaid, Unclaimed, Paid, Failing
      <3>5. FailureSound(q)'
        <4>1. guards[req[q].nonce].tx = NoTx /\ q \notin (landed \cup pending) \ lost
          BY <1>1, <1>2 DEF ClaimSound, Owning, MoneySound, Failing
        <4>2. QED
          BY <1>1, <2>1, <2>3, <3>2, <4>1 DEF Moved, FailureSound, Unclaimed, Undecided
      <3>6. SoundAt(q)'
        BY <3>3, <3>4, <3>5 DEF SoundAt
      <3>7. SessionsInv' /\ SessionsKept /\ GuardsMoved(q)
        BY <1>1, SessionsUnchanged, GuardsStay DEF GuardedInv
      <3>8. QED
        BY <1>1, <1>2, <2>1, <3>2, <3>6, <3>7, StepSafe DEF GuardedTypeOK
    <2>4. QED
      BY <2>2, <2>3
  <1>5. QED
    BY <1>3, <1>4 DEF CatchFailed

\* ReleaseBudget: the claims end, the nonce is still q's.
LEMMA ReleaseSafe ==
    ASSUME GuardedInv, NEW q, ReleaseBudget(q)
    PROVE  GuardedInv'
  <1> DEFINE t == req[q].token
             x == Greatest0(sessions[t].spent - req[q].amount)
  <1>1. /\ q \in DOMAIN req /\ req[q].pc = "release" /\ req[q].pc \in Claimed
        /\ UNCHANGED <<challenges, authorizing, guards, settlements, fees, pending,
                       landed, lost>>
    BY DEF ReleaseBudget, At, Claimed
  <1>2. /\ GuardedTypeOK /\ SessionsInv /\ q \in Request
        /\ landed \cup pending \cup lost \cup DOMAIN settlements \subseteq DOMAIN req
        /\ ClaimSound(q) /\ MoneySound(q) /\ FailureSound(q)
        /\ req[q].amount \in Amount
    BY <1>1, ClaimedFacts, InvFacts
  <1>3. InSession(q) /\ t \in DOMAIN sessions
    BY <1>1, <1>2 DEF ClaimSound, Owning
  <1>4. x \in Nat
    BY <1>2, <1>3, AmountAssumption DEF SessionsInv, SessionsTypeOK, SessionRow, Greatest0
  <1>5. CASE sessions' = WithSpent(t, x) /\ Become(q, "unguard", FALSE, NoTx, "none")
    <2>1. Moved(q, "unguard", FALSE, NoTx, "none")
      BY <1>1, <1>2, <1>5, GotoMoves DEF PC, Reply
    <2>2. SessionsInv' /\ SessionsKept
      BY <1>1, <1>2, <1>3, <1>4, <1>5, SpentSafe
    <2>3. ClaimSound(q)'
      <3>1. req[q].scheme # "plain"
        BY <1>3 DEF InSession
      <3>2. QED
        BY <1>1, <2>1, <2>2, <3>1, UnguardSound
    <2>4. MoneySound(q)'
      <3>1. req[q].scheme # "plain"
        BY <1>3 DEF InSession
      <3>2. QED
        BY <1>1, <1>2, <1>3, <2>1, <2>2, <3>1 DEF Moved, MoneySound, Unpaid, Unclaimed, Paid,
                                                  Failing, SessionsKept
    <2>5. FailureSound(q)'
      BY <1>1, <1>2, <2>1 DEF Moved, FailureSound, Unclaimed, Undecided
    <2>6. SoundAt(q)'
      BY <2>3, <2>4, <2>5 DEF SoundAt
    <2>7. GuardsMoved(q)
      BY <1>1, GuardsStay
    <2>8. \A o \in DOMAIN req : Untouched(o)
      BY <1>1 DEF Untouched
    <2>9. QED
      BY <1>1, <1>2, <2>1, <2>2, <2>6, <2>7, <2>8, StepSafe DEF GuardedTypeOK
  <1>6. CASE Throws(q) /\ UNCHANGED sessions
    BY <1>1, <1>6, ThrowsSafe DEF sessionVars
  <1>7. QED
    BY <1>5, <1>6 DEF ReleaseBudget, releasePaymentSessionSpend

\* DropGuard: the nonce is free again, or stays taken for good.
LEMMA DropGuardSafe ==
    ASSUME GuardedInv, NEW q, DropGuard(q)
    PROVE  GuardedInv'
  <1> DEFINE n == req[q].nonce
  <1>1. /\ q \in DOMAIN req /\ req[q].pc = "unguard"
        /\ UNCHANGED <<sessionVars, settlements, fees, pending, landed, lost>>
    BY DEF DropGuard, At
  <1>2. /\ GuardedTypeOK /\ q \in Request
        /\ landed \cup pending \cup lost \cup DOMAIN settlements \subseteq DOMAIN req
        /\ ClaimSound(q) /\ MoneySound(q) /\ FailureSound(q)
    BY <1>1, InvFacts
  <1>3. /\ Owns(q) /\ guards[n].tx = NoTx
        /\ req[q].scheme # "plain" /\ (InSession(q) => ~req[q].holds)
        /\ q \notin (landed \cup pending) \ lost
        /\ InSession(q) => req[q].token \in DOMAIN sessions
    BY <1>1, <1>2 DEF ClaimSound, MoneySound, Owning, Failing
  <1>4. PICK holds \in {FALSE, req[q].holds} :
           /\ Moved(q, "done", holds, NoTx, "failed")
           /\ \/ guards' = GuardsWithout(n) /\ holds = FALSE
              \/ UNCHANGED guards /\ holds = req[q].holds
    <2>1. CASE guards' = GuardsWithout(n) /\ Become(q, "done", FALSE, NoTx, "failed")
      <3>1. "done" \in PC /\ "failed" \in Reply
        BY DEF PC, Reply
      <3>2. Moved(q, "done", FALSE, NoTx, "failed")
        BY <1>1, <1>2, <2>1, <3>1, GotoMoves
      <3>3. QED
        BY <2>1, <3>2
    <2>2. CASE Answer(q, "failed", NoTx) /\ UNCHANGED guards
      <3>1. Moved(q, "done", req[q].holds, NoTx, "failed")
        BY <1>1, <1>2, <2>2, GotoMoves DEF Reply
      <3>2. QED
        BY <2>2, <3>1
    <2>3. QED
      BY <2>1, <2>2 DEF DropGuard
  <1>5. /\ GuardsMoved(q)
        /\ DOMAIN guards' \subseteq Nonce /\ guards' \in [DOMAIN guards' -> Guard]
    <2>1. CASE guards' = GuardsWithout(n)
      BY <1>1, <1>3, <2>1, DeleteOwn
    <2>2. CASE UNCHANGED guards
      BY <1>2, <2>2, GuardsStay DEF GuardedTypeOK
    <2>3. QED
      BY <1>4, <2>1, <2>2
  <1>6. SessionsInv' /\ SessionsKept
    BY <1>1, SessionsUnchanged DEF GuardedInv
  <1>7. InSession(q) => ~holds
    BY <1>3, <1>4
  <1>8. ClaimSound(q)'
    BY <1>1, <1>3, <1>4, <1>6, <1>7 DEF Moved, ClaimSound, Owns, Owning, Claimed, Unclaimed,
                                        SessionsKept
  <1>9. MoneySound(q)'
    BY <1>1, <1>2, <1>3, <1>4 DEF Moved, MoneySound, Unpaid, Unclaimed, Paid, Failing,
                                  sessionVars
  <1>10. FailureSound(q)'
    BY <1>1, <1>2, <1>3, <1>4, <1>7 DEF Moved, FailureSound, Unclaimed, Undecided
  <1>11. SoundAt(q)'
    BY <1>8, <1>9, <1>10 DEF SoundAt
  <1>12. \A o \in DOMAIN req : Untouched(o)
    BY <1>1 DEF Untouched
  <1>13. QED
    BY <1>1, <1>2, <1>4, <1>5, <1>6, <1>11, <1>12, StepSafe DEF GuardedTypeOK

\* Crash: a transfer the process was waiting for keeps the claims that secure it.
LEMMA CrashSafe ==
    ASSUME GuardedInv, NEW q, Crash(q)
    PROVE  GuardedInv'
  <1>1. /\ q \in DOMAIN req /\ req[q].pc \notin {"done", "crashed"}
        /\ UNCHANGED <<sessionVars, guards, settlements, fees, landed, lost>>
        /\ Goto(q, "crashed")
    BY DEF Crash, Finished, At
  <1>2. pending' = pending \/ (pending' = pending \cup {q} /\ req[q].pc = "pay")
    BY DEF Crash, At
  <1>3. GuardedTypeOK /\ landed \cup pending \cup lost \cup DOMAIN settlements \subseteq DOMAIN req
    BY InvFacts
  <1>4. Moved(q, "crashed", req[q].holds, NoTx, "none")
    BY <1>1, <1>3, GotoMoves DEF PC
  <1>5. SessionsInv' /\ SessionsKept /\ GuardsMoved(q)
    BY <1>1, SessionsUnchanged, GuardsStay DEF GuardedInv
  <1>6. SoundAt(q)'
    BY <1>1, <1>2, <1>4, <1>5, CrashSound
  <1>7. \A o \in DOMAIN req : o # q => Untouched(o)
    BY <1>1, <1>2 DEF Untouched
  <1>8. landed' \cup pending' \cup lost' \cup DOMAIN settlements' \subseteq DOMAIN req
    BY <1>1, <1>2, <1>3
  <1>9. QED
    BY <1>1, <1>3, <1>4, <1>5, <1>6, <1>7, <1>8, StepSafe DEF GuardedTypeOK

-----------------------------------------------------------------------------
(* The steps that move no handler *)

\* Settled nonces stay settled and owned rows stay owned.
LEMMA SettledStays ==
    ASSUME landed \subseteq landed',
           \A x \in DOMAIN req : x \in DOMAIN req' /\ req'[x] = req[x],
           \A n \in DOMAIN guards : n \in DOMAIN guards' /\ guards'[n] = guards[n]
    PROVE  \A n, x : Settled(n, x) => Settled(n, x)'
  BY DEF Settled

\* Submit: a new request has claimed nothing.
LEMMA SubmitSafe ==
    ASSUME GuardedInv, NEW q \in Request, NEW scheme \in Scheme, NEW n \in Nonce,
           NEW t \in Token \cup {NoToken}, NEW amount \in Amount,
           Submit(q, scheme, n, t, amount)
    PROVE  GuardedInv'
  <1> DEFINE pc == IF scheme = "session" THEN "read" ELSE "guard"
             row == [pc |-> pc, scheme |-> scheme, nonce |-> n, token |-> t,
                     amount |-> amount, holds |-> FALSE, tx |-> NoTx, reply |-> "none"]
  <1>1. /\ q \notin DOMAIN req
        /\ req' = WithRow(req, q, row)
        /\ UNCHANGED <<sessionVars, guards, settlements, fees, pending, landed, lost>>
    BY DEF Submit
  <1>2. GuardedTypeOK /\ landed \cup pending \cup lost \cup DOMAIN settlements \subseteq DOMAIN req
    BY InvFacts
  <1>3. /\ row \in Handler /\ row.pc = pc /\ row.scheme = scheme /\ ~row.holds
        /\ row.reply = "none"
    BY DEF Handler, PC, Reply
  <1> HIDE DEF row
  <1>4. /\ DOMAIN req' = DOMAIN req \cup {q}
        /\ req' \in [DOMAIN req' -> Handler]
        /\ req'[q] = row
        /\ \A o \in DOMAIN req : req'[o] = req[o]
    BY <1>1, <1>2, <1>3 DEF WithRow, GuardedTypeOK
  <1>5. SessionsInv' /\ SessionsKept
    BY <1>1, SessionsUnchanged DEF GuardedInv
  <1>6. GuardedTypeOK'
    BY <1>1, <1>2, <1>4, <1>5 DEF GuardedTypeOK, SessionsInv
  <1>7. \A m, x : Settled(m, x) => Settled(m, x)'
    BY <1>1, <1>4, SettledStays
  <1>8. ASSUME NEW o \in DOMAIN req
        PROVE  SoundAt(o)'
    <2>1. SoundAt(o) /\ Untouched(o)
      BY <1>1 DEF GuardedInv, Untouched
    <2>2. QED
      BY <1>1, <1>4, <1>5, <1>7, <2>1, StaysSound
  <1>9. SoundAt(q)'
    <2>1. q \notin DOMAIN settlements
      BY <1>1, <1>2
    <2>2. QED
      BY <1>1, <1>2, <1>3, <1>4, <2>1
         DEF SoundAt, ClaimSound, MoneySound, FailureSound, Owning, Claimed, Unclaimed,
             Unpaid, Paid, Failing, InSession
  <1>10. \A m \in DOMAIN guards' : GuardSound(m)'
    BY <1>1, <1>4, <1>7 DEF GuardedInv, GuardSound
  <1>11. QED
    BY <1>1, <1>2, <1>4, <1>5, <1>6, <1>8, <1>9, <1>10 DEF GuardedInv

\* ResolveTransfer: a transfer nobody waits for is lost or still holds its claims.
LEMMA ResolveSafe ==
    ASSUME GuardedInv, NEW q, ResolveTransfer(q)
    PROVE  GuardedInv'
  <1>1. /\ q \in pending /\ pending' = pending \ {q}
        /\ landed' = landed \/ landed' = landed \cup {q}
        /\ UNCHANGED <<sessionVars, guards, settlements, fees, req, lost>>
    BY DEF ResolveTransfer
  <1>2. /\ GuardedTypeOK
        /\ landed \cup pending \cup lost \cup DOMAIN settlements \subseteq DOMAIN req
    BY InvFacts
  <1>3. q \in DOMAIN req
    BY <1>1, <1>2
  <1>4. SessionsInv' /\ SessionsKept
    BY <1>1, SessionsUnchanged DEF GuardedInv
  <1>5. GuardedTypeOK'
    BY <1>1, <1>2, <1>4 DEF GuardedTypeOK, SessionsInv
  <1>6. \A m, x : Settled(m, x) => Settled(m, x)'
    BY <1>1, SettledStays
  <1>7. ASSUME NEW o \in DOMAIN req, o # q
        PROVE  SoundAt(o)'
    <2>1. SoundAt(o) /\ Untouched(o)
      BY <1>1, <1>7 DEF GuardedInv, Untouched
    <2>2. QED
      BY <1>1, <1>4, <1>6, <2>1, StaysSound
  <1>8. SoundAt(q)'
    <2>1. ClaimSound(q) /\ MoneySound(q) /\ FailureSound(q)
      BY <1>3, InvFacts
    <2>2. Owns(q)' = Owns(q) /\ InSession(q)' = InSession(q)
      BY <1>1 DEF Owns, InSession
    <2>3. ClaimSound(q)'
      BY <1>1, <2>1, <2>2 DEF ClaimSound, MoneySound, sessionVars
    <2>4. MoneySound(q)'
      BY <1>1, <1>6, <2>1, <2>2 DEF MoneySound, Unpaid, Paid, Failing
    <2>5. FailureSound(q)'
      BY <1>1, <2>1, <2>2 DEF FailureSound, MoneySound
    <2>6. QED
      BY <2>3, <2>4, <2>5 DEF SoundAt
  <1>9. \A m \in DOMAIN guards' : GuardSound(m)'
    BY <1>1, <1>6 DEF GuardedInv, GuardSound
  <1>10. QED
    BY <1>1, <1>2, <1>4, <1>5, <1>7, <1>8, <1>9 DEF GuardedInv

\* TakeNonceElsewhere: a nonce of another route is nobody's.
LEMMA ElsewhereSafe ==
    ASSUME GuardedInv, NEW n \in Nonce, TakeNonceElsewhere(n)
    PROVE  GuardedInv'
  <1>1. /\ n \notin DOMAIN guards
        /\ guards' = WithRow(guards, n, [by |-> NoTx, tx |-> NoTx, settlement |-> NoTx])
        /\ UNCHANGED <<sessionVars, settlements, fees, req, pending, landed, lost>>
    BY DEF TakeNonceElsewhere
  <1>2. /\ GuardedTypeOK
        /\ landed \cup pending \cup lost \cup DOMAIN settlements \subseteq DOMAIN req
    BY InvFacts
  <1>3. /\ DOMAIN guards' = DOMAIN guards \cup {n}
        /\ guards' \in [DOMAIN guards' -> Guard]
        /\ guards'[n].by = NoTx /\ guards'[n].tx = NoTx
        /\ \A m \in DOMAIN guards : guards'[m] = guards[m]
    BY <1>1, <1>2, InsertGuard
  <1>4. SessionsInv' /\ SessionsKept
    BY <1>1, SessionsUnchanged DEF GuardedInv
  <1>5. GuardedTypeOK'
    BY <1>1, <1>2, <1>3, <1>4 DEF GuardedTypeOK, SessionsInv
  <1>6. \A m, x : Settled(m, x) => Settled(m, x)'
    BY <1>1, <1>3, SettledStays
  <1>7. \A o \in DOMAIN req : SoundAt(o)'
    <2> SUFFICES ASSUME NEW o \in DOMAIN req
                 PROVE  SoundAt(o)'
      OBVIOUS
    <2>1. SoundAt(o) /\ Untouched(o)
      BY <1>1 DEF GuardedInv, Untouched
    <2>2. QED
      BY <1>1, <1>3, <1>4, <1>6, <2>1, StaysSound
  <1>8. \A m \in DOMAIN guards' : GuardSound(m)'
    BY <1>1, <1>3, <1>6 DEF GuardedInv, GuardSound
  <1>9. QED
    BY <1>1, <1>2, <1>4, <1>5, <1>7, <1>8 DEF GuardedInv

\* A step of the session routes, or of none, moves no settle request.
LEMMA SessionOnlySafe ==
    ASSUME GuardedInv, SessionsInv', SessionsKept, UNCHANGED settleVars
    PROVE  GuardedInv'
  <1>1. UNCHANGED <<guards, settlements, fees, req, pending, landed, lost>>
    BY DEF settleVars
  <1>2. GuardedTypeOK'
    BY <1>1 DEF GuardedInv, GuardedTypeOK, SessionsInv
  <1>3. \A m, x : Settled(m, x) => Settled(m, x)'
    BY <1>1, SettledStays
  <1>4. \A o \in DOMAIN req : SoundAt(o)'
    <2> SUFFICES ASSUME NEW o \in DOMAIN req
                 PROVE  SoundAt(o)'
      OBVIOUS
    <2>1. SoundAt(o) /\ Untouched(o)
      BY <1>1 DEF GuardedInv, Untouched
    <2>2. QED
      BY <1>1, <1>3, <2>1, StaysSound
  <1>5. \A m \in DOMAIN guards : GuardSound(m)'
    BY <1>1, <1>3 DEF GuardedInv, GuardSound
  <1>6. QED
    BY <1>1, <1>2, <1>4, <1>5 DEF GuardedInv

-----------------------------------------------------------------------------
(* The invariant, and what it implies *)

\* The tables start empty.
LEMMA GuardedInitInv == GuardedInit => GuardedInv
  <1> SUFFICES ASSUME GuardedInit
               PROVE  GuardedInv
    OBVIOUS
  <1>1. /\ DOMAIN guards = {} /\ DOMAIN settlements = {} /\ DOMAIN req = {}
        /\ DOMAIN authorizing = {} /\ DOMAIN sessions = {}
    BY DEF GuardedInit, SessionsInit
  <1>2. SessionsTypeOK
    BY <1>1 DEF GuardedInit, SessionsInit, SessionsTypeOK
  <1>3. GuardedTypeOK
    BY <1>1, <1>2 DEF GuardedInit, GuardedTypeOK
  <1>4. SessionsInv
    BY <1>1, <1>2 DEF SessionsInv, OneSessionPerChallenge
  <1>5. QED
    BY <1>1, <1>3, <1>4 DEF GuardedInit, GuardedInv

\* Every step keeps the invariant.
LEMMA GuardedStep ==
    ASSUME GuardedInv, [GuardedNext]_guardedVars
    PROVE  GuardedInv'
  <1>1. CASE SessionStep /\ UNCHANGED settleVars
    BY <1>1, SessionStepSafe, SessionOnlySafe DEF GuardedInv
  <1>2. CASE \E q \in Request, scheme \in Scheme, n \in Nonce,
                t \in Token \cup {NoToken}, amount \in Amount :
                Submit(q, scheme, n, t, amount)
    BY <1>2, SubmitSafe
  <1>3. ASSUME NEW q \in Request, HandlerStep(q)
        PROVE  GuardedInv'
    BY <1>3, ReadSafe, ReserveNonceSafe, AnswerExistingSafe, ReserveBudgetSafe,
       RefuseBudgetSafe, InsertPendingSafe, LinkSafe, PaySafe, RecordSafe, SetTxHashSafe,
       InnerCatchSafe, CatchFailedSafe, ReleaseSafe, DropGuardSafe DEF HandlerStep
  <1>4. CASE \E q \in Request : ResolveTransfer(q)
    BY <1>4, ResolveSafe
  <1>5. CASE \E q \in Request : Crash(q)
    BY <1>5, CrashSafe
  <1>6. CASE \E n \in Nonce : TakeNonceElsewhere(n)
    BY <1>6, ElsewhereSafe
  <1>7. CASE UNCHANGED guardedVars
    BY <1>7, SessionsUnchanged, SessionOnlySafe DEF GuardedInv, guardedVars
  <1>8. QED
    BY <1>1, <1>2, <1>3, <1>4, <1>5, <1>6, <1>7 DEF GuardedNext

\* The invariant holds throughout.
LEMMA GuardedInvariant == GuardedSpec => []GuardedInv
  <1>1. GuardedInv /\ [GuardedNext]_guardedVars => GuardedInv'
    BY GuardedStep
  <1>2. QED
    BY <1>1, GuardedInitInv, PTL DEF GuardedSpec

\* The settle and authorize requests and their tables keep their types.
THEOREM GuardedTypeCorrect == GuardedSpec => []GuardedTypeOK
  <1>1. GuardedInv => GuardedTypeOK
    BY DEF GuardedInv
  <1>2. QED
    BY <1>1, GuardedInvariant, PTL

\* However many authorize requests race for a signed challenge, it opens at most one
\* session.
THEOREM ChallengeSafety == GuardedSpec => []OneSessionPerChallenge
  <1>1. GuardedInv => OneSessionPerChallenge
    BY DEF GuardedInv, SessionsInv
  <1>2. QED
    BY <1>1, GuardedInvariant, PTL

\* All success replies for a nonce name the same executed transfer, which is why
\* POST /settle may be retried.
THEOREM RepliesSafety == GuardedSpec => []RepliesAgree
  <1>1. GuardedInv => RepliesAgree
    <2> SUFFICES ASSUME GuardedInv, NEW q \in DOMAIN req, req[q].reply = "ok"
                 PROVE  /\ req[q].tx \in landed
                        /\ req[req[q].tx].nonce = req[q].nonce
                        /\ \A o \in DOMAIN req :
                              req[o].reply = "ok" /\ req[o].nonce = req[q].nonce =>
                                 req[o].tx = req[q].tx
      BY DEF RepliesAgree
    <2>1. \A o \in DOMAIN req : req[o].reply = "ok" => Settled(req[o].nonce, req[o].tx)
      BY InvFacts DEF MoneySound
    <2>2. QED
      BY <2>1 DEF Settled
  <1>2. QED
    BY <1>1, GuardedInvariant, PTL

\* A nonce is paid twice only if the handler lost sight of a transfer and then gave
\* the nonce back.
THEOREM SecondPaymentSafety == GuardedSpec => []SecondPaymentHasCause
  <1>1. GuardedInv => SecondPaymentHasCause
    <2> SUFFICES ASSUME GuardedInv, NEW q \in landed, NEW o \in landed, q # o,
                        req[q].nonce = req[o].nonce,
                        \A x \in {q, o} : x \notin lost \/ req[x].scheme = "plain"
                 PROVE  FALSE
      BY DEF SecondPaymentHasCause
    <2>1. q \in DOMAIN req /\ o \in DOMAIN req
      BY InvFacts
    <2>2. Owns(q) /\ Owns(o)
      BY <2>1, InvFacts DEF MoneySound, ClaimSound
    <2>3. QED
      BY <2>2 DEF Owns
  <1>2. QED
    BY <1>1, GuardedInvariant, PTL

\* A request answered with a failure has paid nothing it knows of and has no confirmed
\* settlement row; it gave its budget back unless the catch block threw, and what it
\* still holds is under its own unsettled guard row.
THEOREM RefusalSafety == GuardedSpec => []RefusalIsClean
  <1>1. GuardedInv => RefusalIsClean
    BY InvFacts DEF RefusalIsClean, FailureSound, ClaimSound, Owns, At
  <1>2. QED
    BY <1>1, GuardedInvariant, PTL

=============================================================================
