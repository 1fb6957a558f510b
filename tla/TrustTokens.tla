----------------------------- MODULE TrustTokens -----------------------------
(***************************************************************************)
(* The trust tokens of the gate (internal/gate/token.go, epoch.go) and the *)
(* step-up protocol across the two planes: the Pass server hands a session *)
(* a receipt, the control plane redeems it for a proof bound to the live   *)
(* socket, the edge honours the proof.  Verdict tokens are minted on an    *)
(* ALLOW evaluation.                                                       *)
(*                                                                         *)
(* A token is the record of what was minted; Payload is the string the     *)
(* HMAC signs, as the fields it splits into.  The HMAC makes any other     *)
(* string fail with bad_sig, so what a request can usefully present was    *)
(* minted: all three kinds are signed with one key, and the verifiers see  *)
(* the fields and nothing else.  A session id is the value of a cookie,    *)
(* put into the payload as it is: it is the sequence of the fields it      *)
(* splits into, one unless it holds the separator.  NoSid is a request     *)
(* without a session cookie.  tkReq holds a request between its two        *)
(* readings of the epoch (Accepted calls epochAt twice).                   *)
(***************************************************************************)
EXTENDS Integers, FiniteSets, Sequences

CONSTANTS SidFields, Sids, Binds, EpochWindow, TokenTTL, ReceiptTTL, ReceiptSkew,
          TokMaxTime, MaxBumps, MaxMinted, MaxReceipts, NoSid

ASSUME TokensAssumption ==
    /\ EpochWindow \in Nat \ {0} /\ TokenTTL \in Nat
    /\ ReceiptTTL \in Nat /\ ReceiptSkew \in Nat
    /\ TokMaxTime \in Nat /\ MaxBumps \in Nat /\ MaxMinted \in Nat /\ MaxReceipts \in Nat
    /\ NoSid \notin Sids /\ Sids \subseteq Seq(SidFields) \ {<<>>}

VARIABLES
    tkNow,       \* the wall clock, in seconds of the model
    tkBump,      \* EpochManager.bump
    tkSolved,    \* sessions that ever solved a Pass (a newer instance may be unsolved)
    tkReceipts,  \* step-up receipts handed out
    tkTokens,    \* tokens minted: hmn_vt and hmn_su cookies
    tkReq,       \* the request being verified, at most one
    tkHonoured   \* the request whose token the last step honoured

tkVars == <<tkNow, tkBump, tkSolved, tkReceipts, tkTokens, tkReq, tkHonoured>>

EpochAt(offset) == tkNow \div EpochWindow + tkBump + offset

IssueVerdictToken(sid, bind) ==
    [kind |-> "vt", sid |-> sid, bind |-> bind, exp |-> tkNow + TokenTTL, epoch |-> EpochAt(0)]
IssueStepUpToken(sid, bind) ==
    [kind |-> "su", sid |-> sid, bind |-> bind, exp |-> tkNow + TokenTTL, epoch |-> EpochAt(0)]
IssueStepUpReceipt(sid) == [kind |-> "sur", sid |-> sid, exp |-> tkNow + ReceiptTTL]

\* What each kind spells. The kind itself is no field of a verdict token.
Payload(tok) ==
    CASE tok.kind = "vt" -> tok.sid \o <<tok.bind, tok.exp, tok.epoch>>
      [] tok.kind = "su" -> <<"su">> \o tok.sid \o <<tok.bind, tok.exp, tok.epoch>>
      [] tok.kind = "sur" -> <<"sur">> \o tok.sid \o <<tok.exp>>

\* Faulty: the epoch is left out, expiry and binding alone decide.
BoundNoEpoch(p, bind, sid, now, epochs) ==
    /\ p[3] \in Int /\ now <= p[3]
    /\ sid # NoSid => <<p[1]>> = sid
    /\ p[2] = bind

\* The four fields that both tokens end in. What is no number is an expiry in 1970.
LiveAndBound(p, bind, sid, now, epochs) ==
    /\ p[3] \in Int /\ now <= p[3]
    /\ p[4] \in epochs
    /\ sid # NoSid => <<p[1]>> = sid
    /\ p[2] = bind

VerifyVerdictToken(p, bind, sid, now, epochs) ==
    Len(p) = 4 /\ LiveAndBound(p, bind, sid, now, epochs)

VerifyStepUpToken(p, bind, sid, now, epochs) ==
    Len(p) = 5 /\ p[1] = "su" /\ LiveAndBound(Tail(p), bind, sid, now, epochs)

VerifyStepUpReceipt(p, sid, now) ==
    /\ Len(p) = 3 /\ p[1] = "sur"
    /\ p[3] \in Int /\ now - ReceiptSkew <= p[3]
    /\ sid # NoSid /\ <<p[2]>> = sid

TokensInit ==
    /\ tkNow = 0 /\ tkBump = 0 /\ tkSolved = {} /\ tkReceipts = {} /\ tkTokens = {}
    /\ tkReq = {} /\ tkHonoured = {}

\* The receipts clients still hold; forgetting one is the client's doing.
HandOut(rc) ==
    \E kept \in SUBSET tkReceipts :
        /\ Cardinality(kept) < MaxReceipts
        /\ tkReceipts' = kept \cup {rc}

\* handlePassSolve clears the instance (what that takes is PassChallenge's
\* subject) and, when the planes share a key, hands out a receipt.
SolvePass(sid) ==
    /\ tkSolved' = tkSolved \cup {sid}
    /\ HandOut(IssueStepUpReceipt(sid))
    /\ UNCHANGED <<tkNow, tkBump, tkTokens, tkReq>> /\ tkHonoured' = {}

\* The alreadySolved branch of handlePassSolve issues a fresh receipt.
Repoll(sid) ==
    /\ sid \in tkSolved
    /\ HandOut(IssueStepUpReceipt(sid))
    /\ UNCHANGED <<tkNow, tkBump, tkSolved, tkTokens, tkReq>> /\ tkHonoured' = {}

\* A cookie jar of MaxMinted cookies: a new one may take an older one's place.
Mint(tok) ==
    /\ \E kept \in SUBSET tkTokens :
         Cardinality(kept) < MaxMinted /\ tkTokens' = kept \cup {tok}
    /\ UNCHANGED <<tkNow, tkBump, tkSolved, tkReceipts, tkReq>> /\ tkHonoured' = {}

\* issueVerdictTokenOnAllow, for a session id ensureSession made or found.
IssueVerdictTokenOnAllow(sid, bind) == Mint(IssueVerdictToken(sid, bind))

\* A control plane that takes any live receipt, whichever session it names.
HandleStepUpAnyone(sid, bind, rc) ==
    /\ sid # NoSid /\ tkNow - ReceiptSkew <= rc.exp
    /\ Mint(IssueStepUpToken(sid, bind))

\* POST /stepup: 403 unless the receipt is live and names this session; the
\* proof is bound to the socket the gate sees.
HandleStepUp(sid, bind, rc) ==
    /\ VerifyStepUpReceipt(Payload(rc), sid, tkNow)
    /\ Mint(IssueStepUpToken(sid, bind))

\* A request presents a token at the edge: the clock and the first epoch are read.
Present(tok) ==
    /\ tkReq = {}
    /\ tkReq' = {[tok |-> tok, now |-> tkNow, first |-> EpochAt(0)]}
    /\ tkHonoured' = {}
    /\ UNCHANGED <<tkNow, tkBump, tkSolved, tkReceipts, tkTokens>>

\* The second epoch, then the verdict of verifyVerdictToken (hasValidToken,
\* verdictTokenGate) or verifyStepUpToken (hasValidStepUp) for the cookie and the
\* socket the request came with.
HasValid(q, kind, sid, bind) ==
    /\ tkReq' = {}
    /\ tkHonoured' = {h \in {[tok |-> q.tok, kind |-> kind, sid |-> sid, bind |-> bind, now |-> q.now, first |-> q.first]} :
                        IF kind = "su" THEN VerifyStepUpToken(Payload(h.tok), bind, sid, h.now, {h.first, EpochAt(-1)})
                        ELSE VerifyVerdictToken(Payload(h.tok), bind, sid, h.now, {h.first, EpochAt(-1)})}
    /\ UNCHANGED <<tkNow, tkBump, tkSolved, tkReceipts, tkTokens>>

Advance ==
    /\ tkBump < MaxBumps
    /\ tkBump' = tkBump + 1
    /\ UNCHANGED <<tkNow, tkSolved, tkReceipts, tkTokens, tkReq>> /\ tkHonoured' = {}

TokensTick ==
    /\ tkNow < TokMaxTime
    /\ tkNow' = tkNow + 1
    /\ UNCHANGED <<tkBump, tkSolved, tkReceipts, tkTokens, tkReq>> /\ tkHonoured' = {}

TokensNext ==
    \/ \E sid \in Sids : SolvePass(sid)
    \/ \E sid \in Sids : Repoll(sid)
    \/ \E sid \in Sids, bind \in Binds : IssueVerdictTokenOnAllow(sid, bind)
    \/ \E sid \in Sids \cup {NoSid}, bind \in Binds, rc \in tkReceipts \cup tkTokens : HandleStepUp(sid, bind, rc)
    \/ \E tok \in tkTokens \cup tkReceipts : Present(tok)
    \/ \E q \in tkReq, kind \in {"vt", "su"}, sid \in Sids \cup {NoSid}, bind \in Binds : HasValid(q, kind, sid, bind)
    \/ Advance
    \/ TokensTick

TokensSpec == TokensInit /\ [][TokensNext]_tkVars
-----------------------------------------------------------------------------
ReceiptType == [kind : {"sur"}, sid : Sids, exp : Nat]
TokenType == [kind : {"vt", "su"}, sid : Sids, bind : Binds, exp : Nat, epoch : Int]

HonouredType == [tok : TokenType \cup ReceiptType, kind : {"vt", "su"}, sid : Sids \cup {NoSid}, bind : Binds,
                 now : Nat, first : Int]

\* Every variable has the shape of the Go value it stands for.
TokensTypeOK ==
    /\ tkNow \in Nat /\ tkBump \in Nat /\ tkSolved \subseteq Sids
    /\ tkReceipts \subseteq ReceiptType
    /\ tkTokens \subseteq TokenType
    /\ tkReq \subseteq [tok : TokenType \cup ReceiptType, now : Nat, first : Int] /\ tkHonoured \subseteq HonouredType

\* A session id without the separator, the only kind for which the fields of a payload
\* determine what was minted.
Plain(sid) == Len(sid) = 1

\* The step-up proof the edge honours was earned: no proof (and no receipt)
\* exists for a session that had not solved a Pass by then, and one is honoured
\* only from the socket it was redeemed from and, when the request carries a
\* session, for that session; nothing else that was signed for a plain session id
\* stands in for it.  This is the floor's promise: scoring alone never buys a
\* step-up (token.go:31).
StepUpEarned ==
    /\ \A rc \in tkReceipts : rc.sid \in tkSolved
    /\ \A tok \in tkTokens : tok.kind = "su" => tok.sid \in tkSolved
    /\ \A q \in tkHonoured : q.kind = "su" /\ Plain(q.tok.sid) =>
         q.tok.kind = "su" /\ q.bind = q.tok.bind /\ q.sid \in {q.tok.sid, NoSid}

\* A token's accepted life is bounded by its expiry and by one grace bucket,
\* also when the clock or a manual Advance moves between the two readings of
\* the epoch: the request that is honoured was at most one epoch past the
\* minting (epoch.go:23).
OneGraceBucket ==
    \A q \in {h \in tkHonoured : Plain(h.tok.sid)} :
        /\ q.now <= q.tok.exp
        /\ q.first - 1 <= q.tok.epoch
        /\ q.tok.exp - TokenTTL < (q.now \div EpochWindow + 1) * EpochWindow
        /\ q.now - (q.tok.exp - TokenTTL) < 2 * EpochWindow
=============================================================================
