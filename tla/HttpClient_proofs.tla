-------------------------- MODULE HttpClient_proofs --------------------------
(***************************************************************************)
(* Machine-checked proofs about HttpClient, for every set of requests and  *)
(* any number of tokens: one refresh at a time, no request waits for a     *)
(* refresh that is over, and none is sent again with the token that was    *)
(* rejected.                                                               *)
(***************************************************************************)
EXTENDS HttpClient, TLAPS

RefreshFailed == \E s \in Req : pc[s] \in {"refreshFailed", "cancelled"}

(* A request under way carries a token.                                    *)
UnderWayCarries ==
    \A r \in Req : pc[r] \in {"sent", "refreshing", "waiting", "woken"} => carried[r] # 0

(* A request that is woken finds another token than the one it carried.    *)
WokenFindsAnother ==
    \A r \in Req : pc[r] = "woken" => token # carried[r] \/ RefreshFailed

(* A request that is to be sent again may be.                              *)
RepeatLeft ==
    \A r \in Req : pc[r] \in {"refreshing", "waiting", "woken"} => repeated[r] < 2

IInv ==
    /\ TypeOK
    /\ OneRefresh
    /\ NoLostWakeup
    /\ AccountOfToken
    /\ UnderWayCarries
    /\ WokenFindsAnother
    /\ RepeatLeft

(* There is no token and no request in the initial state.                  *)
LEMMA InitIInv == Init => IInv
<1> SUFFICES ASSUME Init
             PROVE  IInv
  OBVIOUS
<1>1. TypeOK
  <2>1. 0 \in 0..0 /\ 0 \in 0..2 /\ 0 \in 0..MaxTokens
    BY MaxTokensAssumption
  <2>2. QED
    BY <2>1 DEF Init, TypeOK, PC
<1>2. OneRefresh /\ NoLostWakeup /\ AccountOfToken
  BY DEF Init, OneRefresh, NoLostWakeup, AccountOfToken
<1>3. UnderWayCarries /\ WokenFindsAnother /\ RepeatLeft
  BY DEF Init, UnderWayCarries, WokenFindsAnother, RepeatLeft
<1>4. QED
  BY <1>1, <1>2, <1>3 DEF IInv

(* What Issue and SetCredentials do to the tokens.                         *)
LEMMA IssueToken ==
  ASSUME TypeOK, AccountOfToken, Issue, SetCredentials(issued')
  PROVE  /\ issued' = issued + 1 /\ issued' \in 0..MaxTokens
         /\ token' = issued' /\ token' \in 1..issued'
         /\ account' \in 0..issued' /\ name' \in 0..issued'
         /\ accepted' \in SUBSET (1..issued')
         /\ undecodable' \in SUBSET (1..issued') /\ nameless' \in SUBSET (1..issued')
         /\ AccountOfToken'
         /\ \A r \in Req : carried[r] \in 0..issued' /\ carried[r] # token'
<1>1. issued' = issued + 1 /\ issued \in Nat /\ issued' \in 0..MaxTokens
  BY MaxTokensAssumption DEF TypeOK, Issue
<1>2. 1..issued \subseteq 1..issued' /\ issued' \in 1..issued' /\ 0..issued \subseteq 0..issued'
  BY <1>1
<1>3. /\ accepted' \in SUBSET (1..issued') /\ undecodable' \in SUBSET (1..issued')
      /\ nameless' \in SUBSET (1..issued')
  BY <1>2 DEF TypeOK, Issue
<1>4. token' = issued' /\ account' \in {account, issued'} /\ name' \in {name, issued'}
  BY DEF SetCredentials, AccountAfter, NameAfter
<1>5. AccountOfToken'
  <2>1. account' = issued' \/ (account' = account /\ name' = name /\ issued' \in undecodable')
    BY DEF SetCredentials, AccountAfter, NameAfter
  <2>2. nameless \subseteq nameless'
    BY DEF Issue
  <2>3. account' = issued' /\ issued' \notin nameless' => name' = account'
    BY <2>2 DEF SetCredentials, AccountAfter, NameAfter, AccountOfToken
  <2>4. QED
    BY <1>4, <2>1, <2>2, <2>3 DEF AccountOfToken
<1>6. \A r \in Req : carried[r] \in 0..issued
  BY DEF TypeOK
<1>7. account' \in 0..issued' /\ name' \in 0..issued'
  BY <1>2, <1>4 DEF TypeOK
<1>8. \A r \in Req : carried[r] \in 0..issued' /\ carried[r] # issued'
  BY <1>1, <1>2, <1>6
<1>9. QED
  BY <1>1, <1>2, <1>3, <1>4, <1>5, <1>7, <1>8

(* Setting the event, and ending the refresh of r in any way, leaves no    *)
(* refresh and nobody waiting.                                             *)
LEMMA EventSet ==
  ASSUME IInv, NEW r \in Req, RefreshEnds(r),
         NEW q \in PC \ {"refreshing", "waiting", "woken"},
         pc' = [WaitersWoken EXCEPT ![r] = q]
  PROVE  /\ pc' \in [Req -> PC]
         /\ pc'[r] = q
         /\ OneRefresh' /\ NoLostWakeup'
         /\ \A s \in Req \ {r} : pc'[s] = IF pc[s] = "waiting" THEN "woken" ELSE pc[s]
<1>1. WaitersWoken \in [Req -> PC]
  BY DEF WaitersWoken, IInv, TypeOK, PC
<1>2. pc' \in [Req -> PC] /\ pc'[r] = q
  BY <1>1
<1>3. \A s \in Req \ {r} : pc'[s] = IF pc[s] = "waiting" THEN "woken" ELSE pc[s]
  BY <1>1 DEF WaitersWoken
<1>4. renewing' = FALSE /\ pc[r] = "refreshing"
  BY DEF RefreshEnds
<1>5. \A s \in Req : pc'[s] # "refreshing" /\ pc'[s] # "waiting"
  BY <1>2, <1>3, <1>4 DEF IInv, OneRefresh
<1>6. QED
  BY <1>2, <1>3, <1>4, <1>5 DEF OneRefresh, NoLostWakeup

(* A step that changes at most the pc of one request and the empty token,  *)
(* ends no refresh and wakes nobody, keeps the invariant.                  *)
LEMMA OneMoves ==
  ASSUME IInv, NEW r \in Req, NEW q \in PC \ {"refreshing", "woken"},
         pc[r] \in {"sent", "waiting", "woken"},
         pc' = [pc EXCEPT ![r] = q],
         q \in {"sent", "waiting"} \cup Ended,
         q = "waiting" => renewing /\ repeated[r] < 2,
         token' \in {0, token},
         UNCHANGED <<identity, server, renewing, carried, repeated>>
  PROVE  IInv'
<1>1. \A s \in Req : pc'[s] = IF s = r THEN q ELSE pc[s]
  BY DEF IInv, TypeOK
<1>2. TypeOK'
  BY DEF IInv, TypeOK, identity, server, tokens
<1>3. OneRefresh' /\ NoLostWakeup'
  BY <1>1 DEF IInv, OneRefresh, NoLostWakeup, Ended
<1>4. AccountOfToken' /\ UnderWayCarries' /\ RepeatLeft'
  BY <1>1 DEF IInv, AccountOfToken, UnderWayCarries, RepeatLeft, identity, server, tokens, Ended
<1>5. WokenFindsAnother'
  <2>1. RefreshFailed => RefreshFailed'
    BY <1>1 DEF RefreshFailed
  <2>2. QED
    BY <1>1, <2>1 DEF IInv, WokenFindsAnother, UnderWayCarries, Ended
<1>6. QED
  BY <1>2, <1>3, <1>4, <1>5 DEF IInv

(* Steps of the server and of authenticate().                              *)
LEMMA StepTokens ==
  ASSUME IInv, (\E t \in 1..issued : Expire(t)) \/ Authenticate
  PROVE  IInv'
<1>1. CASE \E t \in 1..issued : Expire(t)
  BY <1>1 DEF Expire, credentials, identity, tokens, IInv, TypeOK, OneRefresh, NoLostWakeup, AccountOfToken,
     UnderWayCarries, WokenFindsAnother, RefreshFailed, RepeatLeft
<1>2. CASE Authenticate
  <2>1. TypeOK' /\ AccountOfToken' /\ \A r \in Req : carried[r] # token'
    BY <1>2, IssueToken DEF IInv, TypeOK, Authenticate
  <2>2. QED
    BY <1>2, <2>1 DEF Authenticate, IInv, OneRefresh, NoLostWakeup, UnderWayCarries,
       WokenFindsAnother, RepeatLeft
<1>3. QED
  BY <1>1, <1>2

(* A request that starts or goes on with the current token.                *)
LEMMA StepAttempt ==
  ASSUME IInv, NEW r \in Req, Request(r) \/ Resume(r)
  PROVE  IInv'
<1>1. PICK n \in 0..2 : Attempt(r, n, token, pc)
  BY DEF Request, Resume, IInv, TypeOK, RepeatLeft
<1>2. pc[r] \in {"idle", "woken"} /\ UNCHANGED <<credentials, server, renewing>>
  BY DEF Request, Resume
<1>3. PICK q \in {"sent", "unauthorized"} : pc' = [pc EXCEPT ![r] = q]
  BY <1>1 DEF Attempt
<1>4. \A s \in Req : pc'[s] = IF s = r THEN q ELSE pc[s]
  BY <1>3 DEF IInv, TypeOK
<1>5. \A s \in Req : carried'[s] = IF s = r /\ token # 0 THEN token ELSE carried[s]
  BY <1>1 DEF Attempt, IInv, TypeOK
<1>6. TypeOK'
  BY <1>1, <1>2, <1>3 DEF Attempt, credentials, identity, server, tokens, IInv, TypeOK, PC, Ended
<1>7. OneRefresh' /\ NoLostWakeup' /\ AccountOfToken'
  BY <1>2, <1>4 DEF IInv, OneRefresh, NoLostWakeup, AccountOfToken, credentials, identity, server, tokens
<1>8. UnderWayCarries'
  BY <1>1, <1>3, <1>4, <1>5 DEF Attempt, IInv, UnderWayCarries, TypeOK
<1>9. WokenFindsAnother'
  <2>1. RefreshFailed => RefreshFailed'
    BY <1>2, <1>4 DEF RefreshFailed
  <2>2. QED
    BY <1>2, <1>4, <1>5, <2>1 DEF IInv, WokenFindsAnother, credentials
<1>10. RepeatLeft'
  BY <1>1, <1>3, <1>4 DEF Attempt, IInv, RepeatLeft, TypeOK
<1>11. QED
  BY <1>6, <1>7, <1>8, <1>9, <1>10 DEF IInv

(* A request starts a refresh: it is the only one, for the event is set.   *)
LEMMA StepRefresh ==
  ASSUME IInv, NEW r \in Req, Refresh(r)
  PROVE  IInv'
<1>1. /\ pc[r] = "sent" /\ repeated[r] < 2 /\ ~renewing /\ renewing'
      /\ pc' = [pc EXCEPT ![r] = "refreshing"]
      /\ UNCHANGED <<credentials, server, carried, repeated>>
  BY DEF Refresh, Rejected, MayRepeat, MayRenew
<1>2. \A s \in Req : pc'[s] = IF s = r THEN "refreshing" ELSE pc[s]
  BY <1>1 DEF IInv, TypeOK
<1>3. TypeOK'
  BY <1>1 DEF credentials, identity, server, tokens, IInv, TypeOK, PC
<1>4. OneRefresh' /\ NoLostWakeup'
  BY <1>1, <1>2 DEF IInv, OneRefresh, NoLostWakeup
<1>5. AccountOfToken' /\ UnderWayCarries' /\ RepeatLeft'
  BY <1>1, <1>2 DEF IInv, AccountOfToken, UnderWayCarries, RepeatLeft, credentials, identity,
     server, tokens
<1>6. WokenFindsAnother'
  BY <1>1, <1>2 DEF IInv, WokenFindsAnother, RefreshFailed, credentials
<1>7. QED
  BY <1>3, <1>4, <1>5, <1>6 DEF IInv

(* The other steps of a request: it waits, gives up, ends or is cancelled. *)
LEMMA StepRequest ==
  ASSUME IInv, NEW r \in Req,
         Answer(r) \/ Fail(r) \/ Wait(r) \/ GiveUp(r) \/ CancelRequest(r)
  PROVE  IInv'
<1>1. CASE Wait(r)
  <2>1. renewing /\ repeated[r] < 2 /\ pc[r] = "sent" /\ pc' = [pc EXCEPT ![r] = "waiting"]
        /\ token' = token
    BY <1>1 DEF Wait, Rejected, MayRepeat, MayRenew, AwaitRenewal, IInv, TypeOK, credentials
  <2>2. QED
    BY <1>1, <2>1, OneMoves DEF Wait, credentials, PC
<1>2. CASE Answer(r) \/ Fail(r) \/ GiveUp(r) \/ CancelRequest(r)
  <2>1. PICK q \in Ended : pc' = [pc EXCEPT ![r] = q]
    BY <1>2 DEF Answer, Fail, GiveUp, CancelRequest, Ended
  <2>2. pc[r] \in {"sent", "waiting", "woken"} /\ token' \in {0, token}
        /\ UNCHANGED <<identity, server, renewing, carried, repeated>>
    BY <1>2 DEF Answer, Fail, GiveUp, CancelRequest, Rejected, credentials
  <2>3. q \in PC \ {"refreshing", "woken"} /\ q # "waiting"
    BY <2>1 DEF PC, Ended
  <2>4. QED
    BY <2>1, <2>2, <2>3, OneMoves
<1>3. QED
  BY <1>1, <1>2

(* A refresh that brings no new token: it fails, is denied or cancelled.   *)
LEMMA StepNoToken ==
  ASSUME IInv, NEW r \in Req, FailRefresh(r) \/ DenyRefresh(r) \/ CancelRefresh(r)
  PROVE  IInv'
<1>1. PICK q \in {"refreshFailed", "unauthorized", "cancelled"} :
         /\ pc' = [WaitersWoken EXCEPT ![r] = q]
         /\ IF q = "unauthorized" THEN token' = 0 ELSE token' = token
  BY DEF FailRefresh, DenyRefresh, CancelRefresh, credentials
<1>2. RefreshEnds(r) /\ renewing' = FALSE /\ pc[r] = "refreshing"
      /\ UNCHANGED <<identity, server, carried, repeated>>
  BY DEF FailRefresh, DenyRefresh, CancelRefresh, credentials, RefreshEnds
<1>3. q \in PC \ {"refreshing", "waiting", "woken"}
  BY <1>1 DEF PC, Ended
<1>4. /\ pc' \in [Req -> PC]
      /\ pc'[r] = q
      /\ OneRefresh' /\ NoLostWakeup'
      /\ \A s \in Req \ {r} : pc'[s] = IF pc[s] = "waiting" THEN "woken" ELSE pc[s]
  BY <1>1, <1>2, <1>3, EventSet
<1>5. TypeOK'
  <2>1. issued \in Nat /\ 0 \in 0..issued
    BY MaxTokensAssumption DEF IInv, TypeOK
  <2>2. token' \in 0..issued
    BY <1>1, <2>1 DEF IInv, TypeOK
  <2>3. UNCHANGED <<account, name, issued, accepted, undecodable, nameless>>
    BY <1>2 DEF identity, server, tokens
  <2>4. QED
    BY <1>2, <1>4, <2>2, <2>3 DEF IInv, TypeOK
<1>6. AccountOfToken' /\ UnderWayCarries' /\ RepeatLeft'
  BY <1>1, <1>2, <1>4 DEF IInv, AccountOfToken, UnderWayCarries, RepeatLeft, identity, server, tokens
<1>7. WokenFindsAnother'
  BY <1>1, <1>2, <1>4, <1>6 DEF IInv, WokenFindsAnother, UnderWayCarries, RefreshFailed
<1>8. QED
  BY <1>4, <1>5, <1>6, <1>7 DEF IInv

(* A refresh that brings a new token.                                      *)
LEMMA StepRenew ==
  ASSUME IInv, NEW r \in Req, Renew(r)
  PROVE  IInv'
<1>1. /\ issued' \in 0..MaxTokens /\ 0..issued \subseteq 0..issued'
      /\ token' = issued' /\ token' \in 1..issued' /\ account' \in 0..issued'
      /\ name' \in 0..issued' /\ nameless' \in SUBSET (1..issued')
      /\ accepted' \in SUBSET (1..issued') /\ undecodable' \in SUBSET (1..issued')
      /\ AccountOfToken'
      /\ \A s \in Req : carried[s] \in 0..issued' /\ carried[s] # token'
  BY IssueToken, MaxTokensAssumption DEF IInv, Renew, TypeOK
<1>2. RefreshEnds(r) /\ renewing' = FALSE /\ pc[r] = "refreshing" /\ repeated[r] < 2
  BY DEF Renew, RefreshEnds, IInv, RepeatLeft
<1>3. PICK q \in {"refreshFailed", "sent"} :
         /\ pc' = [WaitersWoken EXCEPT ![r] = q]
         /\ q = "refreshFailed" => UNCHANGED <<carried, repeated>>
         /\ q = "sent" => /\ carried' = [carried EXCEPT ![r] = issued']
                          /\ repeated' = [repeated EXCEPT ![r] = repeated[r] + 1]
  BY <1>1 DEF Renew, Attempt
<1>4. q \in PC \ {"refreshing", "waiting", "woken"}
  BY <1>3 DEF PC, Ended
<1>5. /\ pc' \in [Req -> PC]
      /\ pc'[r] = q
      /\ OneRefresh' /\ NoLostWakeup'
      /\ \A s \in Req \ {r} : pc'[s] = IF pc[s] = "waiting" THEN "woken" ELSE pc[s]
  BY <1>2, <1>3, <1>4, EventSet
<1>6. /\ carried' \in [Req -> 0..issued']
      /\ \A s \in Req \ {r} : carried'[s] = carried[s]
      /\ carried'[r] # 0 \/ q = "refreshFailed"
  <2>1. carried \in [Req -> 0..issued']
    BY <1>1 DEF IInv, TypeOK
  <2>2. QED
    BY <1>1, <1>3, <2>1
<1>7. /\ repeated' \in [Req -> 0..2]
      /\ \A s \in Req \ {r} : repeated'[s] = repeated[s]
  BY <1>2, <1>3 DEF IInv, TypeOK
<1>8. TypeOK'
  <2>1. token' \in 0..issued'
    BY <1>1
  <2>2. renewing' \in BOOLEAN
    BY <1>2
  <2>3. QED
    BY <1>1, <1>5, <1>6, <1>7, <2>1, <2>2 DEF TypeOK
<1>9. UnderWayCarries' /\ RepeatLeft'
  BY <1>3, <1>5, <1>6, <1>7 DEF IInv, UnderWayCarries, RepeatLeft
<1>10. WokenFindsAnother'
  BY <1>1, <1>3, <1>5, <1>6 DEF WokenFindsAnother
<1>11. QED
  BY <1>1, <1>5, <1>8, <1>9, <1>10 DEF IInv

(* Every step keeps the invariant.                                         *)
LEMMA StepIInv == IInv /\ [Next]_vars => IInv'
<1> SUFFICES ASSUME IInv, [Next]_vars
             PROVE  IInv'
  OBVIOUS
<1>1. CASE UNCHANGED vars
  BY <1>1 DEF vars, IInv, TypeOK, OneRefresh, NoLostWakeup, AccountOfToken, UnderWayCarries,
     WokenFindsAnother, RefreshFailed, RepeatLeft
<1>2. CASE Next
  BY <1>2, StepTokens, StepAttempt, StepRefresh, StepRequest, StepNoToken, StepRenew
     DEF Next, Progress, Renewal
<1>3. QED
  BY <1>1, <1>2

(* The invariant holds in every reachable state.                           *)
THEOREM Invariance == Spec => []IInv
<1>1. QED
  BY InitIInv, StepIInv, PTL DEF Spec

(* Type correctness; with it, that no request is sent more than three      *)
(* times.                                                                  *)
THEOREM TypeCorrect == Spec => []TypeOK
<1>1. IInv => TypeOK
  BY DEF IInv
<1>2. QED
  BY <1>1, Invariance, PTL

(* There is at most one refresh, and the event tells whether there is.     *)
THEOREM RefreshesDoNotOverlap == Spec => []OneRefresh
<1>1. IInv => OneRefresh
  BY DEF IInv
<1>2. QED
  BY <1>1, Invariance, PTL

(* A request waits only while there is a refresh to end its wait.          *)
THEOREM WakeupsAreNotLost == Spec => []NoLostWakeup
<1>1. IInv => NoLostWakeup
  BY DEF IInv
<1>2. QED
  BY <1>1, Invariance, PTL

(* The account is the one of the token, unless the token does not decode;  *)
(* its name and its id come from one token, unless that has no name.       *)
THEOREM AccountIsOfToken == Spec => []AccountOfToken
<1>1. IInv => AccountOfToken
  BY DEF IInv
<1>2. QED
  BY <1>1, Invariance, PTL

(* Without a failed refresh no request is sent again with the token that   *)
(* was rejected.                                                           *)
THEOREM RetriesAreNotBlind == Spec => NoBlindRetry
<1> DEFINE Sighted == \A r \in Req :
                pc[r] # "idle" /\ pc[r] # "sent" /\ pc'[r] = "sent" /\ carried'[r] = carried[r] =>
                   \E s \in Req : pc[s] \in {"refreshFailed", "cancelled"}
<1>1. ASSUME IInv, [Next]_vars
      PROVE  [Sighted]_vars
  <2> SUFFICES ASSUME Next, NEW r \in Req,
                      pc[r] # "idle", pc[r] # "sent", pc'[r] = "sent", carried'[r] = carried[r]
               PROVE  RefreshFailed
    BY <1>1 DEF RefreshFailed
  <2>1. ASSUME NEW s \in Req, Renew(s)
        PROVE  FALSE
    <3>1. carried[r] # issued'
      BY <1>1, <2>1, IssueToken DEF IInv, Renew, SetCredentials
    <3>2. WaitersWoken \in [Req -> PC] /\ WaitersWoken[r] # "sent"
      BY <1>1 DEF WaitersWoken, IInv, TypeOK, PC
    <3>3. CASE r = s
      BY <1>1, <2>1, <3>1, <3>2, <3>3 DEF Renew, Attempt, IInv, TypeOK
    <3>4. CASE r # s
      BY <2>1, <3>2, <3>4 DEF Renew, Attempt
    <3>5. QED
      BY <3>3, <3>4
  <2>2. ASSUME NEW s \in Req, Resume(s) \/ Request(s)
        PROVE  RefreshFailed
    <3>1. r = s /\ Resume(s)
      BY <1>1, <2>2 DEF Resume, Request, Attempt, IInv, TypeOK
    <3>2. carried'[r] = token
      BY <1>1, <3>1 DEF Resume, Attempt, IInv, TypeOK
    <3>3. QED
      BY <1>1, <3>1, <3>2 DEF Resume, IInv, WokenFindsAnother
  <2>3. ASSUME NEW s \in Req, Answer(s) \/ Fail(s) \/ Refresh(s) \/ Wait(s) \/ GiveUp(s)
                               \/ CancelRequest(s)
        PROVE  FALSE
    BY <1>1, <2>3 DEF Answer, Fail, Refresh, Wait, AwaitRenewal, GiveUp, CancelRequest, IInv, TypeOK
  <2>4. ASSUME NEW s \in Req, FailRefresh(s) \/ DenyRefresh(s) \/ CancelRefresh(s)
        PROVE  FALSE
    <3>1. WaitersWoken \in [Req -> PC] /\ WaitersWoken[r] # "sent"
      BY <1>1 DEF WaitersWoken, IInv, TypeOK, PC
    <3>2. QED
      BY <2>4, <3>1 DEF FailRefresh, DenyRefresh, CancelRefresh
  <2>5. ASSUME (\E t \in 1..issued : Expire(t)) \/ Authenticate
        PROVE  FALSE
    BY <2>5 DEF Expire, Authenticate
  <2>6. QED
    BY <2>1, <2>2, <2>3, <2>4, <2>5 DEF Next, Progress, Renewal
<1>2. QED
  BY <1>1, Invariance, PTL DEF Spec, NoBlindRetry

=============================================================================
