----------------------------- MODULE HttpClient -----------------------------
(***************************************************************************)
(* http_client.py: requests that share an access token.  A request that    *)
(* the server rejects has the token refreshed, unless another request is   *)
(* just doing so, in which case it waits for it; then it is sent again,    *)
(* twice at most.                                                          *)
(*                                                                         *)
(* An action is one uninterrupted run of a coroutine between two awaits.   *)
(* The order in which the event loop runs them is left open.  Tokens are   *)
(* numbers, in the order in which they are issued; 0 is the empty token.   *)
(***************************************************************************)
EXTENDS Naturals

CONSTANTS
    Req,            \* the calls of get() and post()
    MaxTokens       \* bound: tokens issued in one behavior

ASSUME MaxTokensAssumption == MaxTokens \in Nat

VARIABLES
    token,          \* _access_token
    account,        \* the token that _account_id comes from
    name,           \* the token that _display_name comes from
    issued,         \* the number of tokens issued so far
    accepted,       \* the tokens that the server accepts
    undecodable,    \* the tokens that _decode_jwt raises on
    nameless,       \* those that decode, but have no 'dn'
    renewing,       \* _credentials_renewal_possible is cleared
    pc,             \* pc[r]: where request r is, or how it ended
    carried,        \* carried[r]: the token it was last sent with
    repeated        \* repeated[r]: its argument repeated

vars == <<token, account, name, issued, accepted, undecodable, nameless, renewing, pc, carried,
          repeated>>

identity == <<account, name>>
credentials == <<token, identity>>
tokens == <<issued, undecodable, nameless>>
server == <<accepted, tokens>>

(***************************************************************************)
(* "unauthorized": AuthenticationRequired is raised.                       *)
(* "refreshFailed": what the refresh raised, unless that is AccessDenied.  *)
(***************************************************************************)
Ended == {"answered", "failed", "unauthorized", "refreshFailed", "cancelled"}
PC == {"idle", "sent", "refreshing", "waiting", "woken"} \cup Ended

TypeOK ==
    /\ issued \in 0..MaxTokens
    /\ token \in 0..issued
    /\ account \in 0..issued
    /\ name \in 0..issued
    /\ accepted \in SUBSET (1..issued)
    /\ undecodable \in SUBSET (1..issued)
    /\ nameless \in SUBSET (1..issued)
    /\ renewing \in BOOLEAN
    /\ pc \in [Req -> PC]
    /\ carried \in [Req -> 0..issued]
    /\ repeated \in [Req -> 0..2]

Init ==
    /\ token = 0
    /\ account = 0
    /\ name = 0
    /\ issued = 0
    /\ accepted = {}
    /\ undecodable = {}
    /\ nameless = {}
    /\ renewing = FALSE
    /\ pc = [r \in Req |-> "idle"]
    /\ carried = [r \in Req |-> 0]
    /\ repeated = [r \in Req |-> 0]

-----------------------------------------------------------------------------
(* A token expires, or is revoked.                                         *)
Expire(t) ==
    /\ t \in accepted
    /\ accepted' = accepted \ {t}
    /\ UNCHANGED <<credentials, tokens, renewing, pc, carried, repeated>>

(* The next token.  It is good, or not accepted, or it does not decode, or *)
(* it lacks the name.                                                      *)
Issue ==
    /\ issued < MaxTokens
    /\ issued' = issued + 1
    /\ \/ accepted' = accepted \cup {issued'} /\ UNCHANGED <<undecodable, nameless>>
       \/ UNCHANGED <<accepted, undecodable, nameless>>
       \/ undecodable' = undecodable \cup {issued'} /\ UNCHANGED <<accepted, nameless>>
       \/ /\ nameless' = nameless \cup {issued'}
          /\ accepted' = accepted \cup {issued'}
          /\ UNCHANGED undecodable

(* Slip: the account stays that of the first token.                        *)
AccountKept(t) == IF account = 0 THEN t ELSE account

(* The id after set_credentials, which decodes the token only after it has *)
(* stored it.                                                              *)
AccountAfter(t) == IF t \in undecodable' THEN account ELSE t

(* The name, which is read after the id.                                   *)
NameAfter(t) == IF t \in undecodable' \cup nameless' THEN name ELSE t

SetCredentials(t) ==
    /\ token' = t
    /\ account' = AccountAfter(t)
    /\ name' = NameAfter(t)

(* EpicPlugin.authenticate.                                                *)
Authenticate ==
    /\ Issue
    /\ SetCredentials(issued')
    /\ UNCHANGED <<renewing, pc, carried, repeated>>

-----------------------------------------------------------------------------
(* _authorized_request(repeated = n) of r, which finds the token t.        *)
Attempt(r, n, t, pcs) ==
    IF t = 0
    THEN /\ pc' = [pcs EXCEPT ![r] = "unauthorized"]
         /\ UNCHANGED <<carried, repeated>>
    ELSE /\ pc' = [pcs EXCEPT ![r] = "sent"]
         /\ carried' = [carried EXCEPT ![r] = t]
         /\ repeated' = [repeated EXCEPT ![r] = n]

(* get() or post().                                                        *)
Request(r) ==
    /\ pc[r] = "idle"
    /\ Attempt(r, 0, token, pc)
    /\ UNCHANGED <<credentials, server, renewing>>

Answer(r) ==
    /\ pc[r] = "sent"
    /\ carried[r] \in accepted
    /\ pc' = [pc EXCEPT ![r] = "answered"]
    /\ UNCHANGED <<credentials, server, renewing, carried, repeated>>

(* The network fails, or the server reports some other error.              *)
Fail(r) ==
    /\ pc[r] = "sent"
    /\ pc' = [pc EXCEPT ![r] = "failed"]
    /\ UNCHANGED <<credentials, server, renewing, carried, repeated>>

(* Status 401 for r, whenever it comes.                                    *)
Rejected(r) == pc[r] = "sent" /\ carried[r] \notin accepted

(* Slip: one refresh more.                                                 *)
MayRepeatOnceMore(r) == repeated[r] <= 2

MayRepeat(r) == repeated[r] < 2

(* Slip: the event is not looked at.                                       *)
MayRenewAlways == TRUE

(* _credentials_renewal_possible.is_set()                                  *)
MayRenew == ~renewing

Refresh(r) ==
    /\ Rejected(r)
    /\ MayRepeat(r)
    /\ MayRenew
    /\ renewing' = TRUE
    /\ pc' = [pc EXCEPT ![r] = "refreshing"]
    /\ UNCHANGED <<credentials, server, carried, repeated>>

(* Slip: the request does not wait for the event.                          *)
AwaitNothing(r) == pc' = [pc EXCEPT ![r] = "woken"]

AwaitRenewal(r) == pc' = [pc EXCEPT ![r] = "waiting"]

(* Another request is refreshing: r waits for it.                          *)
Wait(r) ==
    /\ Rejected(r)
    /\ MayRepeat(r)
    /\ ~MayRenew
    /\ AwaitRenewal(r)
    /\ UNCHANGED <<credentials, server, renewing, carried, repeated>>

(* "Fatal auth lost": the token is wiped, whichever it is by now.          *)
GiveUp(r) ==
    /\ Rejected(r)
    /\ ~MayRepeat(r)
    /\ token' = 0
    /\ pc' = [pc EXCEPT ![r] = "unauthorized"]
    /\ UNCHANGED <<identity, server, renewing, carried, repeated>>

-----------------------------------------------------------------------------
(* Slip: set() wakes nobody.                                               *)
NobodyWoken == pc

(* What Event.set() makes of those that wait.                              *)
WaitersWoken == [r \in Req |-> IF pc[r] = "waiting" THEN "woken" ELSE pc[r]]

(* The refresh of r is over, one way or the other: the finally clause.     *)
RefreshEnds(r) ==
    /\ pc[r] = "refreshing"
    /\ renewing' = FALSE

(* The client sends new credentials.  r finds the event set and goes on;   *)
(* it fails if the token does not decode or lacks the name.                *)
Renew(r) ==
    /\ RefreshEnds(r)
    /\ Issue
    /\ SetCredentials(issued')
    /\ IF issued' \in undecodable' \cup nameless'
       THEN /\ pc' = [WaitersWoken EXCEPT ![r] = "refreshFailed"]
            /\ UNCHANGED <<carried, repeated>>
       ELSE Attempt(r, repeated[r] + 1, issued', WaitersWoken)

(* The client reports an error, or sends something unusable.               *)
FailRefresh(r) ==
    /\ RefreshEnds(r)
    /\ pc' = [WaitersWoken EXCEPT ![r] = "refreshFailed"]
    /\ UNCHANGED <<credentials, server, carried, repeated>>

(* AccessDenied: the token is wiped.                                       *)
DenyRefresh(r) ==
    /\ RefreshEnds(r)
    /\ token' = 0
    /\ pc' = [WaitersWoken EXCEPT ![r] = "unauthorized"]
    /\ UNCHANGED <<identity, server, carried, repeated>>

(* A request that waited goes on, even if the event is cleared again.      *)
Resume(r) ==
    /\ pc[r] = "woken"
    /\ Attempt(r, repeated[r] + 1, token, pc)
    /\ UNCHANGED <<credentials, server, renewing>>

(* The task of the request is cancelled.                                   *)
CancelRequest(r) ==
    /\ pc[r] \in {"sent", "waiting", "woken"}
    /\ pc' = [pc EXCEPT ![r] = "cancelled"]
    /\ UNCHANGED <<credentials, server, renewing, carried, repeated>>

CancelRefresh(r) ==
    /\ RefreshEnds(r)
    /\ pc' = [WaitersWoken EXCEPT ![r] = "cancelled"]
    /\ UNCHANGED <<credentials, server, carried, repeated>>

-----------------------------------------------------------------------------
(* What the server and the event loop owe a request.                       *)
Progress(r) == Answer(r) \/ Fail(r) \/ Refresh(r) \/ Wait(r) \/ GiveUp(r) \/ Resume(r)

(* What the client of the plugin may do about a refresh.                   *)
Renewal(r) == Renew(r) \/ FailRefresh(r) \/ DenyRefresh(r)

Next ==
    \/ \E t \in 1..issued : Expire(t)
    \/ Authenticate
    \/ \E r \in Req : Request(r) \/ Progress(r) \/ Renewal(r) \/ CancelRequest(r) \/ CancelRefresh(r)

Spec == Init /\ [][Next]_vars

(* A request gets an answer or an error, and what is woken runs.  Nothing  *)
(* is assumed of the client, which is asked for the new credentials.       *)
FairSpec == Spec /\ \A r \in Req : WF_vars(Progress(r))

-----------------------------------------------------------------------------
(* One refresh at a time, and the event is cleared exactly while it runs.  *)
OneRefresh ==
    /\ renewing <=> \E r \in Req : pc[r] = "refreshing"
    /\ \A r, s \in Req : pc[r] = "refreshing" /\ pc[s] = "refreshing" => r = s

(* No request waits for a refresh that is over.                            *)
NoLostWakeup == \A r \in Req : pc[r] = "waiting" => renewing

(* A rejected request is sent again with another token, unless a refresh   *)
(* has failed or was cancelled.                                            *)
NoBlindRetry ==
    [][\A r \in Req :
          pc[r] # "idle" /\ pc[r] # "sent" /\ pc'[r] = "sent" /\ carried'[r] = carried[r] =>
             \E s \in Req : pc[s] \in {"refreshFailed", "cancelled"}]_vars

(* The account's id is that of the token, unless the token does not        *)
(* decode.  The name comes from the same token as the id, unless the one   *)
(* that the id comes from has none.                                        *)
AccountOfToken ==
    /\ token # 0 => account = token \/ token \in undecodable
    /\ name = account \/ account \in nameless

(* Every request ends, provided that no refresh is left without an answer. *)
RequestsEnd ==
    ([]<>~renewing) => \A r \in Req : pc[r] # "idle" ~> pc[r] \in Ended

=============================================================================
