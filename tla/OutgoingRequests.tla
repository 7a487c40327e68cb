-------------------------- MODULE OutgoingRequests --------------------------
(***************************************************************************)
(* galaxy/api/jsonrpc.py: the requests that the plugin sends to the client *)
(* (send_request), and the responses that the read loop hands to them      *)
(* (_handle_response).                                                     *)
(*                                                                         *)
(* The client is free to answer as it likes: in any order, twice, with an  *)
(* unknown id or with none, with something that is no JSON object.  What   *)
(* the handler of a response raises is caught by nobody: it ends run(),    *)
(* and Plugin.__aexit__ closes the plugin in the same step.                *)
(*                                                                         *)
(* Callers are tasks of the external task manager, so nobody but close()   *)
(* cancels them.                                                           *)
(***************************************************************************)
EXTENDS Naturals, Sequences

CONSTANTS
    Caller,         \* the calls of send_request
    MaxResponses    \* bound: responses the client sends

ASSUME MaxResponsesAssumption == MaxResponses \in Nat

VARIABLES
    last_request_id,
    futures,        \* _requests_futures: the state of the future of each id
    responses,      \* all responses of the client, in the order sent
    read,           \* how many of them were read
    active,         \* Connection._active
    raised,         \* run() was left by an exception
    pc,             \* pc[c]: where the caller is, or how its call ended
    request_id,     \* request_id[c]: 0 before the call
    got             \* got[c]: the response that c has got, as an index; or 0

requestVars == <<last_request_id, futures, responses, read, active, raised, pc, request_id, got>>

client == <<responses>>
connection == <<last_request_id, futures, read, active, raised>>
callers == <<pc, request_id, got>>

(***************************************************************************)
(* "failed": send_request has raised, with nothing sent.                   *)
(* "refused": it has raised the error of the client's response.            *)
(***************************************************************************)
Ended == {"failed", "answered", "refused", "cancelled"}

(* The id is 0 if the response has none or one that is no number.  "other" *)
(* is a result, or the data of an error, that is no JSON object.           *)
Response == [id : Nat, error : BOOLEAN, body : {"object", "other"}]

(* A future that is done holds the index of the response it was set to.    *)
FutureState == {"pending", "cancelled", "result", "exception"}

RequestsTypeOK ==
    /\ last_request_id \in Nat
    /\ futures \in [1..last_request_id -> [state : FutureState, by : Nat]]
    /\ responses \in Seq(Response)
    /\ read \in 0..Len(responses)
    /\ active \in BOOLEAN
    /\ raised \in BOOLEAN
    /\ pc \in [Caller -> {"idle", "waiting"} \cup Ended]
    /\ request_id \in [Caller -> 0..last_request_id]
    /\ got \in [Caller -> 0..Len(responses)]

RequestsInit ==
    /\ last_request_id = 0
    /\ futures = <<>>
    /\ responses = <<>>
    /\ read = 0
    /\ active = TRUE
    /\ raised = FALSE
    /\ pc = [c \in Caller |-> "idle"]
    /\ request_id = [c \in Caller |-> 0]
    /\ got = [c \in Caller |-> 0]

-----------------------------------------------------------------------------
Pending == [state |-> "pending", by |-> 0]

NewId == last_request_id + 1

(* send_request up to its await.  Params that are no object cannot be      *)
(* anonymised for the log: the call fails, its future remains.  Params     *)
(* that cannot be encoded are dropped by _send, which tells nobody: to the *)
(* caller that is a client which never answers.                            *)
SendRequest(c, loggable) ==
    /\ pc[c] = "idle"
    /\ active
    /\ last_request_id' = NewId
    /\ futures' = [n \in 1..last_request_id' |-> IF n = NewId THEN Pending ELSE futures[n]]
    /\ request_id' = [request_id EXCEPT ![c] = NewId]
    /\ pc' = [pc EXCEPT ![c] = IF loggable THEN "waiting" ELSE "failed"]
    /\ UNCHANGED <<client, read, active, raised, got>>

(* The client sends a response; its end of the connection stays open.      *)
Respond(r) ==
    /\ Len(responses) < MaxResponses
    /\ responses' = Append(responses, r)
    /\ UNCHANGED <<connection, callers>>

-----------------------------------------------------------------------------
(* Slip: the tasks are cancelled, the connection keeps reading.            *)
StillReading == active

(* Connection.close()                                                      *)
Reading == FALSE

(* Plugin.close(): the external tasks are cancelled, and with a task the   *)
(* future that it awaits.                                                  *)
Close ==
    /\ active' = Reading
    /\ futures' = [n \in DOMAIN futures |->
                     IF futures[n] = Pending /\ \E c \in Caller : request_id[c] = n /\ pc[c] = "waiting"
                     THEN [state |-> "cancelled", by |-> 0]
                     ELSE futures[n]]
    /\ pc' = [c \in Caller |-> IF pc[c] = "waiting" THEN "cancelled" ELSE pc[c]]
    /\ UNCHANGED <<request_id, got>>

(* A shutdown request, or the end of the stream.                           *)
Shutdown ==
    /\ active
    /\ Close
    /\ UNCHANGED <<client, last_request_id, read, raised>>

Raise ==
    /\ raised' = TRUE
    /\ Close

-----------------------------------------------------------------------------
(* The next response to be read.                                           *)
Incoming == responses[read + 1]

(* Slip: whoever waits gets it.                                            *)
SetAnyFuture(n) ==
    [k \in DOMAIN futures |->
        IF futures[k] = Pending
        THEN [state |-> IF Incoming.error THEN "exception" ELSE "result", by |-> read + 1]
        ELSE futures[k]]

(* set_result() or set_exception()                                         *)
SetFuture(n) ==
    [futures EXCEPT ![n] =
        [state |-> IF Incoming.error THEN "exception" ELSE "result", by |-> read + 1]]

(* Slip: a request is known only once it is followed by another.           *)
KnownLater(n) == n \in 1..(last_request_id - 1)

(* The key is among those of _requests_futures, which is never emptied.    *)
Known(n) == n \in DOMAIN futures

(* Neither is the body no object, which cannot be anonymised for the log   *)
(* (AttributeError), nor is the future done (InvalidStateError).           *)
Settable(n) == Incoming.body = "object" /\ futures[n].state = "pending"

HandleResponse ==
    /\ active
    /\ read < Len(responses)
    /\ read' = read + 1
    /\ \/ /\ Incoming.id # 0
          /\ ~Known(Incoming.id)
          /\ UNCHANGED <<futures, active, raised, callers>>
       \/ /\ Known(Incoming.id)
          /\ Settable(Incoming.id)
          /\ futures' = SetFuture(Incoming.id)
          /\ UNCHANGED <<active, raised, callers>>
       \/ /\ \/ Incoming.id = 0                 \* int() raises
             \/ Known(Incoming.id) /\ ~Settable(Incoming.id)
          /\ Raise
    /\ UNCHANGED <<client, last_request_id>>

(* The event loop resumes a caller whose future is done.                   *)
Resume(c) ==
    /\ pc[c] = "waiting"
    /\ futures[request_id[c]].state \in {"result", "exception"}
    /\ pc' = [pc EXCEPT ![c] =
                IF futures[request_id[c]].state = "result" THEN "answered" ELSE "refused"]
    /\ got' = [got EXCEPT ![c] = futures[request_id[c]].by]
    /\ UNCHANGED <<client, connection, request_id>>

-----------------------------------------------------------------------------
(* What the client may send: for no id, an id in use, or one that is not.  *)
Responses == [id : 0..(last_request_id + 1), error : BOOLEAN, body : {"object", "other"}]

RequestsNext ==
    \/ \E c \in Caller, loggable \in BOOLEAN : SendRequest(c, loggable)
    \/ \E r \in Responses : Respond(r)
    \/ HandleResponse
    \/ \E c \in Caller : Resume(c)
    \/ Shutdown

RequestsSpec == RequestsInit /\ [][RequestsNext]_requestVars

(* The event loop reads what there is, and resumes who can go on.          *)
FairRequestsSpec ==
    /\ RequestsSpec
    /\ WF_requestVars(HandleResponse)
    /\ \A c \in Caller : WF_requestVars(Resume(c))

-----------------------------------------------------------------------------
(* The k-th response is one that the handler is not prepared for.          *)
Unexpected(k) ==
    \/ responses[k].id = 0
    \/ responses[k].body = "other"
    \/ \E j \in 1..(k - 1) : responses[j].id = responses[k].id

(* The plugin goes down only for a response without an id, one whose body  *)
(* is no object, or the second one to a request.  No order of calls, good  *)
(* answers and a shutdown does it, as would an answer to a call that was   *)
(* cancelled meanwhile.                                                    *)
OnlyUnexpectedRaises == raised => read > 0 /\ Unexpected(read)

(* A call ends with a response to its own request, by a result or an error *)
(* as the client decided, and no two calls end with the same response.     *)
OwnResponse ==
    \A c \in Caller :
        pc[c] \in {"answered", "refused"} =>
            /\ got[c] \in 1..read
            /\ responses[got[c]].id = request_id[c]
            /\ responses[got[c]].error <=> pc[c] = "refused"
            /\ \A d \in Caller : got[d] = got[c] => d = c

(* Once the client has answered a call, the call ends: the answer reaches  *)
(* it whatever comes before it, or the plugin closes.                      *)
AnswerEndsCall ==
    \A c \in Caller :
        (pc[c] = "waiting" /\ \E k \in (read + 1)..Len(responses) : responses[k].id = request_id[c])
            ~> pc[c] \in Ended

=============================================================================
