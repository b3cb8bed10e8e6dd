------------------------------- MODULE HttpMulti -------------------------------
(***************************************************************************)
(* The libcurl-multi client, core/platform/http/http_client.c.             *)
(*                                                                         *)
(* Everything runs on the owner's thread: `pc' says where it is.           *)
(* Completion callbacks nest, because the owner may cancel another request *)
(* from one: `stack' holds the completions in progress, innermost first.   *)
(* libcurl is external: `running' are the transfers of the multi handle,   *)
(* `msgs' its queue of CURLMSG_DONE messages.                              *)
(***************************************************************************)
EXTENDS Integers, Sequences, FiniteSets, Functions

CONSTANTS
    MaxPending,   \* ALPHA_HTTP_MAX_PENDING
    MaxResponse,  \* ALPHA_HTTP_MAX_RESPONSE_BYTES
    MaxPosts,     \* bound: requests accepted in a behaviour
    Tokens,       \* the owner's user_data pointers other than NULL
    CancelsOwn    \* TRUE: the owner may cancel a request from its own completion

ASSUME MaxPendingAssumption == MaxPending \in Nat \ {0}
ASSUME MaxResponseAssumption == MaxResponse \in Nat
ASSUME MaxPostsAssumption == MaxPosts \in Nat
ASSUME CancelsOwnAssumption == CancelsOwn \in BOOLEAN

VARIABLES
    pc,           \* "loop", "perform", "drain", "callback" or "destroyed"
    stack,        \* completions in progress: [id, back]
    requests,     \* client->requests, a list with the newest request first
    pending,      \* client->pending
    running, msgs,
    user_data, response_size,
    received,     \* how much of a response libcurl has handed to receive_body
    issued,       \* number of requests accepted; they are numbered from 1
    completed,    \* history of complete_fn calls
    returned      \* what the last action returned: "OK" or "ERR_HTTP"

client == <<requests, pending, user_data, response_size>>
curl == <<running, msgs>>
vars == <<pc, stack, client, curl, received, issued, completed, returned>>

Ids == 1 .. MaxPosts
InCompletion == {stack[i].id : i \in 1 .. Len(stack)}
Codes == {"OK", "FAILED", "WRITE_ERROR", "ABORTED"}

-----------------------------------------------------------------------------
Init ==
    /\ pc = "loop" /\ stack = <<>>
    /\ requests = <<>> /\ pending = 0
    /\ running = {} /\ msgs = <<>>
    /\ user_data = [r \in Ids |-> "NULL"] /\ response_size = [r \in Ids |-> 0]
    /\ received = [r \in Ids |-> 0]
    /\ issued = 0 /\ completed = <<>> /\ returned = "OK"

\* Mutant: one request too many.
AcceptsOneMore == pending <= MaxPending

\* Otherwise ALPHA_ERR_RANGE.  A failing allocation or libcurl call undoes the
\* insertion and returns an error, so that nothing changes either.
Accepts == pending < MaxPending

alpha_http_post_json ==
    /\ pc \in {"loop", "callback"}
    /\ Accepts
    /\ issued < MaxPosts
    /\ issued' = issued + 1
    /\ \E t \in Tokens \union {"NULL"} : user_data' = [user_data EXCEPT ![issued + 1] = t]
    /\ requests' = <<issued + 1>> \o requests
    /\ pending' = pending + 1
    /\ running' = running \union {issued + 1}
    /\ UNCHANGED <<pc, stack, msgs, response_size, received, completed, returned>>

\* complete_fn is called for r, and will return to `back'.
CallComplete(r, code, back) ==
    /\ completed' = Append(completed,
                           [id |-> r, code |-> code, size |-> response_size[r]])
    /\ stack' = <<[id |-> r, back |-> back]>> \o stack
    /\ pc' = "callback"

Without(s, i) == SubSeq(s, 1, i - 1) \o SubSeq(s, i + 1, Len(s))

\* curl_multi_remove_handle also discards the handle's message.
curl_multi_remove_handle(r) ==
    /\ running' = running \ {r}
    /\ \/ \E i \in 1 .. Len(msgs) : msgs[i].id = r /\ msgs' = Without(msgs, i)
       \/ (\A i \in 1 .. Len(msgs) : msgs[i].id # r) /\ msgs' = msgs

\* The newest request with that user_data.
alpha_http_cancel(t) ==
    /\ pc \in {"loop", "callback"}
    /\ \E i \in 1 .. Len(requests) :
        /\ user_data[requests[i]] = t
        /\ \A j \in 1 .. i - 1 : user_data[requests[j]] # t
        /\ CancelsOwn \/ requests[i] \notin InCompletion
        /\ curl_multi_remove_handle(requests[i])
        /\ CallComplete(requests[i], "ABORTED", pc)
    /\ UNCHANGED <<client, received, issued, returned>>

\* Mutant: the count follows the completions, not the list.
UnlinkFirst(r) ==
    /\ requests' = Tail(requests) /\ pending' = pending - 1
    /\ user_data' = [user_data EXCEPT ![r] = "NULL"]

\* The owner's pointer is gone with the request.
unlink_and_free(r) ==
    IF r \in Range(requests)
    THEN /\ \E i \in 1 .. Len(requests) : requests[i] = r /\ requests' = Without(requests, i)
         /\ pending' = pending - 1
         /\ user_data' = [user_data EXCEPT ![r] = "NULL"]
    ELSE UNCHANGED <<requests, pending, user_data>>

CompleteReturns ==
    /\ pc = "callback"
    /\ unlink_and_free(Head(stack).id)
    /\ pc' = Head(stack).back
    /\ stack' = Tail(stack)
    /\ UNCHANGED <<response_size, curl, received, issued, completed, returned>>

\* Requests in flight are dropped without a completion.
alpha_http_multi_destroy ==
    /\ pc = "loop"
    /\ pc' = "destroyed"
    /\ requests' = <<>> /\ pending' = 0 /\ running' = {} /\ msgs' = <<>>
    /\ UNCHANGED <<stack, user_data, response_size, received, issued, completed, returned>>

-----------------------------------------------------------------------------
(* alpha_http_multi_socket_action and _timeout_action: libcurl moves some  *)
(* transfers on, then the completions are drained.                         *)

Action ==
    /\ pc = "loop" /\ pc' = "perform"
    /\ UNCHANGED <<stack, client, curl, received, issued, completed, returned>>

TransferEnds(r, code) ==
    /\ running' = running \ {r}
    /\ msgs' = Append(msgs, [id |-> r, code |-> code])

\* bytes <= ALPHA_HTTP_MAX_RESPONSE_BYTES - response_size.
Fits(r, bytes) == bytes <= MaxResponse - response_size[r]

\* Mutant: what does not fit is dropped, and the transfer goes on.
ReceiveTruncated(r, bytes) ==
    /\ response_size' = [response_size EXCEPT ![r] = IF Fits(r, bytes) THEN @ + bytes ELSE @]
    /\ UNCHANGED curl

\* A chunk that does not fit makes libcurl end the transfer.
receive_body(r, bytes) ==
    IF Fits(r, bytes)
    THEN /\ response_size' = [response_size EXCEPT ![r] = @ + bytes]
         /\ UNCHANGED curl
    ELSE TransferEnds(r, "WRITE_ERROR") /\ UNCHANGED response_size

\* libcurl passes on what has arrived of a response.  Bound: no response is
\* more than a byte longer than the client takes.
Receive(r, bytes) ==
    /\ pc = "perform" /\ r \in running
    /\ bytes \in 1 .. MaxResponse + 1 - received[r]
    /\ received' = [received EXCEPT ![r] = @ + bytes]
    /\ receive_body(r, bytes)
    /\ UNCHANGED <<pc, stack, requests, pending, user_data, issued, completed, returned>>

\* The whole response has been passed on, or the transfer failed or timed out.
Finish(r) ==
    /\ pc = "perform" /\ r \in running
    /\ \E code \in {"OK", "FAILED"} : TransferEnds(r, code)
    /\ UNCHANGED <<pc, stack, client, received, issued, completed, returned>>

\* Mutant: the completions are left for later.
ActionReturns ==
    /\ pc = "perform" /\ pc' = "loop" /\ returned' = "OK"
    /\ UNCHANGED <<stack, client, curl, received, issued, completed>>

ActionDrains ==
    /\ pc = "perform" /\ pc' = "drain"
    /\ UNCHANGED <<stack, client, curl, received, issued, completed, returned>>

\* curl_multi_socket_action reports an error: ALPHA_ERR_HTTP, and whatever
\* libcurl has finished stays in its queue.
ActionFails ==
    /\ pc = "perform" /\ pc' = "loop" /\ returned' = "ERR_HTTP"
    /\ UNCHANGED <<stack, client, curl, received, issued, completed>>

\* One message of drain_completions, or the end of its loop and of the action.
drain_completions ==
    /\ pc = "drain"
    /\ IF msgs = <<>>
       THEN pc' = "loop" /\ returned' = "OK" /\ UNCHANGED <<stack, curl, completed>>
       ELSE /\ curl_multi_remove_handle(Head(msgs).id)
            /\ CallComplete(Head(msgs).id, Head(msgs).code, "drain")
            /\ UNCHANGED returned
    /\ UNCHANGED <<client, received, issued>>

-----------------------------------------------------------------------------
Next ==
    \/ alpha_http_post_json \/ alpha_http_multi_destroy
    \/ \E t \in Tokens : alpha_http_cancel(t)
    \/ CompleteReturns \/ Action \/ ActionDrains \/ ActionFails \/ drain_completions
    \/ \E r \in Ids : Finish(r) \/ \E n \in 1 .. MaxResponse + 1 : Receive(r, n)

Spec == Init /\ [][Next]_vars

\* Callbacks return, calls return, the owner serves curl's sockets and timer,
\* and CURLOPT_TIMEOUT_MS ends every transfer, even one that never progresses.
\* An action may fail any number of times.
Fairness ==
    /\ WF_vars(CompleteReturns) /\ WF_vars(drain_completions)
    /\ WF_vars(ActionDrains \/ ActionFails)
    /\ WF_vars(running # {} /\ Action)
    /\ \A r \in Ids : SF_vars(Finish(r))

FairSpec == Spec /\ Fairness

-----------------------------------------------------------------------------
\* The type invariant of the client and of libcurl's multi handle.
TypeOK ==
    /\ pc \in {"loop", "perform", "drain", "callback", "destroyed"}
    /\ stack \in Seq([id : Ids, back : {"loop", "drain", "callback"}])
    /\ requests \in Seq(Ids) /\ pending \in 0 .. MaxPending
    /\ running \subseteq Ids /\ msgs \in Seq([id : Ids, code : Codes])
    /\ user_data \in [Ids -> Tokens \union {"NULL"}]
    /\ response_size \in [Ids -> 0 .. MaxResponse]
    /\ received \in [Ids -> 0 .. MaxResponse + 1]
    /\ issued \in 0 .. MaxPosts
    /\ completed \in Seq([id : Ids, code : Codes, size : 0 .. MaxResponse])
    /\ returned \in {"OK", "ERR_HTTP"}

\* "Bound outstanding ownership": `pending' is the length of the request list,
\* which holds what libcurl works on, what it has finished and what is being
\* completed, and nothing else.
Ownership ==
    /\ TypeOK
    /\ pending = Len(requests)
    /\ Range(requests) = running \union {msgs[i].id : i \in 1 .. Len(msgs)} \union InCompletion

\* A response is reported as a success only when all of it was kept, whatever
\* the chunks: one that does not fit ends in an error, also midway.
SuccessIsComplete ==
    \A i \in 1 .. Len(completed) :
        completed[i].code = "OK" => completed[i].size = received[completed[i].id]

\* The client is a bounded set of requests: each leaves it by its completion,
\* the moment complete_fn is called, or when the client is destroyed.
Requests == INSTANCE RequestSet WITH
    Bound <- MaxPending,
    flight <- Range(requests) \ InCompletion,
    done <- [i \in 1 .. Len(completed) |-> completed[i].id]
RefinesSet == Requests!Spec

\* The last action returned ALPHA_ERR_HTTP with r's message undelivered, and
\* libcurl has no transfer, hence no socket and no timer, to be acted for.
Stranded(r) ==
    /\ pc = "loop" /\ returned = "ERR_HTTP" /\ running = {}
    /\ \E i \in 1 .. Len(msgs) : msgs[i].id = r

\* Every accepted request is completed, however often an action fails, unless
\* the client is destroyed or the action that failed was the last libcurl asked
\* for: a later action drains what an earlier one left.
RequestsComplete ==
    \A r \in Ids : issued >= r ~>
        \/ pc = "destroyed" \/ Stranded(r)
        \/ \E i \in 1 .. Len(completed) : completed[i].id = r
=============================================================================
