------------------------------ MODULE BodySize ------------------------------
(***************************************************************************)
(* The two outermost layers around an app that reads a request body and    *)
(* sends a response: the body limit (middleware/body_size.py) and the      *)
(* policy headers (middleware/security_headers.py).  A body is counted as  *)
(* the app reads it, also while its response is under way, so that a body  *)
(* may be found too large before, during or after the sending of the       *)
(* response's start, which a slow peer may hold up.                        *)
(***************************************************************************)
EXTENDS Integers, Sequences

VARIABLES
    place,           \* "door", "app", "body-layer", "security-layer" or "server"
    limit,           \* BodySizePolicy.max_bytes of the request
    unread,          \* how much of the body the app has not read
    received,        \* what guarded_receive has counted
    consumed,        \* what the app has been given
    startHandedOver, \* start_handed_over
    responseStarted, \* response_started
    sending,         \* of the app's start: "not-yet", "pending", "delivered", "failed"
    exception,       \* that leaves the app: "none", "too-large" or "other"
    starts           \* the statuses of the response starts given to the server

bodyVars == <<place, limit, unread, received, consumed, startHandedOver, responseStarted,
              sending, exception, starts>>

BodyInit(size, max) ==
    /\ place = "door" /\ limit = max
    /\ unread = size /\ received = 0 /\ consumed = 0
    /\ startHandedOver = FALSE /\ responseStarted = FALSE /\ sending = "not-yet"
    /\ exception = "none" /\ starts = <<>>

\* send_with_policy: the start counts as made whether it arrives or not.
SendWithPolicy(status) == responseStarted' = TRUE /\ starts' = Append(starts, status)

\* _declares_over, and the 413 when the declared length is over the limit
Door(declared) ==
    /\ place = "door"
    /\ IF declared /\ unread > limit
       THEN place' = "server" /\ SendWithPolicy(413)
       ELSE place' = "app" /\ UNCHANGED <<responseStarted, starts>>
    /\ UNCHANGED <<limit, unread, received, consumed, startHandedOver, sending, exception>>

\* guarded_receive
ReadPiece(size) ==
    /\ place = "app" /\ exception = "none" /\ size <= unread
    /\ unread' = unread - size
    /\ received' = received + size
    /\ IF received' > limit
       THEN exception' = "too-large" /\ UNCHANGED consumed
       ELSE consumed' = consumed + size /\ UNCHANGED exception
    /\ UNCHANGED <<place, limit, startHandedOver, responseStarted, sending, starts>>

\* Mutant: the start counts as handed over once it has been delivered.
HandOverLate(status) ==
    /\ place = "app" /\ exception = "none" /\ sending = "not-yet"
    /\ sending' = "pending"
    /\ SendWithPolicy(status)
    /\ UNCHANGED <<place, limit, unread, received, consumed, startHandedOver, exception>>

\* send_start_whole, up to its await
HandOver(status) ==
    /\ place = "app" /\ exception = "none" /\ sending = "not-yet"
    /\ startHandedOver' = TRUE /\ sending' = "pending"
    /\ SendWithPolicy(status)
    /\ UNCHANGED <<place, limit, unread, received, consumed, exception>>

Deliver ==
    /\ sending = "pending"
    /\ sending' = "delivered"
    /\ UNCHANGED <<place, limit, unread, received, consumed, startHandedOver, responseStarted,
                   exception, starts>>

\* Mutant: nothing ends the wait for a peer that stops reading.
NeverGivesUp == sending = "pending" /\ FALSE /\ UNCHANGED bodyVars

\* The peer is gone, or start_send_seconds have passed.  A body found too large
\* meanwhile leaves the app's task group beside the failure, or alone.
StartFails ==
    /\ sending = "pending"
    /\ sending' = "failed"
    /\ exception' \in {"other"} \cup ({exception} \ {"none"})
    /\ UNCHANGED <<place, limit, unread, received, consumed, startHandedOver, responseStarted, starts>>

AppFails ==
    /\ place = "app" /\ exception = "none"
    /\ exception' = "other"
    /\ UNCHANGED <<place, limit, unread, received, consumed, startHandedOver, responseStarted,
                   sending, starts>>

\* FastAPI turns the exception into a 400 of its own, or the host catches it.
AppCatches ==
    /\ place = "app" /\ exception # "none"
    /\ exception' = "none"
    /\ UNCHANGED <<place, limit, unread, received, consumed, startHandedOver, responseStarted,
                   sending, starts>>

\* The app ends; the shield keeps it until its start is delivered or has failed.
AppEnds ==
    /\ place = "app" /\ sending # "pending"
    /\ exception # "none" \/ sending # "not-yet"
    /\ place' = "body-layer"
    /\ UNCHANGED <<limit, unread, received, consumed, startHandedOver, responseStarted,
                   sending, exception, starts>>

\* Mutant: what is found too large after the start is dropped.
BodyLayerForgets ==
    /\ place = "body-layer"
    /\ place' = "security-layer"
    /\ IF exception = "too-large"
       THEN /\ exception' = "none"
            /\ IF startHandedOver THEN UNCHANGED <<responseStarted, starts>> ELSE SendWithPolicy(413)
       ELSE UNCHANGED <<responseStarted, starts, exception>>
    /\ UNCHANGED <<limit, unread, received, consumed, startHandedOver, sending>>

\* BodySizeLimitMiddleware.__call__: its 413 may fail to be sent
BodyLayer ==
    /\ place = "body-layer"
    /\ place' = "security-layer"
    /\ IF exception = "too-large" /\ ~startHandedOver
       THEN SendWithPolicy(413) /\ exception' \in {"none", "other"}
       ELSE UNCHANGED <<responseStarted, starts, exception>>
    /\ UNCHANGED <<limit, unread, received, consumed, startHandedOver, sending>>

\* SecurityHeadersMiddleware.__call__: the exception still reaches the server
SecurityLayer ==
    /\ place = "security-layer"
    /\ place' = "server"
    /\ IF exception # "none" /\ ~responseStarted
       THEN SendWithPolicy(500)
       ELSE UNCHANGED <<responseStarted, starts>>
    /\ UNCHANGED <<limit, unread, received, consumed, startHandedOver, sending, exception>>

=============================================================================
