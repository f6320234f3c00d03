----------------------------- MODULE BodyCapture -----------------------------
(***************************************************************************)
(* SaveRequestBodyASGIMiddleware: a JSON body is read whole before the     *)
(* application sees the request, kept in request.state, and handed on      *)
(* once.  Bodies are counted in bytes; MaxBody stands for MAX_BODY_SIZE.   *)
(***************************************************************************)
EXTENDS Naturals

CONSTANTS
    MaxBody, MaxChunk,
    Sizes          \* sizes of bodies that clients send

ASSUME SizeAssumption == {MaxBody, MaxChunk} \cup Sizes \subseteq Nat /\ MaxChunk > 0

VARIABLES
    intake,    \* "idle", "receiving", "captured", "refused", then "read" by the
               \* application, or "unreadable" there
    size,      \* the size of the body the client means to send
    sent,      \* how much of it has come
    body,      \* how much of it the middleware holds
    gone       \* the client has disconnected

bodyVars == <<intake, size, sent, body, gone>>

Open(n) ==
    /\ size' = n /\ sent' = 0 /\ body' = 0 /\ gone' = FALSE
    /\ intake' = "receiving"

\* Deviation: a chunk takes the place of what was there.
KeepChunkLast(n, more) ==
    /\ body' = n
    /\ intake' = IF body' > MaxBody THEN "refused" ELSE IF more THEN "receiving" ELSE "captured"
\* Deviation: the limit is looked at when the body is whole.
KeepChunkAtEnd(n, more) ==
    /\ body' = body + n
    /\ intake' = IF more THEN "receiving" ELSE IF body' > MaxBody THEN "refused" ELSE "captured"
\* The limit is looked at after the chunk has been added.
KeepChunk(n, more) ==
    /\ body' = body + n
    /\ intake' = IF body' > MaxBody THEN "refused" ELSE IF more THEN "receiving" ELSE "captured"

\* The last message of a body is the one without more_body; it may be empty.
Receive(n, more) ==
    /\ intake = "receiving" /\ ~gone
    /\ sent + n <= size
    /\ IF more THEN n > 0 ELSE sent + n = size
    /\ sent' = sent + n
    /\ KeepChunk(n, more)
    /\ UNCHANGED <<size, gone>>

\* Deviation: a message without more_body does not end the loop.
DisconnectIgnored ==
    /\ intake = "receiving" /\ gone' = TRUE /\ UNCHANGED <<intake, size, sent, body>>
\* http.disconnect has no body and no more_body: it ends the loop too.
Disconnect ==
    /\ intake = "receiving"
    /\ gone' = TRUE /\ intake' = "captured"
    /\ UNCHANGED <<size, sent, body>>

\* The application reads the body once and parses it; a body that was broken
\* off is not JSON any more.
Read ==
    /\ intake = "captured"
    /\ intake' = IF body = size THEN "read" ELSE "unreadable"
    /\ body' = 0
    /\ UNCHANGED <<size, sent, gone>>
=============================================================================
