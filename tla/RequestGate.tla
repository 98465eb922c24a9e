----------------------------- MODULE RequestGate -----------------------------
(* What a request passes before the application (FastMCP, or the health       *)
(* check) sees it (src/src/monzo_mcp/mcp/http.py): EndpointBearerMiddleware,  *)
(* then RequestBodyLimitMiddleware, which reads the whole body and replays it *)
(* to the application as one message.                                         *)
(*                                                                            *)
(* A body is its number of bytes.  Of the headers only the Authorization      *)
(* headers and the Content-Length matter.  One request after the other is     *)
(* enough: the middlewares keep no state between requests.                    *)
EXTENDS Naturals, Sequences

CONSTANTS
    MaxBody,   \* http_settings.max_request_body_bytes
    MaxChunk   \* the most bytes Uvicorn delivers in one message

ASSUME SizesAssumption == MaxBody \in Nat \ {0} /\ MaxChunk \in Nat \ {0}

VARIABLES
    request,  \* the request's head
    stage,    \* where it is
    status,   \* the status it was answered with, or "none"
    visible,  \* the scope the next application gets has an Authorization header
    sent,     \* bytes received from the client so far
    body,     \* bytes buffered by RequestBodyLimitMiddleware
    given     \* the messages the application has received so far

vars == <<request, stage, status, visible, sent, body, given>>

-----------------------------------------------------------------------------
\* auth: the Authorization headers (no single one, one that is not the endpoint
\* bearer, one that is); declared: Content-Length, at most MaxBody or above it.
Heads == [health : BOOLEAN, bodied : BOOLEAN,
          auth : {"none", "many", "wrong", "exact"},
          declared : {"absent", "malformed", "bounded", "oversized"}]

Stages == {"arrived", "inner", "reading", "app", "ended"}
Statuses == {"none", "400", "401", "413", "app"}
Message == [type : {"request", "disconnect"}, size : Nat, more : BOOLEAN]

\* How much one behaviour sends: enough to pass the limit in the last message.
MaxSent == MaxBody + MaxChunk
MaxGiven == 3

TypeOK ==
    /\ request \in Heads
    /\ stage \in Stages
    /\ status \in Statuses
    /\ visible \in BOOLEAN
    /\ sent \in 0 .. MaxSent
    /\ body \in 0 .. MaxSent
    /\ given \in Seq(Message)

HeadArrives ==
    /\ request' \in Heads
    /\ stage' = "arrived"
    /\ status' = "none"
    /\ visible' = (request'.auth # "none")
    /\ sent' = 0
    /\ body' = 0
    /\ given' = <<>>

Init ==
    /\ request \in Heads
    /\ stage = "arrived"
    /\ status = "none"
    /\ visible = (request.auth # "none")
    /\ sent = 0
    /\ body = 0
    /\ given = <<>>

\* The answer is on its way, or the client is gone; the next request arrives.
NextRequest == stage = "ended" /\ HeadArrives

Answer(s) ==
    /\ stage' = "ended"
    /\ status' = s

-----------------------------------------------------------------------------
(* EndpointBearerMiddleware.                                                  *)

\* Exactly one Authorization header, equal to the endpoint bearer.
Valid == request.auth = "exact"

AuthRefused ==
    /\ stage = "arrived"
    /\ ~request.health /\ ~Valid
    /\ Answer("401")
    /\ UNCHANGED <<request, visible, sent, body, given>>

\* The inner scope has no Authorization header; /healthz passes as it is.
HiddenInside == request.health /\ visible

AuthPassed ==
    /\ stage = "arrived"
    /\ request.health \/ Valid
    /\ stage' = "inner"
    /\ visible' = HiddenInside
    /\ UNCHANGED <<request, status, sent, body, given>>

-----------------------------------------------------------------------------
(* RequestBodyLimitMiddleware.                                                *)

\* GET, DELETE and so on go straight through.
NoBodyMethod ==
    /\ stage = "inner" /\ ~request.bodied
    /\ stage' = "app"
    /\ UNCHANGED <<request, status, visible, sent, body, given>>

LengthRefused ==
    /\ stage = "inner" /\ request.bodied
    /\ \/ request.declared = "malformed" /\ Answer("400")
       \/ request.declared = "oversized" /\ Answer("413")
    /\ UNCHANGED <<request, visible, sent, body, given>>

\* Variant: the body is read before the bearer is looked at.
ReadingFirst == stage \in {"arrived", "inner"} /\ request.bodied

ReadingAllowed == stage = "inner" /\ request.bodied

StartReading ==
    /\ ReadingAllowed
    /\ request.declared \in {"absent", "bounded"}
    /\ stage' = "reading"
    /\ UNCHANGED <<request, status, visible, sent, body, given>>

\* The client's next n bytes.  The HTTP parser holds it to a declared length.
ClientSends(n) ==
    /\ sent + n <= (IF request.declared = "bounded" THEN MaxBody ELSE MaxSent)
    /\ sent' = sent + n

Fits(n) == body + n <= MaxBody

\* Variant: a message is appended twice.
KeepTwice(n) == body + n + n

Keep(n) == body + n

\* body.extend, then the limit, then more_body.
ReadChunk(n, more) ==
    /\ stage = "reading"
    /\ ClientSends(n)
    /\ body' = Keep(n)
    /\ IF Fits(n)
       THEN /\ stage' = IF more THEN "reading" ELSE "app"
            /\ UNCHANGED status
       ELSE Answer("413")
    /\ UNCHANGED <<request, visible, given>>

\* http.disconnect before the end of the body: no answer, the application is not called.
ClientGone ==
    /\ stage = "reading"
    /\ Answer("none")
    /\ UNCHANGED <<request, visible, sent, body, given>>

-----------------------------------------------------------------------------
(* The application receives and answers.                                      *)

Give(message) ==
    /\ stage = "app"
    /\ Len(given) < MaxGiven
    /\ given' = Append(given, message)
    /\ UNCHANGED <<request, stage, status, visible, body>>

\* Variant: `replayed` is never set.
NotReplayedEver == TRUE

NotReplayed == given = <<>>

Replay ==
    /\ request.bodied /\ NotReplayed
    /\ Give([type |-> "request", size |-> body, more |-> FALSE])
    /\ UNCHANGED sent

ClientThere == \A i \in 1 .. Len(given) : given[i].type # "disconnect"

\* Other methods: the application receives the client's messages themselves.
PassThrough(n, more) ==
    /\ ~request.bodied /\ ClientThere
    /\ ClientSends(n)
    /\ Give([type |-> "request", size |-> n, more |-> more])

PassDisconnect ==
    /\ request.bodied => given # <<>>
    /\ Give([type |-> "disconnect", size |-> 0, more |-> FALSE])
    /\ UNCHANGED sent

AppAnswers ==
    /\ stage = "app"
    /\ Answer("app")
    /\ UNCHANGED <<request, visible, sent, body, given>>

-----------------------------------------------------------------------------
Next ==
    \/ AuthRefused
    \/ AuthPassed
    \/ NoBodyMethod
    \/ LengthRefused
    \/ StartReading
    \/ \E n \in 0 .. MaxChunk, more \in BOOLEAN : ReadChunk(n, more) \/ PassThrough(n, more)
    \/ ClientGone
    \/ Replay
    \/ PassDisconnect
    \/ AppAnswers
    \/ NextRequest

Spec == Init /\ [][Next]_vars

-----------------------------------------------------------------------------
(* Properties.                                                                *)

BodyMessages == {i \in 1 .. Len(given) : given[i].type = "request"}

\* The application gets the body of a POST as the client sent it, in one message, once,
\* and never more of it than the limit, however the client cut it into pieces.
BodyReplayedOnce ==
    request.bodied =>
        \A i \in BodyMessages : /\ i = 1
                                /\ given[i].size = sent
                                /\ ~given[i].more
                                /\ given[i].size <= MaxBody

\* Not one byte of a body is read for a client that does not know the bearer, and
\* FastMCP, and with it every tool, runs without the bearer; the health check is
\* the exception to both.
BearerStopsAtGate ==
    /\ sent > 0 => Valid \/ request.health
    /\ stage = "app" /\ visible => request.health

-----------------------------------------------------------------------------
(* Why the properties hold: what RequestGateProofs shows to be inductive.     *)

\* The buffer holds what was sent; it is within the limit whenever the application
\* may ask for it, and nothing is in it or given before it is read.
BodyBuffered ==
    /\ stage \in {"arrived", "inner"} => sent = 0
    /\ stage \in {"arrived", "inner", "reading"} => given = <<>>
    /\ stage = "reading" => request.bodied
    /\ request.bodied => body = sent
    /\ ~request.bodied => body = 0
    /\ stage \in {"arrived", "inner", "reading", "app"} \/ given # <<>> => body <= MaxBody

\* Whatever is behind the gate has shown the bearer, and no longer has it.
BehindGate ==
    /\ stage \in {"inner", "reading", "app"} \/ sent > 0 => Valid \/ request.health
    /\ stage \in {"inner", "reading", "app"} /\ visible => request.health
=============================================================================
