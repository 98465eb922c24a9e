--------------------------- MODULE RequestGateProofs ---------------------------
(* What the request gate guarantees for every body limit and every way to cut *)
(* a body into messages.  MCRequestGate checks the same formulas for a limit  *)
(* of three bytes.                                                            *)
EXTENDS RequestGate, TLAPS

ReadsChunk == \E n \in 0 .. MaxChunk, more \in BOOLEAN : ReadChunk(n, more)
PassesThrough == \E n \in 0 .. MaxChunk, more \in BOOLEAN : PassThrough(n, more)

LEMMA NextCases ==
    ASSUME [Next]_vars
    PROVE  \/ AuthRefused \/ AuthPassed \/ NoBodyMethod \/ LengthRefused \/ StartReading
           \/ ReadsChunk \/ PassesThrough \/ ClientGone \/ Replay \/ PassDisconnect
           \/ AppAnswers \/ NextRequest \/ UNCHANGED vars
BY DEF Next, ReadsChunk, PassesThrough

-----------------------------------------------------------------------------
(* Type correctness.                                                          *)

LEMMA TypeInit == Init => TypeOK
BY SizesAssumption DEF Init, TypeOK, Stages, Statuses, MaxSent, Heads

LEMMA GiveTypes ==
    ASSUME TypeOK, NEW m \in Message, Give(m), sent' \in 0 .. MaxSent
    PROVE  TypeOK'
BY DEF Give, TypeOK

LEMMA ClientTypes ==
    ASSUME TypeOK, NEW n \in 0 .. MaxChunk, ClientSends(n)
    PROVE  sent' \in 0 .. MaxSent /\ sent' = sent + n
<1>1. sent \in Nat /\ n \in Nat /\ MaxBody \in Nat /\ MaxSent \in Nat /\ MaxBody <= MaxSent
  BY SizesAssumption DEF TypeOK, MaxSent
<1>2. sent + n <= MaxBody \/ sent + n <= MaxSent
  BY DEF ClientSends
<1>3. sent' = sent + n
  BY DEF ClientSends
<1> QED BY <1>1, <1>2, <1>3

LEMMA TypeNext ==
    ASSUME TypeOK, BodyBuffered, [Next]_vars
    PROVE  TypeOK'
<1> USE DEF Answer, Stages, Statuses
<1>1. CASE AuthRefused \/ AuthPassed \/ NoBodyMethod \/ LengthRefused \/ StartReading
           \/ ClientGone \/ AppAnswers
  BY <1>1 DEF AuthRefused, AuthPassed, NoBodyMethod, LengthRefused, StartReading,
              ClientGone, AppAnswers, HiddenInside, TypeOK, Heads
<1>2. CASE ReadsChunk
  <2>1. PICK n \in 0 .. MaxChunk, more \in BOOLEAN : ReadChunk(n, more)
    BY <1>2 DEF ReadsChunk
  <2>2. sent' \in 0 .. MaxSent /\ sent' = sent + n
    BY <2>1, ClientTypes DEF ReadChunk
  <2>3. body' = body + n /\ body \in Nat /\ body <= sent
    BY <2>1 DEF ReadChunk, Keep, BodyBuffered, TypeOK
  <2>4. body' \in 0 .. MaxSent
    BY <2>2, <2>3, SizesAssumption DEF MaxSent, TypeOK
  <2> QED BY <2>1, <2>2, <2>4 DEF ReadChunk, TypeOK
<1>3. CASE PassesThrough
  <2>1. PICK n \in 0 .. MaxChunk, more \in BOOLEAN : PassThrough(n, more)
    BY <1>3 DEF PassesThrough
  <2>2. [type |-> "request", size |-> n, more |-> more] \in Message
    BY SizesAssumption DEF Message
  <2> QED BY <2>1, <2>2, ClientTypes, GiveTypes DEF PassThrough
<1>4. CASE Replay
  <2>1. [type |-> "request", size |-> body, more |-> FALSE] \in Message
    BY DEF Message, TypeOK
  <2> QED BY <1>4, <2>1, GiveTypes DEF Replay, TypeOK
<1>5. CASE PassDisconnect
  <2>1. [type |-> "disconnect", size |-> 0, more |-> FALSE] \in Message
    BY DEF Message
  <2> QED BY <1>5, <2>1, GiveTypes DEF PassDisconnect, TypeOK
<1>6. CASE NextRequest
  BY <1>6, SizesAssumption DEF NextRequest, HeadArrives, TypeOK, MaxSent, Heads
<1>7. CASE UNCHANGED vars
  BY <1>7 DEF vars, TypeOK
<1> QED BY <1>1, <1>2, <1>3, <1>4, <1>5, <1>6, <1>7, NextCases

-----------------------------------------------------------------------------
(* The buffer.                                                                *)

LEMMA BufferedInit == Init => BodyBuffered
BY SizesAssumption DEF Init, BodyBuffered

LEMMA BufferedNext ==
    ASSUME TypeOK, BodyBuffered, [Next]_vars
    PROVE  BodyBuffered'
<1> USE DEF Answer, BodyBuffered
<1>1. CASE AuthRefused \/ AuthPassed \/ NoBodyMethod \/ LengthRefused \/ StartReading
           \/ ClientGone \/ AppAnswers
  BY <1>1 DEF AuthRefused, AuthPassed, NoBodyMethod, LengthRefused, StartReading,
              ReadingAllowed, ClientGone, AppAnswers
<1>2. CASE ReadsChunk
  <2>1. PICK n \in 0 .. MaxChunk, more \in BOOLEAN : ReadChunk(n, more)
    BY <1>2 DEF ReadsChunk
  <2>2. /\ stage = "reading" /\ given = <<>> /\ UNCHANGED <<request, given>>
        /\ sent' = sent + n /\ body' = body + n
        /\ stage' = "ended" \/ (stage' \in {"reading", "app"} /\ body + n <= MaxBody)
    BY <2>1 DEF ReadChunk, ClientSends, Keep, Fits
  <2> QED BY <2>2 DEF TypeOK
<1>3. CASE PassesThrough
  BY <1>3 DEF PassesThrough, PassThrough, Give
<1>4. CASE Replay \/ PassDisconnect
  BY <1>4 DEF Replay, PassDisconnect, Give
<1>5. CASE NextRequest
  BY <1>5, SizesAssumption DEF NextRequest, HeadArrives
<1>6. CASE UNCHANGED vars
  BY <1>6 DEF vars
<1> QED BY <1>1, <1>2, <1>3, <1>4, <1>5, <1>6, NextCases

-----------------------------------------------------------------------------
(* The bearer.                                                                *)

LEMMA BehindInit == Init => BehindGate
BY DEF Init, BehindGate

LEMMA BehindNext ==
    ASSUME TypeOK, BodyBuffered, BehindGate, [Next]_vars
    PROVE  BehindGate'
<1> USE DEF Answer, BehindGate, Valid
<1>1. CASE AuthRefused \/ AuthPassed \/ NoBodyMethod \/ LengthRefused \/ StartReading
           \/ ClientGone \/ AppAnswers
  <2>1. CASE AuthPassed
    <3>1. /\ stage = "arrived" /\ stage' = "inner" /\ UNCHANGED <<request, sent>>
          /\ request.health \/ request.auth = "exact"
      BY <2>1 DEF AuthPassed
    <3>2. visible' => request.health
      BY <2>1 DEF AuthPassed, HiddenInside
    <3> QED BY <3>1, <3>2
  <2>2. CASE AuthRefused \/ LengthRefused \/ ClientGone \/ AppAnswers
    BY <2>2 DEF AuthRefused, LengthRefused, ClientGone, AppAnswers
  <2>3. CASE NoBodyMethod \/ StartReading
    <3>1. stage = "inner" /\ UNCHANGED <<request, visible, sent>>
      BY <2>3 DEF NoBodyMethod, StartReading, ReadingAllowed
    <3> QED BY <3>1
  <2> QED BY <1>1, <2>1, <2>2, <2>3
<1>2. CASE ReadsChunk
  BY <1>2 DEF ReadsChunk, ReadChunk
<1>3. CASE PassesThrough
  BY <1>3 DEF PassesThrough, PassThrough, Give
<1>4. CASE Replay \/ PassDisconnect
  BY <1>4 DEF Replay, PassDisconnect, Give
<1>5. CASE NextRequest
  BY <1>5 DEF NextRequest, HeadArrives
<1>6. CASE UNCHANGED vars
  BY <1>6 DEF vars
<1> QED BY <1>1, <1>2, <1>3, <1>4, <1>5, <1>6, NextCases

-----------------------------------------------------------------------------
(* What the application receives.                                             *)

LEMMA ReplayedInit == Init => BodyReplayedOnce
BY DEF Init, BodyReplayedOnce, BodyMessages

LEMMA ReplayedGive ==
    ASSUME TypeOK, BodyReplayedOnce, NEW m \in Message, Give(m), sent' = sent,
           request.bodied /\ m.type = "request" =>
               given = <<>> /\ m.size = sent /\ ~m.more /\ m.size <= MaxBody
    PROVE  BodyReplayedOnce'
<1>1. /\ given \in Seq(Message) /\ given' = Append(given, m)
      /\ request' = request
  BY DEF Give, TypeOK
<1>2. Len(given') = Len(given) + 1 /\ Len(given) \in Nat
  BY <1>1
<1>3. \A i \in 1 .. Len(given') : \/ i \in 1 .. Len(given) /\ given'[i] = given[i]
                                  \/ i = Len(given) + 1 /\ given'[i] = m
  BY <1>1, <1>2
<1>4. given = <<>> => Len(given) = 0
  OBVIOUS
<1> QED BY <1>1, <1>2, <1>3, <1>4 DEF BodyReplayedOnce, BodyMessages

LEMMA ReplayedNext ==
    ASSUME TypeOK, BodyBuffered, BodyReplayedOnce, [Next]_vars
    PROVE  BodyReplayedOnce'
<1>1. CASE UNCHANGED <<request, given, sent>>
  BY <1>1 DEF BodyReplayedOnce, BodyMessages
<1>2. CASE ReadsChunk \/ NextRequest
  <2>1. given' = <<>>
    BY <1>2 DEF ReadsChunk, ReadChunk, NextRequest, HeadArrives, BodyBuffered
  <2> QED BY <2>1 DEF BodyReplayedOnce, BodyMessages
<1>3. CASE PassesThrough
  <2>1. ~request'.bodied
    BY <1>3 DEF PassesThrough, PassThrough, Give
  <2> QED BY <2>1 DEF BodyReplayedOnce
<1>4. CASE Replay
  <2> DEFINE m == [type |-> "request", size |-> body, more |-> FALSE]
  <2>1. m \in Message
    BY DEF Message, TypeOK
  <2>2. request.bodied /\ given = <<>> /\ Give(m) /\ sent' = sent /\ stage = "app"
    BY <1>4 DEF Replay, NotReplayed, Give
  <2>3. m.size = sent /\ m.size <= MaxBody /\ ~m.more
    BY <2>2 DEF BodyBuffered
  <2> QED BY <2>1, <2>2, <2>3, ReplayedGive
<1>5. CASE PassDisconnect
  <2> DEFINE m == [type |-> "disconnect", size |-> 0, more |-> FALSE]
  <2>1. m \in Message /\ m.type # "request"
    BY DEF Message
  <2> QED BY <1>5, <2>1, ReplayedGive DEF PassDisconnect
<1> QED BY <1>1, <1>2, <1>3, <1>4, <1>5, NextCases
        DEF AuthRefused, AuthPassed, NoBodyMethod, LengthRefused, StartReading, ClientGone,
            AppAnswers, vars

-----------------------------------------------------------------------------
GateInv == TypeOK /\ BodyBuffered /\ BehindGate /\ BodyReplayedOnce

LEMMA GateInvariant == Spec => []GateInv
<1>1. Init => GateInv
  BY TypeInit, BufferedInit, BehindInit, ReplayedInit DEF GateInv
<1>2. GateInv /\ [Next]_vars => GateInv'
  BY TypeNext, BufferedNext, BehindNext, ReplayedNext DEF GateInv
<1> QED BY <1>1, <1>2, PTL DEF Spec

\* The gate's variables keep their types; no more than the limit and one message
\* is ever buffered.
THEOREM TypeCorrect == Spec => []TypeOK
BY GateInvariant, PTL DEF GateInv

\* For every limit and every cutting of the body: the application gets the body
\* whole, once, in one message that is within the limit.
THEOREM BodyIsReplayedOnce == Spec => []BodyReplayedOnce
BY GateInvariant, PTL DEF GateInv

\* No byte is read for a client without the bearer, and no tool sees the bearer.
THEOREM BearerIsStopped == Spec => []BearerStopsAtGate
<1>1. GateInv => BearerStopsAtGate
  BY DEF GateInv, BehindGate, BearerStopsAtGate
<1> QED BY <1>1, GateInvariant, PTL
=============================================================================
