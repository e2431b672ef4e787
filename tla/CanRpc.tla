------------------------------- MODULE CanRpc -------------------------------
(***************************************************************************)
(* One RPC route over CAN: CanRpcClient and CanRpcServer                   *)
(* (src/src/runtime/aster_runtime/transport/can/rpc_bridge.hpp).           *)
(*                                                                         *)
(* The request goes through a ReliableSender of the client to a            *)
(* ReliableReceiver of the server and the response the other way; each     *)
(* direction of the bus carries the data frames of one and the             *)
(* acknowledgements of the other.  The bus loses frames, writers reject    *)
(* frames, and the server's node may restart, which the client learns some *)
(* time later.  Deadlines are reduced to whether a call has one; then it   *)
(* may pass at any moment.  Clocks do not fail.                            *)
(***************************************************************************)
EXTENDS CanReliable

CONSTANTS
  MaxCalls,        \* bound on the calls made
  Fragments,       \* frames of a request and of a response
  MaximumRetries,  \* maximum_retries_
  BusDepth,        \* frames in flight per direction
  MaxRejections,   \* writes that are rejected
  MaxRestarts      \* restarts of the server's node

ASSUME CanRpcAssumption ==
  /\ MaxCalls \in Nat /\ Fragments \in Nat \ {0} /\ MaximumRetries \in Nat
  /\ BusDepth \in Nat \ {0} /\ MaxRejections \in Nat /\ MaxRestarts \in Nat

VARIABLES
  client,          \* pending_, call_info_ and the sequence numbers
  requestSender, responseReceiver,
  server,          \* active_, active_request_id_ and active_sequence_
  requestReceiver, responseSender,
  toServer, toClient,  \* the frames in flight
  answers,         \* history, per call: what CallAsync or its completion reported
  executed,        \* history, per call: how often this server ran it
  produced,        \* history, per call: its handler has answered kOk
  rejections, restarts,
  resetDue         \* the server has restarted and the client does not know yet

clientVars == <<client, requestSender, responseReceiver>>
serverVars == <<server, requestReceiver, responseSender>>
history == <<answers, executed, produced>>
vars == <<clientVars, serverVars, toServer, toClient, history, rejections, restarts, resetDue>>

Ids == 1 .. MaxCalls
IdleClient == [pending |-> FALSE, id |-> 0, limited |-> FALSE, sequence |-> 0, next |-> 0]
IdleServer == [active |-> FALSE, id |-> 0, sequence |-> 0]

Init ==
  /\ client = IdleClient /\ requestSender = IdleSender /\ responseReceiver = IdleReceiver
  /\ server = IdleServer /\ requestReceiver = IdleReceiver /\ responseSender = IdleSender
  /\ toServer = <<>> /\ toClient = <<>>
  /\ answers = [i \in Ids |-> <<>>] /\ executed = [i \in Ids |-> 0] /\ produced = {}
  /\ rejections = 0 /\ restarts = 0 /\ resetDue = FALSE

\* An acknowledgement is a frame of no message.
AckFrame(frame) == [sequence |-> frame.sequence, index |-> 0, count |-> 0, message |-> NoMessage]
IsAck(frame) == frame.count = 0

Request(id, limited) == [id |-> id, body |-> IF limited THEN "limited" ELSE "unlimited"]
Response(id, status) == [id |-> id, body |-> status]

\* The frames written to a bus; a write that is not accepted is a rejection.
Wrote(bus, frames, rejected) ==
  /\ Len(bus) + Len(frames) <= BusDepth
  /\ bus' = bus \o frames
  /\ rejections' = (IF rejected THEN rejections + 1 ELSE rejections)
  /\ rejections' <= MaxRejections

-----------------------------------------------------------------------------
(* CanRpcClient.                                                           *)

\* CallAsync of a free client.  A rejected write takes the call back, but not the
\* frames that were written nor the numbers that were used.
CallAsync(limited, k) ==
  /\ client.id < MaxCalls /\ ~client.pending /\ ~SenderBusy(requestSender)
  /\ LET id == client.id + 1
         begun == Begin(client.next, Request(id, limited), Fragments)
     IN  /\ Wrote(toServer, NextFrames(begun, k), k < Fragments)
         /\ requestSender' = IF k = Fragments THEN AfterWrites(begun, k) ELSE IdleSender
         /\ client' = [pending |-> k = Fragments, id |-> id, limited |-> limited,
                       sequence |-> client.next, next |-> NextSequence(client.next)]
         /\ answers' = IF k = Fragments THEN answers ELSE [answers EXCEPT ![id] = <<"kRefused">>]
  /\ UNCHANGED <<responseReceiver, serverVars, toClient, executed, produced, restarts, resetDue>>

Answer(status) ==
  /\ client' = [client EXCEPT !.pending = FALSE]
  /\ answers' = [answers EXCEPT ![client.id] = Append(@, status)]

\* Mutant: neither the number nor the request id of a response is compared.
AnswersAny(message, sequence) == client.pending

\* The response belongs to the pending call.
AnswersPending(message, sequence) ==
  client.pending /\ sequence = client.sequence /\ message.id = client.id

ClientAcceptAck ==
  /\ toClient # <<>> /\ IsAck(Head(toClient))
  /\ requestSender' = HandleAck(requestSender, Head(toClient).sequence)
  /\ toClient' = Tail(toClient)
  /\ UNCHANGED <<client, responseReceiver, serverVars, toServer, history, rejections, restarts, resetDue>>

\* Accept of a data frame.  When the acknowledgement is not written the response
\* is dropped, although the receiver has taken note of it.
ClientAcceptData(written) ==
  /\ toClient # <<>> /\ ~IsAck(Head(toClient))
  /\ LET frame == Head(toClient)
         result == Accept(responseReceiver, frame)
     IN  /\ responseReceiver' = result.receiver
         /\ written \/ result.ack
         /\ Wrote(toServer, IF result.ack /\ written THEN <<AckFrame(frame)>> ELSE <<>>, ~written)
         /\ IF written /\ result.content # {} /\ AnswersPending(frame.message, frame.sequence)
              THEN Answer(frame.message.body)
              ELSE UNCHANGED <<client, answers>>
  /\ toClient' = Tail(toClient)
  /\ UNCHANGED <<requestSender, serverVars, executed, produced, restarts, resetDue>>

\* FinishTimeout.
FinishTimeout == Answer("kTimeout") /\ requestSender' = IdleSender

\* Mutant: a time-out leaves the call pending.
ClientPollDeadlineStays ==
  /\ client.pending /\ client.limited
  /\ answers' = [answers EXCEPT ![client.id] = Append(@, "kTimeout")]
  /\ requestSender' = IdleSender
  /\ Len(answers[client.id]) < 2
  /\ UNCHANGED <<client, responseReceiver, serverVars, toServer, toClient, executed, produced, rejections, restarts, resetDue>>

\* Poll after the deadline of the call.
ClientPollDeadline ==
  /\ client.pending /\ client.limited
  /\ FinishTimeout
  /\ UNCHANGED <<responseReceiver, serverVars, toServer, toClient, executed, produced, rejections, restarts, resetDue>>

\* Poll after the retry deadline of the request.  Only a sender that waits for
\* its acknowledgement is looked at, and only while a call is pending.
ClientPollRetry(k) ==
  /\ client.pending /\ requestSender.state = "kWaitingForAck"
  /\ LET s == RetryOrFail(requestSender, MaximumRetries)
     IN  IF s.state = "kFailed"
           THEN /\ k = 0 /\ FinishTimeout /\ UNCHANGED <<toServer, rejections>>
           ELSE /\ Wrote(toServer, NextFrames(s, k), k < Fragments)
                /\ requestSender' = AfterWrites(s, k) /\ UNCHANGED <<client, answers>>
  /\ UNCHANGED <<responseReceiver, serverVars, toClient, executed, produced, restarts, resetDue>>

\* ResetPeer, when the link control has seen that the server's node restarted.
ClientResetPeer ==
  /\ resetDue /\ resetDue' = FALSE
  /\ requestSender' = IdleSender /\ responseReceiver' = ResetPeerHistory(responseReceiver)
  /\ IF client.pending THEN Answer("kUnavailable") ELSE UNCHANGED <<client, answers>>
  /\ UNCHANGED <<serverVars, toServer, toClient, executed, produced, rejections, restarts>>

-----------------------------------------------------------------------------
(* CanRpcServer.                                                           *)

\* SendResponse.
SendResponse(id, sequence, status, k) ==
  LET begun == Begin(sequence, Response(id, status), Fragments)
  IN  /\ Wrote(toClient, NextFrames(begun, k), k < Fragments)
      /\ responseSender' = AfterWrites(begun, k)

ServerAcceptAck ==
  /\ toServer # <<>> /\ IsAck(Head(toServer))
  /\ responseSender' = HandleAck(responseSender, Head(toServer).sequence)
  /\ toServer' = Tail(toServer)
  /\ UNCHANGED <<clientVars, server, requestReceiver, toClient, history, rejections, restarts, resetDue>>

\* Accept of a frame that completes no request, of one whose acknowledgement is
\* not written, or of a request that finds the server busy: the receiver moves on
\* and nothing else happens.
ServerAcceptData(written) ==
  /\ toServer # <<>> /\ ~IsAck(Head(toServer))
  /\ LET frame == Head(toServer)
         result == Accept(requestReceiver, frame)
     IN  /\ requestReceiver' = result.receiver
         /\ written \/ result.ack
         /\ (written /\ result.content # {}) => server.active \/ SenderBusy(responseSender)
         /\ Wrote(toClient, IF result.ack /\ written THEN <<AckFrame(frame)>> ELSE <<>>, ~written)
  /\ toServer' = Tail(toServer)
  /\ UNCHANGED <<clientVars, server, responseSender, history, restarts, resetDue>>

\* The request reaches a free server and is acknowledged.
ReceivesRequest ==
  /\ toServer # <<>> /\ ~IsAck(Head(toServer))
  /\ ~server.active /\ ~SenderBusy(responseSender)
  /\ LET result == Accept(requestReceiver, Head(toServer))
     IN  result.content # {} /\ requestReceiver' = result.receiver
  /\ toServer' = Tail(toServer)

\* It is handed to the local RPC, which accepts it.
ServerRuns ==
  /\ ReceivesRequest
  /\ LET frame == Head(toServer)
     IN  /\ Wrote(toClient, <<AckFrame(frame)>>, FALSE)
         /\ server' = [active |-> TRUE, id |-> frame.message.id, sequence |-> frame.sequence]
         /\ executed' = [executed EXCEPT ![frame.message.id] = @ + 1]
  /\ UNCHANGED <<clientVars, responseSender, answers, produced, restarts, resetDue>>

\* Its deadline has passed, or the local RPC refuses it: the answer is sent at
\* once, behind the acknowledgement.
ServerRefuses(status, k) ==
  /\ ReceivesRequest
  /\ LET frame == Head(toServer)
         begun == Begin(frame.sequence, Response(frame.message.id, status), Fragments)
     IN  /\ status = "kTimeout" => frame.message.body = "limited"
         /\ Wrote(toClient, <<AckFrame(frame)>> \o NextFrames(begun, k), k < Fragments)
         /\ server' = [active |-> FALSE, id |-> frame.message.id, sequence |-> frame.sequence]
         /\ responseSender' = AfterWrites(begun, k)
  /\ UNCHANGED <<clientVars, history, restarts, resetDue>>

\* Complete: the local RPC is done.
ServerComplete(status, k) ==
  /\ server.active
  /\ server' = [server EXCEPT !.active = FALSE]
  /\ SendResponse(server.id, server.sequence, status, k)
  /\ produced' = IF status = "kOk" THEN produced \cup {server.id} ELSE produced
  /\ UNCHANGED <<clientVars, requestReceiver, toServer, answers, executed, restarts, resetDue>>

\* Poll.  Only a sender that waits for its acknowledgement is looked at.
ServerPoll(k) ==
  /\ responseSender.state = "kWaitingForAck"
  /\ LET s == RetryOrFail(responseSender, MaximumRetries)
     IN  IF s.state = "kFailed"
           THEN k = 0 /\ responseSender' = s /\ UNCHANGED <<toClient, rejections>>
           ELSE /\ Wrote(toClient, NextFrames(s, k), k < Fragments)
                /\ responseSender' = AfterWrites(s, k)
  /\ UNCHANGED <<clientVars, server, requestReceiver, toServer, history, restarts, resetDue>>

-----------------------------------------------------------------------------
(* The environment.                                                        *)

\* The server's node starts again; its local calls are gone with it.
ServerRestart ==
  /\ restarts < MaxRestarts /\ restarts' = restarts + 1
  /\ server' = IdleServer /\ requestReceiver' = IdleReceiver /\ responseSender' = IdleSender
  /\ executed' = [i \in Ids |-> 0] /\ resetDue' = TRUE
  /\ UNCHANGED <<clientVars, toServer, toClient, answers, produced, rejections>>

LoseToServer ==
  /\ toServer # <<>> /\ toServer' = Tail(toServer)
  /\ UNCHANGED <<clientVars, serverVars, toClient, history, rejections, restarts, resetDue>>

LoseToClient ==
  /\ toClient # <<>> /\ toClient' = Tail(toClient)
  /\ UNCHANGED <<clientVars, serverVars, toServer, history, rejections, restarts, resetDue>>

Writes == 0 .. Fragments

ClientPoll == ClientPollDeadline \/ \E k \in Writes : ClientPollRetry(k)

ClientReceive == ClientAcceptAck \/ \E written \in BOOLEAN : ClientAcceptData(written)

ServerReceive ==
  \/ ServerAcceptAck \/ ServerRuns
  \/ \E written \in BOOLEAN : ServerAcceptData(written)
  \/ \E status \in {"kTimeout", "kError"}, k \in Writes : ServerRefuses(status, k)

Completes == \E status \in {"kOk", "kError", "kTimeout"}, k \in Writes : ServerComplete(status, k)

Next ==
  \/ \E limited \in BOOLEAN, k \in Writes : CallAsync(limited, k)
  \/ ClientPoll \/ ClientReceive \/ ClientResetPeer
  \/ ServerReceive \/ Completes \/ (\E k \in Writes : ServerPoll(k))
  \/ ServerRestart \/ LoseToServer \/ LoseToClient

\* The transport modules poll, deadlines pass, the bus moves, local calls return
\* and a restart is noticed.
Fairness ==
  /\ WF_vars(ClientPollDeadline) /\ WF_vars(\E k \in Writes : ClientPollRetry(k))
  /\ WF_vars(\E k \in Writes : ServerPoll(k))
  /\ WF_vars(ClientReceive) /\ WF_vars(ServerReceive) /\ WF_vars(Completes)
  /\ WF_vars(ClientResetPeer)

SafetySpec == Init /\ [][Next]_vars
Spec == SafetySpec /\ Fairness

-----------------------------------------------------------------------------
(* Properties.                                                             *)

\* Whatever is lost, repeated or late, a call is answered at most once: by its
\* completion, or by CallAsync reporting that the request was not sent, never both.
AnsweredAtMostOnce ==
  \A i \in Ids :
    /\ Len(answers[i]) <= 1
    /\ (i = client.id /\ client.pending) => answers[i] = <<>>

\* Requests that are retransmitted are executed once by a server.
ExecutedAtMostOnce == \A i \in Ids : executed[i] <= 1

\* kOk is only reported for a call whose own handler has answered kOk, although
\* late responses of calls that timed out are still on the bus.
OkMeansProduced ==
  \A i \in Ids : answers[i] = <<"kOk">> => i \in produced

\* A client without a pending call can send again: losing an acknowledgement does
\* not keep its sender busy.
ClientFreesItself ==
  (SenderBusy(requestSender) /\ ~client.pending) ~> (~SenderBusy(requestSender) \/ client.pending)

\* A response whose frame was rejected by the writer is sent later or given up, so
\* that the server can take the next request.
ServerFreesItself == SenderBusy(responseSender) ~> ~SenderBusy(responseSender)
=============================================================================
