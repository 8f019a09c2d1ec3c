---------------------------- MODULE WeightTransfer ----------------------------
(***************************************************************************)
(* How the weights get from a training worker into a generation worker:    *)
(*                                                                         *)
(*   - over a ZMQ REQ/REP pair, one pair per engine group, in two buffers  *)
(*     of shared device memory that are filled and read in turns           *)
(*     (stream_weights_via_ipc_zmq_impl and update_weights_via_ipc_zmq);   *)
(*   - as packets of a collective broadcast, which both sides cut out of   *)
(*     the same list of parameters on their own (packed_tensor.py);        *)
(*   - one HTTP request per parameter (stream_weights_via_http_impl).      *)
(*                                                                         *)
(* The worker that sends and the worker that receives are processes of     *)
(* their own.  A parameter is its number in the list.                      *)
(***************************************************************************)
EXTENDS Integers, Sequences, FiniteSets

CONSTANTS
    Sizes,           \* the aligned size of each parameter
    BufferSize,      \* half of buffer_size_bytes
    PacketSize,      \* target_packed_tensor_size
    TransferFaults   \* what may go wrong: a subset of {"pack", "load", "timeout"}

ASSUME TransferAssumption ==
    /\ BufferSize \in Nat
    /\ PacketSize \in Nat
    /\ Sizes \in Seq(1..BufferSize) \ {<<>>}
    /\ TransferFaults \subseteq {"pack", "load", "timeout"}

VARIABLES
    group,        \* the engine group that is refit
    sender,       \* where the sender is
    nextParam,    \* the parameter it takes next from its generator
    names, used,  \* param_names and used_bytes of the buffer it is filling
    current,      \* that buffer
    buffers,      \* what the two buffers hold
    awaitRecv,    \* a reply to the last buffer is due
    receiver,     \* where the receiver is
    nextMeta,     \* the parameter it takes next from its list (broadcast only)
    metaNames, metaUsed,
    reading,      \* the message it is loading from, and how much it has loaded
    loaded,       \* the parameters it has put in the model, in order
    inbox,        \* per group: messages that the REP socket has not received
    replies,      \* per group: replies that the REQ socket has not received
    reqAwaits,    \* the groups whose REQ socket has sent and may only receive
    repOwes       \* the groups whose REP socket has received and may only send

sendVars == <<group, sender, nextParam, names, used, current, buffers, awaitRecv>>
receiveVars == <<receiver, nextMeta, metaNames, metaUsed, reading, loaded>>
socketVars == <<inbox, replies, reqAwaits, repOwes>>
transferVars == <<sendVars, receiveVars, socketVars>>

NumParams == Len(Sizes)
Complete == [kind |-> "complete"]
Buffer(b, list) == [kind |-> "buffer", buffer |-> b, names |-> list]

\* A message that an earlier transfer left: its buffers are freed.
Stale(message) == IF message.kind = "buffer" THEN [message EXCEPT !.buffer = "freed"] ELSE message
Unknown == 0

TransferInit(groups) ==
    /\ group = 0
    /\ sender = "idle" /\ receiver = "idle"
    /\ nextParam = 1 /\ names = <<>> /\ used = 0
    /\ current = "a" /\ buffers = [b \in {"a", "b"} |-> <<>>] /\ awaitRecv = FALSE
    /\ nextMeta = 1 /\ metaNames = <<>> /\ metaUsed = 0
    /\ reading = <<>> /\ loaded = <<>>
    /\ inbox = [g \in groups |-> <<>>] /\ replies = [g \in groups |-> 0]
    /\ reqAwaits = {} /\ repOwes = {}

StartTransfer(g, from, to) ==
    /\ group' = g
    /\ sender' = from /\ receiver' = to
    /\ nextParam' = 1 /\ names' = <<>> /\ used' = 0
    /\ current' = "a" /\ buffers' = [b \in {"a", "b"} |-> <<>>] /\ awaitRecv' = FALSE
    /\ nextMeta' = 1 /\ metaNames' = <<>> /\ metaUsed' = 0
    /\ reading' = <<>> /\ loaded' = <<>>
    /\ inbox' = [inbox EXCEPT ![g] = [i \in DOMAIN @ |-> Stale(@[i])]]
    /\ UNCHANGED <<replies, reqAwaits, repOwes>>

-----------------------------------------------------------------------------
(* stream_weights_via_ipc_zmq_impl *)

Fits == nextParam \in DOMAIN Sizes /\ used + Sizes[nextParam] <= BufferSize

\* Writing from the start of a buffer destroys what it held.
PackTensor ==
    /\ sender = "packing"
    /\ Fits
    /\ buffers' = [buffers EXCEPT ![current] = Append(SubSeq(@, 1, Len(names)), nextParam)]
    /\ names' = Append(names, nextParam)
    /\ used' = used + Sizes[nextParam]
    /\ nextParam' = nextParam + 1
    /\ UNCHANGED <<group, sender, current, awaitRecv, receiveVars, socketVars>>

BufferIsFull == sender = "packing" /\ names # <<>> /\ ~Fits
AllSent == sender = "packing" /\ names = <<>> /\ nextParam > NumParams

\* The reply to the buffer before, if one is due, and then the message.
Send(message) ==
    /\ IF awaitRecv THEN replies[group] > 0 ELSE group \notin reqAwaits
    /\ replies' = IF awaitRecv THEN [replies EXCEPT ![group] = @ - 1] ELSE replies
    /\ inbox' = [inbox EXCEPT ![group] = Append(@, message)]
    /\ reqAwaits' = reqAwaits \cup {group}
    /\ UNCHANGED repOwes

SendBuffer ==
    /\ BufferIsFull
    /\ Send(Buffer(current, names))
    /\ awaitRecv' = TRUE
    /\ current' = IF current = "a" THEN "b" ELSE "a"
    /\ names' = <<>>
    /\ used' = 0
    /\ UNCHANGED <<group, sender, nextParam, buffers, receiveVars>>

SendComplete ==
    /\ AllSent
    /\ Send(Complete)
    /\ sender' = "awaiting"
    /\ UNCHANGED <<group, nextParam, names, used, current, buffers, awaitRecv, receiveVars>>

FinishSending ==
    /\ sender = "awaiting"
    /\ replies[group] > 0
    /\ replies' = [replies EXCEPT ![group] = @ - 1]
    /\ reqAwaits' = reqAwaits \ {group}
    /\ sender' = "done"
    /\ UNCHANGED <<group, nextParam, names, used, current, buffers, awaitRecv,
                   receiveVars, inbox, repOwes>>


SenderFails ==
    /\ sender' = "failed"
    /\ UNCHANGED <<group, nextParam, names, used, current, buffers, awaitRecv,
                   receiveVars, socketVars>>

\* A REQ socket that never got its last reply cannot send (zmq.ZMQError), not
\* in this transfer and not in any later one.
SendRefused ==
    /\ BufferIsFull \/ AllSent
    /\ ~awaitRecv /\ group \in reqAwaits
    /\ SenderFails

PackFails == "pack" \in TransferFaults /\ sender = "packing" /\ SenderFails

\* zmq.Again after RCVTIMEO.
ReplyTimesOut ==
    /\ sender = "awaiting" \/ (awaitRecv /\ (BufferIsFull \/ AllSent))
    /\ replies[group] = 0
    /\ receiver = "failed" \/ "timeout" \in TransferFaults
    /\ SenderFails

-----------------------------------------------------------------------------
(* update_weights_via_ipc_zmq *)

Reply ==
    /\ replies' = [replies EXCEPT ![group] = @ + 1]
    /\ repOwes' = repOwes \ {group}

ReceiveBuffer ==
    /\ receiver = "receiving"
    /\ group \notin repOwes
    /\ inbox[group] # <<>> /\ Head(inbox[group]).kind = "buffer"
    /\ reading' = Head(inbox[group])
    /\ inbox' = [inbox EXCEPT ![group] = Tail(@)]
    /\ repOwes' = repOwes \cup {group}
    /\ metaNames' = <<>>
    /\ receiver' = "loading"
    /\ UNCHANGED <<sendVars, nextMeta, metaUsed, loaded, replies, reqAwaits>>

\* One parameter out of the buffer, whatever is there by now.
LoadTensor ==
    /\ receiver = "loading"
    /\ Len(metaNames) < Len(reading.names)
    /\ LET k == Len(metaNames) + 1
           there == reading.buffer # "freed" /\ k <= Len(buffers[reading.buffer])
       IN  /\ loaded' = Append(loaded, IF there THEN buffers[reading.buffer][k] ELSE Unknown)
           /\ metaNames' = Append(metaNames, reading.names[k])
    /\ UNCHANGED <<sendVars, receiver, nextMeta, metaUsed, reading, socketVars>>

Acknowledge ==
    /\ receiver = "loading"
    /\ metaNames = reading.names
    /\ Reply
    /\ receiver' = "receiving"
    /\ UNCHANGED <<sendVars, nextMeta, metaNames, metaUsed, reading, loaded, inbox, reqAwaits>>

ReceiveComplete ==
    /\ receiver = "receiving"
    /\ group \notin repOwes
    /\ inbox[group] # <<>> /\ Head(inbox[group]).kind = "complete"
    /\ inbox' = [inbox EXCEPT ![group] = Tail(@)]
    /\ Reply
    /\ receiver' = "done"
    /\ UNCHANGED <<sendVars, nextMeta, metaNames, metaUsed, reading, loaded, reqAwaits>>

ReceiverFails ==
    /\ receiver' = "failed"
    /\ UNCHANGED <<sendVars, nextMeta, metaNames, metaUsed, reading, loaded, socketVars>>

\* A REP socket that has not answered its last message cannot receive.
ReceiveRefused == receiver = "receiving" /\ group \in repOwes /\ ReceiverFails

LoadFails == "load" \in TransferFaults /\ receiver = "loading" /\ ReceiverFails

ReceiveTimesOut ==
    /\ receiver = "receiving"
    /\ inbox[group] = <<>>
    /\ sender = "failed" \/ "timeout" \in TransferFaults
    /\ ReceiverFails

-----------------------------------------------------------------------------
(* packed_broadcast_producer and packed_broadcast_consumer *)

ProduceTensor ==
    /\ sender = "producing"
    /\ nextParam <= NumParams
    /\ names' = Append(names, nextParam)
    /\ used' = used + Sizes[nextParam]
    /\ nextParam' = nextParam + 1
    /\ sender' = IF used' > PacketSize \/ nextParam' > NumParams
                 THEN "broadcasting" ELSE "producing"
    /\ UNCHANGED <<group, current, buffers, awaitRecv, receiveVars, socketVars>>

ConsumeMeta ==
    /\ receiver = "consuming"
    /\ nextMeta <= NumParams
    /\ metaNames' = Append(metaNames, nextMeta)
    /\ metaUsed' = metaUsed + Sizes[nextMeta]
    /\ nextMeta' = nextMeta + 1
    /\ receiver' = IF metaUsed' > PacketSize \/ nextMeta' > NumParams
                   THEN "broadcasting" ELSE "consuming"
    /\ UNCHANGED <<sendVars, reading, loaded, socketVars>>

\* The collective: it returns on neither side before both have called it with
\* as many bytes.  The consumer cuts the packet at its own offsets.
Broadcast ==
    /\ sender = "broadcasting" /\ receiver = "broadcasting"
    /\ used = metaUsed
    /\ loaded' = loaded \o names
    /\ names' = <<>> /\ used' = 0
    /\ metaNames' = <<>> /\ metaUsed' = 0
    /\ sender' = IF nextParam > NumParams THEN "done" ELSE "producing"
    /\ receiver' = IF nextMeta > NumParams THEN "done" ELSE "consuming"
    /\ UNCHANGED <<group, nextParam, current, buffers, awaitRecv, nextMeta, reading, socketVars>>

-----------------------------------------------------------------------------
(* stream_weights_via_http_impl *)

PostTensor ==
    /\ sender = "posting"
    /\ loaded' = Append(loaded, nextParam)
    /\ nextParam' = nextParam + 1
    /\ sender' = IF nextParam' > NumParams THEN "done" ELSE "posting"
    /\ UNCHANGED <<group, names, used, current, buffers, awaitRecv, receiver, nextMeta,
                   metaNames, metaUsed, reading, socketVars>>

PostFails == "load" \in TransferFaults /\ sender = "posting" /\ SenderFails

-----------------------------------------------------------------------------

SenderStep ==
    \/ PackTensor
    \/ SendBuffer
    \/ SendComplete
    \/ FinishSending
    \/ SendRefused
    \/ PackFails
    \/ ReplyTimesOut
    \/ ProduceTensor
    \/ PostTensor
    \/ PostFails

ReceiverStep ==
    \/ ReceiveBuffer
    \/ LoadTensor
    \/ Acknowledge
    \/ ReceiveComplete
    \/ ReceiveRefused
    \/ LoadFails
    \/ ReceiveTimesOut
    \/ ConsumeMeta

TransferStep == SenderStep \/ ReceiverStep \/ Broadcast

TransferOver == sender \in {"done", "failed"} /\ receiver \in {"done", "failed"}
TransferSucceeded == sender = "done" /\ receiver = "done"

\* Every parameter is in the model, with its own contents.
AllLoaded == loaded = [i \in 1..NumParams |-> i]
=============================================================================
