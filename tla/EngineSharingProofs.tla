------------------------- MODULE EngineSharingProofs -------------------------
(***************************************************************************)
(* For every mix of validation decodes, every backend, any number of steps *)
(* and of parameters and whatever fails: the devices have one owner, the   *)
(* weights are streamed from where they are, and nothing is generated with *)
(* any weights but the policy's own.                                       *)
(*                                                                         *)
(* The argument has two parts.  A transfer that both sides end well has    *)
(* put every parameter in place: on the way, what the model has, what is   *)
(* in the message or the buffer being read, and what the sender has packed *)
(* since, make up the list of parameters without a gap (TransferInv), and  *)
(* a socket whose last request was never answered lets no sender through   *)
(* (SocketInv).  Around the transfers, the driver's place says which       *)
(* engine group may hold memory, what the policy has on the device, and    *)
(* when the rollout engines hold the current weights (DriverInv).          *)
(***************************************************************************)
EXTENDS EngineSharingProperties, SequenceTheorems, TLAPS

\* The parameters from + 1, ..., to, in order.
IsRun(s, from, to) ==
    /\ s \in Seq(Int)
    /\ Len(s) = to - from
    /\ \A i \in 1..Len(s) : s[i] = from + i

LEMMA EmptyRun == ASSUME NEW n \in Int PROVE IsRun(<<>>, n, n)
BY DEF IsRun

LEMMA RunGrows ==
    ASSUME NEW s, NEW m \in Int, NEW n \in Int, IsRun(s, m, n)
    PROVE  IsRun(Append(s, n + 1), m, n + 1)
BY DEF IsRun

LEMMA RunsJoin ==
    ASSUME NEW s, NEW t, NEW m \in Int, NEW n \in Int, NEW k \in Int,
           IsRun(s, m, n), IsRun(t, n, k)
    PROVE  IsRun(s \o t, m, k)
<1>0. s \in Seq(Int) /\ t \in Seq(Int) /\ Len(s) \in Nat /\ Len(t) \in Nat
    BY DEF IsRun
<1>1. /\ s \o t \in Seq(Int)
      /\ Len(s \o t) = Len(s) + Len(t)
      /\ \A i \in 1..(Len(s) + Len(t)) :
            (s \o t)[i] = IF i <= Len(s) THEN s[i] ELSE t[i - Len(s)]
    BY <1>0, ConcatProperties
<1>2. ASSUME NEW i \in 1..(Len(s) + Len(t)) PROVE (s \o t)[i] = m + i
    <2>1. CASE i <= Len(s)
        <3>1. i \in 1..Len(s) /\ (s \o t)[i] = s[i]
            BY <2>1, <1>0, <1>1
        <3> QED
            BY <3>1 DEF IsRun
    <2>2. CASE ~(i <= Len(s))
        <3>1. i - Len(s) \in 1..Len(t) /\ (s \o t)[i] = t[i - Len(s)]
            BY <2>2, <1>0, <1>1
        <3> QED
            BY <3>1, <1>0 DEF IsRun
    <2> QED
        BY <2>1, <2>2
<1> QED
    BY <1>0, <1>1, <1>2 DEF IsRun

LEMMA Parameters == /\ NumParams \in Nat \ {0}
                    /\ \A i \in 1..NumParams : Sizes[i] \in 1..BufferSize
                    /\ DOMAIN Sizes = 1..NumParams
BY TransferAssumption DEF NumParams

LEMMA WholeRun == ASSUME IsRun(loaded, 0, NumParams) PROVE AllLoaded
<1>1. /\ loaded \in Seq(Int) /\ Len(loaded) = NumParams
      /\ \A i \in 1..NumParams : loaded[i] = i
    BY Parameters DEF IsRun
<1>2. loaded = [i \in 1..Len(loaded) |-> loaded[i]]
    BY <1>1
<1> QED
    BY <1>1, <1>2 DEF AllLoaded

-----------------------------------------------------------------------------
(* The sockets.  Between a request and the receipt of its reply exactly one *)
(* of three things is there: the message, a debt of the REP socket, or the  *)
(* reply.                                                                   *)

SocketOf(g) ==
    /\ inbox[g] = <<>> \/ inbox[g] = <<inbox[g][1]>>
    /\ replies[g] \in {0, 1}
    /\ inbox[g] # <<>> => g \notin repOwes /\ replies[g] = 0
    /\ g \in repOwes => replies[g] = 0
    /\ g \in reqAwaits <=> inbox[g] # <<>> \/ g \in repOwes \/ replies[g] = 1

SocketInv ==
    /\ inbox = [g \in DOMAIN inbox |-> inbox[g]]
    /\ replies = [g \in DOMAIN inbox |-> replies[g]]
    /\ \A g \in DOMAIN inbox : SocketOf(g)

\* What the sender has taken, apart from what it is packing.
Sent == nextParam - 1 - Len(names)
Other == IF current = "a" THEN "b" ELSE "a"

FillInv ==
    /\ nextParam \in 1..(NumParams + 1)
    /\ IsRun(names, Sent, nextParam - 1)
    /\ current \in {"a", "b"}
    /\ buffers \in [{"a", "b"} -> Seq(Int)]
    /\ names # <<>> => buffers[current] = names

\* The buffer that a message points to still holds what it says.
Intact(message, buffer, held, sent) ==
    /\ message = Buffer(buffer, message.names)
    /\ IsRun(message.names, sent - Len(message.names), sent)
    /\ held = message.names

ReadInv ==
    /\ receiver \in {"receiving", "loading"}
    /\ receiver = "receiving" =>
         IF inbox[group] = <<>> THEN IsRun(loaded, 0, Sent)
         ELSE /\ Intact(inbox[group][1], Other, buffers[Other], Sent)
              /\ IsRun(loaded, 0, Sent - Len(inbox[group][1].names))
    /\ receiver = "loading" =>
         /\ Intact(reading, Other, buffers[Other], Sent)
         /\ metaNames \in Seq(Int) /\ Len(metaNames) <= Len(reading.names)
         /\ IsRun(loaded, 0, Sent - Len(reading.names) + Len(metaNames))

\* With ~awaitRecv and an unanswered request the sender is about to be refused.
Unrefused == sender = "packing" /\ (awaitRecv \/ group \notin reqAwaits)

StreamInv ==
    /\ sender \in {"packing", "awaiting", "done", "failed"}
    /\ receiver \in {"receiving", "loading", "done", "failed"}
    /\ awaitRecv \in BOOLEAN
    /\ receiver = "loading" => group \in repOwes
    /\ sender = "packing" /\ awaitRecv => group \in reqAwaits
    /\ sender = "awaiting" => group \in reqAwaits
    /\ receiver # "failed" =>
         /\ Unrefused => FillInv /\ ReadInv
         /\ sender = "awaiting" =>
              /\ IsRun(loaded, 0, NumParams)
              /\ (receiver = "receiving" /\ inbox[group] = <<Complete>>) \/ receiver = "done"
         /\ sender = "done" => receiver = "done" /\ IsRun(loaded, 0, NumParams)

BroadcastInv ==
    /\ sender \in {"producing", "broadcasting", "done"}
    /\ receiver \in {"consuming", "broadcasting", "done"}
    /\ nextParam \in 1..(NumParams + 1)
    /\ sender = "producing" => nextParam <= NumParams
    /\ sender = "done" => nextParam > NumParams /\ names = <<>>
    /\ IsRun(loaded, 0, Sent) /\ IsRun(names, Sent, nextParam - 1)

PostInv ==
    /\ sender \in {"posting", "done", "failed"}
    /\ receiver = "done"
    /\ sender = "posting" => nextParam \in 1..NumParams /\ IsRun(loaded, 0, nextParam - 1)
    /\ sender = "done" => IsRun(loaded, 0, NumParams)

TransferInv ==
    /\ group \in DOMAIN inbox
    /\ StreamInv \/ BroadcastInv \/ PostInv

LEMMA RunIsSeq == ASSUME NEW s, NEW m, NEW n, IsRun(s, m, n) PROVE s \in Seq(Int) /\ Len(s) \in Nat
BY DEF IsRun

\* Only the sockets of the group being refit change.
LEMMA SocketsByGroup ==
    ASSUME SocketInv, group \in DOMAIN inbox, UNCHANGED group,
           inbox' \in {[inbox EXCEPT ![group] = q] : q \in {inbox'[group]}},
           replies' \in {[replies EXCEPT ![group] = r] : r \in {replies'[group]}},
           reqAwaits' \ {group} = reqAwaits \ {group},
           repOwes' \ {group} = repOwes \ {group},
           SocketOf(group)'
    PROVE  SocketInv' /\ DOMAIN inbox' = DOMAIN inbox
<1>1. ASSUME NEW g \in DOMAIN inbox, g # group
      PROVE  /\ inbox'[g] = inbox[g] /\ replies'[g] = replies[g]
             /\ g \in reqAwaits' <=> g \in reqAwaits
             /\ g \in repOwes' <=> g \in repOwes
    BY <1>1 DEF SocketInv
<1>2. \A g \in DOMAIN inbox : g # group => SocketOf(g)'
    BY <1>1 DEF SocketInv, SocketOf
<1>3. /\ DOMAIN inbox' = DOMAIN inbox
      /\ inbox' = [g \in DOMAIN inbox |-> inbox'[g]]
      /\ replies' = [g \in DOMAIN inbox |-> replies'[g]]
    BY DEF SocketInv
<1>4. \A g \in DOMAIN inbox : g = group => SocketOf(g)'
    BY DEF SocketOf
<1> QED
    BY <1>2, <1>3, <1>4 DEF SocketInv

LEMMA SocketsStay ==
    ASSUME SocketInv, UNCHANGED <<inbox, replies, reqAwaits, repOwes>>
    PROVE  SocketInv' /\ DOMAIN inbox' = DOMAIN inbox
BY DEF SocketInv, SocketOf

-----------------------------------------------------------------------------
(* The two buffers of a stream. *)

LEMMA PackStream ==
    ASSUME SocketInv, group \in DOMAIN inbox, StreamInv, PackTensor
    PROVE  StreamInv'
<1> USE DEF PackTensor, receiveVars, socketVars
<1>1. ASSUME receiver # "failed", Unrefused PROVE FillInv' /\ ReadInv'
    <2>1. FillInv /\ ReadInv
        BY <1>1 DEF StreamInv
    <2>2. nextParam \in 1..NumParams
        BY Parameters DEF Fits
    <2>3. SubSeq(buffers[current], 1, Len(names)) = names
        <3>1. CASE names = <<>>
            BY <3>1, <2>1 DEF FillInv
        <3>2. CASE names # <<>>
            BY <3>2, <2>1 DEF FillInv, IsRun
        <3> QED
            BY <3>1, <3>2
    <2>4. IsRun(names', Sent, nextParam)
        <3>1. Sent \in Int /\ IsRun(names, Sent, nextParam - 1)
            BY <2>1, RunIsSeq DEF FillInv, Sent
        <3> QED
            BY <3>1, <2>2, RunGrows
    <2>5. Sent' = Sent
        BY <2>1, <2>2, RunIsSeq DEF FillInv, Sent
    <2>6. buffers' = [buffers EXCEPT ![current] = names']
        BY <2>3
    <2>7. FillInv'
        <3>1. names' \in Seq(Int)
            BY <2>4, RunIsSeq
        <3> QED
            BY <2>1, <2>2, <2>4, <2>5, <2>6, <3>1, Parameters DEF FillInv
    <2>8. buffers'[Other] = buffers[Other] /\ Other' = Other
        BY <2>1, <2>6 DEF FillInv, Other
    <2> QED
        BY <2>1, <2>5, <2>7, <2>8 DEF ReadInv, Intact
<1>2. Unrefused' => Unrefused
    BY DEF Unrefused
<1> QED
    BY <1>1, <1>2 DEF StreamInv

LEMMA SendSockets ==
    ASSUME SocketInv, group \in DOMAIN inbox, UNCHANGED group, NEW message, Send(message),
           awaitRecv \in BOOLEAN, awaitRecv => group \in reqAwaits
    PROVE  /\ SocketInv' /\ DOMAIN inbox' = DOMAIN inbox
           /\ inbox[group] = <<>> /\ group \notin repOwes
           /\ inbox'[group] = <<message>> /\ group \in reqAwaits'
           /\ UNCHANGED repOwes
<1>1. SocketOf(group)
    BY DEF SocketInv
<1>2. inbox[group] = <<>> /\ group \notin repOwes /\ replies'[group] = 0
    BY <1>1 DEF Send, SocketOf, SocketInv
<1>3. inbox'[group] = <<message>>
    BY <1>2 DEF Send, SocketInv
<1>4. SocketOf(group)'
    BY <1>2, <1>3 DEF Send, SocketOf
<1>5. /\ inbox' = [inbox EXCEPT ![group] = inbox'[group]]
      /\ replies' = [replies EXCEPT ![group] = replies'[group]]
    BY DEF Send, SocketInv
<1> QED
    BY <1>2, <1>3, <1>4, <1>5, SocketsByGroup DEF Send

LEMMA SendBufferStream ==
    ASSUME SocketInv, group \in DOMAIN inbox, StreamInv, SendBuffer
    PROVE  StreamInv' /\ SocketInv' /\ DOMAIN inbox' = DOMAIN inbox
<1> USE DEF SendBuffer, BufferIsFull, receiveVars
<1>1. /\ SocketInv' /\ DOMAIN inbox' = DOMAIN inbox
      /\ inbox[group] = <<>> /\ group \notin repOwes
      /\ inbox'[group] = <<Buffer(current, names)>> /\ group \in reqAwaits'
      /\ UNCHANGED repOwes
    BY SendSockets DEF StreamInv
<1>2. ASSUME receiver # "failed" PROVE FillInv' /\ ReadInv'
    <2>1. FillInv /\ ReadInv /\ receiver = "receiving" /\ IsRun(loaded, 0, Sent)
        BY <1>1, <1>2 DEF StreamInv, Unrefused, Send, ReadInv
    <2>2. Sent' = nextParam - 1 /\ names \in Seq(Int) /\ Sent = Sent' - Len(names)
        BY <2>1, RunIsSeq DEF FillInv, Sent
    <2>3. Other' = current /\ buffers'[Other'] = names
        BY <2>1 DEF FillInv, Other
    <2>4. FillInv'
        BY <2>1, <2>2, EmptyRun DEF FillInv
    <2>5. inbox'[group'][1] = Buffer(current, names) /\ inbox'[group'] # <<>>
        BY <1>1
    <2>6. Buffer(current, names).names = names
        BY DEF Buffer
    <2>7. Intact(Buffer(current, names), Other', buffers'[Other'], Sent')
        BY <2>1, <2>2, <2>3, <2>6 DEF Intact, FillInv
    <2> QED
        BY <2>1, <2>2, <2>4, <2>5, <2>6, <2>7 DEF ReadInv
<1> QED
    BY <1>1, <1>2 DEF StreamInv

LEMMA SendCompleteStream ==
    ASSUME SocketInv, group \in DOMAIN inbox, StreamInv, SendComplete
    PROVE  StreamInv' /\ SocketInv' /\ DOMAIN inbox' = DOMAIN inbox
<1> USE DEF SendComplete, AllSent, receiveVars
<1>1. /\ SocketInv' /\ DOMAIN inbox' = DOMAIN inbox
      /\ inbox[group] = <<>> /\ group \notin repOwes
      /\ inbox'[group] = <<Complete>> /\ group \in reqAwaits'
      /\ UNCHANGED repOwes
    BY SendSockets DEF StreamInv
<1>2. ASSUME receiver # "failed" PROVE receiver = "receiving" /\ IsRun(loaded, 0, NumParams)
    <2>1. FillInv /\ ReadInv /\ receiver = "receiving" /\ IsRun(loaded, 0, Sent)
        BY <1>1, <1>2 DEF StreamInv, Unrefused, Send, ReadInv
    <2>2. Sent = NumParams
        BY <2>1, Parameters DEF FillInv, Sent
    <2> QED
        BY <2>1, <2>2
<1> QED
    BY <1>1, <1>2 DEF StreamInv, Unrefused

LEMMA FinishStream ==
    ASSUME SocketInv, group \in DOMAIN inbox, StreamInv, FinishSending
    PROVE  StreamInv' /\ SocketInv' /\ DOMAIN inbox' = DOMAIN inbox
<1> USE DEF FinishSending, receiveVars
<1>1. SocketOf(group) /\ inbox[group] = <<>> /\ group \notin repOwes
    BY DEF SocketInv, SocketOf
<1>2. SocketOf(group)'
    BY <1>1 DEF SocketOf, SocketInv
<1>3. replies' = [replies EXCEPT ![group] = replies'[group]]
    BY DEF SocketInv
<1>4. inbox' = [inbox EXCEPT ![group] = inbox'[group]]
    BY DEF SocketInv
<1>5. SocketInv' /\ DOMAIN inbox' = DOMAIN inbox
    BY <1>2, <1>3, <1>4, SocketsByGroup
<1> QED
    BY <1>1, <1>5 DEF StreamInv, Unrefused

LEMMA SenderFailsStream ==
    ASSUME SocketInv, group \in DOMAIN inbox, StreamInv, SenderFails
    PROVE  StreamInv'
BY DEF SenderFails, receiveVars, socketVars, StreamInv, Unrefused

LEMMA ReceiverFailsStream ==
    ASSUME SocketInv, group \in DOMAIN inbox, StreamInv, ReceiverFails
    PROVE  StreamInv'
BY DEF ReceiverFails, sendVars, socketVars, StreamInv, Unrefused

LEMMA TakeMessage ==
    ASSUME SocketInv, group \in DOMAIN inbox, inbox[group] # <<>>
    PROVE  /\ Tail(inbox[group]) = <<>> /\ Head(inbox[group]) = inbox[group][1]
           /\ group \in reqAwaits /\ group \notin repOwes /\ replies[group] = 0
<1>1. SocketOf(group) /\ inbox[group] = <<inbox[group][1]>>
    BY DEF SocketInv, SocketOf
<1>2. \A x : Tail(<<x>>) = <<>> /\ Head(<<x>>) = x
    OBVIOUS
<1> QED
    BY <1>1, <1>2 DEF SocketOf

LEMMA ReceiveBufferStream ==
    ASSUME SocketInv, group \in DOMAIN inbox, StreamInv, ReceiveBuffer
    PROVE  StreamInv' /\ SocketInv' /\ DOMAIN inbox' = DOMAIN inbox
<1> USE DEF ReceiveBuffer, sendVars
<1>1. /\ Tail(inbox[group]) = <<>> /\ reading' = inbox[group][1]
      /\ group \in reqAwaits /\ group \notin repOwes /\ replies[group] = 0
    BY TakeMessage
<1>2. inbox' = [inbox EXCEPT ![group] = <<>>] /\ inbox'[group] = <<>>
    BY <1>1 DEF SocketInv
<1>3. SocketOf(group)'
    BY <1>1, <1>2 DEF SocketOf
<1>4. replies' = [replies EXCEPT ![group] = replies'[group]]
    BY DEF SocketInv
<1>5. SocketInv' /\ DOMAIN inbox' = DOMAIN inbox
    BY <1>2, <1>3, <1>4, SocketsByGroup
<1>6. Other' = Other /\ Sent' = Sent /\ Unrefused' = Unrefused
    BY DEF Other, Sent, Unrefused
<1>7. ASSUME Unrefused PROVE FillInv' /\ ReadInv'
    <2>1. FillInv /\ ReadInv
        BY <1>7 DEF StreamInv
    <2>2. FillInv'
        BY <2>1, <1>6 DEF FillInv
    <2>3. /\ Intact(reading', Other, buffers[Other], Sent)
          /\ IsRun(loaded, 0, Sent - Len(reading'.names))
        BY <2>1, <1>1 DEF ReadInv
    <2>4. metaNames' \in Seq(Int) /\ Len(metaNames') = 0 /\ Len(reading'.names) \in Nat
        BY <2>3, RunIsSeq DEF Intact
    <2>5. Sent \in Int
        BY <2>1, RunIsSeq DEF FillInv, Sent
    <2> QED
        BY <2>2, <2>3, <2>4, <2>5, <1>6 DEF ReadInv
<1>8. sender # "awaiting" /\ ~(sender = "done")
    BY <1>1 DEF StreamInv, Complete
<1> QED
    BY <1>2, <1>5, <1>6, <1>7, <1>8 DEF StreamInv

LEMMA LoadStream ==
    ASSUME SocketInv, group \in DOMAIN inbox, StreamInv, LoadTensor
    PROVE  StreamInv'
<1> USE DEF LoadTensor, sendVars, socketVars
<1>1. Other' = Other /\ Sent' = Sent /\ Unrefused' = Unrefused
    BY DEF Other, Sent, Unrefused
<1>2. ASSUME Unrefused PROVE FillInv' /\ ReadInv'
    <2>1. FillInv /\ ReadInv
        BY <1>2 DEF StreamInv
    <2>2. FillInv'
        BY <2>1, <1>1 DEF FillInv
    <2> DEFINE L == reading.names
               k == Len(metaNames)
    <2>3. /\ Intact(reading, Other, buffers[Other], Sent)
          /\ metaNames \in Seq(Int) /\ k \in Nat /\ k < Len(L)
          /\ IsRun(loaded, 0, Sent - Len(L) + k)
        BY <2>1 DEF ReadInv
    <2>4. /\ reading = Buffer(Other, L) /\ IsRun(L, Sent - Len(L), Sent) /\ buffers[Other] = L
        BY <2>3 DEF Intact
    <2>5. reading.buffer = Other /\ Other # "freed"
        BY <2>4, <2>1 DEF Buffer, Other, FillInv
    <2>6. L \in Seq(Int) /\ Len(L) \in Nat /\ Sent \in Int
        <3>1. L \in Seq(Int) /\ Len(L) \in Nat
            BY <2>4, RunIsSeq
        <3>2. Sent \in Int
            BY <2>1, RunIsSeq DEF FillInv, Sent
        <3> QED
            BY <3>1, <3>2
    <2>7. L[k + 1] = (Sent - Len(L) + k) + 1 /\ L[k + 1] \in Int
        <3>1. k + 1 \in 1..Len(L)
            BY <2>3, <2>6
        <3>2. L[k + 1] = (Sent - Len(L)) + (k + 1)
            BY <3>1, <2>4 DEF IsRun
        <3> HIDE DEF k, L
        <3> QED
            BY <3>2, <2>3, <2>6
    <2>8. loaded' = Append(loaded, L[k + 1]) /\ metaNames' = Append(metaNames, L[k + 1])
        BY <2>3, <2>4, <2>5, <2>6
    <2>9. metaNames' \in Seq(Int) /\ Len(metaNames') = k + 1
        BY <2>3, <2>7, <2>8
    <2>10. IsRun(loaded', 0, (Sent - Len(L) + k) + 1)
        <3>1. Sent - Len(L) + k \in Int
            BY <2>3, <2>6
        <3> HIDE DEF k, L
        <3> QED
            BY <3>1, <2>3, <2>7, <2>8, RunGrows
    <2>11. (Sent - Len(L) + k) + 1 = Sent - Len(L) + Len(metaNames') /\ Len(metaNames') <= Len(L)
        BY <2>3, <2>6, <2>9
    <2> QED
        BY <2>2, <2>3, <2>9, <2>10, <2>11, <1>1 DEF ReadInv
<1>3. sender # "awaiting" /\ sender # "done"
    BY DEF StreamInv
<1> QED
    BY <1>1, <1>2, <1>3 DEF StreamInv

LEMMA ReplySockets ==
    ASSUME SocketInv, group \in DOMAIN inbox, UNCHANGED <<group, inbox, reqAwaits>>,
           Reply, group \in repOwes
    PROVE  /\ SocketInv' /\ DOMAIN inbox' = DOMAIN inbox
           /\ inbox[group] = <<>> /\ group \in reqAwaits
<1>1. SocketOf(group) /\ inbox[group] = <<>> /\ replies[group] = 0 /\ group \in reqAwaits
    BY DEF SocketInv, SocketOf
<1>2. SocketOf(group)'
    BY <1>1 DEF SocketOf, SocketInv, Reply
<1>3. inbox' = [inbox EXCEPT ![group] = inbox'[group]]
    BY DEF SocketInv
<1>4. replies' = [replies EXCEPT ![group] = replies'[group]]
    BY DEF Reply, SocketInv
<1> QED
    BY <1>1, <1>2, <1>3, <1>4, SocketsByGroup DEF Reply

LEMMA AcknowledgeStream ==
    ASSUME SocketInv, group \in DOMAIN inbox, StreamInv, Acknowledge
    PROVE  StreamInv' /\ SocketInv' /\ DOMAIN inbox' = DOMAIN inbox
<1> USE DEF Acknowledge, sendVars
<1>1. SocketInv' /\ DOMAIN inbox' = DOMAIN inbox /\ inbox[group] = <<>> /\ group \in reqAwaits
    BY ReplySockets DEF StreamInv
<1>2. Other' = Other /\ Sent' = Sent /\ Unrefused' = Unrefused
    BY DEF Other, Sent, Unrefused
<1>3. ASSUME Unrefused PROVE FillInv' /\ ReadInv'
    <2>1. FillInv /\ ReadInv
        BY <1>3 DEF StreamInv
    <2>2. FillInv'
        BY <2>1, <1>2 DEF FillInv
    <2>3. IsRun(loaded, 0, Sent - Len(reading.names) + Len(reading.names))
        BY <2>1 DEF ReadInv
    <2>4. Sent \in Int /\ Len(reading.names) \in Nat
        BY <2>1, RunIsSeq DEF FillInv, Sent, ReadInv, Intact
    <2>5. IsRun(loaded, 0, Sent)
        BY <2>3, <2>4
    <2> QED
        BY <2>2, <2>5, <1>1, <1>2 DEF ReadInv
<1>4. sender # "awaiting" /\ sender # "done"
    BY DEF StreamInv
<1> QED
    BY <1>1, <1>2, <1>3, <1>4 DEF StreamInv

LEMMA ReceiveCompleteStream ==
    ASSUME SocketInv, group \in DOMAIN inbox, StreamInv, ReceiveComplete
    PROVE  StreamInv' /\ SocketInv' /\ DOMAIN inbox' = DOMAIN inbox
<1> USE DEF ReceiveComplete, Reply, sendVars
<1>1. /\ Tail(inbox[group]) = <<>> /\ inbox[group][1].kind = "complete"
      /\ group \in reqAwaits /\ group \notin repOwes /\ replies[group] = 0
    BY TakeMessage
<1>2. inbox' = [inbox EXCEPT ![group] = <<>>] /\ inbox'[group] = <<>>
    BY <1>1 DEF SocketInv
<1>3. replies' = [replies EXCEPT ![group] = 1] /\ replies'[group] = 1
    BY <1>1 DEF SocketInv
<1>4. SocketOf(group)'
    BY <1>1, <1>2, <1>3 DEF SocketOf
<1>5. SocketInv' /\ DOMAIN inbox' = DOMAIN inbox
    BY <1>2, <1>3, <1>4, SocketsByGroup
<1>6. ~Unrefused /\ sender # "done"
    <2>1. ASSUME Unrefused PROVE FALSE
        <3>1. ReadInv
            BY <2>1 DEF StreamInv
        <3>2. inbox[group][1] = Buffer(Other, inbox[group][1].names)
            BY <3>1 DEF ReadInv, Intact
        <3> QED
            BY <3>2, <1>1 DEF Buffer
    <2> QED
        BY <2>1 DEF StreamInv
<1>7. Unrefused' = Unrefused
    BY DEF Unrefused
<1> QED
    BY <1>1, <1>5, <1>6, <1>7 DEF StreamInv

LEMMA StreamStep ==
    ASSUME SocketInv, group \in DOMAIN inbox, StreamInv, TransferStep
    PROVE  StreamInv' /\ SocketInv' /\ DOMAIN inbox' = DOMAIN inbox
<1>1. CASE PackTensor
    BY <1>1, PackStream, SocketsStay DEF PackTensor, socketVars
<1>2. CASE SendRefused \/ PackFails \/ ReplyTimesOut
    BY <1>2, SenderFailsStream, SocketsStay DEF SendRefused, PackFails, ReplyTimesOut, SenderFails, socketVars
<1>3. CASE LoadTensor
    BY <1>3, LoadStream, SocketsStay DEF LoadTensor, socketVars
<1>4. CASE ReceiveRefused \/ LoadFails \/ ReceiveTimesOut
    BY <1>4, ReceiverFailsStream, SocketsStay
    DEF ReceiveRefused, LoadFails, ReceiveTimesOut, ReceiverFails, socketVars
<1>5. ~(ProduceTensor \/ PostTensor \/ PostFails \/ ConsumeMeta \/ Broadcast)
    BY DEF StreamInv, ProduceTensor, PostTensor, PostFails, ConsumeMeta, Broadcast
<1> QED
    BY <1>1, <1>2, <1>3, <1>4, <1>5, SendBufferStream, SendCompleteStream, FinishStream,
       ReceiveBufferStream, AcknowledgeStream, ReceiveCompleteStream
    DEF TransferStep, SenderStep, ReceiverStep

-----------------------------------------------------------------------------
(* The packets of a broadcast, and the requests over HTTP. *)

LEMMA BroadcastStep ==
    ASSUME BroadcastInv, TransferStep
    PROVE  BroadcastInv' /\ UNCHANGED socketVars
<1>1. CASE ProduceTensor
    <2> USE <1>1 DEF ProduceTensor, receiveVars, socketVars
    <2>1. IsRun(names', Sent, nextParam)
        BY RunGrows, RunIsSeq DEF BroadcastInv, Sent
    <2>2. Sent' = Sent
        BY RunIsSeq DEF BroadcastInv, Sent
    <2>3. nextParam' \in 1..(NumParams + 1) /\ nextParam' - 1 = nextParam
        BY Parameters DEF BroadcastInv
    <2>4. /\ sender' \in {"producing", "broadcasting"}
          /\ sender' = "producing" => nextParam' <= NumParams
        BY <2>3, Parameters
    <2>5. UNCHANGED <<receiver, loaded, socketVars>>
        OBVIOUS
    <2>6. IsRun(loaded', 0, Sent') /\ IsRun(names', Sent', nextParam' - 1)
        BY <2>1, <2>2, <2>3, <2>5 DEF BroadcastInv
    <2> HIDE DEF ProduceTensor
    <2> QED
        BY <2>3, <2>4, <2>5, <2>6 DEF BroadcastInv
<1>2. CASE ConsumeMeta
    <2>1. receiver' \in {"consuming", "broadcasting"} /\ UNCHANGED <<sendVars, loaded, socketVars>>
        BY <1>2 DEF ConsumeMeta
    <2>2. UNCHANGED <<sender, nextParam, names, loaded, Sent>>
        BY <2>1 DEF sendVars, Sent
    <2> QED
        BY <2>1, <2>2 DEF BroadcastInv
<1>3. CASE Broadcast
    <2> USE <1>3 DEF Broadcast, socketVars
    <2>1. Sent \in Int /\ nextParam - 1 \in Int
        BY RunIsSeq DEF BroadcastInv, Sent
    <2>2. IsRun(loaded', 0, nextParam - 1)
        BY <2>1, RunsJoin DEF BroadcastInv
    <2>3. Sent' = nextParam - 1
        BY <2>1 DEF Sent
    <2>4. IsRun(names', nextParam - 1, nextParam - 1)
        BY <2>1, EmptyRun
    <2> QED
        BY <2>2, <2>3, <2>4, Parameters DEF BroadcastInv
<1> QED
    BY <1>1, <1>2, <1>3
    DEF BroadcastInv, TransferStep, SenderStep, ReceiverStep, PackTensor, SendBuffer, BufferIsFull,
        SendComplete, AllSent, FinishSending, SendRefused, PackFails, ReplyTimesOut, PostTensor,
        PostFails, ReceiveBuffer, LoadTensor, Acknowledge, ReceiveComplete, ReceiveRefused,
        LoadFails, ReceiveTimesOut

LEMMA PostStep ==
    ASSUME PostInv, TransferStep
    PROVE  PostInv' /\ UNCHANGED socketVars
<1>1. CASE PostTensor
    <2> USE <1>1 DEF PostTensor, socketVars
    <2>1. nextParam \in 1..NumParams /\ IsRun(loaded, 0, nextParam - 1)
        BY DEF PostInv
    <2>2. IsRun(Append(loaded, (nextParam - 1) + 1), 0, (nextParam - 1) + 1)
        BY <2>1, RunGrows
    <2>3. IsRun(loaded', 0, nextParam)
        BY <2>1, <2>2
    <2>4. nextParam' = NumParams + 1 => IsRun(loaded', 0, NumParams)
        BY <2>1, <2>3, Parameters
    <2> QED
        BY <2>1, <2>3, <2>4, Parameters DEF PostInv
<1>2. CASE PostFails
    BY <1>2 DEF PostFails, SenderFails, PostInv, receiveVars, socketVars
<1> QED
    BY <1>1, <1>2
    DEF PostInv, TransferStep, SenderStep, ReceiverStep, PackTensor, SendBuffer, BufferIsFull,
        SendComplete, AllSent, FinishSending, SendRefused, PackFails, ReplyTimesOut, ProduceTensor,
        ConsumeMeta, Broadcast, ReceiveBuffer, LoadTensor, Acknowledge, ReceiveComplete,
        ReceiveRefused, LoadFails, ReceiveTimesOut

LEMMA TransferKeeps ==
    ASSUME SocketInv, TransferInv, TransferStep, UNCHANGED group
    PROVE  SocketInv' /\ TransferInv' /\ DOMAIN inbox' = DOMAIN inbox
<1>1. ASSUME UNCHANGED socketVars PROVE SocketInv' /\ DOMAIN inbox' = DOMAIN inbox
    BY <1>1, SocketsStay DEF socketVars
<1> QED
    BY <1>1, StreamStep, BroadcastStep, PostStep DEF TransferInv

\* A transfer that both sides end well has brought every parameter.
LEMMA SuccessIsComplete ==
    ASSUME TransferInv, TransferSucceeded
    PROVE  AllLoaded
<1>1. IsRun(loaded, 0, NumParams)
    <2>1. CASE StreamInv
        BY <2>1 DEF StreamInv, TransferSucceeded
    <2>2. CASE BroadcastInv
        <3>1. nextParam - 1 = NumParams /\ Sent = NumParams
            BY <2>2, Parameters DEF BroadcastInv, TransferSucceeded, Sent
        <3> QED
            BY <2>2, <3>1 DEF BroadcastInv
    <2>3. CASE PostInv
        BY <2>3 DEF PostInv, TransferSucceeded
    <2> QED
        BY <2>1, <2>2, <2>3 DEF TransferInv
<1> QED
    BY <1>1, WholeRun

\* Whatever the one before left in the sockets, a transfer starts right.
LEMMA TransferStarts ==
    ASSUME SocketInv, NEW g \in DOMAIN inbox, StartTransfer(g, Sockets[1], Sockets[2]),
           config.colocated \in BOOLEAN
    PROVE  SocketInv' /\ TransferInv' /\ DOMAIN inbox' = DOMAIN inbox
<1> USE DEF StartTransfer
<1>1. ASSUME inbox[g] # <<>>
      PROVE  inbox'[g] = <<inbox'[g][1]>>
    <2>1. inbox[g] = <<inbox[g][1]>>
        BY <1>1 DEF SocketInv, SocketOf
    <2>2. inbox'[g] = [i \in DOMAIN inbox[g] |-> Stale(inbox[g][i])]
        BY DEF SocketInv
    <2>3. DOMAIN inbox[g] = 1..1
        BY <2>1
    <2>4. inbox'[g] = [i \in 1..1 |-> inbox'[g][i]]
        BY <2>2, <2>3
    <2> QED
        BY <2>4
<1>2. inbox[g] = <<>> => inbox'[g] = <<>>
    BY DEF SocketInv
<1>3. \A h \in DOMAIN inbox : h # g => inbox'[h] = inbox[h]
    BY DEF SocketInv
<1>4. inbox'[g] # <<>> <=> inbox[g] # <<>>
    BY <1>1, <1>2
<1>5. \A h \in DOMAIN inbox : SocketOf(h)'
    <2> SUFFICES ASSUME NEW h \in DOMAIN inbox PROVE SocketOf(h)'
        OBVIOUS
    <2>1. SocketOf(h)
        BY DEF SocketInv
    <2>2. CASE h = g
        BY <2>1, <2>2, <1>1, <1>2, <1>4 DEF SocketOf
    <2>3. CASE h # g
        BY <2>1, <2>3, <1>3 DEF SocketOf
    <2> QED
        BY <2>2, <2>3
<1>6. SocketInv' /\ DOMAIN inbox' = DOMAIN inbox
    BY <1>5 DEF SocketInv
<1>7. Sent' = 0 /\ IsRun(<<>>, 0, 0)
    <2>1. nextParam' = 1 /\ Len(names') = 0
        OBVIOUS
    <2>2. IsRun(<<>>, 0, 0)
        BY EmptyRun
    <2> HIDE DEF StartTransfer
    <2>3. Sent' = 0
        BY <2>1 DEF Sent
    <2> QED
        BY <2>2, <2>3
<1>8. CASE ~config.colocated
    BY <1>8, <1>6, <1>7, Parameters DEF Sockets, TransferInv, BroadcastInv
<1>9. CASE config.colocated /\ config.backend = "vllm"
    <2>1. Unrefused' => group' \notin reqAwaits'
        BY DEF Unrefused
    <2>2. Unrefused' => inbox'[group'] = <<>>
        BY <2>1, <1>5 DEF SocketOf
    <2>3. FillInv'
        BY <1>7, Parameters DEF FillInv
    <2>4. sender' = "packing" /\ receiver' = "receiving"
        BY <1>9 DEF Sockets
    <2>5. Unrefused' => ReadInv'
        BY <2>2, <2>4, <1>7 DEF ReadInv
    <2> QED
        BY <2>3, <2>4, <2>5, <1>6 DEF TransferInv, StreamInv
<1>10. CASE config.colocated /\ config.backend # "vllm"
    BY <1>10, <1>6, <1>7, Parameters DEF Sockets, TransferInv, PostInv
<1> QED
    BY <1>8, <1>9, <1>10

-----------------------------------------------------------------------------
(* What the operations do to one engine. *)

Engine == [memory : SUBSET Tags, holds : Int, flag : BOOLEAN]

\* vLLM's flag tells whether there is anything on the device.
Tidy(backend, e) == backend = "vllm" => (e.flag <=> e.memory = {})

LEMMA TagsAreTwo == Tags = {"weights"} \cup {"kv_cache"} /\ "weights" # "kv_cache"
BY DEF Tags

\* What the operations need to know of a configuration.
Sane ==
    /\ config.backend \in Backends /\ config.colocated \in BOOLEAN
    /\ config.backend = "sglang" => config.colocated

LEMMA Prepared ==
    ASSUME Sane, NEW e \in Engine,
           NEW tags \in {Tags, {"weights"}, {"kv_cache"}}, Tidy(config.backend, e),
           NEW r, r = PrepareForGeneration(config.backend, config.colocated, e, tags)
    PROVE  /\ r \in Engine /\ Tidy(config.backend, r)
           /\ r.memory = IF config.colocated THEN e.memory \cup tags ELSE e.memory
           /\ r.holds = e.holds
           /\ config.backend # "vllm" => r.flag = e.flag
<1>0. tags \in SUBSET Tags /\ tags # {} /\ e.memory \cup tags \in SUBSET Tags
    BY DEF Tags, Engine
<1>1. CASE ~config.colocated
    BY <1>1 DEF PrepareForGeneration
<1>2. CASE config.colocated /\ config.backend = "vllm"
    <2>1. /\ r.memory = e.memory \cup tags /\ r.holds = e.holds /\ r.flag = FALSE
          /\ r \in Engine
        BY <1>0, <1>2 DEF PrepareForGeneration, Allocate, Engine
    <2>2. Tidy(config.backend, r)
        BY <1>0, <2>1 DEF Tidy
    <2> QED
        BY <2>1, <2>2, <1>2
<1>3. CASE config.colocated /\ config.backend # "vllm"
    BY <1>0, <1>3 DEF PrepareForGeneration, Allocate, Engine, Tidy
<1> QED
    BY <1>1, <1>2, <1>3

LEMMA Released ==
    ASSUME NEW e \in Engine, NEW r, r = [Release(config.backend, e) EXCEPT !.flag = TRUE]
    PROVE  /\ r \in Engine /\ r.memory = {} /\ r.flag = TRUE
           /\ config.backend = "vllm" => r.holds = e.holds
<1>1. CASE config.backend = "vllm"
    BY <1>1 DEF Release, Engine
<1>2. CASE config.backend # "vllm"
    <2>1. (IF "weights" \in e.memory THEN Garbage ELSE e.holds) \in Int
        BY DEF Garbage, Engine
    <2> QED
        BY <1>2, <2>1 DEF Release, Engine
<1> QED
    BY <1>1, <1>2

LEMMA Slept ==
    ASSUME Sane, NEW e \in Engine,
           Tidy(config.backend, e), NEW r, r = Sleep(config.backend, config.colocated, e)
    PROVE  /\ r \in Engine /\ r.memory = {} /\ r.flag = TRUE
           /\ config.backend = "vllm" => r.holds = e.holds
<1>1. CASE config.backend = "vllm" /\ e.flag
    <2>1. r = e
        BY <1>1 DEF Sleep
    <2> QED
        BY <1>1, <2>1 DEF Tidy, Engine
<1>2. CASE config.backend = "vllm" /\ ~e.flag
    BY <1>2, Released DEF Sleep
<1>3. CASE config.backend # "vllm"
    BY <1>3, Released DEF Sleep, FinishGeneration, Backends, Sane
<1> QED
    BY <1>1, <1>2, <1>3

LEMMA Woken ==
    ASSUME Sane, NEW e \in Engine,
           Tidy(config.backend, e), e.memory = {},
           NEW r, r = WakeUp(config.backend, config.colocated, e)
    PROVE  /\ r \in Engine /\ r.memory = Tags /\ Tidy(config.backend, r) /\ r.holds = e.holds
           /\ config.backend # "vllm" => r.flag = e.flag
<1>1. Tags # {} /\ Tags \in SUBSET Tags
    BY DEF Tags
<1>2. CASE config.backend = "vllm"
    <2>1. r = [Allocate(e, Tags) EXCEPT !.flag = FALSE]
        BY <1>2 DEF WakeUp, Tidy
    <2>2. r \in Engine /\ r.memory = Tags /\ r.flag = FALSE /\ r.holds = e.holds
        BY <2>1 DEF Allocate, Engine
    <2>3. Tidy(config.backend, r)
        BY <2>2, <1>1 DEF Tidy
    <2> QED
        BY <2>2, <2>3, <1>2
<1>3. CASE config.backend # "vllm"
    <2>1. r = PrepareForGeneration(config.backend, config.colocated, e, Tags) /\ config.colocated
        BY <1>3 DEF WakeUp, Backends, Sane
    <2>2. /\ r \in Engine /\ Tidy(config.backend, r)
          /\ r.memory = IF config.colocated THEN e.memory \cup Tags ELSE e.memory
          /\ r.holds = e.holds
          /\ config.backend # "vllm" => r.flag = e.flag
        BY <2>1, <1>1, Prepared
    <2> QED
        BY <2>1, <2>2
<1> QED
    BY <1>2, <1>3

LEMMA Finished ==
    ASSUME Sane, NEW e \in Engine, Tidy(config.backend, e),
           NEW r, r = FinishGeneration(config.backend, config.colocated, e)
    PROVE  /\ r \in Engine /\ Tidy(config.backend, r)
           /\ config.colocated => r.memory = {} /\ r.flag = TRUE
           /\ ~config.colocated => r = e
           /\ config.backend = "vllm" => r.holds = e.holds
<1>1. CASE config.colocated
    <2>1. r \in Engine /\ r.memory = {} /\ r.flag = TRUE /\ (config.backend = "vllm" => r.holds = e.holds)
        BY <1>1, Released DEF FinishGeneration
    <2> QED
        BY <2>1, <1>1 DEF Tidy
<1>2. CASE ~config.colocated
    BY <1>2 DEF FinishGeneration
<1> QED
    BY <1>1, <1>2

LEMMA LpOnDevice ==
    ASSUME NEW p \in SUBSET PolicyParts, NEW offload
    PROVE  /\ PrepareForLpInference(p, offload) \in SUBSET PolicyParts
           /\ "params" \in PrepareForLpInference(p, offload)
BY DEF PrepareForLpInference, PolicyParts

LEMMA TrainingOnDevice ==
    ASSUME NEW p \in SUBSET PolicyParts, NEW colocated, NEW offload
    PROVE  /\ PrepareForTraining(p, colocated, offload) \in SUBSET PolicyParts
           /\ "params" \in PrepareForTraining(p, colocated, offload)
BY DEF PrepareForTraining, PolicyParts

-----------------------------------------------------------------------------
(* The driver: where it is decides who may hold memory. *)

Outside == {"start", "step", "logprobs", "prepare_training", "train", "validate", "checkpoint",
            "ended"}
Refitting == {"transfer", "refit_kv"}
Decoding == {"val_pass", "end_variant"}
Vllm == config.backend = "vllm"

TypeInv ==
    /\ config \in Configs
    /\ pc \in Outside \cup Refitting \cup Decoding
              \cup {"rollout", "variant", "prepare_group", "failed"}
    /\ engines \in [{Rollout} \cup Groups -> Engine]
    /\ DOMAIN inbox = {Rollout} \cup Groups
    /\ version \in Nat /\ variant \in Nat
    /\ policy \in SUBSET PolicyParts /\ teacher \in SUBSET PolicyParts
    /\ stale \in BOOLEAN /\ rolloutHolds \in BOOLEAN /\ slept \in BOOLEAN /\ torn \in BOOLEAN
    /\ halfWritten \in BOOLEAN

\* Which refit, and which decode.
PlaceInv ==
    /\ pc \in Refitting =>
         /\ refitReturn \in {"rollout", "variant", "val_pass"}
         /\ group = IF refitReturn = "val_pass" THEN variant ELSE Rollout
         /\ refitReturn = "variant" => variant = 1 /\ rolloutHolds
    /\ pc = "refit_kv" => config.colocated
    /\ pc = "prepare_group" \/ (pc \in Refitting /\ refitReturn = "val_pass") =>
         variant \in DOMAIN config.variants /\ Kind = "group" /\ ~rolloutHolds
    /\ pc \in Decoding => variant \in DOMAIN config.variants /\ (rolloutHolds <=> Kind # "group")
    /\ pc = "variant" => variant \in 1..(Len(config.variants) + 1)

\* A reconfiguration that every engine ends sets every knob.
LEMMA ReconfiguredWholly == \A v : Reconfigured(KnobsOf(v), Wholly) = Decoded(v)
BY EngineAssumption DEF Reconfigured, Wholly, KnobsOf, Decoded

\* What reconfigure_dllm then returns.
LEMMA FirstEngine == \A v : Decoded(v)[1] = KnobsOf(v)
BY EngineAssumption DEF Decoded

InValidation ==
    \/ pc \in Decoding \cup {"variant", "prepare_group"}
    \/ pc \in Refitting /\ refitReturn # "rollout"

ValidationInv == InValidation =>
    /\ rolloutHolds => UsesRollout
    /\ slept <=> ~UsesRollout /\ ~config.colocated
    /\ UsesRollout => ~stale \/ (pc \in Refitting /\ refitReturn = "variant")
    /\ pc = "variant" /\ UsesRollout /\ ~rolloutHolds =>
         \E j \in 1..(variant - 1) : config.variants[j] = "group"

\* The knobs, as long as no reconfiguration has raised.
DecodeInv == halfWritten = FALSE =>
    /\ pc = "val_pass" => decode = Decoded(IF Kind = "soft" THEN variant ELSE Rollout)
    /\ restore # {} => restore = {KnobsOf(Rollout)}
    /\ decode # Decoded(Rollout) => pc = "failed" \/ (pc \in Decoding /\ restore # {})

Owners ==
    IF pc \in Refitting THEN {group}
    ELSE IF pc = "prepare_group" \/ (pc = "variant" /\ ~rolloutHolds) THEN {}
    ELSE IF pc \in Decoding /\ Kind = "group" THEN {variant}
    ELSE {Rollout}

MemoryInv ==
    /\ \A g \in DOMAIN engines : engines[g].memory # {} => g \in Owners
    /\ \A g \in DOMAIN engines : Tidy(config.backend, engines[g])
    /\ pc \in Outside => engines[Rollout].memory = IF config.colocated THEN {} ELSE Tags
    /\ pc = "rollout" \/ (pc \in Decoding \cup {"variant"} /\ rolloutHolds) =>
         Awake(engines[Rollout])
    /\ pc = "val_pass" /\ Kind = "group" => Awake(engines[variant])
    /\ pc \in Refitting => engines[group].memory = IF config.colocated THEN {"weights"} ELSE Tags

PolicyInv ==
    /\ ~config.colocated => "params" \in policy
    /\ pc \in Outside /\ stale => "params" \in policy
    /\ pc = "transfer" /\ Vllm => "params" \in policy
    /\ pc \in {"start", "train", "validate"} => stale
    /\ config.algorithm = "grpo" => teacher = {}

\* When there is nothing of the policy on the devices.
AwayInv == config.colocated =>
    /\ pc = "refit_kv" => policy = {}
    /\ pc = "rollout" /\ config.algorithm = "grpo" => policy = {}
    /\ pc = "variant" /\ UsesRollout /\ ~torn => policy = {}
    /\ pc \in Decoding /\ ~torn => policy = {}
    /\ pc = "failed" /\ ~torn /\ "kv_cache" \in engines[Rollout].memory => policy = {}

\* The weights in the rollout engines need no refit.
Ready == ~stale /\ (Vllm \/ ~engines[Rollout].flag)

\* They slept, and gave the weights up.
SleptBefore == ~Vllm /\ \E j \in 1..(variant - 1) : config.variants[j] = "group"

HoldsInv ==
    /\ Ready /\ ~(pc = "transfer" /\ group = Rollout) /\ pc # "failed"
         => engines[Rollout].holds = version
    /\ pc = "rollout" \/ (pc = "refit_kv" /\ group = Rollout) => Ready
    /\ pc = "refit_kv" => engines[group].holds = version
    /\ pc = "val_pass" /\ Kind = "group" => engines[variant].holds = version
    /\ pc \in Decoding \cup {"variant"} /\ rolloutHolds => Ready \/ SleptBefore

DriverInv ==
    /\ TypeInv /\ SocketInv /\ (pc = "transfer" => TransferInv)
    /\ PlaceInv /\ ValidationInv /\ DecodeInv /\ MemoryInv /\ PolicyInv /\ AwayInv /\ HoldsInv

LEMMA ConfigFacts ==
    ASSUME TypeInv
    PROVE  /\ config.backend \in Backends /\ config.colocated \in BOOLEAN
           /\ config.algorithm \in {"grpo", "distillation"}
           /\ config.backend = "sglang" => config.colocated
           /\ ~Vllm => config.backend = "sglang"
           /\ config.algorithm = "distillation" => Vllm /\ Groups = {}
           /\ Len(config.variants) \in Nat \ {0}
           /\ DOMAIN config.variants = 1..Len(config.variants)
           /\ Groups \subseteq 1..Len(config.variants) /\ Rollout = 0 /\ Rollout \notin Groups
           /\ UsesRollout \/ Groups # {}
           /\ \A i \in DOMAIN config.variants : config.variants[i] = "group" <=> i \in Groups
<1>1. IsConfig(config)
    BY EngineAssumption DEF TypeInv
<1>2. config.variants \in Seq({"plain", "soft", "group"}) /\ Len(config.variants) \in 1..MaxVariants
    BY <1>1 DEF IsConfig
<1>3. Len(config.variants) \in Nat \ {0} /\ DOMAIN config.variants = 1..Len(config.variants)
    BY <1>2, EngineAssumption
<1>4. config.algorithm = "distillation" => Groups = {}
    BY <1>1 DEF IsConfig, Groups
<1>5. UsesRollout \/ Groups # {}
    <2>1. 1 \in DOMAIN config.variants
        BY <1>3
    <2>2. CASE config.variants[1] = "group"
        BY <2>1, <2>2 DEF Groups
    <2>3. CASE config.variants[1] # "group"
        BY <2>1, <2>3 DEF UsesRollout
    <2> QED
        BY <2>2, <2>3
<1>6. /\ Groups \subseteq 1..Len(config.variants) /\ Rollout = 0 /\ Rollout \notin Groups
      /\ \A i \in DOMAIN config.variants : config.variants[i] = "group" <=> i \in Groups
    BY <1>3 DEF Groups, Rollout
<1> QED
    BY <1>1, <1>3, <1>4, <1>5, <1>6 DEF IsConfig, Backends, Vllm

-----------------------------------------------------------------------------
(* Steps that leave the engines and their sockets alone. *)

LEMMA InitDriver == Init => DriverInv
<1> SUFFICES ASSUME Init PROVE DriverInv
    OBVIOUS
<1> USE DEF Init, TransferInit
<1> DEFINE Up == [Asleep EXCEPT !.memory = Tags, !.flag = FALSE]
<1>0. /\ Asleep \in Engine /\ Asleep.memory = {} /\ Asleep.flag = TRUE
      /\ Up \in Engine /\ Up.memory = Tags /\ Up.flag = FALSE
    <2> HIDE DEF Init
    <2>1. Garbage \in Int
        BY DEF Garbage
    <2>2. Asleep \in Engine /\ Asleep.memory = {} /\ Asleep.flag = TRUE
        BY <2>1 DEF Asleep, Engine
    <2>3. Up \in Engine /\ Up.memory = Tags /\ Up.flag = FALSE
        BY <2>2 DEF Engine
    <2> QED
        BY <2>2, <2>3
<1>1. TypeInv
    <2>2. engines \in [{Rollout} \cup Groups -> Engine]
        BY <1>0
    <2>3. config \in Configs /\ DOMAIN inbox = {Rollout} \cup Groups
        OBVIOUS
    <2>4. pc = "start" /\ policy = PolicyParts /\ teacher = {} /\ version = 0 /\ variant = 0
        OBVIOUS
    <2>5. /\ stale \in BOOLEAN /\ rolloutHolds \in BOOLEAN /\ slept \in BOOLEAN /\ torn \in BOOLEAN
         /\ halfWritten \in BOOLEAN
        OBVIOUS
    <2> HIDE DEF Init
    <2> QED
        BY <2>2, <2>3, <2>4, <2>5 DEF TypeInv, Outside
<1>2. SocketInv
    BY DEF SocketInv, SocketOf
<1>3. /\ config.colocated \in BOOLEAN /\ Rollout = 0 /\ Rollout \notin Groups
      /\ config.backend = "sglang" => config.colocated
      /\ config.backend \in Backends
    BY <1>1, ConfigFacts
<1>4. engines = [g \in {Rollout} \cup Groups |->
                   IF g = Rollout /\ ~config.colocated THEN Up ELSE Asleep]
    OBVIOUS
<1> HIDE DEF Init, Up
<1>5. pc = "start" /\ stale = TRUE /\ decode = Decoded(Rollout) /\ restore = {} /\ teacher = {} /\ policy = PolicyParts
    BY DEF Init
<1>6. MemoryInv
    BY <1>0, <1>3, <1>4, <1>5 DEF MemoryInv, Owners, Tidy, Tags, Outside, Refitting, Decoding
<1> QED
    BY <1>1, <1>2, <1>5, <1>6
    DEF DriverInv, PlaceInv, ValidationInv, InValidation, DecodeInv, PolicyInv, AwayInv, HoldsInv,
        Outside, Refitting, Decoding, Ready, PolicyParts

\* From one place outside to another.
LEMMA OutsideStep ==
    ASSUME DriverInv, pc \in Outside, pc' \in Outside,
           UNCHANGED <<transferVars, config, engines, decode, restore, halfWritten, rolloutHolds, slept, torn, variant>>,
           policy' \in SUBSET PolicyParts, teacher' \in SUBSET PolicyParts,
           stale' \in BOOLEAN, stale => stale', version' \in Nat,
           version' # version => stale',
           ~config.colocated => "params" \in policy',
           stale' => "params" \in policy',
           pc' \in {"train", "validate"} => stale',
           pc' # "start",
           config.algorithm = "grpo" => teacher' = {}
    PROVE  DriverInv'
<1> USE DEF DriverInv
<1>1. /\ pc \notin Refitting \cup Decoding \cup {"variant", "prepare_group", "rollout", "failed"}
      /\ pc' \notin Refitting \cup Decoding \cup {"variant", "prepare_group", "rollout", "failed"}
      /\ pc # "transfer" /\ pc' # "transfer" /\ pc # "refit_kv" /\ pc' # "refit_kv"
      /\ pc' # "val_pass" /\ pc # "val_pass"
    BY DEF Outside, Refitting, Decoding
<1>2. /\ UNCHANGED <<inbox, replies, reqAwaits, repOwes, Groups, Vllm, Kind>>
    BY DEF transferVars, socketVars, Groups, Vllm, Kind
<1>3. TypeInv' /\ SocketInv'
    BY <1>1, <1>2, SocketsStay DEF TypeInv
<1>4. PlaceInv' /\ ValidationInv'
    BY <1>1 DEF PlaceInv, ValidationInv, InValidation
<1>5. DecodeInv'
    BY <1>1 DEF DecodeInv
<1>6. Owners' = Owners
    BY <1>1 DEF Owners
<1>7. MemoryInv'
    BY <1>1, <1>6 DEF MemoryInv
<1>8. PolicyInv' /\ AwayInv'
    BY <1>1 DEF PolicyInv, AwayInv
<1>9. HoldsInv'
    BY <1>1, <1>2 DEF HoldsInv, Ready, TypeInv
<1> QED
    BY <1>1, <1>3, <1>4, <1>5, <1>7, <1>8, <1>9

LEMMA QuietSteps ==
    ASSUME DriverInv, Start \/ PrepareLogprobs \/ PrepareTraining \/ Train \/ Checkpoint
    PROVE  DriverInv'
<1> USE DEF DriverInv
<1>0. /\ policy \in SUBSET PolicyParts /\ teacher \in SUBSET PolicyParts /\ stale \in BOOLEAN
      /\ version \in Nat
      /\ {} \in SUBSET PolicyParts
    BY DEF TypeInv
<1>1. CASE Start
    <2>1. pc = "start" /\ pc' \in {"validate", "step"} /\ stale /\ "params" \in policy
        BY <1>1 DEF Start, PolicyInv, Outside
    <2> QED
        BY <1>1, <1>0, <2>1, OutsideStep DEF Start, Outside, PolicyInv, decodeVars
<1>2. CASE PrepareLogprobs
    <2>1. pc = "logprobs" /\ pc' = "prepare_training"
        BY <1>2 DEF PrepareLogprobs
    <2>2. /\ policy' \in SUBSET PolicyParts /\ teacher' \in SUBSET PolicyParts
          /\ "params" \in policy => "params" \in policy'
          /\ config.algorithm = "grpo" => teacher' = {}
        BY <1>2, <1>0, LpOnDevice DEF PrepareLogprobs, LpInference, PolicyInv
    <2>3. stale => "params" \in policy'
        BY <2>1, <2>2 DEF PolicyInv, Outside
    <2> QED
        BY <1>2, <1>0, <2>1, <2>2, <2>3, OutsideStep DEF PrepareLogprobs, Outside, PolicyInv, decodeVars
<1>3. CASE PrepareTraining
    <2>1. pc = "prepare_training" /\ pc' = "train" /\ stale' = TRUE
        BY <1>3 DEF PrepareTraining
    <2>2. /\ policy' \in SUBSET PolicyParts /\ teacher' = {} /\ "params" \in policy'
        BY <1>3, <1>0, TrainingOnDevice DEF PrepareTraining, OffloadAfterRefit
    <2> QED
        BY <1>3, <1>0, <2>1, <2>2, OutsideStep DEF PrepareTraining, Outside, PolicyInv, decodeVars
<1>4. CASE Train
    <2>1. /\ pc = "train" /\ pc' \in {"validate", "checkpoint"} /\ stale /\ "params" \in policy
          /\ version' \in Nat
        BY <1>4, <1>0 DEF Train, PolicyInv, Outside
    <2>2. UNCHANGED <<transferVars, config, engines, decode, restore, halfWritten, policy, teacher, stale, rolloutHolds,
                      slept, torn, variant>>
        BY <1>4 DEF Train, decodeVars
    <2>3. config.algorithm = "grpo" => teacher' = {}
        BY <2>2 DEF PolicyInv
    <2> QED
        BY <1>0, <2>1, <2>2, <2>3, OutsideStep DEF Outside
<1>5. CASE Checkpoint
    <2>1. pc = "checkpoint" /\ pc' \in {"step", "ended"}
        BY <1>5 DEF Checkpoint
    <2>2. /\ policy' \in SUBSET PolicyParts
          /\ "params" \in policy => "params" \in policy'
        BY <1>5, <1>0, TrainingOnDevice DEF Checkpoint
    <2> QED
        BY <1>5, <1>0, <2>1, <2>2, OutsideStep DEF Checkpoint, Outside, PolicyInv, decodeVars
<1> QED
    BY <1>1, <1>2, <1>3, <1>4, <1>5

LEMMA TransferDriver ==
    ASSUME DriverInv, Transfer
    PROVE  DriverInv'
<1> USE DEF DriverInv
<1>1. pc = "transfer" /\ TransferStep /\ UNCHANGED driverVars /\ TransferInv
    BY DEF Transfer
<1>2. UNCHANGED group
    BY <1>1
    DEF TransferStep, SenderStep, ReceiverStep, PackTensor, SendBuffer, SendComplete, FinishSending,
        SendRefused, PackFails, ReplyTimesOut, SenderFails, ProduceTensor, PostTensor, PostFails,
        ReceiveBuffer, LoadTensor, Acknowledge, ReceiveComplete, ReceiveRefused, LoadFails,
        ReceiveTimesOut, ReceiverFails, ConsumeMeta, Broadcast, sendVars
<1>3. SocketInv' /\ TransferInv' /\ DOMAIN inbox' = DOMAIN inbox
    BY <1>1, <1>2, TransferKeeps
<1>4. /\ UNCHANGED <<config, pc, engines, decode, restore, halfWritten, policy, teacher, version, stale, refitReturn,
                     variant, rolloutHolds, slept, torn>>
      /\ UNCHANGED <<Groups, Kind, UsesRollout, Vllm, Owners, InValidation, Ready, SleptBefore>>
    BY <1>1, <1>2
    DEF driverVars, decodeVars, SleptBefore, Groups, Kind, UsesRollout, Vllm, Owners, InValidation, Ready
<1>5. TypeInv' /\ PlaceInv' /\ DecodeInv'
    BY <1>2, <1>3, <1>4 DEF TypeInv, PlaceInv, DecodeInv
<1>6. ValidationInv' /\ MemoryInv'
    BY <1>2, <1>4 DEF ValidationInv, MemoryInv
<1>7. PolicyInv' /\ AwayInv' /\ HoldsInv'
    BY <1>2, <1>4 DEF PolicyInv, AwayInv, HoldsInv, SleptBefore
<1> QED
    BY <1>3, <1>5, <1>6, <1>7

LEMMA StutterDriver == ASSUME DriverInv, UNCHANGED vars PROVE DriverInv'
<1> USE DEF DriverInv
<1>1. /\ UNCHANGED <<config, pc, engines, decode, restore, halfWritten, policy, teacher, version, stale, refitReturn,
                     variant, rolloutHolds, slept, torn>>
      /\ UNCHANGED <<group, sender, nextParam, names, current, buffers, awaitRecv>>
      /\ UNCHANGED <<receiver, metaNames, reading, loaded, inbox, replies, reqAwaits, repOwes>>
    BY DEF vars, driverVars, transferVars, sendVars, receiveVars, socketVars, decodeVars
<1>2. UNCHANGED <<Groups, Kind, UsesRollout, Vllm, Owners, InValidation, Ready, Sent, Other, Unrefused>>
    BY <1>1 DEF Groups, Kind, UsesRollout, Vllm, Owners, InValidation, Ready, Sent, Other, Unrefused
<1>3. SocketInv'
    BY <1>1, SocketsStay
<1>4. pc = "transfer" => TransferInv'
    <2>1. UNCHANGED FillInv /\ UNCHANGED ReadInv
        BY <1>1, <1>2 DEF FillInv, ReadInv
    <2>2. StreamInv => StreamInv'
        BY <1>1, <1>2, <2>1 DEF StreamInv
    <2>3. BroadcastInv => BroadcastInv'
        BY <1>1, <1>2 DEF BroadcastInv
    <2>4. PostInv => PostInv'
        BY <1>1 DEF PostInv
    <2> QED
        BY <1>1, <2>2, <2>3, <2>4 DEF TransferInv
<1>5. TypeInv' /\ PlaceInv' /\ DecodeInv'
    BY <1>1, <1>2 DEF TypeInv, PlaceInv, DecodeInv
<1>6. ValidationInv' /\ MemoryInv'
    BY <1>1, <1>2 DEF ValidationInv, MemoryInv
<1>7. PolicyInv' /\ AwayInv' /\ HoldsInv'
    BY <1>1, <1>2 DEF PolicyInv, AwayInv, HoldsInv, SleptBefore
<1> QED
    BY <1>1, <1>3, <1>4, <1>5, <1>6, <1>7

-----------------------------------------------------------------------------
(* Refits. *)

LEMMA EnginesByGroup ==
    ASSUME TypeInv, UNCHANGED config, NEW g \in {Rollout} \cup Groups, NEW x \in Engine,
           engines' = [engines EXCEPT ![g] = x]
    PROVE  /\ engines' \in [{Rollout} \cup Groups -> Engine] /\ engines'[g] = x
           /\ \A h \in {Rollout} \cup Groups : h # g => engines'[h] = engines[h]
           /\ DOMAIN engines' = {Rollout} \cup Groups /\ DOMAIN engines = {Rollout} \cup Groups
           /\ UNCHANGED <<Groups, UsesRollout, Vllm>>
BY DEF TypeInv, Groups, UsesRollout, Vllm

LEMMA SaneConfig == ASSUME TypeInv PROVE Sane
BY ConfigFacts DEF Sane

\* When the caller has taken every other group off the devices.
LEMMA StartRefitStep ==
    ASSUME DriverInv, NEW g \in {Rollout} \cup Groups, NEW p \in SUBSET PolicyParts,
           NEW e \in Engine, NEW return, StartRefit(g, p, e, return),
           Tidy(config.backend, e), e.memory = IF config.colocated THEN {} ELSE Tags,
           \A h \in {Rollout} \cup Groups : h # g => engines[h].memory = {},
           Vllm => "params" \in p,
           UNCHANGED <<config, decode, restore, halfWritten, teacher, version, stale>>,
           pc \in Outside \cup {"prepare_group"},
           variant' \in Nat, rolloutHolds' \in BOOLEAN, slept' \in BOOLEAN, torn' \in BOOLEAN,
           PlaceInv', ValidationInv'
    PROVE  DriverInv'
<1> USE DEF DriverInv
<1> DEFINE x == PrepareForGeneration(config.backend, config.colocated, e, {"weights"})
<1>0. Sane /\ Rollout = 0 /\ Rollout \notin Groups /\ (~config.colocated => Vllm)
    BY SaneConfig, ConfigFacts
<1>1. /\ pc' = "transfer" /\ group' = g
      /\ policy' = IF config.colocated THEN OffloadBeforeRefit(p) ELSE p
      /\ engines' = [engines EXCEPT ![g] = x]
      /\ StartTransfer(g, Sockets[1], Sockets[2])
    BY DEF StartRefit, StartTransfer
<1>2. /\ x \in Engine /\ Tidy(config.backend, x)
      /\ x.memory = IF config.colocated THEN {"weights"} ELSE Tags
    <2>1. /\ x \in Engine /\ Tidy(config.backend, x)
          /\ x.memory = IF config.colocated THEN e.memory \cup {"weights"} ELSE e.memory
        BY <1>0, Prepared
    <2> HIDE DEF x
    <2> QED
        BY <2>1
<1> HIDE DEF x
<1>3. /\ engines' \in [{Rollout} \cup Groups -> Engine] /\ engines'[g] = x
      /\ \A h \in {Rollout} \cup Groups : h # g => engines'[h] = engines[h]
      /\ DOMAIN engines' = {Rollout} \cup Groups /\ DOMAIN engines = {Rollout} \cup Groups
      /\ UNCHANGED <<Groups, UsesRollout, Vllm>>
    BY <1>1, <1>2, EnginesByGroup
<1>4. SocketInv' /\ TransferInv' /\ DOMAIN inbox' = DOMAIN inbox
    BY <1>0, <1>1, TransferStarts DEF TypeInv, Sane
<1>5. /\ policy' \in SUBSET PolicyParts
      /\ "params" \in p => "params" \in policy'
    BY <1>1 DEF OffloadBeforeRefit
<1>6. /\ pc' \in Refitting /\ pc' \notin Outside /\ pc' \notin Decoding
      /\ pc' # "variant" /\ pc' # "rollout" /\ pc' # "refit_kv" /\ pc' # "failed"
      /\ pc' \notin {"start", "train", "validate"} /\ pc' # "val_pass"
      /\ pc \notin Refitting \cup Decoding \cup {"failed"} /\ pc # "transfer"
    BY <1>1 DEF Refitting, Outside, Decoding
<1>7. TypeInv'
    BY <1>3, <1>4, <1>5, <1>6 DEF TypeInv
<1>8. DecodeInv'
    BY <1>6 DEF DecodeInv
<1>9. MemoryInv'
    <2>1. Owners' = {g}
        BY <1>1, <1>6 DEF Owners
    <2>2. \A h \in DOMAIN engines' : engines'[h].memory # {} => h \in Owners'
        BY <2>1, <1>3
    <2>3. \A h \in DOMAIN engines' : Tidy(config.backend, engines'[h])
        BY <1>2, <1>3 DEF MemoryInv
    <2>4. engines'[group'].memory = IF config.colocated THEN {"weights"} ELSE Tags
        BY <1>1, <1>2, <1>3
    <2> QED
        BY <2>2, <2>3, <2>4, <1>6 DEF MemoryInv
<1>10. PolicyInv' /\ AwayInv'
    BY <1>0, <1>3, <1>5, <1>6 DEF PolicyInv, AwayInv
<1>11. HoldsInv'
    <2>1. CASE g = Rollout
        BY <2>1, <1>1, <1>6 DEF HoldsInv
    <2>2. CASE g # Rollout
        <3>1. engines'[Rollout] = engines[Rollout] /\ Ready' = Ready
            BY <2>2, <1>3 DEF Ready
        <3>2. Ready => engines[Rollout].holds = version
            BY <1>6 DEF HoldsInv
        <3> QED
            BY <3>1, <3>2, <1>6 DEF HoldsInv
    <2> QED
        BY <2>1, <2>2
<1> QED
    BY <1>4, <1>7, <1>8, <1>9, <1>10, <1>11

\* A group that has the device, the current weights and all its memory.
LEMMA RefitReturns ==
    ASSUME DriverInv, pc \in Refitting, pc' = refitReturn,
           UNCHANGED <<transferVars, config, decode, restore, halfWritten, teacher, version, variant, rolloutHolds,
                       slept, torn>>,
           NEW x \in Engine, engines' = [engines EXCEPT ![group] = x],
           x.memory = Tags, x.holds = version, Tidy(config.backend, x),
           group = Rollout => Vllm \/ ~x.flag,
           UNCHANGED policy \/ policy' = {},
           IF config.colocated THEN policy' = {} ELSE UNCHANGED policy,
           stale' = (stale /\ group # Rollout)
    PROVE  DriverInv'
<1> USE DEF DriverInv
<1>0. /\ Sane /\ Rollout = 0 /\ Rollout \notin Groups
      /\ \A i \in DOMAIN config.variants : config.variants[i] = "group" <=> i \in Groups
      /\ DOMAIN config.variants = 1..Len(config.variants) /\ Len(config.variants) \in Nat \ {0}
    BY SaneConfig, ConfigFacts
<1>1. /\ refitReturn \in {"rollout", "variant", "val_pass"}
      /\ group = IF refitReturn = "val_pass" THEN variant ELSE Rollout
      /\ refitReturn = "variant" => variant = 1 /\ rolloutHolds
      /\ refitReturn = "val_pass" =>
            variant \in DOMAIN config.variants /\ Kind = "group" /\ ~rolloutHolds
    BY DEF PlaceInv
<1>2. group \in {Rollout} \cup Groups
    BY <1>0, <1>1 DEF Kind
<1>3. /\ engines' \in [{Rollout} \cup Groups -> Engine] /\ engines'[group] = x
      /\ \A h \in {Rollout} \cup Groups : h # group => engines'[h] = engines[h]
      /\ DOMAIN engines' = {Rollout} \cup Groups /\ DOMAIN engines = {Rollout} \cup Groups
      /\ UNCHANGED <<Groups, UsesRollout, Vllm>>
    BY <1>2, EnginesByGroup
<1>4. /\ pc' \notin Refitting /\ pc' \notin Outside /\ pc' # "refit_kv" /\ pc' # "transfer"
      /\ pc' # "failed" /\ pc' # "prepare_group" /\ pc' # "end_variant"
      /\ pc' \in Decoding <=> pc' = "val_pass"
      /\ pc \notin Decoding /\ pc # "failed" /\ pc \notin Outside
    BY <1>1 DEF Refitting, Outside, Decoding
<1>5. /\ UNCHANGED <<inbox, replies, reqAwaits, repOwes, group, Kind>>
    BY DEF transferVars, socketVars, sendVars, Kind
<1>6. TypeInv' /\ SocketInv'
    <2>1. policy' \in SUBSET PolicyParts /\ stale' \in BOOLEAN
        BY DEF TypeInv
    <2>2. SocketInv'
        BY <1>5, SocketsStay
    <2> QED
        BY <2>1, <2>2, <1>1, <1>3, <1>5 DEF TypeInv, Decoding
<1>7. PlaceInv'
    BY <1>0, <1>1, <1>4, <1>5 DEF PlaceInv
<1>8. ValidationInv'
    BY <1>1, <1>3, <1>4, <1>5 DEF ValidationInv, InValidation
<1>9. DecodeInv'
    BY <1>1, <1>4, <1>5 DEF DecodeInv
<1>10. MemoryInv'
    <2>1. \A h \in {Rollout} \cup Groups : h # group => engines'[h].memory = {}
        BY <1>3 DEF MemoryInv, Owners
    <2>2. Owners' = {group}
        BY <1>1, <1>4, <1>5 DEF Owners
    <2>3. \A h \in DOMAIN engines' : engines'[h].memory # {} => h \in Owners'
        BY <2>1, <2>2, <1>3
    <2>4. \A h \in DOMAIN engines' : Tidy(config.backend, engines'[h])
        BY <1>3 DEF MemoryInv
    <2>5. Awake(engines'[group])
        BY <1>3 DEF Awake
    <2> QED
        BY <2>3, <2>4, <2>5, <1>1, <1>4, <1>5 DEF MemoryInv
<1>11. PolicyInv' /\ AwayInv'
    <2>1. ~config.colocated => "params" \in policy'
        BY DEF PolicyInv
    <2>2. PolicyInv'
        BY <2>1, <1>3, <1>4, <1>1 DEF PolicyInv
    <2>3. AwayInv'
        BY DEF AwayInv
    <2> QED
        BY <2>2, <2>3
<1>12. HoldsInv'
    <2>1. CASE group = Rollout
        <3>1. Ready' /\ engines'[Rollout].holds = version'
            BY <2>1, <1>3 DEF Ready
        <3> QED
            BY <3>1, <2>1, <1>0, <1>1, <1>4, <1>5 DEF HoldsInv
    <2>2. CASE group # Rollout
        <3>1. engines'[Rollout] = engines[Rollout] /\ Ready' = Ready
            BY <2>2, <1>3 DEF Ready
        <3>2. Ready => engines[Rollout].holds = version
            BY <2>2, <1>4 DEF HoldsInv
        <3>3. refitReturn = "val_pass" /\ engines'[variant'].holds = version'
            BY <2>2, <1>1, <1>3
        <3> QED
            BY <3>1, <3>2, <3>3, <1>1, <1>4, <1>5 DEF HoldsInv
    <2> QED
        BY <2>1, <2>2
<1> QED
    BY <1>4, <1>6, <1>7, <1>8, <1>9, <1>10, <1>11, <1>12

LEMMA EndRefitDriver == ASSUME DriverInv, EndRefit PROVE DriverInv'
<1> USE DEF DriverInv
<1>0. Sane /\ (~config.colocated => Vllm) /\ group \in {Rollout} \cup Groups
    BY SaneConfig, ConfigFacts DEF TypeInv, TransferInv, EndRefit
<1> DEFINE x == MarkWeightsFresh(config.backend, [engines[group] EXCEPT !.holds = version])
<1>1. /\ pc = "transfer" /\ engines' = [engines EXCEPT ![group] = x]
      /\ policy' = IF config.colocated THEN {} ELSE policy
      /\ pc' = IF config.colocated THEN "refit_kv" ELSE refitReturn
      /\ stale' = (stale /\ group # Rollout)
      /\ UNCHANGED <<transferVars, config, decode, restore, halfWritten, teacher, version, refitReturn, variant,
                     rolloutHolds, slept, torn>>
    BY SuccessIsComplete DEF EndRefit, Received, OffloadAfterRefit, decodeVars
<1>2. /\ engines[group] \in Engine /\ Tidy(config.backend, engines[group])
      /\ engines[group].memory = IF config.colocated THEN {"weights"} ELSE Tags
      /\ version \in Int
    BY <1>0, <1>1 DEF TypeInv, MemoryInv, Refitting
<1>3. /\ x \in Engine /\ x.memory = engines[group].memory /\ x.holds = version
      /\ Tidy(config.backend, x) /\ (Vllm \/ ~x.flag)
    <2>1. CASE Vllm
        BY <1>2, <2>1 DEF MarkWeightsFresh, Vllm, Engine, Tidy
    <2>2. CASE ~Vllm
        <3>1. config.backend = "sglang"
            BY <1>0, <2>2 DEF Sane, Backends, Vllm
        <3> QED
            BY <1>2, <3>1 DEF MarkWeightsFresh, Engine, Tidy
    <2> QED
        BY <2>1, <2>2
<1> HIDE DEF x
<1>4. CASE ~config.colocated
    <2>1. x.memory = Tags /\ pc' = refitReturn /\ UNCHANGED policy /\ pc \in Refitting
        BY <1>1, <1>2, <1>3, <1>4 DEF Refitting
    <2> QED
        BY <1>1, <1>3, <1>4, <2>1, RefitReturns
<1>5. CASE config.colocated
    <2>0. pc' = "refit_kv" /\ policy' = {} /\ x.memory = {"weights"}
        BY <1>1, <1>2, <1>3, <1>5
    <2>1. /\ engines' \in [{Rollout} \cup Groups -> Engine] /\ engines'[group] = x
          /\ \A h \in {Rollout} \cup Groups : h # group => engines'[h] = engines[h]
          /\ DOMAIN engines' = {Rollout} \cup Groups /\ DOMAIN engines = {Rollout} \cup Groups
          /\ UNCHANGED <<Groups, UsesRollout, Vllm>>
        BY <1>0, <1>1, <1>3, EnginesByGroup
    <2>2. /\ pc' \in Refitting /\ pc' \notin Outside /\ pc' \notin Decoding
          /\ pc' \notin {"variant", "rollout", "failed", "prepare_group", "transfer"}
          /\ pc' # "val_pass" /\ pc' # "variant" /\ pc' # "rollout" /\ pc' # "failed"
          /\ pc' # "transfer" /\ pc' # "prepare_group"
          /\ pc' \notin {"start", "train", "validate"}
          /\ pc \in Refitting /\ pc \notin Decoding /\ pc # "failed"
        BY <1>1, <2>0 DEF Refitting, Outside, Decoding
    <2>3. UNCHANGED <<inbox, replies, reqAwaits, repOwes, group, Kind>>
        BY <1>1 DEF transferVars, socketVars, sendVars, Kind
    <2>4. TypeInv' /\ SocketInv'
        <3>1. policy' \in SUBSET PolicyParts /\ stale' \in BOOLEAN
            BY <1>1 DEF TypeInv
        <3>2. SocketInv'
            BY <2>3, SocketsStay
        <3> QED
            BY <1>1, <2>1, <2>2, <2>3, <3>1, <3>2 DEF TypeInv
    <2>5. PlaceInv' /\ DecodeInv'
        BY <1>1, <1>5, <2>2, <2>3 DEF PlaceInv, DecodeInv
    <2>6. ValidationInv'
        BY <1>1, <2>1, <2>2, <2>3 DEF ValidationInv, InValidation
    <2>7. MemoryInv'
        <3>1. Owners' = {group} /\ Owners = {group}
            BY <2>2, <2>3 DEF Owners
        <3>2. \A h \in DOMAIN engines' : engines'[h].memory # {} => h \in Owners'
            BY <3>1, <2>1 DEF MemoryInv
        <3>3. \A h \in DOMAIN engines' : Tidy(config.backend, engines'[h])
            BY <1>3, <2>1 DEF MemoryInv
        <3> QED
            BY <1>1, <1>5, <2>0, <2>1, <2>2, <2>3, <3>2, <3>3 DEF MemoryInv
    <2>8. PolicyInv' /\ AwayInv'
        BY <1>1, <1>5, <2>0, <2>2 DEF PolicyInv, AwayInv
    <2>9. HoldsInv'
        <3>1. CASE group = Rollout
            <4>1. Ready' /\ engines'[Rollout].holds = version'
                BY <3>1, <1>1, <1>3, <2>1 DEF Ready
            <4> QED
                BY <4>1, <3>1, <2>2, <2>3 DEF HoldsInv
        <3>2. CASE group # Rollout
            <4>1. engines'[Rollout] = engines[Rollout] /\ Ready' = Ready /\ version' = version
                BY <3>2, <1>1, <2>1 DEF Ready
            <4>2. engines'[group'].holds = version'
                BY <1>1, <1>3, <2>1, <2>3
            <4>3. Ready => engines[Rollout].holds = version
                BY <3>2, <2>2 DEF HoldsInv
            <4> QED
                BY <4>1, <4>2, <4>3, <3>2, <2>2, <2>3 DEF HoldsInv
        <3> QED
            BY <3>1, <3>2
    <2> QED
        BY <2>2, <2>4, <2>5, <2>6, <2>7, <2>8, <2>9
<1> QED
    BY <1>0, <1>4, <1>5 DEF Sane

LEMMA WakeKvDriver == ASSUME DriverInv, WakeKvCache PROVE DriverInv'
<1> USE DEF DriverInv
<1>0. /\ Sane /\ pc = "refit_kv" /\ pc \in Refitting /\ config.colocated /\ pc' = refitReturn
      /\ pc # "transfer" /\ pc # "failed"
    BY SaneConfig DEF WakeKvCache, Refitting, PlaceInv
<1> DEFINE x == PrepareOf(group, {"kv_cache"})
<1>1. group \in {Rollout} \cup Groups
    BY <1>0, ConfigFacts DEF PlaceInv, Kind
<1>2. /\ engines[group] \in Engine /\ Tidy(config.backend, engines[group])
      /\ engines[group].memory = {"weights"} /\ engines[group].holds = version
    BY <1>0, <1>1 DEF TypeInv, MemoryInv, HoldsInv
<1>3. /\ x \in Engine /\ Tidy(config.backend, x) /\ x.holds = version
      /\ x.memory = IF config.colocated THEN engines[group].memory \cup {"kv_cache"}
                    ELSE engines[group].memory
      /\ ~Vllm => x.flag = engines[group].flag
    <2>1. x = PrepareForGeneration(config.backend, config.colocated, engines[group], {"kv_cache"})
        BY DEF PrepareOf
    <2> HIDE DEF x
    <2>2. /\ engines[group] \in Engine /\ Tidy(config.backend, engines[group]) /\ Sane
          /\ {"kv_cache"} \in {Tags, {"weights"}, {"kv_cache"}}
        BY <1>0, <1>2
    <2>3. /\ x \in Engine /\ Tidy(config.backend, x) /\ x.holds = engines[group].holds
          /\ x.memory = IF config.colocated THEN engines[group].memory \cup {"kv_cache"}
                        ELSE engines[group].memory
          /\ config.backend # "vllm" => x.flag = engines[group].flag
        BY <2>1, <2>2, Prepared
    <2> QED
        BY <1>2, <2>3 DEF Vllm
<1>4. engines' = [engines EXCEPT ![group] = x]
    BY DEF WakeKvCache
<1> HIDE DEF x
<1>5. x.memory = Tags
    BY <1>0, <1>2, <1>3 DEF Tags
<1>6. group = Rollout => Ready
    BY <1>0 DEF HoldsInv
<1>7. (group = Rollout => Vllm \/ ~x.flag) /\ stale' = (stale /\ group # Rollout)
    BY <1>3, <1>6 DEF Ready, WakeKvCache, TypeInv
<1>8. policy' = {}
    BY <1>0 DEF AwayInv, WakeKvCache
<1>9. UNCHANGED <<transferVars, config, decode, restore, halfWritten, teacher, version, variant, rolloutHolds, slept, torn>>
    BY DEF WakeKvCache, decodeVars
<1> QED
    BY <1>0, <1>3, <1>4, <1>5, <1>7, <1>8, <1>9, RefitReturns

LEMMA RefitFailsDriver == ASSUME DriverInv, RefitFails PROVE DriverInv'
<1> USE DEF DriverInv
<1>0. /\ Sane /\ Rollout = 0 /\ Rollout \notin Groups /\ pc = "transfer" /\ pc \in Refitting
      /\ pc \notin Decoding /\ pc # "failed"
      /\ group \in {Rollout} \cup Groups
    BY SaneConfig, ConfigFacts DEF TypeInv, TransferInv, RefitFails, Refitting, Decoding
<1> DEFINE x == [engines[group] EXCEPT !.holds = Garbage]
<1>1. /\ engines' = [engines EXCEPT ![group] = x]
      /\ pc' = IF group = Rollout THEN "failed" ELSE "end_variant"
      /\ torn' = (torn \/ group # Rollout)
      /\ UNCHANGED <<transferVars, config, decode, restore, halfWritten, policy, teacher, version, stale, variant,
                     rolloutHolds, slept>>
    BY DEF RefitFails, decodeVars
<1>2. /\ engines[group] \in Engine /\ Tidy(config.backend, engines[group])
      /\ engines[group].memory = IF config.colocated THEN {"weights"} ELSE Tags
    BY <1>0 DEF TypeInv, MemoryInv
<1>3. x \in Engine /\ x.memory = engines[group].memory /\ Tidy(config.backend, x)
    BY <1>2 DEF Engine, Tidy, Garbage
<1> HIDE DEF x
<1>4. /\ engines' \in [{Rollout} \cup Groups -> Engine] /\ engines'[group] = x
      /\ \A h \in {Rollout} \cup Groups : h # group => engines'[h] = engines[h]
      /\ DOMAIN engines' = {Rollout} \cup Groups /\ DOMAIN engines = {Rollout} \cup Groups
      /\ UNCHANGED <<Groups, UsesRollout, Vllm>>
    BY <1>0, <1>1, <1>3, EnginesByGroup
<1>5. UNCHANGED <<inbox, replies, reqAwaits, repOwes, group, Kind>>
    BY <1>1 DEF transferVars, socketVars, sendVars, Kind
<1>6. /\ pc' \notin Refitting /\ pc' \notin Outside /\ pc' # "refit_kv" /\ pc' # "transfer"
      /\ pc' # "rollout" /\ pc' # "variant" /\ pc' # "prepare_group" /\ pc' # "val_pass"
      /\ pc' \in Decoding <=> pc' = "end_variant"
    BY <1>1 DEF Refitting, Outside, Decoding
<1>7. group # Rollout => /\ refitReturn = "val_pass" /\ variant = group
                         /\ variant \in DOMAIN config.variants /\ Kind = "group" /\ ~rolloutHolds
    BY <1>0 DEF PlaceInv
<1>8. TypeInv' /\ SocketInv'
    <2>1. torn' \in BOOLEAN
        BY <1>1 DEF TypeInv
    <2>2. SocketInv'
        BY <1>5, SocketsStay
    <2> QED
        BY <1>1, <1>4, <1>5, <2>1, <2>2 DEF TypeInv, Decoding
<1>9. PlaceInv' /\ DecodeInv'
    BY <1>0, <1>1, <1>5, <1>6, <1>7 DEF PlaceInv, DecodeInv, Decoding
<1>10. ValidationInv'
    <2>1. CASE group = Rollout
        BY <2>1, <1>1, <1>6 DEF ValidationInv, InValidation
    <2>2. CASE group # Rollout
        BY <2>2, <1>0, <1>1, <1>4, <1>6, <1>7 DEF ValidationInv, InValidation
    <2> QED
        BY <2>1, <2>2
<1>11. MemoryInv'
    <2>1. Owners' = {group} /\ Owners = {group}
        BY <1>0, <1>1, <1>5, <1>6, <1>7 DEF Owners
    <2>2. \A h \in DOMAIN engines' : engines'[h].memory # {} => h \in Owners'
        BY <2>1, <1>4 DEF MemoryInv
    <2>3. \A h \in DOMAIN engines' : Tidy(config.backend, engines'[h])
        BY <1>1, <1>3, <1>4 DEF MemoryInv
    <2>4. pc' \in Decoding => ~rolloutHolds'
        BY <1>1, <1>6, <1>7
    <2> QED
        BY <1>1, <1>6, <2>2, <2>3, <2>4 DEF MemoryInv
<1>12. PolicyInv' /\ AwayInv'
    <2>1. config.colocated /\ group = Rollout => engines'[Rollout].memory = {"weights"}
        BY <1>2, <1>3, <1>4
    <2> QED
        BY <2>1, <1>1, <1>4, <1>6 DEF PolicyInv, AwayInv
<1>13. HoldsInv'
    <2>1. CASE group = Rollout
        BY <2>1, <1>1, <1>6 DEF HoldsInv
    <2>2. CASE group # Rollout
        <3>1. engines'[Rollout] = engines[Rollout] /\ Ready' = Ready
            BY <2>2, <1>1, <1>4 DEF Ready
        <3>2. Ready => engines[Rollout].holds = version
            BY <2>2, <1>0 DEF HoldsInv
        <3> QED
            BY <3>1, <3>2, <2>2, <1>1, <1>6, <1>7 DEF HoldsInv
    <2> QED
        BY <2>1, <2>2
<1> QED
    BY <1>6, <1>8, <1>9, <1>10, <1>11, <1>12, <1>13

-----------------------------------------------------------------------------
(* Rollouts. *)

LEMMA RefitFor ==
    ASSUME DriverInv, pc \in {"step", "validate"}
    PROVE  /\ pc \in Outside
           /\ engines[Rollout] \in Engine /\ Tidy(config.backend, engines[Rollout])
           /\ engines[Rollout].memory = IF config.colocated THEN {} ELSE Tags
           /\ \A h \in {Rollout} \cup Groups : h # Rollout => engines[h].memory = {}
           /\ NeedsRefit /\ Vllm => "params" \in policy
           /\ ~NeedsRefit => Ready
           /\ pc = "validate" => stale /\ NeedsRefit
<1> USE DEF DriverInv
<1>1. /\ pc \in Outside /\ pc \notin Refitting \cup Decoding
      /\ pc # "variant" /\ pc # "prepare_group" /\ pc \notin Decoding /\ pc \notin Refitting
    BY DEF Outside, Refitting, Decoding
<1>2. Owners = {Rollout}
    BY <1>1 DEF Owners
<1>3. NeedsRefit /\ Vllm => stale
    BY DEF NeedsRefit, NeedsWeightRefit, Vllm
<1>4. ~NeedsRefit => Ready
    BY ConfigFacts DEF NeedsRefit, NeedsWeightRefit, Ready
<1>5. pc = "validate" => stale /\ NeedsRefit
    BY DEF PolicyInv, NeedsRefit
<1> QED
    BY <1>1, <1>2, <1>3, <1>4, <1>5 DEF TypeInv, MemoryInv, PolicyInv

LEMMA PrepareRolloutDriver == ASSUME DriverInv, PrepareRollout PROVE DriverInv'
<1> USE DEF DriverInv
<1>0. pc = "step" /\ Sane /\ Rollout = 0 /\ Rollout \notin Groups
    BY SaneConfig, ConfigFacts DEF PrepareRollout
<1>1. CASE NeedsRefit
    <2>1. /\ StartRefit(Rollout, policy, engines[Rollout], "rollout")
          /\ UNCHANGED <<config, decode, restore, halfWritten, teacher, version, stale, variant, rolloutHolds, slept, torn>>
        BY <1>1 DEF PrepareRollout, decodeVars
    <2>2. pc' = "transfer" /\ refitReturn' = "rollout" /\ group' = Rollout
        BY <2>1 DEF StartRefit, StartTransfer
    <2>3. PlaceInv'
        BY <2>2 DEF PlaceInv, Decoding
    <2>4. ValidationInv'
        BY <2>2 DEF ValidationInv, InValidation, Decoding
    <2>5. /\ policy \in SUBSET PolicyParts /\ variant' \in Nat /\ rolloutHolds' \in BOOLEAN
          /\ slept' \in BOOLEAN /\ torn' \in BOOLEAN
        BY <2>1 DEF TypeInv
    <2> QED
        BY <1>0, <1>1, <2>1, <2>3, <2>4, <2>5, RefitFor, StartRefitStep
<1>2. CASE ~NeedsRefit
    <2> DEFINE x == PrepareOf(Rollout, Tags)
    <2>1. /\ pc' = "rollout" /\ engines' = [engines EXCEPT ![Rollout] = x]
          /\ policy' = IF config.algorithm = "grpo" /\ config.colocated THEN {} ELSE policy
          /\ UNCHANGED <<transferVars, config, decode, restore, halfWritten, teacher, version, stale, variant,
                         rolloutHolds, slept, torn>>
        BY <1>2 DEF PrepareRollout, PrepareCurrentEngine, OffloadAfterRefit, decodeVars
    <2>2. /\ x \in Engine /\ Tidy(config.backend, x) /\ x.holds = engines[Rollout].holds
          /\ x.memory = IF config.colocated THEN engines[Rollout].memory \cup Tags
                        ELSE engines[Rollout].memory
          /\ ~Vllm => x.flag = engines[Rollout].flag
        <3>1. x = PrepareForGeneration(config.backend, config.colocated, engines[Rollout], Tags)
            BY DEF PrepareOf
        <3> HIDE DEF x
        <3> QED
            BY <1>0, <3>1, RefitFor, Prepared DEF Vllm
    <2> HIDE DEF x
    <2>3. x.memory = Tags
        BY <1>0, <2>2, RefitFor DEF Sane
    <2>4. /\ engines' \in [{Rollout} \cup Groups -> Engine] /\ engines'[Rollout] = x
          /\ \A h \in {Rollout} \cup Groups : h # Rollout => engines'[h] = engines[h]
          /\ DOMAIN engines' = {Rollout} \cup Groups /\ DOMAIN engines = {Rollout} \cup Groups
          /\ UNCHANGED <<Groups, UsesRollout, Vllm>>
        BY <2>1, <2>2, EnginesByGroup
    <2>5. /\ pc' \notin Refitting /\ pc' \notin Outside /\ pc' \notin Decoding /\ pc' # "transfer"
          /\ pc' # "refit_kv" /\ pc' # "variant" /\ pc' # "prepare_group" /\ pc' # "val_pass"
          /\ pc' \notin Decoding \cup {"variant"} /\ pc' # "failed" /\ pc \notin Decoding
          /\ pc' \notin {"start", "train", "validate"} /\ pc # "transfer" /\ pc # "failed"
        BY <1>0, <2>1 DEF Refitting, Outside, Decoding
    <2>6. TypeInv' /\ SocketInv'
        <3>1. policy' \in SUBSET PolicyParts
            BY <2>1 DEF TypeInv
        <3>2. UNCHANGED <<inbox, replies, reqAwaits, repOwes>>
            BY <2>1 DEF transferVars, socketVars
        <3> QED
            BY <2>1, <2>4, <3>1, <3>2, SocketsStay DEF TypeInv
    <2>7. PlaceInv' /\ ValidationInv' /\ DecodeInv'
        BY <1>0, <2>1, <2>5 DEF PlaceInv, ValidationInv, InValidation, DecodeInv, Decoding
    <2>8. MemoryInv'
        <3>1. Owners' = {Rollout}
            BY <2>5 DEF Owners
        <3>2. \A h \in DOMAIN engines' : engines'[h].memory # {} => h \in Owners'
            BY <1>0, <3>1, <2>4, RefitFor
        <3>3. \A h \in DOMAIN engines' : Tidy(config.backend, engines'[h])
            BY <2>2, <2>4 DEF MemoryInv
        <3> QED
            BY <2>1, <2>3, <2>4, <2>5, <3>2, <3>3 DEF MemoryInv, Awake
    <2>9. PolicyInv' /\ AwayInv'
        <3>1. ~config.colocated => "params" \in policy'
            BY <2>1 DEF PolicyInv
        <3> QED
            BY <3>1, <2>1, <2>5 DEF PolicyInv, AwayInv
    <2>10. HoldsInv'
        <3>1. Ready /\ engines[Rollout].holds = version
            BY <1>0, <1>2, <2>5, RefitFor DEF HoldsInv
        <3>2. Ready' /\ engines'[Rollout].holds = version'
            BY <3>1, <2>1, <2>2, <2>4 DEF Ready
        <3> QED
            BY <3>2, <2>5 DEF HoldsInv
    <2> QED
        BY <2>5, <2>6, <2>7, <2>8, <2>9, <2>10
<1> QED
    BY <1>1, <1>2

LEMMA FinishRolloutDriver == ASSUME DriverInv, FinishRollout PROVE DriverInv'
<1> USE DEF DriverInv
<1>0. /\ pc = "rollout" /\ Sane /\ Rollout = 0 /\ Rollout \notin Groups
      /\ (~config.colocated => Vllm) /\ pc # "transfer" /\ pc # "failed"
      /\ pc \notin Refitting /\ pc \notin Decoding /\ pc # "variant" /\ pc # "prepare_group"
    BY SaneConfig, ConfigFacts DEF FinishRollout, Refitting, Decoding
<1> DEFINE x == FinishOf(Rollout)
<1>1. /\ pc' \in {"logprobs", "step"} /\ engines' = [engines EXCEPT ![Rollout] = x]
      /\ UNCHANGED <<transferVars, config, decode, restore, halfWritten, policy, teacher, version, stale, variant,
                     rolloutHolds, slept, torn>>
    BY DEF FinishRollout, decodeVars
<1>2. /\ engines[Rollout] \in Engine /\ Tidy(config.backend, engines[Rollout])
      /\ engines[Rollout].memory = Tags /\ Ready
    BY <1>0 DEF TypeInv, MemoryInv, Awake, HoldsInv
<1>3. /\ x \in Engine /\ Tidy(config.backend, x)
      /\ config.colocated => x.memory = {} /\ x.flag = TRUE
      /\ ~config.colocated => x = engines[Rollout]
      /\ Vllm => x.holds = engines[Rollout].holds
    <2>1. x = FinishGeneration(config.backend, config.colocated, engines[Rollout])
        BY DEF FinishOf
    <2> HIDE DEF x
    <2> QED
        BY <1>0, <1>2, <2>1, Finished DEF Vllm
<1> HIDE DEF x
<1>4. /\ engines' \in [{Rollout} \cup Groups -> Engine] /\ engines'[Rollout] = x
      /\ \A h \in {Rollout} \cup Groups : h # Rollout => engines'[h] = engines[h]
      /\ DOMAIN engines' = {Rollout} \cup Groups /\ DOMAIN engines = {Rollout} \cup Groups
      /\ UNCHANGED <<Groups, UsesRollout, Vllm>>
    BY <1>1, <1>3, EnginesByGroup
<1>5. /\ pc' \in Outside /\ pc' \notin Refitting /\ pc' \notin Decoding /\ pc' # "transfer"
      /\ pc' # "refit_kv" /\ pc' # "variant" /\ pc' # "prepare_group" /\ pc' # "val_pass"
      /\ pc' \notin Decoding \cup {"variant"} /\ pc' # "failed" /\ pc' # "rollout"
      /\ pc' \notin {"start", "train", "validate"}
    BY <1>1 DEF Refitting, Outside, Decoding
<1>6. TypeInv' /\ SocketInv'
    <2>1. UNCHANGED <<inbox, replies, reqAwaits, repOwes>>
        BY <1>1 DEF transferVars, socketVars
    <2> QED
        BY <1>1, <1>4, <1>5, <2>1, SocketsStay DEF TypeInv
<1>7. PlaceInv' /\ ValidationInv' /\ DecodeInv'
    BY <1>0, <1>1, <1>5 DEF PlaceInv, ValidationInv, InValidation, DecodeInv, Decoding
<1>8. MemoryInv'
    <2>1. Owners' = {Rollout} /\ Owners = {Rollout}
        BY <1>0, <1>5 DEF Owners
    <2>2. \A h \in DOMAIN engines' : engines'[h].memory # {} => h \in Owners'
        BY <2>1, <1>4 DEF MemoryInv
    <2>3. \A h \in DOMAIN engines' : Tidy(config.backend, engines'[h])
        BY <1>3, <1>4 DEF MemoryInv
    <2>4. engines'[Rollout].memory = IF config.colocated THEN {} ELSE Tags
        BY <1>2, <1>3, <1>4
    <2> QED
        BY <1>1, <1>5, <2>2, <2>3, <2>4 DEF MemoryInv
<1>9. PolicyInv' /\ AwayInv'
    BY <1>1, <1>2, <1>5 DEF PolicyInv, AwayInv, Ready
<1>10. HoldsInv'
    <2>1. engines[Rollout].holds = version
        BY <1>0, <1>2 DEF HoldsInv
    <2>2. Ready' => Vllm
        BY <1>0, <1>3, <1>4 DEF Ready, Sane, Vllm
    <2>3. Ready' => engines'[Rollout].holds = version'
        BY <1>1, <1>3, <1>4, <2>1, <2>2
    <2> QED
        BY <2>3, <1>5 DEF HoldsInv
<1> QED
    BY <1>5, <1>6, <1>7, <1>8, <1>9, <1>10

-----------------------------------------------------------------------------
(* Validations. *)

LEMMA PrepareValidationDriver == ASSUME DriverInv, PrepareValidation PROVE DriverInv'
<1> USE DEF DriverInv
<1>0. /\ pc = "validate" /\ Sane /\ Rollout = 0 /\ Rollout \notin Groups
      /\ (~config.colocated => Vllm) /\ stale /\ NeedsRefit
      /\ Len(config.variants) \in Nat \ {0}
      /\ UsesRollout \in BOOLEAN
    BY SaneConfig, ConfigFacts, RefitFor DEF PrepareValidation, UsesRollout
<1>1. /\ variant' = 1 /\ rolloutHolds' = UsesRollout /\ torn' = FALSE
      /\ slept' = (~UsesRollout /\ ~config.colocated)
      /\ UNCHANGED <<config, decode, restore, halfWritten, teacher, version, stale, UsesRollout>>
    BY DEF PrepareValidation, UsesRollout, decodeVars
<1>2. CASE UsesRollout
    <2>1. StartRefit(Rollout, policy, engines[Rollout], "variant")
        BY <1>0, <1>2 DEF PrepareValidation
    <2>2. pc' = "transfer" /\ refitReturn' = "variant" /\ group' = Rollout
        BY <2>1 DEF StartRefit, StartTransfer
    <2>3. PlaceInv'
        BY <1>1, <1>2, <2>2 DEF PlaceInv, Decoding
    <2>4. ValidationInv'
        BY <1>1, <1>2, <2>2 DEF ValidationInv, InValidation, Decoding, Refitting
    <2>5. /\ policy \in SUBSET PolicyParts /\ variant' \in Nat /\ rolloutHolds' \in BOOLEAN
          /\ slept' \in BOOLEAN /\ torn' \in BOOLEAN
        BY <1>0, <1>1 DEF TypeInv
    <2> QED
        BY <1>0, <1>1, <2>1, <2>3, <2>4, <2>5, RefitFor, StartRefitStep
<1>3. CASE ~UsesRollout
    <2>1. /\ pc' = "variant" /\ UNCHANGED <<transferVars, policy>>
          /\ engines' = IF config.colocated THEN engines
                        ELSE [engines EXCEPT ![Rollout] = SleepOf(Rollout)]
        BY <1>3 DEF PrepareValidation
    <2>2. /\ pc' \notin Refitting /\ pc' \notin Outside /\ pc' \notin Decoding /\ pc' # "transfer"
          /\ pc' # "refit_kv" /\ pc' # "rollout" /\ pc' # "prepare_group" /\ pc' # "val_pass"
          /\ pc' # "failed" /\ pc \notin Decoding \cup {"failed"} /\ pc # "transfer"
          /\ pc' \notin {"start", "train", "validate"}
        BY <1>0, <2>1 DEF Refitting, Outside, Decoding
    <2>3. /\ engines' \in [{Rollout} \cup Groups -> Engine] /\ engines'[Rollout].memory = {}
          /\ \A h \in {Rollout} \cup Groups : h # Rollout => engines'[h] = engines[h]
          /\ DOMAIN engines' = {Rollout} \cup Groups /\ DOMAIN engines = {Rollout} \cup Groups
          /\ UNCHANGED <<Groups, Vllm>> /\ Tidy(config.backend, engines'[Rollout])
        <3>1. UNCHANGED <<Groups, Vllm>>
            BY <1>1 DEF Groups, Vllm
        <3>2. CASE config.colocated
            BY <1>0, <2>1, <3>1, <3>2, RefitFor DEF TypeInv
        <3>3. CASE ~config.colocated
            <4> DEFINE x == SleepOf(Rollout)
            <4>1. x \in Engine /\ x.memory = {} /\ x.flag = TRUE
                BY <1>0, RefitFor, Slept DEF SleepOf
            <4> HIDE DEF x
            <4>2. engines' = [engines EXCEPT ![Rollout] = x]
                BY <2>1, <3>3 DEF x
            <4>3. Tidy(config.backend, x)
                BY <4>1 DEF Tidy
            <4> QED
                BY <1>1, <4>1, <4>2, <4>3, <3>1, EnginesByGroup
        <3> QED
            BY <1>0, <3>2, <3>3 DEF Sane
    <2>4. TypeInv' /\ SocketInv'
        <3>1. UNCHANGED <<inbox, replies, reqAwaits, repOwes>>
            BY <2>1 DEF transferVars, socketVars
        <3>2. variant' \in Nat /\ rolloutHolds' \in BOOLEAN /\ slept' \in BOOLEAN /\ torn' \in BOOLEAN
            BY <1>0, <1>1
        <3>3. SocketInv'
            BY <3>1, SocketsStay
        <3> QED
            BY <1>1, <2>1, <2>3, <3>1, <3>2, <3>3 DEF TypeInv
    <2>5. PlaceInv'
        BY <1>0, <1>1, <2>1, <2>2 DEF PlaceInv
    <2>6. ValidationInv'
        BY <1>1, <1>3, <2>1, <2>2 DEF ValidationInv, InValidation
    <2>7. DecodeInv'
        BY <1>1, <2>2 DEF DecodeInv
    <2>8. MemoryInv'
        <3>1. \A h \in DOMAIN engines' : engines'[h].memory = {}
            BY <1>0, <2>3, RefitFor
        <3>2. \A h \in DOMAIN engines' : Tidy(config.backend, engines'[h])
            BY <2>3 DEF MemoryInv
        <3> QED
            BY <1>1, <1>3, <2>1, <2>2, <3>1, <3>2 DEF MemoryInv
    <2>9. PolicyInv' /\ AwayInv'
        BY <1>1, <1>3, <2>1, <2>2 DEF PolicyInv, AwayInv
    <2>10. HoldsInv'
        BY <1>0, <1>1, <1>3, <2>2 DEF HoldsInv, Ready
    <2> QED
        BY <2>2, <2>4, <2>5, <2>6, <2>7, <2>8, <2>9, <2>10
<1> QED
    BY <1>2, <1>3

LEMMA HandOverDriver == ASSUME DriverInv, HandOver PROVE DriverInv'
<1> USE DEF DriverInv
<1>0. /\ pc = "variant" /\ Sane /\ Rollout = 0 /\ Rollout \notin Groups
      /\ (~config.colocated => Vllm) /\ pc \in {"variant"}
      /\ variant \in DOMAIN config.variants /\ Kind = "group"
      /\ pc \notin Refitting /\ pc \notin Decoding /\ pc # "transfer" /\ pc # "failed"
    BY SaneConfig, ConfigFacts DEF HandOver, PlaceInv, Refitting, Decoding
<1>1. /\ pc' = "prepare_group" /\ rolloutHolds' = FALSE
      /\ engines' = IF rolloutHolds THEN [engines EXCEPT ![Rollout] = SleepOf(Rollout)] ELSE engines
      /\ UNCHANGED <<transferVars, config, decode, restore, halfWritten, policy, teacher, version, stale, variant,
                     slept, torn>>
      /\ UNCHANGED <<Groups, Vllm, Kind, UsesRollout>>
    BY DEF HandOver, Groups, Vllm, Kind, UsesRollout, decodeVars
<1>2. /\ pc' \notin Refitting /\ pc' \notin Outside /\ pc' \notin Decoding /\ pc' # "transfer"
      /\ pc' # "refit_kv" /\ pc' # "rollout" /\ pc' # "variant" /\ pc' # "val_pass"
      /\ pc' # "failed" /\ pc' \notin {"start", "train", "validate"}
      /\ pc' \notin Decoding \cup {"variant"}
    BY <1>1 DEF Refitting, Outside, Decoding
<1>3. /\ engines' \in [{Rollout} \cup Groups -> Engine]
      /\ \A h \in {Rollout} \cup Groups : engines'[h].memory = {} /\ Tidy(config.backend, engines'[h])
      /\ DOMAIN engines' = {Rollout} \cup Groups
      /\ Ready' => Ready /\ engines'[Rollout].holds = engines[Rollout].holds
    <2>1. /\ engines \in [{Rollout} \cup Groups -> Engine]
          /\ \A h \in {Rollout} \cup Groups : Tidy(config.backend, engines[h])
        BY DEF TypeInv, MemoryInv
    <2>2. CASE rolloutHolds
        <3> DEFINE x == SleepOf(Rollout)
        <3>1. /\ x \in Engine /\ x.memory = {} /\ x.flag = TRUE
              /\ Vllm => x.holds = engines[Rollout].holds
            BY <1>0, <2>1, Slept DEF SleepOf, Vllm
        <3> HIDE DEF x
        <3>2. engines' = [engines EXCEPT ![Rollout] = x]
            BY <1>1, <2>2 DEF x
        <3>3. Tidy(config.backend, x)
            BY <3>1 DEF Tidy
        <3>4. \A h \in {Rollout} \cup Groups : h # Rollout => engines[h].memory = {}
            BY <1>0, <2>1 DEF MemoryInv, Owners
        <3>5. /\ engines' \in [{Rollout} \cup Groups -> Engine] /\ engines'[Rollout] = x
              /\ \A h \in {Rollout} \cup Groups : h # Rollout => engines'[h] = engines[h]
              /\ DOMAIN engines' = {Rollout} \cup Groups
            BY <1>1, <3>1, <3>2, EnginesByGroup
        <3>6. Ready' => Ready /\ engines'[Rollout].holds = engines[Rollout].holds
            BY <1>1, <3>1, <3>5 DEF Ready
        <3> QED
            BY <2>1, <3>1, <3>3, <3>4, <3>5, <3>6
    <2>3. CASE ~rolloutHolds
        <3>1. engines' = engines /\ Ready' = Ready
            BY <1>1, <2>3 DEF Ready
        <3>2. \A h \in {Rollout} \cup Groups : engines[h].memory = {}
            BY <1>0, <2>1, <2>3 DEF MemoryInv, Owners
        <3> QED
            BY <2>1, <3>1, <3>2
    <2> QED
        BY <2>2, <2>3
<1>4. TypeInv' /\ SocketInv'
    <2>1. UNCHANGED <<inbox, replies, reqAwaits, repOwes>>
        BY <1>1 DEF transferVars, socketVars
    <2>2. SocketInv'
        BY <2>1, SocketsStay
    <2> QED
        BY <1>1, <1>3, <2>1, <2>2 DEF TypeInv
<1>5. PlaceInv' /\ DecodeInv'
    BY <1>0, <1>1, <1>2 DEF PlaceInv, DecodeInv
<1>6. ValidationInv'
    BY <1>0, <1>1, <1>2 DEF ValidationInv, InValidation
<1>7. MemoryInv'
    BY <1>1, <1>2, <1>3 DEF MemoryInv
<1>8. PolicyInv' /\ AwayInv'
    BY <1>1, <1>2 DEF PolicyInv, AwayInv
<1>9. HoldsInv'
    BY <1>0, <1>1, <1>2, <1>3 DEF HoldsInv
<1> QED
    BY <1>2, <1>4, <1>5, <1>6, <1>7, <1>8, <1>9

LEMMA PrepareValGenerationDriver == ASSUME DriverInv, PrepareValGeneration PROVE DriverInv'
<1> USE DEF DriverInv
<1>0. /\ pc = "prepare_group" /\ Sane /\ Rollout = 0 /\ Rollout \notin Groups
      /\ variant \in DOMAIN config.variants /\ Kind = "group" /\ ~rolloutHolds
      /\ variant \in Groups /\ pc \notin Refitting /\ pc \notin Decoding
      /\ (~config.colocated => Vllm)
    BY SaneConfig, ConfigFacts DEF PrepareValGeneration, PlaceInv, Kind, Refitting, Decoding
<1> DEFINE p == IF config.colocated THEN LpInference(policy) ELSE policy
           e == IF config.colocated THEN engines[variant] ELSE WakeUpOf(variant)
<1>1. /\ StartRefit(variant, p, e, "val_pass")
      /\ UNCHANGED <<config, decode, restore, halfWritten, teacher, version, stale, variant, rolloutHolds, slept, torn>>
      /\ UNCHANGED <<Kind, UsesRollout>>
    BY DEF PrepareValGeneration, Kind, UsesRollout, decodeVars
<1>2. p \in SUBSET PolicyParts /\ "params" \in p
    BY LpOnDevice DEF LpInference, PolicyInv, TypeInv
<1>3. \A h \in {Rollout} \cup Groups : /\ engines[h] \in Engine /\ Tidy(config.backend, engines[h])
                                       /\ engines[h].memory = {}
    BY <1>0 DEF TypeInv, MemoryInv, Owners
<1>4. /\ e \in Engine /\ Tidy(config.backend, e)
      /\ e.memory = IF config.colocated THEN {} ELSE Tags
    <2>1. CASE config.colocated
        BY <1>0, <1>3, <2>1
    <2>2. CASE ~config.colocated
        BY <1>0, <1>3, <2>2, Woken DEF WakeUpOf
    <2> QED
        BY <2>1, <2>2, <1>0 DEF Sane
<1> HIDE DEF p, e
<1>5. pc' = "transfer" /\ refitReturn' = "val_pass" /\ group' = variant
    BY <1>1 DEF StartRefit, StartTransfer
<1>6. PlaceInv'
    BY <1>0, <1>1, <1>5 DEF PlaceInv, Decoding
<1>7. ValidationInv'
    BY <1>0, <1>1, <1>5 DEF ValidationInv, InValidation, Decoding
<1>8. /\ variant' \in Nat /\ rolloutHolds' \in BOOLEAN /\ slept' \in BOOLEAN /\ torn' \in BOOLEAN
    BY <1>1 DEF TypeInv
<1> QED
    BY <1>0, <1>1, <1>2, <1>3, <1>4, <1>6, <1>7, <1>8, StartRefitStep

LEMMA TakeBackDriver == ASSUME DriverInv, TakeBack PROVE DriverInv'
<1> USE DEF DriverInv
<1>0. /\ pc = "variant" /\ Sane /\ Rollout = 0 /\ Rollout \notin Groups
      /\ variant \in DOMAIN config.variants /\ Kind # "group" /\ UsesRollout
      /\ pc \notin Refitting /\ pc \notin Decoding /\ pc # "transfer" /\ pc # "failed"
      /\ pc # "refit_kv" /\ pc \in Decoding \cup {"variant"}
    BY SaneConfig, ConfigFacts DEF TakeBack, PlaceInv, Kind, UsesRollout, Refitting, Decoding
<1>1. /\ pc' \in Decoding /\ rolloutHolds' = TRUE
      /\ engines' = IF rolloutHolds THEN engines ELSE [engines EXCEPT ![Rollout] = WakeUpOf(Rollout)]
      /\ halfWritten' \in BOOLEAN
      /\ halfWritten' = FALSE =>
           /\ halfWritten = FALSE
           /\ Kind # "soft" => UNCHANGED <<decode, restore>>
           /\ Kind = "soft" => /\ decode' = Reconfigured(KnobsOf(variant), Wholly)
                              /\ restore' = {decode[1]}
      /\ UNCHANGED <<transferVars, config, policy, teacher, version, stale, variant, slept, torn>>
      /\ UNCHANGED <<Groups, Vllm, Kind, UsesRollout>>
    BY DEF TakeBack, TypeInv, decodeVars, Decoding, Groups, Vllm, Kind, UsesRollout
<1>2. /\ pc' \notin Refitting /\ pc' \notin Outside /\ pc' # "transfer"
      /\ pc' # "refit_kv" /\ pc' # "rollout" /\ pc' # "variant" /\ pc' # "prepare_group"
      /\ pc' # "failed" /\ pc' \notin {"start", "train", "validate"}
      /\ pc' \in Decoding \cup {"variant"} /\ pc' \in Decoding \cup {"failed"}
    BY <1>1 DEF Refitting, Outside, Decoding
<1>3. /\ engines \in [{Rollout} \cup Groups -> Engine]
      /\ \A h \in {Rollout} \cup Groups : Tidy(config.backend, engines[h])
      /\ \A h \in Groups : engines[h].memory = {}
    BY <1>0 DEF TypeInv, MemoryInv, Owners
<1>4. /\ engines' \in [{Rollout} \cup Groups -> Engine]
      /\ engines'[Rollout].memory = Tags
      /\ \A h \in Groups : engines'[h].memory = {}
      /\ \A h \in {Rollout} \cup Groups : Tidy(config.backend, engines'[h])
      /\ DOMAIN engines' = {Rollout} \cup Groups
      /\ engines'[Rollout].holds = engines[Rollout].holds
      /\ ~Vllm => engines'[Rollout].flag = engines[Rollout].flag
    <2>1. CASE rolloutHolds
        <3>1. engines' = engines /\ Awake(engines[Rollout])
            BY <1>0, <1>1, <2>1 DEF MemoryInv
        <3> QED
            BY <1>3, <3>1 DEF Awake
    <2>2. CASE ~rolloutHolds
        <3> DEFINE x == WakeUpOf(Rollout)
        <3>1. engines[Rollout].memory = {}
            BY <1>0, <1>3, <2>2 DEF MemoryInv, Owners
        <3>2. /\ x \in Engine /\ x.memory = Tags /\ Tidy(config.backend, x)
              /\ x.holds = engines[Rollout].holds
              /\ ~Vllm => x.flag = engines[Rollout].flag
            BY <1>0, <1>3, <3>1, Woken DEF WakeUpOf, Vllm
        <3> HIDE DEF x
        <3>3. engines' = [engines EXCEPT ![Rollout] = x]
            BY <1>1, <2>2 DEF x
        <3>4. /\ engines' \in [{Rollout} \cup Groups -> Engine] /\ engines'[Rollout] = x
              /\ \A h \in {Rollout} \cup Groups : h # Rollout => engines'[h] = engines[h]
              /\ DOMAIN engines' = {Rollout} \cup Groups
            BY <1>1, <3>2, <3>3, EnginesByGroup
        <3> QED
            BY <1>0, <1>3, <3>2, <3>4
    <2> QED
        BY <2>1, <2>2
<1>5. Ready' = Ready
    BY <1>1, <1>4 DEF Ready
<1>6. TypeInv' /\ SocketInv'
    <2>1. UNCHANGED <<inbox, replies, reqAwaits, repOwes>>
        BY <1>1 DEF transferVars, socketVars
    <2>2. SocketInv'
        BY <2>1, SocketsStay
    <2> QED
        BY <1>1, <1>4, <2>1, <2>2 DEF TypeInv
<1>7. PlaceInv'
    BY <1>0, <1>1, <1>2 DEF PlaceInv
<1>8. DecodeInv'
    <2> SUFFICES ASSUME halfWritten' = FALSE PROVE DecodeInv'
        BY DEF DecodeInv
    <2>1. halfWritten = FALSE /\ decode = Decoded(Rollout)
        BY <1>0, <1>1 DEF DecodeInv, Decoding
    <2>2. CASE Kind # "soft"
        BY <1>1, <1>2, <2>1, <2>2 DEF DecodeInv, Decoding
    <2>3. CASE Kind = "soft"
        <3>1. decode' = Decoded(variant) /\ restore' = {KnobsOf(Rollout)}
            BY <1>1, <2>1, <2>3, ReconfiguredWholly, FirstEngine
        <3> QED
            BY <1>1, <1>2, <2>3, <3>1 DEF DecodeInv, Decoding
    <2> QED
        BY <2>2, <2>3
<1>9. ValidationInv'
    BY <1>0, <1>1, <1>2 DEF ValidationInv, InValidation
<1>10. MemoryInv'
    <2>1. Owners' = {Rollout}
        BY <1>0, <1>1, <1>2 DEF Owners
    <2>2. \A h \in DOMAIN engines' : engines'[h].memory # {} => h \in Owners'
        BY <1>4, <2>1
    <2> QED
        BY <1>0, <1>1, <1>2, <1>4, <2>2 DEF MemoryInv, Awake
<1>11. PolicyInv' /\ AwayInv'
    BY <1>0, <1>1, <1>2 DEF PolicyInv, AwayInv
<1>12. HoldsInv'
    <2>1. Ready => engines[Rollout].holds = version
        BY <1>0 DEF HoldsInv
    <2>2. Ready \/ SleptBefore
        <3>1. CASE rolloutHolds
            BY <3>1, <1>0 DEF HoldsInv
        <3>2. CASE ~rolloutHolds
            <4>1. ~stale /\ \E j \in 1..(variant - 1) : config.variants[j] = "group"
                BY <3>2, <1>0 DEF ValidationInv, InValidation
            <4> QED
                BY <4>1 DEF Ready, SleptBefore
        <3> QED
            BY <3>1, <3>2
    <2> QED
        BY <1>0, <1>1, <1>2, <1>4, <1>5, <2>1, <2>2 DEF HoldsInv, SleptBefore
<1> QED
    BY <1>2, <1>6, <1>7, <1>8, <1>9, <1>10, <1>11, <1>12

LEMMA ValPassDriver == ASSUME DriverInv, ValPass PROVE DriverInv'
<1> USE DEF DriverInv
<1>1. /\ pc = "val_pass" /\ pc' = "end_variant"
      /\ UNCHANGED <<transferVars, config, engines, decode, restore, halfWritten, policy, teacher, version, stale,
                     variant, rolloutHolds, slept, torn>>
      /\ UNCHANGED <<Groups, Vllm, Kind, UsesRollout, Ready>>
    BY DEF ValPass, Groups, Vllm, Kind, UsesRollout, Ready, decodeVars
<1>2. /\ pc \in Decoding /\ pc' \in Decoding /\ pc' \notin Refitting /\ pc' \notin Outside
      /\ pc \notin Refitting /\ pc # "variant" /\ pc # "prepare_group"
      /\ pc' # "variant" /\ pc' # "prepare_group" /\ pc' # "val_pass" /\ pc' # "transfer"
      /\ pc' # "refit_kv" /\ pc' # "rollout" /\ pc' # "failed"
      /\ pc' \notin {"start", "train", "validate"}
    BY <1>1 DEF Refitting, Outside, Decoding
<1>3. UNCHANGED <<inbox, replies, reqAwaits, repOwes>>
    BY <1>1 DEF transferVars, socketVars
<1>4. TypeInv' /\ SocketInv'
    BY <1>1, <1>2, <1>3, SocketsStay DEF TypeInv
<1>5. PlaceInv' /\ DecodeInv'
    BY <1>1, <1>2 DEF PlaceInv, DecodeInv
<1>6. ValidationInv'
    BY <1>1, <1>2 DEF ValidationInv, InValidation
<1>7. Owners' = Owners
    BY <1>1, <1>2 DEF Owners
<1>8. MemoryInv'
    BY <1>1, <1>2, <1>7 DEF MemoryInv
<1>9. PolicyInv' /\ AwayInv'
    BY <1>1, <1>2 DEF PolicyInv, AwayInv
<1>10. HoldsInv'
    BY <1>1, <1>2 DEF HoldsInv, SleptBefore
<1> QED
    BY <1>2, <1>4, <1>5, <1>6, <1>8, <1>9, <1>10

LEMMA EndVariantDriver == ASSUME DriverInv, EndVariant PROVE DriverInv'
<1> USE DEF DriverInv
<1>0. /\ pc = "end_variant" /\ pc \in Decoding /\ Sane /\ Rollout = 0 /\ Rollout \notin Groups
      /\ variant \in DOMAIN config.variants /\ (rolloutHolds <=> Kind # "group")
      /\ Kind = "group" => variant \in Groups
      /\ DOMAIN config.variants = 1..Len(config.variants) /\ Len(config.variants) \in Nat
      /\ pc \notin Refitting /\ pc # "variant" /\ pc # "prepare_group"
    BY SaneConfig, ConfigFacts DEF EndVariant, PlaceInv, Kind, Refitting, Decoding
<1>1. /\ restore' = {}
      /\ halfWritten' \in BOOLEAN
      /\ halfWritten' = FALSE =>
           /\ halfWritten = FALSE
           /\ restore = {} => decode' = decode
           /\ restore # {} =>
                decode' = Reconfigured(CHOOSE knobs \in restore : TRUE, Wholly)
      /\ engines' = IF Kind = "group" THEN [engines EXCEPT ![variant] = SleepOf(variant)] ELSE engines
      /\ \/ pc' = "failed" /\ UNCHANGED variant
         \/ pc' = "variant" /\ variant' = variant + 1
      /\ UNCHANGED <<transferVars, config, policy, teacher, version, stale, rolloutHolds, slept, torn>>
      /\ UNCHANGED <<Groups, Vllm, UsesRollout>>
    BY DEF EndVariant, TypeInv, AfterVariant, RestoreDecode, RestoreFails, Groups, Vllm, UsesRollout
<1>2. /\ pc' \notin Refitting /\ pc' \notin Outside /\ pc' \notin Decoding /\ pc' # "transfer"
      /\ pc' # "refit_kv" /\ pc' # "rollout" /\ pc' # "prepare_group" /\ pc' # "val_pass"
      /\ pc' \notin {"start", "train", "validate"}
    BY <1>1 DEF Refitting, Outside, Decoding
<1>3. /\ engines \in [{Rollout} \cup Groups -> Engine]
      /\ \A h \in {Rollout} \cup Groups : Tidy(config.backend, engines[h])
    BY DEF TypeInv, MemoryInv
<1>4. /\ engines' \in [{Rollout} \cup Groups -> Engine]
      /\ engines'[Rollout] = engines[Rollout]
      /\ \A h \in {Rollout} \cup Groups : Tidy(config.backend, engines'[h])
      /\ \A h \in Groups : engines'[h].memory = {}
      /\ Kind = "group" => engines[Rollout].memory = {}
      /\ DOMAIN engines' = {Rollout} \cup Groups
    <2>1. CASE Kind = "group"
        <3> DEFINE x == SleepOf(variant)
        <3>1. x \in Engine /\ x.memory = {} /\ x.flag = TRUE
            BY <1>0, <1>3, <2>1, Slept DEF SleepOf
        <3> HIDE DEF x
        <3>2. Tidy(config.backend, x)
            BY <3>1 DEF Tidy
        <3>3. engines' = [engines EXCEPT ![variant] = x]
            BY <1>1, <2>1 DEF x
        <3>4. /\ engines' \in [{Rollout} \cup Groups -> Engine] /\ engines'[variant] = x
              /\ \A h \in {Rollout} \cup Groups : h # variant => engines'[h] = engines[h]
              /\ DOMAIN engines' = {Rollout} \cup Groups
            BY <1>0, <1>1, <2>1, <3>1, <3>3, EnginesByGroup
        <3>5. \A h \in {Rollout} \cup Groups : h # variant => engines[h].memory = {}
            BY <1>0, <1>3, <2>1 DEF MemoryInv, Owners
        <3> QED
            BY <1>0, <1>3, <2>1, <3>1, <3>2, <3>4, <3>5
    <2>2. CASE Kind # "group"
        <3>1. \A h \in Groups : engines[h].memory = {}
            BY <1>0, <1>3, <2>2 DEF MemoryInv, Owners
        <3> QED
            BY <1>1, <1>3, <2>2, <3>1
    <2> QED
        BY <2>1, <2>2
<1>5. Ready' = Ready
    BY <1>1, <1>4 DEF Ready
<1>6. TypeInv' /\ SocketInv'
    <2>1. UNCHANGED <<inbox, replies, reqAwaits, repOwes>>
        BY <1>1 DEF transferVars, socketVars
    <2>2. SocketInv' /\ variant' \in Nat
        BY <1>1, <2>1, SocketsStay DEF TypeInv
    <2> QED
        BY <1>1, <1>4, <2>1, <2>2 DEF TypeInv
<1>7. PlaceInv' /\ DecodeInv'
    <2>1. pc' = "variant" => variant' \in 1..(Len(config.variants) + 1)
        BY <1>0, <1>1
    <2>2. halfWritten' = FALSE => decode' = Decoded(Rollout)
        <3> SUFFICES ASSUME halfWritten' = FALSE PROVE decode' = Decoded(Rollout)
            OBVIOUS
        <3>1. CASE restore = {}
            BY <1>0, <1>1, <3>1 DEF DecodeInv
        <3>2. CASE restore # {}
            <4>1. restore = {KnobsOf(Rollout)}
                BY <1>1, <3>2 DEF DecodeInv
            <4>2. (CHOOSE knobs \in restore : TRUE) = KnobsOf(Rollout)
                BY <4>1
            <4> QED
                BY <1>1, <3>2, <4>2, ReconfiguredWholly
        <3> QED
            BY <3>1, <3>2
    <2> QED
        BY <1>1, <1>2, <2>1, <2>2 DEF PlaceInv, DecodeInv
<1>8. ValidationInv'
    <2>1. ASSUME pc' = "variant", UsesRollout, ~rolloutHolds
          PROVE  \E j \in 1..(variant' - 1) : config.variants[j] = "group"
        <3>1. variant \in 1..(variant' - 1) /\ config.variants[variant] = "group"
            BY <1>0, <1>1, <2>1 DEF Kind
        <3> QED
            BY <3>1
    <2> QED
        BY <1>0, <1>1, <1>2, <2>1 DEF ValidationInv, InValidation
<1>9. MemoryInv'
    <2>1. \A h \in DOMAIN engines' : engines'[h].memory # {} => h \in Owners'
        BY <1>0, <1>1, <1>2, <1>4 DEF Owners
    <2>2. rolloutHolds' => Awake(engines'[Rollout])
        BY <1>0, <1>1, <1>4 DEF MemoryInv
    <2> QED
        BY <1>1, <1>2, <1>4, <2>1, <2>2 DEF MemoryInv
<1>10. PolicyInv' /\ AwayInv'
    BY <1>0, <1>1, <1>2 DEF PolicyInv, AwayInv
<1>11. HoldsInv'
    <2>1. Ready /\ pc' = "variant" => engines[Rollout].holds = version
        BY <1>0 DEF HoldsInv
    <2>2. ASSUME rolloutHolds, pc' = "variant", SleptBefore
          PROVE  SleptBefore'
        <3>1. ~Vllm'
            BY <1>1, <2>2 DEF SleptBefore
        <3>2. PICK j \in 1..(variant - 1) : config.variants[j] = "group"
            BY <2>2 DEF SleptBefore
        <3>3. j \in 1..(variant' - 1) /\ config'.variants[j] = "group"
            BY <1>0, <1>1, <2>2, <3>2
        <3> QED
            BY <3>1, <3>3 DEF SleptBefore
    <2>3. rolloutHolds /\ pc' = "variant" => Ready \/ SleptBefore'
        BY <1>0, <2>2 DEF HoldsInv
    <2> QED
        BY <1>1, <1>2, <1>4, <1>5, <2>1, <2>3 DEF HoldsInv
<1> QED
    BY <1>2, <1>6, <1>7, <1>8, <1>9, <1>10, <1>11

LEMMA FinishValidationDriver == ASSUME DriverInv, FinishValidation PROVE DriverInv'
<1> USE DEF DriverInv
<1>0. /\ pc = "variant" /\ Sane /\ Rollout = 0 /\ Rollout \notin Groups
      /\ UsesRollout \/ Groups # {}
      /\ pc \notin Refitting /\ pc \notin Decoding /\ pc # "transfer" /\ pc # "failed"
      /\ pc # "prepare_group" /\ pc \in Decoding \cup {"variant"}
      /\ InValidation
    BY SaneConfig, ConfigFacts DEF FinishValidation, Refitting, Decoding, InValidation
<1> DEFINE e == IF rolloutHolds THEN engines[Rollout] ELSE WakeUpOf(Rollout)
           x == IF UsesRollout THEN FinishGeneration(config.backend, config.colocated, e)
                ELSE IF slept THEN WakeUpOf(Rollout) ELSE engines[Rollout]
<1>1. /\ pc' \in {"step", "checkpoint"} /\ rolloutHolds' = FALSE /\ slept' = FALSE /\ torn' = FALSE
      /\ variant' = 0
      /\ engines' = [engines EXCEPT ![Rollout] = x]
      /\ policy' = IF Groups = {} THEN policy ELSE LpInference(policy)
      /\ UNCHANGED <<transferVars, config, decode, restore, halfWritten, teacher, version, stale>>
      /\ UNCHANGED <<Groups, Vllm, UsesRollout>>
    <2>1. engines' = [engines EXCEPT ![Rollout] = x]
        BY <1>0 DEF FinishValidation, TypeInv
    <2> HIDE DEF e, x
    <2> QED
        BY <2>1 DEF FinishValidation, Groups, Vllm, UsesRollout, decodeVars
<1>2. /\ engines \in [{Rollout} \cup Groups -> Engine]
      /\ \A h \in {Rollout} \cup Groups : Tidy(config.backend, engines[h])
      /\ \A h \in Groups : engines[h].memory = {}
      /\ ~rolloutHolds => engines[Rollout].memory = {}
      /\ rolloutHolds => engines[Rollout].memory = Tags
      /\ rolloutHolds \in BOOLEAN
    BY <1>0 DEF TypeInv, MemoryInv, Owners, Awake
<1>3. /\ e \in Engine /\ e.memory = Tags /\ Tidy(config.backend, e)
      /\ e.holds = engines[Rollout].holds
    <2>1. CASE rolloutHolds
        BY <1>2, <2>1
    <2>2. CASE ~rolloutHolds
        BY <1>0, <1>2, <2>2, Woken DEF WakeUpOf
    <2> QED
        BY <2>1, <2>2
<1>4. /\ x \in Engine /\ Tidy(config.backend, x)
      /\ x.memory = IF config.colocated THEN {} ELSE Tags
      /\ Vllm => x.holds = engines[Rollout].holds
      /\ ~Vllm => x.flag = TRUE \/ x = engines[Rollout]
    <2>1. CASE UsesRollout
        <3>1. x = FinishGeneration(config.backend, config.colocated, e)
            BY <2>1
        <3> HIDE DEF e, x
        <3>2. /\ x \in Engine /\ Tidy(config.backend, x)
              /\ config.colocated => x.memory = {} /\ x.flag = TRUE
              /\ ~config.colocated => x = e
              /\ config.backend = "vllm" => x.holds = e.holds
            <4>1. e \in Engine /\ Tidy(config.backend, e) /\ Sane
                BY <1>0, <1>3
            <4> QED
                BY <4>1, <3>1, Finished
        <3> QED
            BY <1>0, <1>3, <3>2 DEF Sane, Vllm, Backends
    <2>2. CASE ~UsesRollout /\ config.colocated
        <3>1. x = engines[Rollout] /\ ~rolloutHolds
            BY <1>0, <2>2 DEF ValidationInv
        <3> HIDE DEF e, x
        <3> QED
            BY <1>2, <2>2, <3>1
    <2>3. CASE ~UsesRollout /\ ~config.colocated
        <3>1. x = WakeUpOf(Rollout) /\ ~rolloutHolds
            BY <1>0, <2>3 DEF ValidationInv
        <3> HIDE DEF e, x
        <3>2. /\ x \in Engine /\ x.memory = Tags /\ Tidy(config.backend, x)
              /\ x.holds = engines[Rollout].holds
            BY <1>0, <1>2, <3>1, Woken DEF WakeUpOf
        <3> QED
            BY <1>0, <2>3, <3>2 DEF Sane, Backends, Vllm
    <2> QED
        BY <2>1, <2>2, <2>3, <1>0 DEF Sane
<1> HIDE DEF e, x
<1>5. /\ engines' \in [{Rollout} \cup Groups -> Engine] /\ engines'[Rollout] = x
      /\ \A h \in {Rollout} \cup Groups : h # Rollout => engines'[h] = engines[h]
      /\ DOMAIN engines' = {Rollout} \cup Groups
    BY <1>1, <1>4, EnginesByGroup
<1>6. /\ pc' \in Outside /\ pc' \notin Refitting /\ pc' \notin Decoding /\ pc' # "transfer"
      /\ pc' # "refit_kv" /\ pc' # "variant" /\ pc' # "prepare_group" /\ pc' # "val_pass"
      /\ pc' \notin Decoding \cup {"variant"} /\ pc' # "failed" /\ pc' # "rollout"
      /\ pc' \notin {"start", "train", "validate"}
    BY <1>1 DEF Refitting, Outside, Decoding
<1>7. /\ policy' \in SUBSET PolicyParts
      /\ ~config.colocated => "params" \in policy'
      /\ stale => "params" \in policy'
    <2>1. CASE Groups = {}
        BY <1>0, <1>1, <2>1 DEF TypeInv, PolicyInv, ValidationInv
    <2>2. CASE Groups # {}
        BY <1>1, <2>2, LpOnDevice DEF LpInference, TypeInv
    <2> QED
        BY <2>1, <2>2
<1>8. TypeInv' /\ SocketInv'
    <2>1. UNCHANGED <<inbox, replies, reqAwaits, repOwes>>
        BY <1>1 DEF transferVars, socketVars
    <2>2. SocketInv'
        BY <2>1, SocketsStay
    <2> QED
        BY <1>1, <1>5, <1>6, <1>7, <2>1, <2>2 DEF TypeInv
<1>9. PlaceInv' /\ ValidationInv' /\ DecodeInv'
    BY <1>0, <1>1, <1>6 DEF PlaceInv, ValidationInv, InValidation, DecodeInv, Decoding
<1>10. MemoryInv'
    <2>1. Owners' = {Rollout}
        BY <1>6 DEF Owners
    <2>2. \A h \in DOMAIN engines' : engines'[h].memory # {} => h \in Owners'
        BY <1>2, <1>5, <2>1
    <2>3. \A h \in DOMAIN engines' : Tidy(config.backend, engines'[h])
        BY <1>2, <1>4, <1>5
    <2> QED
        BY <1>1, <1>4, <1>5, <1>6, <2>2, <2>3 DEF MemoryInv
<1>11. PolicyInv' /\ AwayInv'
    BY <1>1, <1>6, <1>7 DEF PolicyInv, AwayInv
<1>12. HoldsInv'
    <2>1. Ready => engines[Rollout].holds = version
        BY <1>0 DEF HoldsInv
    <2>2. Ready' => Ready /\ engines'[Rollout].holds = engines[Rollout].holds
        BY <1>1, <1>4, <1>5 DEF Ready
    <2> QED
        BY <1>1, <1>6, <2>1, <2>2 DEF HoldsInv
<1> QED
    BY <1>6, <1>8, <1>9, <1>10, <1>11, <1>12

\* The driver's place says, after any history of refits, validations and failures, which
\* engine group has memory, where the policy is, and which weights the engines hold.
THEOREM DriverInvariant == Spec => []DriverInv
<1>1. Init => DriverInv
    BY InitDriver
<1>2. DriverInv /\ [Next]_vars => DriverInv'
    BY QuietSteps, TransferDriver, StutterDriver, EndRefitDriver, WakeKvDriver, RefitFailsDriver,
       PrepareRolloutDriver, FinishRolloutDriver, PrepareValidationDriver, HandOverDriver,
       PrepareValGenerationDriver, TakeBackDriver, ValPassDriver, EndVariantDriver,
       FinishValidationDriver
    DEF Next, DriverStep, Ended
<1> QED
    BY <1>1, <1>2, PTL DEF Spec

-----------------------------------------------------------------------------

\* The devices have one owner: no two engine groups hold memory at once, and in
\* grpo nothing of the policy is beside a colocated engine's KV cache.
THEOREM OneOwnerAlways == Spec => []DeviceHasOneOwner
<1>1. DriverInv => DeviceHasOneOwner
    <2> SUFFICES ASSUME DriverInv PROVE DeviceHasOneOwner
        OBVIOUS
    <2> USE DEF DriverInv
    <2>1. \A g \in DOMAIN engines : engines[g].memory # {} => g \in Owners
        BY DEF MemoryInv
    <2>2. \A g, h \in Owners : g = h
        BY DEF Owners
    <2>3. OneGroupOnDevice
        BY <2>1, <2>2 DEF OneGroupOnDevice
    <2>4. ASSUME config.algorithm = "grpo", config.colocated, ~torn,
                 NEW g \in DOMAIN engines, "kv_cache" \in engines[g].memory
          PROVE  policy = {} /\ teacher = {}
        <3>1. teacher = {}
            BY <2>4 DEF PolicyInv
        <3>2. g \in Owners
            BY <2>1, <2>4
        <3>3. pc # "transfer"
            <4>1. pc = "transfer" => g = group /\ engines[group].memory = {"weights"}
                BY <2>4, <3>2 DEF MemoryInv, Owners, Refitting
            <4> QED
                BY <2>4, <4>1
        <3>4. pc \notin Outside
            <4>1. pc \in Outside => g = Rollout /\ engines[Rollout].memory = {}
                BY <2>4, <3>2 DEF MemoryInv, Owners, Outside, Refitting, Decoding
            <4> QED
                BY <2>4, <4>1
        <3>5. pc = "variant" => UsesRollout
            BY <3>2 DEF Owners, Refitting, ValidationInv, InValidation
        <3>6. pc # "prepare_group"
            BY <3>2 DEF Owners, Refitting
        <3>7. pc = "failed" => g = Rollout
            BY <3>2 DEF Owners, Refitting, Decoding
        <3> QED
            BY <2>4, <3>1, <3>3, <3>4, <3>5, <3>6, <3>7 DEF TypeInv, AwayInv, Refitting
    <2> QED
        BY <2>3, <2>4 DEF DeviceHasOneOwner, KvAlone
<1> QED
    BY <1>1, DriverInvariant, PTL

\* Weights that are streamed over IPC are on the device as long as it takes.
THEOREM StreamsAreFromDevice == Spec => []StreamsFromDevice
<1>1. DriverInv => StreamsFromDevice
    BY DEF DriverInv, PolicyInv, StreamsFromDevice, Vllm
<1> QED
    BY <1>1, DriverInvariant, PTL

\* Every rollout is generated by the whole of the current weights; and decoded as
\* configured, unless a reconfiguration has raised.
THEOREM RolloutsAreOnPolicy == Spec => []RolloutsOnPolicy
<1>1. DriverInv => RolloutsOnPolicy
    <2> SUFFICES ASSUME DriverInv, pc = "rollout"
                 PROVE  /\ Awake(engines[Rollout]) /\ engines[Rollout].holds = version
                        /\ halfWritten \/ decode = Decoded(Rollout)
        BY DEF RolloutsOnPolicy
    <2>1. Ready /\ pc # "transfer" /\ pc # "failed" /\ pc \notin Decoding
        BY DEF DriverInv, HoldsInv, Decoding
    <2> QED
        BY <2>1 DEF DriverInv, HoldsInv, MemoryInv, DecodeInv, TypeInv
<1> QED
    BY <1>1, DriverInvariant, PTL

\* So is every decode of a validation, but for the weights of SGLang engines
\* that slept for a decode on engines of its own.
THEOREM ValidationsAreOnPolicy == Spec => []ValidatesOnPolicy
<1>1. DriverInv => ValidatesOnPolicy
    <2> SUFFICES ASSUME DriverInv, pc = "val_pass"
                 PROVE  /\ Awake(engines[ValEngine])
                        /\ SleptWithoutWeights \/ engines[ValEngine].holds = version
                        /\ halfWritten \/ decode = Decoded(IF Kind = "soft" THEN variant ELSE Rollout)
        BY DEF ValidatesOnPolicy
    <2> USE DEF DriverInv
    <2>1. /\ pc \in Decoding /\ pc # "transfer" /\ pc # "failed"
          /\ rolloutHolds <=> Kind # "group"
        BY DEF Decoding, PlaceInv
    <2>2. halfWritten \/ decode = Decoded(IF Kind = "soft" THEN variant ELSE Rollout)
        BY DEF DecodeInv, TypeInv
    <2>3. CASE Kind = "group"
        BY <2>2, <2>3 DEF ValEngine, MemoryInv, HoldsInv
    <2>4. CASE Kind # "group"
        <3>1. SleptBefore => SleptWithoutWeights
            BY <2>4, ConfigFacts DEF SleptBefore, SleptWithoutWeights
        <3>2. Awake(engines[Rollout]) /\ (SleptBefore \/ engines[Rollout].holds = version)
            BY <2>1, <2>4 DEF MemoryInv, HoldsInv
        <3> QED
            BY <2>2, <2>4, <3>1, <3>2 DEF ValEngine
    <2> QED
        BY <2>3, <2>4
<1> QED
    BY <1>1, DriverInvariant, PTL
=============================================================================
