--------------------------- MODULE ReliableProofs ---------------------------
(***************************************************************************)
(* The reliability layer implements a FIFO channel, and its windows never  *)
(* lock up: for every stream, every size of the windows and every          *)
(* behaviour of the network.                                               *)
(***************************************************************************)
EXTENDS Reliable, FiniteSetTheorems, TLAPS

-----------------------------------------------------------------------------
(* Arithmetic.                                                             *)

\* Ids are ordered by their distance, also across the wrap: an id comes
\* before every one that follows it by less than half the range.
THEOREM OrderAcrossWrap ==
    \A id \in PacketId, d \in 1 .. Half - 1 :
        /\ reliable_pid_min(id, Plus(id, d))
        /\ ~reliable_pid_min(Plus(id, d), id)
        /\ subtract_pid(Plus(id, d), id) = d
BY HalfAssumption DEF reliable_pid_min, reliable_pid_in_range1, subtract_pid, Plus, Minus, PacketId, Wrap

\* The ids of a key state stay where the order is the one of the numbers.
LEMMA PlainOrder ==
    \A p, q \in 0 .. Half - 1 : /\ reliable_pid_min(p, q) <=> p < q
                                /\ p >= q => subtract_pid(p, q) = p - q
BY HalfAssumption DEF reliable_pid_min, reliable_pid_in_range1, subtract_pid, Plus, Minus, Wrap

LEMMA PlainWindow ==
    \A p, q \in 0 .. Half - 1 : RecSize + q < Half =>
        (reliable_pid_in_range2(p, q, RecSize) <=> p < q + RecSize)
BY HalfAssumption, SizeAssumption DEF reliable_pid_in_range2, Plus, Wrap

-----------------------------------------------------------------------------
(* The inductive invariant.                                                *)

\* A packet with this id was written, and this is what it holds.
Written(id, buf) == id \in 0 .. send_packet_id - 1 /\ buf = Stream[id + 1]

\* The send buffer holds written packets, none further back than its size.
SendInv == /\ send_packet_id <= Len(Stream)
           /\ \A s \in 1 .. SendSize : send[s].active =>
                /\ Written(send[s].packet_id, send[s].buf)
                /\ send_packet_id <= send[s].packet_id + SendSize
           /\ \A s, t \in 1 .. SendSize :
                send[s].active /\ send[t].active /\ send[s].packet_id = send[t].packet_id => s = t

\* The receive buffer holds packets of the window that begins with the next
\* one, and everything before it was delivered.
RecInv == /\ rec_packet_id <= send_packet_id
          /\ received = SubSeq(Stream, 1, rec_packet_id)
          /\ \A s \in 1 .. RecSize : rec[s].active =>
                /\ Written(rec[s].packet_id, rec[s].buf)
                /\ rec_packet_id <= rec[s].packet_id
                /\ rec[s].packet_id < rec_packet_id + RecSize
          /\ \A s, t \in 1 .. RecSize :
                rec[s].active /\ rec[t].active /\ rec[s].packet_id = rec[t].packet_id => s = t

\* Only written packets are in flight, only packets that arrived are
\* acknowledged.
NetInv == /\ \A m \in packets : Written(m.id, m.buf)
          /\ Range(rec_ack) \subseteq Got
          /\ DOMAIN lru_acks \subseteq Got
          /\ \A r \in records : r \subseteq Got

IInv == TypeOK /\ SendInv /\ RecInv /\ NetInv /\ NothingForgotten

LEMMA InitInv == Init => IInv
<1> SUFFICES ASSUME Init PROVE IInv
    OBVIOUS
<1> USE StreamAssumption, SizeAssumption, HalfAssumption DEF Init
<1>1. TypeOK
  <2>1. 0 \in PacketId /\ 0 \in 0 .. N_ACK_RETRANSMIT
      BY DEF PacketId, Wrap
  <2>2. send \in [1 .. SendSize -> SendEntry]
      BY <2>1 DEF SendEntry
  <2>3. rec \in [1 .. RecSize -> RecEntry]
      BY <2>1 DEF RecEntry
  <2>4. hold \in BOOLEAN /\ burst \in BOOLEAN
      OBVIOUS
  <2>5. rec_ack \in Seq(PacketId) /\ Len(rec_ack) <= AckSize /\ received \in Seq(Data)
      OBVIOUS
  <2>6. packets \subseteq [id : PacketId, buf : Data] /\ records \subseteq SUBSET PacketId
      OBVIOUS
  <2>7. state \in {"S_INITIAL", "S_PRE_START", "S_START"}
      OBVIOUS
  <2>8. send_packet_id \in PacketId /\ rec_packet_id \in PacketId
      BY <2>1
  <2> HIDE DEF Init
  <2> QED BY <2>2, <2>3, <2>4, <2>5, <2>6, <2>7, <2>8 DEF TypeOK
<1>2. SendInv
    BY DEF SendInv
<1>3. RecInv
    BY DEF RecInv
<1>4. NetInv
    BY DEF NetInv, Range
<1>5. NothingForgotten
    BY DEF NothingForgotten
<1> QED BY <1>1, <1>2, <1>3, <1>4, <1>5 DEF IInv

\* What all proofs use of the ranges of ids
LEMMA Ids ==
    ASSUME IInv
    PROVE  /\ send_packet_id \in 0 .. Len(Stream) /\ rec_packet_id \in 0 .. send_packet_id
           /\ Len(Stream) \in Nat /\ Len(Stream) + SendSize + RecSize < Half
           /\ Half \in Nat /\ SendSize \in Nat \ {0} /\ RecSize \in Nat \ {0}
           /\ \A i \in 1 .. Len(Stream) : Stream[i] \in Data
           /\ Active(send) = {s \in 1 .. SendSize : send[s].active}
           /\ Active(rec) = {s \in 1 .. RecSize : rec[s].active}
BY StreamAssumption, SizeAssumption, HalfAssumption
   DEF IInv, TypeOK, SendInv, RecInv, PacketId, Wrap, Active

-----------------------------------------------------------------------------
(* The sending end.                                                        *)

\* Packets are written where none of the unacknowledged ones falls too far
\* behind.
LEMMA WriteInv ==
    ASSUME IInv, NEW k \in 1 .. SendSize, reliable_mark_active_outgoing(k),
           \A s \in 1 .. SendSize : send[s].active => send_packet_id + k <= send[s].packet_id + SendSize,
           state' \in {"S_INITIAL", "S_PRE_START", "S_START"},
           UNCHANGED <<hold, burst, receiver, packets, records>>
    PROVE  IInv'
<1>0. /\ send_packet_id \in 0 .. Len(Stream) /\ rec_packet_id \in 0 .. send_packet_id
      /\ Len(Stream) \in Nat /\ Len(Stream) + SendSize + RecSize < Half
      /\ Half \in Nat /\ SendSize \in Nat \ {0} /\ RecSize \in Nat \ {0}
      /\ \A i \in 1 .. Len(Stream) : Stream[i] \in Data
      /\ send \in [1 .. SendSize -> SendEntry]
      /\ Free(send) = {s \in 1 .. SendSize : ~send[s].active}
    BY Ids DEF IInv, TypeOK, Free
<1>1. PICK slot \in [0 .. k - 1 -> Free(send)] :
        /\ \A i, j \in 0 .. k - 1 : i < j => slot[i] < slot[j]
        /\ send' = [s \in DOMAIN send |->
                       IF s \in Range(slot)
                       THEN LET i == CHOOSE i \in 0 .. k - 1 : slot[i] = s
                            IN  [send[s] EXCEPT !.active = TRUE,
                                                !.packet_id = send_packet_id + i,
                                                !.due = TRUE,
                                                !.buf = Stream[send_packet_id + i + 1]]
                       ELSE send[s]]
    BY DEF reliable_mark_active_outgoing
<1>2. send_packet_id' = send_packet_id + k /\ send_packet_id + k <= Len(Stream)
    BY DEF reliable_mark_active_outgoing
<1>3. UNCHANGED <<hold, burst, rec, rec_packet_id, rec_ack, lru_acks, received, packets, records>>
    BY DEF receiver
<1>4. ASSUME NEW s \in 1 .. SendSize
      PROVE  \/ send'[s] = send[s]
             \/ /\ ~send[s].active
                /\ \E i \in 0 .. k - 1 :
                    /\ slot[i] = s
                    /\ send'[s] = [send[s] EXCEPT !.active = TRUE, !.packet_id = send_packet_id + i,
                                                  !.due = TRUE, !.buf = Stream[send_packet_id + i + 1]]
  <2>1. CASE s \in Range(slot)
    <3>1. PICK j \in 0 .. k - 1 : slot[j] = s
        BY <2>1 DEF Range
    <3>2. (CHOOSE i \in 0 .. k - 1 : slot[i] = s) \in 0 .. k - 1 /\ slot[CHOOSE i \in 0 .. k - 1 : slot[i] = s] = s
        BY <3>1
    <3>3. ~send[s].active
        BY <3>1, <1>0
    <3> QED BY <1>0, <1>1, <2>1, <3>2, <3>3
  <2>2. CASE s \notin Range(slot)
      BY <1>0, <1>1, <2>2
  <2> QED BY <2>1, <2>2
<1>5. ASSUME NEW i \in 0 .. k - 1
      PROVE  /\ slot[i] \in 1 .. SendSize
             /\ send'[slot[i]].active /\ send'[slot[i]].packet_id = send_packet_id + i
             /\ send'[slot[i]].buf = Stream[send_packet_id + i + 1]
  <2>1. slot[i] \in 1 .. SendSize /\ slot[i] \in Range(slot)
      BY <1>0 DEF Range
  <2>2. (CHOOSE j \in 0 .. k - 1 : slot[j] = slot[i]) = i
    <3>1. \A j \in 0 .. k - 1 : slot[j] = slot[i] => j = i
      <4> SUFFICES ASSUME NEW j \in 0 .. k - 1, slot[j] = slot[i], j # i PROVE FALSE
          OBVIOUS
      <4>1. slot[j] \in Nat /\ slot[i] \in Nat
          BY <1>0
      <4>2. i < j \/ j < i
          OBVIOUS
      <4>3. slot[i] < slot[j] \/ slot[j] < slot[i]
        <5> HIDE DEF Range
        <5> QED BY <1>1, <4>2
      <4> QED BY <4>1, <4>3
    <3> QED BY <3>1
  <2>3. send'[slot[i]] = [send[slot[i]] EXCEPT !.active = TRUE, !.packet_id = send_packet_id + i,
                            !.due = TRUE, !.buf = Stream[send_packet_id + i + 1]]
      BY <1>0, <1>1, <2>1, <2>2
  <2>4. send[slot[i]] \in SendEntry
      BY <1>0, <2>1
  <2> QED BY <2>1, <2>3, <2>4 DEF SendEntry
<1>6. DOMAIN send' = 1 .. SendSize
    BY <1>0, <1>1
<1>7. send' \in [1 .. SendSize -> SendEntry]
  <2>1. ASSUME NEW s \in 1 .. SendSize PROVE send'[s] \in SendEntry
    <3>1. send[s] \in SendEntry
        BY <1>0
    <3>2. \A i \in 0 .. k - 1 : send_packet_id + i \in PacketId /\ Stream[send_packet_id + i + 1] \in Data
        BY <1>0, <1>2 DEF PacketId, Wrap
    <3>3. ASSUME NEW i \in 0 .. k - 1
          PROVE  [send[s] EXCEPT !.active = TRUE, !.packet_id = send_packet_id + i,
                                 !.due = TRUE, !.buf = Stream[send_packet_id + i + 1]] \in SendEntry
        BY <3>1, <3>2 DEF SendEntry
    <3>4. CASE send'[s] = send[s]
        BY <3>1, <3>4
    <3>5. CASE send'[s] # send[s]
      <4>1. PICK i \in 0 .. k - 1 :
                send'[s] = [send[s] EXCEPT !.active = TRUE, !.packet_id = send_packet_id + i,
                                           !.due = TRUE, !.buf = Stream[send_packet_id + i + 1]]
          BY <1>4, <3>5
      <4> QED BY <3>3, <4>1
    <3> QED BY <3>4, <3>5
  <2> QED BY <1>0, <1>1, <2>1
<1>8. TypeOK'
  <2>1. send_packet_id' \in PacketId
      BY <1>0, <1>2 DEF PacketId, Wrap
  <2> QED BY <1>3, <1>7, <2>1 DEF IInv, TypeOK
<1>9. ASSUME NEW s \in 1 .. SendSize, send'[s].active
      PROVE  \/ send[s].active /\ send'[s] = send[s]
             \/ ~send[s].active /\ \E i \in 0 .. k - 1 : slot[i] = s
    BY <1>4, <1>9
<1>10. SendInv'
  <2>1. ASSUME NEW s \in 1 .. SendSize, send'[s].active
        PROVE  /\ Written(send[s].packet_id, send[s].buf)'
               /\ send_packet_id' <= send'[s].packet_id + SendSize
    <3>1. CASE send[s].active /\ send'[s] = send[s]
      <4>1. Written(send[s].packet_id, send[s].buf)
          BY <3>1 DEF IInv, SendInv
      <4> QED BY <1>0, <1>2, <3>1, <4>1 DEF Written
    <3>2. CASE \E i \in 0 .. k - 1 : slot[i] = s
      <4>1. PICK i \in 0 .. k - 1 : slot[i] = s
          BY <3>2
      <4>2. send'[s].packet_id = send_packet_id + i /\ send'[s].buf = Stream[send_packet_id + i + 1]
          BY <4>1, <1>5
      <4> QED BY <1>0, <1>2, <4>2 DEF Written
    <3> QED BY <1>9, <2>1, <3>1, <3>2
  <2>2. ASSUME NEW s \in 1 .. SendSize, NEW t \in 1 .. SendSize, send'[s].active, send'[t].active,
               send'[s].packet_id = send'[t].packet_id
        PROVE  s = t
    <3>1. \A u \in 1 .. SendSize : send[u].active => send[u].packet_id \in 0 .. send_packet_id - 1
        BY DEF IInv, SendInv, Written
    <3>2. CASE send[s].active /\ send'[s] = send[s]
      <4>1. CASE send[t].active /\ send'[t] = send[t]
          BY <2>2, <3>2, <4>1 DEF IInv, SendInv
      <4>2. CASE \E i \in 0 .. k - 1 : slot[i] = t
        <5>1. PICK i \in 0 .. k - 1 : slot[i] = t
            BY <4>2
        <5>2. send'[t].packet_id = send_packet_id + i
            BY <5>1, <1>5
        <5> QED BY <1>0, <2>2, <3>1, <3>2, <5>2
      <4> QED BY <1>9, <2>2, <4>1, <4>2
    <3>3. CASE \E i \in 0 .. k - 1 : slot[i] = s
      <4>1. CASE send[t].active /\ send'[t] = send[t]
        <5>1. PICK i \in 0 .. k - 1 : slot[i] = s
            BY <3>3
        <5>2. send'[s].packet_id = send_packet_id + i
            BY <5>1, <1>5
        <5> QED BY <1>0, <2>2, <3>1, <4>1, <5>2
      <4>2. CASE \E i \in 0 .. k - 1 : slot[i] = t
        <5>1. PICK i \in 0 .. k - 1 : slot[i] = s
            BY <3>3
        <5>2. PICK j \in 0 .. k - 1 : slot[j] = t
            BY <4>2
        <5>3. send_packet_id + i = send_packet_id + j
            BY <5>1, <5>2, <1>5, <2>2
        <5> QED BY <1>0, <5>1, <5>2, <5>3
      <4> QED BY <1>9, <2>2, <4>1, <4>2
    <3> QED BY <1>9, <2>2, <3>2, <3>3
  <2> QED BY <1>2, <2>1, <2>2 DEF SendInv
<1>11. \A id, buf : Written(id, buf) => Written(id, buf)'
    BY <1>0, <1>2 DEF Written
<1>12. Got \subseteq Got'
    BY <1>0, <1>2, <1>3 DEF Got, ActiveIds, Active
<1>13. RecInv'
  <2>1. rec_packet_id <= send_packet_id'
      BY <1>0, <1>2 DEF IInv, RecInv, TypeOK, PacketId, Wrap
  <2>2. ASSUME NEW s \in 1 .. RecSize, rec[s].active
        PROVE  Written(rec[s].packet_id, rec[s].buf)'
    <3>1. Written(rec[s].packet_id, rec[s].buf)
        BY <2>2 DEF IInv, RecInv
    <3>2. rec' = rec
        BY <1>3
    <3>3. 0 .. send_packet_id - 1 \subseteq 0 .. send_packet_id' - 1
        BY <1>0, <1>2
    <3> QED BY <3>1, <3>2, <3>3 DEF Written
  <2>3. rec' = rec /\ rec_packet_id' = rec_packet_id /\ received' = received
      BY <1>3
  <2>4. RecInv
      BY DEF IInv
  <2> HIDE DEF Written
  <2> QED BY <2>1, <2>2, <2>3, <2>4 DEF RecInv
<1>14. NetInv'
    BY <1>3, <1>11, <1>12 DEF IInv, NetInv, Written
<1>15. NothingForgotten'
  <2> SUFFICES ASSUME NEW id \in 0 .. send_packet_id' - 1 PROVE id \in ActiveIds(send)' \/ id \in Got'
      BY DEF NothingForgotten
  <2>1. CASE id < send_packet_id
    <3>1. id \in ActiveIds(send) \/ id \in Got
        BY <1>0, <2>1 DEF IInv, NothingForgotten
    <3>2. CASE id \in ActiveIds(send)
      <4>1. PICK s \in 1 .. SendSize : send[s].active /\ send[s].packet_id = id
          BY <3>2, <1>0 DEF ActiveIds, Active
      <4>2. send'[s] = send[s]
          BY <4>1, <1>4
      <4> QED BY <4>1, <4>2, <1>6 DEF ActiveIds, Active
    <3> QED BY <3>1, <3>2, <1>12
  <2>2. CASE id >= send_packet_id
    <3>1. id - send_packet_id \in 0 .. k - 1 /\ send_packet_id + (id - send_packet_id) = id
        BY <1>0, <1>2, <2>2
    <3>2. PICK s \in 1 .. SendSize : send'[s].active /\ send'[s].packet_id = id
        BY <3>1, <1>5
    <3> QED BY <3>2, <1>6 DEF ActiveIds, Active
  <2> QED BY <1>0, <1>2, <2>1, <2>2
<1> QED BY <1>8, <1>10, <1>13, <1>14, <1>15 DEF IInv

\* session_move_pre_start: a buffer is had only if the window allows it.
LEMMA PreStartInv == ASSUME IInv, session_move_pre_start PROVE IInv'
<1>1. \A s \in 1 .. SendSize : send[s].active => send_packet_id + 1 <= send[s].packet_id + SendSize
  <2> SUFFICES ASSUME NEW s \in 1 .. SendSize, send[s].active
               PROVE  send_packet_id + 1 <= send[s].packet_id + SendSize
      OBVIOUS
  <2>1. subtract_pid(send_packet_id, send[s].packet_id) < SendSize
      BY Ids DEF session_move_pre_start, reliable_can_get_output, reliable_pid_in_range1
  <2>2. send[s].packet_id \in 0 .. send_packet_id - 1
      BY DEF IInv, SendInv, Written
  <2>3. send_packet_id \in 0 .. Half - 1 /\ send[s].packet_id \in 0 .. Half - 1
      BY <2>2, Ids
  <2>4. subtract_pid(send_packet_id, send[s].packet_id) = send_packet_id - send[s].packet_id
      BY <2>2, <2>3, PlainOrder
  <2> QED BY <2>1, <2>2, <2>4, Ids
<1>2. 1 \in 1 .. SendSize
    BY SizeAssumption
<1> QED BY <1>1, <1>2, WriteInv DEF session_move_pre_start

\* write_outgoing_tls_ciphertext: a record needs no more than was found free.
LEMMA RecordInv ==
    ASSUME IInv, NEW k \in 1 .. RecordPackets, write_outgoing_tls_ciphertext(k) PROVE IInv'
<1>0. RecordPackets \in 1 .. SendSize
    BY SizeAssumption
<1>1. \A s \in 1 .. SendSize : send[s].active => send_packet_id + k <= send[s].packet_id + SendSize
  <2> SUFFICES ASSUME NEW s \in 1 .. SendSize, send[s].active
               PROVE  send_packet_id + k <= send[s].packet_id + SendSize
      OBVIOUS
  <2>1. RecordPackets <= SendSize - subtract_pid(send_packet_id, send[s].packet_id)
      BY Ids DEF write_outgoing_tls_ciphertext, reliable_get_num_output_sequenced_available
  <2>2. send[s].packet_id \in 0 .. send_packet_id - 1
      BY DEF IInv, SendInv, Written
  <2>3. send_packet_id \in 0 .. Half - 1 /\ send[s].packet_id \in 0 .. Half - 1
      BY <2>2, Ids
  <2>4. subtract_pid(send_packet_id, send[s].packet_id) = send_packet_id - send[s].packet_id
      BY <2>2, <2>3, PlainOrder
  <2>5. k \in Nat /\ RecordPackets \in Nat /\ k <= RecordPackets
      BY SizeAssumption
  <2>6. send_packet_id \in Int /\ send[s].packet_id \in Int /\ SendSize \in Int
      BY <2>3, SizeAssumption
  <2>7. k <= SendSize - (send_packet_id - send[s].packet_id)
    <3>1. RecordPackets <= SendSize - (send_packet_id - send[s].packet_id)
        BY <2>1, <2>4
    <3> QED BY <2>5, <2>6, <3>1
  <2> QED BY <2>5, <2>6, <2>7
<1>2. k \in 1 .. SendSize
    BY <1>0, SizeAssumption
<1>3. state' \in {"S_INITIAL", "S_PRE_START", "S_START"}
    BY DEF write_outgoing_tls_ciphertext, IInv, TypeOK
<1> QED BY <1>1, <1>2, <1>3, WriteInv DEF write_outgoing_tls_ciphertext

\* Steps of the sending end that only free entries of its buffer, or change
\* when they are due
LEMMA SendFieldsInv ==
    ASSUME IInv, state' \in {"S_INITIAL", "S_PRE_START", "S_START"},
           hold' \in BOOLEAN, burst' \in BOOLEAN,
           send' \in [1 .. SendSize -> SendEntry],
           \A s \in 1 .. SendSize : /\ send'[s].packet_id = send[s].packet_id
                                    /\ send'[s].buf = send[s].buf
                                    /\ send'[s].active => send[s].active
                                    /\ send[s].active /\ ~send'[s].active => send[s].packet_id \in Got,
           packets' \subseteq [id : PacketId, buf : Data], \A m \in packets' : Written(m.id, m.buf),
           records' \subseteq records,
           UNCHANGED <<send_packet_id, receiver>>
    PROVE  IInv'
<1>1. UNCHANGED <<send_packet_id, rec, rec_packet_id, rec_ack, lru_acks, received>>
    BY DEF receiver
<1>2. TypeOK'
    BY <1>1 DEF IInv, TypeOK
<1>3. SendInv'
    BY <1>1 DEF IInv, SendInv, Written
<1>4. Got' = Got
    BY <1>1 DEF Got, ActiveIds, Active
<1>5. RecInv'
    BY <1>1 DEF IInv, RecInv, Written
<1>6. NetInv'
    BY <1>1, <1>4 DEF IInv, NetInv, Written
<1>7. NothingForgotten'
  <2> SUFFICES ASSUME NEW id \in 0 .. send_packet_id - 1, id \notin Got PROVE id \in ActiveIds(send)'
      BY <1>1, <1>4 DEF NothingForgotten
  <2>1. PICK s \in 1 .. SendSize : send[s].active /\ send[s].packet_id = id
      BY Ids DEF IInv, NothingForgotten, ActiveIds
  <2>2. send'[s].active /\ send'[s].packet_id = id
      BY <2>1
  <2> QED BY <2>2 DEF ActiveIds, Active
<1> QED BY <1>2, <1>3, <1>5, <1>6, <1>7 DEF IInv

LEMMA StartInv == ASSUME IInv, Start PROVE IInv'
<1>1. /\ hold' \in BOOLEAN /\ burst' \in BOOLEAN /\ send' \in [1 .. SendSize -> SendEntry]
      /\ packets' \subseteq [id : PacketId, buf : Data] /\ \A m \in packets' : Written(m.id, m.buf)
    BY DEF IInv, TypeOK, NetInv, Start
<1>2. send' = send /\ state' = "S_START" /\ records' \subseteq records /\ UNCHANGED <<send_packet_id, receiver>>
    BY DEF Start
<1> QED BY <1>1, <1>2, SendFieldsInv

\* What is transmitted is in flight with some of what was.
LEMMA TransmitOne ==
    ASSUME NEW net, NEW m, NEW max, NEW net1 \in Transmit(net, m, max)
    PROVE  net1 \subseteq net \cup {m}
BY DEF Transmit

LEMMA ReliableSendInv == ASSUME IInv, reliable_send PROVE IInv'
<1>1. PICK best \in Due :
        /\ send' = [send EXCEPT ![best].due = FALSE, ![best].n_acks = 0]
        /\ packets' \in Transmit(packets, [id |-> send[best].packet_id, buf |-> send[best].buf], MaxPackets)
    BY DEF reliable_send
<1>2. best \in 1 .. SendSize /\ send[best].active
    BY Ids DEF Due
<1>3. send \in [1 .. SendSize -> SendEntry] /\ 0 \in 0 .. N_ACK_RETRANSMIT
    BY SizeAssumption DEF IInv, TypeOK
<1>4. send' \in [1 .. SendSize -> SendEntry]
    BY <1>1, <1>2, <1>3 DEF SendEntry
<1>5. \A s \in 1 .. SendSize : /\ send'[s].packet_id = send[s].packet_id /\ send'[s].buf = send[s].buf
                               /\ send'[s].active = send[s].active
    BY <1>1, <1>2, <1>3 DEF SendEntry
<1>6. Written(send[best].packet_id, send[best].buf)
    BY <1>2 DEF IInv, SendInv
<1>7. packets' \subseteq packets \cup {[id |-> send[best].packet_id, buf |-> send[best].buf]}
    BY <1>1, TransmitOne
<1>8. send[best].packet_id \in PacketId /\ send[best].buf \in Data
  <2>1. send[best].packet_id \in PacketId
      BY <1>2, <1>3 DEF SendEntry
  <2>2. send[best].packet_id + 1 \in 1 .. Len(Stream)
      BY <1>6, Ids DEF Written
  <2>3. send[best].buf = Stream[send[best].packet_id + 1]
      BY <1>6 DEF Written
  <2> QED BY <2>1, <2>2, <2>3, Ids
<1>9. packets' \subseteq [id : PacketId, buf : Data] /\ \A m \in packets' : Written(m.id, m.buf)
    BY <1>6, <1>7, <1>8 DEF IInv, TypeOK, NetInv
<1>10. /\ hold' \in BOOLEAN /\ burst' \in BOOLEAN /\ state' \in {"S_INITIAL", "S_PRE_START", "S_START"}
       /\ records' \subseteq records /\ UNCHANGED <<send_packet_id, receiver>>
    BY DEF IInv, TypeOK, reliable_send
<1> QED BY <1>4, <1>5, <1>9, <1>10, SendFieldsInv

LEMMA ElapseInv == ASSUME IInv, NEW s \in DOMAIN send, Elapse(s) PROVE IInv'
<1>1. send \in [1 .. SendSize -> SendEntry] /\ s \in 1 .. SendSize
    BY DEF IInv, TypeOK
<1>2. send' = [send EXCEPT ![s].due = TRUE]
    BY DEF Elapse
<1>3. send' \in [1 .. SendSize -> SendEntry]
    BY <1>1, <1>2 DEF SendEntry
<1>4. \A t \in 1 .. SendSize : /\ send'[t].packet_id = send[t].packet_id /\ send'[t].buf = send[t].buf
                               /\ send'[t].active = send[t].active
    BY <1>1, <1>2 DEF SendEntry
<1>5. /\ hold' \in BOOLEAN /\ burst' \in BOOLEAN /\ state' \in {"S_INITIAL", "S_PRE_START", "S_START"}
      /\ records' \subseteq records /\ UNCHANGED <<send_packet_id, receiver>>
      /\ packets' \subseteq [id : PacketId, buf : Data] /\ \A m \in packets' : Written(m.id, m.buf)
    BY DEF IInv, TypeOK, NetInv, Elapse
<1> QED BY <1>3, <1>4, <1>5, SendFieldsInv

\* reliable_schedule_now changes when entries are due and nothing else.
LEMMA ScheduleNow ==
    ASSUME NEW array \in [1 .. SendSize -> SendEntry]
    PROVE  /\ reliable_schedule_now(array) \in [1 .. SendSize -> SendEntry]
           /\ \A s \in 1 .. SendSize :
                /\ reliable_schedule_now(array)[s].packet_id = array[s].packet_id
                /\ reliable_schedule_now(array)[s].buf = array[s].buf
                /\ reliable_schedule_now(array)[s].active = array[s].active
BY DEF reliable_schedule_now, SendEntry

\* reliable_send_purge frees the entries whose ids are acknowledged.
LEMMA SendPurge ==
    ASSUME NEW array \in [1 .. SendSize -> SendEntry], NEW r \in SUBSET PacketId, IsFiniteSet(r)
    PROVE  /\ reliable_send_purge(array, r) \in [1 .. SendSize -> SendEntry]
           /\ \A s \in 1 .. SendSize :
                /\ reliable_send_purge(array, r)[s].packet_id = array[s].packet_id
                /\ reliable_send_purge(array, r)[s].buf = array[s].buf
                /\ reliable_send_purge(array, r)[s].active = (array[s].active /\ array[s].packet_id \notin r)
<1> DEFINE Later(s) == array[s].n_acks + Cardinality({pid \in r : array[s].packet_id < pid})
           Count(s) == IF Later(s) < N_ACK_RETRANSMIT THEN Later(s) ELSE N_ACK_RETRANSMIT
           New(s) == IF ~array[s].active THEN array[s]
                     ELSE IF array[s].packet_id \in r THEN [array[s] EXCEPT !.active = FALSE]
                     ELSE [array[s] EXCEPT !.n_acks = Count(s)]
<1>1. reliable_send_purge(array, r) = [s \in 1 .. SendSize |-> New(s)]
    BY DEF reliable_send_purge
<1>2. ASSUME NEW s \in 1 .. SendSize
      PROVE  /\ New(s) \in SendEntry /\ New(s).packet_id = array[s].packet_id /\ New(s).buf = array[s].buf
             /\ New(s).active = (array[s].active /\ array[s].packet_id \notin r)
  <2>1. array[s] \in SendEntry
      OBVIOUS
  <2>2. Cardinality({pid \in r : array[s].packet_id < pid}) \in Nat
    <3>1. {pid \in r : array[s].packet_id < pid} \in SUBSET r
        OBVIOUS
    <3>2. IsFiniteSet({pid \in r : array[s].packet_id < pid})
        BY <3>1, FS_Subset
    <3> QED BY <3>2, FS_CardinalityType
  <2>3. array[s].n_acks \in Nat
      BY <2>1, SizeAssumption DEF SendEntry
  <2>4. Later(s) \in Nat
      BY <2>2, <2>3
  <2>5. Count(s) \in 0 .. N_ACK_RETRANSMIT
    <3> HIDE DEF Later
    <3> QED BY <2>4, SizeAssumption
  <2> HIDE DEF Count
  <2> QED BY <2>1, <2>5 DEF SendEntry
<1> HIDE DEF New
<1> QED BY <1>1, <1>2

LEMMA ReceiveRecordInv ==
    ASSUME IInv, NEW r \in records, NEW do_burst \in BOOLEAN, NEW again \in BOOLEAN,
           ReceiveRecord(r, do_burst, again)
    PROVE  IInv'
<1> DEFINE now == do_burst /\ ~burst
           array == IF now THEN reliable_schedule_now(send) ELSE send
<1>1. send \in [1 .. SendSize -> SendEntry] /\ r \in SUBSET PacketId /\ r \subseteq Got
    BY DEF IInv, TypeOK, NetInv
<1>2. IsFiniteSet(r)
  <2>1. IsFiniteSet(0 .. send_packet_id - 1)
      BY Ids, FS_Interval
  <2>2. r \in SUBSET (0 .. send_packet_id - 1)
      BY <1>1 DEF Got
  <2> QED BY <2>1, <2>2, FS_Subset
<1>3. /\ array \in [1 .. SendSize -> SendEntry]
      /\ \A s \in 1 .. SendSize : /\ array[s].packet_id = send[s].packet_id /\ array[s].buf = send[s].buf
                                   /\ array[s].active = send[s].active
    BY <1>1, ScheduleNow
<1>4. send' = reliable_send_purge(array, r)
    BY DEF ReceiveRecord
<1> HIDE DEF array
<1>5. /\ send' \in [1 .. SendSize -> SendEntry]
      /\ \A s \in 1 .. SendSize : /\ send'[s].packet_id = array[s].packet_id /\ send'[s].buf = array[s].buf
                                   /\ send'[s].active = (array[s].active /\ array[s].packet_id \notin r)
    BY <1>1, <1>2, <1>3, <1>4, SendPurge
<1>6. \A s \in 1 .. SendSize : /\ send'[s].packet_id = send[s].packet_id /\ send'[s].buf = send[s].buf
                               /\ send'[s].active => send[s].active
                               /\ send[s].active /\ ~send'[s].active => send[s].packet_id \in Got
    BY <1>1, <1>3, <1>5
<1>7. hold' \in BOOLEAN /\ burst' \in BOOLEAN /\ state' \in {"S_INITIAL", "S_PRE_START", "S_START"}
    BY DEF IInv, TypeOK, ReceiveRecord
<1>8. /\ records' \subseteq records /\ UNCHANGED <<send_packet_id, receiver>>
      /\ packets' \subseteq [id : PacketId, buf : Data] /\ \A m \in packets' : Written(m.id, m.buf)
    BY DEF IInv, TypeOK, NetInv, ReceiveRecord, Taken
<1> QED BY <1>5, <1>6, <1>7, <1>8, SendFieldsInv

-----------------------------------------------------------------------------
(* The receiving end and the network.                                      *)

\* Steps of the receiving end that keep or extend what has arrived
LEMMA ReceiverInv ==
    ASSUME IInv, TypeOK', RecInv', Got \subseteq Got',
           Range(rec_ack)' \subseteq Got', DOMAIN lru_acks' \subseteq Got', packets' \subseteq packets,
           \A r \in records' : r \subseteq Got', UNCHANGED sender
    PROVE  IInv'
<1>1. send' = send /\ send_packet_id' = send_packet_id
    BY DEF sender
<1>2. SendInv'
    BY <1>1 DEF IInv, SendInv, Written
<1>3. NetInv'
    BY <1>1 DEF IInv, NetInv, Written
<1>4. NothingForgotten'
    BY <1>1 DEF IInv, NothingForgotten, ActiveIds, Active
<1> QED BY <1>2, <1>3, <1>4 DEF IInv

\* A packet that is stored is one of the window, and none that is there.
LEMMA ReceivePacketInv ==
    ASSUME IInv, NEW m \in packets, NEW again \in BOOLEAN, ReceivePacket(m, again)
    PROVE  IInv'
<1>0. /\ UNCHANGED <<sender, rec_packet_id, lru_acks, records, received>>
      /\ packets' \subseteq packets
    BY DEF ReceivePacket, Taken
<1>1. UNCHANGED <<state, send, send_packet_id, hold, burst>>
    BY <1>0 DEF sender
<1>2. Written(m.id, m.buf) /\ m.id \in PacketId /\ m.buf \in Data /\ rec \in [1 .. RecSize -> RecEntry]
    BY DEF IInv, NetInv, TypeOK
<1>3. m.id \in 0 .. Half - 1 /\ rec_packet_id \in 0 .. Half - 1 /\ RecSize + rec_packet_id < Half
    BY <1>2, Ids DEF Written
<1>4. CASE ~(reliable_can_get(rec) /\ reliable_wont_break_sequentiality(m.id))
  <2>1. rec' = rec /\ rec_ack' = rec_ack
      BY <1>4 DEF ReceivePacket
  <2>2. TypeOK'
      BY <1>0, <1>1, <2>1 DEF IInv, TypeOK
  <2>3. RecInv'
      BY <1>0, <1>1, <2>1 DEF IInv, RecInv, Written
  <2>4. Got' = Got
      BY <1>0, <1>1, <2>1 DEF Got, ActiveIds, Active
  <2>5. Range(rec_ack)' \subseteq Got' /\ DOMAIN lru_acks' \subseteq Got' /\ \A r \in records' : r \subseteq Got'
      BY <1>0, <2>1, <2>4 DEF IInv, NetInv
  <2> QED BY <1>0, <2>2, <2>3, <2>4, <2>5, ReceiverInv
<1>5. CASE reliable_can_get(rec) /\ reliable_wont_break_sequentiality(m.id)
  <2>1. m.id < rec_packet_id + RecSize
      BY <1>3, <1>5, PlainWindow DEF reliable_wont_break_sequentiality
  <2>2. rec_ack' = reliable_ack_acknowledge_packet_id(rec_ack, m.id)
      BY <1>5 DEF ReceivePacket
  <2>3. rec_ack' \in Seq(PacketId) /\ Len(rec_ack') <= AckSize /\ Range(rec_ack') \subseteq Range(rec_ack) \cup {m.id}
      BY <1>2, <2>2, SizeAssumption DEF reliable_ack_acknowledge_packet_id, IInv, TypeOK, Range
  <2>4. /\ rec' \in [1 .. RecSize -> RecEntry] /\ RecInv' /\ Got \subseteq Got' /\ m.id \in Got'
    <3>1. CASE ~reliable_not_replay(m.id)
      <4>1. rec' = rec
          BY <1>5, <3>1 DEF ReceivePacket
      <4>2. RecInv'
          BY <1>0, <1>1, <4>1 DEF IInv, RecInv, Written
      <4>3. Got' = Got
          BY <1>0, <1>1, <4>1 DEF Got, ActiveIds, Active
      <4>4. m.id < rec_packet_id \/ m.id \in ActiveIds(rec)
          BY <1>3, <3>1, PlainOrder DEF reliable_not_replay
      <4>5. m.id \in Got
          BY <1>2, <4>4 DEF Got, Written
      <4> QED BY <1>2, <4>1, <4>2, <4>3, <4>5
    <3>2. CASE reliable_not_replay(m.id)
      <4>1. PICK s \in Free(rec) : rec' = [rec EXCEPT ![s] = [active |-> TRUE, packet_id |-> m.id, buf |-> m.buf]]
          BY <1>5, <3>2 DEF ReceivePacket, reliable_mark_active_incoming
      <4>2. s \in 1 .. RecSize /\ ~rec[s].active
          BY <4>1, <1>2 DEF Free, Active
      <4>3. rec' \in [1 .. RecSize -> RecEntry]
          BY <1>2, <4>1 DEF RecEntry
      <4>4. rec'[s].active /\ rec'[s].packet_id = m.id /\ rec'[s].buf = m.buf
          BY <1>2, <4>1, <4>2
      <4>5. \A t \in 1 .. RecSize : t # s => rec'[t] = rec[t]
          BY <1>2, <4>1
      <4>6. rec_packet_id <= m.id /\ \A t \in 1 .. RecSize : rec[t].active => rec[t].packet_id # m.id
        <5>1. ~(m.id < rec_packet_id) /\ m.id \notin ActiveIds(rec)
            BY <1>3, <3>2, PlainOrder DEF reliable_not_replay
        <5>2. rec_packet_id <= m.id
            BY <1>3, <5>1
        <5>3. \A t \in 1 .. RecSize : rec[t].active => rec[t].packet_id \in ActiveIds(rec)
            BY Ids DEF ActiveIds
        <5> QED BY <5>1, <5>2, <5>3
      <4>7. RecInv'
        <5>1. \A t \in 1 .. RecSize : rec'[t].active =>
                /\ Written(rec[t].packet_id, rec[t].buf)'
                /\ rec_packet_id <= rec'[t].packet_id /\ rec'[t].packet_id < rec_packet_id + RecSize
            BY <1>1, <1>2, <2>1, <4>4, <4>5, <4>6 DEF IInv, RecInv, Written
        <5>2. \A t, u \in 1 .. RecSize :
                rec'[t].active /\ rec'[u].active /\ rec'[t].packet_id = rec'[u].packet_id => t = u
            BY <4>4, <4>5, <4>6 DEF IInv, RecInv
        <5> QED BY <1>0, <1>1, <5>1, <5>2 DEF IInv, RecInv
      <4>8. ActiveIds(rec) \subseteq ActiveIds(rec)' /\ m.id \in ActiveIds(rec)'
        <5>1. DOMAIN rec' = 1 .. RecSize /\ DOMAIN rec = 1 .. RecSize
            BY <1>2, <4>3
        <5> QED BY <4>2, <4>4, <4>5, <5>1 DEF ActiveIds, Active
      <4>9. Got \subseteq Got' /\ m.id \in Got'
          BY <1>0, <1>1, <1>2, <4>8 DEF Got, Written
      <4> QED BY <4>3, <4>7, <4>9
    <3> QED BY <3>1, <3>2
  <2>5. TypeOK'
      BY <1>0, <1>1, <2>3, <2>4 DEF IInv, TypeOK
  <2>6. Range(rec_ack)' \subseteq Got' /\ DOMAIN lru_acks' \subseteq Got' /\ \A r \in records' : r \subseteq Got'
    <3>1. Range(rec_ack)' = Range(rec_ack')
        BY DEF Range
    <3> QED BY <1>0, <2>3, <2>4, <3>1 DEF IInv, NetInv
  <2> QED BY <1>0, <2>4, <2>5, <2>6, ReceiverInv
<1> QED BY <1>4, <1>5

\* The next packet in sequence is delivered.
LEMMA ReadInv ==
    ASSUME IInv, read_incoming_tls_ciphertext
    PROVE  IInv' /\ rec_packet_id' = rec_packet_id + 1 /\ rec_packet_id < send_packet_id
           /\ received' = Append(received, Stream[rec_packet_id + 1])
<1>1. PICK s \in Active(rec) :
        /\ rec[s].packet_id = rec_packet_id
        /\ received' = Append(received, rec[s].buf)
        /\ rec' = [rec EXCEPT ![s].active = FALSE]
        /\ rec_packet_id' = Plus(rec[s].packet_id, 1)
        /\ UNCHANGED <<sender, rec_ack, lru_acks, packets, records>>
    BY DEF read_incoming_tls_ciphertext
<1>2. s \in 1 .. RecSize /\ rec[s].active /\ rec \in [1 .. RecSize -> RecEntry]
    BY Ids DEF IInv, TypeOK
<1>3. UNCHANGED <<state, send, send_packet_id, hold, burst>>
    BY <1>1 DEF sender
<1>4. Written(rec_packet_id, rec[s].buf)
    BY <1>1, <1>2 DEF IInv, RecInv
<1>5. rec_packet_id \in 0 .. send_packet_id - 1 /\ rec[s].buf = Stream[rec_packet_id + 1]
    BY <1>4 DEF Written
<1>6. rec_packet_id' = rec_packet_id + 1
    BY <1>1, <1>5, Ids DEF Plus, Wrap
<1>7. /\ rec' \in [1 .. RecSize -> RecEntry]
      /\ ~rec'[s].active
      /\ \A t \in 1 .. RecSize : t # s => rec'[t] = rec[t]
    BY <1>1, <1>2 DEF RecEntry
<1>8. received \in Seq(Data) /\ received = SubSeq(Stream, 1, rec_packet_id) /\ Stream[rec_packet_id + 1] \in Data
  <2>1. rec_packet_id + 1 \in 1 .. Len(Stream)
      BY <1>5, Ids
  <2>2. Stream[rec_packet_id + 1] \in Data
      BY <2>1, Ids
  <2> QED BY <2>2 DEF IInv, TypeOK, RecInv
<1>9. received' = Append(received, Stream[rec_packet_id + 1]) /\ received' \in Seq(Data)
    BY <1>1, <1>5, <1>8
<1>10. received' = SubSeq(Stream, 1, rec_packet_id + 1)
    BY <1>5, <1>8, <1>9, Ids, StreamAssumption
<1>11. TypeOK'
  <2>1. rec_packet_id' \in PacketId
      BY <1>5, <1>6, Ids DEF PacketId, Wrap
  <2> QED BY <1>1, <1>3, <1>7, <1>9, <2>1 DEF IInv, TypeOK
<1>12. RecInv'
  <2>1. \A t \in 1 .. RecSize : rec'[t].active =>
            /\ Written(rec[t].packet_id, rec[t].buf)'
            /\ rec_packet_id + 1 <= rec'[t].packet_id /\ rec'[t].packet_id < rec_packet_id + 1 + RecSize
    <3> SUFFICES ASSUME NEW t \in 1 .. RecSize, rec'[t].active
                 PROVE  /\ Written(rec[t].packet_id, rec[t].buf)'
                        /\ rec_packet_id + 1 <= rec'[t].packet_id
                        /\ rec'[t].packet_id < rec_packet_id + 1 + RecSize
        OBVIOUS
    <3>1. t # s /\ rec'[t] = rec[t] /\ rec[t].active
        BY <1>7
    <3>2. rec[t].packet_id # rec_packet_id
        BY <1>1, <1>2, <3>1 DEF IInv, RecInv
    <3>3. /\ Written(rec[t].packet_id, rec[t].buf) /\ rec_packet_id <= rec[t].packet_id
          /\ rec[t].packet_id < rec_packet_id + RecSize
        BY <3>1 DEF IInv, RecInv
    <3>4. rec[t].packet_id \in Int /\ rec_packet_id \in Int /\ RecSize \in Int
        BY <1>5, <3>3, SizeAssumption DEF Written
    <3>5. rec_packet_id + 1 <= rec[t].packet_id /\ rec[t].packet_id < rec_packet_id + 1 + RecSize
        BY <3>2, <3>3, <3>4
    <3>6. Written(rec[t].packet_id, rec[t].buf)'
        BY <1>3, <3>1, <3>3 DEF Written
    <3> QED BY <3>1, <3>5, <3>6
  <2>2. \A t, u \in 1 .. RecSize :
            rec'[t].active /\ rec'[u].active /\ rec'[t].packet_id = rec'[u].packet_id => t = u
      BY <1>7 DEF IInv, RecInv
  <2>3. rec_packet_id' <= send_packet_id'
      BY <1>3, <1>5, <1>6, Ids
  <2> QED BY <1>6, <1>10, <2>1, <2>2, <2>3 DEF RecInv
<1>13. Got \subseteq Got'
  <2> SUFFICES ASSUME NEW id \in 0 .. send_packet_id - 1, id < rec_packet_id \/ id \in ActiveIds(rec)
               PROVE  id < rec_packet_id + 1 \/ id \in ActiveIds(rec)'
      BY <1>3, <1>6 DEF Got
  <2>1. CASE id < rec_packet_id
      BY <2>1, Ids
  <2>2. CASE id \in ActiveIds(rec)
    <3>1. PICK t \in 1 .. RecSize : rec[t].active /\ rec[t].packet_id = id
        BY <2>2, Ids DEF ActiveIds
    <3>2. CASE t = s
        BY <1>1, <3>1, <3>2, Ids
    <3>3. CASE t # s
      <4>1. rec'[t] = rec[t] /\ t \in DOMAIN rec'
          BY <1>7, <3>3
      <4> QED BY <3>1, <4>1 DEF ActiveIds, Active
    <3> QED BY <3>2, <3>3
  <2> QED BY <2>1, <2>2
<1>14. Range(rec_ack)' \subseteq Got' /\ DOMAIN lru_acks' \subseteq Got' /\ \A r \in records' : r \subseteq Got'
    BY <1>1, <1>13 DEF IInv, NetInv, Range
<1>15. IInv'
    BY <1>1, <1>11, <1>12, <1>13, <1>14, ReceiverInv
<1> QED BY <1>5, <1>6, <1>9, <1>15, Ids

\* Only what is pending or was acknowledged before is put into the list.
LEMMA CopyAcks ==
    ASSUME NEW ack \in Seq(PacketId), NEW lru, NEW n \in 0 .. Len(ack)
    PROVE  DOMAIN copy_acks_to_lru(ack, lru, n) \subseteq Range(ack) \cup DOMAIN lru
<1>1. Range(SubSeq(ack, 1, n)) \subseteq Range(ack)
    BY DEF Range
<1>2. DOMAIN copy_acks_to_lru(ack, lru, n) \subseteq Range(SubSeq(ack, 1, n)) \cup DOMAIN lru
    BY DEF copy_acks_to_lru
<1> QED BY <1>1, <1>2

\* Only ids that arrived are acknowledged.
LEMMA AckWriteInv ==
    ASSUME IInv, NEW max \in Nat, reliable_ack_write(max)
    PROVE  IInv'
<1> DEFINE n == IF Len(rec_ack) > max THEN max ELSE Len(rec_ack)
           lru == copy_acks_to_lru(rec_ack, lru_acks, n)
           record == {id \in DOMAIN lru : lru[id] <= max}
<1>1. rec_ack \in Seq(PacketId) /\ Len(rec_ack) \in Nat /\ n \in 0 .. Len(rec_ack)
    BY DEF IInv, TypeOK
<1>2. /\ lru_acks' = lru
      /\ rec_ack' = SubSeq(rec_ack, n + 1, Len(rec_ack))
      /\ records' \in Transmit(records, record, MaxRecords)
      /\ UNCHANGED <<sender, rec, rec_packet_id, received, packets>>
    BY DEF reliable_ack_write
<1>3. DOMAIN lru \subseteq Range(rec_ack) \cup DOMAIN lru_acks
    BY <1>1, CopyAcks
<1> HIDE DEF n, lru
<1>4. rec_ack' \in Seq(PacketId) /\ Len(rec_ack') <= Len(rec_ack) /\ Range(rec_ack)' \subseteq Range(rec_ack)
    BY <1>1, <1>2 DEF Range
<1>5. UNCHANGED <<state, send, send_packet_id, hold, burst>>
    BY <1>2 DEF sender
<1>6. Got' = Got
    BY <1>2, <1>5 DEF Got, ActiveIds, Active
<1>7. records' \subseteq records \cup {record}
    BY <1>2, TransmitOne
<1>8. DOMAIN lru \subseteq Got /\ record \subseteq Got /\ Got \subseteq PacketId
    BY <1>3, Ids DEF IInv, NetInv, Got, PacketId, Wrap
<1>9. TypeOK'
  <2>1. Len(rec_ack') <= AckSize
      BY <1>1, <1>4, SizeAssumption DEF IInv, TypeOK
  <2>2. records' \subseteq SUBSET PacketId
      BY <1>7, <1>8 DEF IInv, TypeOK
  <2> QED BY <1>2, <1>4, <1>5, <2>1, <2>2 DEF IInv, TypeOK
<1>10. RecInv'
    BY <1>2, <1>5 DEF IInv, RecInv, Written
<1>11. Range(rec_ack)' \subseteq Got' /\ DOMAIN lru_acks' \subseteq Got' /\ \A r \in records' : r \subseteq Got'
    BY <1>2, <1>4, <1>6, <1>7, <1>8 DEF IInv, NetInv
<1> QED BY <1>2, <1>6, <1>9, <1>10, <1>11, ReceiverInv

LEMMA LoseInv ==
    ASSUME IInv, packets' \subseteq packets, records' \subseteq records, UNCHANGED <<sender, receiver>>
    PROVE  IInv'
<1>1. UNCHANGED <<state, send, send_packet_id, hold, burst, rec, rec_packet_id, rec_ack, lru_acks, received>>
    BY DEF sender, receiver
<1>2. TypeOK'
    BY <1>1 DEF IInv, TypeOK
<1>3. RecInv'
    BY <1>1 DEF IInv, RecInv, Written
<1>4. Got' = Got
    BY <1>1 DEF Got, ActiveIds, Active
<1>5. Range(rec_ack)' \subseteq Got' /\ DOMAIN lru_acks' \subseteq Got' /\ \A r \in records' : r \subseteq Got'
    BY <1>1, <1>4 DEF IInv, NetInv, Range
<1> QED BY <1>2, <1>3, <1>4, <1>5, ReceiverInv

LEMMA NextInv == ASSUME IInv, [Next]_vars PROVE IInv'
<1>1. CASE session_move_pre_start
    BY <1>1, PreStartInv
<1>2. CASE Start
    BY <1>2, StartInv
<1>3. CASE \E k \in 1 .. RecordPackets : write_outgoing_tls_ciphertext(k)
    BY <1>3, RecordInv
<1>4. CASE reliable_send
    BY <1>4, ReliableSendInv
<1>5. CASE \E s \in DOMAIN send : Elapse(s)
    BY <1>5, ElapseInv
<1>6. CASE \E r \in records, do_burst, again \in BOOLEAN : ReceiveRecord(r, do_burst, again)
    BY <1>6, ReceiveRecordInv
<1>7. CASE \E m \in packets, again \in BOOLEAN : ReceivePacket(m, again)
    BY <1>7, ReceivePacketInv
<1>8. CASE read_incoming_tls_ciphertext
    BY <1>8, ReadInv
<1>9. CASE Piggyback
    BY <1>9, AckWriteInv, SizeAssumption DEF Piggyback
<1>10. CASE DedicatedAck
    BY <1>10, AckWriteInv, SizeAssumption DEF DedicatedAck
<1>11. CASE \E m \in packets : LosePacket(m)
    BY <1>11, LoseInv DEF LosePacket
<1>12. CASE \E r \in records : LoseRecord(r)
    BY <1>12, LoseInv DEF LoseRecord
<1>13. CASE UNCHANGED vars
    BY <1>13, LoseInv DEF vars, sender, receiver
<1> QED BY <1>1, <1>2, <1>3, <1>4, <1>5, <1>6, <1>7, <1>8, <1>9, <1>10, <1>11, <1>12, <1>13 DEF Next

LEMMA Invariance == Spec => []IInv
<1>1. Init => IInv
    BY InitInv
<1>2. IInv /\ [Next]_vars => IInv'
    BY NextInv
<1> QED BY <1>1, <1>2, PTL DEF Spec

-----------------------------------------------------------------------------
(* Theorems.                                                               *)

\* The variables keep their types, and no array is used beyond its size.
THEOREM TypeCorrect == Spec => []TypeOK
<1>1. IInv => TypeOK
    BY DEF IInv
<1> QED BY <1>1, Invariance, PTL

\* Whatever was written is in the send buffer or has arrived.
THEOREM NothingIsForgotten == Spec => []NothingForgotten
<1>1. IInv => NothingForgotten
    BY DEF IInv
<1> QED BY <1>1, Invariance, PTL

\* The entries of a full buffer hold as many different ids as the window has.
LEMMA OpenInv == ASSUME IInv PROVE WindowOpen
<1> SUFFICES ASSUME Free(rec) = {} PROVE rec_packet_id \in ActiveIds(rec)
    BY DEF WindowOpen, reliable_can_get
<1> DEFINE window == rec_packet_id .. rec_packet_id + RecSize - 1
           ids == [s \in 1 .. RecSize |-> rec[s].packet_id]
<1>1. rec \in [1 .. RecSize -> RecEntry] /\ RecSize \in Nat \ {0} /\ rec_packet_id \in Nat
    BY Ids DEF IInv, TypeOK
<1>2. \A s \in 1 .. RecSize : rec[s].active
    BY <1>1 DEF Free, Active
<1>3. ids \in [1 .. RecSize -> window]
  <2> SUFFICES ASSUME NEW s \in 1 .. RecSize PROVE rec[s].packet_id \in window
      OBVIOUS
  <2>1. rec[s].packet_id \in Int /\ rec_packet_id <= rec[s].packet_id /\ rec[s].packet_id < rec_packet_id + RecSize
      BY <1>2 DEF IInv, RecInv, Written
  <2> QED BY <1>1, <2>1
<1>4. \A s, t \in 1 .. RecSize : ids[s] = ids[t] => s = t
    BY <1>2 DEF IInv, RecInv
<1>5. ids \in Injection(1 .. RecSize, window)
    BY <1>3, <1>4 DEF Injection, IsInjective
<1>6. /\ IsFiniteSet(window) /\ Cardinality(window) = RecSize
      /\ Cardinality(1 .. RecSize) = RecSize
    BY <1>1, FS_Interval
<1>7. ids \in Surjection(1 .. RecSize, window)
    BY <1>5, <1>6, FS_Injection
<1>8. rec_packet_id \in window
    BY <1>1
<1>9. PICK s \in 1 .. RecSize : ids[s] = rec_packet_id
    BY <1>7, <1>8 DEF Surjection
<1> QED BY <1>1, <1>2, <1>9 DEF ActiveIds, Active

\* A full receive buffer holds the next packet in sequence.
THEOREM WindowStaysOpen == Spec => []WindowOpen
<1>1. IInv => WindowOpen
    BY OpenInv
<1> QED BY <1>1, Invariance, PTL

\* The entries in use have different ids between the oldest and the next one.
LEMMA AvailableInv == ASSUME IInv PROVE AvailableIsFree
<1> SUFFICES ASSUME NEW n \in 1 .. SendSize, reliable_get_num_output_sequenced_available(n)
             PROVE  n <= Cardinality(Free(send)) /\ reliable_can_get_output
    BY DEF AvailableIsFree
<1> DEFINE window == send_packet_id - (SendSize - n) .. send_packet_id - 1
           ids == [s \in Active(send) |-> send[s].packet_id]
<1>1. /\ send \in [1 .. SendSize -> SendEntry] /\ SendSize \in Nat \ {0} /\ send_packet_id \in Nat
      /\ Active(send) = {s \in 1 .. SendSize : send[s].active}
    BY Ids DEF IInv, TypeOK
<1>2. ASSUME NEW s \in Active(send)
      PROVE  /\ send[s].packet_id \in 0 .. send_packet_id - 1
             /\ subtract_pid(send_packet_id, send[s].packet_id) = send_packet_id - send[s].packet_id
             /\ send_packet_id - send[s].packet_id <= SendSize - n
  <2>1. send[s].packet_id \in 0 .. send_packet_id - 1
      BY <1>1 DEF IInv, SendInv, Written
  <2>2. send_packet_id \in 0 .. Half - 1 /\ send[s].packet_id \in 0 .. Half - 1
      BY <2>1, Ids
  <2>3. subtract_pid(send_packet_id, send[s].packet_id) = send_packet_id - send[s].packet_id
      BY <2>1, <2>2, PlainOrder
  <2>4. n <= SendSize - (send_packet_id - send[s].packet_id)
      BY <2>3 DEF reliable_get_num_output_sequenced_available
  <2>5. send[s].packet_id \in Int /\ send_packet_id \in Int /\ SendSize \in Int /\ n \in Int
      BY <1>1, <2>1
  <2> QED BY <2>1, <2>3, <2>4, <2>5
<1>3. ids \in [Active(send) -> window]
  <2> SUFFICES ASSUME NEW s \in Active(send) PROVE send[s].packet_id \in window
      OBVIOUS
  <2> QED BY <1>1, <1>2
<1>4. \A s, t \in Active(send) : ids[s] = ids[t] => s = t
    BY <1>1 DEF IInv, SendInv
<1>5. ids \in Injection(Active(send), window)
    BY <1>3, <1>4 DEF Injection, IsInjective
<1>6. IsFiniteSet(window) /\ Cardinality(window) = SendSize - n
  <2>1. send_packet_id - (SendSize - n) \in Int /\ send_packet_id - 1 \in Int
      BY <1>1
  <2>2. /\ IsFiniteSet(window)
        /\ Cardinality(window) = IF send_packet_id - (SendSize - n) > send_packet_id - 1 THEN 0
                                 ELSE (send_packet_id - 1) - (send_packet_id - (SendSize - n)) + 1
      BY <2>1, FS_Interval
  <2> HIDE DEF window
  <2> QED BY <1>1, <2>2
<1>7. Cardinality(Active(send)) <= SendSize - n
    BY <1>5, <1>6, FS_Injection
<1>8. /\ IsFiniteSet(1 .. SendSize) /\ Cardinality(1 .. SendSize) = SendSize
    BY <1>1, FS_Interval
<1>9. Free(send) = (1 .. SendSize) \ Active(send) /\ (1 .. SendSize) \cap Active(send) = Active(send)
    BY <1>1 DEF Free
<1>10. /\ Cardinality(Free(send)) = SendSize - Cardinality(Active(send))
       /\ IsFiniteSet(Active(send)) /\ IsFiniteSet(Free(send))
  <2>1. /\ IsFiniteSet((1 .. SendSize) \ Active(send))
        /\ Cardinality((1 .. SendSize) \ Active(send)) =
                Cardinality(1 .. SendSize) - Cardinality((1 .. SendSize) \cap Active(send))
      BY <1>8, FS_Difference
  <2>2. Active(send) \in SUBSET (1 .. SendSize)
      BY <1>1
  <2>3. IsFiniteSet(Active(send))
      BY <1>8, <2>2, FS_Subset
  <2> QED BY <1>8, <1>9, <2>1, <2>3
<1>11. Cardinality(Active(send)) \in Nat
    BY <1>10, FS_CardinalityType
<1>12. n <= Cardinality(Free(send))
    BY <1>1, <1>7, <1>10, <1>11
<1>13. Free(send) # {}
  <2>1. 1 <= n /\ n \in Nat
      BY <1>1
  <2>2. Cardinality({}) = 0
      BY FS_EmptySet
  <2> QED BY <1>12, <2>1, <2>2
<1>14. \A s \in Active(send) : reliable_pid_in_range1(send_packet_id, send[s].packet_id, SendSize)
    BY <1>1, <1>2 DEF reliable_pid_in_range1
<1> QED BY <1>12, <1>13, <1>14 DEF reliable_can_get_output, reliable_can_get

\* ASSERT(buf) of write_outgoing_tls_ciphertext never fails.
THEOREM AvailableBuffersAreFree == Spec => []AvailableIsFree
<1>1. IInv => AvailableIsFree
    BY AvailableInv
<1> QED BY <1>1, Invariance, PTL

-----------------------------------------------------------------------------
(* The refinement.                                                         *)

\* What was written and not delivered is in one of the two windows.
Windows == send_packet_id <= rec_packet_id + SendSize + RecSize

LEMMA WindowsInv == ASSUME IInv PROVE Windows
<1> DEFINE id == send_packet_id - SendSize - 1
<1> SUFFICES ASSUME ~Windows PROVE FALSE
    OBVIOUS
<1>1. send_packet_id \in Nat /\ rec_packet_id \in Nat /\ SendSize \in Nat /\ RecSize \in Nat
    BY Ids
<1>2. id \in 0 .. send_packet_id - 1 /\ rec_packet_id + RecSize <= id /\ rec_packet_id <= id
    BY <1>1 DEF Windows
<1>3. id \notin ActiveIds(send)
  <2> SUFFICES ASSUME NEW s \in 1 .. SendSize, send[s].active, send[s].packet_id = id PROVE FALSE
      BY Ids DEF ActiveIds
  <2>1. send_packet_id <= send[s].packet_id + SendSize
      BY DEF IInv, SendInv
  <2> QED BY <1>1, <2>1
<1>4. id \notin ActiveIds(rec)
  <2> SUFFICES ASSUME NEW s \in 1 .. RecSize, rec[s].active, rec[s].packet_id = id PROVE FALSE
      BY Ids DEF ActiveIds
  <2>1. rec[s].packet_id < rec_packet_id + RecSize
      BY DEF IInv, RecInv
  <2> QED BY <1>1, <1>2, <2>1
<1>5. id \in ActiveIds(send) \/ id < rec_packet_id \/ id \in ActiveIds(rec)
    BY <1>2 DEF IInv, NothingForgotten, Got
<1> QED BY <1>1, <1>2, <1>3, <1>4, <1>5

\* Prefixes of the stream
LEMMA Prefix ==
    ASSUME NEW m \in 0 .. Len(Stream), NEW n \in 0 .. m
    PROVE  /\ SubSeq(Stream, 1, m) \in Seq(Data) /\ Len(SubSeq(Stream, 1, m)) = m
           /\ SubSeq(SubSeq(Stream, 1, m), 1, n) = SubSeq(Stream, 1, n)
           /\ \A i \in 1 .. m : SubSeq(Stream, 1, m)[i] = Stream[i]
<1>1. Stream \in Seq(Data) /\ Len(Stream) \in Nat /\ m \in Nat /\ n \in Nat /\ m <= Len(Stream) /\ n <= m
    BY StreamAssumption
<1>2. /\ SubSeq(Stream, 1, m) \in Seq(Data) /\ Len(SubSeq(Stream, 1, m)) = m
      /\ \A i \in 1 .. m : SubSeq(Stream, 1, m)[i] = Stream[i]
    BY <1>1
<1>3. SubSeq(SubSeq(Stream, 1, m), 1, n) = SubSeq(Stream, 1, n)
    BY <1>1, <1>2
<1> QED BY <1>2, <1>3

LEMMA PrefixLength == \A m \in 0 .. Len(Stream) : Len(SubSeq(Stream, 1, m)) = m
<1> SUFFICES ASSUME NEW m \in 0 .. Len(Stream) PROVE Len(SubSeq(Stream, 1, m)) = m
    OBVIOUS
<1>1. m \in 0 .. m
    BY StreamAssumption
<1> QED BY <1>1, Prefix

\* Steps that write packets, or change nothing the channel shows
LEMMA WriteRefines ==
    ASSUME IInv, IInv', Windows', send_packet_id <= send_packet_id', received' = received
    PROVE  [C!Next]_<<SubSeq(Stream, 1, send_packet_id), received>>
<1> DEFINE sent == SubSeq(Stream, 1, send_packet_id)
<1>1. /\ send_packet_id \in 0 .. Len(Stream) /\ rec_packet_id \in 0 .. send_packet_id
      /\ Len(Stream) \in Nat /\ SendSize \in Nat /\ RecSize \in Nat
    BY Ids
<1>2. send_packet_id' \in 0 .. Len(Stream) /\ send_packet_id \in 0 .. send_packet_id'
    BY <1>1, StreamAssumption DEF IInv, TypeOK, SendInv, PacketId
<1>3. rec_packet_id' = Len(received') /\ rec_packet_id = Len(received)
  <2>1. rec_packet_id' \in 0 .. Len(Stream) /\ received' = SubSeq(Stream, 1, rec_packet_id')
      BY <1>1, <1>2 DEF IInv, TypeOK, RecInv, PacketId
  <2>2. rec_packet_id \in 0 .. Len(Stream) /\ received = SubSeq(Stream, 1, rec_packet_id)
      BY <1>1 DEF IInv, RecInv
  <2> QED BY <2>1, <2>2, PrefixLength
<1>4. Len(sent') <= Len(received) + (SendSize + RecSize)
    BY <1>1, <1>2, <1>3, Prefix DEF Windows
<1>5. /\ sent' \in Seq(Data) /\ Len(sent) <= Len(sent') /\ SubSeq(sent', 1, Len(sent)) = sent
    BY <1>1, <1>2, Prefix
<1>6. C!Write
    BY <1>4, <1>5 DEF C!Write
<1> QED BY <1>6 DEF C!Next

LEMMA DeliverRefines ==
    ASSUME IInv, read_incoming_tls_ciphertext
    PROVE  C!Next
<1>1. /\ rec_packet_id < send_packet_id /\ received' = Append(received, Stream[rec_packet_id + 1])
      /\ send_packet_id' = send_packet_id
    BY ReadInv DEF read_incoming_tls_ciphertext, sender
<1>2. send_packet_id \in 0 .. Len(Stream) /\ rec_packet_id \in 0 .. send_packet_id /\ Len(Stream) \in Nat
    BY Ids
<1>3. rec_packet_id \in 0 .. Len(Stream) /\ received = SubSeq(Stream, 1, rec_packet_id)
    BY <1>2 DEF IInv, RecInv
<1>4. Len(received) = rec_packet_id
    BY <1>3, Prefix
<1>5. Len(SubSeq(Stream, 1, send_packet_id)) = send_packet_id
      /\ SubSeq(Stream, 1, send_packet_id)[rec_packet_id + 1] = Stream[rec_packet_id + 1]
    BY <1>1, <1>2, Prefix
<1>6. C!Deliver
    BY <1>1, <1>4, <1>5 DEF C!Deliver
<1> QED BY <1>6 DEF C!Next

LEMMA StepRefines ==
    ASSUME IInv, IInv', Windows', [Next]_vars
    PROVE  [C!Next]_<<SubSeq(Stream, 1, send_packet_id), received>>
<1>1. CASE read_incoming_tls_ciphertext
    BY <1>1, DeliverRefines
<1>2. CASE send_packet_id <= send_packet_id' /\ received' = received
    BY <1>2, WriteRefines
<1>3. send_packet_id \in Nat /\ RecordPackets \in Nat
    BY Ids, SizeAssumption
<1>4. CASE session_move_pre_start
  <2>1. send_packet_id' = send_packet_id + 1 /\ received' = received
      BY <1>4 DEF session_move_pre_start, reliable_mark_active_outgoing, receiver
  <2> QED BY <1>2, <1>3, <2>1
<1>5. CASE \E k \in 1 .. RecordPackets : write_outgoing_tls_ciphertext(k)
  <2>1. PICK k \in 1 .. RecordPackets : write_outgoing_tls_ciphertext(k)
      BY <1>5
  <2>2. send_packet_id' = send_packet_id + k /\ received' = received
      BY <2>1 DEF write_outgoing_tls_ciphertext, reliable_mark_active_outgoing, receiver
  <2> QED BY <1>2, <1>3, <2>2
<1>6. CASE send_packet_id' = send_packet_id /\ received' = received
    BY <1>2, <1>3, <1>6
<1>7. CASE Start \/ reliable_send \/ \E s \in DOMAIN send : Elapse(s)
    BY <1>6, <1>7 DEF Start, reliable_send, Elapse, receiver
<1>8. CASE \E r \in records, do_burst, again \in BOOLEAN : ReceiveRecord(r, do_burst, again)
    BY <1>6, <1>8 DEF ReceiveRecord, receiver
<1>9. CASE \E m \in packets, again \in BOOLEAN : ReceivePacket(m, again)
    BY <1>6, <1>9 DEF ReceivePacket, sender
<1>10. CASE Piggyback \/ DedicatedAck
    BY <1>6, <1>10 DEF Piggyback, DedicatedAck, reliable_ack_write, sender
<1>11. CASE (\E m \in packets : LosePacket(m)) \/ (\E r \in records : LoseRecord(r))
    BY <1>6, <1>11 DEF LosePacket, LoseRecord, sender, receiver
<1>12. CASE UNCHANGED vars
    BY <1>6, <1>12 DEF vars
<1> QED BY <1>1, <1>4, <1>5, <1>7, <1>8, <1>9, <1>10, <1>11, <1>12 DEF Next

\* The reliability layer implements the FIFO channel: what one end writes is
\* delivered to the other end's TLS library once each and in order, whatever
\* packets and acknowledgements are lost, repeated or overtake each other.
THEOREM ImplementsChannel == Spec => FifoChannel
<1>1. Init => C!Init
  <2> SUFFICES ASSUME Init PROVE C!Init
      OBVIOUS
  <2>1. SubSeq(Stream, 1, 0) = << >>
      BY StreamAssumption
  <2> QED BY <2>1 DEF Init, C!Init
<1>2. IInv => Windows
    BY WindowsInv
<1>3. IInv /\ IInv' /\ Windows' /\ [Next]_vars => [C!Next]_<<SubSeq(Stream, 1, send_packet_id), received>>
    BY StepRefines
<1> QED BY <1>1, <1>2, <1>3, Invariance, PTL DEF Spec, FifoChannel, C!Spec
=============================================================================
