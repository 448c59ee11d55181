------------------------------ MODULE Reliable ------------------------------
(***************************************************************************)
(* The reliability layer under the control channel of OpenVPN              *)
(* (reliable.c, driven by ssl.c): one direction of one key state, from the *)
(* end that writes packets to the end that delivers them to its TLS        *)
(* library, over a network that loses, duplicates and reorders both the    *)
(* packets and the acknowledgement records that come back.                 *)
(*                                                                         *)
(* Each end is single threaded; an action is one pass of its event loop    *)
(* through one branch of tls_process_state, tls_process or                 *)
(* tls_pre_decrypt. Time is abstracted to whether the next_try of an entry *)
(* has come. The packets of the reverse direction are modelled by the      *)
(* acknowledgement records they carry.                                     *)
(***************************************************************************)
EXTENDS Integers, Sequences, FiniteSets, Functions

CONSTANTS
    Data,                  \* contents of packets
    Stream,                \* what this key state has to send, packet by packet
    Half,                  \* half the number of packet ids: 0x80000000
    SendSize,              \* TLS_RELIABLE_N_SEND_BUFFERS
    RecSize,               \* TLS_RELIABLE_N_REC_BUFFERS
    AckSize,               \* RELIABLE_ACK_SIZE
    CONTROL_SEND_ACK_MAX,
    N_ACK_RETRANSMIT,
    RecordPackets,         \* packets a TLS record of TLS_CHANNEL_BUF_SIZE needs
    xmit_hold,             \* a server does not send before the client has
    MaxPackets,            \* bound on the packets in flight
    MaxRecords             \* bound on the records in flight

ASSUME StreamAssumption == Stream \in Seq(Data)
ASSUME SizeAssumption == /\ SendSize \in Nat \ {0} /\ RecSize \in Nat \ {0}
                         /\ AckSize \in Nat \ {0}
                         /\ RecordPackets \in 1 .. SendSize
                         /\ CONTROL_SEND_ACK_MAX \in 1 .. AckSize
                         /\ N_ACK_RETRANSMIT \in Nat \ {0}
                         /\ xmit_hold \in BOOLEAN
                         /\ MaxPackets \in Nat \ {0} /\ MaxRecords \in Nat \ {0}
\* A key state is replaced long before its packet ids reach half their range.
ASSUME HalfAssumption == Half \in Nat /\ Len(Stream) + SendSize + RecSize < Half

VARIABLES
    state,           \* ks->state up to S_START, when TLS records may be written
    send,            \* send_reliable->array
    send_packet_id,  \* send_reliable->packet_id
    hold,            \* send_reliable->hold
    burst,           \* session->burst
    rec,             \* rec_reliable->array
    rec_packet_id,   \* rec_reliable->packet_id
    rec_ack,         \* ks->rec_ack
    lru_acks,        \* ks->lru_acks, as the position of each id in it
    packets,         \* control packets in flight
    records,         \* acknowledgement records in flight
    received         \* what was delivered to the TLS library

sender == <<state, send, send_packet_id, hold, burst>>
receiver == <<rec, rec_packet_id, rec_ack, lru_acks, received>>
vars == <<state, send, send_packet_id, hold, burst, rec, rec_packet_id, rec_ack, lru_acks,
          packets, records, received>>

-----------------------------------------------------------------------------
(* Arithmetic on packet ids, which wrap.                                   *)

Wrap == 2 * Half
PacketId == 0 .. Wrap - 1

Plus(a, b) == IF a + b < Wrap THEN a + b ELSE a + b - Wrap
Minus(a, b) == IF a >= b THEN a - b ELSE a - b + Wrap

subtract_pid(test, base) ==
    IF test >= base THEN test - base ELSE Minus(Plus(test, Half), Plus(base, Half))

reliable_pid_in_range1(test, base, extent) == subtract_pid(test, base) < extent

reliable_pid_in_range2(test, base, extent) ==
    IF Plus(base, extent) >= base
    THEN test < Plus(base, extent)
    ELSE Plus(test, Half) < Plus(Plus(base, Half), extent)

reliable_pid_min(p1, p2) == ~reliable_pid_in_range1(p1, p2, Half)

-----------------------------------------------------------------------------
(* struct reliable and struct reliable_ack.                                *)

SendEntry == [active : BOOLEAN, packet_id : PacketId, due : BOOLEAN,
              n_acks : 0 .. N_ACK_RETRANSMIT, buf : Data \cup {<< >>}]
RecEntry == [active : BOOLEAN, packet_id : PacketId, buf : Data \cup {<< >>}]

Active(array) == {s \in DOMAIN array : array[s].active}
Free(array) == DOMAIN array \ Active(array)
ActiveIds(array) == {array[s].packet_id : s \in Active(array)}

\* What the loops look for: the first free entry, and the lowest of some
\* entries by packet id
IsFirstFree(array, s) == s \in Free(array) /\ \A t \in Free(array) : s <= t
IsLowest(array, S, s) ==
    s \in S /\ \A t \in S : ~reliable_pid_min(array[t].packet_id, array[s].packet_id)

reliable_empty(array) == Active(array) = {}
reliable_can_get(array) == Free(array) # {}

\* Mutant: the entries are not searched.
reliable_not_replayBlind(id) == ~reliable_pid_min(id, rec_packet_id)

reliable_not_replay(id) == /\ ~reliable_pid_min(id, rec_packet_id)
                           /\ id \notin ActiveIds(rec)

reliable_wont_break_sequentiality(id) == reliable_pid_in_range2(id, rec_packet_id, RecSize)

\* Mutant: every free entry counts.
reliable_get_num_output_sequenced_availableFree(n) == n <= Cardinality(Free(send))

\* At least n: the oldest packet that is not acknowledged, and so every other,
\* is at least n ids from being SendSize behind the next one.
reliable_get_num_output_sequenced_available(n) ==
    \A s \in Active(send) : n <= SendSize - subtract_pid(send_packet_id, send[s].packet_id)

\* reliable_get_buf_output_sequenced returns a buffer.
reliable_can_get_output ==
    /\ \A s \in Active(send) : reliable_pid_in_range1(send_packet_id, send[s].packet_id, SendSize)
    /\ reliable_can_get(send)

\* The entries reliable_send chooses from
Due == {s \in Active(send) : send[s].n_acks >= N_ACK_RETRANSMIT \/ send[s].due}

reliable_can_send == Due # {} /\ ~hold

reliable_schedule_now(array) ==
    [s \in DOMAIN array |-> IF array[s].active THEN [array[s] EXCEPT !.due = TRUE] ELSE array[s]]

\* Mutant: an acknowledgement frees all earlier packets as well.
reliable_send_purgeEarlier(array, ack) ==
    [s \in DOMAIN array |->
        IF \E pid \in ack : array[s].packet_id <= pid THEN [array[s] EXCEPT !.active = FALSE] ELSE array[s]]

\* Acknowledged entries are freed. An entry counts the acknowledgements of
\* later packets, here no further than the number that is compared with.
reliable_send_purge(array, ack) ==
    [s \in DOMAIN array |->
        LET e == array[s]
            later == e.n_acks + Cardinality({pid \in ack : e.packet_id < pid})
        IN  IF ~e.active THEN e
            ELSE IF e.packet_id \in ack THEN [e EXCEPT !.active = FALSE]
            ELSE [e EXCEPT !.n_acks = IF later < N_ACK_RETRANSMIT THEN later ELSE N_ACK_RETRANSMIT]]

\* Mutant: the size of the record is not looked at.
reliable_ack_acknowledge_packet_idAlways(ack, pid) ==
    IF pid \notin Range(ack) THEN Append(ack, pid) ELSE ack

reliable_ack_acknowledge_packet_id(ack, pid) ==
    IF pid \notin Range(ack) /\ Len(ack) < AckSize THEN Append(ack, pid) ELSE ack

\* The n first acknowledgements move to the front, the others follow in the
\* order they had, and the oldest are dropped.
copy_acks_to_lru(ack, lru, n) ==
    LET new == Range(SubSeq(ack, 1, n))
        old == DOMAIN lru \ new
        Position(id) == IF id \in new
                        THEN CHOOSE i \in 1 .. n : ack[i] = id
                        ELSE n + Cardinality({other \in old : lru[other] <= lru[id]})
    IN  [id \in {id \in new \cup old : Position(id) <= AckSize} |-> Position(id)]

-----------------------------------------------------------------------------
(* The network: when too much is in flight, something older is lost.       *)

Transmit(net, m, max) ==
    IF Cardinality(net \cup {m}) <= max THEN {net \cup {m}} ELSE {(net \ {x}) \cup {m} : x \in net}

\* A message that was received may stay in flight as a duplicate.
Taken(net, m, again) == IF again THEN net ELSE net \ {m}

LosePacket(m) == packets' = packets \ {m} /\ UNCHANGED <<sender, receiver, records>>
LoseRecord(r) == records' = records \ {r} /\ UNCHANGED <<sender, receiver, packets>>

-----------------------------------------------------------------------------
(* The sending end.                                                        *)

\* The k packets that follow in the stream go to the k lowest free entries.
\* The entries keep the n_acks of their last use.
reliable_mark_active_outgoing(k) ==
    /\ send_packet_id + k <= Len(Stream)
    /\ \E slot \in [0 .. k - 1 -> Free(send)] :
        /\ \A i, j \in 0 .. k - 1 : i < j => slot[i] < slot[j]
        /\ \A s \in Free(send) : (\E j \in 0 .. k - 1 : s < slot[j]) => s \in Range(slot)
        /\ send' = [s \in DOMAIN send |->
                       IF s \in Range(slot)
                       THEN LET i == CHOOSE i \in 0 .. k - 1 : slot[i] = s
                            IN  [send[s] EXCEPT !.active = TRUE,
                                                !.packet_id = send_packet_id + i,
                                                !.due = TRUE,
                                                !.buf = Stream[send_packet_id + i + 1]]
                       ELSE send[s]]
    /\ send_packet_id' = send_packet_id + k

\* S_INITIAL: the reset packet
session_move_pre_start ==
    /\ state = "S_INITIAL"
    /\ reliable_can_get_output
    /\ reliable_mark_active_outgoing(1)
    /\ state' = "S_PRE_START"
    /\ UNCHANGED <<hold, burst, receiver, packets, records>>

\* The handshake begins when the reset packet was acknowledged.
Start ==
    /\ state = "S_PRE_START"
    /\ reliable_empty(send)
    /\ state' = "S_START"
    /\ UNCHANGED <<send, send_packet_id, hold, burst, receiver, packets, records>>

\* A TLS record is split into packets, if there is room for the longest one.
write_outgoing_tls_ciphertext(k) ==
    /\ state = "S_START"
    /\ reliable_can_get_output
    /\ reliable_get_num_output_sequenced_available(RecordPackets)
    /\ reliable_mark_active_outgoing(k)
    /\ UNCHANGED <<state, hold, burst, receiver, packets, records>>

\* The lowest packet that is due
reliable_send ==
    /\ reliable_can_send
    /\ \E best \in Due :
        /\ IsLowest(send, Due, best)
        /\ send' = [send EXCEPT ![best].due = FALSE, ![best].n_acks = 0]
        /\ packets' \in Transmit(packets, [id |-> send[best].packet_id, buf |-> send[best].buf],
                                 MaxPackets)
    /\ UNCHANGED <<state, send_packet_id, hold, burst, receiver, records>>

\* The time of the next try comes.
Elapse(s) ==
    /\ send[s].active /\ ~send[s].due
    /\ send' = [send EXCEPT ![s].due = TRUE]
    /\ UNCHANGED <<state, send_packet_id, hold, burst, receiver, packets, records>>

\* tls_pre_decrypt: the first packet of the other end lets everything be sent
\* at once; then the acknowledged packets are deleted.
ReceiveRecord(r, do_burst, again) ==
    /\ LET now == do_burst /\ ~burst IN
        /\ hold' = IF now THEN FALSE ELSE hold
        /\ burst' = (burst \/ now)
        /\ send' = reliable_send_purge(IF now THEN reliable_schedule_now(send) ELSE send, r)
    /\ records' = Taken(records, r, again)
    /\ UNCHANGED <<state, send_packet_id, receiver, packets>>

-----------------------------------------------------------------------------
(* The receiving end.                                                      *)

\* The first free entry is used: packets may not arrive in sequential order.
reliable_mark_active_incoming(m) ==
    \E s \in Free(rec) :
        /\ IsFirstFree(rec, s)
        /\ rec' = [rec EXCEPT ![s] = [active |-> TRUE, packet_id |-> m.id, buf |-> m.buf]]

\* Mutant: a replay is not acknowledged again.
ReceivePacketOnce(m, again) ==
    /\ packets' = Taken(packets, m, again)
    /\ IF reliable_can_get(rec) /\ reliable_wont_break_sequentiality(m.id) /\ reliable_not_replay(m.id)
       THEN /\ reliable_mark_active_incoming(m)
            /\ rec_ack' = reliable_ack_acknowledge_packet_id(rec_ack, m.id)
       ELSE UNCHANGED <<rec, rec_ack>>
    /\ UNCHANGED <<sender, rec_packet_id, lru_acks, records, received>>

\* tls_pre_decrypt: the packet is dropped without an acknowledgement when
\* there is no free entry or when it is too far ahead, and acknowledged even
\* if it is a replay.
ReceivePacket(m, again) ==
    /\ packets' = Taken(packets, m, again)
    /\ IF reliable_can_get(rec) /\ reliable_wont_break_sequentiality(m.id)
       THEN /\ IF reliable_not_replay(m.id)
               THEN reliable_mark_active_incoming(m)
               ELSE UNCHANGED rec
            /\ rec_ack' = reliable_ack_acknowledge_packet_id(rec_ack, m.id)
       ELSE UNCHANGED <<rec, rec_ack>>
    /\ UNCHANGED <<sender, rec_packet_id, lru_acks, records, received>>

\* Mutant: the lowest packet is delivered, whether it is the next one or not.
read_incoming_tls_ciphertextLowest ==
    /\ \E s \in Active(rec) :
        /\ IsLowest(rec, Active(rec), s)
        /\ received' = Append(received, rec[s].buf)
        /\ rec' = [rec EXCEPT ![s].active = FALSE]
        /\ rec_packet_id' = Plus(rec[s].packet_id, 1)
    /\ UNCHANGED <<sender, rec_ack, lru_acks, packets, records>>

\* reliable_get_entry_sequenced, delivered, and reliable_mark_deleted
read_incoming_tls_ciphertext ==
    \E s \in Active(rec) :
        /\ rec[s].packet_id = rec_packet_id
        /\ received' = Append(received, rec[s].buf)
        /\ rec' = [rec EXCEPT ![s].active = FALSE]
        /\ rec_packet_id' = Plus(rec[s].packet_id, 1)
        /\ UNCHANGED <<sender, rec_ack, lru_acks, packets, records>>

\* The pending acknowledgements go first, earlier ones are repeated if there
\* is room.
reliable_ack_write(max) ==
    LET n == IF Len(rec_ack) > max THEN max ELSE Len(rec_ack)
        lru == copy_acks_to_lru(rec_ack, lru_acks, n)
    IN  /\ lru_acks' = lru
        /\ rec_ack' = SubSeq(rec_ack, n + 1, Len(rec_ack))
        /\ records' \in Transmit(records, {id \in DOMAIN lru : lru[id] <= max}, MaxRecords)
        /\ UNCHANGED <<sender, rec, rec_packet_id, received, packets>>

\* A packet of the reverse direction carries acknowledgements.
Piggyback == reliable_ack_write(CONTROL_SEND_ACK_MAX)

\* P_ACK_V1
DedicatedAck == rec_ack # << >> /\ reliable_ack_write(AckSize)

-----------------------------------------------------------------------------
Init ==
    /\ state = "S_INITIAL"
    /\ send = [s \in 1 .. SendSize |->
                  [active |-> FALSE, packet_id |-> 0, due |-> FALSE, n_acks |-> 0, buf |-> << >>]]
    /\ send_packet_id = 0
    /\ hold = xmit_hold
    /\ burst = FALSE
    /\ rec = [s \in 1 .. RecSize |-> [active |-> FALSE, packet_id |-> 0, buf |-> << >>]]
    /\ rec_packet_id = 0
    /\ rec_ack = << >>
    /\ lru_acks = [id \in {} |-> 0]
    /\ packets = {}
    /\ records = {}
    /\ received = << >>

Next ==
    \/ session_move_pre_start
    \/ Start
    \/ \E k \in 1 .. RecordPackets : write_outgoing_tls_ciphertext(k)
    \/ reliable_send
    \/ \E s \in DOMAIN send : Elapse(s)
    \/ \E r \in records, do_burst, again \in BOOLEAN : ReceiveRecord(r, do_burst, again)
    \/ \E m \in packets, again \in BOOLEAN : ReceivePacket(m, again)
    \/ read_incoming_tls_ciphertext
    \/ Piggyback
    \/ DedicatedAck
    \/ \E m \in packets : LosePacket(m)
    \/ \E r \in records : LoseRecord(r)

Spec == Init /\ [][Next]_vars

\* A packet that is sent again and again gets through now and then, and so
\* does the acknowledgement of a packet.
ReceiveId(i) == \E m \in packets : m.id = i /\ ReceivePacket(m, FALSE)
ReceiveAckOf(i) == \E r \in records, do_burst \in BOOLEAN : i \in r /\ ReceiveRecord(r, do_burst, FALSE)

\* The event loops keep running, time passes, and the network is fair.
FairSpec ==
    /\ Spec
    /\ WF_vars(session_move_pre_start) /\ WF_vars(Start)
    /\ WF_vars(reliable_send) /\ \A s \in 1 .. SendSize : WF_vars(Elapse(s))
    /\ WF_vars(read_incoming_tls_ciphertext) /\ WF_vars(DedicatedAck)
    /\ \A i \in 0 .. Len(Stream) - 1 : SF_vars(ReceiveId(i)) /\ SF_vars(ReceiveAckOf(i))

-----------------------------------------------------------------------------
(* Properties.                                                             *)

\* The ids that are stored or were delivered
Got == {id \in 0 .. send_packet_id - 1 : id < rec_packet_id \/ id \in ActiveIds(rec)}

\* Types, and the size of what is kept in arrays of a fixed size.
TypeOK ==
    /\ state \in {"S_INITIAL", "S_PRE_START", "S_START"}
    /\ send \in [1 .. SendSize -> SendEntry]
    /\ send_packet_id \in PacketId
    /\ hold \in BOOLEAN /\ burst \in BOOLEAN
    /\ rec \in [1 .. RecSize -> RecEntry]
    /\ rec_packet_id \in PacketId
    /\ rec_ack \in Seq(PacketId) /\ Len(rec_ack) <= AckSize
    /\ packets \subseteq [id : PacketId, buf : Data]
    /\ records \subseteq SUBSET PacketId
    /\ received \in Seq(Data)

\* Written packets are delivered once each, in order, however the network
\* behaves, and at most the two windows of them are on their way.
C == INSTANCE Channel WITH Capacity <- SendSize + RecSize,
                           sent <- SubSeq(Stream, 1, send_packet_id)
FifoChannel == C!Spec

\* A packet leaves the send buffer only after the other end has stored it:
\* whatever was written is in the send buffer or has arrived.
NothingForgotten == 0 .. send_packet_id - 1 \subseteq ActiveIds(send) \cup Got

\* "Avoid deadlock by rejecting packet that would de-sequentialize receive
\* buffer": when no entry is free, the next packet in sequence is in one.
WindowOpen == reliable_can_get(rec) \/ rec_packet_id \in ActiveIds(rec)

\* ASSERT(buf) of write_outgoing_tls_ciphertext: as many buffers as were
\* found to be available can be had.
AvailableIsFree ==
    \A n \in 1 .. SendSize : reliable_get_num_output_sequenced_available(n) =>
                              n <= Cardinality(Free(send)) /\ reliable_can_get_output

\* Once the sender may send, every packet that was written is delivered and
\* its entry is freed by an acknowledgement, whatever is lost on the way.
Acknowledged ==
    \A i \in 1 .. Len(Stream) :
        (send_packet_id >= i /\ ~hold) ~> (Len(received) >= i /\ i - 1 \notin ActiveIds(send))
=============================================================================
