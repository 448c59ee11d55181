------------------------------ MODULE PacketId ------------------------------
(***************************************************************************)
(* Packet ids of OpenVPN's encrypted channels (packet_id.c): the ids one   *)
(* end gives to its packets, and the sliding window by which the other end *)
(* accepts each of them once, over a network that loses, duplicates and    *)
(* reorders them.                                                          *)
(*                                                                         *)
(* A packet is its id and, in the long form, the time stamp of its         *)
(* sequence. seq_list is kept by id instead of by distance from the        *)
(* highest id.                                                             *)
(***************************************************************************)
EXTENDS Integers

CONSTANTS
    Backtracks,         \* values of --replay-window: 0 is the mode used with TCP
    time_backtrack,
    SEQ_REAP_INTERVAL,
    PACKET_ID_MAX,
    MaxNow              \* bound on the time

SEQ_UNSEEN == 0
SEQ_EXPIRED == 1

ASSUME BacktrackAssumption == Backtracks \subseteq Nat
ASSUME TimeAssumption == /\ time_backtrack \in Nat
                         /\ SEQ_REAP_INTERVAL \in Nat \ {0}
                         /\ MaxNow \in Nat
ASSUME MaxAssumption == PACKET_ID_MAX \in Nat \ {0}

VARIABLES
    now,
    long_form,      \* packets carry the time stamp
    seq_backtrack,
    send_id,        \* packet_id_send
    send_time,
    rec_id,         \* packet_id_rec: the highest id and time received
    rec_time,
    seq_list,       \* when the ids of the window were received
    last_reap,
    sent,           \* packets that were sent, all of which may be in flight
    accepted        \* when packets were accepted

send == <<send_id, send_time>>
rec == <<rec_id, rec_time, seq_list, last_reap>>
vars == <<now, long_form, seq_backtrack, send_id, send_time, rec_id, rec_time, seq_list, last_reap,
          sent, accepted>>

Packet == [id : 1 .. PACKET_ID_MAX, time : 0 .. MaxNow]

-----------------------------------------------------------------------------
(* Sending.                                                                *)

\* The id may only roll over if the time stamp makes the packets differ.
RollsOver == send_id = PACKET_ID_MAX
StartedAt == IF send_time = 0 THEN now ELSE send_time

\* Mutant: the packets need not carry the time stamp.
CanSendShort == RollsOver => now > StartedAt

\* packet_id_send_update succeeds.
CanSend == RollsOver => long_form /\ now > StartedAt

\* Mutant: the id is not reset when it rolls over.
NextIdWithoutReset == send_id + 1

\* packet_id_send_update, and what packet_id_write puts into the packet
NextId == IF RollsOver THEN 1 ELSE send_id + 1

NextTime == IF RollsOver THEN now ELSE StartedAt
NextPacket == [id |-> NextId, time |-> IF long_form THEN NextTime ELSE 0]

packet_id_write ==
    /\ CanSend
    /\ send_id' = NextId
    /\ send_time' = NextTime
    /\ sent' = sent \cup {NextPacket}
    /\ UNCHANGED <<now, long_form, seq_backtrack, rec, accepted>>

-----------------------------------------------------------------------------
(* Receiving.                                                              *)

Received(list, i) == list[i] \notin {SEQ_UNSEEN, SEQ_EXPIRED}

\* Mutant: the last second already counts as too long.
packet_id_reapEarly(list) ==
    [i \in DOMAIN list |->
        IF /\ \A j \in DOMAIN list : j >= i => list[j] # SEQ_EXPIRED
           /\ \E j \in DOMAIN list : j >= i /\ Received(list, j) /\ list[j] + time_backtrack <= now
        THEN SEQ_EXPIRED ELSE list[i]]

\* Mutant: ids that were not received do not expire with the ones after them.
packet_id_reapReceived(list) ==
    [i \in DOMAIN list |->
        IF Received(list, i) /\ list[i] + time_backtrack < now THEN SEQ_EXPIRED ELSE list[i]]

\* From the newest id on, all ids expire from the first one that was received
\* too long ago; the loop ends at an id that has expired before.
packet_id_reap(list) ==
    [i \in DOMAIN list |->
        IF /\ \A j \in DOMAIN list : j >= i => list[j] # SEQ_EXPIRED
           /\ \E j \in DOMAIN list : j >= i /\ Received(list, j) /\ list[j] + time_backtrack < now
        THEN SEQ_EXPIRED ELSE list[i]]

ReapDue == last_reap + SEQ_REAP_INTERVAL <= now

\* The list after packet_id_reap_test. Without a window there is nothing to reap.
Reaped == IF ReapDue /\ time_backtrack > 0 THEN packet_id_reap(seq_list) ELSE seq_list

\* Mutant: the window accepts again what has expired.
packet_id_testExpired(list, pin) ==
    IF seq_backtrack > 0
    THEN \/ pin.time > rec_time
         \/ /\ pin.time = rec_time
            /\ \/ pin.id > rec_id
               \/ pin.id \in DOMAIN list /\ ~Received(list, pin.id)
    ELSE \/ pin.time > rec_time /\ pin.id = 1
         \/ pin.time = rec_time /\ (rec_id = 0 \/ pin.id = rec_id + 1)

packet_id_test(list, pin) ==
    IF seq_backtrack > 0
    THEN \/ pin.time > rec_time
         \/ /\ pin.time = rec_time
            /\ \/ pin.id > rec_id
               \/ pin.id \in DOMAIN list /\ list[pin.id] = SEQ_UNSEEN
    ELSE \/ pin.time > rec_time /\ pin.id = 1
         \/ pin.time = rec_time /\ (rec_id = 0 \/ pin.id = rec_id + 1)

\* A new sequence begins with a new time stamp, or with an id so far ahead
\* that nothing of the window is left.
BeginsSequence(list, pin) ==
    \/ DOMAIN list = {}
    \/ pin.time > rec_time
    \/ pin.id >= seq_backtrack /\ pin.id - seq_backtrack > rec_id

packet_id_add(list, pin) ==
    IF seq_backtrack > 0
    THEN LET begins == BeginsSequence(list, pin)
             id == IF ~begins THEN rec_id
                   ELSE IF pin.id > seq_backtrack THEN pin.id - seq_backtrack ELSE 0
             old == IF begins THEN {} ELSE DOMAIN list
             top == IF id < pin.id THEN pin.id ELSE id
             window == {i \in old \cup (id + 1 .. top) : i > top - seq_backtrack}
         IN  /\ rec_time' = IF begins THEN pin.time ELSE rec_time
             /\ rec_id' = top
             /\ seq_list' = [i \in window |-> IF i = pin.id THEN now
                                              ELSE IF i \in old THEN list[i]
                                              ELSE SEQ_UNSEEN]
    ELSE /\ rec_time' = pin.time
         /\ rec_id' = pin.id
         /\ UNCHANGED seq_list

Accepts(pin) == packet_id_test(Reaped, pin)

crypto_check_replay(pin) ==
    /\ last_reap' = IF ReapDue THEN now ELSE last_reap
    /\ IF Accepts(pin)
       THEN /\ packet_id_add(Reaped, pin)
            /\ accepted' = [p \in DOMAIN accepted \cup {pin} |-> IF p = pin THEN now ELSE accepted[p]]
       ELSE /\ seq_list' = Reaped
            /\ UNCHANGED <<rec_id, rec_time, accepted>>
    /\ UNCHANGED <<now, long_form, seq_backtrack, send, sent>>

-----------------------------------------------------------------------------
Tick == /\ now < MaxNow
        /\ now' = now + 1
        /\ UNCHANGED <<long_form, seq_backtrack, send, rec, sent, accepted>>

\* packet_id_init. The clock is past the values that seq_list uses as marks.
Init ==
    /\ now = SEQ_EXPIRED + 1
    /\ long_form \in BOOLEAN
    /\ seq_backtrack \in Backtracks
    /\ send_id = 0 /\ send_time = 0
    /\ rec_id = 0 /\ rec_time = 0 /\ last_reap = 0
    /\ seq_list = [i \in {} |-> 0]
    /\ sent = {}
    /\ accepted = [p \in {} |-> 0]

Next == packet_id_write \/ Tick \/ \E pin \in sent : crypto_check_replay(pin)

Spec == Init /\ [][Next]_vars

-----------------------------------------------------------------------------
(* Properties.                                                             *)

\* Types; the window is the ids behind the highest one.
TypeOK ==
    /\ now \in 2 .. MaxNow \cup {2}
    /\ long_form \in BOOLEAN /\ seq_backtrack \in Backtracks
    /\ send_id \in 0 .. PACKET_ID_MAX /\ send_time \in 0 .. now
    /\ rec_id \in 0 .. PACKET_ID_MAX /\ rec_time \in 0 .. now /\ last_reap \in 0 .. now
    /\ sent \subseteq [id : 1 .. PACKET_ID_MAX, time : 0 .. now]
    /\ DOMAIN accepted \subseteq sent
    /\ \A p \in DOMAIN accepted : accepted[p] \in 2 .. now
    /\ seq_list \in [DOMAIN seq_list -> 0 .. now]
    /\ DOMAIN seq_list = IF seq_backtrack = 0 \/ DOMAIN accepted = {} THEN {}
                         ELSE {i \in 1 .. rec_id : i > rec_id - seq_backtrack}

\* "to check that no packet-id (i.e. sequence number + optional timestamp) is
\* accepted more than once": what was accepted would not be accepted again.
NoReplay == \A p \in DOMAIN accepted : ~Accepts(p)

\* The reordering the window allows: a packet of the current sequence that was
\* not received is accepted if it is not more than the window behind and
\* nothing after it came longer than time_backtrack ago. Without a window, the
\* packet that follows is accepted.
InTimeIsAccepted ==
    \A p \in sent \ DOMAIN accepted :
        IF seq_backtrack > 0
        THEN /\ p.time >= rec_time
             /\ p.time = rec_time => p.id > rec_id - seq_backtrack
             /\ \A q \in DOMAIN accepted :
                    q.time = p.time /\ q.id > p.id => accepted[q] + time_backtrack >= now
             => Accepts(p)
        ELSE p.time = rec_time /\ p.id = rec_id + 1 => Accepts(p)

\* A packet is not accepted any more once a packet after it came longer ago
\* than time_backtrack and the interval of the reaping.
LateIsRejected ==
    time_backtrack > 0 /\ seq_backtrack > 0 =>
        \A p \in sent : (\E q \in DOMAIN accepted :
                            /\ q.time = p.time /\ q.id >= p.id
                            /\ accepted[q] + time_backtrack + SEQ_REAP_INTERVAL <= now)
                        => ~Accepts(p)

\* No two packets of a key get the same id and time stamp, of which the
\* initialisation vectors are made.
NoReuse == CanSend => NextPacket \notin sent
=============================================================================
