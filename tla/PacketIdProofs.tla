--------------------------- MODULE PacketIdProofs ---------------------------
(***************************************************************************)
(* The properties of PacketId for every size of the window, every time     *)
(* limit and every range of ids.                                           *)
(***************************************************************************)
EXTENDS PacketId, TLAPS

-----------------------------------------------------------------------------
(* The inductive invariant.                                                *)

\* What was sent lies before the next packet.
SendInv ==
    /\ send_time = 0 => send_id = 0 /\ sent = {}
    /\ \A p \in sent : IF long_form
                       THEN p.time < send_time \/ (p.time = send_time /\ p.id <= send_id)
                       ELSE p.time = 0 /\ p.id <= send_id

\* What was accepted lies not after the highest packet.
RecInv ==
    /\ rec_id = 0 <=> DOMAIN accepted = {}
    /\ \A p \in DOMAIN accepted : p.time < rec_time \/ (p.time = rec_time /\ p.id <= rec_id)

\* The window remembers what it accepted until that expires,
Remembers(list) ==
    \A p \in DOMAIN accepted :
        p.time = rec_time /\ p.id \in DOMAIN list => list[p.id] \in {accepted[p], SEQ_EXPIRED}

\* holds only what was accepted,
Knows(list) ==
    \A i \in DOMAIN list : Received(list, i) =>
        \E p \in DOMAIN accepted : p.id = i /\ p.time = rec_time /\ accepted[p] = list[i]

\* lets an id expire only for one not before it that is old,
ExpiredForOld(list) ==
    \A i \in DOMAIN list : list[i] = SEQ_EXPIRED =>
        \E p \in DOMAIN accepted : p.time = rec_time /\ p.id >= i /\ accepted[p] + time_backtrack < now

\* has expired from some id downwards,
ExpiredBelow(list) ==
    \A i, j \in DOMAIN list : i <= j /\ list[j] = SEQ_EXPIRED => list[i] = SEQ_EXPIRED

\* and holds nothing that was old when it was last reaped.
FreshSince(list, reaped) ==
    time_backtrack > 0 =>
        \A i \in DOMAIN list : Received(list, i) => list[i] + time_backtrack >= reaped

WindowInv(list, reaped) ==
    /\ Remembers(list)
    /\ Knows(list)
    /\ ExpiredForOld(list)
    /\ ExpiredBelow(list)
    /\ FreshSince(list, reaped)

IInv == TypeOK /\ SendInv /\ RecInv /\ WindowInv(seq_list, last_reap)

-----------------------------------------------------------------------------
(* Facts.                                                                  *)

\* The types, with the ranges of the constants, in the form the steps use.
LEMMA Types ==
    ASSUME TypeOK
    PROVE  /\ now \in Nat /\ now >= 2
           /\ seq_backtrack \in Nat /\ time_backtrack \in Nat
           /\ SEQ_REAP_INTERVAL \in Nat /\ SEQ_REAP_INTERVAL > 0
           /\ PACKET_ID_MAX \in Nat /\ PACKET_ID_MAX > 0
           /\ send_id \in Nat /\ send_id <= PACKET_ID_MAX /\ send_time \in Nat /\ send_time <= now
           /\ rec_id \in Nat /\ rec_id <= PACKET_ID_MAX /\ rec_time \in Nat /\ rec_time <= now
           /\ last_reap \in Nat /\ last_reap <= now
           /\ \A p \in sent : /\ p = [id |-> p.id, time |-> p.time]
                              /\ p.id \in Nat /\ p.id >= 1 /\ p.id <= PACKET_ID_MAX
                              /\ p.time \in Nat /\ p.time <= now
           /\ \A p \in DOMAIN accepted : /\ p \in sent
                                         /\ accepted[p] \in Nat
                                         /\ accepted[p] >= 2 /\ accepted[p] <= now
           /\ \A i \in DOMAIN seq_list : /\ i \in Nat /\ i >= 1 /\ i <= rec_id
                                         /\ i > rec_id - seq_backtrack
                                         /\ seq_list[i] \in Nat /\ seq_list[i] <= now
  BY BacktrackAssumption, TimeAssumption, MaxAssumption DEF TypeOK

\* Reaping keeps the ids of the window and what it says of it.
LEMMA ReapedWindow ==
    ASSUME TypeOK
    PROVE  /\ DOMAIN Reaped = DOMAIN seq_list
           /\ \A i \in DOMAIN seq_list : /\ Reaped[i] \in {seq_list[i], SEQ_EXPIRED}
                                         /\ Reaped[i] \in Nat /\ Reaped[i] <= now
  BY Types DEF Reaped, packet_id_reap, SEQ_EXPIRED

LEMMA ReapedInv ==
    ASSUME IInv
    PROVE  WindowInv(Reaped, IF ReapDue THEN now ELSE last_reap)
<1> USE DEF SEQ_UNSEEN, SEQ_EXPIRED, Received
<1> TypeOK /\ WindowInv(seq_list, last_reap)
  BY DEF IInv
<1>1. CASE ReapDue /\ time_backtrack > 0
  <2> DEFINE L == Reaped
             Old(i) == /\ \A j \in DOMAIN seq_list : j >= i => seq_list[j] # SEQ_EXPIRED
                       /\ \E j \in DOMAIN seq_list : /\ j >= i /\ Received(seq_list, j)
                                                     /\ seq_list[j] + time_backtrack < now
  <2>1. L = [i \in DOMAIN seq_list |-> IF Old(i) THEN SEQ_EXPIRED ELSE seq_list[i]]
    BY <1>1 DEF Reaped, packet_id_reap
  <2>2. DOMAIN L = DOMAIN seq_list
    BY <2>1
  <2>3. \A i \in DOMAIN seq_list : L[i] = IF Old(i) THEN SEQ_EXPIRED ELSE seq_list[i]
    BY <2>1
  <2> HIDE DEF L
  <2>4. Remembers(L)
    BY <2>2, <2>3 DEF WindowInv, Remembers
  <2>5. Knows(L)
    BY <2>2, <2>3 DEF WindowInv, Knows
  <2>6. ExpiredForOld(L)
    <3> SUFFICES ASSUME NEW i \in DOMAIN seq_list, L[i] = SEQ_EXPIRED
                 PROVE  \E p \in DOMAIN accepted : /\ p.time = rec_time /\ p.id >= i
                                                   /\ accepted[p] + time_backtrack < now
      BY <2>2 DEF ExpiredForOld
    <3>1. CASE ~Old(i)
      <4>1. seq_list[i] = SEQ_EXPIRED
        BY <2>3, <3>1
      <4> QED BY <4>1 DEF WindowInv, ExpiredForOld
    <3>2. CASE Old(i)
      <4>1. PICK j \in DOMAIN seq_list : /\ j >= i /\ Received(seq_list, j)
                                         /\ seq_list[j] + time_backtrack < now
        BY <3>2
      <4>2. PICK p \in DOMAIN accepted : p.id = j /\ p.time = rec_time /\ accepted[p] = seq_list[j]
        BY <4>1 DEF WindowInv, Knows
      <4> QED BY <4>1, <4>2
    <3> QED BY <3>1, <3>2
  <2>7. ExpiredBelow(L)
    <3> SUFFICES ASSUME NEW i \in DOMAIN seq_list, NEW j \in DOMAIN seq_list,
                        i <= j, L[j] = SEQ_EXPIRED
                 PROVE  L[i] = SEQ_EXPIRED
      BY <2>2 DEF ExpiredBelow
    <3>1. CASE seq_list[j] = SEQ_EXPIRED
      BY <2>3, <3>1 DEF WindowInv, ExpiredBelow
    <3>2. CASE seq_list[j] # SEQ_EXPIRED
      <4>1. Old(j)
        BY <2>3, <3>2
      <4>2. CASE \E k \in DOMAIN seq_list : k >= i /\ seq_list[k] = SEQ_EXPIRED
        BY <4>2, <2>3 DEF WindowInv, ExpiredBelow
      <4>3. CASE \A k \in DOMAIN seq_list : k >= i => seq_list[k] # SEQ_EXPIRED
        <5>1. PICK k \in DOMAIN seq_list : /\ k >= j /\ Received(seq_list, k)
                                           /\ seq_list[k] + time_backtrack < now
          BY <4>1
        <5>2. k >= i
          BY <5>1, Types
        <5>3. Old(i)
          BY <4>3, <5>1, <5>2
        <5> QED BY <5>3, <2>3
      <4> QED BY <4>2, <4>3
    <3> QED BY <3>1, <3>2
  <2>8. FreshSince(L, now)
    <3> SUFFICES ASSUME NEW i \in DOMAIN seq_list, Received(L, i)
                 PROVE  L[i] + time_backtrack >= now
      BY <2>2 DEF FreshSince
    <3>1. ~Old(i) /\ L[i] = seq_list[i] /\ Received(seq_list, i)
      BY <2>3
    <3>2. \A k \in DOMAIN seq_list : k >= i => seq_list[k] # SEQ_EXPIRED
      BY <3>1 DEF WindowInv, ExpiredBelow
    <3>3. i >= i
      BY Types
    <3>4. ~(seq_list[i] + time_backtrack < now)
      BY <3>1, <3>2, <3>3
    <3> QED BY <3>1, <3>4, Types
  <2> QED BY <1>1, <2>4, <2>5, <2>6, <2>7, <2>8 DEF WindowInv, L
<1>2. CASE ~(ReapDue /\ time_backtrack > 0)
  <2>1. Reaped = seq_list
    BY <1>2 DEF Reaped
  <2>2. FreshSince(seq_list, IF ReapDue THEN now ELSE last_reap)
    BY <1>2 DEF WindowInv, FreshSince
  <2> QED BY <2>1, <2>2 DEF WindowInv
<1> QED BY <1>1, <1>2

\* The window of the highest id m.
Ids(m) == {i \in 1 .. m : i > m - seq_backtrack}

\* What packet_id_add makes of a window: it moves on to the packet if the
\* packet is beyond it, starts from nothing if the packet begins a sequence,
\* and changes one entry of what it keeps.
LEMMA AddWindow ==
    ASSUME IInv, NEW pin \in sent, Accepts(pin), seq_backtrack > 0, packet_id_add(Reaped, pin)
    PROVE  /\ rec_id' \in Nat /\ rec_id' >= 1 /\ rec_id' >= pin.id /\ rec_id' <= PACKET_ID_MAX
           /\ rec_time' = pin.time
           /\ DOMAIN seq_list' = Ids(rec_id')
           /\ pin.id \in DOMAIN seq_list' => seq_list'[pin.id] = now
           /\ seq_list' = [i \in DOMAIN seq_list' |-> seq_list'[i]]
           /\ \/ /\ pin.time > rec_time \/ DOMAIN accepted = {} \/ pin.id - seq_backtrack > rec_id
                 /\ rec_id' = pin.id
                 /\ pin.time = rec_time => rec_id' >= rec_id
                 /\ \A i \in DOMAIN seq_list' : i # pin.id => seq_list'[i] = SEQ_UNSEEN
              \/ /\ pin.time = rec_time /\ rec_id' >= rec_id
                 /\ \A i \in DOMAIN seq_list' : i # pin.id /\ i <= rec_id =>
                        i \in DOMAIN seq_list /\ seq_list'[i] = Reaped[i]
                 /\ \A i \in DOMAIN seq_list' : i # pin.id /\ i > rec_id => seq_list'[i] = SEQ_UNSEEN
                 /\ pin.id <= rec_id => pin.id \in DOMAIN seq_list /\ Reaped[pin.id] = SEQ_UNSEEN
<1> DEFINE begins == BeginsSequence(Reaped, pin)
           id == IF ~begins THEN rec_id
                 ELSE IF pin.id > seq_backtrack THEN pin.id - seq_backtrack ELSE 0
           old == IF begins THEN {} ELSE DOMAIN Reaped
           top == IF id < pin.id THEN pin.id ELSE id
           window == {i \in old \cup (id + 1 .. top) : i > top - seq_backtrack}
<1> TypeOK /\ RecInv
  BY DEF IInv
<1>0. /\ pin.id \in Nat /\ pin.id >= 1 /\ pin.id <= PACKET_ID_MAX /\ pin.time \in Nat
      /\ seq_backtrack \in Nat /\ rec_id \in Nat /\ rec_time \in Nat /\ PACKET_ID_MAX \in Nat
      /\ rec_id <= PACKET_ID_MAX
  BY Types
<1>1. /\ rec_time' = IF begins THEN pin.time ELSE rec_time
      /\ rec_id' = top
      /\ seq_list' = [i \in window |-> IF i = pin.id THEN now
                                       ELSE IF i \in old THEN Reaped[i] ELSE SEQ_UNSEEN]
  BY DEF packet_id_add
<1>2. DOMAIN Reaped = DOMAIN seq_list
  BY ReapedWindow
<1>3. DOMAIN seq_list = IF DOMAIN accepted = {} THEN {} ELSE Ids(rec_id)
  BY <1>0 DEF TypeOK, Ids
<1>4. begins <=> \/ DOMAIN seq_list = {} \/ pin.time > rec_time
                 \/ pin.id >= seq_backtrack /\ pin.id - seq_backtrack > rec_id
  BY <1>2 DEF BeginsSequence
<1>5. /\ pin.time >= rec_time
      /\ pin.time = rec_time /\ pin.id <= rec_id => pin.id \in DOMAIN seq_list /\ Reaped[pin.id] = SEQ_UNSEEN
  BY <1>0, <1>2 DEF Accepts, packet_id_test
<1>6. \A i \in window : seq_list'[i] = IF i = pin.id THEN now
                                       ELSE IF i \in old THEN Reaped[i] ELSE SEQ_UNSEEN
  BY <1>1
<1>7. DOMAIN seq_list' = window
  BY <1>1
<1>10. seq_list' = [i \in DOMAIN seq_list' |-> seq_list'[i]]
  BY <1>1
<1>8. CASE begins
  <2>1. id \in Nat /\ id < pin.id /\ top = pin.id
    BY <1>0, <1>8
  <2>2. window = Ids(pin.id)
    <3>1. window = {i \in id + 1 .. pin.id : i > pin.id - seq_backtrack}
      BY <2>1, <1>8
    <3>2. ASSUME NEW i \in Int PROVE i \in id + 1 .. pin.id /\ i > pin.id - seq_backtrack
                                     <=> i \in 1 .. pin.id /\ i > pin.id - seq_backtrack
      BY <1>0, <1>8, <2>1
    <3> QED BY <3>1, <3>2, <1>0, <2>1 DEF Ids
  <2>3. rec_id' = pin.id /\ rec_time' = pin.time
    BY <1>1, <1>8, <2>1
  <2>4. \A i \in DOMAIN seq_list' : seq_list'[i] = IF i = pin.id THEN now ELSE SEQ_UNSEEN
    BY <1>6, <1>7, <1>8
  <2>5. DOMAIN accepted = {} => rec_id = 0
    BY DEF RecInv
  <2>6. DOMAIN accepted # {} => DOMAIN seq_list # {}
    <3> SUFFICES ASSUME DOMAIN accepted # {} PROVE rec_id \in Ids(rec_id)
      BY <1>3
    <3> QED BY <1>0 DEF Ids, RecInv
  <2>7. pin.time > rec_time \/ DOMAIN accepted = {} \/ pin.id - seq_backtrack > rec_id
    <3> HIDE DEF begins
    <3>1. CASE DOMAIN seq_list = {}
      BY <2>6, <3>1
    <3>2. CASE pin.id >= seq_backtrack /\ pin.id - seq_backtrack > rec_id
      BY <1>0, <3>2
    <3> QED BY <1>4, <1>8, <3>1, <3>2
  <2> QED BY <1>0, <1>7, <1>10, <2>2, <2>3, <2>4, <2>5, <2>7
<1>9. CASE ~begins
  <2>1. pin.time = rec_time /\ DOMAIN accepted # {} /\ DOMAIN seq_list = Ids(rec_id)
    <3> HIDE DEF begins
    <3>1. DOMAIN seq_list # {} /\ ~(pin.time > rec_time)
      BY <1>4, <1>9
    <3>2. pin.time = rec_time
      BY <1>0, <1>5, <3>1
    <3> QED BY <1>3, <3>1, <3>2
  <2>2. /\ id = rec_id /\ old = Ids(rec_id)
        /\ top \in Nat /\ top >= rec_id /\ top >= pin.id /\ top <= PACKET_ID_MAX /\ top >= 1
        /\ top = rec_id \/ top = pin.id
    BY <1>0, <1>2, <1>9, <2>1
  <2>3. window = Ids(top)
    <3>1. window = {i \in Ids(rec_id) \cup (rec_id + 1 .. top) : i > top - seq_backtrack}
      BY <2>2
    <3> HIDE DEF top, window
    <3>2. ASSUME NEW i \in Int
          PROVE  i \in Ids(rec_id) \cup (rec_id + 1 .. top) /\ i > top - seq_backtrack <=> i \in Ids(top)
      BY <1>0, <2>2 DEF Ids
    <3>3. Ids(rec_id) \subseteq Int /\ Ids(top) \subseteq Int /\ rec_id + 1 .. top \subseteq Int
      BY DEF Ids
    <3> QED BY <3>1, <3>2, <3>3
  <2>4. rec_id' = top /\ rec_time' = rec_time
    BY <1>1, <1>9
  <2> HIDE DEF top, window, id, old
  <2>5. ASSUME NEW i \in Ids(top), i <= rec_id PROVE i \in Ids(rec_id)
    BY <1>0, <2>2, <2>5 DEF Ids
  <2>6. ASSUME NEW i \in Ids(top), i > rec_id PROVE i \notin Ids(rec_id)
    BY <1>0, <2>2, <2>6 DEF Ids
  <2>7. pin.id <= rec_id => pin.id \in DOMAIN seq_list /\ Reaped[pin.id] = SEQ_UNSEEN
    BY <1>5, <2>1
  <2> QED BY <1>6, <1>7, <1>10, <2>1, <2>2, <2>3, <2>4, <2>5, <2>6, <2>7
<1> QED BY <1>8, <1>9

-----------------------------------------------------------------------------
(* Receiving keeps the invariant.                                          *)

\* An accepted packet, with a window.
LEMMA AcceptWindow ==
    ASSUME IInv, NEW pin \in sent, crypto_check_replay(pin), Accepts(pin), seq_backtrack > 0
    PROVE  TypeOK' /\ RecInv' /\ WindowInv(seq_list, last_reap)'
<1> TypeOK /\ RecInv /\ packet_id_add(Reaped, pin)
  BY DEF IInv, crypto_check_replay
<1> DEFINE L == Reaped
           R == IF ReapDue THEN now ELSE last_reap
<1>0. /\ last_reap' = R
      /\ accepted' = [p \in DOMAIN accepted \cup {pin} |-> IF p = pin THEN now ELSE accepted[p]]
      /\ UNCHANGED <<now, long_form, seq_backtrack, send_id, send_time, sent>>
  BY DEF crypto_check_replay, send
<1>1. /\ DOMAIN accepted' = DOMAIN accepted \cup {pin}
      /\ accepted'[pin] = now
      /\ \A p \in DOMAIN accepted : p # pin => accepted'[p] = accepted[p]
  BY <1>0
<1>2. WindowInv(L, R)
  BY ReapedInv
<1>3. /\ DOMAIN L = DOMAIN seq_list
      /\ \A i \in DOMAIN seq_list : L[i] \in Nat /\ L[i] <= now
  BY ReapedWindow
<1>4. R \in Nat /\ R <= now
  BY Types
<1> HIDE DEF L, R
<1> DEFINE Anew == /\ pin.time > rec_time \/ DOMAIN accepted = {} \/ pin.id - seq_backtrack > rec_id
                   /\ rec_id' = pin.id
                   /\ pin.time = rec_time => rec_id' >= rec_id
                   /\ \A i \in DOMAIN seq_list' : i # pin.id => seq_list'[i] = SEQ_UNSEEN
           On == /\ pin.time = rec_time /\ rec_id' >= rec_id
                 /\ \A i \in DOMAIN seq_list' : i # pin.id /\ i <= rec_id =>
                        i \in DOMAIN seq_list /\ seq_list'[i] = L[i]
                 /\ \A i \in DOMAIN seq_list' : i # pin.id /\ i > rec_id => seq_list'[i] = SEQ_UNSEEN
                 /\ pin.id <= rec_id => pin.id \in DOMAIN seq_list /\ L[pin.id] = SEQ_UNSEEN
<1>5. /\ rec_id' \in Nat /\ rec_id' >= 1 /\ rec_id' >= pin.id /\ rec_id' <= PACKET_ID_MAX
      /\ rec_time' = pin.time
      /\ DOMAIN seq_list' = Ids(rec_id')
      /\ pin.id \in DOMAIN seq_list' => seq_list'[pin.id] = now
      /\ seq_list' = [i \in DOMAIN seq_list' |-> seq_list'[i]]
  BY AddWindow
<1>6. Anew \/ On
  BY AddWindow DEF L
<1>7. \A i \in DOMAIN seq_list' : i \in Nat /\ i >= 1 /\ i <= rec_id'
  BY <1>5 DEF Ids
<1>8. \A i \in DOMAIN seq_list' : seq_list'[i] \in Nat /\ seq_list'[i] <= now
  <2> SUFFICES ASSUME NEW i \in DOMAIN seq_list' PROVE seq_list'[i] \in Nat /\ seq_list'[i] <= now
    OBVIOUS
  <2>1. CASE i = pin.id
    BY <1>5, <2>1, Types
  <2>2. CASE seq_list'[i] = SEQ_UNSEEN
    BY <2>2, Types DEF SEQ_UNSEEN
  <2>3. CASE i \in DOMAIN seq_list /\ seq_list'[i] = L[i]
    BY <1>3, <2>3
  <2> QED BY <1>6, <1>7, <2>1, <2>2, <2>3, Types
<1>9. pin.time \in Nat /\ pin.time <= now /\ pin.id \in Nat /\ pin.id >= 1
  BY Types
<1>10. TypeOK'
  <2>1. rec_id' \in 0 .. PACKET_ID_MAX /\ rec_time' \in 0 .. now /\ last_reap' \in 0 .. now
    BY <1>0, <1>4, <1>5, <1>9, Types
  <2>2. DOMAIN accepted' \subseteq sent
    BY <1>1, Types
  <2>3. \A p \in DOMAIN accepted' : accepted'[p] \in 2 .. now
    BY <1>1, Types
  <2>4. seq_list' \in [DOMAIN seq_list' -> 0 .. now]
    BY <1>5, <1>8, Types
  <2>5. DOMAIN seq_list' = {i \in 1 .. rec_id' : i > rec_id' - seq_backtrack}
    BY <1>5 DEF Ids
  <2>6. DOMAIN accepted' # {} /\ seq_backtrack # 0
    BY <1>1, Types
  <2> QED BY <1>0, <2>1, <2>2, <2>3, <2>4, <2>5, <2>6 DEF TypeOK
<1>11. RecInv'
  <2>1. ASSUME NEW p \in DOMAIN accepted PROVE p.time < pin.time \/ (p.time = pin.time /\ p.id <= rec_id')
    <3>1. p.time < rec_time \/ (p.time = rec_time /\ p.id <= rec_id)
      BY DEF RecInv
    <3>2. /\ p.time \in Nat /\ p.id \in Nat /\ rec_time \in Nat /\ rec_id \in Nat
      BY Types
    <3>3. pin.time > rec_time \/ (pin.time = rec_time /\ rec_id' >= rec_id)
      <4>1. pin.time >= rec_time
        BY <1>9, <3>2 DEF Accepts, packet_id_test
      <4> QED BY <1>6, <1>9, <3>2, <4>1
    <3> QED BY <1>5, <1>9, <3>1, <3>2, <3>3
  <2> QED BY <1>1, <1>5, <1>9, <2>1 DEF RecInv
<1>12. ASSUME NEW p \in DOMAIN accepted, p # pin, p.time = pin.time
       PROVE  p.id # pin.id
  BY <1>12, Types
<1>13. Remembers(seq_list)'
  <2> SUFFICES ASSUME NEW p \in DOMAIN accepted', p.time = pin.time, p.id \in DOMAIN seq_list'
               PROVE  seq_list'[p.id] \in {accepted'[p], SEQ_EXPIRED}
    BY <1>5 DEF Remembers, SEQ_EXPIRED
  <2>1. CASE p = pin
    BY <2>1, <1>1, <1>5
  <2>2. CASE p # pin
    <3>1. p \in DOMAIN accepted /\ accepted'[p] = accepted[p] /\ p.id # pin.id
      BY <1>1, <1>12, <2>2
    <3>2. p.time < rec_time \/ (p.time = rec_time /\ p.id <= rec_id)
      BY <3>1 DEF RecInv
    <3>3. /\ p.time \in Nat /\ p.id \in Nat /\ rec_time \in Nat /\ rec_id \in Nat
      BY <3>1, Types
    <3>4. CASE Anew
      <4>1. pin.time >= rec_time
        BY <1>9, <3>3 DEF Accepts, packet_id_test
      <4>2. pin.id - seq_backtrack > rec_id /\ p.id <= rec_id
        BY <3>1, <3>2, <3>3, <3>4, <1>9, <4>1
      <4>3. p.id > rec_id' - seq_backtrack
        BY <1>5 DEF Ids
      <4> QED BY <1>9, <3>3, <3>4, <4>2, <4>3, Types
    <3>5. CASE On
      <4>1. p.time = rec_time /\ p.id <= rec_id
        BY <3>2, <3>3, <3>5
      <4>2. p.id \in DOMAIN seq_list /\ seq_list'[p.id] = L[p.id]
        BY <3>1, <3>5, <4>1
      <4> QED BY <1>2, <1>3, <3>1, <4>1, <4>2 DEF WindowInv, Remembers
    <3> QED BY <1>6, <3>4, <3>5
  <2> QED BY <2>1, <2>2
\* Where an entry of the new window comes from.
<1>14. ASSUME NEW i \in DOMAIN seq_list'
       PROVE  \/ i = pin.id /\ seq_list'[i] = now
              \/ i # pin.id /\ seq_list'[i] = SEQ_UNSEEN
              \/ /\ pin.time = rec_time /\ i # pin.id /\ i \in DOMAIN L /\ i <= rec_id
                 /\ seq_list'[i] = L[i]
  <2>1. rec_id \in Nat /\ i \in Nat
    BY <1>7, Types
  <2> QED BY <1>3, <1>5, <1>6, <2>1
<1>15. Knows(seq_list)'
  <2> SUFFICES ASSUME NEW i \in DOMAIN seq_list', seq_list'[i] \notin {SEQ_UNSEEN, SEQ_EXPIRED}
               PROVE  \E p \in DOMAIN accepted' : /\ p.id = i /\ p.time = pin.time
                                                  /\ accepted'[p] = seq_list'[i]
    BY <1>5 DEF Knows, Received, SEQ_UNSEEN, SEQ_EXPIRED
  <2>1. CASE i = pin.id
    BY <1>1, <1>5, <2>1
  <2>2. CASE i # pin.id
    <3>1. i \in DOMAIN L /\ seq_list'[i] = L[i] /\ pin.time = rec_time
      BY <1>14, <2>2
    <3>2. PICK p \in DOMAIN accepted : p.id = i /\ p.time = rec_time /\ accepted[p] = L[i]
      BY <1>2, <3>1 DEF WindowInv, Knows, Received
    <3> QED BY <1>1, <2>2, <3>1, <3>2
  <2> QED BY <2>1, <2>2
<1>16. now # SEQ_EXPIRED /\ now # SEQ_UNSEEN /\ SEQ_UNSEEN # SEQ_EXPIRED
  BY Types DEF SEQ_EXPIRED, SEQ_UNSEEN
\* An id that has expired is not the packet's.
<1>17. ASSUME NEW i \in DOMAIN seq_list', seq_list'[i] = SEQ_EXPIRED
       PROVE  /\ pin.time = rec_time /\ i # pin.id /\ i \in DOMAIN L /\ i <= rec_id
              /\ L[i] = SEQ_EXPIRED
  BY <1>14, <1>16, <1>17
<1>18. ExpiredForOld(seq_list)'
  <2> SUFFICES ASSUME NEW i \in DOMAIN seq_list', seq_list'[i] = SEQ_EXPIRED
               PROVE  \E p \in DOMAIN accepted' : /\ p.time = pin.time /\ p.id >= i
                                                  /\ accepted'[p] + time_backtrack < now
    BY <1>0, <1>5 DEF ExpiredForOld, SEQ_EXPIRED
  <2>1. i \in DOMAIN L /\ L[i] = SEQ_EXPIRED /\ pin.time = rec_time
    BY <1>17
  <2>2. PICK p \in DOMAIN accepted : /\ p.time = rec_time /\ p.id >= i
                                     /\ accepted[p] + time_backtrack < now
    BY <1>2, <2>1 DEF WindowInv, ExpiredForOld
  <2>3. p # pin
    <3> SUFFICES ASSUME p = pin PROVE FALSE
      OBVIOUS
    <3>1. pin.id <= rec_id
      BY <2>1, <2>2, Types DEF RecInv
    <3>2. pin.id \in DOMAIN L /\ L[pin.id] = SEQ_UNSEEN
      BY <1>3, <2>1, <3>1, Types DEF Accepts, packet_id_test, L
    <3>3. L[pin.id] \in {accepted[p], SEQ_EXPIRED}
      BY <1>2, <2>2, <3>2 DEF WindowInv, Remembers
    <3> QED BY <1>16, <3>2, <3>3, Types DEF SEQ_UNSEEN
  <2> QED BY <1>1, <2>1, <2>2, <2>3
<1>19. ExpiredBelow(seq_list)'
  <2> SUFFICES ASSUME NEW i \in DOMAIN seq_list', NEW j \in DOMAIN seq_list',
                      i <= j, seq_list'[j] = SEQ_EXPIRED
               PROVE  seq_list'[i] = SEQ_EXPIRED
    BY DEF ExpiredBelow, SEQ_EXPIRED
  <2>1. pin.time = rec_time /\ j # pin.id /\ j \in DOMAIN L /\ j <= rec_id /\ L[j] = SEQ_EXPIRED
    BY <1>17
  <2>2. i \in Nat /\ j \in Nat /\ rec_id \in Nat
    BY <1>7, Types
  <2>3. ~Anew
    <3> SUFFICES ASSUME Anew PROVE FALSE
      OBVIOUS
    <3>1. seq_list'[j] = SEQ_UNSEEN
      BY <2>1
    <3> QED BY <3>1, <1>16
  <2>4. On
    BY <1>6, <2>3
  <2>5. i <= rec_id
    BY <2>1, <2>2
  <2>6. i # pin.id
    <3> SUFFICES ASSUME i = pin.id PROVE FALSE
      OBVIOUS
    <3>1. i \in DOMAIN L /\ L[i] = SEQ_UNSEEN
      BY <1>3, <2>4, <2>5
    <3>2. L[i] = SEQ_EXPIRED
      BY <1>2, <2>1, <3>1 DEF WindowInv, ExpiredBelow
    <3> QED BY <1>16, <3>1, <3>2
  <2>7. i \in DOMAIN L /\ seq_list'[i] = L[i]
    BY <1>3, <2>4, <2>5, <2>6
  <2> QED BY <1>2, <2>1, <2>7 DEF WindowInv, ExpiredBelow
<1>20. FreshSince(seq_list, last_reap)'
  <2> SUFFICES ASSUME time_backtrack > 0,
                      NEW i \in DOMAIN seq_list', seq_list'[i] \notin {SEQ_UNSEEN, SEQ_EXPIRED}
               PROVE  seq_list'[i] + time_backtrack >= R
    BY <1>0 DEF FreshSince, Received, SEQ_UNSEEN, SEQ_EXPIRED
  <2>1. CASE seq_list'[i] = now
    BY <1>4, <2>1, Types
  <2>2. CASE i \in DOMAIN L /\ seq_list'[i] = L[i]
    BY <1>2, <2>2 DEF WindowInv, FreshSince, Received
  <2> QED BY <1>14, <2>1, <2>2
<1> QED BY <1>10, <1>11, <1>13, <1>15, <1>18, <1>19, <1>20 DEF WindowInv

\* An accepted packet, without a window.
LEMMA AcceptNext ==
    ASSUME IInv, NEW pin \in sent, crypto_check_replay(pin), Accepts(pin), ~(seq_backtrack > 0)
    PROVE  TypeOK' /\ RecInv' /\ WindowInv(seq_list, last_reap)'
<1> TypeOK /\ RecInv
  BY DEF IInv
<1>0. /\ last_reap' = IF ReapDue THEN now ELSE last_reap
      /\ accepted' = [p \in DOMAIN accepted \cup {pin} |-> IF p = pin THEN now ELSE accepted[p]]
      /\ rec_time' = pin.time /\ rec_id' = pin.id
      /\ UNCHANGED <<now, long_form, seq_backtrack, send_id, send_time, sent, seq_list>>
  BY DEF crypto_check_replay, packet_id_add, send
<1>1. /\ DOMAIN accepted' = DOMAIN accepted \cup {pin}
      /\ accepted'[pin] = now
      /\ \A p \in DOMAIN accepted : p # pin => accepted'[p] = accepted[p]
  BY <1>0
<1>2. DOMAIN seq_list = {}
  BY Types DEF TypeOK
<1>3. TypeOK'
  <2>1. pin.id \in 0 .. PACKET_ID_MAX /\ pin.time \in 0 .. now
    BY Types
  <2>2. last_reap' \in 0 .. now
    BY <1>0, Types
  <2>3. \A p \in DOMAIN accepted' : p \in sent /\ accepted'[p] \in 2 .. now
    BY <1>1, Types
  <2>4. seq_backtrack = 0
    BY Types
  <2> QED BY <1>0, <1>2, <2>1, <2>2, <2>3, <2>4 DEF TypeOK
<1>4. RecInv'
  <2>1. ASSUME NEW p \in DOMAIN accepted PROVE p.time < pin.time \/ (p.time = pin.time /\ p.id <= pin.id)
    <3>1. p.time < rec_time \/ (p.time = rec_time /\ p.id <= rec_id)
      BY DEF RecInv
    <3>2. p.time \in Nat /\ p.id \in Nat /\ rec_time \in Nat /\ rec_id \in Nat
          /\ pin.time \in Nat /\ pin.id \in Nat
      BY Types
    <3>3. rec_id # 0
      BY DEF RecInv
    <3>4. pin.time > rec_time \/ (pin.time = rec_time /\ pin.id = rec_id + 1)
      BY <3>3 DEF Accepts, packet_id_test
    <3> QED BY <3>1, <3>2, <3>4
  <2>2. pin.id >= 1 /\ pin.id \in Nat /\ pin.time \in Nat
    BY Types
  <2> QED BY <1>0, <1>1, <2>1, <2>2 DEF RecInv
<1>5. WindowInv(seq_list, last_reap)'
  BY <1>0, <1>2 DEF WindowInv, Remembers, Knows, ExpiredForOld, ExpiredBelow, FreshSince
<1> QED BY <1>3, <1>4, <1>5

\* A packet that is not accepted.
LEMMA Reject ==
    ASSUME IInv, NEW pin \in sent, crypto_check_replay(pin), ~Accepts(pin)
    PROVE  TypeOK' /\ RecInv' /\ WindowInv(seq_list, last_reap)'
<1> TypeOK /\ RecInv
  BY DEF IInv
<1>0. /\ last_reap' = IF ReapDue THEN now ELSE last_reap
      /\ seq_list' = Reaped
      /\ UNCHANGED <<now, long_form, seq_backtrack, send_id, send_time, rec_id, rec_time, sent, accepted>>
  BY DEF crypto_check_replay, send
<1>1. WindowInv(Reaped, IF ReapDue THEN now ELSE last_reap)
  BY ReapedInv
<1>2. TypeOK'
  <2>1. last_reap' \in 0 .. now
    BY <1>0, Types
  <2>2. seq_list' \in [DOMAIN seq_list' -> 0 .. now] /\ DOMAIN seq_list' = DOMAIN seq_list
    <3>1. DOMAIN Reaped = DOMAIN seq_list /\ \A i \in DOMAIN seq_list : Reaped[i] \in 0 .. now
      BY ReapedWindow, Types
    <3>2. Reaped = [i \in DOMAIN Reaped |-> Reaped[i]]
      BY DEF Reaped, packet_id_reap, TypeOK
    <3> QED BY <1>0, <3>1, <3>2
  <2> QED BY <1>0, <2>1, <2>2 DEF TypeOK
<1>3. RecInv'
  BY <1>0 DEF RecInv
<1>4. WindowInv(seq_list, last_reap)'
  BY <1>0, <1>1 DEF WindowInv, Remembers, Knows, ExpiredForOld, ExpiredBelow, FreshSince, Received, SEQ_UNSEEN, SEQ_EXPIRED
<1> QED BY <1>2, <1>3, <1>4

-----------------------------------------------------------------------------
(* The invariant.                                                          *)

\* The next packet lies after everything that was sent.
LEMMA NextIsNew ==
    ASSUME TypeOK, SendInv, CanSend
    PROVE  /\ NextId \in Nat /\ NextId >= 1 /\ NextId <= PACKET_ID_MAX
           /\ NextTime \in Nat /\ NextTime >= 1 /\ NextTime <= now /\ NextTime >= send_time
           /\ NextPacket.id = NextId
           /\ NextPacket.time = IF long_form THEN NextTime ELSE 0
           /\ \A p \in sent : IF long_form
                              THEN p.time < NextTime \/ (p.time = NextTime /\ p.id < NextId)
                              ELSE p.id < NextId
<1>1. NextPacket.id = NextId /\ NextPacket.time = IF long_form THEN NextTime ELSE 0
  BY DEF NextPacket
<1>2. /\ NextId \in Nat /\ NextId >= 1 /\ NextId <= PACKET_ID_MAX
      /\ NextTime \in Nat /\ NextTime >= 1 /\ NextTime <= now /\ NextTime >= send_time
  BY Types DEF NextId, NextTime, StartedAt, RollsOver
<1>3. ASSUME NEW p \in sent
      PROVE  IF long_form THEN p.time < NextTime \/ (p.time = NextTime /\ p.id < NextId)
                          ELSE p.id < NextId
  <2>1. send_time # 0 /\ p.id \in Nat /\ p.time \in Nat
    BY Types DEF SendInv
  <2>2. CASE RollsOver
    <3>1. long_form /\ NextTime = now /\ now > send_time
      BY <2>1, <2>2 DEF CanSend, StartedAt, NextTime
    <3> QED BY <2>1, <3>1, Types DEF SendInv
  <2>3. CASE ~RollsOver
    <3>1. NextTime = send_time /\ NextId = send_id + 1
      BY <2>1, <2>3 DEF NextTime, StartedAt, NextId
    <3>2. send_id \in Nat /\ send_time \in Nat
      BY Types
    <3>3. CASE long_form
      <4>1. p.time < send_time \/ (p.time = send_time /\ p.id <= send_id)
        BY <3>3 DEF SendInv
      <4> QED BY <2>1, <3>1, <3>2, <3>3, <4>1
    <3>4. CASE ~long_form
      <4>1. p.id <= send_id
        BY <3>4 DEF SendInv
      <4> QED BY <2>1, <3>1, <3>2, <3>4, <4>1
    <3> QED BY <3>3, <3>4
  <2> QED BY <2>2, <2>3
<1> QED BY <1>1, <1>2, <1>3

LEMMA Initially == Init => IInv
  BY BacktrackAssumption, TimeAssumption, MaxAssumption
  DEF Init, IInv, TypeOK, SendInv, RecInv, WindowInv, Remembers, Knows, ExpiredForOld, ExpiredBelow,
      FreshSince, SEQ_EXPIRED

LEMMA Sends ==
    ASSUME IInv, packet_id_write
    PROVE  IInv'
<1> TypeOK /\ SendInv /\ RecInv /\ WindowInv(seq_list, last_reap)
  BY DEF IInv
<1>1. /\ CanSend
      /\ send_id' = NextId /\ send_time' = NextTime /\ sent' = sent \cup {NextPacket}
      /\ UNCHANGED <<now, long_form, seq_backtrack, rec_id, rec_time, seq_list, last_reap, accepted>>
  BY DEF packet_id_write, rec
<1>2. TypeOK'
  <2>1. NextId \in 0 .. PACKET_ID_MAX /\ NextTime \in 0 .. now
    BY <1>1, NextIsNew, Types
  <2>2. NextPacket \in [id : 1 .. PACKET_ID_MAX, time : 0 .. now]
    BY <1>1, NextIsNew, Types DEF NextPacket
  <2> QED BY <1>1, <2>1, <2>2 DEF TypeOK
<1>3. SendInv'
  <2>1. NextTime # 0
    BY <1>1, NextIsNew
  <2>2. ASSUME NEW p \in sent
        PROVE  IF long_form THEN p.time < NextTime \/ (p.time = NextTime /\ p.id <= NextId)
                            ELSE p.time = 0 /\ p.id <= NextId
    <3>1. p.id \in Nat /\ p.time \in Nat /\ NextId \in Nat
      BY <1>1, NextIsNew, Types
    <3>2. IF long_form THEN p.time < NextTime \/ (p.time = NextTime /\ p.id < NextId)
                       ELSE p.id < NextId
      BY <1>1, NextIsNew
    <3>3. ~long_form => p.time = 0
      BY DEF SendInv
    <3> QED BY <3>1, <3>2, <3>3
  <2>3. IF long_form THEN NextPacket.time = NextTime /\ NextPacket.id <= NextId
                     ELSE NextPacket.time = 0 /\ NextPacket.id <= NextId
    BY <1>1, NextIsNew
  <2> QED BY <1>1, <2>1, <2>2, <2>3 DEF SendInv
<1>4. RecInv'
  BY <1>1 DEF RecInv
<1>5. WindowInv(seq_list, last_reap)'
  BY <1>1 DEF WindowInv, Remembers, Knows, ExpiredForOld, ExpiredBelow, FreshSince, Received,
              SEQ_UNSEEN, SEQ_EXPIRED
<1> QED BY <1>2, <1>3, <1>4, <1>5 DEF IInv

LEMMA Ticks ==
    ASSUME IInv, Tick
    PROVE  IInv'
<1> TypeOK /\ SendInv /\ RecInv /\ WindowInv(seq_list, last_reap)
  BY DEF IInv
<1>1. /\ now' = now + 1 /\ now < MaxNow
      /\ UNCHANGED <<long_form, seq_backtrack, send_id, send_time, rec_id, rec_time, seq_list,
                     last_reap, sent, accepted>>
  BY DEF Tick, send, rec
<1>2. TypeOK'
  <2>1. now' \in 2 .. MaxNow /\ 0 .. now \subseteq 0 .. now' /\ 2 .. now \subseteq 2 .. now'
    BY <1>1, Types, TimeAssumption
  <2>2. seq_list' \in [DOMAIN seq_list' -> 0 .. now']
    BY <1>1, <2>1 DEF TypeOK
  <2>3. sent' \subseteq [id : 1 .. PACKET_ID_MAX, time : 0 .. now']
    BY <1>1, <2>1 DEF TypeOK
  <2> QED BY <1>1, <2>1, <2>2, <2>3 DEF TypeOK
<1>3. SendInv' /\ RecInv'
  BY <1>1 DEF SendInv, RecInv
<1>4. ExpiredForOld(seq_list)'
  <2> SUFFICES ASSUME NEW i \in DOMAIN seq_list, seq_list[i] = SEQ_EXPIRED
               PROVE  \E p \in DOMAIN accepted : /\ p.time = rec_time /\ p.id >= i
                                                 /\ accepted[p] + time_backtrack < now + 1
    BY <1>1 DEF ExpiredForOld, SEQ_EXPIRED
  <2>1. PICK p \in DOMAIN accepted : /\ p.time = rec_time /\ p.id >= i
                                     /\ accepted[p] + time_backtrack < now
    BY DEF WindowInv, ExpiredForOld
  <2> QED BY <2>1, Types
<1>5. WindowInv(seq_list, last_reap)'
  BY <1>1, <1>4 DEF WindowInv, Remembers, Knows, ExpiredBelow, FreshSince, Received,
              SEQ_UNSEEN, SEQ_EXPIRED
<1> QED BY <1>2, <1>3, <1>5 DEF IInv

LEMMA Receives ==
    ASSUME IInv, NEW pin \in sent, crypto_check_replay(pin)
    PROVE  IInv'
<1>1. TypeOK' /\ RecInv' /\ WindowInv(seq_list, last_reap)'
  BY AcceptWindow, AcceptNext, Reject
<1>2. SendInv'
  BY DEF IInv, SendInv, crypto_check_replay, send
<1> QED BY <1>1, <1>2 DEF IInv

\* Sending, receiving and the passing of time keep the invariant.
THEOREM Invariance == Spec => []IInv
<1>1. ASSUME IInv, [Next]_vars PROVE IInv'
  <2>1. CASE packet_id_write
    BY <1>1, <2>1, Sends
  <2>2. CASE Tick
    BY <1>1, <2>2, Ticks
  <2>3. CASE \E pin \in sent : crypto_check_replay(pin)
    BY <1>1, <2>3, Receives
  <2>4. CASE UNCHANGED vars
    BY <1>1, <2>4 DEF vars, IInv, TypeOK, SendInv, RecInv, WindowInv, Remembers, Knows, ExpiredForOld,
                      ExpiredBelow, FreshSince, Received, SEQ_UNSEEN, SEQ_EXPIRED
  <2> QED BY <1>1, <2>1, <2>2, <2>3, <2>4 DEF Next
<1> QED BY <1>1, Initially, PTL DEF Spec

-----------------------------------------------------------------------------
(* The properties.                                                         *)

\* Every variable of packet_id.h keeps its type, and seq_list covers exactly
\* the ids behind the highest one.
THEOREM TypeCorrect == Spec => []TypeOK
<1>1. IInv => TypeOK
  BY DEF IInv
<1> QED BY <1>1, Invariance, PTL

\* crypto_check_replay accepts no packet twice.
THEOREM NeverReplayed == Spec => []NoReplay
<1>1. ASSUME IInv PROVE NoReplay
  <2> TypeOK /\ RecInv
    BY <1>1 DEF IInv
  <2> SUFFICES ASSUME NEW p \in DOMAIN accepted PROVE ~packet_id_test(Reaped, p)
    BY DEF NoReplay, Accepts
  <2>1. /\ p.time \in Nat /\ p.id \in Nat /\ rec_time \in Nat /\ rec_id \in Nat
        /\ accepted[p] \in Nat /\ accepted[p] >= 2
    BY Types
  <2>2. p.time < rec_time \/ (p.time = rec_time /\ p.id <= rec_id /\ rec_id # 0)
    BY DEF RecInv
  <2>3. p.time = rec_time /\ p.id \in DOMAIN Reaped => Reaped[p.id] # SEQ_UNSEEN
    BY <1>1, <2>1, ReapedInv DEF WindowInv, Remembers, SEQ_UNSEEN, SEQ_EXPIRED
  <2> QED BY <2>1, <2>2, <2>3 DEF packet_id_test
<1> QED BY <1>1, Invariance, PTL

\* crypto_check_replay accepts what the window allows to come late.
THEOREM InTimeAccepted == Spec => []InTimeIsAccepted
<1>1. ASSUME IInv PROVE InTimeIsAccepted
  <2> TypeOK /\ RecInv
    BY <1>1 DEF IInv
  <2>1. ASSUME NEW p \in sent \ DOMAIN accepted, seq_backtrack > 0, p.time >= rec_time,
               p.time = rec_time => p.id > rec_id - seq_backtrack,
               \A q \in DOMAIN accepted :
                   q.time = p.time /\ q.id > p.id => accepted[q] + time_backtrack >= now
        PROVE  packet_id_test(Reaped, p)
    <3>0. /\ p.time \in Nat /\ p.id \in Nat /\ p.id >= 1 /\ rec_time \in Nat /\ rec_id \in Nat
          /\ seq_backtrack \in Nat /\ p = [id |-> p.id, time |-> p.time]
      BY Types
    <3>1. CASE p.time > rec_time \/ p.id > rec_id
      BY <2>1, <3>0, <3>1 DEF packet_id_test
    <3>2. CASE p.time = rec_time /\ p.id <= rec_id
      <4>1. p.id \in DOMAIN Reaped
        BY <2>1, <3>0, <3>2, ReapedWindow DEF TypeOK, RecInv
      <4>2. WindowInv(Reaped, IF ReapDue THEN now ELSE last_reap)
        BY <1>1, ReapedInv
      <4>3. ~Received(Reaped, p.id)
        <5> SUFFICES ASSUME Received(Reaped, p.id) PROVE FALSE
          OBVIOUS
        <5>1. PICK q \in DOMAIN accepted : q.id = p.id /\ q.time = rec_time
          BY <4>1, <4>2 DEF WindowInv, Knows
        <5>2. q = [id |-> q.id, time |-> q.time]
          BY Types
        <5>3. q = p
          BY <3>0, <3>2, <5>1, <5>2
        <5> QED BY <5>3
      <4>4. Reaped[p.id] # SEQ_EXPIRED
        <5> SUFFICES ASSUME Reaped[p.id] = SEQ_EXPIRED PROVE FALSE
          OBVIOUS
        <5>1. PICK q \in DOMAIN accepted : /\ q.time = rec_time /\ q.id >= p.id
                                           /\ accepted[q] + time_backtrack < now
          BY <4>1, <4>2 DEF WindowInv, ExpiredForOld
        <5>2. /\ q = [id |-> q.id, time |-> q.time] /\ q.id \in Nat
              /\ accepted[q] \in Nat /\ time_backtrack \in Nat /\ now \in Nat
          BY Types
        <5>3. q.id # p.id
          BY <3>0, <3>2, <5>1, <5>2
        <5>4. accepted[q] + time_backtrack >= now
          BY <2>1, <3>0, <3>2, <5>1, <5>2, <5>3
        <5> QED BY <5>1, <5>2, <5>4
      <4> QED BY <2>1, <3>2, <4>1, <4>3, <4>4 DEF packet_id_test, Received
    <3> QED BY <2>1, <3>0, <3>1, <3>2
  <2>2. ASSUME NEW p \in sent \ DOMAIN accepted, ~(seq_backtrack > 0),
               p.time = rec_time, p.id = rec_id + 1
        PROVE  packet_id_test(Reaped, p)
    BY <2>2 DEF packet_id_test
  <2> QED BY <2>1, <2>2 DEF InTimeIsAccepted, Accepts
<1> QED BY <1>1, Invariance, PTL

\* crypto_check_replay does not accept what comes too late.
THEOREM LateRejected == Spec => []LateIsRejected
<1>1. ASSUME IInv PROVE LateIsRejected
  <2> TypeOK /\ RecInv
    BY <1>1 DEF IInv
  <2> SUFFICES ASSUME time_backtrack > 0, seq_backtrack > 0, NEW p \in sent, NEW q \in DOMAIN accepted,
                      q.time = p.time, q.id >= p.id,
                      accepted[q] + time_backtrack + SEQ_REAP_INTERVAL <= now
               PROVE  ~packet_id_test(Reaped, p)
    BY DEF LateIsRejected, Accepts
  <2> DEFINE R == IF ReapDue THEN now ELSE last_reap
  <2>0. /\ p.time \in Nat /\ p.id \in Nat /\ p.id >= 1 /\ rec_time \in Nat /\ rec_id \in Nat
        /\ q.id \in Nat /\ accepted[q] \in Nat /\ accepted[q] >= 2
        /\ time_backtrack \in Nat /\ SEQ_REAP_INTERVAL \in Nat /\ SEQ_REAP_INTERVAL > 0
        /\ now \in Nat /\ last_reap \in Nat /\ seq_backtrack \in Nat
    BY Types
  <2>1. p.time < rec_time \/ (p.time = rec_time /\ p.id <= rec_id /\ q.id <= rec_id)
    BY <2>0 DEF RecInv
  <2>2. CASE p.time = rec_time /\ p.id \in DOMAIN Reaped
    <3>1. WindowInv(Reaped, R)
      BY <1>1, ReapedInv
    <3>2. accepted[q] + time_backtrack < R
      BY <2>0 DEF ReapDue
    <3>3. q.id \in DOMAIN Reaped
      <4>1. p.id \in DOMAIN seq_list
        BY <2>2, ReapedWindow
      <4>2. p.id > rec_id - seq_backtrack
        BY <4>1, Types
      <4>3. q.id \in 1 .. rec_id /\ q.id > rec_id - seq_backtrack
        BY <2>0, <2>1, <2>2, <4>2
      <4> QED BY <2>0, <4>1, <4>3, ReapedWindow DEF TypeOK
    <3>4. Reaped[q.id] \in {accepted[q], SEQ_EXPIRED}
      BY <2>2, <3>1, <3>3 DEF WindowInv, Remembers
    <3>5. Reaped[q.id] = SEQ_EXPIRED
      <4> SUFFICES ASSUME Reaped[q.id] = accepted[q], accepted[q] # SEQ_EXPIRED PROVE FALSE
        BY <3>4
      <4>1. Received(Reaped, q.id)
        BY <2>0 DEF Received, SEQ_UNSEEN, SEQ_EXPIRED
      <4>2. Reaped[q.id] + time_backtrack >= R
        BY <3>1, <3>3, <4>1 DEF WindowInv, FreshSince
      <4>3. R \in Nat
        BY <2>0
      <4> QED BY <2>0, <3>2, <4>2, <4>3
    <3>6. Reaped[p.id] = SEQ_EXPIRED
      BY <2>2, <3>1, <3>3, <3>5 DEF WindowInv, ExpiredBelow
    <3> QED BY <2>0, <2>1, <2>2, <3>6 DEF packet_id_test, SEQ_UNSEEN, SEQ_EXPIRED
  <2>3. CASE p.time = rec_time /\ p.id \notin DOMAIN Reaped
    BY <2>0, <2>1, <2>3 DEF packet_id_test
  <2>4. CASE p.time < rec_time
    BY <2>0, <2>4 DEF packet_id_test
  <2> QED BY <2>1, <2>2, <2>3, <2>4
<1> QED BY <1>1, Invariance, PTL

\* packet_id_write never repeats an id with the same time stamp.
THEOREM NeverReused == Spec => []NoReuse
<1>1. ASSUME IInv PROVE NoReuse
  <2> TypeOK /\ SendInv
    BY <1>1 DEF IInv
  <2> SUFFICES ASSUME CanSend, NextPacket \in sent PROVE FALSE
    BY DEF NoReuse
  <2>1. /\ NextPacket.id = NextId /\ NextId \in Nat /\ NextTime \in Nat
        /\ NextPacket.time = IF long_form THEN NextTime ELSE 0
    BY NextIsNew
  <2>2. IF long_form THEN NextPacket.time < NextTime \/ (NextPacket.time = NextTime /\ NextPacket.id < NextId)
                     ELSE NextPacket.id < NextId
    BY NextIsNew
  <2> QED BY <2>1, <2>2
<1> QED BY <1>1, Invariance, PTL
=============================================================================
