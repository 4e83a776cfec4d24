------------------------ MODULE SubscriptionsProofs ------------------------
(***************************************************************************)
(* Proofs about mutation events, for any number of channels, receivers,    *)
(* events and faults and any capacity: SubsInv is inductive, and with it   *)
(* between two outages no event is lost between its commit and a receiver  *)
(* without the receiver being told, the LISTENs match the senders through  *)
(* failing calls and lost connections, and a converted key is sent.        *)
(***************************************************************************)
EXTENDS Subscriptions, TLAPS, SequenceTheorems

Notification == [channel : Channels, event : Nat]
Receiver == [channel : Channels \cup {"none"}, first : Nat, next : Nat, got : Seq(Nat), lagged : Nat]

(* One sequence continues another. *)
Continues(t, s) == /\ Len(s) <= Len(t)
                   /\ \A i \in 1..Len(s) : t[i] = s[i]

LEMMA AppendContinues ==
    ASSUME NEW S, NEW s \in Seq(S), NEW x \in S
    PROVE  /\ Append(s, x) \in Seq(S) /\ Continues(Append(s, x), s)
           /\ Len(Append(s, x)) = Len(s) + 1 /\ Append(s, x)[Len(s) + 1] = x
           /\ \A i \in 1..Len(Append(s, x)) : i \in 1..Len(s) \/ i = Len(s) + 1
<1>1. /\ Append(s, x) \in Seq(S) /\ Len(Append(s, x)) = Len(s) + 1 /\ Len(s) \in Nat
      /\ \A i \in 1..Len(s) : Append(s, x)[i] = s[i]
      /\ Append(s, x)[Len(s) + 1] = x
  BY AppendProperties, LenProperties
<1> QED  BY <1>1 DEF Continues

(* The state of one receiver, as both invariants on receivers have it. *)
Reader(x) ==
    x.channel # "none" =>
      /\ x.channel \in DOMAIN channels
      /\ 1 <= x.first /\ x.first <= x.next /\ x.next <= Len(channels[x.channel]) + 1
      /\ \A i \in 1..Len(x.got) :
           \E k \in 1..Len(channels[x.channel]) : k < x.next /\ x.got[i] = channels[x.channel][k]
      /\ \A i \in 1..Len(x.got) : committed[x.got[i]] = x.channel
      /\ InOrder(x.got)
      /\ Len(x.got) + x.lagged = x.next - x.first

LEMMA ReaderView ==
    ReadsFromLog /\ ReadsInOrder <=> \A r \in Receivers : Reader(receivers[r])
  BY DEF ReadsFromLog, ReadsInOrder, Reader

LEMMA ReaderViewNext ==
    (\A r \in Receivers : Reader(receivers[r])') => ReadsFromLog' /\ ReadsInOrder'
  BY DEF ReadsFromLog, ReadsInOrder, Reader

(* A receiver is not affected when logs and commits only grow. *)
LEMMA ReaderKept ==
    ASSUME SubsTypeOK, LogsInOrder, ListensMatch, NEW x \in Receiver, Reader(x),
           Continues(committed', committed),
           x.channel # "none" =>
             /\ x.channel \in DOMAIN channels'
             /\ channels'[x.channel] \in Seq(Nat)
             /\ Continues(channels'[x.channel], channels[x.channel])
    PROVE  Reader(x)'
<1> SUFFICES ASSUME x.channel # "none" PROVE Reader(x)'
  BY DEF Reader
<1>1. PICK c : c = x.channel
  OBVIOUS
<1>2. PICK log, new : log = channels[c] /\ new = channels'[c]
  OBVIOUS
<1>3. /\ c \in DOMAIN channels /\ c \in DOMAIN channels' /\ new \in Seq(Nat) /\ log \in Seq(Nat)
      /\ Len(log) <= Len(new) /\ \A k \in 1..Len(log) : new[k] = log[k]
      /\ Len(log) \in Nat /\ Len(new) \in Nat
  BY <1>1, <1>2, LenProperties DEF Reader, SubsTypeOK, Continues
<1>4. /\ 1 <= x.first /\ x.first <= x.next /\ x.next <= Len(log) + 1
      /\ \A i \in 1..Len(x.got) : \E k \in 1..Len(log) : k < x.next /\ x.got[i] = log[k]
      /\ \A i \in 1..Len(x.got) : committed[x.got[i]] = c
      /\ InOrder(x.got)
      /\ Len(x.got) + x.lagged = x.next - x.first
  BY <1>1, <1>2 DEF Reader
<1>5. \A k \in 1..Len(log) : log[k] \in 1..Len(committed)
  BY <1>2, <1>3 DEF LogsInOrder
<1>6. \A i \in 1..Len(x.got) : committed'[x.got[i]] = c
  BY <1>4, <1>5 DEF Continues
<1>7. 1..Len(log) \subseteq 1..Len(new)
  BY <1>3
<1>8. \A i \in 1..Len(x.got) : \E k \in 1..Len(new) : k < x.next /\ x.got[i] = new[k]
  BY <1>3, <1>4, <1>7
<1>9. x.next <= Len(new) + 1
  BY <1>3, <1>4 DEF Receiver
<1>10. InOrder(x.got)'
  BY <1>4 DEF InOrder
<1> QED  BY <1>1, <1>2, <1>3, <1>4, <1>6, <1>8, <1>9, <1>10 DEF Reader

LEMMA ReadersKept ==
    ASSUME SubsInv, Continues(committed', committed), receivers' = receivers,
           \A c \in DOMAIN channels :
             c \in DOMAIN channels' /\ channels'[c] \in Seq(Nat) /\ Continues(channels'[c], channels[c])
    PROVE  ReadsFromLog' /\ ReadsInOrder'
<1>1. SubsTypeOK /\ LogsInOrder /\ ListensMatch /\ \A r \in Receivers : Reader(receivers[r])
  BY ReaderView DEF SubsInv, SentInOrder
<1>2. ASSUME NEW r \in Receivers PROVE Reader(receivers[r])'
  <2>1. PICK x : x = receivers[r]
    OBVIOUS
  <2>2. x \in Receiver /\ Reader(x)
    BY <1>1, <2>1 DEF SubsTypeOK, Receiver
  <2>3. Reader(x)'
    BY <1>1, <2>2, ReaderKept DEF Reader
  <2>4. receivers'[r] = x
    BY <2>1
  <2> QED  BY <2>3, <2>4 DEF Reader
<1> QED  BY <1>2, ReaderViewNext

LEMMA ContinuesItself ==
    ASSUME NEW S, NEW s \in Seq(S) PROVE Continues(s, s)
  BY LenProperties DEF Continues

(* A call that awaits an answer is about a channel. *)
LEMMA CallListens ==
    ASSUME SubsTypeOK
    PROVE  /\ call.op = "none" <=> call = NoCall
           /\ call.op # "none" => call.channel \in Channels /\ call.op \in {"listen", "unlisten"}
  BY DEF SubsTypeOK, NoCall

-----------------------------------------------------------------------------
(* The publisher *)

(* A conversion that succeeds stays below the limit. *)
LEMMA ConvertedFits ==
    ASSUME NEW pk, NEW t,
           t = IF Len(pk) = 1 THEN pk_to_text(pk[1]) ELSE composite_pk_to_text(pk),
           t.ok
    PROVE  ~(t.size >= MAX_PAYLOAD_BYTES)
<1>1. \A size : Limited(size).ok => ~(Limited(size).size >= MAX_PAYLOAD_BYTES)
  BY DEF Limited, Err, Text
<1>2. \A v : pk_to_text(v).ok => ~(pk_to_text(v).size >= MAX_PAYLOAD_BYTES)
  BY <1>1 DEF pk_to_text, Err
<1>3. CASE Len(pk) = 1
  BY <1>2, <1>3
<1>4. CASE Len(pk) # 1
  <2>1. \/ \E v : t = pk_to_text(v)
        \/ \E size : t = Limited(size)
    BY <1>4 DEF composite_pk_to_text
  <2> QED  BY <1>1, <1>2, <2>1
<1> QED  BY <1>3, <1>4

LEMMA ConvertInv ==
    ASSUME SubsInv, NEW c \in Channels, NEW pk \in Keys, Convert(c, pk)
    PROVE  SubsInv'
<1>1. PICK t : t = IF Len(pk) = 1 THEN pk_to_text(pk[1]) ELSE composite_pk_to_text(pk)
  OBVIOUS
<1>2. t.ok /\ pending' = [status |-> "converted", channel |-> c, size |-> t.size]
  BY <1>1 DEF Convert
<1>3. /\ UNCHANGED <<listened, channels, incoming, receivers, committed, gapless>>
      /\ UNCHANGED <<phase, conn, listening, call>>
  BY DEF Convert, connection
<1>4. ~(t.size >= MAX_PAYLOAD_BYTES)
  BY <1>1, <1>2, ConvertedFits
<1>5. PendingFits'
  BY <1>2, <1>4 DEF PendingFits
<1>6. SubsTypeOK' /\ ListensMatch' /\ CallsEnd'
  BY <1>3 DEF SubsInv, SubsTypeOK, ListensMatch, CallsEnd
<1>7. SentInOrder'
  BY <1>3 DEF SubsInv, SentInOrder, IncomingInOrder, LogsInOrder, NothingMissing, NothingMissedOpening, InOrder
<1>8. ReadsFromLog' /\ ReadsInOrder'
  BY <1>3 DEF SubsInv, ReadsFromLog, ReadsInOrder, InOrder
<1> QED  BY <1>5, <1>6, <1>7, <1>8 DEF SubsInv

(* The commit of an event: the connection hears it, or a gap is recorded.  *)
LEMMA NotifyInv ==
    ASSUME SubsInv, notify_mutation
    PROVE  SubsInv'
<1>1. PICK c, n : c = pending.channel /\ n = Len(committed) + 1
  OBVIOUS
<1>2. /\ c \in Channels /\ ~(pending.size >= MAX_PAYLOAD_BYTES)
      /\ committed \in Seq(Channels) /\ incoming \in Seq(Notification)
      /\ gapless \in [Channels -> Nat \ {0}] /\ listened \subseteq Channels /\ DOMAIN channels = listened
  BY <1>1 DEF notify_mutation, SubsInv, PendingFits, SubsTypeOK, Notification, ListensMatch
<1> DEFINE heard == c \in listening
           note == [channel |-> c, event |-> n]
<1>3. /\ pending' = Idle /\ committed' = Append(committed, c)
      /\ incoming' = IF heard THEN Append(incoming, note) ELSE incoming
      /\ gapless' = IF heard THEN gapless ELSE [gapless EXCEPT ![c] = n + 1]
      /\ UNCHANGED <<listened, channels, receivers>> /\ UNCHANGED <<phase, conn, listening, call>>
  BY <1>1, <1>2 DEF notify_mutation
<1>4. /\ n \in Nat /\ Len(committed) \in Nat /\ Len(incoming) \in Nat /\ note \in Notification
      /\ note.event = n /\ note.channel = c
  BY <1>1, <1>2, LenProperties DEF Notification
<1>5. /\ committed' \in Seq(Channels) /\ Continues(committed', committed)
      /\ Len(committed') = n /\ committed'[n] = c
  BY <1>1, <1>2, <1>3, AppendContinues
<1>6. /\ incoming' \in Seq(Notification) /\ Continues(incoming', incoming)
      /\ \A i \in 1..Len(incoming') : i \in 1..Len(incoming) \/
           (heard /\ i = Len(incoming) + 1 /\ incoming'[i].event = n /\ incoming'[i].channel = c)
      /\ heard => Len(incoming) + 1 \in 1..Len(incoming')
      /\ heard => incoming'[Len(incoming) + 1].event = n
  <2>1. CASE heard
    <3> HIDE DEF note
    <3> QED  BY <1>2, <1>3, <1>4, <2>1, AppendContinues
  <2>2. CASE ~heard
    <3>1. incoming' = incoming
      BY <1>3, <2>2
    <3> QED  BY <1>2, <2>2, <3>1, ContinuesItself
  <2> QED  BY <2>1, <2>2
<1> HIDE DEF heard, note
<1>7. SubsTypeOK'
  BY <1>2, <1>3, <1>4, <1>5, <1>6 DEF SubsInv, SubsTypeOK, Notification
<1>8. ListensMatch' /\ CallsEnd' /\ PendingFits'
  BY <1>3 DEF SubsInv, ListensMatch, CallsEnd, PendingFits, Idle
<1>9. IncomingInOrder /\ LogsInOrder /\ NothingMissing /\ NothingMissedOpening
  BY DEF SubsInv, SentInOrder
<1>10. /\ \A m \in 1..Len(committed) : m \in 1..n /\ m < n /\ committed'[m] = committed[m]
       /\ \A m \in 1..n : m \in 1..Len(committed) \/ m = n
       /\ n \in 1..n
  BY <1>1, <1>4, <1>5 DEF Continues
<1>11. IncomingInOrder'
  <2>1. \A i \in 1..Len(incoming') : /\ incoming'[i].event \in 1..n
                                     /\ committed'[incoming'[i].event] = incoming'[i].channel
    BY <1>5, <1>6, <1>9, <1>10 DEF IncomingInOrder, Continues
  <2>2. ASSUME NEW i \in 1..Len(incoming'), NEW j \in 1..Len(incoming'), i < j
        PROVE  incoming'[i].event < incoming'[j].event
    <3>1. i \in 1..Len(incoming)
      BY <1>2, <1>4, <1>6, <2>2
    <3> QED  BY <1>6, <1>9, <1>10, <2>2, <3>1 DEF IncomingInOrder, Continues
  <2> QED  BY <1>5, <2>1, <2>2 DEF IncomingInOrder
<1>12. LogsInOrder'
  <2>1. ASSUME NEW d \in DOMAIN channels, NEW i \in 1..Len(channels[d])
        PROVE  /\ channels[d][i] \in 1..n /\ committed'[channels[d][i]] = d
               /\ \A j \in 1..Len(incoming') : channels[d][i] < incoming'[j].event
    <3>1. channels[d][i] \in 1..Len(committed) /\ committed[channels[d][i]] = d
      BY <1>9 DEF LogsInOrder
    <3>2. \A j \in 1..Len(incoming) : channels[d][i] < incoming[j].event
      BY <1>9 DEF LogsInOrder
    <3> QED  BY <1>6, <1>10, <3>1, <3>2 DEF Continues
  <2> QED  BY <1>3, <1>5, <1>9, <2>1 DEF LogsInOrder, InOrder
\* An event that counts on a channel is the new one, which was heard, or counted before.
<1>13. ASSUME NEW d \in Channels, NEW m \in gapless'[d]..n, committed'[m] = d
       PROVE  \/ \E i \in 1..Len(incoming') : incoming'[i].event = m
              \/ m \in gapless[d]..Len(committed) /\ committed[m] = d
  <2>1. /\ gapless[d] \in Nat /\ gapless'[d] \in Nat /\ gapless'[d] # 0
        /\ m \in Nat /\ m # 0
    BY <1>2, <1>7 DEF SubsTypeOK
  <2>2. CASE m = n
    <3>1. d = c /\ gapless'[c] <= n
      BY <1>4, <1>5, <1>13, <2>1, <2>2
    <3>2. heard
      BY <1>2, <1>3, <1>4, <3>1
    <3> QED  BY <1>6, <2>2, <3>2
  <2>3. CASE m # n
    <3>1. gapless[d] <= gapless'[d] \/ m = n
      <4>1. CASE heard
        BY <1>3, <2>1, <4>1
      <4>2. CASE ~heard /\ d = c
        BY <1>2, <1>3, <1>4, <1>13, <2>1, <4>2
      <4>3. CASE ~heard /\ d # c
        BY <1>2, <1>3, <2>1, <4>3
      <4> QED  BY <4>1, <4>2, <4>3
    <3>2. m \in 1..n /\ gapless[d] <= m
      BY <1>4, <1>13, <2>1, <2>3, <3>1
    <3>3. m \in 1..Len(committed)
      BY <1>10, <2>3, <3>2
    <3> QED  BY <1>4, <1>10, <1>13, <2>1, <3>2, <3>3
  <2> QED  BY <2>2, <2>3
<1>15. \A i \in 1..Len(incoming) : i \in 1..Len(incoming') /\ incoming'[i] = incoming[i]
  BY <1>4, <1>6, LenProperties DEF Continues
<1>16. NothingMissing'
  <2>1. ASSUME NEW d \in DOMAIN channels, NEW m \in gapless'[d]..n, committed'[m] = d
        PROVE  \/ \E i \in 1..Len(channels[d]) : channels[d][i] = m
               \/ \E i \in 1..Len(incoming') : incoming'[i].event = m
    <3>1. d \in Channels
      BY <1>2
    <3>2. CASE \E i \in 1..Len(incoming') : incoming'[i].event = m
      BY <3>2
    <3>3. CASE m \in gapless[d]..Len(committed) /\ committed[m] = d
      <4>1. \/ \E i \in 1..Len(channels[d]) : channels[d][i] = m
            \/ \E i \in 1..Len(incoming) : incoming[i].event = m
        BY <1>9, <3>3 DEF NothingMissing
      <4> QED  BY <1>15, <4>1
    <3> QED  BY <1>13, <2>1, <3>1, <3>2, <3>3
  <2>2. channels' = channels /\ Len(committed') = n
    BY <1>3, <1>5
  <2>3. \A d \in DOMAIN channels' : \A m \in gapless'[d]..Len(committed') : committed'[m] = d =>
          \/ \E i \in 1..Len(channels'[d]) : channels'[d][i] = m
          \/ \E i \in 1..Len(incoming') : incoming'[i].event = m
    BY <2>1, <2>2, Zenon
  <2> QED  BY <2>3 DEF NothingMissing
<1>17. NothingMissedOpening'
  <2>1. ASSUME call.op = "listen", NEW m \in gapless'[call.channel]..n, committed'[m] = call.channel
        PROVE  \E i \in 1..Len(incoming') : incoming'[i].event = m
    <3>1. call.channel \in Channels
      BY <2>1, CallListens DEF SubsInv
    <3>2. CASE m \in gapless[call.channel]..Len(committed) /\ committed[m] = call.channel
      <4>1. \E i \in 1..Len(incoming) : incoming[i].event = m
        BY <1>9, <2>1, <3>2 DEF NothingMissedOpening
      <4> QED  BY <1>15, <4>1
    <3> QED  BY <1>13, <2>1, <3>1, <3>2
  <2>2. call' = call /\ Len(committed') = n
    BY <1>3, <1>5
  <2> QED  BY <2>1, <2>2 DEF NothingMissedOpening
<1>14. ReadsFromLog' /\ ReadsInOrder'
  <2>1. \A d \in DOMAIN channels :
          d \in DOMAIN channels' /\ channels'[d] \in Seq(Nat) /\ Continues(channels'[d], channels[d])
    BY <1>3, ContinuesItself DEF SubsInv, SubsTypeOK
  <2> QED  BY <1>3, <1>5, <2>1, ReadersKept
<1> QED  BY <1>7, <1>8, <1>11, <1>12, <1>14, <1>16, <1>17 DEF SubsInv, SentInOrder

-----------------------------------------------------------------------------
(* The manager *)

(* A fresh receiver starts at the end of a log. *)
LEMMA AttachedReader ==
    ASSUME NEW c \in Channels, NEW log \in Seq(Nat), NEW r \in Receivers,
           receivers \in [Receivers -> Receiver], Attach(r, c, log),
           c \in DOMAIN channels', channels'[c] = log
    PROVE  /\ receivers' \in [Receivers -> Receiver]
           /\ Reader(receivers[r])'
           /\ \A q \in Receivers : q # r => receivers'[q] = receivers[q]
<1>1. PICK n : n = Len(log) + 1
  OBVIOUS
<1>2. PICK x : x = [channel |-> c, first |-> n, next |-> n, got |-> <<>>, lagged |-> 0]
  OBVIOUS
<1>3. [Free EXCEPT !.channel = c, !.first = n, !.next = n] = x
  <2>1. PICK y : y = [Free EXCEPT !.channel = c]
    OBVIOUS
  <2>2. PICK z : z = [y EXCEPT !.first = n]
    OBVIOUS
  <2>3. y = [channel |-> c, first |-> 1, next |-> 1, got |-> <<>>, lagged |-> 0]
    BY <2>1 DEF Free
  <2>4. z = [channel |-> c, first |-> n, next |-> 1, got |-> <<>>, lagged |-> 0]
    BY <2>2, <2>3
  <2>5. [z EXCEPT !.next = n] = x
    BY <1>2, <2>4
  <2>6. [Free EXCEPT !.channel = c, !.first = n, !.next = n] = [z EXCEPT !.next = n]
    BY <2>1, <2>2
  <2> QED  BY <2>5, <2>6
<1>4. Len(log) \in Nat /\ n \in Nat /\ <<>> \in Seq(Nat) /\ Len(<<>>) = 0
  BY <1>1, LenProperties, EmptySeq
<1>5. x \in Receiver
  BY <1>2, <1>4 DEF Receiver
<1>6. receivers' = [receivers EXCEPT ![r] = x]
  BY <1>1, <1>3 DEF Attach
<1>7. receivers'[r] = x
  BY <1>6
<1>8. Reader(x)'
  <2>1. x.channel = c /\ x.first = n /\ x.next = n /\ x.got = <<>> /\ x.lagged = 0
    BY <1>2
  <2>2. Len(x.got) = 0 /\ 1..Len(x.got) = {}
    BY <1>4, <2>1
  <2>3. InOrder(x.got)'
    BY <2>2 DEF InOrder
  <2> QED  BY <1>1, <1>4, <2>1, <2>2, <2>3 DEF Reader
<1>9. receivers' \in [Receivers -> Receiver] /\ \A q \in Receivers : q # r => receivers'[q] = receivers[q]
  BY <1>5, <1>6
<1>10. Reader(receivers[r])'
  BY <1>7, <1>8 DEF Reader
<1> QED  BY <1>9, <1>10

(* A receiver attaches; the logs of all other receivers are as before.     *)
LEMMA AttachReads ==
    ASSUME SubsInv, NEW c \in Channels, NEW log \in Seq(Nat), NEW r \in Receivers,
           Attach(r, c, log), c \in DOMAIN channels', channels'[c] = log, committed' = committed,
           \A d \in DOMAIN channels : d \in DOMAIN channels' /\ channels'[d] = channels[d]
    PROVE  /\ receivers' \in [Receivers -> Receiver]
           /\ ReadsFromLog' /\ ReadsInOrder'
<1>1. /\ SubsTypeOK /\ LogsInOrder /\ ListensMatch /\ receivers \in [Receivers -> Receiver]
      /\ \A q \in Receivers : Reader(receivers[q])
  BY ReaderView DEF SubsInv, SentInOrder, SubsTypeOK, Receiver
<1>2. /\ receivers' \in [Receivers -> Receiver]
      /\ Reader(receivers[r])'
      /\ \A q \in Receivers : q # r => receivers'[q] = receivers[q]
  BY <1>1, AttachedReader
<1>3. ASSUME NEW q \in Receivers PROVE Reader(receivers[q])'
  <2>1. CASE q = r
    BY <1>2, <2>1
  <2>2. CASE q # r
    <3>1. PICK x : x = receivers[q]
      OBVIOUS
    <3>2. x \in Receiver /\ Reader(x) /\ receivers'[q] = x
      BY <1>1, <1>2, <2>2, <3>1
    <3>3. Continues(committed', committed)
      BY <1>1, ContinuesItself DEF SubsTypeOK
    <3>4. x.channel # "none" =>
            /\ x.channel \in DOMAIN channels' /\ channels'[x.channel] \in Seq(Nat)
            /\ Continues(channels'[x.channel], channels[x.channel])
      BY <1>1, <3>2, ContinuesItself DEF Reader, SubsTypeOK
    <3>5. Reader(x)'
      BY <1>1, <3>2, <3>3, <3>4, ReaderKept
    <3> QED  BY <3>2, <3>5 DEF Reader
  <2> QED  BY <2>1, <2>2
<1> QED  BY <1>2, <1>3, ReaderViewNext

(* A receiver attaches to a sender that exists. *)
LEMMA SubscribeExistingInv ==
    ASSUME SubsInv, NEW r \in Receivers, NEW c \in Channels, SubscribeExisting(r, c)
    PROVE  SubsInv'
<1>1. /\ UNCHANGED <<listened, channels, incoming, pending, committed, gapless>>
      /\ UNCHANGED <<phase, conn, listening, call>>
      /\ c \in DOMAIN channels /\ Attach(r, c, channels[c])
  BY DEF SubscribeExisting, connection, publishing
<1>2. receivers' \in [Receivers -> Receiver] /\ ReadsFromLog' /\ ReadsInOrder'
  BY <1>1, AttachReads DEF SubsInv, SubsTypeOK
<1>3. SubsTypeOK' /\ ListensMatch' /\ CallsEnd' /\ PendingFits'
  BY <1>1, <1>2 DEF SubsInv, SubsTypeOK, ListensMatch, CallsEnd, PendingFits, Receiver
<1>4. SentInOrder'
  BY <1>1 DEF SubsInv, SentInOrder, IncomingInOrder, LogsInOrder, NothingMissing, NothingMissedOpening, InOrder
<1> QED  BY <1>2, <1>3, <1>4 DEF SubsInv

(* The server starts to deliver: from here on nothing of the channel is missed. *)
LEMMA ListenInv ==
    ASSUME SubsInv, NEW c \in Channels, Listen(c)
    PROVE  SubsInv'
<1>1. /\ UNCHANGED <<phase, conn, incoming, listened, channels, receivers, pending, committed>>
      /\ listening' = listening \cup {c}
      /\ call' = [op |-> "listen", channel |-> c]
      /\ gapless' = [gapless EXCEPT ![c] = Len(committed) + 1]
      /\ c \notin DOMAIN channels /\ phase = "setup" /\ call = NoCall
  BY DEF Listen, Owned, publishing
<1>2. /\ SubsTypeOK /\ ListensMatch /\ PendingFits /\ SentInOrder /\ DOMAIN channels = listened
      /\ gapless \in [Channels -> Nat \ {0}] /\ Len(committed) \in Nat
  BY LenProperties DEF SubsInv, SubsTypeOK, ListensMatch
<1>3. call'.op = "listen" /\ call'.channel = c /\ call' # NoCall
  BY <1>1 DEF NoCall
<1>4. gapless' \in [Channels -> Nat \ {0}]
  BY <1>1, <1>2
<1>5. SubsTypeOK' /\ PendingFits'
  BY <1>1, <1>2, <1>4 DEF SubsTypeOK, PendingFits
<1>6. ListensMatch'
  <2>1. call.channel = "none" /\ "none" \notin Channels
    BY <1>1, SubsAssumption DEF NoCall
  <2> QED  BY <1>1, <1>2, <1>3, <2>1 DEF ListensMatch
<1>7. CallsEnd'
  BY <1>1, <1>3 DEF CallsEnd
<1>8. IncomingInOrder' /\ LogsInOrder'
  BY <1>1, <1>2 DEF SentInOrder, IncomingInOrder, LogsInOrder, InOrder
<1>9. NothingMissing'
  <2>1. \A d \in DOMAIN channels : d \in Channels /\ d # c
    BY <1>1, <1>2 DEF SubsTypeOK
  <2>2. \A d \in DOMAIN channels : gapless'[d] = gapless[d]
    BY <1>1, <1>2, <2>1
  <2> QED  BY <1>1, <1>2, <2>2 DEF SentInOrder, NothingMissing
<1>10. NothingMissedOpening'
  <2>1. gapless'[c]..Len(committed) = {}
    BY <1>1, <1>2
  <2> QED  BY <1>1, <1>3, <2>1 DEF NothingMissedOpening
<1>11. ReadsFromLog' /\ ReadsInOrder'
  BY <1>1 DEF SubsInv, ReadsFromLog, ReadsInOrder, InOrder
<1> QED  BY <1>5, <1>6, <1>7, <1>8, <1>9, <1>10, <1>11 DEF SubsInv, SentInOrder

(* The sender of a new channel joins the map, with nothing sent yet. *)
LEMMA ListenDoneInv ==
    ASSUME SubsInv, NEW r \in Receivers, ListenDone(r)
    PROVE  SubsInv'
<1>0. PICK c : c = call.channel
  OBVIOUS
<1>1. /\ UNCHANGED <<phase, conn, listening, incoming, pending, committed, gapless>>
      /\ call.op = "listen" /\ call' = NoCall
      /\ listened' = listened \cup {c} /\ channels' = WithSender(c) /\ Attach(r, c, <<>>)
  BY <1>0 DEF ListenDone, connection, publishing
<1>2. /\ SubsTypeOK /\ ListensMatch /\ CallsEnd /\ DOMAIN channels = listened /\ PendingFits
      /\ IncomingInOrder /\ LogsInOrder /\ NothingMissing /\ NothingMissedOpening
      /\ \A d \in DOMAIN channels : channels[d] \in Seq(Nat)
  BY DEF SubsInv, SentInOrder, ListensMatch, SubsTypeOK
<1>3. c \in Channels /\ c \notin DOMAIN channels /\ phase = "setup" /\ (conn = "up" => c \in listening)
  BY <1>0, <1>1, <1>2, CallListens DEF CallsEnd, NoCall
<1>4. /\ DOMAIN channels' = DOMAIN channels \cup {c} /\ channels'[c] = <<>>
      /\ \A d \in DOMAIN channels : channels'[d] = channels[d]
      /\ <<>> \in Seq(Nat) /\ Len(<<>>) = 0
  BY <1>1, <1>3, EmptySeq DEF WithSender
<1>5. receivers' \in [Receivers -> Receiver] /\ ReadsFromLog' /\ ReadsInOrder'
  BY <1>1, <1>3, <1>4, AttachReads
<1>6. SubsTypeOK' /\ PendingFits'
  BY <1>1, <1>2, <1>3, <1>4, <1>5 DEF SubsTypeOK, PendingFits, Receiver
<1>7. ListensMatch' /\ CallsEnd'
  <2>1. call'.op = "none" /\ call'.channel = "none"
    BY <1>1 DEF NoCall
  <2>2. DOMAIN channels' = listened'
    BY <1>1, <1>2, <1>4
  <2>3. conn = "up" => \A d \in Channels : d \in listened' <=> d \in listening
    BY <1>0, <1>1, <1>2, <1>3 DEF ListensMatch
  <2> QED  BY <1>1, <2>1, <2>2, <2>3 DEF ListensMatch, CallsEnd
<1>8. IncomingInOrder' /\ NothingMissedOpening'
  BY <1>1, <1>2 DEF IncomingInOrder, NothingMissedOpening, NoCall
<1>9. LogsInOrder'
  <2>1. ASSUME NEW d \in DOMAIN channels'
        PROVE  /\ InOrder(channels'[d])
               /\ \A i \in 1..Len(channels'[d]) :
                    /\ channels'[d][i] \in 1..Len(committed) /\ committed[channels'[d][i]] = d
                    /\ \A j \in 1..Len(incoming) : channels'[d][i] < incoming[j].event
    <3>1. CASE d = c
      <4>1. 1..Len(channels'[d]) = {}
        BY <1>4, <3>1
      <4> QED  BY <4>1 DEF InOrder
    <3>2. CASE d # c
      BY <1>2, <1>4, <3>2 DEF LogsInOrder
    <3> QED  BY <3>1, <3>2
  <2> QED  BY <1>1, <2>1 DEF LogsInOrder, InOrder
<1>10. NothingMissing'
  <2>1. ASSUME NEW d \in DOMAIN channels', NEW n \in gapless[d]..Len(committed), committed[n] = d
        PROVE  \/ \E i \in 1..Len(channels'[d]) : channels'[d][i] = n
               \/ \E i \in 1..Len(incoming) : incoming[i].event = n
    <3>1. CASE d = c
      BY <1>0, <1>1, <1>2, <2>1, <3>1 DEF NothingMissedOpening
    <3>2. CASE d # c
      <4>1. d \in DOMAIN channels /\ channels'[d] = channels[d]
        BY <1>4, <3>2
      <4> QED  BY <1>2, <2>1, <4>1 DEF NothingMissing
    <3> QED  BY <3>1, <3>2
  <2> QED  BY <1>1, <2>1 DEF NothingMissing
<1> QED  BY <1>5, <1>6, <1>7, <1>8, <1>9, <1>10 DEF SubsInv, SentInOrder

(* The server stops to deliver while the sender is still in the map. *)
LEMMA UnlistenInv ==
    ASSUME SubsInv, NEW c \in Channels, Unlisten(c)
    PROVE  SubsInv'
<1>1. /\ UNCHANGED <<phase, conn, incoming, listened, channels, receivers, pending, committed, gapless>>
      /\ listening' = listening \ {c}
      /\ call' = [op |-> "unlisten", channel |-> c]
      /\ phase = "setup" /\ call = NoCall
  BY DEF Unlisten, Owned, publishing
<1>2. call'.op = "unlisten" /\ call'.channel = c
  BY <1>1
<1>3. SubsTypeOK' /\ PendingFits'
  BY <1>1 DEF SubsInv, SubsTypeOK, PendingFits
<1>4. ListensMatch'
  <2>1. call.channel = "none" /\ "none" \notin Channels
    BY <1>1, SubsAssumption DEF NoCall
  <2> QED  BY <1>1, <1>2, <2>1 DEF SubsInv, ListensMatch
<1>5. CallsEnd'
  BY <1>1, <1>2 DEF CallsEnd
<1>6. SentInOrder'
  BY <1>1, <1>2 DEF SubsInv, SentInOrder, IncomingInOrder, LogsInOrder, NothingMissing, NothingMissedOpening, InOrder
<1>7. ReadsFromLog' /\ ReadsInOrder'
  BY <1>1 DEF SubsInv, ReadsFromLog, ReadsInOrder, InOrder
<1> QED  BY <1>3, <1>4, <1>5, <1>6, <1>7 DEF SubsInv

(* A call that fails with the connection leaves the list and the map as they were. *)
LEMMA CallFailsInv ==
    ASSUME SubsInv, CallFails
    PROVE  SubsInv'
<1>1. /\ UNCHANGED <<phase, conn, listening, incoming, listened, channels, receivers, pending, committed, gapless>>
      /\ call' = NoCall /\ conn = "down"
  BY DEF CallFails, connection, publishing
<1>2. call'.op = "none"
  BY <1>1 DEF NoCall
<1>3. SubsTypeOK' /\ PendingFits' /\ ListensMatch' /\ CallsEnd'
  BY <1>1, <1>2 DEF SubsInv, SubsTypeOK, PendingFits, ListensMatch, CallsEnd
<1>4. SentInOrder'
  BY <1>1, <1>2 DEF SubsInv, SentInOrder, IncomingInOrder, LogsInOrder, NothingMissing, NothingMissedOpening, InOrder
<1>5. ReadsFromLog' /\ ReadsInOrder'
  BY <1>1 DEF SubsInv, ReadsFromLog, ReadsInOrder, InOrder
<1> QED  BY <1>3, <1>4, <1>5 DEF SubsInv

(* A new connection LISTENs to all that PgListener has recorded. *)
LEMMA ReconnectInv ==
    ASSUME SubsInv, Reconnect
    PROVE  SubsInv'
<1>1. /\ UNCHANGED <<phase, incoming, listened, call, channels, receivers, pending, committed, gapless>>
      /\ listening' = listened /\ phase = "running"
  BY DEF Reconnect, publishing
<1>2. call = NoCall /\ call.op = "none"
  BY <1>1 DEF SubsInv, CallsEnd, NoCall
<1>3. SubsTypeOK' /\ PendingFits' /\ ListensMatch' /\ CallsEnd'
  BY <1>1, <1>2 DEF SubsInv, SubsTypeOK, PendingFits, ListensMatch, CallsEnd
<1>4. SentInOrder'
  BY <1>1 DEF SubsInv, SentInOrder, IncomingInOrder, LogsInOrder, NothingMissing, NothingMissedOpening, InOrder
<1>5. ReadsFromLog' /\ ReadsInOrder'
  BY <1>1 DEF SubsInv, ReadsFromLog, ReadsInOrder, InOrder
<1> QED  BY <1>3, <1>4, <1>5 DEF SubsInv

LEMMA SubscribeSharedInv ==
    ASSUME SubsInv, NEW r \in Receivers, NEW c \in Channels, SubscribeShared(r, c)
    PROVE  SubsInv'
<1>1. /\ UNCHANGED <<listened, channels, incoming, pending, committed, gapless>>
      /\ UNCHANGED <<phase, conn, listening, call>>
      /\ c \in DOMAIN channels /\ Attach(r, c, channels[c])
  BY DEF SubscribeShared, connection, publishing
<1>2. receivers' \in [Receivers -> Receiver] /\ ReadsFromLog' /\ ReadsInOrder'
  BY <1>1, AttachReads DEF SubsInv, SubsTypeOK
<1>3. SubsTypeOK' /\ ListensMatch' /\ CallsEnd' /\ PendingFits'
  BY <1>1, <1>2 DEF SubsInv, SubsTypeOK, ListensMatch, CallsEnd, PendingFits, Receiver
<1>4. SentInOrder'
  BY <1>1 DEF SubsInv, SentInOrder, IncomingInOrder, LogsInOrder, NothingMissing, NothingMissedOpening, InOrder
<1> QED  BY <1>2, <1>3, <1>4 DEF SubsInv

(* A sender is dropped together with its receivers. *)
LEMMA UnlistenDoneInv ==
    ASSUME SubsInv, UnlistenDone
    PROVE  SubsInv'
<1>0. PICK c : c = call.channel
  OBVIOUS
<1>1. /\ UNCHANGED <<incoming, pending, committed, gapless>>
      /\ UNCHANGED <<phase, conn, listening>> /\ call.op = "unlisten" /\ call' = NoCall
      /\ listened' = listened \ {c}
      /\ channels' = [x \in DOMAIN channels \ {c} |-> channels[x]]
      /\ receivers' = [r \in Receivers |-> IF receivers[r].channel = c THEN Free ELSE receivers[r]]
  BY <1>0 DEF UnlistenDone, connection, publishing
<1>2. /\ SubsTypeOK /\ ListensMatch /\ LogsInOrder /\ committed \in Seq(Channels)
      /\ receivers \in [Receivers -> Receiver] /\ \A r \in Receivers : Reader(receivers[r])
  BY ReaderView DEF SubsInv, SentInOrder, SubsTypeOK, Receiver
<1>3. DOMAIN channels' = DOMAIN channels \ {c} /\ \A d \in DOMAIN channels' : channels'[d] = channels[d]
  BY <1>1
<1>4. Free \in Receiver
  BY EmptySeq DEF Free, Receiver
<1>5. receivers' \in [Receivers -> Receiver]
  BY <1>1, <1>2, <1>4
<1>10. call'.op = "none" /\ call'.channel = "none"
  BY <1>1 DEF NoCall
<1>11. SubsTypeOK' /\ PendingFits'
  BY <1>1, <1>2, <1>3, <1>5 DEF SubsInv, SubsTypeOK, PendingFits, Receiver
<1>6. ListensMatch' /\ CallsEnd'
  <2>1. conn = "up" => c \notin listening
    BY <1>0, <1>1 DEF SubsInv, CallsEnd
  <2>2. DOMAIN channels' = listened'
    BY <1>1, <1>2, <1>3 DEF ListensMatch
  <2>3. conn = "up" => \A d \in Channels : d \in listened' <=> d \in listening
    BY <1>0, <1>1, <1>2, <2>1 DEF ListensMatch
  <2> QED  BY <1>1, <1>10, <2>2, <2>3 DEF ListensMatch, CallsEnd
<1>7. SentInOrder'
  BY <1>1, <1>3, <1>10 DEF SubsInv, SentInOrder, IncomingInOrder, LogsInOrder, NothingMissing, NothingMissedOpening, InOrder
<1>8. ASSUME NEW r \in Receivers PROVE Reader(receivers[r])'
  <2>1. CASE receivers[r].channel = c
    <3>1. receivers'[r].channel = "none"
      BY <1>1, <2>1 DEF Free
    <3> QED  BY <3>1 DEF Reader
  <2>2. CASE receivers[r].channel # c
    <3>1. PICK x : x = receivers[r]
      OBVIOUS
    <3>2. x \in Receiver /\ Reader(x) /\ receivers'[r] = x
      BY <1>1, <1>2, <2>2, <3>1
    <3>3. Continues(committed', committed)
      BY <1>1, <1>2, ContinuesItself
    <3>4. x.channel # "none" =>
            /\ x.channel \in DOMAIN channels' /\ channels'[x.channel] \in Seq(Nat)
            /\ Continues(channels'[x.channel], channels[x.channel])
      BY <1>2, <1>3, <2>2, <3>1, <3>2, ContinuesItself DEF Reader, SubsTypeOK
    <3>5. Reader(x)'
      BY <1>2, <3>2, <3>3, <3>4, ReaderKept
    <3> QED  BY <3>2, <3>5 DEF Reader
  <2> QED  BY <2>1, <2>2
<1>9. ReadsFromLog' /\ ReadsInOrder'
  BY <1>8, ReaderViewNext
<1> QED  BY <1>6, <1>7, <1>9, <1>11 DEF SubsInv

(* recv() moves the oldest notification to the end of its channel's log.   *)
LEMMA DispatchInv ==
    ASSUME SubsInv, Dispatch
    PROVE  SubsInv'
<1>0. PICK h : h = Head(incoming)
  OBVIOUS
<1>1. PICK c, e : c = h.channel /\ e = h.event
  OBVIOUS
<1>2. /\ incoming \in Seq(Notification) /\ incoming # <<>> /\ SubsTypeOK
      /\ DOMAIN channels = listened /\ PendingFits
      /\ IncomingInOrder /\ LogsInOrder /\ NothingMissing
      /\ \A d \in DOMAIN channels : channels[d] \in Seq(Nat)
  BY DEF SubsInv, SentInOrder, ListensMatch, SubsTypeOK, Notification, Dispatch
<1>3. /\ incoming' = Tail(incoming)
      /\ channels' = [d \in DOMAIN channels |-> IF d = c THEN Append(channels[d], e) ELSE channels[d]]
      /\ UNCHANGED <<listened, receivers, pending, committed, gapless>>
      /\ UNCHANGED <<phase, conn, listening, call>> /\ phase = "running"
  BY <1>0, <1>1 DEF Dispatch, publishing
<1>4. /\ incoming' \in Seq(Notification) /\ Len(incoming') = Len(incoming) - 1
      /\ Len(incoming) \in Nat /\ Len(incoming) # 0 /\ h = incoming[1] /\ h \in Notification
      /\ \A i \in 1..Len(incoming') : incoming'[i] = incoming[i + 1]
  BY <1>0, <1>2, <1>3, HeadTailProperties, LenProperties, EmptySeq
<1>5. /\ 1 \in 1..Len(incoming) /\ Len(incoming') \in Nat
      /\ \A i \in 1..Len(incoming') : i + 1 \in 1..Len(incoming) /\ 1 < i + 1 /\ i \in Nat
      /\ \A i \in 1..Len(incoming) : i # 1 => i - 1 \in 1..Len(incoming') /\ incoming'[i - 1] = incoming[i]
  BY <1>4
<1>6. e \in Nat /\ e \in 1..Len(committed) /\ committed[e] = c
  BY <1>1, <1>2, <1>4, <1>5 DEF IncomingInOrder, Notification
<1>7. DOMAIN channels' = DOMAIN channels
  BY <1>3
<1>8. ASSUME NEW d \in DOMAIN channels
      PROVE  /\ channels'[d] \in Seq(Nat) /\ Continues(channels'[d], channels[d])
             /\ \A i \in 1..Len(channels'[d]) :
                  i \in 1..Len(channels[d]) \/ (d = c /\ i = Len(channels[d]) + 1 /\ channels'[d][i] = e)
             /\ d = c => \E i \in 1..Len(channels'[d]) : channels'[d][i] = e
  <2>1. channels[d] \in Seq(Nat) /\ Len(channels[d]) \in Nat
    BY <1>2, LenProperties
  <2>2. CASE d = c
    <3>1. channels'[d] = Append(channels[d], e)
      BY <1>3, <2>2
    <3>2. /\ channels'[d] \in Seq(Nat) /\ Continues(channels'[d], channels[d])
          /\ Len(channels'[d]) = Len(channels[d]) + 1 /\ channels'[d][Len(channels[d]) + 1] = e
          /\ \A i \in 1..Len(channels'[d]) : i \in 1..Len(channels[d]) \/ i = Len(channels[d]) + 1
      BY <1>6, <2>1, <3>1, AppendContinues
    <3>3. Len(channels[d]) + 1 \in 1..Len(channels'[d])
      BY <2>1, <3>2
    <3> QED  BY <2>2, <3>2, <3>3
  <2>3. CASE d # c
    <3>1. channels'[d] = channels[d]
      BY <1>3, <2>3
    <3> QED  BY <2>1, <2>3, <3>1, ContinuesItself
  <2> QED  BY <2>2, <2>3
<1>9. SubsTypeOK' /\ ListensMatch' /\ CallsEnd' /\ PendingFits'
  BY <1>2, <1>3, <1>4, <1>7, <1>8 DEF SubsInv, SubsTypeOK, ListensMatch, CallsEnd, PendingFits, Notification
<1>15. NothingMissedOpening'
  <2>1. call = NoCall
    BY <1>3 DEF SubsInv, CallsEnd
  <2> QED  BY <1>3, <2>1 DEF NothingMissedOpening, NoCall
<1>10. IncomingInOrder'
  <2>1. \A i \in 1..Len(incoming') : /\ incoming'[i].event \in 1..Len(committed)
                                     /\ committed[incoming'[i].event] = incoming'[i].channel
    BY <1>2, <1>4, <1>5 DEF IncomingInOrder
  <2>2. ASSUME NEW i \in 1..Len(incoming'), NEW j \in 1..Len(incoming'), i < j
        PROVE  incoming'[i].event < incoming'[j].event
    <3>1. i + 1 \in 1..Len(incoming) /\ j + 1 \in 1..Len(incoming) /\ i + 1 < j + 1
      BY <1>5, <2>2
    <3> QED  BY <1>2, <1>4, <3>1 DEF IncomingInOrder
  <2> QED  BY <1>3, <2>1, <2>2 DEF IncomingInOrder
<1>11. \A j \in 1..Len(incoming') : e < incoming'[j].event
  BY <1>1, <1>2, <1>4, <1>5 DEF IncomingInOrder
<1>12. LogsInOrder'
  <2>1. ASSUME NEW d \in DOMAIN channels
        PROVE  /\ InOrder(channels'[d])
               /\ \A i \in 1..Len(channels'[d]) :
                    /\ channels'[d][i] \in 1..Len(committed) /\ committed[channels'[d][i]] = d
                    /\ \A j \in 1..Len(incoming') : channels'[d][i] < incoming'[j].event
    <3>1. /\ InOrder(channels[d])
          /\ \A i \in 1..Len(channels[d]) :
               /\ channels[d][i] \in 1..Len(committed) /\ committed[channels[d][i]] = d
               /\ \A j \in 1..Len(incoming) : channels[d][i] < incoming[j].event
      BY <1>2 DEF LogsInOrder
    <3>2. \A i \in 1..Len(channels[d]) : channels'[d][i] = channels[d][i] /\ channels[d][i] < e
      BY <1>1, <1>4, <1>5, <1>8, <3>1 DEF Continues
    <3>3. ASSUME NEW i \in 1..Len(channels'[d])
          PROVE  /\ channels'[d][i] \in 1..Len(committed) /\ committed[channels'[d][i]] = d
                 /\ \A j \in 1..Len(incoming') : channels'[d][i] < incoming'[j].event
      <4>1. CASE i \in 1..Len(channels[d])
        BY <1>4, <1>5, <3>1, <3>2, <4>1
      <4>2. CASE i \notin 1..Len(channels[d])
        BY <1>6, <1>8, <1>11, <4>2
      <4> QED  BY <4>1, <4>2
    <3>4. ASSUME NEW i \in 1..Len(channels'[d]), NEW j \in 1..Len(channels'[d]), i < j
          PROVE  channels'[d][i] < channels'[d][j]
      <4>1. channels[d] \in Seq(Nat) /\ Len(channels[d]) \in Nat
        BY <1>2, LenProperties
      <4>2. channels'[d] \in Seq(Nat) /\ Len(channels'[d]) \in Nat /\ i \in Nat /\ j \in Nat
        BY <1>8, LenProperties
      <4>3. /\ i \in 1..Len(channels[d]) \/ i = Len(channels[d]) + 1
            /\ \/ j \in 1..Len(channels[d])
               \/ j = Len(channels[d]) + 1 /\ channels'[d][j] = e
        BY <1>8
      <4>4. i \in 1..Len(channels[d])
        BY <3>4, <4>1, <4>2, <4>3
      <4> QED  BY <3>1, <3>2, <3>4, <4>3, <4>4 DEF InOrder
    <3> QED  BY <3>3, <3>4 DEF InOrder
  <2> QED  BY <1>3, <1>7, <2>1 DEF LogsInOrder, InOrder
<1>13. NothingMissing'
  <2>1. ASSUME NEW d \in DOMAIN channels, NEW n \in gapless[d]..Len(committed), committed[n] = d
        PROVE  \/ \E i \in 1..Len(channels'[d]) : channels'[d][i] = n
               \/ \E i \in 1..Len(incoming') : incoming'[i].event = n
    <3>1. CASE \E i \in 1..Len(channels[d]) : channels[d][i] = n
      <4>1. channels[d] \in Seq(Nat) /\ channels'[d] \in Seq(Nat)
        BY <1>2, <1>8
      <4>2. 1..Len(channels[d]) \subseteq 1..Len(channels'[d])
        BY <1>8, <4>1, LenProperties DEF Continues
      <4> QED  BY <1>8, <3>1, <4>2 DEF Continues
    <3>2. ASSUME NEW i \in 1..Len(incoming), incoming[i].event = n
          PROVE  \/ \E k \in 1..Len(channels'[d]) : channels'[d][k] = n
                 \/ \E k \in 1..Len(incoming') : incoming'[k].event = n
      <4>1. CASE i = 1
        <5>1. n = e /\ d = c
          BY <1>1, <1>4, <1>6, <2>1, <3>2, <4>1
        <5> QED  BY <1>8, <5>1
      <4>2. CASE i # 1
        BY <1>5, <3>2, <4>2
      <4> QED  BY <4>1, <4>2
    <3>3. \/ \E i \in 1..Len(channels[d]) : channels[d][i] = n
          \/ \E i \in 1..Len(incoming) : incoming[i].event = n
      BY <1>2, <2>1 DEF NothingMissing
    <3> QED  BY <3>1, <3>2, <3>3
  <2> QED  BY <1>3, <1>7, <2>1 DEF NothingMissing
<1>14. ReadsFromLog' /\ ReadsInOrder'
  <2>1. Continues(committed', committed)
    BY <1>2, <1>3, ContinuesItself DEF SubsTypeOK
  <2> QED  BY <1>3, <1>7, <1>8, <2>1, ReadersKept
<1> QED  BY <1>9, <1>10, <1>12, <1>13, <1>14, <1>15 DEF SubsInv, SentInOrder

(* What was not read is lost, and from here on counts as a gap. *)
LEMMA ConnectionLostInv ==
    ASSUME SubsInv, ConnectionLost
    PROVE  SubsInv'
<1>1. PICK k \in 0..Len(incoming) : incoming' = SubSeq(incoming, 1, k)
  BY DEF ConnectionLost
<1>2. /\ gapless' = [c \in Channels |-> Len(committed) + 1]
      /\ UNCHANGED <<listened, channels, receivers, pending, committed>>
      /\ UNCHANGED <<phase, call>> /\ conn' = "down" /\ listening' = {}
  BY DEF ConnectionLost, publishing
<1>3. /\ incoming \in Seq(Notification) /\ SubsTypeOK /\ ListensMatch /\ PendingFits
      /\ IncomingInOrder /\ LogsInOrder
      /\ Len(incoming) \in Nat /\ Len(committed) \in Nat
  BY LenProperties DEF SubsInv, SentInOrder, SubsTypeOK, Notification
<1>4. /\ incoming' \in Seq(Notification)
      /\ \A i \in 1..Len(incoming') : i \in 1..Len(incoming) /\ incoming'[i] = incoming[i]
  <2>1. k \in Int /\ 0 <= k /\ k <= Len(incoming) /\ \A i \in 1..Len(incoming) : incoming[i] \in Notification
    BY <1>3, ElementOfSeq
  <2>2. \A i \in 1..k : incoming[i] \in Notification
    BY <1>3, <2>1
  <2>3. /\ incoming' \in Seq(Notification)
        /\ Len(incoming') = IF 1 <= k THEN k - 1 + 1 ELSE 0
        /\ \A i \in 1..(k - 1 + 1) : incoming'[i] = incoming[1 + i - 1]
    BY <1>1, <2>1, <2>2, SubSeqProperties
  <2>4. ASSUME NEW i \in 1..Len(incoming') PROVE i \in 1..Len(incoming) /\ incoming'[i] = incoming[i]
    <3>1. i \in 1..(k - 1 + 1) /\ i \in 1..Len(incoming) /\ 1 + i - 1 = i
      BY <1>3, <2>1, <2>3
    <3> QED  BY <2>3, <3>1
  <2> QED  BY <2>3, <2>4
<1>5. SubsTypeOK' /\ ListensMatch' /\ CallsEnd' /\ PendingFits'
  BY <1>2, <1>3, <1>4 DEF SubsInv, SubsTypeOK, ListensMatch, CallsEnd, PendingFits, Notification
<1>6. IncomingInOrder'
  BY <1>2, <1>3, <1>4 DEF IncomingInOrder
<1>7. LogsInOrder'
  BY <1>2, <1>3, <1>4 DEF LogsInOrder, InOrder
<1>8. NothingMissing'
  <2>1. \A c \in DOMAIN channels : gapless'[c]..Len(committed) = {}
    BY <1>2, <1>3 DEF SubsTypeOK, ListensMatch
  <2> QED  BY <1>2, <2>1 DEF NothingMissing
<1>10. NothingMissedOpening'
  <2>1. call.op = "listen" => call.channel \in Channels
    BY <1>3, CallListens
  <2>2. \A c \in Channels : gapless'[c]..Len(committed) = {}
    BY <1>2, <1>3
  <2> QED  BY <1>2, <2>1, <2>2 DEF NothingMissedOpening
<1>9. ReadsFromLog' /\ ReadsInOrder'
  BY <1>2 DEF SubsInv, ReadsFromLog, ReadsInOrder, InOrder
<1> QED  BY <1>5, <1>6, <1>7, <1>8, <1>9, <1>10 DEF SubsInv, SentInOrder

(* A receiver reads the next event, or learns how many it missed. *)
LEMMA RecvInv ==
    ASSUME SubsInv, NEW r \in Receivers, Recv(r)
    PROVE  SubsInv'
<1>0. PICK x : x = receivers[r]
  OBVIOUS
<1>1. PICK c, log : c = x.channel /\ log = channels[c]
  OBVIOUS
<1>2. /\ UNCHANGED <<listened, channels, incoming, pending, committed, gapless>>
      /\ UNCHANGED <<phase, conn, listening, call>>
      /\ c # "none" /\ x.next <= Len(log)
  BY <1>0, <1>1 DEF Recv, connection, publishing
<1>3. /\ SubsTypeOK /\ ListensMatch /\ LogsInOrder /\ committed \in Seq(Channels)
      /\ receivers \in [Receivers -> Receiver] /\ \A q \in Receivers : Reader(receivers[q])
  BY ReaderView DEF SubsInv, SentInOrder, SubsTypeOK, Receiver
<1>4. /\ x \in Receiver /\ c \in DOMAIN channels /\ log \in Seq(Nat) /\ Len(log) \in Nat
      /\ x.next \in Nat /\ x.first \in Nat /\ x.lagged \in Nat /\ x.got \in Seq(Nat)
      /\ Len(x.got) \in Nat
  BY <1>0, <1>1, <1>2, <1>3, LenProperties DEF Reader, SubsTypeOK, Receiver
<1>5. /\ 1 <= x.first /\ x.first <= x.next
      /\ \A i \in 1..Len(x.got) : \E k \in 1..Len(log) : k < x.next /\ x.got[i] = log[k]
      /\ \A i \in 1..Len(x.got) : committed[x.got[i]] = c
      /\ InOrder(x.got)
      /\ Len(x.got) + x.lagged = x.next - x.first
  BY <1>0, <1>1, <1>2, <1>3 DEF Reader
<1>6. InOrder(log) /\ \A i \in 1..Len(log) : committed[log[i]] = c /\ log[i] \in Nat
  BY <1>1, <1>3, <1>4, ElementOfSeq DEF LogsInOrder
<1>7. PICK y : /\ receivers' = [receivers EXCEPT ![r] = y]
               /\ y = IF x.next < Oldest(log)
                      THEN [x EXCEPT !.lagged = @ + Oldest(log) - x.next, !.next = Oldest(log)]
                      ELSE [x EXCEPT !.got = Append(@, log[x.next]), !.next = @ + 1]
  BY <1>0, <1>1 DEF Recv
<1>8. Oldest(log) \in Nat /\ 1 <= Oldest(log) /\ Oldest(log) <= Len(log) + 1
  BY <1>4, SubsAssumption DEF Oldest
<1>9. y \in Receiver /\ Reader(y)'
  <2>1. CASE x.next < Oldest(log)
    <3>1. PICK lagged, z : /\ lagged = x.lagged + Oldest(log) - x.next
                           /\ z = [x EXCEPT !.lagged = lagged]
      OBVIOUS
    <3>2. lagged \in Nat /\ Len(x.got) + lagged = Oldest(log) - x.first
      <4>1. PICK first \in Nat, next \in Nat, was \in Nat, n \in Nat, oldest \in Nat :
              first = x.first /\ next = x.next /\ was = x.lagged /\ n = Len(x.got) /\ oldest = Oldest(log)
        BY <1>4, <1>8
      <4>2. n + was = next - first /\ next < oldest /\ lagged = was + oldest - next
        BY <1>5, <2>1, <3>1, <4>1
      <4>3. lagged \in Nat /\ n + lagged = oldest - first
        BY <4>2
      <4> QED  BY <4>1, <4>3
    <3>3. /\ z \in Receiver /\ z.lagged = lagged /\ z.channel = c /\ z.first = x.first
          /\ z.got = x.got
      BY <1>1, <1>4, <3>1, <3>2 DEF Receiver
    <3>4. y = [z EXCEPT !.next = Oldest(log)]
      BY <1>7, <2>1, <3>1
    <3>5. /\ y \in Receiver /\ y.lagged = lagged /\ y.channel = c /\ y.first = x.first
          /\ y.got = x.got /\ y.next = Oldest(log)
      BY <1>8, <3>3, <3>4 DEF Receiver
    <3>6. x.first <= Oldest(log)
      BY <1>4, <1>5, <1>8, <2>1
    <3>7. \A i \in 1..Len(x.got) : \E k \in 1..Len(log) : k < Oldest(log) /\ x.got[i] = log[k]
      BY <1>4, <1>5, <1>8, <2>1
    <3>8. InOrder(y.got)'
      BY <1>5, <3>5 DEF InOrder
    <3>9. channels'[c] = log /\ c \in DOMAIN channels' /\ committed' = committed
      BY <1>1, <1>2, <1>4
    <3> QED  BY <1>5, <1>8, <3>2, <3>5, <3>6, <3>7, <3>8, <3>9 DEF Reader
  <2>2. CASE ~(x.next < Oldest(log))
    <3>1. PICK e, got, z : e = log[x.next] /\ got = Append(x.got, e) /\ z = [x EXCEPT !.got = got]
      OBVIOUS
    <3>2. x.next \in 1..Len(log) /\ e \in Nat /\ committed[e] = c
      <4>1. 1 <= x.next
        BY <1>4, <1>5
      <4>2. x.next \in 1..Len(log)
        BY <1>2, <1>4, <4>1
      <4> QED  BY <1>6, <3>1, <4>2
    <3>3. /\ got \in Seq(Nat) /\ Len(got) = Len(x.got) + 1 /\ got[Len(x.got) + 1] = e
          /\ \A i \in 1..Len(x.got) : got[i] = x.got[i]
          /\ \A i \in 1..Len(got) : i \in 1..Len(x.got) \/ i = Len(x.got) + 1
      BY <1>4, <3>1, <3>2, AppendContinues DEF Continues
    <3>4. z \in Receiver /\ z.lagged = x.lagged /\ z.channel = c /\ z.first = x.first /\ z.got = got
          /\ z.next = x.next
      BY <1>1, <1>4, <3>1, <3>3 DEF Receiver
    <3>5. y = [z EXCEPT !.next = x.next + 1]
      BY <1>7, <2>2, <3>1
    <3>6. /\ y \in Receiver /\ y.lagged = x.lagged /\ y.channel = c /\ y.first = x.first
          /\ y.got = got /\ y.next = x.next + 1
      <4>1. PICK m \in Nat : m = x.next + 1
        BY <1>4
      <4>2. y = [z EXCEPT !.next = m]
        BY <3>5, <4>1
      <4>3. /\ y \in Receiver /\ y.lagged = z.lagged /\ y.channel = z.channel /\ y.first = z.first
            /\ y.got = z.got /\ y.next = m
        BY <3>4, <4>2 DEF Receiver
      <4> QED  BY <3>4, <4>1, <4>3
    <3>7. ASSUME NEW i \in 1..Len(got)
          PROVE  /\ \E k \in 1..Len(log) : k < x.next + 1 /\ got[i] = log[k]
                 /\ committed[got[i]] = c
      <4>1. CASE i \in 1..Len(x.got)
        <5>1. PICK k \in 1..Len(log) : k < x.next /\ x.got[i] = log[k]
          BY <1>5, <4>1
        <5>2. k < x.next + 1
          BY <1>4, <5>1
        <5> QED  BY <1>5, <3>3, <4>1, <5>1, <5>2
      <4>2. CASE i = Len(x.got) + 1
        <5>1. x.next < x.next + 1
          BY <1>4
        <5> QED  BY <3>1, <3>2, <3>3, <4>2, <5>1
      <4> QED  BY <3>3, <4>1, <4>2
    <3>8. ASSUME NEW i \in 1..Len(got), NEW j \in 1..Len(got), i < j
          PROVE  got[i] < got[j]
      <4>1. i \in 1..Len(x.got)
        BY <1>4, <3>3, <3>8
      <4>2. CASE j \in 1..Len(x.got)
        BY <1>5, <3>3, <3>8, <4>1, <4>2 DEF InOrder
      <4>3. CASE j = Len(x.got) + 1
        <5>1. PICK k \in 1..Len(log) : k < x.next /\ x.got[i] = log[k]
          BY <1>5, <4>1
        <5>2. log[k] < log[x.next]
          BY <1>6, <3>2, <5>1 DEF InOrder
        <5> QED  BY <3>1, <3>3, <4>1, <4>3, <5>1, <5>2
      <4> QED  BY <3>3, <4>2, <4>3
    <3>9. InOrder(y.got)'
      BY <3>6, <3>8 DEF InOrder
    <3>10. channels'[c] = log /\ c \in DOMAIN channels' /\ committed' = committed
      BY <1>1, <1>2, <1>4
    <3>11. /\ Len(got) + x.lagged = (x.next + 1) - x.first
           /\ x.first <= x.next + 1 /\ x.next + 1 <= Len(log) + 1
      <4>1. PICK first \in Nat, next \in Nat, was \in Nat, n \in Nat, all \in Nat :
              first = x.first /\ next = x.next /\ was = x.lagged /\ n = Len(x.got) /\ all = Len(log)
        BY <1>4
      <4>2. n + was = next - first /\ first <= next /\ next <= all /\ Len(got) = n + 1
        BY <1>2, <1>5, <3>3, <4>1
      <4>3. (n + 1) + was = (next + 1) - first /\ first <= next + 1 /\ next + 1 <= all + 1
        BY <4>2
      <4> QED  BY <4>1, <4>2, <4>3
    <3> QED  BY <1>5, <3>6, <3>7, <3>9, <3>10, <3>11 DEF Reader
  <2> QED  BY <2>1, <2>2
<1>10. receivers' \in [Receivers -> Receiver]
  BY <1>3, <1>7, <1>9
<1>11. SubsTypeOK' /\ ListensMatch' /\ CallsEnd' /\ PendingFits'
  BY <1>2, <1>3, <1>10 DEF SubsInv, SubsTypeOK, ListensMatch, CallsEnd, PendingFits, Receiver
<1>12. SentInOrder'
  <2>1. IncomingInOrder'
    BY <1>2 DEF SubsInv, SentInOrder, IncomingInOrder
  <2>2. LogsInOrder'
    BY <1>2 DEF SubsInv, SentInOrder, LogsInOrder, InOrder
  <2>3. NothingMissing' /\ NothingMissedOpening'
    BY <1>2 DEF SubsInv, SentInOrder, NothingMissing, NothingMissedOpening
  <2> QED  BY <2>1, <2>2, <2>3 DEF SentInOrder
<1>13. ASSUME NEW q \in Receivers PROVE Reader(receivers[q])'
  <2>1. CASE q = r
    <3>1. receivers'[q] = y
      BY <1>3, <1>7, <2>1
    <3> QED  BY <1>9, <3>1 DEF Reader
  <2>2. CASE q # r
    <3>1. receivers'[q] = receivers[q] /\ Reader(receivers[q])
      BY <1>3, <1>7, <2>2
    <3> QED  BY <1>2, <3>1 DEF Reader, InOrder
  <2> QED  BY <2>1, <2>2
<1>14. ReadsFromLog' /\ ReadsInOrder'
  BY <1>13, ReaderViewNext
<1> QED  BY <1>11, <1>12, <1>14 DEF SubsInv

-----------------------------------------------------------------------------
(* The theorems *)

LEMMA SubsFrame ==
    ASSUME SubsInv,
           UNCHANGED <<listened, listening, call, channels, incoming, receivers, pending, committed, gapless>>,
           phase' # "setup" => call = NoCall,
           conn' = "up" => conn = "up"
    PROVE  SubsInv'
<1>1. SubsTypeOK' /\ ListensMatch' /\ CallsEnd' /\ PendingFits'
  BY DEF SubsInv, SubsTypeOK, ListensMatch, CallsEnd, PendingFits
<1>2. SentInOrder'
  BY DEF SubsInv, SentInOrder, IncomingInOrder, LogsInOrder, NothingMissing, NothingMissedOpening, InOrder
<1>3. ReadsFromLog' /\ ReadsInOrder'
  BY DEF SubsInv, ReadsFromLog, ReadsInOrder, InOrder
<1> QED  BY <1>1, <1>2, <1>3 DEF SubsInv

LEMMA SubsInitInv == SubsInit => SubsInv
<1> SUFFICES ASSUME SubsInit PROVE SubsInv
  OBVIOUS
<1>1. /\ DOMAIN channels = {} /\ listened = {} /\ incoming = <<>> /\ committed = <<>>
      /\ pending = Idle /\ receivers = [r \in Receivers |-> Free] /\ gapless = [c \in Channels |-> 1]
      /\ Len(incoming) = 0 /\ call = NoCall /\ listening = {}
  BY DEF SubsInit
<1>2. Free \in Receiver /\ Free.channel = "none"
  BY EmptySeq DEF Free, Receiver
<1>3. incoming \in Seq(Notification) /\ committed \in Seq(Channels)
  BY <1>1, EmptySeq
<1>4. SubsTypeOK
  BY <1>1, <1>2, <1>3 DEF SubsTypeOK, Receiver, Notification
<1>5. ListensMatch /\ CallsEnd /\ PendingFits
  BY <1>1 DEF ListensMatch, CallsEnd, PendingFits, Idle, NoCall
<1>6. SentInOrder
  BY <1>1 DEF SentInOrder, IncomingInOrder, LogsInOrder, NothingMissing, NothingMissedOpening, NoCall
<1>7. ReadsFromLog /\ ReadsInOrder
  BY <1>1, <1>2 DEF ReadsFromLog, ReadsInOrder
<1> QED  BY <1>4, <1>5, <1>6, <1>7 DEF SubsInv

LEMMA SubsNextInv == SubsInv /\ [SubsNext]_subVars => SubsInv'
<1> SUFFICES ASSUME SubsInv, [SubsNext]_subVars PROVE SubsInv'
  OBVIOUS
<1>1. ASSUME NEW c \in Channels, Listen(c) \/ Unlisten(c) PROVE SubsInv'
  BY <1>1, ListenInv, UnlistenInv
<1>2. ASSUME NEW c \in Channels, NEW pk \in Keys, Convert(c, pk) PROVE SubsInv'
  BY <1>2, ConvertInv
<1>3. ASSUME NEW r \in Receivers, NEW c \in Channels, SubscribeExisting(r, c) PROVE SubsInv'
  BY <1>3, SubscribeExistingInv
<1>4. ASSUME NEW r \in Receivers, NEW c \in Channels, SubscribeShared(r, c) PROVE SubsInv'
  BY <1>4, SubscribeSharedInv
<1>5. ASSUME NEW r \in Receivers, ListenDone(r) PROVE SubsInv'
  BY <1>5, ListenDoneInv
<1>6. ASSUME NEW r \in Receivers, Recv(r) PROVE SubsInv'
  BY <1>6, RecvInv
<1>7. CASE UnlistenDone
  BY <1>7, UnlistenDoneInv
<1>8. CASE CallFails
  BY <1>8, CallFailsInv
<1>9. CASE notify_mutation
  BY <1>9, NotifyInv
<1>10. CASE ConnectionLost
  BY <1>10, ConnectionLostInv
<1>11. CASE Dispatch
  BY <1>11, DispatchInv
<1>12. CASE Reconnect
  BY <1>12, ReconnectInv
<1>13. CASE Run \/ RecvError \/ Wake
  <2>1. phase # "setup" => call = NoCall
    BY DEF SubsInv, CallsEnd
  <2> QED  BY <1>13, <2>1, SubsFrame DEF Run, Owned, RecvError, Wake, connection, publishing
<1>14. CASE UNCHANGED subVars
  <2>1. phase # "setup" => call = NoCall
    BY DEF SubsInv, CallsEnd
  <2> QED  BY <1>14, <2>1, SubsFrame DEF subVars, connection, publishing
<1> QED
  BY <1>1, <1>2, <1>3, <1>4, <1>5, <1>6, <1>7, <1>8, <1>9, <1>10, <1>11, <1>12, <1>13, <1>14
  DEF SubsNext, Loop

(* SubsInv is inductive: logs and notifications stay in commit order, the  *)
(* logs continue into the notifications, and receivers read from the logs. *)
THEOREM SubsInvariant == SubsSpec => []SubsInv
<1> QED
  BY SubsInitInv, SubsNextInv, PTL DEF SubsSpec

(* Every event since the last outage is sent or incoming, in commit order  *)
(* and once, and every receiver accounts for all its sender sent.          *)
THEOREM SubsNoLossBetweenOutages == SubsSpec => []NoLossBetweenOutages
<1>1. SubsInv => NoLossBetweenOutages
  BY DEF SubsInv, NoLossBetweenOutages
<1> QED
  BY <1>1, SubsInvariant, PTL

(* The map of senders agrees with PgListener's list, and on a live         *)
(* connection with what the server delivers, but for the call on its way.  *)
THEOREM SubsListensMatch == SubsSpec => []ListensMatch
<1>1. SubsInv => ListensMatch
  BY DEF SubsInv
<1> QED
  BY <1>1, SubsInvariant, PTL

(* notify_mutation refuses no key that a conversion accepted. *)
THEOREM SubsConvertedIsSent == SubsSpec => []ConvertedIsSent
<1>1. SubsInv => ConvertedIsSent
  BY DEF SubsInv, PendingFits, ConvertedIsSent
<1> QED
  BY <1>1, SubsInvariant, PTL

=============================================================================
