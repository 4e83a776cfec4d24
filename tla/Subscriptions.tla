--------------------------- MODULE Subscriptions ---------------------------
(***************************************************************************)
(* Mutation events: the publisher (publisher.rs) turns a primary key into  *)
(* a NOTIFY, the manager (listener.rs) hands what its LISTEN connection    *)
(* delivers to one broadcast channel per Postgres channel, receivers read  *)
(* from those at their own pace.  An event is numbered in commit order.    *)
(***************************************************************************)
EXTENDS Naturals, Sequences, FiniteSets, SequencesExt

CONSTANTS
  Channels,            \* Postgres channels (mutation_channel of a table)
  Receivers,           \* broadcast receivers that may be created
  Keys,                \* primary keys of mutated rows: sequences of PgValues
  MAX_PAYLOAD_BYTES,   \* 7900 in the code
  BROADCAST_CAPACITY,  \* 256 in the code
  JsonOverhead,        \* bytes the JSON object adds per column
  MaxEvents,           \* bound: mutations published
  MaxFaults            \* bound: connection losses and failed reconnects

ASSUME SubsAssumption ==
  /\ MAX_PAYLOAD_BYTES \in Nat /\ JsonOverhead \in Nat
  /\ BROADCAST_CAPACITY \in Nat \ {0}
  /\ MaxEvents \in Nat /\ MaxFaults \in Nat
  /\ "none" \notin Channels

VARIABLES
  phase,      \* "setup": the owner may subscribe; "running": run() owns the manager
  conn,       \* the LISTEN connection: "up", "down", or "sleeping" after a failed recv()
  listened,   \* PgListener's own list: the channels it re-LISTENs when it reconnects
  listening,  \* the channels the server delivers on this connection
  call,       \* the LISTEN or UNLISTEN whose answer subscribe or unsubscribe awaits
  channels,   \* the map: channel -> events its sender has sent, in order
  incoming,   \* notifications on the connection or in PgListener's buffer
  receivers,  \* receiver -> channel, next position, events read, events lagged over
  pending,    \* the publisher's converted key waiting for notify_mutation
  committed,  \* history: channel of each committed event, by number
  gapless,    \* history: channel -> first event since when nothing was lost
  faults
publishing == <<pending, committed>>
connection == <<conn, listening, incoming>>
subVars == <<phase, connection, listened, call, channels, receivers, publishing, gapless, faults>>

Idle == [status |-> "idle", channel |-> "none", size |-> 0]
NoCall == [op |-> "none", channel |-> "none"]
Free == [channel |-> "none", first |-> 1, next |-> 1, got |-> <<>>, lagged |-> 0]

-----------------------------------------------------------------------------
\* publisher.rs.  A PgValue is its variant with the length of its text; a
\* conversion yields the length of the payload, or an error.
Err(kind)  == [ok |-> FALSE, size |-> 0, error |-> kind]
Text(size) == [ok |-> TRUE, size |-> size, error |-> "none"]

Limited(size) == IF size >= MAX_PAYLOAD_BYTES THEN Err("PayloadTooLarge") ELSE Text(size)

pk_to_text(v) ==
  IF v.type \in {"Uuid", "Int", "Text"} THEN Limited(v.size) ELSE Err("Serialization")

\* A bug: the limit of the whole object is not checked.
mut_composite_pk_to_text(vs) ==
  LET bad == {i \in 1..Len(vs) : ~pk_to_text(vs[i]).ok}
  IN  IF bad # {} THEN pk_to_text(vs[CHOOSE i \in bad : \A j \in bad : i <= j])
      ELSE Text(FoldLeft(LAMBDA n, v : n + v.size + JsonOverhead, 0, vs))
\* The total of the JSON object is limited, on top of every part.
composite_pk_to_text(vs) ==
  LET bad == {i \in 1..Len(vs) : ~pk_to_text(vs[i]).ok}
  IN  IF bad # {} THEN pk_to_text(vs[CHOOSE i \in bad : \A j \in bad : i <= j])
      ELSE Limited(FoldLeft(LAMBDA n, v : n + v.size + JsonOverhead, 0, vs))

\* A mutation completes and its key is converted.
Convert(c, pk) ==
  /\ pending.status = "idle" /\ Len(committed) < MaxEvents
  /\ LET t == IF Len(pk) = 1 THEN pk_to_text(pk[1]) ELSE composite_pk_to_text(pk)
     IN  /\ t.ok
         /\ pending' = [status |-> "converted", channel |-> c, size |-> t.size]
  /\ UNCHANGED <<phase, connection, listened, call, channels, receivers, committed, gapless, faults>>

\* notify_mutation: the limit again, then pg_notify.  Postgres delivers to the
\* connection if it LISTENs; to a lost connection it delivers nothing.
notify_mutation ==
  /\ pending.status = "converted"
  /\ IF pending.size >= MAX_PAYLOAD_BYTES
       THEN /\ pending' = [pending EXCEPT !.status = "refused"]
            /\ UNCHANGED <<committed, incoming, gapless>>
       ELSE LET n == Len(committed) + 1
                c == pending.channel
                heard == c \in listening
            IN /\ pending' = Idle
               /\ committed' = Append(committed, c)
               /\ incoming' = IF heard THEN Append(incoming, [channel |-> c, event |-> n])
                                       ELSE incoming
               /\ gapless' = IF heard THEN gapless ELSE [gapless EXCEPT ![c] = n + 1]
  /\ UNCHANGED <<phase, conn, listening, listened, call, channels, receivers, faults>>

-----------------------------------------------------------------------------
\* listener.rs.  The manager is owned by one task until run() consumes it, and
\* subscribe and unsubscribe borrow it mutably: one call at a time.  Both await
\* PgListener, whose statement takes effect at the server before its answer is
\* back; in between events are committed and the connection may be lost.  A
\* statement on a lost connection fails and changes nothing.
Owned == phase = "setup" /\ call = NoCall

Attach(r, c, log) ==
  receivers' = [receivers EXCEPT ![r] =
                  [Free EXCEPT !.channel = c, !.first = Len(log) + 1, !.next = Len(log) + 1]]

WithSender(c) == [x \in DOMAIN channels \cup {c} |-> IF x = c THEN <<>> ELSE channels[x]]

\* subscribe, of a channel that has a sender: a further receiver of it.
SubscribeExisting(r, c) ==
  /\ Owned /\ receivers[r].channel = "none" /\ c \in DOMAIN channels
  /\ Attach(r, c, channels[c])
  /\ UNCHANGED <<phase, connection, listened, call, channels, publishing, gapless, faults>>

\* A bug: the sender is in the map before the LISTEN is answered.
mut_Listen(c) ==
  /\ Owned /\ c \notin DOMAIN channels /\ conn = "up"
  /\ listening' = listening \cup {c}
  /\ call' = [op |-> "listen", channel |-> c]
  /\ gapless' = [gapless EXCEPT ![c] = Len(committed) + 1]
  /\ channels' = WithSender(c)
  /\ UNCHANGED <<phase, conn, incoming, listened, receivers, publishing, faults>>
\* subscribe, of a new channel: the LISTEN takes effect, ...
Listen(c) ==
  /\ Owned /\ c \notin DOMAIN channels /\ conn = "up"
  /\ listening' = listening \cup {c}
  /\ call' = [op |-> "listen", channel |-> c]
  /\ gapless' = [gapless EXCEPT ![c] = Len(committed) + 1]
  /\ UNCHANGED <<phase, conn, incoming, listened, channels, receivers, publishing, faults>>

\* ... and its answer arrives: PgListener records the channel, the sender is
\* inserted and its first receiver returned, ...
ListenDone(r) ==
  LET c == call.channel
  IN  /\ call.op = "listen" /\ receivers[r].channel = "none"
      /\ listened' = listened \cup {c}
      /\ channels' = WithSender(c)
      /\ Attach(r, c, <<>>)
      /\ call' = NoCall
      /\ UNCHANGED <<phase, connection, publishing, gapless, faults>>

\* unsubscribe: the UNLISTEN takes effect, ...
Unlisten(c) ==
  /\ Owned /\ conn = "up"
  /\ listening' = listening \ {c}
  /\ call' = [op |-> "unlisten", channel |-> c]
  /\ UNCHANGED <<phase, conn, incoming, listened, channels, receivers, publishing, gapless, faults>>

\* ... and its answer arrives: PgListener forgets the channel and the sender is
\* dropped; before run() it has sent nothing, so its receivers only see Closed.
UnlistenDone ==
  LET c == call.channel
  IN  /\ call.op = "unlisten"
      /\ listened' = listened \ {c}
      /\ channels' = [x \in DOMAIN channels \ {c} |-> channels[x]]
      /\ receivers' = [r \in Receivers |-> IF receivers[r].channel = c THEN Free ELSE receivers[r]]
      /\ call' = NoCall
      /\ UNCHANGED <<phase, connection, publishing, gapless, faults>>

\* The connection is lost before the answer: `?` returns the error from
\* subscribe or unsubscribe before anything is recorded.
CallFails ==
  /\ call # NoCall /\ conn = "down"
  /\ call' = NoCall
  /\ UNCHANGED <<phase, connection, listened, channels, receivers, publishing, gapless, faults>>

Run == /\ Owned /\ phase' = "running"
       /\ UNCHANGED <<connection, listened, call, channels, receivers, publishing, gapless, faults>>

\* A further receiver from the map that channels() shares.
SubscribeShared(r, c) ==
  /\ phase = "running" /\ receivers[r].channel = "none" /\ c \in DOMAIN channels
  /\ Attach(r, c, channels[c])
  /\ UNCHANGED <<phase, connection, listened, call, channels, publishing, gapless, faults>>

\* A bug: the newest notification is taken first.
mut_Dispatch ==
  /\ phase = "running" /\ conn # "sleeping" /\ incoming # <<>>
  /\ incoming' = Front(incoming)
  /\ channels' = [c \in DOMAIN channels |->
       IF c = Last(incoming).channel THEN Append(channels[c], Last(incoming).event)
                                     ELSE channels[c]]
  /\ UNCHANGED <<phase, conn, listening, listened, call, receivers, publishing, gapless, faults>>
\* recv() gives the next notification; without a sender, or without receivers,
\* it goes nowhere.
Dispatch ==
  /\ phase = "running" /\ conn # "sleeping" /\ incoming # <<>>
  /\ incoming' = Tail(incoming)
  /\ channels' = [c \in DOMAIN channels |->
       IF c = Head(incoming).channel THEN Append(channels[c], Head(incoming).event)
                                     ELSE channels[c]]
  /\ UNCHANGED <<phase, conn, listening, listened, call, receivers, publishing, gapless, faults>>

\* The connection breaks; what had not been read from it is lost.
ConnectionLost ==
  /\ conn = "up" /\ faults < MaxFaults
  /\ faults' = faults + 1 /\ conn' = "down" /\ listening' = {}
  /\ \E k \in 0..Len(incoming) : incoming' = SubSeq(incoming, 1, k)
  /\ gapless' = [c \in Channels |-> Len(committed) + 1]
  /\ UNCHANGED <<phase, listened, call, channels, receivers, publishing>>

\* recv() with nothing buffered reconnects and LISTENs again, ...
Reconnect ==
  /\ phase = "running" /\ conn = "down" /\ incoming = <<>>
  /\ conn' = "up" /\ listening' = listened
  /\ UNCHANGED <<phase, listened, call, channels, incoming, receivers, publishing, gapless, faults>>

\* A bug: an error of recv() ends the loop.
mut_RecvError ==
  /\ phase = "running" /\ conn = "down" /\ incoming = <<>> /\ faults < MaxFaults
  /\ faults' = faults + 1 /\ conn' = "stopped"
  /\ UNCHANGED <<phase, listening, listened, call, channels, incoming, receivers, publishing, gapless>>
\* ... or fails, and the loop sleeps before it tries again.
RecvError ==
  /\ phase = "running" /\ conn = "down" /\ incoming = <<>> /\ faults < MaxFaults
  /\ faults' = faults + 1 /\ conn' = "sleeping"
  /\ UNCHANGED <<phase, listening, listened, call, channels, incoming, receivers, publishing, gapless>>

Wake ==
  /\ conn = "sleeping" /\ conn' = "down"
  /\ UNCHANGED <<phase, listening, listened, call, channels, incoming, receivers, publishing, gapless, faults>>

\* A receiver reads: tokio's channel keeps the last BROADCAST_CAPACITY
\* messages and tells a receiver how many it lagged behind.
Oldest(log) == IF Len(log) > BROADCAST_CAPACITY THEN Len(log) - BROADCAST_CAPACITY + 1 ELSE 1
Recv(r) ==
  LET x == receivers[r]
      log == channels[x.channel]
      lag == x.next < Oldest(log)
  IN /\ x.channel # "none" /\ x.next <= Len(log)
     /\ receivers' = [receivers EXCEPT ![r] =
          IF lag THEN [x EXCEPT !.lagged = @ + Oldest(log) - x.next, !.next = Oldest(log)]
                 ELSE [x EXCEPT !.got = Append(@, log[x.next]), !.next = @ + 1]]
     /\ UNCHANGED <<phase, connection, listened, call, channels, publishing, gapless, faults>>

SubsInit ==
  /\ phase = "setup" /\ conn = "up"
  /\ listened = {} /\ listening = {} /\ call = NoCall /\ channels = [c \in {} |-> <<>>] /\ incoming = <<>>
  /\ receivers = [r \in Receivers |-> Free]
  /\ pending = Idle /\ committed = <<>>
  /\ gapless = [c \in Channels |-> 1] /\ faults = 0

\* The dispatch loop and the receivers' own tasks.
Loop == Dispatch \/ Reconnect \/ RecvError \/ Wake

SubsNext ==
  \/ \E c \in Channels : Listen(c) \/ Unlisten(c) \/ \E pk \in Keys : Convert(c, pk)
  \/ \E r \in Receivers, c \in Channels : SubscribeExisting(r, c) \/ SubscribeShared(r, c)
  \/ \E r \in Receivers : ListenDone(r) \/ Recv(r)
  \/ UnlistenDone \/ CallFails \/ Run
  \/ notify_mutation \/ ConnectionLost \/ Loop
SubsSpec == SubsInit /\ [][SubsNext]_subVars /\ WF_subVars(Loop)
              /\ \A r \in Receivers : WF_subVars(Recv(r))

-----------------------------------------------------------------------------
\* The notifications of a channel travel in commit order, each once: those its
\* sender has sent, then those still incoming.
InOrder(log) == \A i, j \in 1..Len(log) : i < j => log[i] < log[j]
IncomingInOrder ==
  /\ \A i \in 1..Len(incoming) : /\ incoming[i].event \in 1..Len(committed)
                                  /\ committed[incoming[i].event] = incoming[i].channel
  /\ \A i, j \in 1..Len(incoming) : i < j => incoming[i].event < incoming[j].event
LogsInOrder ==
  \A c \in DOMAIN channels :
    /\ InOrder(channels[c])
    /\ \A i \in 1..Len(channels[c]) :
         /\ channels[c][i] \in 1..Len(committed) /\ committed[channels[c][i]] = c
         /\ \A j \in 1..Len(incoming) : channels[c][i] < incoming[j].event

\* Since the last outage, every event committed on a subscribed channel has been
\* sent to its receivers or is about to be, in commit order and once: neither
\* the wait between the LISTEN and the new sender nor the hand-over to run()
\* opens a gap (subscribe, run).
NothingMissing ==
  \A c \in DOMAIN channels : \A n \in gapless[c]..Len(committed) : committed[n] = c =>
    \/ \E i \in 1..Len(channels[c]) : channels[c][i] = n
    \/ \E i \in 1..Len(incoming) : incoming[i].event = n
NothingMissedOpening ==
  call.op = "listen" =>
    \A n \in gapless[call.channel]..Len(committed) :
      committed[n] = call.channel => \E i \in 1..Len(incoming) : incoming[i].event = n
SentInOrder == IncomingInOrder /\ LogsInOrder /\ NothingMissing /\ NothingMissedOpening

\* A receiver reads events of its own channel, each once and in commit order,
\* and knows of every event it missed since it subscribed: those it read and
\* those it was told it lagged behind account for all the sender sent.
ReadsInOrder ==
  \A r \in Receivers :
    LET x == receivers[r]
    IN  x.channel # "none" =>
          /\ \A i \in 1..Len(x.got) : committed[x.got[i]] = x.channel
          /\ InOrder(x.got)
          /\ Len(x.got) + x.lagged = x.next - x.first

\* Between two outages of the LISTEN connection no event is lost on its way from
\* the commit to a receiver without that receiver being told (RecvError::Lagged).
\* The exception is the outage itself: what was committed while the connection
\* was down, or was still unread on it, is gone, and neither the manager nor its
\* receivers learn of it (gapless, which starts anew there, is a history
\* variable of the model and no state of the code).
NoLossBetweenOutages == SentInOrder /\ ReadsInOrder

\* The map of senders agrees with PgListener's list, and on a live connection
\* with what the server delivers, but for the one channel whose LISTEN or
\* UNLISTEN is on its way: whichever step of the calls fails and whenever the
\* connection is lost and found again, no channel is left listened to without a
\* sender or served without a LISTEN (subscribe, unsubscribe, recv).
ListensMatch ==
  /\ DOMAIN channels = listened
  /\ conn = "up" => \A c \in Channels \ {call.channel} : c \in listened <=> c \in listening

\* A key that was converted is never refused by notify_mutation, which checks
\* the limit once more after the mutation has happened.
ConvertedIsSent == pending.status # "refused"

\* Under fair scheduling of the loop and the receivers, a running manager gets
\* through every outage: whatever was delivered is dispatched and read.
CatchesUp ==
  (phase = "running") ~>
     /\ conn = "up" /\ incoming = <<>>
     /\ \A r \in Receivers :
          receivers[r].channel # "none" => receivers[r].next > Len(channels[receivers[r].channel])

-----------------------------------------------------------------------------
\* The inductive invariant behind the safety properties.
SubsTypeOK ==
  /\ listened \subseteq Channels /\ listening \subseteq Channels
  /\ call \in [op : {"listen", "unlisten"}, channel : Channels] \cup {NoCall}
  /\ \A c \in DOMAIN channels : channels[c] \in Seq(Nat)
  /\ incoming \in Seq([channel : Channels, event : Nat])
  /\ receivers \in [Receivers -> [channel : Channels \cup {"none"}, first : Nat, next : Nat,
                                   got : Seq(Nat), lagged : Nat]]
  /\ committed \in Seq(Channels)
  /\ gapless \in [Channels -> Nat \ {0}]

\* What waits for notify_mutation was found short enough by the conversion.
PendingFits ==
  /\ pending.status \in {"idle", "converted"}
  /\ pending.status = "converted" =>
       pending.channel \in Channels /\ ~(pending.size >= MAX_PAYLOAD_BYTES)

\* The owner's calls end before run() takes the manager, a new channel has no
\* sender before its LISTEN is answered, and the server has done what is asked.
CallsEnd ==
  /\ phase # "setup" => call = NoCall
  /\ call.op = "listen" => call.channel \notin DOMAIN channels
  /\ conn = "up" /\ call.op = "listen" => call.channel \in listening
  /\ conn = "up" /\ call.op = "unlisten" => call.channel \notin listening

\* A receiver's channel has a sender, and what it got was read from its log.
ReadsFromLog ==
  \A r \in Receivers :
    LET x == receivers[r]
        log == channels[x.channel]
    IN  x.channel # "none" =>
          /\ x.channel \in DOMAIN channels
          /\ 1 <= x.first /\ x.first <= x.next /\ x.next <= Len(log) + 1
          /\ \A i \in 1..Len(x.got) : \E k \in 1..Len(log) : k < x.next /\ x.got[i] = log[k]

SubsInv ==
  /\ SubsTypeOK
  /\ ListensMatch
  /\ CallsEnd
  /\ PendingFits
  /\ SentInOrder
  /\ ReadsFromLog
  /\ ReadsInOrder
=============================================================================
