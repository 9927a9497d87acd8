---------------------------- MODULE PushTransport ----------------------------
(***************************************************************************)
(* The WebSocket transport between the server and one window: WsRpcServer  *)
(* (transport/server.ts) and WsRpcClient (transport/client.ts). The server *)
(* numbers the events it pushes to a client, keeps them in a bounded       *)
(* buffer, and keeps the buffer of a client that is gone for a while. A    *)
(* client that comes back names its old identity and the last number it    *)
(* saw; the server replays what is missing or says that it cannot.         *)
(*                                                                         *)
(* Left out: requests and responses, credentials, and a window that moves  *)
(* to another workspace (its identity then no longer matches and it is     *)
(* served as a new client).                                                *)
(***************************************************************************)
EXTENDS Naturals, FiniteSets, SequencesExt

CONSTANTS MaxPush,      \* bound: events pushed
          MaxFaults,    \* bound: connections lost, server restarts included
          BufferMax,    \* EVENT_BUFFER_MAX_SIZE
          RetainedMax,  \* clients kept after their connection is lost
          None

ASSUME TransportAssumption == /\ MaxPush \in Nat /\ MaxFaults \in Nat
                              /\ BufferMax \in Nat \ {0}
                              /\ RetainedMax \in Nat \ {0}
                              /\ None \notin Nat \cup [id : Nat, seq : Nat]

\* A connection ends by a fault, so one more of them is always enough. The
\* server names a client it does not know by the connection it came with.
Socket == 1 .. MaxFaults + 1

VARIABLES
  pushed,    \* events pushed to the workspace; an event is known by its number
  expired,   \* events up to this one are older than EVENT_BUFFER_TTL_MS
  clients,   \* identities of the connected clients
  retained,  \* disconnectedClients: identities, oldest first
  entry,     \* identity -> ClientConnection
  opened,    \* connections opened so far
  link,      \* connection -> whether bytes still pass
  served,    \* connection -> what the server has done with it
  owner,     \* connection -> the client its handlers were set up for
  hello,     \* connection -> pendingReconnect as the handshake names it
  down,      \* connection -> messages on their way to the window
  acking,    \* connection -> sequence_ack on its way to the server, or 0
  cli,       \* the WsRpcClient
  faults,    \* connections lost so far
  seen,      \* events the window's state accounts for
  told       \* times the window was told to load its state anew

server == <<clients, retained, entry, owner, served>>
net == <<opened, link, hello, down, acking>>
ghost == <<seen, told>>
vars == <<pushed, expired, server, net, cli, faults, ghost>>

Fresh(s) == [sock |-> s, sent |-> 0, acked |-> 0, buf |-> <<>>]
Event(e) == [type |-> "event", seq |-> e.seq, ev |-> e.ev]
\* covers: the events a reload asked for by this answer accounts for.
HandshakeAck(id, reconnected, stale) ==
  [type |-> "handshake_ack", id |-> id, reconnected |-> reconnected,
   stale |-> stale, covers |-> pushed]

Init ==
  /\ pushed = 0 /\ expired = 0 /\ faults = 0 /\ seen = 0 /\ told = 0
  /\ clients = {} /\ retained = <<>>
  /\ entry = [s \in Socket |-> Fresh(s)]
  /\ opened = 0
  /\ link = [s \in Socket |-> "up"]
  /\ served = [s \in Socket |-> "no"]
  /\ owner = [s \in Socket |-> None]
  /\ hello = [s \in Socket |-> None]
  /\ down = [s \in Socket |-> <<>>]
  /\ acking = [s \in Socket |-> 0]
  /\ cli = [ws |-> None, id |-> None, lastSeen |-> 0, pending |-> None,
            resuming |-> FALSE]

IsRetained(id) == \E i \in DOMAIN retained : retained[i] = id
Without(id) == RemoveFirst(retained, id)

\* A snapshot of who the client is and what it saw, once it has an identity.
Pending == IF cli.id = None THEN cli.pending
           ELSE [id |-> cli.id, seq |-> cli.lastSeen]

-----------------------------------------------------------------------------
(* Buffers.                                                                *)

\* What is left of a buffer when the loop that removes from its front meets an
\* event that is none of these positions.
Rest(buf, gone) ==
  SubSeq(buf, Min({i \in 1 .. Len(buf) + 1 : i \notin gone}), Len(buf))

\* What of a buffer comes after a number: numbers grow along it.
After(buf, seq) == Rest(buf, {i \in DOMAIN buf : buf[i].seq <= seq})

Live(buf) == Rest(buf, {i \in DOMAIN buf : buf[i].ev <= expired})

\* Seeded fault: the count is held against the buffer before the eviction.
EvictBufferLate(buf) ==
  LET live == Live(buf)
      over == IF Len(live) > BufferMax + 1 THEN 1 ELSE 0
  IN SubSeq(live, over + 1, Len(live))

\* What is left of a buffer: nothing expired, and the newest BufferMax.
EvictBuffer(buf) ==
  LET live == Live(buf)
      over == IF Len(live) > BufferMax THEN Len(live) - BufferMax ELSE 0
  IN SubSeq(live, over + 1, Len(live))

Buffered(c) ==
  [c EXCEPT !.sent = @ + 1,
            !.buf = EvictBuffer(Append(@, [seq |-> c.sent + 1, ev |-> pushed + 1]))]

Time == /\ expired < pushed
        /\ expired' = expired + 1
        /\ UNCHANGED <<pushed, server, net, cli, faults, ghost>>

\* An event goes to every buffer, and to the connections that take it. A
\* slow one is terminated and keeps the event in its buffer.
Push ==
  /\ pushed < MaxPush
  /\ pushed' = pushed + 1
  /\ LET open == {entry[id].sock : id \in clients}
         takers == {s \in open : link[s] = "up"}
         sentOn(s) == CHOOSE id \in clients : entry[id].sock = s
     IN \E slow \in SUBSET takers :
          /\ faults + Cardinality(slow) <= MaxFaults
          /\ faults' = faults + Cardinality(slow)
          /\ link' = [s \in Socket |-> IF s \in slow THEN "cut" ELSE link[s]]
          /\ entry' = [id \in Socket |-> IF id \in clients \/ IsRetained(id)
                                         THEN Buffered(entry[id]) ELSE entry[id]]
          /\ down' = [s \in Socket |->
               IF s \in takers \ slow
               THEN Append(down[s], [type |-> "event", ev |-> pushed + 1,
                                     seq |-> entry[sentOn(s)].sent + 1])
               ELSE down[s]]
  /\ UNCHANGED <<expired, clients, retained, owner, served, opened, hello,
                 acking, cli, ghost>>

-----------------------------------------------------------------------------
(* Connecting.                                                             *)

\* Seeded fault: only a window that was connected before tries again.
ConnectIfConnectedBefore ==
  /\ cli.ws = None
  /\ opened < MaxFaults + 1
  /\ opened = 0 \/ cli.pending # None
  /\ LET s == opened + 1 IN
       /\ opened' = s
       /\ served' = [served EXCEPT ![s] = "handshake"]
       /\ hello' = [hello EXCEPT ![s] = cli.pending]
       /\ cli' = [cli EXCEPT !.ws = s, !.resuming = cli.pending # None]
  /\ UNCHANGED <<pushed, expired, clients, retained, entry, owner, link, down,
                 acking, faults, ghost>>

\* The window opens a connection and introduces itself on it.
Connect ==
  /\ cli.ws = None
  /\ opened < MaxFaults + 1
  /\ LET s == opened + 1 IN
       /\ opened' = s
       /\ served' = [served EXCEPT ![s] = "handshake"]
       /\ hello' = [hello EXCEPT ![s] = cli.pending]
       /\ cli' = [cli EXCEPT !.ws = s, !.resuming = cli.pending # None]
  /\ UNCHANGED <<pushed, expired, clients, retained, entry, owner, link, down,
                 acking, faults, ghost>>

\* Seeded fault: a client that still counts as connected is taken over.
RecognisedWhileConnected(s) ==
  hello[s] # None /\ (IsRetained(hello[s].id) \/ hello[s].id \in clients)

Recognised(s) == hello[s] # None /\ IsRetained(hello[s].id)

CanReplay(s, buf) ==
  \/ hello[s].seq >= entry[hello[s].id].sent
  \/ buf # <<>> /\ hello[s].seq + 1 >= buf[1].seq

\* Seeded fault: the events that are left are replayed, however many are gone.
AnswerWhatIsLeft(s, buf) ==
  LET id == hello[s].id
      missed == After(buf, hello[s].seq)
  IN <<HandshakeAck(id, TRUE, FALSE)>> \o [i \in DOMAIN missed |-> Event(missed[i])]

\* What a client that is recognised is sent: the events it missed, in order,
\* or the word that they are gone.
Answer(s, buf) ==
  LET id == hello[s].id
      missed == After(buf, hello[s].seq)
  IN IF CanReplay(s, buf)
     THEN <<HandshakeAck(id, TRUE, FALSE)>> \o [i \in DOMAIN missed |-> Event(missed[i])]
     ELSE <<HandshakeAck(id, TRUE, TRUE)>>

\* The buffer and the numbering go on with the new connection. It may be
\* terminated in the middle of the replay.
Resume(s) ==
  LET id == hello[s].id
      buf == EvictBuffer(entry[id].buf)
      answer == Answer(s, buf)
  IN /\ Recognised(s)
     /\ \E n \in 1 .. Len(answer) :
          /\ n < Len(answer) => faults < MaxFaults
          /\ down' = [down EXCEPT ![s] = SubSeq(answer, 1, n)]
          /\ link' = [link EXCEPT ![s] = IF n < Len(answer) THEN "cut" ELSE @]
          /\ faults' = faults + (IF n < Len(answer) THEN 1 ELSE 0)
     /\ entry' = [entry EXCEPT ![id].sock = s, ![id].buf = buf]
     /\ retained' = Without(id)
     /\ clients' = clients \cup {id}
     /\ owner' = [owner EXCEPT ![s] = id]

Admit(s) ==
  /\ ~Recognised(s)
  /\ clients' = clients \cup {s}
  /\ owner' = [owner EXCEPT ![s] = s]
  /\ down' = [down EXCEPT ![s] = <<HandshakeAck(s, FALSE, FALSE)>>]
  /\ UNCHANGED <<entry, retained, link, faults>>

Handshake(s) ==
  /\ served[s] = "handshake" /\ link[s] = "up"
  /\ served' = [served EXCEPT ![s] = "live"]
  /\ Resume(s) \/ Admit(s)
  /\ UNCHANGED <<pushed, expired, opened, hello, acking, cli, ghost>>

-----------------------------------------------------------------------------
(* The window receives.                                                    *)

\* An answer that does not continue the old identity, or cannot replay, makes
\* the listeners of __transport:reconnected reload; the first one of all is
\* the window's first load.
OnHandshakeAck(m) ==
  /\ cli' = [cli EXCEPT !.id = m.id, !.pending = None, !.resuming = FALSE,
                        !.lastSeen = IF m.reconnected THEN @ ELSE 0]
  /\ IF told = 0 \/ (cli.resuming /\ (~m.reconnected \/ m.stale))
     THEN seen' = m.covers /\ told' = told + 1
     ELSE UNCHANGED ghost

OnEvent(m) == /\ cli' = [cli EXCEPT !.lastSeen = m.seq]
              /\ seen' = m.ev
              /\ UNCHANGED told

OnMessage ==
  /\ cli.ws # None /\ down[cli.ws] # <<>>
  /\ LET m == Head(down[cli.ws]) IN
       IF m.type = "event" THEN OnEvent(m) ELSE OnHandshakeAck(m)
  /\ down' = [down EXCEPT ![cli.ws] = Tail(@)]
  /\ UNCHANGED <<pushed, expired, server, opened, link, hello, acking, faults>>

\* The ack timer of a connected window.
SendAck ==
  /\ cli.id # None /\ cli.lastSeen > acking[cli.ws] /\ link[cli.ws] = "up"
  /\ acking' = [acking EXCEPT ![cli.ws] = cli.lastSeen]
  /\ UNCHANGED <<pushed, expired, server, opened, link, hello, down, cli, faults,
                 ghost>>

SequenceAck(s) ==
  LET id == owner[s] IN
  /\ served[s] = "live" /\ acking[s] > entry[id].acked
  /\ entry' = [entry EXCEPT ![id].acked = acking[s],
                            ![id].buf = After(@, acking[s])]
  /\ UNCHANGED <<pushed, expired, clients, retained, owner, served, net, cli,
                 faults, ghost>>

-----------------------------------------------------------------------------
(* Losing connections.                                                     *)

\* The network, a missed heartbeat, the window's connect timeout or its user
\* (reconnectNow) ends a connection; each end hears of it in its own time.
Cut(s) ==
  /\ s <= opened /\ link[s] = "up" /\ faults < MaxFaults
  /\ link' = [link EXCEPT ![s] = "cut"]
  /\ faults' = faults + 1
  /\ UNCHANGED <<pushed, expired, server, opened, hello, down, acking, cli, ghost>>

OnDisconnect ==
  /\ cli.ws # None /\ link[cli.ws] = "cut"
  /\ cli' = [cli EXCEPT !.pending = Pending, !.id = None, !.ws = None]
  /\ UNCHANGED <<pushed, expired, server, net, faults, ghost>>

\* The server keeps the client's buffer, and forgets the oldest of too many.
OnClose(s) ==
  /\ link[s] = "cut" /\ served[s] \in {"handshake", "live"}
  /\ served' = [served EXCEPT ![s] = "closed"]
  /\ IF owner[s] = None THEN UNCHANGED <<clients, retained>>
     ELSE LET kept == Append(Without(owner[s]), owner[s]) IN
          /\ clients' = clients \ {owner[s]}
          /\ retained' = IF Len(kept) > RetainedMax THEN Tail(kept) ELSE kept
  /\ UNCHANGED <<pushed, expired, entry, owner, net, cli, faults, ghost>>

\* DISCONNECTED_CLIENT_TTL_MS has passed.
Forget(id) ==
  /\ IsRetained(id)
  /\ retained' = Without(id)
  /\ UNCHANGED <<pushed, expired, clients, entry, owner, served, net, cli, faults,
                 ghost>>

\* A new server process knows nobody; the events of the old one stay pushed.
Restart ==
  /\ faults < MaxFaults /\ opened > 0
  /\ faults' = faults + 1
  /\ clients' = {} /\ retained' = <<>>
  /\ served' = [s \in Socket |-> IF s <= opened THEN "closed" ELSE "no"]
  /\ link' = [s \in Socket |-> IF s <= opened THEN "cut" ELSE "up"]
  /\ UNCHANGED <<pushed, expired, entry, owner, opened, hello, down, acking, cli,
                 ghost>>

Next == \/ Time \/ Push \/ Connect \/ OnMessage \/ SendAck \/ OnDisconnect
        \/ Restart
        \/ \E s \in Socket : \/ Handshake(s) \/ SequenceAck(s) \/ Cut(s)
                             \/ OnClose(s) \/ Forget(s)

Spec == Init /\ [][Next]_vars

\* The window goes on: it reconnects by itself, takes what arrives, hears of a lost
\* connection. The server goes on: it answers handshakes and hears of lost ones.
Fairness == /\ WF_vars(Connect \/ OnMessage \/ OnDisconnect)
            /\ WF_vars(\E s \in Socket : Handshake(s) \/ OnClose(s))

FairSpec == Spec /\ Fairness

-----------------------------------------------------------------------------
(* Properties.                                                             *)

Record == [seq : 1 .. MaxPush, ev : 1 .. MaxPush]

\* Type invariant.
TypeOK ==
  /\ pushed \in 0 .. MaxPush /\ expired \in 0 .. pushed
  /\ faults \in 0 .. MaxFaults /\ opened \in 0 .. MaxFaults + 1
  /\ seen \in 0 .. pushed /\ told \in Nat
  /\ clients \subseteq Socket /\ retained \in Seq(Socket)
  /\ Len(retained) <= RetainedMax
  /\ \A id \in Socket : /\ entry[id].sock \in Socket
                        /\ entry[id].sent \in 0 .. MaxPush
                        /\ entry[id].buf \in Seq(Record)
                        /\ Len(entry[id].buf) <= BufferMax
  /\ link \in [Socket -> {"up", "cut"}]
  /\ served \in [Socket -> {"no", "handshake", "live", "closed"}]
  /\ owner \in [Socket -> Socket \cup {None}]
  /\ acking \in [Socket -> 0 .. MaxPush]
  /\ cli.ws \in Socket \cup {None} /\ cli.id \in Socket \cup {None}

\* A client is connected or kept for its return, never both, and the handlers
\* of a connection that is served act on the client that uses it: a late
\* close of an old connection cannot take a client off its new one
\* (server.ts:779-801).
OneHome ==
  /\ \A id \in clients : /\ ~IsRetained(id)
                         /\ served[entry[id].sock] = "live"
                         /\ owner[entry[id].sock] = id
  /\ \A s \in Socket : served[s] = "live" => owner[s] \in clients /\ entry[owner[s]].sock = s
  /\ \A i, j \in DOMAIN retained : retained[i] = retained[j] => i = j

\* A window that reconnects is given the events it missed, in order and once,
\* or is told to reload, whatever was lost, evicted, forgotten or answered
\* late on the way (server.ts:492-560, client.ts:666-680, 750-757).
Channel == INSTANCE PushChannel
ImplementsPushChannel == Channel!Spec

\* Once connections hold, a window's state accounts for every event pushed:
\* it is connected, or comes back and is replayed to or reloads.
CatchesUp == []<>(seen = pushed)
=============================================================================
