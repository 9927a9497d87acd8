------------------------ MODULE PushTransportProofs ------------------------
(***************************************************************************)
(* Who a connection speaks for, and what a window is due, for any number   *)
(* of events, connections and kept clients.                                *)
(*                                                                         *)
(* IInv: OneHome is inductive once it says of a connection that is not     *)
(* served yet that nobody is known by it. WInv adds what the promise of    *)
(* PushChannel rests on: buffers are numbered without a gap up to the last *)
(* event pushed; the messages on the window's connection follow what it    *)
(* accounts for, one by one; and the number it names when it comes back    *)
(* either stands for what it accounts for or is gone from its buffer.      *)
(***************************************************************************)
EXTENDS PushTransport, SequenceTheorems, FiniteSetTheorems, TLAPS

\* The parts of the state OneHome speaks of have their types.
HomeType ==
  /\ opened \in Nat
  /\ served \in [Socket -> {"no", "handshake", "live", "closed"}]
  /\ owner \in [Socket -> Socket \cup {None}]
  /\ clients \subseteq Socket /\ retained \in Seq(Socket)
  /\ DOMAIN entry = Socket
  /\ \A id \in Socket : /\ DOMAIN entry[id] = {"sock", "sent", "acked", "buf"}
                        /\ entry[id].sock \in Socket

\* The server knows nobody by a connection it does not serve yet.
NewIsUnknown ==
  /\ \A s \in Socket : s > opened => served[s] = "no"
  /\ \A s \in Socket : served[s] \in {"no", "handshake"} =>
       /\ owner[s] = None /\ s \notin clients /\ ~IsRetained(s)
       /\ entry[s].sock = s

IInv == HomeType /\ NewIsUnknown /\ OneHome

\* Connections are numbers, and None is no connection.
LEMMA SocketIsNumber == Socket \subseteq Nat /\ None \notin Socket
  BY TransportAssumption DEF Socket

\* What RemoveAt of the community modules leaves, and in which order.
LEMMA RemoveAtEffect ==
  ASSUME NEW q \in Seq(Socket), NEW k \in 1 .. Len(q)
  PROVE  /\ RemoveAt(q, k) \in Seq(Socket)
         /\ Len(RemoveAt(q, k)) = Len(q) - 1
         /\ \A i \in 1 .. Len(q) - 1 :
              RemoveAt(q, k)[i] = IF i < k THEN q[i] ELSE q[i + 1]
  <1> DEFINE a == SubSeq(q, 1, k - 1)
             b == SubSeq(q, k + 1, Len(q))
  <1>1. Len(q) \in Nat /\ k \in Int /\ \A i \in 1 .. Len(q) : q[i] \in Socket
    OBVIOUS
  <1>2. /\ a \in Seq(Socket) /\ Len(a) = k - 1
        /\ \A i \in 1 .. k - 1 : a[i] = q[i]
    <2>1. \A i \in 1 .. k - 1 : q[i] \in Socket
      BY <1>1
    <2>2. /\ a \in Seq(Socket)
          /\ Len(a) = IF 1 <= k - 1 THEN k - 1 - 1 + 1 ELSE 0
          /\ \A i \in 1 .. k - 1 - 1 + 1 : a[i] = q[1 + i - 1]
      BY <1>1, <2>1, SubSeqProperties
    <2> HIDE DEF a
    <2> QED BY <1>1, <2>2
  <1>3. /\ b \in Seq(Socket) /\ Len(b) = Len(q) - k
        /\ \A i \in 1 .. Len(q) - k : b[i] = q[k + i]
    <2>1. \A i \in k + 1 .. Len(q) : q[i] \in Socket
      BY <1>1
    <2>2. /\ b \in Seq(Socket)
          /\ Len(b) = IF k + 1 <= Len(q) THEN Len(q) - (k + 1) + 1 ELSE 0
          /\ \A i \in 1 .. Len(q) - (k + 1) + 1 : b[i] = q[k + 1 + i - 1]
      BY <1>1, <2>1, SubSeqProperties
    <2> HIDE DEF b
    <2> QED BY <1>1, <2>2
  <1>4. RemoveAt(q, k) = a \o b
    BY DEF RemoveAt
  <1> HIDE DEF a, b
  <1>5. /\ a \o b \in Seq(Socket) /\ Len(a \o b) = Len(a) + Len(b)
        /\ \A i \in 1 .. Len(a) + Len(b) :
             (a \o b)[i] = IF i <= Len(a) THEN a[i] ELSE b[i - Len(a)]
    BY <1>2, <1>3, ConcatProperties
  <1>6. ASSUME NEW i \in 1 .. Len(q) - 1
        PROVE  RemoveAt(q, k)[i] = IF i < k THEN q[i] ELSE q[i + 1]
    <2>1. CASE i < k
      BY <1>1, <1>2, <1>3, <1>4, <1>5, <2>1
    <2>2. CASE i >= k
      <3>1. (a \o b)[i] = b[i - Len(a)] /\ i - Len(a) \in 1 .. Len(q) - k
        BY <1>1, <1>2, <1>3, <1>5, <2>2, SMTT(30)
      <3>2. i - Len(a) \in Int /\ k + (i - Len(a)) = i + 1
        BY <1>1, <1>2
      <3>3. b[i - Len(a)] = q[k + (i - Len(a))]
        BY <1>3, <3>1
      <3> QED BY <1>1, <1>4, <2>2, <3>1, <3>2, <3>3
    <2> QED BY <1>1, <2>1, <2>2
  <1> QED BY <1>1, <1>2, <1>3, <1>4, <1>5, <1>6

\* A client that comes back is no longer kept; the others still are, once each.
LEMMA WithoutEffect ==
  ASSUME HomeType, NEW id, IsRetained(id),
         \A i, j \in DOMAIN retained : retained[i] = retained[j] => i = j
  PROVE  /\ Without(id) \in Seq(Socket) /\ Len(Without(id)) = Len(retained) - 1
         /\ \A i \in DOMAIN Without(id) :
              /\ Without(id)[i] # id
              /\ \E k \in DOMAIN retained : Without(id)[i] = retained[k]
         /\ \A i, j \in DOMAIN Without(id) : Without(id)[i] = Without(id)[j] => i = j
  <1>1. PICK k \in DOMAIN retained : retained[k] = id
    BY DEF IsRetained
  <1>2. retained \in Seq(Socket) /\ DOMAIN retained = 1 .. Len(retained) /\ Len(retained) \in Nat
    BY DEF HomeType
  <1>3. {i \in 1 .. Len(retained) : retained[i] = id} = {k}
    BY <1>1, <1>2
  <1>4. SelectInSeq(retained, LAMBDA v : v = id) = k
    <2>1. k \in Nat
      BY <1>2
    <2>2. Min({k}) = k
      BY <2>1 DEF Min
    <2> QED BY <1>3, <2>2 DEF SelectInSeq
  <1>5. Without(id) = RemoveAt(retained, k)
    BY <1>1, <1>2, <1>4 DEF Without, RemoveFirst
  <1>6. /\ Without(id) \in Seq(Socket) /\ Len(Without(id)) = Len(retained) - 1
        /\ \A i \in 1 .. Len(retained) - 1 :
             Without(id)[i] = IF i < k THEN retained[i] ELSE retained[i + 1]
    <2>1. k \in 1 .. Len(retained)
      BY <1>2
    <2>2. /\ RemoveAt(retained, k) \in Seq(Socket)
          /\ Len(RemoveAt(retained, k)) = Len(retained) - 1
          /\ \A i \in 1 .. Len(retained) - 1 :
               RemoveAt(retained, k)[i] = IF i < k THEN retained[i] ELSE retained[i + 1]
      BY <1>2, <2>1, RemoveAtEffect
    <2> QED BY <1>5, <2>2
  <1>7. DOMAIN Without(id) = 1 .. Len(retained) - 1
    BY <1>6
  <1> DEFINE at(i) == IF i < k THEN i ELSE i + 1
  <1>8. ASSUME NEW i \in DOMAIN Without(id)
        PROVE  /\ at(i) \in DOMAIN retained /\ at(i) # k
               /\ Without(id)[i] = retained[at(i)]
    BY <1>2, <1>6, <1>7
  <1>9. \A i, j \in DOMAIN Without(id) : at(i) = at(j) => i = j
    BY <1>2, <1>7
  <1> HIDE DEF at
  <1> QED BY <1>1, <1>6, <1>8, <1>9

\* What a handler of the server keeps of the invariant when it changes nothing
\* the invariant speaks of.
LEMMA KeepingStep ==
  ASSUME IInv, UNCHANGED <<opened, served, owner, clients, retained>>,
         DOMAIN entry' = Socket,
         \A id \in Socket : /\ DOMAIN entry'[id] = {"sock", "sent", "acked", "buf"}
                            /\ entry'[id].sock = entry[id].sock
  PROVE  IInv'
  BY DEF IInv, HomeType, NewIsUnknown, OneHome, IsRetained

LEMMA InitIInv == Init => IInv
  BY SocketIsNumber DEF Init, Fresh, IInv, HomeType, NewIsUnknown, OneHome, IsRetained

\* Pushing and acknowledging change counters and buffers only.
LEMMA PushStep == IInv /\ Push => IInv'
  <1> SUFFICES ASSUME IInv, Push PROVE IInv'
    OBVIOUS
  <1>1. entry' = [id \in Socket |-> IF id \in clients \/ IsRetained(id)
                                    THEN Buffered(entry[id]) ELSE entry[id]]
    BY DEF Push
  <1>2. ASSUME NEW id \in Socket
        PROVE  /\ DOMAIN entry'[id] = {"sock", "sent", "acked", "buf"}
               /\ entry'[id].sock = entry[id].sock
    <2>1. /\ DOMAIN entry[id] = {"sock", "sent", "acked", "buf"}
          /\ DOMAIN Buffered(entry[id]) = DOMAIN entry[id]
          /\ Buffered(entry[id]).sock = entry[id].sock
      BY DEF Buffered, IInv, HomeType
    <2> QED BY <1>1, <2>1
  <1> QED BY <1>1, <1>2, KeepingStep DEF Push

LEMMA SequenceAckStep == ASSUME NEW s \in Socket, IInv, SequenceAck(s) PROVE IInv'
  <1>1. entry' = [entry EXCEPT ![owner[s]].acked = acking[s],
                               ![owner[s]].buf = After(@, acking[s])]
    BY DEF SequenceAck
  <1>2. ASSUME NEW id \in Socket
        PROVE  /\ DOMAIN entry'[id] = {"sock", "sent", "acked", "buf"}
               /\ entry'[id].sock = entry[id].sock
    BY <1>1 DEF IInv, HomeType
  <1>3. DOMAIN entry' = Socket
    BY <1>1 DEF IInv, HomeType
  <1> QED BY <1>2, <1>3, KeepingStep DEF SequenceAck, net

\* A new connection is one the server knows nothing about.
LEMMA ConnectStep == IInv /\ Connect => IInv'
  <1> SUFFICES ASSUME IInv, Connect PROVE IInv'
    OBVIOUS
  <1>1. opened + 1 \in Socket /\ served[opened + 1] = "no"
    BY TransportAssumption DEF Connect, Socket, IInv, HomeType, NewIsUnknown
  <1>2. HomeType'
    BY <1>1 DEF Connect, IInv, HomeType
  <1>3. NewIsUnknown'
    BY <1>1, SocketIsNumber DEF Connect, IInv, HomeType, NewIsUnknown, IsRetained
  <1>4. OneHome'
    BY <1>1 DEF Connect, IInv, HomeType, OneHome, IsRetained
  <1> QED BY <1>2, <1>3, <1>4 DEF IInv

\* A window the server does not recognise gets an identity nobody has.
LEMMA AdmitStep ==
  ASSUME NEW s \in Socket, IInv, Handshake(s), Admit(s)
  PROVE  IInv'
  <1>0. served[s] = "handshake" /\ owner[s] = None /\ s \notin clients /\ ~IsRetained(s)
    BY DEF Handshake, IInv, NewIsUnknown
  <1>1. HomeType'
    BY DEF Handshake, Admit, IInv, HomeType
  <1>2. NewIsUnknown'
    BY <1>0 DEF Handshake, Admit, IInv, HomeType, NewIsUnknown, IsRetained
  <1>3. OneHome'
    <2>1. /\ clients' = clients \cup {s} /\ owner' = [owner EXCEPT ![s] = s]
          /\ served' = [served EXCEPT ![s] = "live"]
          /\ UNCHANGED <<entry, retained>>
      BY DEF Handshake, Admit
    <2>2. entry[s].sock = s
      BY <1>0 DEF IInv, NewIsUnknown
    <2>3. ASSUME NEW id \in clients'
          PROVE  /\ ~IsRetained(id)' /\ served'[entry[id].sock] = "live"
                 /\ owner'[entry[id].sock] = id
      BY <1>0, <2>1, <2>2 DEF IInv, HomeType, OneHome, IsRetained
    <2>4. ASSUME NEW t \in Socket, served'[t] = "live"
          PROVE  owner'[t] \in clients' /\ entry[owner'[t]].sock = t
      BY <1>0, <2>1, <2>2, <2>4 DEF IInv, HomeType, OneHome
    <2> QED BY <2>1, <2>3, <2>4 DEF OneHome, IInv, IsRetained
  <1> QED BY <1>1, <1>2, <1>3 DEF IInv

\* A client that comes back moves from those kept to those connected.
LEMMA ResumeStep ==
  ASSUME NEW s \in Socket, IInv, Handshake(s), Resume(s)
  PROVE  IInv'
  <1> DEFINE id == hello[s].id
  <1>0. /\ IsRetained(id) /\ served[s] = "handshake" /\ id \in Socket
        /\ id \notin clients /\ s # id /\ owner[s] = None /\ s \notin clients
        /\ \A t \in Socket : served[t] = "live" => owner[t] # id
    <2>1. IsRetained(id) /\ served[s] = "handshake"
      BY DEF Handshake, Resume, Recognised
    <2>2. id \in Socket
      BY <2>1 DEF IsRetained, IInv, HomeType
    <2>3. id \notin clients
      BY <2>1 DEF IInv, OneHome
    <2>4. s # id /\ owner[s] = None /\ s \notin clients
      BY <2>1 DEF IInv, NewIsUnknown
    <2>5. \A t \in Socket : served[t] = "live" => owner[t] # id
      BY <2>3 DEF IInv, OneHome
    <2> QED BY <2>1, <2>2, <2>3, <2>4, <2>5
  <1>1. /\ served' = [served EXCEPT ![s] = "live"] /\ opened' = opened
        /\ clients' = clients \cup {id} /\ owner' = [owner EXCEPT ![s] = id]
        /\ retained' = Without(id)
        /\ entry' = [entry EXCEPT ![id].sock = s, ![id].buf = EvictBuffer(entry[id].buf)]
    BY DEF Handshake, Resume
  <1>2. /\ retained' \in Seq(Socket)
        /\ \A i \in DOMAIN retained' :
             /\ retained'[i] # id
             /\ \E k \in DOMAIN retained : retained'[i] = retained[k]
        /\ \A i, j \in DOMAIN retained' : retained'[i] = retained'[j] => i = j
    BY <1>0, <1>1, WithoutEffect DEF IInv, OneHome
  <1>3. /\ DOMAIN entry' = Socket
        /\ \A t \in Socket : /\ DOMAIN entry'[t] = {"sock", "sent", "acked", "buf"}
                             /\ entry'[t].sock = IF t = id THEN s ELSE entry[t].sock
    BY <1>0, <1>1 DEF IInv, HomeType
  <1>4. \A t \in Socket : IsRetained(t)' => IsRetained(t) /\ t # id
    BY <1>2 DEF IsRetained
  <1> HIDE DEF id
  <1>5. HomeType'
    BY <1>0, <1>1, <1>2, <1>3 DEF IInv, HomeType
  <1>6. NewIsUnknown'
    <2>1. ASSUME NEW t \in Socket, served'[t] \in {"no", "handshake"}
          PROVE  /\ owner'[t] = None /\ t \notin clients' /\ ~IsRetained(t)'
                 /\ entry'[t].sock = t
      <3>1. t # s /\ served[t] \in {"no", "handshake"}
        BY <1>1, <2>1 DEF IInv, HomeType
      <3>2. t # id
        BY <1>0, <3>1 DEF IInv, NewIsUnknown
      <3> QED BY <1>0, <1>1, <1>3, <1>4, <3>1, <3>2 DEF IInv, HomeType, NewIsUnknown
    <2>2. \A t \in Socket : t > opened' => served'[t] = "no"
      BY <1>0, <1>1 DEF IInv, HomeType, NewIsUnknown
    <2> QED BY <2>1, <2>2 DEF NewIsUnknown
  <1>7. OneHome'
    <2>1. ASSUME NEW c \in clients'
          PROVE  /\ ~IsRetained(c)' /\ served'[entry'[c].sock] = "live"
                 /\ owner'[entry'[c].sock] = c
      <3>1. CASE c = id
        BY <1>0, <1>1, <1>3, <1>4, <3>1 DEF IInv, HomeType
      <3>2. CASE c # id
        <4>1. c \in clients /\ entry[c].sock # s
          BY <1>0, <1>1, <3>2 DEF IInv, HomeType, OneHome
        <4> QED BY <1>0, <1>1, <1>3, <1>4, <3>2, <4>1 DEF IInv, HomeType, OneHome
      <3> QED BY <3>1, <3>2
    <2>2. ASSUME NEW t \in Socket, served'[t] = "live"
          PROVE  owner'[t] \in clients' /\ entry'[owner'[t]].sock = t
      BY <1>0, <1>1, <1>3, <2>2 DEF IInv, HomeType, OneHome
    <2> QED BY <1>2, <2>1, <2>2 DEF OneHome
  <1> QED BY <1>5, <1>6, <1>7 DEF IInv

\* A connection that is closed takes its client with it, and no other.
LEMMA OnCloseStep == ASSUME NEW s \in Socket, IInv, OnClose(s) PROVE IInv'
  <1>1. /\ served[s] \in {"handshake", "live"} /\ served' = [served EXCEPT ![s] = "closed"]
        /\ UNCHANGED <<opened, owner, entry>>
    BY DEF OnClose, net
  <1>2. CASE owner[s] = None
    <2>1. UNCHANGED <<clients, retained>> /\ served[s] = "handshake"
      BY <1>1, <1>2, SocketIsNumber DEF OnClose, IInv, HomeType, OneHome
    <2>2. HomeType'
      BY <1>1, <2>1 DEF IInv, HomeType
    <2>3. NewIsUnknown'
      BY <1>1, <2>1, SocketIsNumber DEF IInv, HomeType, NewIsUnknown, IsRetained
    <2>4. OneHome'
      BY <1>1, <2>1 DEF IInv, HomeType, OneHome, IsRetained
    <2> QED BY <2>2, <2>3, <2>4 DEF IInv
  <1>3. CASE owner[s] # None
    <2> DEFINE id == owner[s]
               kept == Append(retained, id)
    <2>1. /\ id \in clients /\ id \in Socket /\ entry[id].sock = s
          /\ ~IsRetained(id) /\ served[s] = "live"
      BY <1>1, <1>3 DEF IInv, HomeType, NewIsUnknown, OneHome
    <2>2. Without(id) = retained
      BY <2>1 DEF Without, RemoveFirst, IsRetained, IInv, HomeType
    <2>3. /\ clients' = clients \ {id}
          /\ retained' = IF Len(kept) > RetainedMax THEN Tail(kept) ELSE kept
      BY <1>3, <2>2 DEF OnClose
    <2>4. /\ kept \in Seq(Socket) /\ Len(kept) = Len(retained) + 1
          /\ \A i \in 1 .. Len(kept) :
               kept[i] = IF i = Len(kept) THEN id ELSE retained[i]
      BY <2>1 DEF IInv, HomeType
    <2>5. \A i, j \in 1 .. Len(kept) : kept[i] = kept[j] => i = j
      BY <2>1, <2>4 DEF IInv, HomeType, OneHome, IsRetained
    <2>6. \A i \in 1 .. Len(kept) : kept[i] = id \/ IsRetained(kept[i])
      BY <2>4 DEF IInv, HomeType, IsRetained
    <2> HIDE DEF kept
    <2>7. /\ retained' \in Seq(Socket)
          /\ \A i \in DOMAIN retained' : retained'[i] = id \/ IsRetained(retained'[i])
          /\ \A i, j \in DOMAIN retained' : retained'[i] = retained'[j] => i = j
      <3>1. CASE retained' = kept
        BY <2>4, <2>5, <2>6, <3>1
      <3>2. CASE retained' = Tail(kept)
        <4>1. /\ Tail(kept) \in Seq(Socket) /\ Len(Tail(kept)) = Len(kept) - 1
              /\ \A i \in 1 .. Len(kept) - 1 : Tail(kept)[i] = kept[i + 1]
          BY <2>4 DEF IInv, HomeType
        <4> QED BY <2>4, <2>5, <2>6, <3>2, <4>1
      <3> QED BY <2>3, <3>1, <3>2
    <2>8. \A t \in Socket : IsRetained(t)' => t = id \/ IsRetained(t)
      BY <2>7 DEF IsRetained
    <2> HIDE DEF id
    <2>9. HomeType'
      BY <1>1, <2>3, <2>7 DEF IInv, HomeType
    <2>10. NewIsUnknown'
      BY <1>1, <2>1, <2>3, <2>8 DEF IInv, HomeType, NewIsUnknown
    <2>11. OneHome'
      <3>1. ASSUME NEW c \in clients'
            PROVE  /\ ~IsRetained(c)' /\ served'[entry'[c].sock] = "live"
                   /\ owner'[entry'[c].sock] = c
        <4>1. c \in clients /\ c # id /\ entry[c].sock # s
          BY <2>1, <2>3 DEF IInv, HomeType, OneHome, id
        <4> QED BY <1>1, <2>8, <4>1 DEF IInv, HomeType, OneHome
      <3>2. ASSUME NEW t \in Socket, served'[t] = "live"
            PROVE  owner'[t] \in clients' /\ entry'[owner'[t]].sock = t
        BY <1>1, <2>1, <2>3, <3>2 DEF IInv, HomeType, OneHome
      <3> QED BY <2>7, <3>1, <3>2 DEF OneHome
    <2> QED BY <2>9, <2>10, <2>11 DEF IInv
  <1> QED BY <1>2, <1>3

\* A new process knows no client, and no connection is served by it yet.
LEMMA RestartStep == IInv /\ Restart => IInv'
  <1> SUFFICES ASSUME IInv, Restart PROVE IInv'
    OBVIOUS
  <1>1. /\ clients' = {} /\ retained' = <<>> /\ UNCHANGED <<entry, owner, opened>>
        /\ served' = [s \in Socket |-> IF s <= opened THEN "closed" ELSE "no"]
    BY DEF Restart
  <1>2. HomeType'
    BY <1>1 DEF IInv, HomeType
  <1>3. NewIsUnknown'
    BY <1>1, SocketIsNumber DEF IInv, HomeType, NewIsUnknown, IsRetained
  <1>4. OneHome'
    BY <1>1 DEF OneHome
  <1> QED BY <1>2, <1>3, <1>4 DEF IInv

\* A client that is forgotten was not connected.
LEMMA ForgetStep == ASSUME NEW id \in Socket, IInv, Forget(id) PROVE IInv'
  <1>1. /\ UNCHANGED <<opened, served, owner, clients, entry>>
        /\ retained' = Without(id) /\ IsRetained(id)
    BY DEF Forget, net
  <1>2. /\ retained' \in Seq(Socket)
        /\ \A i \in DOMAIN retained' : \E k \in DOMAIN retained : retained'[i] = retained[k]
        /\ \A i, j \in DOMAIN retained' : retained'[i] = retained'[j] => i = j
    BY <1>1, WithoutEffect DEF IInv, OneHome
  <1>3. \A t \in Socket : IsRetained(t)' => IsRetained(t)
    BY <1>2 DEF IsRetained
  <1>4. HomeType'
    BY <1>1, <1>2 DEF IInv, HomeType
  <1>5. NewIsUnknown'
    BY <1>1, <1>3 DEF IInv, NewIsUnknown
  <1>6. OneHome'
    BY <1>1, <1>2, <1>3 DEF IInv, HomeType, OneHome
  <1> QED BY <1>4, <1>5, <1>6 DEF IInv

\* The other steps do not concern who is whose.
LEMMA OtherStep ==
  ASSUME IInv, UNCHANGED <<opened, served, owner, clients, retained, entry>>
  PROVE  IInv'
  BY KeepingStep DEF IInv, HomeType

LEMMA IInvIsInductive == IInv /\ [Next]_vars => IInv'
  <1> SUFFICES ASSUME IInv, [Next]_vars PROVE IInv'
    OBVIOUS
  <1>1. CASE Push
    BY <1>1, PushStep
  <1>2. CASE Connect
    BY <1>2, ConnectStep
  <1>3. CASE Restart
    BY <1>3, RestartStep
  <1>4. ASSUME NEW s \in Socket, Handshake(s)
        PROVE  IInv'
    BY <1>4, AdmitStep, ResumeStep DEF Handshake
  <1>5. ASSUME NEW s \in Socket, SequenceAck(s) \/ OnClose(s) \/ Forget(s)
        PROVE  IInv'
    BY <1>5, SequenceAckStep, OnCloseStep, ForgetStep
  <1>6. CASE Time \/ OnMessage \/ SendAck \/ OnDisconnect
    BY <1>6, OtherStep DEF Time, OnMessage, SendAck, OnDisconnect, server, net
  <1>7. ASSUME NEW s \in Socket, Cut(s)
        PROVE  IInv'
    BY <1>7, OtherStep DEF Cut, server
  <1>8. CASE UNCHANGED vars
    BY <1>8, OtherStep DEF vars, server, net
  <1> QED BY <1>1, <1>2, <1>3, <1>4, <1>5, <1>6, <1>7, <1>8 DEF Next

\* The invariant of the server's tables holds in every reachable state.
THEOREM TransportInvariant == Spec => []IInv
  BY InitIInv, IInvIsInductive, PTL DEF Spec

\* A client is connected or kept, never both, and the handlers of a connection
\* act on the client that uses it, for any number of connections.
THEOREM ClientsHaveOneHome == Spec => []OneHome
  <1>1. IInv => OneHome
    BY DEF IInv
  <1> QED BY <1>1, TransportInvariant, PTL

-----------------------------------------------------------------------------
(* Buffers.                                                                *)

\* Records with running numbers, the last of them number `sent` and event `ev`.
Contiguous(buf, sent, ev) ==
  /\ buf \in Seq(Record) /\ Len(buf) <= sent
  /\ \A i \in 1 .. Len(buf) : /\ buf[i].seq = sent - Len(buf) + i
                              /\ buf[i].ev = ev - Len(buf) + i

IsTail(t, buf) ==
  /\ t \in Seq(Record) /\ Len(t) <= Len(buf)
  /\ \A i \in 1 .. Len(t) : t[i] = buf[Len(buf) - Len(t) + i]

\* The loop that removes the first k events leaves the others.
LEMMA RestEffect ==
  ASSUME NEW buf \in Seq(Record), NEW k \in 0 .. Len(buf)
  PROVE  IsTail(Rest(buf, 1 .. k), buf) /\ Len(Rest(buf, 1 .. k)) = Len(buf) - k
  <1>1. Len(buf) \in Nat /\ k \in Nat /\ \A i \in 1 .. Len(buf) : buf[i] \in Record
    OBVIOUS
  <1>2. {i \in 1 .. Len(buf) + 1 : i \notin 1 .. k} = k + 1 .. Len(buf) + 1
    BY <1>1
  <1>3. Min(k + 1 .. Len(buf) + 1) = k + 1
    BY <1>1 DEF Min
  <1> DEFINE t == SubSeq(buf, k + 1, Len(buf))
  <1>4. Rest(buf, 1 .. k) = t
    BY <1>2, <1>3 DEF Rest
  <1>5. /\ t \in Seq(Record)
        /\ Len(t) = IF k + 1 <= Len(buf) THEN Len(buf) - (k + 1) + 1 ELSE 0
        /\ \A i \in 1 .. Len(buf) - (k + 1) + 1 : t[i] = buf[k + 1 + i - 1]
    <2>1. \A i \in k + 1 .. Len(buf) : buf[i] \in Record
      BY <1>1
    <2> QED BY <1>1, <2>1, SubSeqProperties
  <1> HIDE DEF t
  <1>6. t \in Seq(Record) /\ Len(t) = Len(buf) - k
    BY <1>1, <1>5
  <1>7. ASSUME NEW i \in 1 .. Len(t)
        PROVE  t[i] = buf[Len(buf) - Len(t) + i]
    <2>1. i \in 1 .. Len(buf) - (k + 1) + 1 /\ k + 1 + i - 1 = Len(buf) - Len(t) + i
      BY <1>1, <1>6
    <2> QED BY <1>5, <2>1
  <1> QED BY <1>1, <1>4, <1>6, <1>7, SMTT(30) DEF IsTail

\* What of a buffer comes after a number is a tail of it, as long as numbers
\* are missing.
LEMMA AfterEffect ==
  ASSUME NEW sent \in Nat, NEW ev \in Nat, NEW buf, Contiguous(buf, sent, ev),
         NEW seq \in Nat
  PROVE  /\ IsTail(After(buf, seq), buf)
         /\ sent - Len(buf) <= seq /\ seq <= sent => Len(After(buf, seq)) = sent - seq
  <1>1. buf \in Seq(Record) /\ Len(buf) \in Nat /\ Len(buf) <= sent
    BY DEF Contiguous
  <1> DEFINE gone == {i \in DOMAIN buf : buf[i].seq <= seq}
             k == IF seq < sent - Len(buf) THEN 0
                  ELSE IF seq > sent THEN Len(buf) ELSE seq - (sent - Len(buf))
  <1>2. k \in 0 .. Len(buf)
    BY <1>1
  <1>3. gone = 1 .. k
    <2>1. gone = {i \in 1 .. Len(buf) : sent - Len(buf) + i <= seq}
      BY <1>1 DEF Contiguous
    <2> QED BY <1>1, <2>1
  <1>4. After(buf, seq) = Rest(buf, 1 .. k)
    BY <1>3 DEF After
  <1>5. sent - Len(buf) <= seq /\ seq <= sent => Len(buf) - k = sent - seq
    BY <1>1
  <1> HIDE DEF gone, k
  <1> QED BY <1>1, <1>2, <1>4, <1>5, RestEffect

LEMMA LiveEffect ==
  ASSUME NEW sent \in Nat, NEW ev \in Nat, NEW buf, Contiguous(buf, sent, ev),
         expired \in Nat
  PROVE  IsTail(Live(buf), buf)
  <1>1. buf \in Seq(Record) /\ Len(buf) \in Nat /\ Len(buf) <= sent
    BY DEF Contiguous
  <1> DEFINE gone == {i \in DOMAIN buf : buf[i].ev <= expired}
             k == IF expired < ev - Len(buf) THEN 0
                  ELSE IF expired > ev THEN Len(buf) ELSE expired - (ev - Len(buf))
  <1>2. k \in 0 .. Len(buf)
    BY <1>1
  <1>3. gone = 1 .. k
    <2>1. gone = {i \in 1 .. Len(buf) : ev - Len(buf) + i <= expired}
      BY <1>1 DEF Contiguous
    <2> QED BY <1>1, <2>1
  <1>4. Live(buf) = Rest(buf, 1 .. k)
    BY <1>3 DEF Live
  <1> HIDE DEF gone, k
  <1> QED BY <1>1, <1>2, <1>4, RestEffect

\* Eviction leaves a tail that fits the buffer.
LEMMA EvictEffect ==
  ASSUME NEW sent \in Nat, NEW ev \in Nat, NEW buf, Contiguous(buf, sent, ev),
         expired \in Nat
  PROVE  IsTail(EvictBuffer(buf), buf) /\ Len(EvictBuffer(buf)) <= BufferMax
  <1> DEFINE live == Live(buf)
             over == IF Len(live) > BufferMax THEN Len(live) - BufferMax ELSE 0
             t == SubSeq(live, over + 1, Len(live))
  <1>1. /\ live \in Seq(Record) /\ Len(live) \in Nat /\ Len(live) <= Len(buf)
        /\ Len(buf) \in Nat
        /\ \A i \in 1 .. Len(live) : live[i] = buf[Len(buf) - Len(live) + i]
    <2>1. IsTail(live, buf)
      BY LiveEffect
    <2> HIDE DEF live
    <2> QED BY <2>1 DEF IsTail, Contiguous
  <1>2. EvictBuffer(buf) = t
    BY DEF EvictBuffer
  <1> HIDE DEF live
  <1>3. over \in 0 .. Len(live) /\ BufferMax \in Nat /\ Len(live) - over <= BufferMax
    BY <1>1, TransportAssumption
  <1> HIDE DEF over
  <1>4. /\ t \in Seq(Record)
        /\ Len(t) = IF over + 1 <= Len(live) THEN Len(live) - (over + 1) + 1 ELSE 0
        /\ \A i \in 1 .. Len(live) - (over + 1) + 1 : t[i] = live[over + 1 + i - 1]
    <2>1. \A i \in over + 1 .. Len(live) : live[i] \in Record
      BY <1>1, <1>3
    <2> QED BY <1>1, <1>3, <2>1, SubSeqProperties
  <1> HIDE DEF t
  <1>5. t \in Seq(Record) /\ Len(t) = Len(live) - over
    BY <1>1, <1>3, <1>4
  <1>6. ASSUME NEW i \in 1 .. Len(t)
        PROVE  t[i] = buf[Len(buf) - Len(t) + i]
    <2>1. /\ i \in 1 .. Len(live) - (over + 1) + 1 /\ over + 1 + i - 1 = over + i
          /\ over + i \in 1 .. Len(live)
          /\ Len(buf) - Len(live) + (over + i) = Len(buf) - Len(t) + i
      BY <1>1, <1>3, <1>5
    <2> QED BY <1>1, <1>4, <2>1
  <1> QED BY <1>1, <1>2, <1>3, <1>5, <1>6 DEF IsTail

\* A tail has the same numbers, and ends where the buffer ends.
LEMMA TailIsContiguous ==
  ASSUME NEW sent \in Nat, NEW ev \in Nat, NEW buf, NEW t,
         Contiguous(buf, sent, ev), IsTail(t, buf)
  PROVE  Contiguous(t, sent, ev)
  <1>1. /\ Len(buf) \in Nat /\ Len(t) \in Nat /\ Len(t) <= Len(buf) /\ Len(buf) <= sent
        /\ t \in Seq(Record)
    BY DEF Contiguous, IsTail
  <1>2. ASSUME NEW i \in 1 .. Len(t)
        PROVE  t[i].seq = sent - Len(t) + i /\ t[i].ev = ev - Len(t) + i
    <2> DEFINE j == Len(buf) - Len(t) + i
    <2>1. /\ j \in 1 .. Len(buf) /\ sent - Len(buf) + j = sent - Len(t) + i
          /\ ev - Len(buf) + j = ev - Len(t) + i
      BY <1>1
    <2>2. t[i] = buf[j]
      BY DEF IsTail
    <2> HIDE DEF j
    <2>3. buf[j].seq = sent - Len(buf) + j /\ buf[j].ev = ev - Len(buf) + j
      BY <2>1 DEF Contiguous
    <2> QED BY <2>1, <2>2, <2>3
  <1> QED BY <1>1, <1>2 DEF Contiguous

\* An event that is pushed goes to the end of a buffer.
LEMMA BufferedEffect ==
  ASSUME NEW c, c.sent \in Nat, Contiguous(c.buf, c.sent, pushed), pushed \in Nat,
         expired \in Nat, c.sent <= pushed, pushed < MaxPush,
         DOMAIN c = {"sock", "sent", "acked", "buf"}
  PROVE  /\ Buffered(c) = [c EXCEPT !.sent = c.sent + 1, !.buf = Buffered(c).buf]
         /\ Contiguous(Buffered(c).buf, c.sent + 1, pushed + 1)
         /\ Len(Buffered(c).buf) <= Len(c.buf) + 1 /\ Len(Buffered(c).buf) <= BufferMax
  <1> DEFINE e == [seq |-> c.sent + 1, ev |-> pushed + 1]
             longer == Append(c.buf, e)
  <1>1. e \in Record /\ c.buf \in Seq(Record) /\ Len(c.buf) \in Nat /\ Len(c.buf) <= c.sent
    BY TransportAssumption DEF Record, Contiguous
  <1>2. /\ longer \in Seq(Record) /\ Len(longer) = Len(c.buf) + 1
        /\ \A i \in 1 .. Len(longer) : longer[i] = IF i = Len(longer) THEN e ELSE c.buf[i]
    BY <1>1
  <1>3. Contiguous(longer, c.sent + 1, pushed + 1)
    <2>1. ASSUME NEW i \in 1 .. Len(longer)
          PROVE  /\ longer[i].seq = c.sent + 1 - Len(longer) + i
                 /\ longer[i].ev = pushed + 1 - Len(longer) + i
      <3>1. CASE i = Len(longer)
        BY <1>1, <1>2, <3>1, SMTT(30)
      <3>2. CASE i # Len(longer)
        <4>1. i \in 1 .. Len(c.buf) /\ longer[i] = c.buf[i]
          BY <1>1, <1>2, <3>2
        <4> QED BY <1>1, <1>2, <4>1 DEF Contiguous
      <3> QED BY <3>1, <3>2
    <2> HIDE DEF longer
    <2> QED BY <1>1, <1>2, <2>1 DEF Contiguous
  <1>4. IsTail(EvictBuffer(longer), longer) /\ Len(EvictBuffer(longer)) <= BufferMax
    BY <1>3, EvictEffect
  <1>5. Contiguous(EvictBuffer(longer), c.sent + 1, pushed + 1)
    BY <1>3, <1>4, TailIsContiguous
  <1>6. Buffered(c) = [c EXCEPT !.sent = c.sent + 1, !.buf = EvictBuffer(longer)]
    BY DEF Buffered
  <1>7. Buffered(c).buf = EvictBuffer(longer)
    BY <1>6
  <1>8. Len(EvictBuffer(longer)) <= Len(c.buf) + 1
    BY <1>1, <1>2, <1>4 DEF IsTail
  <1> QED BY <1>4, <1>5, <1>6, <1>7, <1>8

-----------------------------------------------------------------------------
(* The window.                                                             *)

Message == [type : {"event"}, seq : 1 .. MaxPush, ev : 1 .. MaxPush]
             \cup [type : {"handshake_ack"}, id : Socket, reconnected : BOOLEAN,
                   stale : BOOLEAN, covers : 0 .. MaxPush]

Position == [id : Socket, seq : 0 .. MaxPush]

WindowType ==
  /\ pushed \in 0 .. MaxPush /\ expired \in 0 .. pushed /\ seen \in 0 .. pushed
  /\ told \in Nat /\ faults \in 0 .. MaxFaults /\ opened \in 0 .. MaxFaults + 1
  /\ acking \in [Socket -> 0 .. MaxPush] /\ link \in [Socket -> {"up", "cut"}]
  /\ DOMAIN hello = Socket /\ down \in [Socket -> Seq(Message)]
  /\ cli \in [ws : Socket \cup {None}, id : Socket \cup {None}, lastSeen : 0 .. MaxPush,
              pending : Position \cup {None}, resuming : BOOLEAN]
  /\ Len(retained) <= RetainedMax

Known(id) == id \in clients \/ IsRetained(id)

\* The buffer of a client the server knows ends with the last event pushed; a
\* connection that is not served yet has no history.
BufferOk(id) ==
  /\ entry[id].sent \in 0 .. MaxPush /\ entry[id].acked \in 0 .. MaxPush
  /\ entry[id].buf \in Seq(Record) /\ Len(entry[id].buf) <= BufferMax
  /\ Known(id) => /\ entry[id].sent <= pushed
                  /\ Contiguous(entry[id].buf, entry[id].sent, pushed)
  /\ served[id] \in {"no", "handshake"} => entry[id].sent = 0 /\ entry[id].buf = <<>>

BuffersOk == \A id \in Socket : BufferOk(id)

\* At most one connection still works: the window's. A connection not opened
\* yet is unused.
LinesOk ==
  /\ cli.ws # None => cli.ws <= opened
  /\ \A s \in Socket : /\ s <= opened /\ link[s] = "up" => s = cli.ws
                       /\ s > opened => link[s] = "up" /\ down[s] = <<>>

\* The window has the identity it was given on its connection, or names the
\* one it had; it has had one since it was first told to load.
WindowOk ==
  /\ cli.id # None => cli.ws # None /\ cli.pending = None
  /\ cli.id = None /\ cli.pending = None <=> told = 0
  /\ told = 0 => seen = 0 /\ cli.lastSeen = 0
  /\ cli.pending # None => cli.pending.seq = cli.lastSeen
  /\ cli.ws # None /\ cli.id = None => /\ hello[cli.ws] = cli.pending
                                       /\ cli.resuming <=> cli.pending # None
  /\ cli.id # None => served[cli.id] \in {"live", "closed"}
  /\ cli.pending # None => served[cli.pending.id] \in {"live", "closed"}

Line == down[cli.ws]
Greeted == cli.id # None
\* The answer to the window's handshake is on its way.
Greeting == cli.ws # None /\ cli.id = None /\ Line # <<>>

\* What the window accounts for after an answer to its handshake.
Base(m) == IF m.reconnected /\ ~m.stale THEN seen ELSE m.covers

\* To a window that accounts for the events up to ev and saw the number seq,
\* the number after seq is the event after ev, or it is gone from the buffer.
Follows(id, seq, ev) ==
  Known(id) => \/ ev - seq = pushed - entry[id].sent
               \/ seq < entry[id].sent - Len(entry[id].buf)

AckOk(m) ==
  /\ m.type = "handshake_ack" /\ m.id \in Socket /\ m.covers \in seen .. pushed
  /\ m.reconnected \in BOOLEAN /\ m.stale \in BOOLEAN
  /\ m.reconnected => cli.pending # None /\ m.id = cli.pending.id
  /\ served[m.id] \in {"live", "closed"}
  /\ Follows(m.id, IF m.reconnected THEN cli.lastSeen ELSE 0, Base(m))

\* Client id is sent the events after `from`, one by one, all of them as long
\* as the connection holds.
Serves(q, from, id) ==
  /\ from + Len(q) <= pushed
  /\ \A i \in 1 .. Len(q) :
       /\ q[i].type = "event" /\ q[i].ev = from + i
       /\ Known(id) => q[i].ev - q[i].seq = pushed - entry[id].sent
  /\ link[cli.ws] = "up" => /\ served[cli.ws] = "live" /\ owner[cli.ws] = id
                            /\ from + Len(q) = pushed

LineOk ==
  /\ Greeted => Serves(Line, seen, cli.id)
  /\ Greeting => /\ AckOk(Head(Line))
                 /\ Serves(Tail(Line), Base(Head(Line)), Head(Line).id)
  /\ cli.ws # None /\ ~Greeted /\ ~Greeting /\ link[cli.ws] = "up" =>
       served[cli.ws] = "handshake"

PositionOk ==
  /\ cli.id # None => Follows(cli.id, cli.lastSeen, seen)
  /\ cli.pending # None => Follows(cli.pending.id, cli.pending.seq, seen)

Tables == WindowType /\ BuffersOk /\ LinesOk
Window == WindowOk /\ LineOk /\ PositionOk
WInv == IInv /\ Tables /\ Window

\* The parts of the tables have the types the arithmetic below needs.
LEMMA TableTypes ==
  ASSUME IInv, Tables
  PROVE  /\ pushed \in Nat /\ seen \in Nat /\ expired \in Nat /\ told \in Nat
         /\ opened \in Nat /\ faults \in Nat
         /\ MaxPush \in Nat /\ MaxFaults \in Nat /\ seen <= pushed /\ pushed <= MaxPush
         /\ cli.lastSeen \in 0 .. MaxPush
         /\ cli.ws \in Socket \cup {None} /\ cli.id \in Socket \cup {None}
         /\ cli.pending \in Position \cup {None} /\ cli.resuming \in BOOLEAN
         /\ None \notin Position /\ None \notin Socket /\ Socket \subseteq Nat
         /\ \A id \in Socket : /\ entry[id].sent \in Nat /\ Len(entry[id].buf) \in Nat
                               /\ entry[id].buf \in Seq(Record)
         /\ \A s \in Socket : down[s] \in Seq(Message) /\ Len(down[s]) \in Nat
  <1>1. MaxPush \in Nat /\ MaxFaults \in Nat
    BY TransportAssumption
  <1>2. Socket \subseteq Nat /\ None \notin Socket
    BY SocketIsNumber
  <1>3. None \notin Position
    <2>1. ASSUME NEW p \in Position PROVE p \in [id : Nat, seq : Nat]
      <3>1. p.id \in Socket /\ p.seq \in 0 .. MaxPush /\ p = [id |-> p.id, seq |-> p.seq]
        BY DEF Position
      <3>2. p.id \in Nat /\ p.seq \in Nat
        BY <1>1, <1>2, <3>1
      <3> QED BY <3>1, <3>2
    <2> QED BY <2>1, TransportAssumption
  <1>4. \A id \in Socket : /\ entry[id].sent \in Nat /\ Len(entry[id].buf) \in Nat
                           /\ entry[id].buf \in Seq(Record)
    BY <1>1 DEF Tables, BuffersOk, BufferOk
  <1>5. \A s \in Socket : down[s] \in Seq(Message) /\ Len(down[s]) \in Nat
    BY DEF Tables, WindowType
  <1>6. /\ pushed \in Nat /\ seen \in Nat /\ expired \in Nat /\ told \in Nat
        /\ opened \in Nat /\ faults \in Nat /\ seen <= pushed /\ pushed <= MaxPush
    BY <1>1 DEF Tables, WindowType
  <1>7. /\ cli.lastSeen \in 0 .. MaxPush
        /\ cli.ws \in Socket \cup {None} /\ cli.id \in Socket \cup {None}
        /\ cli.pending \in Position \cup {None} /\ cli.resuming \in BOOLEAN
    BY DEF Tables, WindowType
  <1> QED BY <1>1, <1>2, <1>3, <1>4, <1>5, <1>6, <1>7

LEMMA InitWInv == Init => WInv
  <1> SUFFICES ASSUME Init PROVE WInv
    OBVIOUS
  <1>1. IInv
    BY InitIInv
  <1>2. \A id : ~Known(id)
    BY DEF Init, Known, IsRetained
  <1>3. WindowType
    <2>1. Len(retained) <= RetainedMax
      BY TransportAssumption DEF Init
    <2> QED BY <2>1, TransportAssumption DEF Init, WindowType, Socket
  <1>4. BuffersOk
    <2>1. ASSUME NEW id \in Socket PROVE BufferOk(id)
      <3>1. entry[id].sent = 0 /\ entry[id].acked = 0 /\ entry[id].buf = <<>>
        BY DEF Init, Fresh
      <3> QED BY <1>2, <3>1, TransportAssumption DEF BufferOk
    <2> QED BY <2>1 DEF BuffersOk
  <1>5. LinesOk /\ WindowOk
    BY SocketIsNumber DEF Init, LinesOk, WindowOk, Socket
  <1>6. LineOk /\ PositionOk
    BY DEF Init, LineOk, PositionOk, Greeted, Greeting
  <1> QED BY <1>1, <1>3, <1>4, <1>5, <1>6 DEF WInv, Tables, Window

\* What the window is due stays what it is while the server only forgets,
\* evicts, hears of a lost connection or is told what was seen.
LEMMA ServerStep ==
  ASSUME WInv, IInv', Tables', UNCHANGED <<cli, down, seen, told, hello, pushed>>,
         \A id \in Socket :
           /\ Known(id)' => Known(id)
           /\ entry'[id].sent = entry[id].sent
           /\ Len(entry'[id].buf) <= Len(entry[id].buf)
           /\ served[id] \in {"live", "closed"} => served'[id] \in {"live", "closed"},
         cli.ws # None /\ link'[cli.ws] = "up" =>
           /\ link[cli.ws] = "up" /\ served'[cli.ws] = served[cli.ws]
           /\ owner'[cli.ws] = owner[cli.ws]
  PROVE  Window'
  <1>1. IInv /\ Tables /\ WindowOk /\ LineOk /\ PositionOk
    BY DEF WInv, Window
  <1>2. ASSUME NEW id \in Socket, NEW seq \in Int, NEW ev \in Int, Follows(id, seq, ev)
        PROVE  Follows(id, seq, ev)'
    <2>1. /\ entry[id].sent \in Nat /\ Len(entry[id].buf) \in Nat
          /\ Len(entry'[id].buf) \in Nat /\ pushed \in Nat
      BY <1>1, TableTypes DEF Tables, BuffersOk, BufferOk
    <2>2. /\ Known(id)' => Known(id)
          /\ entry'[id].sent = entry[id].sent /\ pushed' = pushed
          /\ Len(entry'[id].buf) <= Len(entry[id].buf)
      OBVIOUS
    <2>3. SUFFICES ASSUME Known(id)'
                   PROVE  \/ ev - seq = pushed' - entry'[id].sent
                          \/ seq < entry'[id].sent - Len(entry'[id].buf)
      BY DEF Follows
    <2>4. \/ ev - seq = pushed - entry[id].sent
          \/ seq < entry[id].sent - Len(entry[id].buf)
      BY <1>2, <2>2, <2>3 DEF Follows
    <2> QED BY <2>1, <2>2, <2>4, SMTT(30)
  <1>3. ASSUME NEW q, NEW from, NEW id \in Socket, cli.ws # None, Serves(q, from, id)
        PROVE  Serves(q, from, id)'
    BY <1>3 DEF Serves
  <1>4. WindowOk'
    BY <1>1, TableTypes DEF WindowOk, Position
  <1>5. PositionOk'
    <2>1. cli.id # None => Follows(cli.id, cli.lastSeen, seen)'
      BY <1>1, <1>2, TableTypes DEF PositionOk
    <2>2. cli.pending # None => Follows(cli.pending.id, cli.pending.seq, seen)'
      BY <1>1, <1>2, TableTypes DEF PositionOk, Position
    <2> QED BY <2>1, <2>2 DEF PositionOk, Follows, Known, IsRetained
  <1>6. LineOk'
    <2>1. /\ Line' = Line /\ Greeted' = Greeted /\ Greeting' = Greeting
      BY DEF Line, Greeted, Greeting
    <2>2. Greeted => Serves(Line, seen, cli.id)'
      BY <1>1, <1>3, <2>1, TableTypes DEF LineOk, Greeted, WindowOk
    <2>3. ASSUME Greeting
          PROVE  AckOk(Head(Line))' /\ Serves(Tail(Line), Base(Head(Line)), Head(Line).id)'
      <3> DEFINE m == Head(Line)
      <3>1. AckOk(m) /\ Serves(Tail(Line), Base(m), m.id) /\ m.id \in Socket
        BY <1>1, <2>3 DEF LineOk, AckOk
      <3>2. m' = m /\ Base(m)' = Base(m) /\ Tail(Line)' = Tail(Line) /\ Base(m) \in Int
        <4>1. m' = m /\ Base(m)' = Base(m) /\ Tail(Line)' = Tail(Line)
          BY <2>1 DEF Base
        <4> QED BY <1>1, <3>1, <4>1, TableTypes, SMTT(30) DEF Base, AckOk
      <3>3. Serves(Tail(Line), Base(m), m.id)'
        BY <1>3, <2>3, <3>1, <3>2 DEF Greeting
      <3>4. AckOk(m)'
        <4>1. Follows(m.id, IF m.reconnected THEN cli.lastSeen ELSE 0, Base(m))'
          BY <1>1, <1>2, <3>1, <3>2, TableTypes DEF AckOk
        <4> QED BY <3>1, <3>2, <4>1 DEF AckOk
      <3> QED BY <3>3, <3>4
    <2>4. cli.ws # None /\ ~Greeted /\ ~Greeting /\ link'[cli.ws] = "up" =>
            served'[cli.ws] = "handshake"
      BY <1>1 DEF LineOk
    <2> QED BY <2>1, <2>2, <2>3, <2>4 DEF LineOk
  <1> QED BY <1>4, <1>5, <1>6 DEF Window

\* Who is known, and what is in its buffer, when only the clock, acks on their
\* way or the network change.
LEMMA TablesKept ==
  ASSUME WInv, UNCHANGED <<clients, retained, entry, served>>, pushed' = pushed
  PROVE  /\ BuffersOk'
         /\ \A id \in Socket : Known(id)' => Known(id)
  <1>1. \A id : Known(id)' <=> Known(id)
    BY DEF Known, IsRetained
  <1>2. ASSUME NEW id \in Socket PROVE BufferOk(id)'
    <2>1. BufferOk(id)
      BY DEF WInv, Tables, BuffersOk
    <2> QED BY <1>1, <2>1 DEF BufferOk, Contiguous
  <1> QED BY <1>1, <1>2 DEF BuffersOk

LEMMA TimeStepW == ASSUME WInv, IInv', Time PROVE WInv'
  <1>1. /\ UNCHANGED <<pushed, clients, retained, entry, owner, served, opened, link,
                       hello, down, acking, cli, faults, seen, told>>
        /\ expired < pushed /\ expired' = expired + 1
    BY DEF Time, server, net, ghost
  <1>2. IInv /\ Tables
    BY DEF WInv
  <1>3. BuffersOk' /\ \A id \in Socket : Known(id)' => Known(id)
    BY <1>1, TablesKept
  <1>4. WindowType'
    BY <1>1, <1>2, TableTypes, SMTT(30) DEF Tables, WindowType
  <1>5. LinesOk'
    BY <1>1, <1>2 DEF Tables, LinesOk
  <1>6. Tables'
    BY <1>3, <1>4, <1>5 DEF Tables
  <1>7. \A id \in Socket : Len(entry'[id].buf) <= Len(entry[id].buf)
    BY <1>1, <1>2, TableTypes
  <1> QED BY <1>1, <1>3, <1>6, <1>7, ServerStep DEF WInv

LEMMA SendAckStepW == ASSUME WInv, IInv', SendAck PROVE WInv'
  <1>1. /\ UNCHANGED <<pushed, expired, clients, retained, entry, owner, served, opened,
                       link, hello, down, cli, faults, seen, told>>
        /\ acking' = [acking EXCEPT ![cli.ws] = cli.lastSeen]
    BY DEF SendAck, server, ghost
  <1>2. IInv /\ Tables
    BY DEF WInv
  <1>3. BuffersOk' /\ \A id \in Socket : Known(id)' => Known(id)
    BY <1>1, TablesKept
  <1>4. WindowType'
    <2>1. acking' \in [Socket -> 0 .. MaxPush]
      BY <1>1, <1>2, TableTypes DEF Tables, WindowType
    <2> QED BY <1>1, <1>2, <2>1 DEF Tables, WindowType
  <1>5. LinesOk'
    BY <1>1, <1>2 DEF Tables, LinesOk
  <1>6. Tables'
    BY <1>3, <1>4, <1>5 DEF Tables
  <1>7. \A id \in Socket : Len(entry'[id].buf) <= Len(entry[id].buf)
    BY <1>1, <1>2, TableTypes
  <1> QED BY <1>1, <1>3, <1>6, <1>7, ServerStep DEF WInv

\* Losing a connection.
LEMMA CutStepW == ASSUME NEW s \in Socket, WInv, IInv', Cut(s) PROVE WInv'
  <1>1. /\ UNCHANGED <<pushed, expired, clients, retained, entry, owner, served, opened,
                       hello, down, acking, cli, seen, told>>
        /\ s <= opened /\ link' = [link EXCEPT ![s] = "cut"]
        /\ faults < MaxFaults /\ faults' = faults + 1
    BY DEF Cut, server, ghost
  <1>2. IInv /\ Tables
    BY DEF WInv
  <1>3. BuffersOk' /\ \A id \in Socket : Known(id)' => Known(id)
    BY <1>1, TablesKept
  <1>4. link' \in [Socket -> {"up", "cut"}] /\ faults' \in 0 .. MaxFaults
    BY <1>1, <1>2, TableTypes, SMTT(30) DEF Tables, WindowType
  <1>5. WindowType'
    BY <1>1, <1>2, <1>4 DEF Tables, WindowType
  <1>6. \A t \in Socket : link'[t] = "up" <=> link[t] = "up" /\ t # s
    BY <1>1, <1>2 DEF Tables, WindowType
  <1>7. LinesOk'
    BY <1>1, <1>2, <1>6, TableTypes DEF Tables, LinesOk
  <1>8. Tables'
    BY <1>3, <1>5, <1>7 DEF Tables
  <1>9. \A id \in Socket : Len(entry'[id].buf) <= Len(entry[id].buf)
    BY <1>1, <1>2, TableTypes
  <1>10. cli.ws # None /\ link'[cli.ws] = "up" => link[cli.ws] = "up"
    BY <1>2, <1>6, TableTypes
  <1> QED BY <1>1, <1>3, <1>8, <1>9, <1>10, ServerStep DEF WInv

\* A client that is forgotten, or whose connection is closed, is not known
\* better than before.
LEMMA BuffersKept ==
  ASSUME WInv, UNCHANGED <<entry, pushed>>,
         \A id \in Socket : Known(id)' => Known(id),
         \A id \in Socket : served'[id] \in {"no", "handshake"} =>
                              served[id] \in {"no", "handshake"}
  PROVE  BuffersOk'
  <1>2. ASSUME NEW id \in Socket PROVE BufferOk(id)'
    <2>1. /\ BufferOk(id) /\ entry' = entry /\ pushed' = pushed
          /\ Known(id)' => Known(id)
          /\ served'[id] \in {"no", "handshake"} => served[id] \in {"no", "handshake"}
      BY DEF WInv, Tables, BuffersOk
    <2>2. Contiguous(entry[id].buf, entry[id].sent, pushed)' <=>
            Contiguous(entry[id].buf, entry[id].sent, pushed)
      BY <2>1 DEF Contiguous
    <2> QED BY <2>1, <2>2 DEF BufferOk
  <1> QED BY <1>2 DEF BuffersOk

LEMMA ForgetStepW == ASSUME NEW id \in Socket, WInv, IInv', Forget(id) PROVE WInv'
  <1>1. /\ UNCHANGED <<pushed, expired, clients, entry, owner, served, opened, link,
                       hello, down, acking, cli, faults, seen, told>>
        /\ IsRetained(id) /\ retained' = Without(id)
    BY DEF Forget, net, ghost
  <1>2. IInv /\ Tables
    BY DEF WInv
  <1>3. /\ Len(retained') = Len(retained) - 1
        /\ \A i \in DOMAIN retained' : \E k \in DOMAIN retained : retained'[i] = retained[k]
    BY <1>1, <1>2, WithoutEffect DEF IInv, OneHome
  <1>4. \A t \in Socket : Known(t)' => Known(t)
    BY <1>1, <1>3 DEF Known, IsRetained
  <1>5. BuffersOk'
    BY <1>1, <1>4, BuffersKept
  <1>6. WindowType'
    <2>1. Len(retained') <= RetainedMax
      BY <1>2, <1>3, TransportAssumption DEF Tables, WindowType, IInv, HomeType
    <2> QED BY <1>1, <1>2, <2>1 DEF Tables, WindowType
  <1>7. LinesOk'
    BY <1>1, <1>2 DEF Tables, LinesOk
  <1>8. Tables'
    BY <1>5, <1>6, <1>7 DEF Tables
  <1>9. \A t \in Socket : Len(entry'[t].buf) <= Len(entry[t].buf)
    BY <1>1, <1>2, TableTypes
  <1> QED BY <1>1, <1>4, <1>8, <1>9, ServerStep DEF WInv

\* Closing moves a client from those connected to those kept.
LEMMA OnCloseEffect ==
  ASSUME NEW s \in Socket, IInv, Len(retained) <= RetainedMax, OnClose(s)
  PROVE  /\ \A t \in Socket : Known(t)' => Known(t)
         /\ Len(retained') <= RetainedMax
  <1>1. CASE owner[s] = None
    <2>1. UNCHANGED <<clients, retained>>
      BY <1>1 DEF OnClose
    <2> QED BY <2>1 DEF Known, IsRetained
  <1>2. CASE owner[s] # None
    <2> DEFINE id == owner[s]
               kept == Append(retained, id)
    <2>1. id \in clients /\ id \in Socket /\ ~IsRetained(id)
      BY <1>2 DEF OnClose, IInv, HomeType, NewIsUnknown, OneHome
    <2>2. Without(id) = retained
      BY <2>1 DEF Without, RemoveFirst, IsRetained, IInv, HomeType
    <2>3. /\ clients' = clients \ {id}
          /\ retained' = IF Len(kept) > RetainedMax THEN Tail(kept) ELSE kept
      BY <1>2, <2>2 DEF OnClose
    <2>4. /\ kept \in Seq(Socket) /\ Len(kept) = Len(retained) + 1 /\ Len(retained) \in Nat
          /\ \A i \in 1 .. Len(kept) :
               kept[i] = IF i = Len(kept) THEN id ELSE retained[i]
      BY <2>1 DEF IInv, HomeType
    <2>5. \A i \in 1 .. Len(kept) : kept[i] = id \/ IsRetained(kept[i])
      BY <2>4 DEF IInv, HomeType, IsRetained
    <2> HIDE DEF kept
    <2>6. /\ retained' \in Seq(Socket) /\ Len(retained') <= RetainedMax
          /\ \A i \in DOMAIN retained' : \E k \in 1 .. Len(kept) : retained'[i] = kept[k]
      <3>1. CASE Len(kept) <= RetainedMax
        BY <2>3, <2>4, <3>1, TransportAssumption
      <3>2. CASE Len(kept) > RetainedMax
        <4>1. /\ Tail(kept) \in Seq(Socket) /\ Len(Tail(kept)) = Len(kept) - 1
              /\ \A i \in 1 .. Len(kept) - 1 : Tail(kept)[i] = kept[i + 1]
          BY <2>4
        <4> QED BY <2>3, <2>4, <3>2, <4>1, TransportAssumption
      <3> QED BY <2>4, <3>1, <3>2, TransportAssumption
    <2>7. \A t \in Socket : IsRetained(t)' => t = id \/ IsRetained(t)
      BY <2>5, <2>6 DEF IsRetained
    <2> QED BY <2>1, <2>3, <2>6, <2>7 DEF Known
  <1> QED BY <1>1, <1>2

LEMMA OnCloseStepW == ASSUME NEW s \in Socket, WInv, IInv', OnClose(s) PROVE WInv'
  <1>1. /\ UNCHANGED <<pushed, expired, entry, owner, opened, link, hello, down, acking,
                       cli, faults, seen, told>>
        /\ link[s] = "cut" /\ served' = [served EXCEPT ![s] = "closed"]
    BY DEF OnClose, net, ghost
  <1>2. IInv /\ Tables /\ served \in [Socket -> {"no", "handshake", "live", "closed"}]
    BY DEF WInv, IInv, HomeType
  <1>3. Len(retained') <= RetainedMax /\ \A t \in Socket : Known(t)' => Known(t)
    BY <1>2, OnCloseEffect DEF Tables, WindowType
  <1>4. \A t \in Socket : served'[t] = IF t = s THEN "closed" ELSE served[t]
    BY <1>1, <1>2
  <1>5. BuffersOk'
    BY <1>1, <1>3, <1>4, BuffersKept
  <1>6. WindowType'
    BY <1>1, <1>2, <1>3 DEF Tables, WindowType
  <1>7. LinesOk'
    BY <1>1, <1>2 DEF Tables, LinesOk
  <1>8. Tables'
    BY <1>5, <1>6, <1>7 DEF Tables
  <1>9. \A t \in Socket : Len(entry'[t].buf) <= Len(entry[t].buf)
    BY <1>1, <1>2, TableTypes
  <1>10. \A t \in Socket : served[t] \in {"live", "closed"} => served'[t] \in {"live", "closed"}
    BY <1>4
  <1>11. cli.ws # None /\ link'[cli.ws] = "up" => served'[cli.ws] = served[cli.ws]
    BY <1>1, <1>2, <1>4, TableTypes
  <1> QED BY <1>1, <1>3, <1>8, <1>9, <1>10, <1>11, ServerStep DEF WInv

\* A new process: every connection that was opened is lost.
LEMMA RestartStepW == ASSUME WInv, IInv', Restart PROVE WInv'
  <1>1. /\ UNCHANGED <<pushed, expired, entry, owner, opened, hello, down, acking, cli,
                       seen, told>>
        /\ faults < MaxFaults /\ faults' = faults + 1
        /\ clients' = {} /\ retained' = <<>>
        /\ served' = [s \in Socket |-> IF s <= opened THEN "closed" ELSE "no"]
        /\ link' = [s \in Socket |-> IF s <= opened THEN "cut" ELSE "up"]
    BY DEF Restart, ghost
  <1>2. IInv /\ Tables /\ \A s \in Socket : s > opened => served[s] = "no"
    BY DEF WInv, IInv, NewIsUnknown
  <1>3. \A t \in Socket : ~Known(t)'
    BY <1>1 DEF Known, IsRetained
  <1>4. /\ \A t \in Socket : served'[t] \in {"no", "handshake"} =>
                               served[t] \in {"no", "handshake"}
        /\ \A t \in Socket : served[t] \in {"live", "closed"} =>
                               served'[t] \in {"live", "closed"}
    BY <1>1, <1>2, TableTypes
  <1>5. BuffersOk'
    BY <1>1, <1>3, <1>4, BuffersKept
  <1>6. WindowType'
    <2>1. /\ link' \in [Socket -> {"up", "cut"}] /\ faults' \in 0 .. MaxFaults
          /\ Len(retained') <= RetainedMax
      BY <1>1, <1>2, TableTypes, TransportAssumption DEF Tables, WindowType
    <2> QED BY <1>1, <1>2, <2>1 DEF Tables, WindowType
  <1>7. LinesOk' /\ (cli.ws # None => link'[cli.ws] # "up")
    BY <1>1, <1>2, TableTypes DEF Tables, LinesOk
  <1>8. Tables'
    BY <1>5, <1>6, <1>7 DEF Tables
  <1>9. \A t \in Socket : Len(entry'[t].buf) <= Len(entry[t].buf)
    BY <1>1, <1>2, TableTypes
  <1> QED BY <1>1, <1>3, <1>4, <1>7, <1>8, <1>9, ServerStep DEF WInv

\* What was seen leaves the buffer.
LEMMA SequenceAckStepW ==
  ASSUME NEW s \in Socket, WInv, IInv', SequenceAck(s) PROVE WInv'
  <1> DEFINE id == owner[s]
             buf == After(entry[id].buf, acking[s])
  <1>1. /\ UNCHANGED <<pushed, expired, clients, retained, owner, served, opened, link,
                       hello, down, acking, cli, faults, seen, told>>
        /\ served[s] = "live"
        /\ entry' = [entry EXCEPT ![id].acked = acking[s], ![id].buf = After(@, acking[s])]
    BY DEF SequenceAck, net, ghost
  <1>2. IInv /\ Tables
    BY DEF WInv
  <1>3. id \in clients /\ id \in Socket /\ Known(id) /\ BufferOk(id)
    BY <1>1, <1>2 DEF IInv, HomeType, OneHome, Known, Tables, BuffersOk
  <1>4. acking[s] \in 0 .. MaxPush
    BY <1>2 DEF Tables, WindowType
  <1>5. IsTail(buf, entry[id].buf) /\ Contiguous(buf, entry[id].sent, pushed)
    <2>1. /\ entry[id].sent \in Nat /\ pushed \in Nat /\ acking[s] \in Nat
          /\ Contiguous(entry[id].buf, entry[id].sent, pushed)
      BY <1>2, <1>3, <1>4, TableTypes DEF BufferOk
    <2>2. IsTail(buf, entry[id].buf)
      BY <2>1, AfterEffect
    <2> HIDE DEF buf, id
    <2> QED BY <2>1, <2>2, TailIsContiguous
  <1>6. /\ entry'[id].sent = entry[id].sent /\ entry'[id].acked = acking[s]
        /\ entry'[id].buf = buf
        /\ \A t \in Socket \ {id} : entry'[t] = entry[t]
    BY <1>1, <1>3 DEF IInv, HomeType, WInv
  <1>7. \A t : Known(t)' <=> Known(t)
    BY <1>1 DEF Known, IsRetained
  <1> HIDE DEF buf, id
  <1>8. Len(buf) <= Len(entry[id].buf) /\ Len(buf) <= BufferMax
    <2>1. /\ Len(buf) \in Nat /\ Len(entry[id].buf) \in Nat /\ BufferMax \in Nat
          /\ Len(entry[id].buf) <= BufferMax
      BY <1>2, <1>3, <1>5, TableTypes, TransportAssumption, SMTT(30) DEF Contiguous, BufferOk
    <2> QED BY <1>5, <2>1 DEF IsTail
  <1>9. ASSUME NEW t \in Socket PROVE BufferOk(t)'
    <2>1. CASE t = id
      <3>1. served'[t] = served[t] /\ served[t] \notin {"no", "handshake"}
        BY <1>1, <1>2, <1>3, <2>1 DEF IInv, NewIsUnknown
      <3>2. Contiguous(entry'[t].buf, entry'[t].sent, pushed')
        BY <1>1, <1>5, <1>6, <2>1
      <3> QED BY <1>1, <1>3, <1>4, <1>6, <1>8, <2>1, <3>1, <3>2 DEF BufferOk, Contiguous
    <2>2. CASE t # id
      <3>1. BufferOk(t) /\ entry'[t] = entry[t]
        BY <1>2, <1>6, <2>2 DEF Tables, BuffersOk
      <3> QED BY <1>1, <1>7, <3>1 DEF BufferOk, Contiguous
    <2> QED BY <2>1, <2>2
  <1>10. WindowType' /\ LinesOk'
    BY <1>1, <1>2 DEF Tables, WindowType, LinesOk
  <1>11. Tables'
    BY <1>9, <1>10 DEF Tables, BuffersOk
  <1>12. \A t \in Socket : /\ entry'[t].sent = entry[t].sent
                           /\ Len(entry'[t].buf) <= Len(entry[t].buf)
    <2>1. ASSUME NEW t \in Socket
          PROVE  /\ entry'[t].sent = entry[t].sent
                 /\ Len(entry'[t].buf) <= Len(entry[t].buf)
      <3>1. CASE t = id
        BY <1>6, <1>8, <3>1
      <3>2. CASE t # id
        BY <1>2, <1>6, <3>2, TableTypes, SMTT(30)
      <3> QED BY <3>1, <3>2
    <2> QED BY <2>1
  <1>13. /\ \A t \in Socket : served[t] \in {"live", "closed"} => served'[t] \in {"live", "closed"}
         /\ served' = served /\ link' = link /\ owner' = owner
         /\ UNCHANGED <<cli, down, seen, told, hello, pushed>>
    BY <1>1
  <1>14. Window'
    BY <1>7, <1>11, <1>12, <1>13, ServerStep
  <1> QED BY <1>11, <1>14 DEF WInv

\* Hearing of the lost connection, the window keeps who it is and what it saw.
LEMMA OnDisconnectStepW == ASSUME WInv, IInv', OnDisconnect PROVE WInv'
  <1>1. /\ UNCHANGED <<pushed, expired, clients, retained, entry, owner, served, opened,
                       link, hello, down, acking, faults, seen, told>>
        /\ cli.ws # None /\ link[cli.ws] = "cut"
        /\ cli' = [cli EXCEPT !.pending = Pending, !.id = None, !.ws = None]
    BY DEF OnDisconnect, server, net, ghost
  <1>2. IInv /\ Tables /\ WindowOk /\ PositionOk
    BY DEF WInv, Window
  <1>3. BuffersOk' /\ \A id \in Socket : Known(id)' <=> Known(id)
    BY <1>1, TablesKept DEF Known, IsRetained
  <1>4. /\ Pending \in Position \cup {None}
        /\ cli.id # None => Pending = [id |-> cli.id, seq |-> cli.lastSeen] /\ Pending # None
        /\ cli.id = None => Pending = cli.pending
    BY <1>2, TableTypes DEF Pending, Position
  <1>5. /\ cli' \in [ws : Socket \cup {None}, id : Socket \cup {None},
                     lastSeen : 0 .. MaxPush, pending : Position \cup {None},
                     resuming : BOOLEAN]
        /\ cli'.ws = None /\ cli'.id = None /\ cli'.lastSeen = cli.lastSeen
        /\ cli'.pending = Pending
    BY <1>1, <1>2, <1>4 DEF Tables, WindowType
  <1>6. WindowType' /\ LinesOk'
    <2>1. \A t \in Socket : t <= opened => link[t] # "up"
      BY <1>1, <1>2, TableTypes DEF Tables, LinesOk
    <2> QED BY <1>1, <1>2, <1>5, <2>1 DEF Tables, WindowType, LinesOk
  <1>7. WindowOk'
    <2>1. /\ Pending = None <=> told = 0
          /\ Pending # None => /\ Pending.seq = cli.lastSeen
                               /\ served[Pending.id] \in {"live", "closed"}
      BY <1>2, <1>4 DEF WindowOk
    <2> QED BY <1>1, <1>2, <1>5, <2>1 DEF WindowOk
  <1>8. LineOk'
    BY <1>5 DEF LineOk, Greeted, Greeting
  <1>9. PositionOk'
    <2>1. ASSUME Pending # None
          PROVE  Pending.id \in Socket /\ Follows(Pending.id, Pending.seq, seen)
      BY <1>2, <1>4, <2>1, TableTypes DEF PositionOk, Position
    <2>2. ASSUME NEW id \in Socket, NEW seq, NEW ev, Follows(id, seq, ev)
          PROVE  Follows(id, seq, ev)'
      BY <1>1, <1>3, <2>2 DEF Follows
    <2>3. ASSUME cli'.pending # None
          PROVE  Follows(cli.pending.id, cli.pending.seq, seen)'
      <3>1. cli'.pending.id \in Socket /\ Follows(cli'.pending.id, cli'.pending.seq, seen)
        BY <1>5, <2>1, <2>3
      <3> QED BY <1>1, <2>2, <3>1
    <2> QED BY <1>5, <2>3 DEF PositionOk
  <1> QED BY <1>3, <1>6, <1>7, <1>8, <1>9 DEF WInv, Tables, Window

\* The window opens a connection and names who it was.
LEMMA ConnectStepW == ASSUME WInv, IInv', Connect PROVE WInv'
  <1> DEFINE s == opened + 1
             back == cli.pending # None
  <1>1. /\ UNCHANGED <<pushed, expired, clients, retained, entry, owner, link, down,
                       acking, faults, seen, told>>
        /\ cli.ws = None /\ opened < MaxFaults + 1 /\ opened' = s
        /\ served' = [served EXCEPT ![s] = "handshake"]
        /\ hello' = [hello EXCEPT ![s] = cli.pending]
        /\ cli' = [cli EXCEPT !.ws = s, !.resuming = back]
    BY DEF Connect, ghost
  <1>2. IInv /\ Tables /\ WindowOk /\ PositionOk
    BY DEF WInv, Window
  <1>3. s \in Socket /\ s > opened /\ served[s] = "no"
    BY <1>1, <1>2, TableTypes DEF Socket, IInv, NewIsUnknown
  <1>4. back \in BOOLEAN
    OBVIOUS
  <1>5. \A t \in Socket : served'[t] = IF t = s THEN "handshake" ELSE served[t]
    BY <1>1, <1>3 DEF WInv, IInv, HomeType
  <1>6. \A t : Known(t)' <=> Known(t)
    BY <1>1 DEF Known, IsRetained
  <1>7. BuffersOk'
    BY <1>1, <1>3, <1>5, <1>6, BuffersKept
  <1> HIDE DEF back
  <1>8. /\ cli' \in [ws : Socket \cup {None}, id : Socket \cup {None},
                     lastSeen : 0 .. MaxPush, pending : Position \cup {None},
                     resuming : BOOLEAN]
        /\ cli'.ws = s /\ cli'.id = cli.id /\ cli'.lastSeen = cli.lastSeen
        /\ cli'.pending = cli.pending /\ cli'.resuming = back
    BY <1>1, <1>2, <1>3, <1>4 DEF Tables, WindowType
  <1>9. WindowType' /\ LinesOk'
    <2>1. opened' \in 0 .. MaxFaults + 1 /\ DOMAIN hello' = Socket
      BY <1>1, <1>2, TableTypes, SMTT(30) DEF Tables, WindowType
    <2>2. \A t \in Socket : t <= opened => link[t] # "up"
      BY <1>1, <1>2, TableTypes DEF Tables, LinesOk
    <2>3. LinesOk'
      BY <1>1, <1>2, <1>3, <1>8, <2>2, TableTypes, SMTT(30) DEF Tables, LinesOk
    <2> HIDE DEF s
    <2> QED BY <1>1, <1>2, <1>8, <2>1, <2>3 DEF Tables, WindowType
  <1>10. down[s] = <<>> /\ cli.id = None
    BY <1>1, <1>2, <1>3 DEF Tables, LinesOk, WindowOk
  <1>11. WindowOk'
    <2>1. hello'[s] = cli.pending /\ (back <=> cli.pending # None)
      BY <1>1, <1>2, <1>3 DEF Tables, WindowType, back
    <2>2. cli.pending # None => served'[cli.pending.id] \in {"live", "closed"}
      BY <1>2, <1>3, <1>5, TableTypes DEF WindowOk, Position
    <2> HIDE DEF s
    <2>3. /\ cli'.id = None /\ cli'.pending = cli.pending /\ cli'.ws = s
          /\ cli'.lastSeen = cli.lastSeen /\ told' = told /\ seen' = seen
          /\ cli'.resuming <=> cli.pending # None
      BY <1>1, <1>8, <1>10, <2>1
    <2>4. /\ cli.pending = None <=> told = 0
          /\ told = 0 => seen = 0 /\ cli.lastSeen = 0
          /\ cli.pending # None => cli.pending.seq = cli.lastSeen
      BY <1>2, <1>10 DEF WindowOk
    <2>5. cli'.ws # None /\ cli'.id = None =>
            hello'[cli'.ws] = cli'.pending /\ (cli'.resuming <=> cli'.pending # None)
      BY <2>1, <2>3
    <2> QED BY <2>2, <2>3, <2>4, <2>5, Zenon DEF WindowOk
  <1>12. LineOk'
    BY <1>1, <1>3, <1>5, <1>8, <1>10 DEF LineOk, Greeted, Greeting, Line
  <1>13. PositionOk'
    BY <1>1, <1>2, <1>6, <1>8, <1>10 DEF PositionOk, Follows
  <1> QED BY <1>7, <1>9, <1>11, <1>12, <1>13 DEF WInv, Tables, Window

-----------------------------------------------------------------------------
(* The window receives.                                                    *)

\* The next message of the window's line, and what comes after it.
LEMMA LineEffect ==
  ASSUME IInv, Tables, cli.ws # None, Line # <<>>
  PROVE  /\ cli.ws \in Socket /\ Line \in Seq(Message) /\ Len(Line) \in Nat \ {0}
         /\ Head(Line) = Line[1] /\ Head(Line) \in Message
         /\ Tail(Line) \in Seq(Message) /\ Len(Tail(Line)) = Len(Line) - 1
         /\ \A i \in 1 .. Len(Line) - 1 : Tail(Line)[i] = Line[i + 1]
  <1>1. cli.ws \in Socket /\ Line \in Seq(Message)
    BY TableTypes DEF Line
  <1> DEFINE q == Line
  <1>2. q \in Seq(Message) /\ q # <<>>
    BY <1>1
  <1> HIDE DEF q
  <1>3. /\ Len(q) \in Nat \ {0} /\ Head(q) = q[1] /\ Head(q) \in Message
        /\ Tail(q) \in Seq(Message) /\ Len(Tail(q)) = Len(q) - 1
        /\ \A i \in 1 .. Len(q) - 1 : Tail(q)[i] = q[i + 1]
    BY <1>2
  <1> QED BY <1>1, <1>3 DEF q

\* What a message that is taken leaves as it was.
LEMMA MessageTables ==
  ASSUME WInv, OnMessage,
         cli' \in [ws : Socket \cup {None}, id : Socket \cup {None}, lastSeen : 0 .. MaxPush,
                   pending : Position \cup {None}, resuming : BOOLEAN],
         cli'.ws = cli.ws, seen' \in 0 .. pushed, told' \in Nat
  PROVE  Tables' /\ Line' = Tail(Line) /\ \A id : Known(id)' <=> Known(id)
  <1>1. /\ UNCHANGED <<pushed, expired, clients, retained, entry, owner, served, opened,
                       link, hello, acking, faults>>
        /\ cli.ws # None /\ Line # <<>>
        /\ down' = [down EXCEPT ![cli.ws] = Tail(Line)]
    BY DEF OnMessage, server, Line
  <1>2. IInv /\ Tables
    BY DEF WInv
  <1>3. cli.ws \in Socket /\ Tail(Line) \in Seq(Message)
    BY <1>1, <1>2, LineEffect
  <1>4. /\ down' \in [Socket -> Seq(Message)] /\ down'[cli.ws] = Tail(Line)
        /\ \A t \in Socket \ {cli.ws} : down'[t] = down[t]
    BY <1>1, <1>2, <1>3 DEF Tables, WindowType
  <1>5. WindowType'
    BY <1>1, <1>2, <1>4 DEF Tables, WindowType
  <1>6. LinesOk'
    <2>1. /\ cli.ws <= opened /\ cli'.ws = cli.ws /\ link' = link /\ opened' = opened
          /\ \A t \in Socket : /\ t <= opened /\ link[t] = "up" => t = cli.ws
                               /\ t > opened => link[t] = "up" /\ down[t] = <<>>
      BY <1>1, <1>2 DEF Tables, LinesOk
    <2>2. ASSUME NEW t \in Socket, t > opened PROVE down'[t] = <<>>
      <3>1. t # cli.ws
        BY <1>2, <1>3, <2>1, <2>2, TableTypes
      <3> QED BY <1>4, <2>1, <2>2, <3>1
    <2> QED BY <2>1, <2>2 DEF LinesOk
  <1>7. BuffersOk'
    BY <1>1, TablesKept
  <1>8. Line' = Tail(Line)
    BY <1>4 DEF Line
  <1> QED BY <1>1, <1>5, <1>6, <1>7, <1>8 DEF Tables, Known, IsRetained

\* The events of the line follow one another: the window is given the next.
LEMMA EventStepW ==
  ASSUME WInv, IInv', OnMessage, Head(Line).type = "event"
  PROVE  WInv' /\ seen < pushed /\ seen' = seen + 1 /\ UNCHANGED <<pushed, told>>
  <1> DEFINE m == Head(Line)
  <1>1. /\ UNCHANGED <<pushed, expired, clients, retained, entry, owner, served, opened,
                       link, hello, acking, faults, told>>
        /\ cli.ws # None /\ Line # <<>>
        /\ cli' = [cli EXCEPT !.lastSeen = m.seq] /\ seen' = m.ev
    BY DEF OnMessage, server, Line, OnEvent
  <1>2. IInv /\ Tables /\ WindowOk /\ PositionOk /\ LineOk
    BY DEF WInv, Window
  <1>3. /\ cli.ws \in Socket /\ Line \in Seq(Message) /\ Len(Line) \in Nat \ {0}
        /\ m = Line[1] /\ m \in Message
        /\ Tail(Line) \in Seq(Message) /\ Len(Tail(Line)) = Len(Line) - 1
        /\ \A i \in 1 .. Len(Line) - 1 : Tail(Line)[i] = Line[i + 1]
    BY <1>1, <1>2, LineEffect
  <1>4. Greeted /\ Serves(Line, seen, cli.id) /\ cli.id \in Socket
    BY <1>1, <1>2, TableTypes DEF LineOk, Greeted, Greeting, AckOk
  <1>5. /\ m.ev = seen + 1 /\ seen + 1 <= pushed
        /\ Known(cli.id) => m.ev - m.seq = pushed - entry[cli.id].sent
    BY <1>2, <1>3, <1>4, TableTypes DEF Serves
  <1>6. m.seq \in 1 .. MaxPush
    BY <1>3 DEF Message
  <1> HIDE DEF m
  <1>7. /\ cli' \in [ws : Socket \cup {None}, id : Socket \cup {None},
                     lastSeen : 0 .. MaxPush, pending : Position \cup {None},
                     resuming : BOOLEAN]
        /\ cli'.ws = cli.ws /\ cli'.id = cli.id /\ cli'.lastSeen = m.seq
        /\ cli'.pending = cli.pending /\ cli'.resuming = cli.resuming
    <2>1. m.seq \in 0 .. MaxPush
      BY <1>2, <1>6, TableTypes
    <2> QED BY <1>1, <1>2, <2>1 DEF Tables, WindowType
  <1>8. Tables' /\ Line' = Tail(Line) /\ \A id : Known(id)' <=> Known(id)
    <2>1. seen' \in 0 .. pushed /\ told' \in Nat
      <3>1. seen \in Nat /\ pushed \in Nat /\ told \in Nat
        BY <1>2, TableTypes
      <3>2. seen' = seen + 1 /\ told' = told
        BY <1>1, <1>5
      <3> QED BY <1>5, <3>1, <3>2
    <2> QED BY <1>7, <2>1, MessageTables
  <1>9. WindowOk'
    <2>1. cli.id # None /\ told # 0
      BY <1>2, <1>4 DEF Greeted, WindowOk
    <2> QED BY <1>1, <1>2, <1>7, <2>1 DEF WindowOk
  <1>10. LineOk'
    <2>1. /\ seen' + Len(Tail(Line)) <= pushed
          /\ link[cli.ws] = "up" => seen' + Len(Tail(Line)) = pushed
      BY <1>1, <1>2, <1>3, <1>4, <1>5, TableTypes DEF Serves
    <2>2. ASSUME NEW i \in 1 .. Len(Tail(Line))
          PROVE  /\ Tail(Line)[i].type = "event" /\ Tail(Line)[i].ev = seen' + i
                 /\ Known(cli.id) =>
                      Tail(Line)[i].ev - Tail(Line)[i].seq = pushed - entry[cli.id].sent
      <3>1. i + 1 \in 1 .. Len(Line) /\ Tail(Line)[i] = Line[i + 1]
        BY <1>3
      <3>2. /\ Line[i + 1].type = "event" /\ Line[i + 1].ev = seen + (i + 1)
            /\ Known(cli.id) => Line[i + 1].ev - Line[i + 1].seq = pushed - entry[cli.id].sent
        BY <1>4, <3>1 DEF Serves
      <3>3. seen + (i + 1) = seen' + i
        BY <1>1, <1>2, <1>5, TableTypes
      <3> QED BY <3>1, <3>2, <3>3
    <2>3. Serves(Line, seen, cli.id)'
      BY <1>1, <1>4, <1>7, <1>8, <2>1, <2>2 DEF Serves
    <2> QED BY <1>4, <1>7, <2>3 DEF LineOk, Greeted, Greeting
  <1>11. PositionOk'
    BY <1>1, <1>2, <1>4, <1>5, <1>7, <1>8 DEF PositionOk, Follows, Greeted, WindowOk
  <1> QED BY <1>1, <1>2, <1>5, <1>8, <1>9, <1>10, <1>11, TableTypes DEF WInv, Window

\* An answer to the handshake continues what the window saw, or the window
\* loads its state anew.
LEMMA AckStepW ==
  ASSUME WInv, IInv', OnMessage, Head(Line).type # "event"
  PROVE  /\ WInv' /\ pushed' = pushed
         /\ \/ UNCHANGED <<seen, told>>
            \/ told' = told + 1 /\ seen' \in seen .. pushed
  <1> DEFINE m == Head(Line)
             no == FALSE
             after == IF m.reconnected THEN cli.lastSeen ELSE 0
  <1>1. /\ UNCHANGED <<pushed, expired, clients, retained, entry, owner, served, opened,
                       link, hello, acking, faults>>
        /\ cli.ws # None /\ Line # <<>>
        /\ cli' = [cli EXCEPT !.id = m.id, !.pending = None, !.resuming = no,
                              !.lastSeen = IF m.reconnected THEN @ ELSE 0]
        /\ IF told = 0 \/ (cli.resuming /\ (~m.reconnected \/ m.stale))
           THEN seen' = m.covers /\ told' = told + 1
           ELSE UNCHANGED <<seen, told>>
    BY DEF OnMessage, server, Line, OnHandshakeAck, ghost
  <1>2. IInv /\ Tables /\ WindowOk /\ PositionOk /\ LineOk
    BY DEF WInv, Window
  <1>3. /\ cli.ws \in Socket /\ Line \in Seq(Message) /\ Len(Line) \in Nat \ {0}
        /\ m = Line[1] /\ m \in Message
    BY <1>1, <1>2, LineEffect
  <1>4. cli.id = None /\ AckOk(m) /\ Serves(Tail(Line), Base(m), m.id)
    <2>1. ASSUME Greeted PROVE FALSE
      BY <1>2, <1>3, <2>1 DEF LineOk, Serves
    <2> QED BY <1>1, <1>2, <2>1 DEF LineOk, Greeted, Greeting
  <1> HIDE DEF m
  <1>5. after \in 0 .. MaxPush /\ no \in BOOLEAN
    BY <1>2, TableTypes
  <1>6. m.id \in Socket /\ m.covers \in seen .. pushed /\ m.reconnected \in BOOLEAN
    BY <1>4 DEF AckOk
  <1>7. cli' = [cli EXCEPT !.id = m.id, !.pending = None, !.resuming = no,
                           !.lastSeen = after]
    BY <1>1
  <1>8. Follows(m.id, after, Base(m))
    BY <1>4 DEF AckOk
  <1> HIDE DEF after, no
  <1>9. /\ cli' \in [ws : Socket \cup {None}, id : Socket \cup {None},
                     lastSeen : 0 .. MaxPush, pending : Position \cup {None},
                     resuming : BOOLEAN]
        /\ cli'.ws = cli.ws /\ cli'.id = m.id /\ cli'.lastSeen = after
        /\ cli'.pending = None
    BY <1>2, <1>5, <1>6, <1>7 DEF Tables, WindowType
  <1>10. /\ seen' = Base(m)
         /\ \/ UNCHANGED <<seen, told>>
            \/ told' = told + 1 /\ seen' \in seen .. pushed
         /\ told' \in Nat /\ told' # 0
    <2>1. CASE told = 0
      <3>1. ~m.reconnected
        BY <1>2, <1>4, <2>1 DEF WindowOk, AckOk
      <3> QED BY <1>1, <1>6, <2>1, <3>1 DEF Base
    <2>2. CASE told # 0
      <3>1. cli.resuming
        BY <1>1, <1>2, <1>4, <2>2 DEF WindowOk
      <3> QED BY <1>1, <1>2, <1>6, <2>2, <3>1, TableTypes DEF Base
    <2> QED BY <2>1, <2>2
  <1>11. Tables' /\ Line' = Tail(Line) /\ \A id : Known(id)' <=> Known(id)
    <2>1. seen' \in 0 .. pushed
      BY <1>2, <1>10, TableTypes
    <2> QED BY <1>9, <1>10, <2>1, MessageTables
  <1>12. WindowOk'
    <2>1. served[m.id] \in {"live", "closed"} /\ m.id # None
      BY <1>2, <1>4, <1>6, TableTypes DEF AckOk
    <2> QED BY <1>1, <1>9, <1>10, <2>1 DEF WindowOk
  <1>13. LineOk'
    <2>1. Serves(Line, seen, cli.id)'
      BY <1>1, <1>4, <1>9, <1>10, <1>11 DEF Serves
    <2>2. cli'.id # None
      BY <1>2, <1>6, <1>9, TableTypes
    <2> QED BY <2>1, <2>2 DEF LineOk, Greeted, Greeting
  <1>14. PositionOk'
    BY <1>1, <1>8, <1>9, <1>10, <1>11 DEF PositionOk, Follows
  <1> QED BY <1>1, <1>10, <1>11, <1>12, <1>13, <1>14 DEF WInv, Window

-----------------------------------------------------------------------------
(* The server answers a handshake.                                         *)

\* A handshake that can be answered is the window's last one, and nothing has
\* been sent on its connection.
LEMMA HandshakeIsTheWindows ==
  ASSUME NEW s \in Socket, WInv, Handshake(s)
  PROVE  /\ s = cli.ws /\ s <= opened /\ cli.id = None /\ down[s] = <<>>
         /\ hello[s] = cli.pending /\ link[s] = "up" /\ served[s] = "handshake"
         /\ ~Known(s) /\ owner[s] = None /\ entry[s].sent = 0 /\ entry[s].buf = <<>>
  <1>1. IInv /\ Tables /\ WindowOk /\ LineOk
    BY DEF WInv, Window
  <1>2. link[s] = "up" /\ served[s] = "handshake"
    BY DEF Handshake
  <1>3. s <= opened
    BY <1>1, <1>2, TableTypes DEF IInv, NewIsUnknown
  <1>4. s = cli.ws /\ s # None
    BY <1>1, <1>2, <1>3, TableTypes DEF Tables, LinesOk
  <1>5. ~Greeted
    BY <1>1, <1>2, <1>4 DEF LineOk, Serves
  <1>6. ~Greeting
    BY <1>1, <1>2, <1>4 DEF LineOk, Serves
  <1>7. cli.id = None /\ down[s] = <<>> /\ hello[s] = cli.pending
    BY <1>1, <1>4, <1>5, <1>6 DEF Greeted, Greeting, Line, WindowOk
  <1>8. ~Known(s) /\ owner[s] = None
    BY <1>1, <1>2 DEF IInv, NewIsUnknown, Known
  <1>9. entry[s].sent = 0 /\ entry[s].buf = <<>>
    BY <1>1, <1>2 DEF Tables, BuffersOk, BufferOk
  <1> QED BY <1>2, <1>3, <1>4, <1>7, <1>8, <1>9

LEMMA AckEffect ==
  ASSUME pushed \in 0 .. MaxPush, NEW id \in Socket, NEW r \in BOOLEAN, NEW st \in BOOLEAN
  PROVE  /\ HandshakeAck(id, r, st) \in Message
         /\ HandshakeAck(id, r, st).type = "handshake_ack"
         /\ HandshakeAck(id, r, st).id = id
         /\ HandshakeAck(id, r, st).reconnected = r
         /\ HandshakeAck(id, r, st).stale = st
         /\ HandshakeAck(id, r, st).covers = pushed
  BY DEF HandshakeAck, Message

\* An answer, as much of it as passes before the connection is terminated.
LEMMA PrefixEffect ==
  ASSUME NEW m \in Message, NEW events \in Seq(Message), NEW n \in 1 .. 1 + Len(events)
  PROVE  LET q == SubSeq(<<m>> \o events, 1, n) IN
         /\ Len(<<m>> \o events) = 1 + Len(events)
         /\ q \in Seq(Message) /\ q # <<>> /\ Head(q) = m
         /\ Tail(q) \in Seq(Message) /\ Len(Tail(q)) = n - 1
         /\ \A i \in 1 .. n - 1 : Tail(q)[i] = events[i]
  <1> DEFINE all == <<m>> \o events
             q == SubSeq(all, 1, n)
  <1>1. Len(events) \in Nat /\ n \in Nat /\ n >= 1 /\ n <= 1 + Len(events)
    OBVIOUS
  <1>2. /\ all \in Seq(Message) /\ Len(all) = 1 + Len(events) /\ all[1] = m
        /\ \A i \in 1 .. Len(events) : all[i + 1] = events[i]
    <2> DEFINE one == <<m>>
    <2>1. one \in Seq(Message) /\ Len(one) = 1 /\ one[1] = m
      OBVIOUS
    <2> HIDE DEF one
    <2>2. /\ one \o events \in Seq(Message) /\ Len(one \o events) = Len(one) + Len(events)
          /\ \A i \in 1 .. Len(one) + Len(events) :
               (one \o events)[i] = IF i <= Len(one) THEN one[i] ELSE events[i - Len(one)]
      BY <2>1, ConcatProperties
    <2>3. (one \o events)[1] = m
      BY <1>1, <2>1, <2>2
    <2>4. ASSUME NEW i \in 1 .. Len(events) PROVE (one \o events)[i + 1] = events[i]
      <3>1. i + 1 \in 1 .. Len(one) + Len(events) /\ ~(i + 1 <= Len(one))
            /\ i + 1 - Len(one) = i
        BY <1>1, <2>1
      <3> QED BY <2>2, <3>1
    <2> QED BY <2>1, <2>2, <2>3, <2>4 DEF one
  <1> HIDE DEF all
  <1>3. q \in Seq(Message) /\ Len(q) = n /\ \A i \in 1 .. n : q[i] = all[i]
    <2>1. \A i \in 1 .. n : all[i] \in Message
      BY <1>1, <1>2
    <2>2. /\ q \in Seq(Message) /\ Len(q) = IF 1 <= n THEN n - 1 + 1 ELSE 0
          /\ \A i \in 1 .. n - 1 + 1 : q[i] = all[1 + i - 1]
      BY <1>1, <1>2, <2>1, SubSeqProperties
    <2> HIDE DEF q
    <2> QED BY <1>1, <2>2
  <1> HIDE DEF q
  <1>4. /\ q # <<>> /\ Head(q) = q[1] /\ Tail(q) \in Seq(Message) /\ Len(Tail(q)) = n - 1
        /\ \A i \in 1 .. n - 1 : Tail(q)[i] = q[i + 1]
    BY <1>1, <1>3
  <1>5. \A i \in 1 .. n - 1 : Tail(q)[i] = events[i]
    BY <1>1, <1>2, <1>3, <1>4
  <1> QED BY <1>1, <1>2, <1>3, <1>4, <1>5 DEF q, all

\* What the answer to a handshake has to be for the window to be served right.
LEMMA AnsweredStep ==
  ASSUME NEW s \in Socket, NEW id \in Socket, NEW q \in Seq(Message), NEW m,
         WInv, IInv', Handshake(s), Tables',
         s = cli.ws, cli.id = None, hello[s] = cli.pending,
         \A t \in Socket : served[t] \in {"live", "closed"} => served'[t] \in {"live", "closed"},
         down'[s] = q, q # <<>>, Head(q) = m, AckOk(m)', m.id = id,
         Serves(Tail(q), Base(m), id)', PositionOk'
  PROVE  WInv'
  <1>1. UNCHANGED <<pushed, expired, opened, hello, acking, cli, seen, told>>
    BY DEF Handshake, ghost
  <1>2. IInv /\ Tables /\ WindowOk
    BY DEF WInv, Window
  <1>3. Line' = q /\ cli' = cli
    BY <1>1 DEF Line
  <1>4. WindowOk'
    BY <1>1, <1>2, TableTypes DEF WindowOk, Position
  <1>5. LineOk'
    <2>1. ~Greeted' /\ Greeting'
      BY <1>1, <1>2, <1>3, TableTypes DEF Greeted, Greeting
    <2>2. Head(Line)' = m /\ Tail(Line)' = Tail(q)
      BY <1>3
    <2>3. Serves(Tail(Line), Base(Head(Line)), Head(Line).id)' /\ AckOk(Head(Line))'
      BY <2>2 DEF Base
    <2> QED BY <2>1, <2>3 DEF LineOk
  <1> QED BY <1>4, <1>5 DEF WInv, Window

\* A window that is not recognised is told to load everything.
LEMMA AdmitStepW ==
  ASSUME NEW s \in Socket, WInv, IInv', Handshake(s), Admit(s)
  PROVE  WInv'
  <1> DEFINE no == FALSE
  <1>1. /\ UNCHANGED <<pushed, expired, opened, hello, acking, cli, seen, told, entry,
                       retained, link, faults>>
        /\ served' = [served EXCEPT ![s] = "live"] /\ clients' = clients \cup {s}
        /\ owner' = [owner EXCEPT ![s] = s]
        /\ down' = [down EXCEPT ![s] = <<HandshakeAck(s, no, no)>>]
    BY DEF Handshake, Admit, ghost
  <1>2. /\ s = cli.ws /\ s <= opened /\ cli.id = None /\ hello[s] = cli.pending
        /\ served[s] = "handshake" /\ ~Known(s) /\ entry[s].sent = 0 /\ entry[s].buf = <<>>
    BY HandshakeIsTheWindows
  <1>3. IInv /\ Tables /\ WindowOk /\ PositionOk
    BY DEF WInv, Window
  <1>4. no \in BOOLEAN /\ ~no
    OBVIOUS
  <1> HIDE DEF no
  <1>5. PICK m \in Message : /\ m = HandshakeAck(s, no, no)
                             /\ m.type = "handshake_ack" /\ m.id = s
                             /\ m.reconnected = no /\ m.stale = no /\ m.covers = pushed
    BY <1>3, <1>4, AckEffect DEF Tables, WindowType
  <1>6. PICK q \in Seq(Message) : q = <<m>> /\ q # <<>> /\ Head(q) = m /\ Tail(q) = <<>>
    <2>1. <<m>> \in Seq(Message) /\ <<m>> # <<>> /\ Head(<<m>>) = m /\ Tail(<<m>>) = <<>>
      OBVIOUS
    <2> QED BY <2>1
  <1>7. /\ \A t \in Socket : served'[t] = IF t = s THEN "live" ELSE served[t]
        /\ owner'[s] = s /\ down'[s] = q
        /\ \A t \in Socket : t # s => down'[t] = down[t]
        /\ down' \in [Socket -> Seq(Message)]
    BY <1>1, <1>3, <1>5, <1>6 DEF IInv, HomeType, Tables, WindowType
  <1>8. \A t : Known(t)' <=> Known(t) \/ t = s
    BY <1>1 DEF Known, IsRetained
  <1>9. ASSUME NEW t \in Socket PROVE BufferOk(t)'
    <2>1. BufferOk(t) /\ entry'[t] = entry[t] /\ pushed' = pushed /\ pushed \in Nat
      BY <1>1, <1>3, TableTypes DEF Tables, BuffersOk
    <2>2. CASE t = s
      <3>1. Contiguous(<<>>, 0, pushed)
        BY DEF Contiguous
      <3>2. Contiguous(entry[t].buf, entry[t].sent, pushed)'
        BY <1>2, <2>1, <2>2, <3>1
      <3> QED BY <1>2, <1>7, <2>1, <2>2, <3>2 DEF BufferOk
    <2>3. CASE t # s
      BY <1>7, <1>8, <2>1, <2>3 DEF BufferOk, Contiguous
    <2> QED BY <2>2, <2>3
  <1>10. WindowType' /\ LinesOk'
    <2>1. WindowType'
      BY <1>1, <1>3, <1>7 DEF Tables, WindowType
    <2>2. LinesOk'
      BY <1>1, <1>2, <1>3, <1>7, TableTypes DEF Tables, LinesOk
    <2> QED BY <2>1, <2>2
  <1>11. Tables'
    BY <1>9, <1>10 DEF Tables, BuffersOk
  <1>12. Base(m)' = pushed /\ pushed \in Nat /\ seen \in Nat /\ seen <= pushed
    BY <1>1, <1>3, <1>4, <1>5, TableTypes DEF Base
  <1>13. AckOk(m)'
    <2>1. Follows(s, 0, pushed)'
      BY <1>1, <1>2, <1>12 DEF Follows
    <2> QED BY <1>1, <1>4, <1>5, <1>7, <1>12, <2>1 DEF AckOk, Follows
  <1>14. Serves(Tail(q), Base(m), s)'
    BY <1>1, <1>2, <1>6, <1>7, <1>12 DEF Serves
  <1>15. PositionOk'
    <2>1. cli.pending # None => cli.pending.id # s
      BY <1>2, <1>3 DEF WindowOk
    <2> QED BY <1>1, <1>2, <1>3, <1>8, <2>1 DEF PositionOk, Follows
  <1>16. \A t \in Socket : served[t] \in {"live", "closed"} => served'[t] \in {"live", "closed"}
    BY <1>7
  <1> QED BY <1>2, <1>5, <1>6, <1>7, <1>11, <1>13, <1>14, <1>15, <1>16, AnsweredStep

\* The first n messages of an answer: the word that the window is known, and the
\* events it missed, or that they are gone.
Answered(s, buf, n) ==
  \E q \in Seq(Message), m \in Message :
    /\ SubSeq(Answer(s, buf), 1, n) = q /\ q # <<>> /\ Head(q) = m
    /\ m.type = "handshake_ack" /\ m.id = cli.pending.id /\ m.reconnected
    /\ m.reconnected \in BOOLEAN /\ m.stale \in BOOLEAN /\ m.covers = pushed
    /\ Len(Tail(q)) = n - 1
    /\ m.stale => n = 1 /\ n = Len(Answer(s, buf))
                  /\ cli.lastSeen < entry[cli.pending.id].sent - Len(buf)
    /\ ~m.stale =>
         /\ Len(Answer(s, buf)) = 1 + pushed - seen
         /\ seen - cli.lastSeen = pushed - entry[cli.pending.id].sent
         /\ \A i \in 1 .. n - 1 : /\ Tail(q)[i].type = "event"
                                  /\ Tail(q)[i].ev = seen + i
                                  /\ Tail(q)[i].seq = cli.lastSeen + i

\* A window that is recognised is sent what it missed, from the event after the
\* last it accounts for, or told that it is gone.
LEMMA AnswerEffect ==
  ASSUME NEW s \in Socket, WInv, hello[s] = cli.pending, cli.pending # None,
         cli.id = None, Known(cli.pending.id), NEW buf,
         Contiguous(buf, entry[cli.pending.id].sent, pushed),
         Len(buf) <= Len(entry[cli.pending.id].buf),
         NEW n \in 1 .. Len(Answer(s, buf))
  PROVE  Answered(s, buf, n)
  <1> SUFFICES \E q \in Seq(Message), m \in Message :
                /\ SubSeq(Answer(s, buf), 1, n) = q /\ q # <<>> /\ Head(q) = m
                /\ m.type = "handshake_ack" /\ m.id = cli.pending.id /\ m.reconnected
                /\ m.reconnected \in BOOLEAN /\ m.stale \in BOOLEAN /\ m.covers = pushed
                /\ Len(Tail(q)) = n - 1
                /\ m.stale => n = 1 /\ n = Len(Answer(s, buf))
                              /\ cli.lastSeen < entry[cli.pending.id].sent - Len(buf)
                /\ ~m.stale =>
                     /\ Len(Answer(s, buf)) = 1 + pushed - seen
                     /\ seen - cli.lastSeen = pushed - entry[cli.pending.id].sent
                     /\ \A i \in 1 .. n - 1 : /\ Tail(q)[i].type = "event"
                                              /\ Tail(q)[i].ev = seen + i
                                              /\ Tail(q)[i].seq = cli.lastSeen + i
    BY DEF Answered
  <1> DEFINE id == cli.pending.id
             sent == entry[id].sent
             seq == cli.lastSeen
             missed == After(buf, seq)
             events == [i \in DOMAIN missed |-> Event(missed[i])]
             yes == TRUE
             no == FALSE
  <1>1. IInv /\ Tables /\ WindowOk /\ PositionOk
    BY DEF WInv, Window
  <1>2. id \in Socket /\ hello[s].id = id /\ hello[s].seq = seq
    BY <1>1, TableTypes DEF WindowOk, Position
  <1>3. /\ sent \in Nat /\ seq \in Nat /\ seen \in Nat /\ pushed \in Nat /\ MaxPush \in Nat
        /\ seen <= pushed /\ pushed <= MaxPush
        /\ buf \in Seq(Record) /\ Len(buf) \in Nat /\ Len(buf) <= sent
        /\ Len(entry[id].buf) \in Nat /\ Len(buf) <= Len(entry[id].buf)
        /\ Contiguous(buf, sent, pushed)
    <2>1. buf \in Seq(Record) /\ Len(buf) \in Nat /\ Len(buf) <= sent
      BY DEF Contiguous
    <2>2. sent \in Nat /\ Len(entry[id].buf) \in Nat
      BY <1>1, <1>2, TableTypes
    <2> QED BY <1>1, <2>1, <2>2, TableTypes
  <1>4. yes \in BOOLEAN /\ yes /\ no \in BOOLEAN /\ ~no
    OBVIOUS
  <1>5. /\ seen - seq = pushed - sent \/ seq < sent - Len(entry[id].buf)
        /\ pushed \in 0 .. MaxPush
    BY <1>1, <1>2 DEF PositionOk, Follows, WindowOk, Tables, WindowType
  <1>6. Answer(s, buf) = IF CanReplay(s, buf) THEN <<HandshakeAck(id, yes, no)>> \o events
                         ELSE <<HandshakeAck(id, yes, yes)>>
    BY <1>2 DEF Answer
  <1>7. CanReplay(s, buf) <=> seq >= sent \/ (buf # <<>> /\ seq + 1 >= buf[1].seq)
    BY <1>2 DEF CanReplay
  <1> HIDE DEF yes, no, id, sent, seq
  <1>8. CASE CanReplay(s, buf)
    <2>1. seq >= sent - Len(buf)
      <3>1. CASE seq >= sent
        BY <1>3, <3>1
      <3>2. CASE buf # <<>> /\ seq + 1 >= buf[1].seq
        <4>1. 1 \in 1 .. Len(buf)
          BY <1>3, <3>2
        <4>2. buf[1].seq = sent - Len(buf) + 1
          BY <1>3, <4>1 DEF Contiguous
        <4> QED BY <1>3, <3>2, <4>2
      <3> QED BY <1>7, <1>8, <3>1, <3>2
    <2>2. seen - seq = pushed - sent /\ seq <= sent
      BY <1>3, <1>5, <2>1
    <2>3. IsTail(missed, buf) /\ Len(missed) = sent - seq
      BY <1>3, <2>1, <2>2, AfterEffect
    <2>4. Contiguous(missed, sent, pushed)
      BY <1>3, <2>3, TailIsContiguous
    <2>5. /\ missed \in Seq(Record) /\ DOMAIN missed = 1 .. Len(missed)
          /\ Len(missed) = pushed - seen
          /\ \A i \in 1 .. Len(missed) : /\ missed[i] \in Record /\ missed[i].seq = seq + i
                                         /\ missed[i].ev = seen + i
      <3>1. missed \in Seq(Record) /\ DOMAIN missed = 1 .. Len(missed)
        BY <2>4 DEF Contiguous
      <3>2. Len(missed) = pushed - seen
        BY <1>3, <2>2, <2>3
      <3>3. ASSUME NEW i \in 1 .. Len(missed)
            PROVE  /\ missed[i] \in Record /\ missed[i].seq = seq + i
                   /\ missed[i].ev = seen + i
        <4>1. missed[i].seq = sent - Len(missed) + i /\ missed[i].ev = pushed - Len(missed) + i
          BY <2>4 DEF Contiguous
        <4> HIDE DEF missed
        <4> QED BY <1>3, <2>3, <3>1, <3>2, <4>1
      <3> QED BY <3>1, <3>2, <3>3
    <2> HIDE DEF missed
    <2>6. ASSUME NEW i \in 1 .. Len(missed)
          PROVE  /\ events[i] \in Message /\ events[i].type = "event"
                 /\ events[i].seq = seq + i /\ events[i].ev = seen + i
      <3>1. events[i] = [type |-> "event", seq |-> missed[i].seq, ev |-> missed[i].ev]
        BY <2>5 DEF Event
      <3>2. missed[i].seq \in 1 .. MaxPush /\ missed[i].ev \in 1 .. MaxPush
        BY <2>5 DEF Record
      <3> QED BY <2>5, <3>1, <3>2 DEF Message
    <2>7. events \in Seq(Message) /\ Len(events) = pushed - seen
      <3>1. DOMAIN events = 1 .. Len(missed) /\ Len(missed) \in Nat
        BY <2>5
      <3>2. events \in [1 .. Len(missed) -> Message]
        BY <2>6, <3>1
      <3> HIDE DEF events
      <3> QED BY <2>5, <3>1, <3>2, SeqDef, LenProperties
    <2> HIDE DEF events
    <2>8. PICK m \in Message :
            /\ m = HandshakeAck(id, yes, no) /\ m.type = "handshake_ack" /\ m.id = id
            /\ m.reconnected = yes /\ m.stale = no /\ m.covers = pushed
      <3> DEFINE a == HandshakeAck(id, yes, no)
      <3>1. /\ a \in Message /\ a.type = "handshake_ack" /\ a.id = id
            /\ a.reconnected = yes /\ a.stale = no /\ a.covers = pushed
        BY <1>2, <1>4, <1>5, AckEffect, ZenonT(30)
      <3> HIDE DEF a
      <3> QED BY <3>1 DEF a
    <2>9. Answer(s, buf) = <<m>> \o events
      BY <1>6, <1>8, <2>8
    <2>10. Len(<<m>> \o events) = 1 + Len(events) /\ n \in 1 .. 1 + Len(events)
      <3>1. 1 \in 1 .. 1 + Len(events)
        BY <1>3, <2>7
      <3>2. Len(<<m>> \o events) = 1 + Len(events)
        BY <2>7, <3>1, PrefixEffect
      <3> QED BY <2>9, <3>2
    <2> DEFINE q == SubSeq(<<m>> \o events, 1, n)
    <2>11. /\ q \in Seq(Message) /\ q # <<>> /\ Head(q) = m /\ Len(Tail(q)) = n - 1
           /\ \A i \in 1 .. n - 1 : Tail(q)[i] = events[i]
      BY <2>7, <2>10, PrefixEffect
    <2>12. SubSeq(Answer(s, buf), 1, n) = q /\ Len(Answer(s, buf)) = 1 + pushed - seen
      BY <1>3, <2>7, <2>9, <2>10
    <2> HIDE DEF q
    <2>13. \A i \in 1 .. n - 1 : /\ Tail(q)[i].type = "event" /\ Tail(q)[i].ev = seen + i
                                 /\ Tail(q)[i].seq = seq + i
      <3>1. SUFFICES ASSUME NEW i \in 1 .. n - 1
                     PROVE  /\ Tail(q)[i].type = "event" /\ Tail(q)[i].ev = seen + i
                            /\ Tail(q)[i].seq = seq + i
        OBVIOUS
      <3>2. i \in 1 .. Len(missed)
        BY <1>3, <2>5, <2>7, <2>10
      <3>3. Tail(q)[i] = events[i]
        BY <2>11
      <3> QED BY <2>6, <3>2, <3>3
    <2>14. m.reconnected /\ ~m.stale /\ m.reconnected \in BOOLEAN /\ m.stale \in BOOLEAN
      BY <1>4, <2>8
    <2> QED BY <2>2, <2>8, <2>11, <2>12, <2>13, <2>14 DEF id, sent, seq
  <1>9. CASE ~CanReplay(s, buf)
    <2>1. seq < sent - Len(buf)
      <3>1. CASE buf = <<>>
        BY <1>3, <1>7, <1>9, <3>1
      <3>2. CASE buf # <<>>
        <4>1. 1 \in 1 .. Len(buf)
          BY <1>3, <3>2
        <4>2. buf[1].seq = sent - Len(buf) + 1
          BY <1>3, <4>1 DEF Contiguous
        <4> QED BY <1>3, <1>7, <1>9, <3>2, <4>2
      <3> QED BY <3>1, <3>2
    <2>2. PICK m \in Message :
            /\ m = HandshakeAck(id, yes, yes) /\ m.type = "handshake_ack" /\ m.id = id
            /\ m.reconnected = yes /\ m.stale = yes /\ m.covers = pushed
      BY <1>2, <1>4, <1>5, AckEffect, ZenonT(30)
    <2> DEFINE q == <<m>>
    <2>3. q \in Seq(Message) /\ q # <<>> /\ Head(q) = m /\ Len(Tail(q)) = 0 /\ Len(q) = 1
      OBVIOUS
    <2>4. Answer(s, buf) = q
      BY <1>6, <1>9, <2>2
    <2> HIDE DEF q
    <2>5. SubSeq(q, 1, 1) = q
      BY <2>3, SubSeqFull
    <2>6. n = 1 /\ SubSeq(Answer(s, buf), 1, n) = q /\ Len(Answer(s, buf)) = 1
      <3>1. Len(Answer(s, buf)) = 1
        BY <2>3, <2>4
      <3>2. n = 1
        BY <3>1
      <3> QED BY <2>4, <2>5, <3>1, <3>2
    <2>7. m.reconnected /\ m.stale /\ m.reconnected \in BOOLEAN /\ m.stale \in BOOLEAN
      BY <1>4, <2>2
    <2>8. /\ cli.lastSeen < entry[cli.pending.id].sent - Len(buf)
          /\ m.id = cli.pending.id /\ Len(Tail(q)) = n - 1 /\ n = Len(Answer(s, buf))
      BY <2>1, <2>2, <2>3, <2>6 DEF id, sent, seq
    <2>9. q \in Seq(Message) /\ m \in Message
      BY <2>3
    <2> QED BY <2>2, <2>3, <2>6, <2>7, <2>8, <2>9, Zenon
  <1> QED BY <1>8, <1>9

\* The buffer and the numbering of a client go on with its new connection.
LEMMA ResumeStepW ==
  ASSUME NEW s \in Socket, WInv, IInv', Handshake(s), Resume(s)
  PROVE  WInv'
  <1>1. /\ s = cli.ws /\ s <= opened /\ cli.id = None /\ hello[s] = cli.pending
        /\ served[s] = "handshake" /\ ~Known(s) /\ link[s] = "up"
    BY HandshakeIsTheWindows
  <1>2. IInv /\ Tables /\ WindowOk /\ PositionOk
    BY DEF WInv, Window
  <1>0. hello[s] # None /\ IsRetained(hello[s].id)
    BY DEF Resume, Recognised
  <1>5. PICK id \in Socket : /\ id = cli.pending.id /\ id = hello[s].id
                             /\ IsRetained(id) /\ Known(id) /\ id # s
                             /\ cli.pending # None /\ cli.pending.seq = cli.lastSeen
    BY <1>0, <1>1, <1>2, TableTypes DEF Known, Position, WindowOk
  <1>a. PICK buf : buf = EvictBuffer(entry[id].buf)
    OBVIOUS
  <1> DEFINE answer == Answer(s, buf)
  <1>3. /\ UNCHANGED <<pushed, expired, opened, hello, acking, cli, seen, told>>
        /\ served' = [served EXCEPT ![s] = "live"]
        /\ entry' = [entry EXCEPT ![id].sock = s, ![id].buf = buf]
        /\ retained' = Without(id) /\ clients' = clients \cup {id}
        /\ owner' = [owner EXCEPT ![s] = id]
    BY <1>5, <1>a DEF Handshake, Resume, ghost
  <1>4. PICK n \in 1 .. Len(answer) :
          /\ n < Len(answer) => faults < MaxFaults
          /\ down' = [down EXCEPT ![s] = SubSeq(answer, 1, n)]
          /\ link' = [link EXCEPT ![s] = IF n < Len(answer) THEN "cut" ELSE @]
          /\ faults' = faults + (IF n < Len(answer) THEN 1 ELSE 0)
    BY <1>5, <1>a DEF Resume
  <1>6. BufferOk(id) /\ served[id] \in {"live", "closed"}
    BY <1>2, <1>3, <1>5 DEF Tables, BuffersOk, WindowOk
  <1>7. /\ Contiguous(buf, entry[id].sent, pushed)
        /\ Len(buf) <= Len(entry[id].buf) /\ Len(buf) <= BufferMax /\ Len(buf) \in Nat
    <2>1. /\ entry[id].sent \in Nat /\ pushed \in Nat /\ expired \in Nat
          /\ Contiguous(entry[id].buf, entry[id].sent, pushed)
      BY <1>2, <1>5, <1>6, TableTypes DEF BufferOk
    <2> DEFINE old == entry[id].buf
    <2>2. IsTail(EvictBuffer(old), old) /\ Len(EvictBuffer(old)) <= BufferMax
      BY <2>1, EvictEffect
    <2>3. Contiguous(EvictBuffer(old), entry[id].sent, pushed)
      BY <2>1, <2>2, TailIsContiguous
    <2>4. Len(EvictBuffer(old)) <= Len(old) /\ Len(EvictBuffer(old)) \in Nat
      BY <2>2 DEF IsTail
    <2> QED BY <1>a, <2>2, <2>3, <2>4
  <1>8. PICK q \in Seq(Message), m \in Message :
           /\ SubSeq(answer, 1, n) = q /\ q # <<>> /\ Head(q) = m
           /\ m.type = "handshake_ack" /\ m.id = id /\ m.reconnected
           /\ m.reconnected \in BOOLEAN /\ m.stale \in BOOLEAN /\ m.covers = pushed
           /\ Len(Tail(q)) = n - 1
           /\ m.stale => n = 1 /\ n = Len(answer)
                         /\ cli.lastSeen < entry[id].sent - Len(buf)
           /\ ~m.stale =>
                /\ Len(answer) = 1 + pushed - seen
                /\ seen - cli.lastSeen = pushed - entry[id].sent
                /\ \A i \in 1 .. n - 1 : /\ Tail(q)[i].type = "event"
                                         /\ Tail(q)[i].ev = seen + i
                                         /\ Tail(q)[i].seq = cli.lastSeen + i
    <2>1. Contiguous(buf, entry[cli.pending.id].sent, pushed)
      BY <1>5, <1>7
    <2>2. Len(buf) <= Len(entry[cli.pending.id].buf) /\ Known(cli.pending.id)
      BY <1>5, <1>7
    <2>3. Answered(s, buf, n)
      BY <1>1, <1>5, <2>1, <2>2, AnswerEffect
    <2> QED BY <1>5, <2>3 DEF Answered
  <1> HIDE DEF answer
  <1>9. /\ entry'[id].sent = entry[id].sent /\ entry'[id].acked = entry[id].acked
        /\ entry'[id].buf = buf
        /\ \A t \in Socket \ {id} : entry'[t] = entry[t]
    BY <1>3, <1>5, <1>2 DEF IInv, HomeType
  <1>10. /\ Len(retained') = Len(retained) - 1
         /\ \A i \in DOMAIN retained' : \E k \in DOMAIN retained : retained'[i] = retained[k]
    <2>1. HomeType /\ \A i, j \in DOMAIN retained : retained[i] = retained[j] => i = j
      BY <1>2 DEF IInv, OneHome
    <2>2. /\ Len(Without(id)) = Len(retained) - 1
          /\ \A i \in DOMAIN Without(id) :
               \E k \in DOMAIN retained : Without(id)[i] = retained[k]
      BY <1>5, <2>1, WithoutEffect
    <2> QED BY <1>3, <2>2
  <1>11. \A t \in Socket : Known(t)' => Known(t)
    BY <1>3, <1>5, <1>10 DEF Known, IsRetained
  <1>12. /\ \A t \in Socket : served'[t] = IF t = s THEN "live" ELSE served[t]
         /\ owner'[s] = id /\ down'[s] = q
         /\ \A t \in Socket : t # s => down'[t] = down[t] /\ link'[t] = link[t]
         /\ down' \in [Socket -> Seq(Message)] /\ link' \in [Socket -> {"up", "cut"}]
         /\ link'[s] = "up" => n = Len(answer)
    <2>1. /\ served \in [Socket -> {"no", "handshake", "live", "closed"}]
          /\ owner \in [Socket -> Socket \cup {None}]
          /\ down \in [Socket -> Seq(Message)] /\ link \in [Socket -> {"up", "cut"}]
      BY <1>2 DEF IInv, HomeType, Tables, WindowType
    <2>2. down' = [down EXCEPT ![s] = q]
      BY <1>4, <1>8
    <2>4. Len(answer) \in Nat
      BY <1>2, <1>8, TableTypes
    <2>3. PICK l \in {"up", "cut"} : link' = [link EXCEPT ![s] = l] /\ (l = "up" => n >= Len(answer))
      <3>1. CASE n < Len(answer)
        BY <1>4, <3>1
      <3>2. CASE ~(n < Len(answer))
        <4>1. link[s] \in {"up", "cut"} /\ link' = [link EXCEPT ![s] = link[s]]
          BY <1>4, <2>1, <3>2
        <4>2. n >= Len(answer)
          BY <1>4, <2>4, <3>2
        <4> QED BY <4>1, <4>2, Zenon
      <3> QED BY <3>1, <3>2
    <2>5. n = Len(answer) \/ n < Len(answer)
      BY <1>4, <2>4
    <2> QED BY <1>3, <2>1, <2>2, <2>3, <2>4, <2>5
  <1>13. ASSUME NEW t \in Socket PROVE BufferOk(t)'
    <2>1. CASE t = id
      <3>1. served'[t] = served[t] /\ served[t] \notin {"no", "handshake"}
        BY <1>5, <1>6, <1>12, <2>1
      <3>2. Contiguous(entry'[t].buf, entry'[t].sent, pushed')
        BY <1>3, <1>7, <1>9, <2>1
      <3> QED BY <1>3, <1>5, <1>6, <1>7, <1>9, <2>1, <3>1, <3>2 DEF BufferOk, Contiguous
    <2>2. CASE t # id
      <3>1. BufferOk(t) /\ entry'[t] = entry[t] /\ pushed' = pushed
        BY <1>2, <1>3, <1>9, <2>2 DEF Tables, BuffersOk
      <3>2. served'[t] \in {"no", "handshake"} => served[t] \in {"no", "handshake"}
        BY <1>12
      <3> QED BY <1>11, <3>1, <3>2 DEF BufferOk, Contiguous
    <2> QED BY <2>1, <2>2
  <1>14. WindowType' /\ LinesOk'
    <2>0. Len(retained) \in Nat /\ Len(retained) <= RetainedMax /\ RetainedMax \in Nat
      BY <1>2, TransportAssumption DEF Tables, WindowType, IInv, HomeType
    <2>1. Len(retained') <= RetainedMax /\ faults' \in 0 .. MaxFaults
      <3>1. Len(retained') <= RetainedMax
        BY <1>10, <2>0
      <3>2. faults \in 0 .. MaxFaults /\ MaxFaults \in Nat
        BY <1>2, TransportAssumption DEF Tables, WindowType
      <3>3. CASE n < Len(answer)
        <4>1. faults' = faults + 1 /\ faults < MaxFaults
          BY <1>4, <3>3
        <4> QED BY <3>1, <3>2, <4>1
      <3>4. CASE ~(n < Len(answer))
        <4>1. faults' = faults + 0
          BY <1>4, <3>4
        <4> QED BY <3>1, <3>2, <4>1
      <3> QED BY <3>3, <3>4
    <2>2. WindowType'
      BY <1>2, <1>3, <1>12, <2>1 DEF Tables, WindowType
    <2>3. LinesOk'
      <3>1. /\ cli' = cli /\ opened' = opened /\ cli.ws <= opened
            /\ \A t \in Socket : /\ t <= opened /\ link[t] = "up" => t = cli.ws
                                 /\ t > opened => link[t] = "up" /\ down[t] = <<>>
        BY <1>1, <1>2, <1>3 DEF Tables, LinesOk
      <3>2. \A t \in Socket : t > opened => t # s
        BY <1>1, <1>2, TableTypes
      <3> QED BY <1>1, <1>12, <3>1, <3>2 DEF LinesOk
    <2> QED BY <2>2, <2>3
  <1>15. Tables'
    BY <1>13, <1>14 DEF Tables, BuffersOk
  <1>16. /\ pushed \in Nat /\ seen \in Nat /\ seen <= pushed /\ cli.lastSeen \in Nat
         /\ entry[id].sent \in Nat
         /\ Base(m)' = IF m.stale THEN pushed ELSE seen
    <2>1. /\ pushed \in Nat /\ seen \in Nat /\ seen <= pushed /\ cli.lastSeen \in Nat
          /\ entry[id].sent \in Nat
      BY <1>2, <1>5, TableTypes, SMTT(30)
    <2>2. seen' = seen
      BY <1>3
    <2>3. m.reconnected /\ m.covers = pushed
      BY <1>8
    <2> QED BY <2>1, <2>2, <2>3 DEF Base
  <1>17. AckOk(m)'
    <2>1. Follows(id, cli.lastSeen, Base(m))'
      <3>1. CASE m.stale
        BY <1>3, <1>8, <1>9, <3>1 DEF Follows
      <3>2. CASE ~m.stale
        BY <1>3, <1>8, <1>9, <1>16, <3>2 DEF Follows
      <3> QED BY <1>8, <3>1, <3>2
    <2>2. m.covers \in seen' .. pushed' /\ m.id = cli'.pending.id /\ cli'.pending # None
      BY <1>3, <1>5, <1>8, <1>16
    <2>3. served'[m.id] \in {"live", "closed"}
      BY <1>5, <1>6, <1>8, <1>12
    <2> QED BY <1>3, <1>5, <1>8, <2>1, <2>2, <2>3 DEF AckOk, Follows
  <1>18. Serves(Tail(q), Base(m), id)'
    <2>1. /\ served'[cli'.ws] = "live" /\ owner'[cli'.ws] = id /\ pushed' = pushed
          /\ link'[cli'.ws] = "up" => n = Len(answer)
          /\ n \in Nat /\ n >= 1 /\ n <= Len(answer) /\ Len(Tail(q)) = n - 1
      <3>1. Len(answer) \in Nat
        BY <1>8, <1>16
      <3> QED BY <1>1, <1>3, <1>4, <1>8, <1>12, <3>1
    <2>2. CASE m.stale
      <3>1. Len(Tail(q)) = 0 /\ Base(m)' = pushed
        BY <1>8, <1>16, <2>1, <2>2
      <3>2. \A i \in 1 .. Len(Tail(q)) : FALSE
        BY <3>1, SMTT(30)
      <3>3. pushed + 0 <= pushed /\ pushed + 0 = pushed
        BY <1>16
      <3> QED BY <2>1, <3>1, <3>2, <3>3 DEF Serves
    <2>3. CASE ~m.stale
      <3>1. /\ Base(m)' = seen /\ Len(answer) = 1 + pushed - seen
            /\ seen - cli.lastSeen = pushed - entry[id].sent
        BY <1>8, <1>16, <2>3
      <3>2. seen + Len(Tail(q)) <= pushed /\ (link'[cli'.ws] = "up" => seen + Len(Tail(q)) = pushed)
        <4>1. /\ seen \in Nat /\ pushed \in Nat /\ n \in Nat /\ n <= Len(answer)
              /\ Len(Tail(q)) = n - 1
          BY <1>16, <2>1
        <4>2. seen + Len(Tail(q)) <= pushed
          BY <3>1, <4>1
        <4>3. ASSUME link'[cli'.ws] = "up" PROVE seen + Len(Tail(q)) = pushed
          <5>1. n = Len(answer)
            BY <2>1, <4>3
          <5> QED BY <3>1, <4>1, <5>1
        <4> QED BY <4>2, <4>3
      <3>3. ASSUME NEW i \in 1 .. Len(Tail(q))
            PROVE  /\ Tail(q)[i].type = "event" /\ Tail(q)[i].ev = seen + i
                   /\ Tail(q)[i].ev - Tail(q)[i].seq = pushed - entry[id].sent
        <4>1. i \in 1 .. n - 1
          BY <2>1
        <4>2. /\ Tail(q)[i].type = "event" /\ Tail(q)[i].ev = seen + i
              /\ Tail(q)[i].seq = cli.lastSeen + i
          BY <1>8, <2>3, <4>1
        <4>3. seen + i - (cli.lastSeen + i) = seen - cli.lastSeen
          BY <1>16, <2>1
        <4>4. Tail(q)[i].ev - Tail(q)[i].seq = pushed - entry[id].sent
          BY <1>16, <2>1, <3>1, <4>2
        <4> QED BY <4>2, <4>4
      <3>4. entry'[id].sent = entry[id].sent
        BY <1>9
      <3> QED BY <2>1, <3>1, <3>2, <3>3, <3>4 DEF Serves
    <2> QED BY <1>8, <2>2, <2>3
  <1>19. PositionOk'
    <2>1. Follows(id, cli.pending.seq, seen)
      BY <1>2, <1>5 DEF PositionOk
    <2>2. Len(entry[id].buf) \in Nat
      BY <1>2, <1>5, TableTypes
    <2>3. Follows(id, cli.pending.seq, seen)'
      <3>1. \/ seen - cli.lastSeen = pushed - entry[id].sent
            \/ cli.lastSeen < entry[id].sent - Len(entry[id].buf)
        BY <1>5, <2>1 DEF Follows
      <3>2. \/ seen - cli.lastSeen = pushed - entry[id].sent
            \/ cli.lastSeen < entry[id].sent - Len(buf)
        <4>1. Len(buf) <= Len(entry[id].buf) /\ Len(buf) \in Nat
          BY <1>7
        <4>2. cli.lastSeen \in Nat /\ entry[id].sent \in Nat
          BY <1>16
        <4> QED BY <2>2, <3>1, <4>1, <4>2
      <3> QED BY <1>3, <1>5, <1>9, <3>2 DEF Follows
    <2>4. /\ cli'.id = None /\ cli'.pending.id = id
          /\ Follows(cli.pending.id, cli.pending.seq, seen)'
      BY <1>1, <1>3, <1>5, <2>3
    <2> QED BY <2>4 DEF PositionOk
  <1>20. \A t \in Socket : served[t] \in {"live", "closed"} => served'[t] \in {"live", "closed"}
    BY <1>12
  <1> QED BY <1>1, <1>8, <1>12, <1>15, <1>17, <1>18, <1>19, <1>20, AnsweredStep

-----------------------------------------------------------------------------
(* The server pushes an event.                                             *)

\* Every client the server knows gets the event into its buffer, the others
\* keep what they had.
LEMMA PushOnBuffers ==
  ASSUME WInv, Push
  PROVE  /\ \A id : Known(id)' <=> Known(id)
         /\ \A id \in Socket :
              /\ entry'[id].acked = entry[id].acked
              /\ Known(id) => /\ entry'[id].sent = entry[id].sent + 1
                              /\ Contiguous(entry'[id].buf, entry[id].sent + 1, pushed + 1)
                              /\ Len(entry'[id].buf) <= Len(entry[id].buf) + 1
                              /\ Len(entry'[id].buf) <= BufferMax
              /\ ~Known(id) => entry'[id] = entry[id]
         /\ BuffersOk'
  <1>1. /\ UNCHANGED <<clients, retained, served>> /\ pushed' = pushed + 1 /\ pushed < MaxPush
        /\ entry' = [id \in Socket |-> IF id \in clients \/ IsRetained(id)
                                       THEN Buffered(entry[id]) ELSE entry[id]]
    BY DEF Push
  <1>2. IInv /\ Tables
    BY DEF WInv
  <1>3. \A id : Known(id)' <=> Known(id)
    BY <1>1 DEF Known, IsRetained
  <1>4. ASSUME NEW id \in Socket
        PROVE  /\ entry'[id].acked = entry[id].acked
               /\ Known(id) => /\ entry'[id].sent = entry[id].sent + 1
                               /\ Contiguous(entry'[id].buf, entry[id].sent + 1, pushed + 1)
                               /\ Len(entry'[id].buf) <= Len(entry[id].buf) + 1
                               /\ Len(entry'[id].buf) <= BufferMax
               /\ ~Known(id) => entry'[id] = entry[id]
               /\ BufferOk(id)'
    <2>1. BufferOk(id) /\ DOMAIN entry[id] = {"sock", "sent", "acked", "buf"}
      BY <1>2 DEF Tables, BuffersOk, IInv, HomeType
    <2>2. CASE Known(id)
      <3> DEFINE c == entry[id]
      <3>1. entry'[id] = Buffered(c)
        BY <1>1, <2>2 DEF Known
      <3>2. /\ c.sent \in Nat /\ Contiguous(c.buf, c.sent, pushed) /\ pushed \in Nat
            /\ expired \in Nat /\ c.sent <= pushed /\ pushed < MaxPush
            /\ DOMAIN c = {"sock", "sent", "acked", "buf"}
        BY <1>1, <1>2, <2>1, <2>2, TableTypes DEF BufferOk
      <3>3. /\ Buffered(c) = [c EXCEPT !.sent = c.sent + 1, !.buf = Buffered(c).buf]
            /\ Contiguous(Buffered(c).buf, c.sent + 1, pushed + 1)
            /\ Len(Buffered(c).buf) <= Len(c.buf) + 1 /\ Len(Buffered(c).buf) <= BufferMax
        <4> HIDE DEF c
        <4> QED BY <3>2, BufferedEffect
      <3>4. Buffered(c).acked = c.acked /\ Buffered(c).sent = c.sent + 1
        BY <3>2, <3>3
      <3>5. served'[id] \notin {"no", "handshake"}
        BY <1>1, <1>2, <2>2 DEF IInv, NewIsUnknown, Known
      <3>6. /\ c.acked \in 0 .. MaxPush /\ c.sent + 1 \in 0 .. MaxPush /\ c.sent + 1 <= pushed + 1
        BY <1>2, <2>1, <3>2, TableTypes, SMTT(30) DEF BufferOk
      <3>7. Contiguous(entry[id].buf, entry[id].sent, pushed)'
        BY <1>1, <3>1, <3>3, <3>4
      <3>8. Buffered(c).buf \in Seq(Record)
        BY <3>3 DEF Contiguous
      <3> HIDE DEF c
      <3>9. BufferOk(id)'
        BY <1>1, <3>1, <3>3, <3>4, <3>5, <3>6, <3>7, <3>8 DEF BufferOk
      <3> QED BY <2>2, <3>1, <3>3, <3>4, <3>9 DEF c
    <2>3. CASE ~Known(id)
      <3>1. entry'[id] = entry[id]
        BY <1>1, <2>3 DEF Known
      <3> QED BY <1>1, <1>3, <2>1, <2>3, <3>1 DEF BufferOk
    <2> QED BY <2>2, <2>3
  <1> QED BY <1>3, <1>4 DEF BuffersOk

\* Only the window's connection can take the event. A slow one is lost, and
\* nothing is sent on it.
LEMMA PushOnLines ==
  ASSUME WInv, Push
  PROVE  /\ faults' \in 0 .. MaxFaults /\ link' \in [Socket -> {"up", "cut"}]
         /\ down' \in [Socket -> Seq(Message)]
         /\ \A s \in Socket : s # cli.ws => link'[s] = link[s] /\ down'[s] = down[s]
         /\ cli.ws # None =>
              \/ link'[cli.ws] = "cut" /\ down'[cli.ws] = down[cli.ws]
              \/ /\ link'[cli.ws] = "up" /\ link[cli.ws] = "up"
                 /\ served[cli.ws] # "live" /\ down'[cli.ws] = down[cli.ws]
              \/ /\ link'[cli.ws] = "up" /\ link[cli.ws] = "up"
                 /\ \E e \in Message :
                      /\ e.type = "event" /\ e.ev = pushed + 1
                      /\ e.seq = entry[owner[cli.ws]].sent + 1
                      /\ Known(owner[cli.ws])
                      /\ down'[cli.ws] = Append(down[cli.ws], e)
  <1> DEFINE open == {entry[id].sock : id \in clients}
             takers == {s \in open : link[s] = "up"}
             sentOn(s) == CHOOSE id \in clients : entry[id].sock = s
             event(s) == [type |-> "event", ev |-> pushed + 1, seq |-> entry[sentOn(s)].sent + 1]
  <1>1. IInv /\ Tables
    BY DEF WInv
  <1>2. PICK slow \in SUBSET takers :
          /\ faults + Cardinality(slow) <= MaxFaults
          /\ faults' = faults + Cardinality(slow)
          /\ link' = [s \in Socket |-> IF s \in slow THEN "cut" ELSE link[s]]
          /\ down' = [s \in Socket |-> IF s \in takers \ slow THEN Append(down[s], event(s))
                                       ELSE down[s]]
    BY DEF Push
  <1>3. pushed < MaxPush
    BY DEF Push
  <1>4. ASSUME NEW s \in takers
        PROVE  /\ s = cli.ws /\ s \in Socket /\ served[s] = "live" /\ link[s] = "up"
               /\ sentOn(s) = owner[s] /\ Known(owner[s]) /\ event(s) \in Message
    <2>1. PICK id \in clients : entry[id].sock = s
      OBVIOUS
    <2>2. /\ id \in Socket /\ s \in Socket /\ served[s] = "live" /\ owner[s] = id
          /\ link[s] = "up"
      BY <1>1, <2>1 DEF IInv, HomeType, OneHome
    <2>3. s <= opened
      BY <1>1, <2>2, TableTypes DEF IInv, NewIsUnknown
    <2>4. s = cli.ws
      BY <1>1, <2>2, <2>3 DEF Tables, LinesOk
    <2>5. \A c \in clients : entry[c].sock = s => c = id
      BY <1>1, <2>2 DEF IInv, OneHome
    <2>6. sentOn(s) = id
      BY <2>1, <2>5
    <2>7. Known(id) /\ BufferOk(id)
      BY <1>1, <2>1, <2>2 DEF Known, Tables, BuffersOk
    <2>8. pushed + 1 \in 1 .. MaxPush /\ entry[id].sent + 1 \in 1 .. MaxPush
      <3>1. entry[id].sent <= pushed
        BY <2>7 DEF BufferOk
      <3>2. pushed \in Nat /\ MaxPush \in Nat /\ entry[id].sent \in Nat
        BY <1>1, <2>2, TableTypes
      <3> QED BY <1>3, <3>1, <3>2
    <2>9. event(s) \in Message
      BY <2>6, <2>8 DEF Message
    <2> QED BY <2>2, <2>4, <2>6, <2>7, <2>9
  <1>5. ASSUME cli.ws # None, link[cli.ws] = "up", served[cli.ws] = "live"
        PROVE  cli.ws \in takers
    <2>1. cli.ws \in Socket
      BY <1>1, <1>5, TableTypes
    <2>2. owner[cli.ws] \in clients /\ entry[owner[cli.ws]].sock = cli.ws
      BY <1>1, <1>5, <2>1 DEF IInv, OneHome
    <2> QED BY <1>5, <2>2
  <1> HIDE DEF takers
  <1>6. Cardinality(slow) \in Nat
    <2>1. slow \subseteq {cli.ws}
      BY <1>2, <1>4
    <2> QED BY <2>1, FS_Singleton, FS_Subset, FS_CardinalityType
  <1>7. faults' \in 0 .. MaxFaults
    BY <1>1, <1>2, <1>6, TableTypes
  <1>8. link' \in [Socket -> {"up", "cut"}]
    BY <1>1, <1>2 DEF Tables, WindowType
  <1>9. down' \in [Socket -> Seq(Message)]
    <2>1. ASSUME NEW s \in Socket
          PROVE  (IF s \in takers \ slow THEN Append(down[s], event(s)) ELSE down[s]) \in Seq(Message)
      <3>1. down[s] \in Seq(Message)
        BY <1>1, TableTypes
      <3>2. ASSUME s \in takers \ slow
            PROVE  Append(down[s], event(s)) \in Seq(Message)
        <4>1. event(s) \in Message
          BY <1>4, <3>2
        <4> HIDE DEF event
        <4> QED BY <3>1, <4>1
      <3> QED BY <3>1, <3>2
    <2> HIDE DEF event
    <2> QED BY <1>2, <2>1
  <1>10. \A s \in Socket : s # cli.ws => link'[s] = link[s] /\ down'[s] = down[s]
    BY <1>2, <1>4
  <1>11. ASSUME cli.ws # None
         PROVE  \/ link'[cli.ws] = "cut" /\ down'[cli.ws] = down[cli.ws]
                \/ /\ link'[cli.ws] = "up" /\ link[cli.ws] = "up"
                   /\ served[cli.ws] # "live" /\ down'[cli.ws] = down[cli.ws]
                \/ /\ link'[cli.ws] = "up" /\ link[cli.ws] = "up"
                   /\ \E e \in Message :
                        /\ e.type = "event" /\ e.ev = pushed + 1
                        /\ e.seq = entry[owner[cli.ws]].sent + 1
                        /\ Known(owner[cli.ws])
                        /\ down'[cli.ws] = Append(down[cli.ws], e)
    <2> DEFINE s == cli.ws
    <2>1. s \in Socket /\ link[s] \in {"up", "cut"}
      BY <1>1, <1>11, TableTypes DEF Tables, WindowType
    <2>2. CASE s \notin takers
      <3>1. link'[s] = link[s] /\ down'[s] = down[s]
        BY <1>2, <2>1, <2>2
      <3>2. link[s] = "up" => served[s] # "live"
        BY <1>5, <1>11, <2>2
      <3> QED BY <2>1, <3>1, <3>2
    <2>3. CASE s \in slow
      <3>1. link'[s] = "cut" /\ down'[s] = down[s]
        BY <1>2, <2>1, <2>3
      <3> QED BY <3>1
    <2>4. CASE s \in takers \ slow
      <3>1. link'[s] = link[s] /\ down'[s] = Append(down[s], event(s))
        BY <1>2, <2>1, <2>4
      <3>2. /\ link[s] = "up" /\ event(s) \in Message /\ Known(owner[s])
            /\ sentOn(s) = owner[s]
        BY <1>4, <2>4
      <3>3. /\ event(s).type = "event" /\ event(s).ev = pushed + 1
            /\ event(s).seq = entry[owner[s]].sent + 1
        BY <3>2
      <3> HIDE DEF event
      <3> QED BY <3>1, <3>2, <3>3
    <2> QED BY <2>2, <2>3, <2>4
  <1> QED BY <1>7, <1>8, <1>9, <1>10, <1>11

\* A number and its event grow together, whatever leaves the buffer.
LEMMA NextOffset ==
  ASSUME NEW a \in Nat, NEW b \in Nat
  PROVE  (a + 1) - (b + 1) = a - b
  OBVIOUS

LEMMA NextOffsetOrGone ==
  ASSUME NEW a \in Nat, NEW b \in Nat, NEW c \in Nat, NEW d \in Nat, d <= c + 1,
         NEW seq \in Nat, NEW ev \in Nat, ev - seq = a - b \/ seq < b - c
  PROVE  ev - seq = (a + 1) - (b + 1) \/ seq < (b + 1) - d
  OBVIOUS

\* What a connection carries after the push, read from its first k messages on.
LEMMA PushedServes ==
  ASSUME WInv, Push, cli.ws # None, NEW q \in Seq(Message), NEW t \in Seq(Message),
         NEW from \in Nat, NEW id \in Socket, Serves(q, from, id),
         \/ t = q /\ (link'[cli.ws] = "cut" \/ served[cli.ws] # "live")
         \/ /\ link[cli.ws] = "up"
            /\ \E e \in Message :
                 /\ e.type = "event" /\ e.ev = pushed + 1
                 /\ e.seq = entry[owner[cli.ws]].sent + 1
                 /\ Known(owner[cli.ws]) /\ t = Append(q, e),
         link'[cli.ws] = "up" => link[cli.ws] = "up"
  PROVE  Serves(t, from, id)'
  <1>1. IInv /\ Tables
    BY DEF WInv
  <1>2. /\ pushed' = pushed + 1 /\ UNCHANGED <<served, owner, cli>>
        /\ pushed \in Nat /\ entry[id].sent \in Nat
    BY <1>1, TableTypes DEF Push
  <1>3. Known(id)' => Known(id) /\ entry'[id].sent = entry[id].sent + 1
    BY PushOnBuffers
  <1>4. /\ Len(q) \in Nat /\ from + Len(q) <= pushed
        /\ link[cli.ws] = "up" => /\ served[cli.ws] = "live" /\ owner[cli.ws] = id
                                  /\ from + Len(q) = pushed
    BY DEF Serves
  <1>5. ASSUME NEW i \in 1 .. Len(q)
        PROVE  /\ q[i].type = "event" /\ q[i].ev = from + i
               /\ Known(id) => q[i].ev - q[i].seq = pushed - entry[id].sent
    BY DEF Serves
  <1>6. ASSUME NEW i \in 1 .. Len(q), Known(id)'
        PROVE  q[i].ev - q[i].seq = pushed' - entry'[id].sent
    <2>1. pushed' - entry'[id].sent = pushed - entry[id].sent
      <3>1. pushed' = pushed + 1 /\ entry'[id].sent = entry[id].sent + 1
        BY <1>2, <1>3, <1>6
      <3>2. pushed \in Nat /\ entry[id].sent \in Nat
        BY <1>2
      <3> QED BY <3>1, <3>2, NextOffset
    <2>2. q[i].ev - q[i].seq = pushed - entry[id].sent
      BY <1>3, <1>5, <1>6
    <2> QED BY <2>1, <2>2
  <1>7. CASE t = q /\ (link'[cli.ws] = "cut" \/ served[cli.ws] # "live")
    <2>1. link'[cli.ws] # "up"
      BY <1>4, <1>7
    <2>2. from + Len(q) <= pushed + 1
      BY <1>2, <1>4
    <2> QED BY <1>2, <1>3, <1>5, <1>6, <1>7, <2>1, <2>2 DEF Serves
  <1>8. ASSUME link[cli.ws] = "up", NEW e \in Message,
               e.type = "event", e.ev = pushed + 1,
               e.seq = entry[owner[cli.ws]].sent + 1, Known(owner[cli.ws]), t = Append(q, e)
        PROVE  Serves(t, from, id)'
    <2>1. /\ Len(t) = Len(q) + 1 /\ Len(t) \in Nat
          /\ \A i \in 1 .. Len(q) : t[i] = q[i]
          /\ t[Len(q) + 1] = e
      BY <1>8
    <2>2. from + Len(t) = pushed + 1 /\ owner[cli.ws] = id /\ served[cli.ws] = "live"
      BY <1>2, <1>4, <1>8, <2>1
    <2>3. ASSUME NEW i \in 1 .. Len(t)
          PROVE  /\ t[i].type = "event" /\ t[i].ev = from + i
                 /\ Known(id)' => t[i].ev - t[i].seq = pushed' - entry'[id].sent
      <3>1. CASE i = Len(q) + 1
        <4>1. t[i] = e /\ from + i = pushed + 1
          BY <2>1, <2>2, <3>1
        <4> QED BY <1>2, <1>3, <1>8, <2>2, <4>1
      <3>2. CASE i # Len(q) + 1
        <4>1. i \in 1 .. Len(q) /\ t[i] = q[i]
          BY <1>4, <2>1, <3>2
        <4> QED BY <1>2, <1>3, <1>5, <1>6, <4>1
      <3> QED BY <3>1, <3>2
    <2> QED BY <1>2, <2>2, <2>3 DEF Serves
  <1> QED BY <1>7, <1>8

LEMMA PushStepW == ASSUME WInv, IInv', Push PROVE WInv'
  <1>1. /\ pushed' = pushed + 1 /\ pushed < MaxPush
        /\ UNCHANGED <<expired, clients, retained, owner, served, opened, hello, acking,
                       cli, seen, told>>
    BY DEF Push, ghost
  <1>2. IInv /\ Tables /\ WindowOk /\ LineOk /\ PositionOk
    BY DEF WInv, Window
  <1>3. /\ \A id : Known(id)' <=> Known(id)
        /\ \A id \in Socket : Known(id) => /\ entry'[id].sent = entry[id].sent + 1
                                           /\ Len(entry'[id].buf) <= Len(entry[id].buf) + 1
                                           /\ Len(entry'[id].buf) \in Nat
        /\ BuffersOk'
    BY PushOnBuffers DEF Contiguous
  <1>4. /\ faults' \in 0 .. MaxFaults /\ link' \in [Socket -> {"up", "cut"}]
        /\ down' \in [Socket -> Seq(Message)]
        /\ \A s \in Socket : s # cli.ws => link'[s] = link[s] /\ down'[s] = down[s]
    BY PushOnLines
  <1>5. ASSUME cli.ws # None
        PROVE  /\ link'[cli.ws] = "up" => link[cli.ws] = "up"
               /\ \/ Line' = Line /\ (link'[cli.ws] = "cut" \/ served[cli.ws] # "live")
                  \/ /\ link[cli.ws] = "up"
                     /\ \E e \in Message :
                          /\ e.type = "event" /\ e.ev = pushed + 1
                          /\ e.seq = entry[owner[cli.ws]].sent + 1
                          /\ Known(owner[cli.ws]) /\ Line' = Append(Line, e)
    <2>1. cli' = cli
      BY <1>1
    <2> QED BY <1>5, <2>1, PushOnLines DEF Line
  <1>6. WindowType' /\ LinesOk'
    <2>1. pushed' \in 0 .. MaxPush /\ expired' \in 0 .. pushed' /\ seen' \in 0 .. pushed'
      BY <1>1, <1>2, TableTypes DEF Tables, WindowType
    <2>2. WindowType'
      BY <1>1, <1>2, <1>4, <2>1 DEF Tables, WindowType
    <2>3. LinesOk'
      <3>1. \A s \in Socket : link'[s] = "up" => link[s] = "up"
        BY <1>4, <1>5, <1>2, TableTypes
      <3>2. \A s \in Socket : s > opened => s # cli.ws
        BY <1>2, TableTypes DEF Tables, LinesOk
      <3>3. cli' = cli /\ opened' = opened /\ LinesOk
        BY <1>1, <1>2 DEF Tables
      <3> QED BY <1>4, <3>1, <3>2, <3>3 DEF LinesOk
    <2> QED BY <2>2, <2>3
  <1>7. ASSUME NEW id \in Socket, NEW seq \in Nat, NEW ev \in Nat, Follows(id, seq, ev)
        PROVE  Follows(id, seq, ev)'
    <2>1. SUFFICES ASSUME Known(id)
                   PROVE  \/ ev - seq = pushed' - entry'[id].sent
                          \/ seq < entry'[id].sent - Len(entry'[id].buf)
      BY <1>3 DEF Follows
    <2>2. \/ ev - seq = pushed - entry[id].sent
          \/ seq < entry[id].sent - Len(entry[id].buf)
      BY <1>7, <2>1 DEF Follows
    <2>3. /\ pushed' = pushed + 1 /\ entry'[id].sent = entry[id].sent + 1
          /\ Len(entry'[id].buf) <= Len(entry[id].buf) + 1 /\ Len(entry'[id].buf) \in Nat
      BY <1>1, <1>3, <2>1
    <2>4. pushed \in Nat /\ entry[id].sent \in Nat /\ Len(entry[id].buf) \in Nat
      BY <1>2, TableTypes
    <2>5. \/ ev - seq = (pushed + 1) - (entry[id].sent + 1)
          \/ seq < (entry[id].sent + 1) - Len(entry'[id].buf)
      <3>1. PICK a \in Nat, b \in Nat, c \in Nat, d \in Nat :
              /\ a = pushed /\ b = entry[id].sent /\ c = Len(entry[id].buf)
              /\ d = Len(entry'[id].buf)
        BY <2>3, <2>4
      <3>2. d <= c + 1 /\ (ev - seq = a - b \/ seq < b - c)
        BY <2>2, <2>3, <3>1
      <3>3. ev - seq = (a + 1) - (b + 1) \/ seq < (b + 1) - d
        BY <3>2, NextOffsetOrGone
      <3> QED BY <3>1, <3>3
    <2> QED BY <2>3, <2>5
  <1>8. WindowOk'
    BY <1>1, <1>2 DEF WindowOk
  <1>9. LineOk'
    <2>1. CASE Greeted
      <3>1. /\ cli.ws # None /\ cli.ws \in Socket /\ cli.id \in Socket /\ seen \in Nat
            /\ Line \in Seq(Message) /\ Serves(Line, seen, cli.id)
        BY <1>2, <2>1, TableTypes DEF Greeted, WindowOk, LineOk, Line
      <3>2. PICK t \in Seq(Message) : t = Line'
        BY <1>1, <1>4, <3>1 DEF Line
      <3>3. Serves(t, seen, cli.id)'
        BY <1>1, <1>5, <3>1, <3>2, PushedServes
      <3>4. Serves(Line, seen, cli.id)' /\ Greeted' /\ ~Greeting'
        BY <1>1, <2>1, <3>2, <3>3 DEF Greeted, Greeting, Serves
      <3> QED BY <3>4 DEF LineOk
    <2>2. CASE Greeting
      <3> DEFINE m == Head(Line)
      <3>1. /\ cli.ws # None /\ Line # <<>> /\ cli.id = None
            /\ AckOk(m) /\ Serves(Tail(Line), Base(m), m.id)
        BY <1>2, <2>2 DEF LineOk, Greeting
      <3>2. /\ cli.ws \in Socket /\ Line \in Seq(Message) /\ Tail(Line) \in Seq(Message)
            /\ m \in Message
        BY <1>2, <3>1, LineEffect
      <3>3. PICK l \in Seq(Message) : l = Line'
        BY <1>1, <1>4, <3>2 DEF Line
      <3>4. PICK k \in Message : k = m
        BY <3>2
      <3>5. PICK q \in Seq(Message) : q = Line
        BY <3>2
      <3>6. PICK b \in Nat : b = Base(m)
        BY <1>2, <3>1, TableTypes DEF Base, AckOk
      <3>7. /\ k.id \in Socket /\ k.type = "handshake_ack" /\ k.covers \in seen .. pushed
            /\ k.reconnected \in BOOLEAN /\ k.stale \in BOOLEAN
            /\ k.reconnected => cli.pending # None /\ k.id = cli.pending.id
            /\ served[k.id] \in {"live", "closed"}
            /\ Follows(k.id, IF k.reconnected THEN cli.lastSeen ELSE 0, b)
        BY <3>1, <3>4, <3>6 DEF AckOk
      <3>8. Base(k)' = b
        BY <1>1, <3>4, <3>6 DEF Base
      <3>9. /\ l # <<>> /\ Head(l) = k
            /\ \/ Tail(l) = Tail(q) /\ (link'[cli.ws] = "cut" \/ served[cli.ws] # "live")
               \/ /\ link[cli.ws] = "up"
                  /\ \E e \in Message :
                       /\ e.type = "event" /\ e.ev = pushed + 1
                       /\ e.seq = entry[owner[cli.ws]].sent + 1
                       /\ Known(owner[cli.ws]) /\ Tail(l) = Append(Tail(q), e)
        <4>1. CASE l = q /\ (link'[cli.ws] = "cut" \/ served[cli.ws] # "live")
          BY <3>1, <3>4, <3>5, <4>1
        <4>2. ASSUME link[cli.ws] = "up", NEW e \in Message, l = Append(q, e)
              PROVE  l # <<>> /\ Head(l) = Head(q) /\ Tail(l) = Append(Tail(q), e)
          <5>1. q # <<>> /\ Len(q) \in Nat \ {0}
            BY <3>1, <3>5
          <5>2. /\ Len(l) = Len(q) + 1 /\ l[1] = q[1]
                /\ \A i \in 1 .. Len(q) : l[i] = q[i]
                /\ l[Len(q) + 1] = e
            BY <4>2, <5>1
          <5>3. l # <<>> /\ Head(l) = Head(q)
            BY <5>1, <5>2
          <5>4. Tail(l) = Append(Tail(q), e)
            <6> DEFINE a == Tail(l)
                       c == Append(Tail(q), e)
            <6>1. /\ a \in Seq(Message) /\ Len(a) = Len(l) - 1
                  /\ \A i \in 1 .. Len(l) - 1 : a[i] = l[i + 1]
              BY <5>3
            <6>2. /\ Tail(q) \in Seq(Message) /\ Len(Tail(q)) = Len(q) - 1
                  /\ \A i \in 1 .. Len(q) - 1 : Tail(q)[i] = q[i + 1]
              BY <5>1
            <6>3. /\ c \in Seq(Message) /\ Len(c) = Len(q)
                  /\ \A i \in 1 .. Len(q) - 1 : c[i] = Tail(q)[i]
                  /\ c[Len(q)] = e
              BY <5>1, <6>2
            <6> HIDE DEF a, c
            <6>4. ASSUME NEW i \in 1 .. Len(a) PROVE a[i] = c[i]
              <7>1. a[i] = l[i + 1] /\ Len(a) = Len(q)
                BY <5>1, <5>2, <6>1
              <7>2. CASE i = Len(q)
                BY <5>2, <6>3, <7>1, <7>2
              <7>3. CASE i # Len(q)
                <8>1. i \in 1 .. Len(q) - 1 /\ i + 1 \in 1 .. Len(q)
                  BY <5>1, <7>1, <7>3
                <8> QED BY <5>2, <6>2, <6>3, <7>1, <8>1
              <7> QED BY <7>2, <7>3
            <6>5. Len(a) = Len(c)
              BY <5>1, <5>2, <6>1, <6>3
            <6>6. a = c
              BY <6>1, <6>3, <6>4, <6>5, SeqEqual
            <6> QED BY <6>6 DEF a, c
          <5> QED BY <5>3, <5>4
        <4> QED BY <1>5, <3>1, <3>3, <3>4, <3>5, <4>1, <4>2
      <3>10. Serves(Tail(l), b, k.id)'
        <4>1. Serves(Tail(q), b, k.id)
          BY <3>1, <3>4, <3>5, <3>6
        <4>2. Tail(q) \in Seq(Message) /\ Tail(l) \in Seq(Message)
          BY <3>2, <3>5, <3>9
        <4> QED BY <1>5, <3>1, <3>7, <3>9, <4>1, <4>2, PushedServes
      <3>11. AckOk(k)'
        <4>1. (IF k.reconnected THEN cli.lastSeen ELSE 0) \in Nat
          BY <1>2, TableTypes
        <4>2. PICK n \in Nat : n = IF k.reconnected THEN cli.lastSeen ELSE 0
          BY <4>1
        <4>3. Follows(k.id, n, b)'
          BY <1>7, <3>7, <4>2
        <4>4. k.covers \in seen' .. pushed'
          BY <1>1, <1>2, <3>7, TableTypes, SMTT(30)
        <4>5. Follows(k.id, IF k.reconnected THEN cli.lastSeen ELSE 0, Base(k))'
          BY <1>1, <3>8, <4>2, <4>3
        <4> QED BY <1>1, <3>7, <4>4, <4>5 DEF AckOk
      <3>12. Head(Line)' = k /\ Tail(Line)' = Tail(l) /\ Line' # <<>>
        BY <3>3, <3>9
      <3>13. /\ AckOk(Head(Line))'
             /\ Serves(Tail(Line), Base(Head(Line)), Head(Line).id)'
        BY <3>8, <3>10, <3>11, <3>12
      <3>14. ~Greeted' /\ Greeting'
        BY <1>1, <3>1, <3>12 DEF Greeted, Greeting
      <3> QED BY <3>13, <3>14 DEF LineOk
    <2>3. CASE ~Greeted /\ ~Greeting
      <3>1. SUFFICES ASSUME cli.ws # None
                     PROVE  /\ ~Greeted' /\ ~Greeting'
                            /\ link'[cli.ws] = "up" => served'[cli.ws] = "handshake"
        BY <1>1, <2>3 DEF LineOk, Greeted, Greeting
      <3>2. Line = <<>> /\ (link[cli.ws] = "up" => served[cli.ws] = "handshake")
        BY <1>2, <2>3, <3>1 DEF LineOk, Greeted, Greeting
      <3>3. Line' = <<>>
        <4>1. ASSUME link[cli.ws] = "up", Known(owner[cli.ws]) PROVE FALSE
          <5>1. owner[cli.ws] = None /\ cli.ws \in Socket
            BY <1>2, <3>1, <3>2, <4>1, TableTypes DEF IInv, NewIsUnknown
          <5>2. ~Known(None)
            BY <1>2, TableTypes DEF Known, IsRetained, IInv, HomeType
          <5> QED BY <4>1, <5>1, <5>2
        <4> QED BY <1>5, <3>1, <3>2, <4>1
      <3> QED BY <1>1, <1>5, <2>3, <3>1, <3>2, <3>3 DEF Greeted, Greeting
    <2> QED BY <2>1, <2>2, <2>3
  <1>10. PositionOk'
    <2>1. ASSUME cli.id # None PROVE Follows(cli.id, cli.lastSeen, seen)'
      <3>1. PICK id \in Socket, n \in Nat, e \in Nat :
              id = cli.id /\ n = cli.lastSeen /\ e = seen /\ Follows(id, n, e)
        BY <1>2, <2>1, TableTypes DEF PositionOk
      <3> QED BY <1>1, <1>7, <3>1
    <2>2. ASSUME cli.pending # None
          PROVE  Follows(cli.pending.id, cli.pending.seq, seen)'
      <3>1. PICK id \in Socket, n \in Nat, e \in Nat :
              id = cli.pending.id /\ n = cli.pending.seq /\ e = seen /\ Follows(id, n, e)
        BY <1>2, <2>2, TableTypes DEF PositionOk, Position
      <3> QED BY <1>1, <1>7, <3>1
    <2> QED BY <1>1, <2>1, <2>2 DEF PositionOk
  <1> QED BY <1>3, <1>6, <1>8, <1>9, <1>10 DEF WInv, Tables, Window

-----------------------------------------------------------------------------
(* The invariant, and what it shows.                                       *)

LEMMA WInvIsInductive == WInv /\ [Next]_vars => WInv'
  <1> SUFFICES ASSUME WInv, [Next]_vars PROVE WInv'
    OBVIOUS
  <1>1. IInv'
    BY IInvIsInductive DEF WInv
  <1>2. CASE Time
    BY <1>1, <1>2, TimeStepW
  <1>3. CASE Push
    BY <1>1, <1>3, PushStepW
  <1>4. CASE Connect
    BY <1>1, <1>4, ConnectStepW
  <1>5. CASE OnMessage
    BY <1>1, <1>5, EventStepW, AckStepW
  <1>6. CASE SendAck
    BY <1>1, <1>6, SendAckStepW
  <1>7. CASE OnDisconnect
    BY <1>1, <1>7, OnDisconnectStepW
  <1>8. CASE Restart
    BY <1>1, <1>8, RestartStepW
  <1>9. ASSUME NEW s \in Socket, Handshake(s) PROVE WInv'
    BY <1>1, <1>9, AdmitStepW, ResumeStepW DEF Handshake
  <1>10. ASSUME NEW s \in Socket, SequenceAck(s) \/ Cut(s) \/ OnClose(s) \/ Forget(s)
         PROVE  WInv'
    BY <1>1, <1>10, SequenceAckStepW, CutStepW, OnCloseStepW, ForgetStepW
  <1>11. CASE UNCHANGED vars
    <2>1. /\ UNCHANGED <<pushed, expired, clients, retained, entry, owner, served, opened,
                         link, hello, down, acking, cli, faults, seen, told>>
      BY <1>11 DEF vars, server, net, ghost
    <2>2. IInv /\ Tables
      BY DEF WInv
    <2>3. BuffersOk' /\ \A id \in Socket : Known(id)' => Known(id)
      BY <2>1, TablesKept
    <2>4. WindowType' /\ LinesOk'
      BY <2>1, <2>2 DEF Tables, WindowType, LinesOk
    <2>5. Tables'
      BY <2>3, <2>4 DEF Tables
    <2>6. \A id \in Socket : Len(entry'[id].buf) <= Len(entry[id].buf)
      BY <2>1, <2>2, TableTypes
    <2> QED BY <1>1, <2>1, <2>3, <2>5, <2>6, ServerStep DEF WInv
  <1> QED BY <1>2, <1>3, <1>4, <1>5, <1>6, <1>7, <1>8, <1>9, <1>10, <1>11 DEF Next

THEOREM WindowInvariant == Spec => []WInv
  BY InitWInv, WInvIsInductive, PTL DEF Spec

\* Every variable of the transport has its type, no buffer outgrows
\* EVENT_BUFFER_MAX_SIZE, no more clients are kept than the server keeps and a
\* window accounts for no event that was not pushed, for any number of events,
\* connections and clients.
THEOREM TransportTypeOK == Spec => []TypeOK
  <1>1. WInv => TypeOK
    <2> SUFFICES ASSUME WInv PROVE TypeOK
      OBVIOUS
    <2>1. IInv /\ WindowType /\ BuffersOk
      BY DEF WInv, Tables
    <2>2. ASSUME NEW id \in Socket
          PROVE  /\ entry[id].sock \in Socket /\ entry[id].sent \in 0 .. MaxPush
                 /\ entry[id].buf \in Seq(Record) /\ Len(entry[id].buf) <= BufferMax
      BY <2>1 DEF IInv, HomeType, BuffersOk, BufferOk
    <2>3. cli.ws \in Socket \cup {None} /\ cli.id \in Socket \cup {None}
      BY <2>1 DEF WindowType
    <2> QED BY <2>1, <2>2, <2>3 DEF TypeOK, IInv, HomeType, WindowType
  <1> QED BY <1>1, WindowInvariant, PTL

\* A window that reconnects is given the events it missed, in order and once,
\* or is told to reload, whatever was lost, evicted, forgotten or answered late
\* on the way: every step of the transport is a step of the channel it
\* promises, or leaves the channel as it is.
THEOREM TransportImplementsPushChannel == Spec => ImplementsPushChannel
  <1>1. Init => Channel!Init
    BY DEF Init, Channel!Init
  <1>2. WInv /\ WInv' /\ [Next]_vars => [Channel!Next]_(Channel!vars)
    <2> SUFFICES ASSUME WInv, WInv', [Next]_vars
                 PROVE  [Channel!Next]_(Channel!vars)
      OBVIOUS
    <2> DEFINE Kept == UNCHANGED <<pushed, seen, told>>
    <2>1. CASE Push
      BY <2>1 DEF Push, ghost, Channel!Push, Channel!Next
    <2>2. CASE OnMessage
      <3>1. IInv'
        BY DEF WInv
      <3>2. CASE Head(Line).type = "event"
        BY <2>2, <3>1, <3>2, EventStepW DEF Channel!Deliver, Channel!Next
      <3>3. CASE Head(Line).type # "event"
        BY <2>2, <3>1, <3>3, AckStepW DEF Channel!Reload, Channel!Next, Channel!vars
      <3> QED BY <3>2, <3>3
    <2>3. CASE Time \/ Connect \/ SendAck \/ OnDisconnect \/ Restart
      BY <2>3 DEF Time, Connect, SendAck, OnDisconnect, Restart, ghost, Channel!vars
    <2>4. ASSUME NEW s \in Socket,
                 Handshake(s) \/ SequenceAck(s) \/ Cut(s) \/ OnClose(s) \/ Forget(s)
          PROVE  UNCHANGED Channel!vars
      BY <2>4 DEF Handshake, SequenceAck, Cut, OnClose, Forget, ghost, Channel!vars
    <2>5. CASE UNCHANGED vars
      BY <2>5 DEF vars, ghost, Channel!vars
    <2> QED BY <2>1, <2>2, <2>3, <2>4, <2>5 DEF Next
  <1> QED BY <1>1, <1>2, WindowInvariant, PTL DEF Spec, ImplementsPushChannel, Channel!Spec
=============================================================================
