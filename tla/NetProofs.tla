------------------------------- MODULE NetProofs -------------------------------
(***************************************************************************)
(* The TLS and HTTP server keeps its connections apart, for every order of *)
(* callbacks and turns and every size of a request; the setup server keeps *)
(* setups apart, undoes its trials and commits what was answered.          *)
(*                                                                         *)
(* The server. A generation is used once (Unfinished, Known): what was     *)
(* done under it was done for its own handler. Of a response that is       *)
(* written, the count of unacknowledged units points at its last unit      *)
(* (Connection), so none is applied before that one is acknowledged. The   *)
(* slot reserved for the pending socket stays free, with its bytes only    *)
(* (Waiting).                                                              *)
(*                                                                         *)
(* The setup server. A trial that is past its answer had it delivered      *)
(* (Heard), what a trial keeps is its own (Undone), and a reply that says  *)
(* a result says the one that waits (Told).                                *)
(***************************************************************************)
EXTENDS MCNet, SequenceTheorems, TLAPS

ConnectionFields ==
    {"client", "generation", "rx", "flight", "remaining", "size", "offset", "keep", "principal",
     "handshake", "wtp", "gone", "responded", "notify", "failed", "softap", "plain", "endpoint"}

\* One connection: a slot without a generation has nothing of a client, and when the response is
\* written its last unit is where the count of unacknowledged units says.
Connection(k, heard) ==
    /\ DOMAIN k = ConnectionFields
    /\ k.client \in Nat /\ k.generation \in Nat /\ k.rx \in Nat /\ k.flight \in Seq(Nat)
    /\ k.remaining \in Nat \cup {-1} /\ k.softap \in BOOLEAN
    /\ k.gone \in BOOLEAN /\ k.endpoint \in BOOLEAN /\ k.wtp \in BOOLEAN /\ k.handshake \in BOOLEAN
    /\ k.generation = 0 => k.client = 0 /\ ~k.gone /\ ~k.endpoint /\ k.remaining = -1
    /\ k.endpoint => k.wtp /\ k.handshake
    /\ k.remaining > 0 => k.remaining <= Len(k.flight) /\ k.flight[k.remaining] = k.generation
    /\ k.remaining = 0 => k.generation \in heard

\* The two connections have generations of their own.
Connections(x, k, heard) ==
    /\ DOMAIN k = Serve!Slots
    /\ \A i \in Serve!Slots : Connection(k[i], heard) /\ k[i].generation <= x.generation
    /\ k[1].generation = k[2].generation => k[1].generation = 0

ViewFields ==
    {"mode", "tls", "plain", "open", "pending", "generation", "turn", "todo", "sta", "ap"}

\* What the server knows beside its connections.
View(x) ==
    /\ DOMAIN x = ViewFields
    /\ x.generation \in Nat /\ x.turn \in {1, 2} /\ x.todo \in Seq({1, 2}) /\ x.open \in BOOLEAN
    /\ x.pending \in [pcb : Nat, slot : {0, 1, 2}, softap : BOOLEAN, plain : BOOLEAN]

\* The history: who asked, and whose action was carried out, by whom and whether it was applied.
Handlers == {"softap", "api"}

Books(y) ==
    /\ DOMAIN y = {"load", "sockets", "calls", "asked", "answered", "done", "twice"}
    /\ y.sockets \in Nat
    /\ y.asked \subseteq Nat \X Handlers /\ y.done \subseteq Nat \X Handlers \X BOOLEAN
    /\ y.answered \subseteq Nat /\ y.twice \in BOOLEAN
    /\ ~y.twice
    /\ \A o \in y.done : o[3] => o[1] \in y.answered
    /\ \A o \in y.done, a \in y.asked : o[1] = a[1] => o[2] = a[2]

\* A generation in use is not done yet, and was asked only of its own handler; no later one
\* is known.
Unfinished(q, y) ==
    q.generation # 0 =>
        /\ \A o \in y.done : o[1] # q.generation
        /\ \A a \in y.asked : a[1] = q.generation => a[2] = Serve!Handler(q)

Live(k, y) == \A i \in Serve!Slots : Unfinished(k[i], y)

Known(x, y) ==
    /\ \A o \in y.done : o[1] <= x.generation
    /\ \A a \in y.asked : a[1] <= x.generation

\* The slot reserved for the pending socket is free, and bytes belong to the socket that waits for
\* or owns the slot.
Waiting(x, k) ==
    /\ x.pending.pcb = 0 => x.pending.slot = 0
    /\ x.pending.slot # 0 => Serve!Free(k[x.pending.slot])
    /\ \A i \in Serve!Slots : k[i].rx # 0 =>
          \/ k[i].rx = k[i].client \/ k[i].gone
          \/ x.pending.slot = i /\ k[i].rx = x.pending.pcb

\* Admission that is closed has ended everything.
Shut(x, k) ==
    x.open \/ (x.pending.pcb = 0 /\ \A i \in Serve!Slots : k[i].client = 0 /\ ~k[i].endpoint)

Alone(k) ==
    \A i, j \in Serve!Slots : k[i].client # 0 /\ k[i].endpoint /\ k[j].client # 0 /\ k[j].endpoint => i = j

ServerGood(x, k, y) ==
    /\ View(x) /\ Connections(x, k, y.answered) /\ Books(y) /\ Live(k, y) /\ Known(x, y)
    /\ Waiting(x, k) /\ Shut(x, k) /\ Alone(k)

\* The slots are two.
LEMMA TwoSlots == Serve!Slots = {1, 2} /\ \A i \in Serve!Slots : 3 - i \in Serve!Slots /\ 3 - i # i
  BY DEF Serve!Slots

\* A connection after close().
LEMMA IdleGood ==
    ASSUME NEW heard
    PROVE  /\ Connection(Serve!Idle, heard) /\ Serve!Idle.generation = 0 /\ Serve!Idle.client = 0
           /\ Serve!Idle.rx = 0 /\ ~Serve!Idle.endpoint /\ Serve!Free(Serve!Idle) /\ ~Serve!Idle.softap
  <1>1. Serve!Idle.flight \in Seq(Nat)
    BY EmptySeq DEF Serve!Idle
  <1> QED
    BY <1>1 DEF Serve!Idle, Connection, ConnectionFields, Serve!Free

\* What finish_request needs of a generation, and what it makes of the history.
Finishable(x, y, q, apply) ==
    /\ Books(y) /\ Known(x, y) /\ Unfinished(q, y) /\ apply \in BOOLEAN
    /\ q.generation \in Nat /\ q.generation <= x.generation
    /\ apply => q.generation \in y.answered

Finished(x, y, q, z) ==
    /\ Books(z) /\ Known(x, z)
    /\ z.answered = y.answered /\ z.asked = y.asked /\ z.sockets = y.sockets
    /\ \A o \in z.done : o \in y.done \/ (q.generation # 0 /\ o[1] = q.generation)

\* finish_request: what is done is done once, and applied only when acknowledged.
LEMMA FinishGood ==
    ASSUME NEW x, NEW y, NEW q, NEW apply, Finishable(x, y, q, apply)
    PROVE  Finished(x, y, q, Serve!Finish(y, q, apply))
  <1> USE DEF Finishable, Finished
  <1>1. CASE q.generation = 0
    BY <1>1 DEF Serve!Finish
  <1> USE DEF Unfinished
  <1>2. CASE q.generation # 0
    <2> DEFINE o == <<q.generation, Serve!Handler(q), apply>>
               z == Serve!Finish(y, q, apply)
    <2>1. o \in Nat \X Handlers \X BOOLEAN /\ o[1] = q.generation /\ o[2] = Serve!Handler(q) /\ o[3] = apply
      BY DEF Serve!Handler, Handlers
    <2>2. /\ DOMAIN z = DOMAIN y /\ z.answered = y.answered /\ z.asked = y.asked /\ z.sockets = y.sockets
          /\ z.done = y.done \cup {o} /\ ~z.twice /\ z.twice \in BOOLEAN
      BY <1>2 DEF Serve!Finish, Books
    <2> HIDE DEF o, z
    <2>3. Books(z)
      BY <1>2, <2>1, <2>2 DEF Books
    <2>4. Known(x, z)
      BY <2>1, <2>2 DEF Known
    <2> QED
      BY <1>2, <2>1, <2>2, <2>3, <2>4 DEF z
  <1> QED
    BY <1>1, <1>2

\* What a callback counts does not matter.
LEMMA CalledSame ==
    ASSUME NEW y, Books(y)
    PROVE  /\ Books(Serve!Called(y)) /\ Serve!Called(y).done = y.done /\ Serve!Called(y).asked = y.asked
           /\ Serve!Called(y).answered = y.answered /\ Serve!Called(y).sockets = y.sockets
  BY DEF Serve!Called, Books

\* stop(): every connection ends unapplied and nothing waits.
LEMMA AllEnd ==
    ASSUME ServerGood(v, c, h), View(v'), v'.generation = v.generation,
           v'.pending = Serve!Nobody, c' = Serve!CloseAll(c), h' = Serve!Called(Serve!FinishAll(h))
    PROVE  ServerGood(v', c', h')
  <1> DEFINE y == Serve!Finish(h, c[1], FALSE)
             z == Serve!Finish(y, c[2], FALSE)
  <1> USE TwoSlots
  <1>1. /\ Books(y) /\ Known(v, y) /\ y.answered = h.answered /\ y.asked = h.asked
        /\ \A o \in y.done : o \in h.done \/ (c[1].generation # 0 /\ o[1] = c[1].generation)
    <2>1. Books(h) /\ Known(v, h) /\ c[1].generation \in Nat /\ c[1].generation <= v.generation
      BY DEF ServerGood, Connections, Connection
    <2>2. Unfinished(c[1], h)
      BY DEF ServerGood, Live
    <2>3. Finished(v, h, c[1], y)
      BY <2>1, <2>2, FinishGood DEF Finishable
    <2> QED
      BY <2>3 DEF Finished
  <1> HIDE DEF y
  <1>2. /\ c[2].generation \in Nat /\ c[2].generation <= v.generation
        /\ Unfinished(c[2], y)
    BY <1>1 DEF ServerGood, Connections, Connection, Live, Unfinished
  <1>3. Books(z) /\ Known(v, z)
    <2>1. Finishable(v, y, c[2], FALSE)
      BY <1>1, <1>2 DEF Finishable
    <2>2. Finished(v, y, c[2], z)
      BY <2>1, FinishGood
    <2> QED
      BY <2>2 DEF Finished
  <1>4. h' = Serve!Called(z)
    BY DEF Serve!FinishAll, y
  <1> HIDE DEF z
  <1>5. Books(h') /\ Known(v', h')
    BY <1>3, <1>4, CalledSame DEF Known
  <1>6. DOMAIN c' = Serve!Slots /\ \A i \in Serve!Slots : c'[i] = Serve!Idle
    BY DEF Serve!CloseAll
  <1>7. Connections(v', c', h'.answered)
    BY <1>6, IdleGood DEF Connections, View
  <1>8. Live(c', h')
    BY <1>6, IdleGood DEF Live, Unfinished
  <1>9. v'.pending.pcb = 0 /\ v'.pending.slot = 0
    BY DEF Serve!Nobody
  <1> QED
    BY <1>5, <1>6, <1>7, <1>8, <1>9, IdleGood DEF ServerGood, Waiting, Shut, Alone

\* A generation ends, with its slot or with the request of a kept connection, or a new one
\* begins, that nobody has had.
LEMMA EndGood ==
    ASSUME ServerGood(v, c, h), NEW i \in Serve!Slots, NEW q, c' = [c EXCEPT ![i] = q],
           Books(h'), Known(v', h'), h'.answered = h.answered, h'.asked = h.asked,
           \A o \in h'.done : \/ o \in h.done \/ (c[i].generation # 0 /\ o[1] = c[i].generation)
                              \/ (o[1] > v.generation /\ o[1] # q.generation),
           Connection(q, h.answered), q.generation = 0 \/ q.generation > v.generation,
           q.generation <= v'.generation, View(v'), v'.generation >= v.generation,
           Waiting(v', c'), Shut(v', c'),
           q.client # 0 /\ q.endpoint =>
               (c[i].client # 0 /\ c[i].endpoint) \/ ~(c[3 - i].client # 0 /\ c[3 - i].endpoint)
    PROVE  ServerGood(v', c', h')
  <1> USE TwoSlots
  <1>1. /\ DOMAIN c' = Serve!Slots /\ c'[i] = q
        /\ \A j \in Serve!Slots : j # i => c'[j] = c[j]
    BY DEF ServerGood, Connections
  <1>2. \A j \in Serve!Slots : Connection(c[j], h.answered) /\ c[j].generation <= v.generation
            /\ c[j].generation \in Nat /\ v.generation \in Nat /\ v'.generation \in Nat
    BY DEF ServerGood, Connections, View, Connection
  <1>3. q.generation \in Nat
    BY DEF Connection
  <1>4. Connections(v', c', h'.answered)
    <2>1. \A j \in Serve!Slots : Connection(c'[j], h'.answered) /\ c'[j].generation <= v'.generation
      BY <1>1, <1>2, <1>3
    <2>2. c'[1].generation = c'[2].generation => c'[1].generation = 0
      <3>1. c[1].generation = c[2].generation => c[1].generation = 0
        BY DEF ServerGood, Connections
      <3> QED
        BY <1>1, <1>2, <1>3, <3>1
    <2> QED
      BY <1>1, <2>1, <2>2 DEF Connections
  <1>5. \A o \in h.done : o[1] \in Nat /\ o[1] <= v.generation
    BY DEF ServerGood, Books, Known
  <1>6. \A a \in h.asked : a[1] \in Nat /\ a[1] <= v.generation
    BY DEF ServerGood, Books, Known
  <1>7. Live(c', h')
    <2>1. ASSUME NEW j \in Serve!Slots, j # i
          PROVE  Unfinished(c'[j], h')
      <3>1. Unfinished(c[j], h) /\ (c[j].generation # 0 => c[j].generation # c[i].generation)
        BY <2>1 DEF ServerGood, Connections, Live
      <3>2. c'[j] = c[j]
        BY <1>1, <2>1
      <3> QED
        BY <1>2, <3>1, <3>2 DEF Unfinished
    <2>2. Unfinished(q, h')
      BY <1>2, <1>3, <1>5, <1>6 DEF Unfinished
    <2> QED
      BY <1>1, <2>1, <2>2 DEF Live
  <1>8. Alone(c')
    BY <1>1 DEF Alone, ServerGood
  <1> QED
    BY <1>4, <1>7, <1>8 DEF ServerGood

\* A connection goes on under its generation.
LEMMA ChangeGood ==
    ASSUME ServerGood(v, c, h), NEW i \in Serve!Slots, NEW q,
           c' = [c EXCEPT ![i] = q], Connection(q, h'.answered),
           q.generation = c[i].generation, q.softap = c[i].softap,
           DOMAIN h' = DOMAIN h, h'.done = h.done, h'.sockets = h.sockets, h'.twice = h.twice,
           h.answered \subseteq h'.answered, h'.answered \subseteq Nat,
           h'.asked = h.asked
               \/ (q.generation # 0
                   /\ h'.asked = h.asked \cup {<<c[i].generation, Serve!Handler(c[i])>>}),
           View(v'), v'.pending = v.pending, v'.open = v.open, v'.generation = v.generation,
           q.rx # 0 => q.rx = q.client \/ q.gone
                       \/ (v.pending.slot = i /\ q.rx = v.pending.pcb),
           v.pending.slot = i => Serve!Free(q),
           q.client # 0 => c[i].client # 0,
           q.client # 0 /\ q.endpoint =>
               c[i].endpoint \/ ~(c[3 - i].client # 0 /\ c[3 - i].endpoint),
           ~v.open => ~q.endpoint
    PROVE  ServerGood(v', c', h')
  <1> USE TwoSlots
  <1>1. /\ DOMAIN c' = Serve!Slots /\ c'[i] = q
        /\ \A j \in Serve!Slots : j # i => c'[j] = c[j]
    BY DEF ServerGood, Connections
  <1>2. Connections(v', c', h'.answered)
    <2>1. \A j \in Serve!Slots : Connection(c[j], h'.answered)
      BY DEF ServerGood, Connections, Connection
    <2> QED
      BY <1>1, <2>1 DEF ServerGood, Connections
  <1>3. \A a \in h'.asked : \/ a \in h.asked
                            \/ /\ a \in Nat \X Handlers /\ a[1] = q.generation
                               /\ a[2] = Serve!Handler(q) /\ q.generation # 0
    BY DEF Serve!Handler, Handlers, Connection
  <1>4. q.generation # 0 => \A o \in h.done : o[1] # q.generation
    BY DEF ServerGood, Live, Unfinished
  <1>5. Books(h')
    <2>1. h'.asked \subseteq Nat \X Handlers
      BY <1>3 DEF ServerGood, Books
    <2>2. \A o \in h'.done, a \in h'.asked : o[1] = a[1] => o[2] = a[2]
      BY <1>3, <1>4 DEF ServerGood, Books
    <2> QED
      BY <2>1, <2>2 DEF ServerGood, Books
  <1>6. Known(v', h')
    BY <1>2, <1>1, <1>3 DEF Known, ServerGood, Connections
  <1>7. Live(c', h')
    <2>1. ASSUME NEW j \in Serve!Slots, c'[j].generation # 0
          PROVE  \A o \in h'.done : o[1] # c'[j].generation
      BY <1>1, <1>4, <2>1 DEF ServerGood, Live, Unfinished
    <2>2. ASSUME NEW j \in Serve!Slots, c'[j].generation # 0, NEW a \in h'.asked, a[1] = c'[j].generation
          PROVE  a[2] = Serve!Handler(c'[j])
      <3>1. CASE a \in h.asked
        BY <1>1, <2>2, <3>1 DEF ServerGood, Live, Unfinished, Serve!Handler
      <3>2. CASE a[1] = q.generation /\ a[2] = Serve!Handler(q) /\ q.generation # 0
        BY <1>1, <1>2, <2>2, <3>2 DEF Connections
      <3> QED
        BY <1>3, <3>1, <3>2
    <2> QED
      BY <2>1, <2>2 DEF Live, Unfinished
  <1>8. Waiting(v', c')
    BY <1>1 DEF Waiting, ServerGood
  <1>9. Shut(v', c')
    BY <1>1 DEF Shut, ServerGood
  <1>10. Alone(c')
    BY <1>1 DEF Alone, ServerGood
  <1> QED
    BY <1>2, <1>5, <1>6, <1>7, <1>8, <1>9, <1>10 DEF ServerGood

\* Only the view changes, or a slot that nobody has is emptied.
LEMMA QuietGood ==
    ASSUME ServerGood(v, c, h), View(v'), v'.generation >= v.generation,
           Books(h'), h'.done = h.done, h'.asked = h.asked, h'.answered = h.answered,
           c' = c \/ \E i \in Serve!Slots : c' = [c EXCEPT ![i] = Serve!Idle] /\ Serve!Free(c[i]),
           Waiting(v', c'), Shut(v', c')
    PROVE  ServerGood(v', c', h')
  <1> USE TwoSlots
  <1>1. DOMAIN c' = Serve!Slots /\ \A j \in Serve!Slots : c'[j] = c[j] \/ c'[j] = Serve!Idle
    BY DEF ServerGood, Connections
  <1>2. Connections(v', c', h'.answered)
    <2>1. \A j \in Serve!Slots : Connection(c'[j], h'.answered) /\ c'[j].generation <= v'.generation
      <3> SUFFICES ASSUME NEW j \in Serve!Slots
                   PROVE  Connection(c'[j], h'.answered) /\ c'[j].generation <= v'.generation
        OBVIOUS
      <3>1. Connection(c[j], h.answered) /\ c[j].generation <= v.generation /\ c[j].generation \in Nat
            /\ v.generation \in Nat /\ v'.generation \in Nat
        BY DEF ServerGood, Connections, View, Connection
      <3> QED
        BY <1>1, <3>1, IdleGood
    <2>2. \A j \in Serve!Slots : c'[j].generation = c[j].generation \/ c'[j].generation = 0
      BY <1>1, IdleGood
    <2>3. c'[1].generation = c'[2].generation => c'[1].generation = 0
      BY <2>2 DEF ServerGood, Connections
    <2> QED
      BY <1>1, <2>1, <2>3 DEF Connections
  <1>3. Live(c', h')
    BY <1>1, IdleGood DEF ServerGood, Live, Unfinished
  <1>4. Known(v', h')
    BY DEF ServerGood, Known, View, Books
  <1>5. Alone(c')
    BY <1>1, IdleGood DEF ServerGood, Alone
  <1> QED
    BY <1>2, <1>3, <1>4, <1>5 DEF ServerGood

\* The next connection's turn.
LEMMA NextTurn ==
    ASSUME View(v), v.todo # <<>>
    PROVE  /\ View(Serve!Next1) /\ Serve!Next1.pending = v.pending /\ Serve!Next1.open = v.open
           /\ Serve!Next1.generation = v.generation
           /\ Head(v.todo) \in Serve!Slots
  <1>1. Tail(v.todo) \in Seq({1, 2}) /\ Head(v.todo) \in {1, 2}
    BY HeadTailProperties DEF View
  <1> QED
    BY <1>1, TwoSlots DEF View, ViewFields, Serve!Next1

\* A listener opens; nothing else changes.
LEMMA StartGood ==
    ASSUME ServerGood(v, c, h), Serve!Start \/ Serve!StartPlain
    PROVE  ServerGood(v', c', h')
  <1>1. /\ View(v') /\ v'.generation = v.generation /\ v'.pending = v.pending /\ v'.open = v.open
        /\ c' = c /\ h' = h
    BY DEF Serve!Start, Serve!StartPlain, ServerGood, View, ViewFields
  <1>2. Waiting(v', c') /\ Shut(v', c') /\ v.generation \in Nat
    BY <1>1 DEF ServerGood, Waiting, Shut, View
  <1> QED
    BY <1>1, <1>2, QuietGood DEF ServerGood

\* Nobody waits.
LEMMA NobodyTyped ==
    Serve!Nobody \in [pcb : Nat, slot : {0, 1, 2}, softap : BOOLEAN, plain : BOOLEAN]
    /\ Serve!Nobody.pcb = 0 /\ Serve!Nobody.slot = 0
  BY DEF Serve!Nobody

\* stop() ends every connection and the pending socket.
LEMMA StopGood ==
    ASSUME ServerGood(v, c, h), Serve!StartFailed \/ Serve!Stop
    PROVE  ServerGood(v', c', h')
  <1>1. View(v') /\ v'.generation = v.generation /\ v'.pending = Serve!Nobody
    BY NobodyTyped DEF Serve!StartFailed, Serve!Stop, Serve!Stopped, ServerGood, View, ViewFields
  <1> QED
    BY <1>1, AllEnd DEF Serve!StartFailed, Serve!Stop

\* Admission that is closed ends what it admitted; opening it admits nobody yet.
LEMMA SetAdmissionGood ==
    ASSUME ServerGood(v, c, h), NEW open \in BOOLEAN, Serve!SetAdmission(open)
    PROVE  ServerGood(v', c', h')
  <1>1. CASE open
    <2>1. /\ View(v') /\ v'.generation = v.generation /\ v'.pending = v.pending /\ v'.open
          /\ c' = c /\ h' = Serve!Called(h)
      BY <1>1 DEF Serve!SetAdmission, ServerGood, View, ViewFields
    <2>2. Waiting(v', c') /\ Shut(v', c') /\ v.generation \in Nat
      BY <2>1 DEF ServerGood, Waiting, Shut, View
    <2> QED
      BY <2>1, <2>2, QuietGood, CalledSame DEF ServerGood
  <1>2. CASE ~open
    <2>1. View(v') /\ v'.generation = v.generation /\ v'.pending = Serve!Nobody
      BY <1>2, NobodyTyped DEF Serve!SetAdmission, ServerGood, View, ViewFields
    <2> QED
      BY <1>2, <2>1, AllEnd DEF Serve!SetAdmission
  <1> QED
    BY <1>1, <1>2

\* The slot that is free, or none.
LEMMA FirstFreeIs ==
    /\ Serve!FirstFree(c) \in {0, 1, 2}
    /\ Serve!FirstFree(c) # 0 => Serve!Free(c[Serve!FirstFree(c)])
  BY DEF Serve!FirstFree

\* accept: a socket is pending, with a slot of its own or none.
LEMMA AcceptGood ==
    ASSUME ServerGood(v, c, h), NEW plain \in BOOLEAN, NEW softap \in BOOLEAN, NEW busy, NEW clock,
           Serve!Accept(plain, softap, busy, clock)
    PROVE  ServerGood(v', c', h')
  <1> DEFINE p == [pcb |-> h.sockets + 1, slot |-> Serve!FirstFree(c), softap |-> softap, plain |-> plain]
  <1>1. h.sockets \in Nat
    BY DEF ServerGood, Books
  <1>2. /\ p \in [pcb : Nat, slot : {0, 1, 2}, softap : BOOLEAN, plain : BOOLEAN]
        /\ p.pcb # 0 /\ p.slot = Serve!FirstFree(c)
    BY <1>1, FirstFreeIs
  <1>3. v' = [v EXCEPT !.pending = p] /\ v.open /\ v.pending.pcb = 0 /\ c' = c
    BY DEF Serve!Accept
  <1> HIDE DEF p
  <1>4. View(v') /\ v'.generation = v.generation /\ v'.pending = p /\ v'.open
    BY <1>2, <1>3 DEF ServerGood, View, ViewFields
  <1>5. /\ Books(h') /\ h'.done = h.done /\ h'.asked = h.asked /\ h'.answered = h.answered
    BY DEF Serve!Accept, ServerGood, Books
  <1>6. Waiting(v', c')
    BY <1>2, <1>3, <1>4, FirstFreeIs, TwoSlots DEF ServerGood, Waiting
  <1>7. Shut(v', c') /\ v.generation \in Nat
    BY <1>4 DEF Shut, ServerGood, View
  <1> QED
    BY <1>3, <1>4, <1>5, <1>6, <1>7, QuietGood

\* A call of lwIP that changes a connection only.
LEMMA CallbackGood ==
    ASSUME ServerGood(v, c, h), NEW i \in Serve!Slots, NEW q,
           c' = [c EXCEPT ![i] = q], v' = v, h' = Serve!Called(h), Connection(q, h.answered),
           q.generation = c[i].generation, q.softap = c[i].softap,
           q.client \in {0, c[i].client}, q.endpoint = c[i].endpoint, c[i].client # 0 \/ v.open,
           q.rx # 0 => q.rx = q.client \/ q.gone
                       \/ (v.pending.slot = i /\ q.rx = v.pending.pcb),
           v.pending.slot = i => Serve!Free(q)
    PROVE  ServerGood(v', c', h')
  <1>1. /\ DOMAIN h' = DOMAIN h /\ h'.done = h.done /\ h'.sockets = h.sockets /\ h'.twice = h.twice
        /\ h'.answered = h.answered /\ h'.asked = h.asked /\ h.answered \subseteq Nat
    BY DEF Serve!Called, ServerGood, Books
  <1>2. ~v.open => ~q.endpoint
    BY DEF ServerGood, Shut
  <1>3. View(v)
    BY DEF ServerGood
  <1> QED
    BY <1>1, <1>2, <1>3, ChangeGood

\* What the pending socket sends is held in the slot reserved for it.
LEMMA PendingReceiveGood ==
    ASSUME ServerGood(v, c, h), Serve!PendingReceive
    PROVE  ServerGood(v', c', h')
  <1> DEFINE i == v.pending.slot
             q == [c[i] EXCEPT !.rx = v.pending.pcb]
  <1>1. i \in Serve!Slots /\ v.pending.pcb \in Nat
    BY TwoSlots DEF Serve!PendingReceive, ServerGood, View
  <1>2. Connection(c[i], h.answered) /\ Serve!Free(c[i])
    BY <1>1 DEF ServerGood, Connections, Waiting, Serve!PendingReceive
  <1>3. /\ Connection(q, h.answered) /\ q.generation = c[i].generation /\ q.softap = c[i].softap
        /\ q.client = c[i].client /\ q.endpoint = c[i].endpoint /\ q.rx = v.pending.pcb /\ Serve!Free(q)
    BY <1>1, <1>2 DEF Connection, ConnectionFields, Serve!Free
  <1>4. c' = [c EXCEPT ![i] = q] /\ v' = v /\ h' = Serve!Called(h)
    BY DEF Serve!PendingReceive
  <1>5. v.open
    <2>1. v.pending.pcb # 0
      BY DEF ServerGood, Waiting, Serve!PendingReceive
    <2> QED
      BY <2>1 DEF ServerGood, Shut
  <1> HIDE DEF q
  <1> QED
    BY <1>1, <1>3, <1>4, <1>5, CallbackGood

\* The pending socket that closes or fails frees the slot it reserved.
LEMMA PendingLostGood ==
    ASSUME ServerGood(v, c, h), Serve!PendingLost
    PROVE  ServerGood(v', c', h')
  <1> USE TwoSlots
  <1>1. /\ View(v') /\ v'.generation = v.generation /\ v'.pending = Serve!Nobody /\ v'.open = v.open
        /\ v.generation \in Nat
    BY NobodyTyped DEF Serve!PendingLost, ServerGood, View, ViewFields
  <1>2. \/ v.pending.slot = 0 /\ c' = c
        \/ /\ v.pending.slot \in Serve!Slots /\ c' = [c EXCEPT ![v.pending.slot] = Serve!Idle]
           /\ Serve!Free(c[v.pending.slot])
    BY DEF Serve!PendingLost, Serve!DropPending, Serve!ResetSlot, ServerGood, View, Waiting
  <1>3. DOMAIN c = Serve!Slots
    BY DEF ServerGood, Connections
  <1>4. Waiting(v', c')
    BY <1>1, <1>2, <1>3, NobodyTyped, IdleGood DEF ServerGood, Waiting
  <1>5. Shut(v', c')
    BY <1>1, <1>2, <1>3, NobodyTyped, IdleGood DEF ServerGood, Shut
  <1>6. h' = Serve!Called(h)
    BY DEF Serve!PendingLost
  <1> QED
    BY <1>1, <1>2, <1>4, <1>5, <1>6, QuietGood, CalledSame DEF ServerGood

\* A client that is there has its generation, and its slot is reserved for nobody.
LEMMA ClientHere ==
    ASSUME ServerGood(v, c, h), NEW i \in Serve!Slots, c[i].client # 0
    PROVE  /\ Connection(c[i], h.answered) /\ c[i].generation # 0 /\ v.pending.slot # i /\ v.open
  <1>1. Connection(c[i], h.answered)
    BY DEF ServerGood, Connections
  <1>2. c[i].generation # 0
    BY <1>1 DEF Connection
  <1>3. v.pending.slot # i
    BY TwoSlots DEF ServerGood, Waiting, Serve!Free
  <1>4. v.open
    BY DEF ServerGood, Shut, View
  <1> QED
    BY <1>1, <1>2, <1>3, <1>4

\* Bytes that a client sends are its own.
LEMMA ReceiveGood ==
    ASSUME ServerGood(v, c, h), NEW i \in Serve!Slots, Serve!Receive(i)
    PROVE  ServerGood(v', c', h')
  <1> DEFINE q == [c[i] EXCEPT !.rx = c[i].client]
  <1>1. Connection(c[i], h.answered) /\ v.pending.slot # i /\ v.open
    BY ClientHere DEF Serve!Receive
  <1>2. /\ Connection(q, h.answered) /\ q.generation = c[i].generation /\ q.softap = c[i].softap
        /\ q.client = c[i].client /\ q.endpoint = c[i].endpoint /\ q.rx = q.client
    BY <1>1 DEF Connection, ConnectionFields
  <1>3. c' = [c EXCEPT ![i] = q] /\ v' = v /\ h' = Serve!Called(h)
    BY DEF Serve!Receive
  <1> HIDE DEF q
  <1> QED
    BY <1>1, <1>2, <1>3, CallbackGood

\* A peer that closes is still the client of its slot.
LEMMA PeerFinGood ==
    ASSUME ServerGood(v, c, h), NEW i \in Serve!Slots, Serve!PeerFin(i)
    PROVE  ServerGood(v', c', h')
  <1> DEFINE q == [c[i] EXCEPT !.gone = TRUE]
  <1>1. Connection(c[i], h.answered) /\ c[i].generation # 0 /\ v.pending.slot # i /\ v.open
    BY ClientHere DEF Serve!PeerFin
  <1>2. /\ Connection(q, h.answered) /\ q.generation = c[i].generation /\ q.softap = c[i].softap
        /\ q.client = c[i].client /\ q.endpoint = c[i].endpoint /\ q.gone
    BY <1>1 DEF Connection, ConnectionFields
  <1>3. c' = [c EXCEPT ![i] = q] /\ v' = v /\ h' = Serve!Called(h)
    BY DEF Serve!PeerFin
  <1> HIDE DEF q
  <1> QED
    BY <1>1, <1>2, <1>3, CallbackGood

\* A peer that resets is a client no longer; its slot ends at its next turn.
LEMMA PeerResetGood ==
    ASSUME ServerGood(v, c, h), NEW i \in Serve!Slots, Serve!PeerReset(i)
    PROVE  ServerGood(v', c', h')
  <1> DEFINE q == [c[i] EXCEPT !.client = 0, !.gone = TRUE]
  <1>1. Connection(c[i], h.answered) /\ c[i].generation # 0 /\ v.pending.slot # i /\ v.open
    BY ClientHere DEF Serve!PeerReset
  <1>2. /\ Connection(q, h.answered) /\ q.generation = c[i].generation /\ q.softap = c[i].softap
        /\ q.client = 0 /\ q.endpoint = c[i].endpoint /\ q.gone
    BY <1>1 DEF Connection, ConnectionFields
  <1>3. c' = [c EXCEPT ![i] = q] /\ v' = v /\ h' = Serve!Called(h)
    BY DEF Serve!PeerReset
  <1> HIDE DEF q
  <1> QED
    BY <1>1, <1>2, <1>3, CallbackGood

\* The place of the last unit after n units are acknowledged.
LEMMA Difference ==
    ASSUME NEW r \in Nat, NEW l \in Nat, NEW n \in Nat, r <= l, r - n > 0
    PROVE  r - n \in 1 .. (l - n) /\ n + (r - n) = r
  OBVIOUS

\* The units that are acknowledged are the first; the count goes down with them, and reaches the
\* last unit of the response when that one is acknowledged.
LEMMA SentGood ==
    ASSUME ServerGood(v, c, h), NEW i \in Serve!Slots, NEW n \in {1, 2}, Serve!Sent(i, n)
    PROVE  ServerGood(v', c', h')
  <1> DEFINE k == c[i]
             fl == SubSeq(k.flight, n + 1, Len(k.flight))
             rem == IF k.remaining = -1 THEN -1 ELSE IF k.remaining > n THEN k.remaining - n ELSE 0
             q == [k EXCEPT !.flight = fl, !.remaining = rem]
             new == {k.flight[j] : j \in 1 .. n} \ {0}
  <1>1. Connection(k, h.answered) /\ k.generation # 0 /\ v.pending.slot # i /\ v.open
    BY ClientHere DEF Serve!Sent
  <1>2. k.flight \in Seq(Nat) /\ n <= Len(k.flight) /\ Len(k.flight) \in Nat /\ n \in Nat
        /\ k.remaining \in Nat \cup {-1} /\ k.generation \in Nat
    BY <1>1, LenProperties DEF Connection, Serve!Sent
  <1>3. \A j \in 1 .. Len(k.flight) : k.flight[j] \in Nat
    BY <1>2, ElementOfSeq
  <1>4. new \subseteq Nat
    BY <1>2, <1>3
  <1>5. /\ fl \in Seq(Nat) /\ Len(fl) = Len(k.flight) - n
        /\ \A j \in 1 .. Len(fl) : fl[j] = k.flight[n + j]
    <2>1. \A j \in (n + 1) .. Len(k.flight) : k.flight[j] \in Nat
      BY <1>2, <1>3
    <2>2. /\ fl \in Seq(Nat)
          /\ Len(fl) = IF n + 1 <= Len(k.flight) THEN Len(k.flight) - (n + 1) + 1 ELSE 0
          /\ \A j \in 1 .. (Len(k.flight) - (n + 1) + 1) : fl[j] = k.flight[n + 1 + j - 1]
      BY <1>2, <2>1, SubSeqProperties
    <2> HIDE DEF fl, k
    <2>3. Len(fl) = Len(k.flight) - n /\ Len(k.flight) - (n + 1) + 1 = Len(k.flight) - n
      BY <1>2, <2>2
    <2>4. ASSUME NEW j \in 1 .. Len(fl) PROVE fl[j] = k.flight[n + j]
      <3>1. j \in 1 .. (Len(k.flight) - (n + 1) + 1) /\ n + 1 + j - 1 = n + j
        BY <1>2, <2>3
      <3> QED
        BY <2>2, <3>1
    <2> QED
      BY <2>2, <2>3, <2>4
  <1>6. h'.answered = h.answered \cup new /\ DOMAIN h' = DOMAIN h /\ h'.done = h.done
        /\ h'.sockets = h.sockets /\ h'.twice = h.twice /\ h'.asked = h.asked /\ h.answered \subseteq Nat
    BY DEF Serve!Sent, Serve!Called, ServerGood, Books
  <1>7. rem \in Nat \cup {-1} /\ (rem > 0 => rem = k.remaining - n /\ k.remaining > n)
    BY <1>2
  <1>8. rem > 0 => rem <= Len(fl) /\ fl[rem] = k.generation
    <2> SUFFICES ASSUME rem > 0 PROVE rem <= Len(fl) /\ fl[rem] = k.generation
      OBVIOUS
    <2>1. k.remaining \in Nat /\ k.remaining > 0
      BY <1>2, <1>7
    <2>3. k.remaining <= Len(k.flight) /\ k.flight[k.remaining] = k.generation
      BY <1>1, <2>1 DEF Connection
    <2>2. rem \in 1 .. Len(fl) /\ n + rem = k.remaining
      <3> HIDE DEF fl, rem, k
      <3>1. Len(fl) = Len(k.flight) - n /\ rem \in Nat /\ rem = k.remaining - n
        BY <1>5, <1>7
      <3>2. n \in Nat /\ Len(k.flight) \in Nat /\ k.remaining - n > 0
        BY <1>2, <3>1
      <3>3. k.remaining - n \in 1 .. (Len(k.flight) - n) /\ n + (k.remaining - n) = k.remaining
        BY <2>1, <2>3, <3>2, Difference
      <3> QED
        BY <3>1, <3>3
    <2>4. fl[rem] = k.flight[n + rem] /\ rem <= Len(fl)
      <3> HIDE DEF fl, rem, k
      <3>1. \A j \in 1 .. Len(fl) : fl[j] = k.flight[n + j]
        BY <1>5
      <3>2. fl[rem] = k.flight[n + rem]
        BY <2>2, <3>1, Zenon
      <3>3. rem <= Len(fl)
        BY <2>2
      <3> QED
        BY <3>2, <3>3
    <2> QED
      <3> HIDE DEF fl, rem, k
      <3> QED
        BY <2>2, <2>3, <2>4
  <1>9. rem = 0 => k.generation \in h'.answered
    <2>1. CASE k.remaining = 0
      BY <1>1, <1>6, <2>1 DEF Connection
    <2>2. CASE k.remaining \in 1 .. n
      <3>1. k.flight[k.remaining] = k.generation
        BY <1>1, <2>2 DEF Connection
      <3> QED
        BY <1>1, <1>6, <2>2, <3>1
    <2> QED
      BY <1>2, <2>1, <2>2
  <1>10. c' = [c EXCEPT ![i] = q] /\ v' = v
    BY DEF Serve!Sent
  <1> HIDE DEF fl, rem, new
  <1>11. /\ Connection(q, h'.answered) /\ q.generation = k.generation /\ q.softap = k.softap
         /\ q.client = k.client /\ q.endpoint = k.endpoint /\ q.rx = k.rx /\ q.gone = k.gone
    BY <1>1, <1>5, <1>7, <1>8, <1>9 DEF Connection, ConnectionFields
  <1>12. k.rx # 0 => k.rx = k.client \/ k.gone
    BY <1>1 DEF ServerGood, Waiting
  <1> HIDE DEF q
  <1>13. View(v) /\ h.answered \subseteq h'.answered /\ h'.answered \subseteq Nat
    BY <1>4, <1>6 DEF ServerGood
  <1> QED
    BY <1>1, <1>6, <1>10, <1>11, <1>12, <1>13, ChangeGood

-----------------------------------------------------------------------------

\* close(): what the connection had is gone, and its generation is done.
LEMMA CloseGood ==
    ASSUME ServerGood(v, c, h), v.todo # <<>>, NEW i \in Serve!Slots, NEW apply \in BOOLEAN,
           apply => c[i].remaining = 0, Serve!Close(i, apply)
    PROVE  ServerGood(v', c', h')
  <1>1. c' = [c EXCEPT ![i] = Serve!Idle] /\ v' = Serve!Next1 /\ h' = Serve!Finish(h, c[i], apply)
    BY DEF Serve!Close, Serve!ResetSlot
  <1>2. /\ View(v') /\ v'.pending = v.pending /\ v'.open = v.open /\ v'.generation = v.generation
        /\ v.generation \in Nat
    BY <1>1, NextTurn DEF ServerGood, View
  <1>3. Finishable(v, h, c[i], apply)
    BY DEF ServerGood, Connections, Connection, Finishable, Live
  <1>4. Finished(v, h, c[i], h')
    BY <1>1, <1>3, FinishGood
  <1>5. Known(v', h')
    BY <1>2, <1>4 DEF Finished, Known
  <1>6. DOMAIN c = Serve!Slots
    BY DEF ServerGood, Connections
  <1>7. Waiting(v', c') /\ Shut(v', c')
    BY <1>1, <1>2, <1>6, IdleGood DEF ServerGood, Waiting, Shut
  <1>8. Serve!Idle.generation <= v'.generation /\ v'.generation >= v.generation
    BY <1>2, IdleGood
  <1> QED
    BY <1>1, <1>2, <1>4, <1>5, <1>7, <1>8, IdleGood, EndGood DEF Finished

\* A turn that leaves the connection open.
LEMMA StepGood ==
    ASSUME ServerGood(v, c, h), v.todo # <<>>, NEW i \in Serve!Slots, NEW q, Serve!Step(i, q),
           Connection(q, h.answered), q.generation = c[i].generation, q.softap = c[i].softap,
           q.client = c[i].client, q.gone = c[i].gone, q.rx \in {0, c[i].rx},
           \/ q.endpoint = c[i].endpoint
           \/ c[i].client # 0 /\ ~(c[3 - i].client # 0 /\ c[3 - i].endpoint)
    PROVE  ServerGood(v', c', h')
  <1>1. c' = [c EXCEPT ![i] = q] /\ v' = Serve!Next1 /\ h' = h
    BY DEF Serve!Step
  <1>2. /\ View(v') /\ v'.pending = v.pending /\ v'.open = v.open /\ v'.generation = v.generation
    BY <1>1, NextTurn DEF ServerGood
  <1>3. h.answered \subseteq Nat
    BY DEF ServerGood, Books
  <1>4. q.rx # 0 => q.rx = q.client \/ q.gone \/ (v.pending.slot = i /\ q.rx = v.pending.pcb)
    BY DEF ServerGood, Waiting
  <1>5. v.pending.slot = i => Serve!Free(q)
    BY TwoSlots DEF ServerGood, Waiting, Serve!Free
  <1>6. ~v.open => ~q.endpoint
    BY DEF ServerGood, Shut
  <1> QED
    BY <1>1, <1>2, <1>3, <1>4, <1>5, <1>6, ChangeGood

\* Nothing changes but whose turn it is.
LEMMA RestGood ==
    ASSUME ServerGood(v, c, h), v.todo # <<>>, NEW i \in Serve!Slots, Serve!Step(i, c[i])
    PROVE  ServerGood(v', c', h')
  <1>1. Connection(c[i], h.answered)
    BY DEF ServerGood, Connections
  <1> QED
    BY <1>1, StepGood

\* The turn of a connection that is gone, failed, late or without a link ends it.
LEMMA PollEndsGood ==
    ASSUME ServerGood(v, c, h), v.todo # <<>>, NEW i \in Serve!Slots, NEW late, Serve!PollEnds(i, late)
    PROVE  ServerGood(v', c', h')
  <1> DEFINE apply == Serve!LinkUp(i) /\ Serve!ResponseAcknowledged(c[i])
  <1>1. apply \in BOOLEAN /\ (apply => c[i].remaining = 0)
    BY DEF Serve!ResponseAcknowledged
  <1>2. Serve!Close(i, apply)
    BY DEF Serve!PollEnds
  <1> HIDE DEF apply
  <1> QED
    BY <1>1, <1>2, CloseGood

\* A turn without anything to do.
LEMMA PollIdleGood ==
    ASSUME ServerGood(v, c, h), v.todo # <<>>, NEW i \in Serve!Slots,
           \/ Serve!PollIdle(i) \/ Serve!HandshakeWaits(i) \/ Serve!PollHttpHeld(i)
           \/ Serve!PollUnacknowledged(i) \/ \E waited \in BOOLEAN : Serve!PollFailed(i, waited)
           \/ Serve!HandshakeUnclocked(i) \/ Serve!PollFinished(i) \/ Serve!PollReadFails(i)
    PROVE  ServerGood(v', c', h')
  <1>1. \/ Serve!Step(i, c[i]) \/ Serve!Close(i, FALSE)
        \/ Serve!Close(i, TRUE) /\ c[i].remaining = 0
    BY DEF Serve!PollIdle, Serve!HandshakeWaits, Serve!PollHttpHeld, Serve!PollUnacknowledged,
           Serve!PollFailed, Serve!HandshakeUnclocked, Serve!PollFinished, Serve!PollReadFails,
           Serve!ResponseAcknowledged
  <1> QED
    BY <1>1, RestGood, CloseGood

\* A unit more in flight does not move the last one of the response.
LEMMA AppendedFlight ==
    ASSUME NEW k, NEW heard, Connection(k, heard), NEW x \in Nat
    PROVE  /\ Append(k.flight, x) \in Seq(Nat) /\ Len(Append(k.flight, x)) = Len(k.flight) + 1
           /\ Len(k.flight) \in Nat
           /\ Append(k.flight, x)[Len(k.flight) + 1] = x
           /\ k.remaining > 0 => /\ k.remaining <= Len(Append(k.flight, x))
                                 /\ Append(k.flight, x)[k.remaining] = k.generation
  <1>1. k.flight \in Seq(Nat) /\ Len(k.flight) \in Nat /\ k.remaining \in Nat \cup {-1}
    BY LenProperties DEF Connection
  <1>2. /\ Append(k.flight, x) \in Seq(Nat) /\ Len(Append(k.flight, x)) = Len(k.flight) + 1
        /\ \A j \in 1 .. Len(k.flight) : Append(k.flight, x)[j] = k.flight[j]
        /\ Append(k.flight, x)[Len(k.flight) + 1] = x
    BY <1>1, AppendProperties
  <1>3. k.remaining > 0 => k.remaining \in 1 .. Len(k.flight) /\ k.flight[k.remaining] = k.generation
    BY <1>1 DEF Connection
  <1> QED
    BY <1>1, <1>2, <1>3

\* A handshake that fails marks or ends the connection.
LEMMA HandshakeFailsGood ==
    ASSUME ServerGood(v, c, h), v.todo # <<>>, NEW i \in Serve!Slots, NEW alert \in BOOLEAN,
           Serve!HandshakeFails(i, alert)
    PROVE  ServerGood(v', c', h')
  <1>1. CASE Serve!Close(i, FALSE)
    BY <1>1, CloseGood
  <1>2. CASE ~Serve!Close(i, FALSE)
    <2> DEFINE k == c[i]
               fl == IF alert THEN Append(k.flight, 0) ELSE k.flight
               q == [k EXCEPT !.failed = TRUE, !.flight = fl]
    <2>1. Connection(k, h.answered)
      BY DEF ServerGood, Connections
    <2>2. /\ fl \in Seq(Nat)
          /\ k.remaining > 0 => k.remaining <= Len(fl) /\ fl[k.remaining] = k.generation
      BY <2>1, AppendedFlight DEF Connection
    <2>3. Serve!Step(i, q)
      BY <1>2 DEF Serve!HandshakeFails
    <2> HIDE DEF fl
    <2>4. /\ Connection(q, h.answered) /\ q.generation = k.generation /\ q.softap = k.softap
          /\ q.client = k.client /\ q.gone = k.gone /\ q.rx = k.rx /\ q.endpoint = k.endpoint
      BY <2>1, <2>2 DEF Connection, ConnectionFields
    <2> HIDE DEF q
    <2> QED
      BY <2>3, <2>4, StepGood
  <1> QED
    BY <1>1, <1>2

\* A handshake that completes: one WTP endpoint at most is admitted.
LEMMA HandshakeOverGood ==
    ASSUME ServerGood(v, c, h), v.todo # <<>>, NEW i \in Serve!Slots, NEW cert \in BOOLEAN, NEW alpn,
           Serve!HandshakeOver(i, cert, alpn)
    PROVE  ServerGood(v', c', h')
  <1>1. CASE Serve!Refused(i, cert, alpn) \/ (alpn = "wtp/1" /\ Serve!OtherWtp(i))
    BY <1>1, CloseGood DEF Serve!HandshakeOver
  <1>2. CASE ~(Serve!Refused(i, cert, alpn) \/ (alpn = "wtp/1" /\ Serve!OtherWtp(i)))
    <2> DEFINE k == c[i]
               w == alpn = "wtp/1"
               q == [k EXCEPT !.principal = Serve!Principal(i), !.wtp = w, !.rx = 0,
                              !.handshake = TRUE, !.endpoint = w]
    <2>1. Connection(k, h.answered) /\ w \in BOOLEAN
      BY DEF ServerGood, Connections
    <2>2. Serve!Step(i, q) /\ c[i].client # 0
      BY <1>2 DEF Serve!HandshakeOver, Serve!Shaking, Serve!Lives
    <2>3. w => ~(c[3 - i].client # 0 /\ c[3 - i].endpoint)
      <3>1. Connection(c[3 - i], h.answered)
        BY TwoSlots DEF ServerGood, Connections
      <3> QED
        BY <1>2, <3>1 DEF Serve!OtherWtp, Connection
    <2>5. k.generation # 0
      BY <2>1, <2>2 DEF Connection
    <2> HIDE DEF w
    <2>4. /\ Connection(q, h.answered) /\ q.generation = k.generation /\ q.softap = k.softap
          /\ q.client = k.client /\ q.gone = k.gone /\ q.rx = 0 /\ q.endpoint = w
      BY <2>1, <2>5 DEF Connection, ConnectionFields
    <2> HIDE DEF q
    <2>6. \/ q.endpoint = c[i].endpoint
          \/ c[i].client # 0 /\ ~(c[3 - i].client # 0 /\ c[3 - i].endpoint)
      BY <2>1, <2>2, <2>3, <2>4, TwoSlots DEF ServerGood, Alone, Connection
    <2> QED
      BY <2>2, <2>4, <2>6, StepGood
  <1> QED
    BY <1>1, <1>2

\* The turn of a WTP endpoint.
LEMMA PollWtpGood ==
    ASSUME ServerGood(v, c, h), v.todo # <<>>, NEW i \in Serve!Slots, NEW o, Serve!PollWtp(i, o)
    PROVE  ServerGood(v', c', h')
  <1> DEFINE q == [c[i] EXCEPT !.rx = 0]
  <1>1. Serve!Step(i, c[i]) \/ Serve!Close(i, FALSE) \/ Serve!Step(i, q)
    BY DEF Serve!PollWtp
  <1>2. Connection(c[i], h.answered)
    BY DEF ServerGood, Connections
  <1>3. /\ Connection(q, h.answered) /\ q.generation = c[i].generation /\ q.softap = c[i].softap
        /\ q.client = c[i].client /\ q.gone = c[i].gone /\ q.rx = 0 /\ q.endpoint = c[i].endpoint
    BY <1>2 DEF Connection, ConnectionFields
  <1> HIDE DEF q
  <1> QED
    BY <1>1, <1>3, RestGood, CloseGood, StepGood

\* The count begins at the last unit of the response, behind what else is in flight.
LEMMA PollWriteGood ==
    ASSUME ServerGood(v, c, h), v.todo # <<>>, NEW i \in Serve!Slots, NEW ok \in BOOLEAN,
           Serve!PollWrite(i, ok)
    PROVE  ServerGood(v', c', h')
  <1>1. CASE ~ok
    BY <1>1, CloseGood DEF Serve!PollWrite
  <1>2. CASE ok
    <2> DEFINE k == c[i]
               x == IF Serve!Last(k) THEN k.generation ELSE 0
               fl == Append(k.flight, x)
               rem == IF Serve!Last(k) THEN Len(k.flight) + 1 ELSE k.remaining
               q == [k EXCEPT !.offset = @ + 1, !.flight = fl, !.remaining = rem]
    <2>1. Connection(k, h.answered) /\ k.client # 0 /\ k.generation # 0
      BY DEF ServerGood, Connections, Connection, Serve!PollWrite, Serve!Established, Serve!Lives
    <2>2. x \in Nat
      BY <2>1 DEF Connection
    <2>3. /\ fl \in Seq(Nat) /\ Len(fl) = Len(k.flight) + 1 /\ Len(k.flight) \in Nat
          /\ fl[Len(k.flight) + 1] = x
          /\ k.remaining > 0 => k.remaining <= Len(fl) /\ fl[k.remaining] = k.generation
      BY <2>1, <2>2, AppendedFlight
    <2>4. Serve!Step(i, q)
      BY <1>2 DEF Serve!PollWrite
    <2> HIDE DEF fl
    <2>5. /\ rem \in Nat \cup {-1} /\ (rem > 0 => rem <= Len(fl) /\ fl[rem] = k.generation)
          /\ (rem = 0 => k.generation \in h.answered)
      BY <2>1, <2>3 DEF Connection
    <2> HIDE DEF rem
    <2>6. /\ Connection(q, h.answered) /\ q.generation = k.generation /\ q.softap = k.softap
          /\ q.client = k.client /\ q.gone = k.gone /\ q.rx = k.rx /\ q.endpoint = k.endpoint
      BY <2>1, <2>3, <2>5 DEF Connection, ConnectionFields
    <2> HIDE DEF q
    <2> QED
      BY <2>4, <2>6, StepGood
  <1> QED
    BY <1>1, <1>2

\* After a response the close notification is sent, or the connection ends.
LEMMA PollNotifyGood ==
    ASSUME ServerGood(v, c, h), v.todo # <<>>, NEW i \in Serve!Slots, NEW ok \in BOOLEAN,
           Serve!PollNotify(i, ok)
    PROVE  ServerGood(v', c', h')
  <1>1. CASE ~ok
    <2>1. Serve!Close(i, Serve!ResponseAcknowledged(c[i]))
      BY <1>1 DEF Serve!PollNotify
    <2>2. /\ Serve!ResponseAcknowledged(c[i]) \in BOOLEAN
          /\ Serve!ResponseAcknowledged(c[i]) => c[i].remaining = 0
      BY DEF Serve!ResponseAcknowledged
    <2> QED
      BY <2>1, <2>2, CloseGood
  <1>2. CASE ok
    <2> DEFINE k == c[i]
               fl == Append(k.flight, 0)
               q == [k EXCEPT !.notify = TRUE, !.flight = fl]
    <2>1. Connection(k, h.answered)
      BY DEF ServerGood, Connections
    <2>2. /\ fl \in Seq(Nat)
          /\ k.remaining > 0 => k.remaining <= Len(fl) /\ fl[k.remaining] = k.generation
      BY <2>1, AppendedFlight
    <2>3. Serve!Step(i, q)
      BY <1>2 DEF Serve!PollNotify
    <2> HIDE DEF fl
    <2>4. /\ Connection(q, h.answered) /\ q.generation = k.generation /\ q.softap = k.softap
          /\ q.client = k.client /\ q.gone = k.gone /\ q.rx = k.rx /\ q.endpoint = k.endpoint
      BY <2>1, <2>2 DEF Connection, ConnectionFields
    <2> HIDE DEF q
    <2> QED
      BY <2>3, <2>4, StepGood
  <1> QED
    BY <1>1, <1>2

\* The next request of a kept connection has a generation of its own.
LEMMA PollKeepAliveGood ==
    ASSUME ServerGood(v, c, h), v.todo # <<>>, NEW i \in Serve!Slots, Serve!PollKeepAlive(i)
    PROVE  ServerGood(v', c', h')
  <1> DEFINE k == c[i]
             n == v.generation + 1
             q == [k EXCEPT !.generation = n, !.remaining = -1, !.offset = 0, !.size = 0, !.keep = FALSE,
                            !.responded = FALSE, !.notify = FALSE]
  <1>1. /\ c' = [c EXCEPT ![i] = q] /\ h' = Serve!Finish(h, k, TRUE)
        /\ v' = [Serve!Next1 EXCEPT !.generation = @ + 1]
    BY NextTurn DEF Serve!PollKeepAlive, ServerGood
  <1>2. k.client # 0 /\ k.remaining = 0
    BY DEF Serve!PollKeepAlive, Serve!Written, Serve!Established, Serve!Lives, Serve!ResponseAcknowledged
  <1>3. Connection(k, h.answered) /\ v.pending.slot # i /\ v.open /\ k.generation # 0
    BY <1>2, ClientHere
  <1>4. /\ View(v') /\ v'.pending = v.pending /\ v'.open = v.open /\ v'.generation = n
        /\ v.generation \in Nat
    BY <1>1, NextTurn DEF ServerGood, View, ViewFields
  <1>5. Finishable(v, h, k, TRUE)
    BY <1>2 DEF ServerGood, Connections, Connection, Finishable, Live
  <1>6. Finished(v, h, k, h')
    BY <1>1, <1>5, FinishGood
  <1>7. Known(v', h')
    BY <1>4, <1>6 DEF Finished, Known, Books
  <1>8. n \in Nat /\ n > v.generation /\ n # 0
    BY <1>4
  <1> HIDE DEF n
  <1>9. /\ Connection(q, h.answered) /\ q.generation = n /\ q.client = k.client /\ q.gone = k.gone
        /\ q.rx = k.rx /\ q.endpoint = k.endpoint
    BY <1>3, <1>8 DEF Connection, ConnectionFields
  <1> HIDE DEF q
  <1>10. DOMAIN c = Serve!Slots
    BY DEF ServerGood, Connections
  <1>11. Waiting(v', c') /\ Shut(v', c')
    <2>1. c'[i] = q /\ \A j \in Serve!Slots : j # i => c'[j] = c[j]
      BY <1>1, <1>10
    <2>2. v.pending.slot \in {0} \cup Serve!Slots
      BY TwoSlots DEF ServerGood, View
    <2>3. v.pending.slot # 0 => c'[v.pending.slot] = c[v.pending.slot]
      BY <1>3, <2>1, <2>2
    <2>4. Waiting(v, c)
      BY DEF ServerGood
    <2> QED
      BY <1>3, <1>4, <1>9, <2>1, <2>3, <2>4 DEF Waiting, Shut
  <1>12. n <= v'.generation /\ v'.generation >= v.generation
    BY <1>4, <1>8
  <1> QED
    BY <1>1, <1>2, <1>4, <1>6, <1>7, <1>8, <1>9, <1>11, <1>12, EndGood DEF Finished

\* A request is read and answered by the handler of its connection.
LEMMA PollRequestGood ==
    ASSUME ServerGood(v, c, h), v.todo # <<>>, NEW i \in Serve!Slots, NEW parsed \in BOOLEAN, NEW size,
           NEW keep, Serve!PollRequest(i, parsed, size, keep)
    PROVE  ServerGood(v', c', h')
  <1> DEFINE k == c[i]
             q == [k EXCEPT !.rx = 0, !.responded = TRUE, !.size = size, !.keep = keep]
  <1>1. /\ c' = [c EXCEPT ![i] = q] /\ v' = Serve!Next1
        /\ h' = IF parsed THEN [h EXCEPT !.asked = @ \union {<<k.generation, Serve!Handler(k)>>}] ELSE h
    BY DEF Serve!PollRequest
  <1>2. k.client # 0
    BY DEF Serve!PollRequest, Serve!Reading, Serve!Established, Serve!Lives
  <1>3. Connection(k, h.answered) /\ v.pending.slot # i /\ v.open /\ k.generation # 0
    BY <1>2, ClientHere
  <1>4. View(v') /\ v'.pending = v.pending /\ v'.open = v.open /\ v'.generation = v.generation
    BY <1>1, NextTurn DEF ServerGood
  <1>5. /\ Connection(q, h.answered) /\ q.generation = k.generation /\ q.softap = k.softap
        /\ q.client = k.client /\ q.gone = k.gone /\ q.rx = 0 /\ q.endpoint = k.endpoint
    BY <1>3 DEF Connection, ConnectionFields
  <1>6. /\ DOMAIN h' = DOMAIN h /\ h'.done = h.done /\ h'.sockets = h.sockets /\ h'.twice = h.twice
        /\ h'.answered = h.answered /\ h.answered \subseteq Nat
        /\ \/ h'.asked = h.asked
           \/ h'.asked = h.asked \cup {<<k.generation, Serve!Handler(k)>>}
    BY <1>1 DEF ServerGood, Books
  <1> HIDE DEF q
  <1> QED
    BY <1>1, <1>2, <1>3, <1>4, <1>5, <1>6, ChangeGood

\* One turn of a poll.
LEMMA PollConnectionGood ==
    ASSUME ServerGood(v, c, h), Serve!PollConnection
    PROVE  ServerGood(v', c', h')
  <1>1. v.todo # <<>> /\ Head(v.todo) \in Serve!Slots
    BY NextTurn DEF Serve!PollConnection, ServerGood
  <1> QED
    BY <1>1, PollEndsGood, PollIdleGood, HandshakeFailsGood, HandshakeOverGood, PollWtpGood, PollWriteGood,
       PollNotifyGood, PollKeepAliveGood, PollRequestGood DEF Serve!PollConnection

-----------------------------------------------------------------------------

\* The turns of a poll are those of the connections that are not reserved.
LEMMA PollingView ==
    ASSUME View(v), NEW p \in [pcb : Nat, slot : {0, 1, 2}, softap : BOOLEAN, plain : BOOLEAN],
           NEW sta, NEW ap, NEW g \in Nat
    PROVE  /\ View(Serve!Polling(p, sta, ap, g)) /\ Serve!Polling(p, sta, ap, g).pending = p
           /\ Serve!Polling(p, sta, ap, g).open = v.open
           /\ Serve!Polling(p, sta, ap, g).generation = g
  <1>1. v.turn \in {1, 2} /\ 3 - v.turn \in {1, 2}
    BY DEF View
  <1>2. Serve!Turns(p.slot) \in Seq({1, 2})
    <2>1. \A a, b \in {1, 2} : <<a>> \in Seq({1, 2}) /\ <<a, b>> \in Seq({1, 2})
      OBVIOUS
    <2>2. <<v.turn>> \in Seq({1, 2}) /\ <<3 - v.turn>> \in Seq({1, 2})
          /\ <<v.turn, 3 - v.turn>> \in Seq({1, 2})
      BY <1>1, <2>1
    <2> QED
      BY <2>2, Zenon DEF Serve!Turns
  <1> QED
    BY <1>1, <1>2 DEF Serve!Polling, View, ViewFields

\* A pending socket that is late, or plain beside a WTP connection, is refused.
LEMMA RefusePendingGood ==
    ASSUME ServerGood(v, c, h), NEW sta, NEW ap, NEW expired, Serve!RefusePending(sta, ap, expired)
    PROVE  ServerGood(v', c', h')
  <1> USE TwoSlots
  <1>1. /\ View(v') /\ v'.generation = v.generation /\ v'.pending = Serve!Nobody /\ v'.open = v.open
        /\ v.generation \in Nat
    BY NobodyTyped, PollingView DEF Serve!RefusePending, ServerGood, View
  <1>2. \/ v.pending.slot = 0 /\ c' = c
        \/ /\ v.pending.slot \in Serve!Slots /\ c' = [c EXCEPT ![v.pending.slot] = Serve!Idle]
           /\ Serve!Free(c[v.pending.slot])
    BY DEF Serve!RefusePending, Serve!DropPending, Serve!ResetSlot, ServerGood, View, Waiting
  <1>3. DOMAIN c = Serve!Slots
    BY DEF ServerGood, Connections
  <1>4. Waiting(v', c')
    BY <1>1, <1>2, <1>3, NobodyTyped, IdleGood DEF ServerGood, Waiting
  <1>5. Shut(v', c')
    BY <1>1, <1>2, <1>3, NobodyTyped, IdleGood DEF ServerGood, Shut
  <1>6. h' = Serve!Called(h)
    BY DEF Serve!RefusePending
  <1> QED
    BY <1>1, <1>2, <1>4, <1>5, <1>6, QuietGood, CalledSame DEF ServerGood

\* A pending socket that cannot be admitted yet stays.
LEMMA KeepPendingGood ==
    ASSUME ServerGood(v, c, h), NEW sta, NEW ap, Serve!KeepPending(sta, ap)
    PROVE  ServerGood(v', c', h')
  <1>1. /\ View(v') /\ v'.generation = v.generation /\ v'.pending = v.pending /\ v'.open = v.open
        /\ v.generation \in Nat
    BY PollingView DEF Serve!KeepPending, ServerGood, View
  <1>2. Waiting(v', c') /\ Shut(v', c') /\ c' = c /\ h' = Serve!Called(h)
    BY <1>1 DEF Serve!KeepPending, ServerGood, Waiting, Shut
  <1> QED
    BY <1>1, <1>2, QuietGood, CalledSame DEF ServerGood

\* The slot that the pending socket gets has no client, and no bytes but its own.
LEMMA PlaceFree ==
    ASSUME ServerGood(v, c, h), Serve!Place # 0
    PROVE  /\ Serve!Place \in Serve!Slots /\ Serve!Free(c[Serve!Place])
           /\ c[Serve!Place].rx \in {0, v.pending.pcb}
           /\ v.pending.slot # 0 => v.pending.slot = Serve!Place
  <1> DEFINE p == Serve!Place
  <1>1. p \in Serve!Slots /\ Serve!Free(c[p]) /\ (v.pending.slot # 0 => v.pending.slot = p)
    BY FirstFreeIs, TwoSlots DEF Serve!Place, ServerGood, View, Waiting
  <1>2. Connection(c[p], h.answered)
    BY <1>1 DEF ServerGood, Connections
  <1>3. c[p].client = 0 /\ ~c[p].gone
    BY <1>1, <1>2 DEF Connection, Serve!Free
  <1>4. Waiting(v, c)
    BY DEF ServerGood
  <1> HIDE DEF p
  <1>5. c[p].rx \in {0, v.pending.pcb}
    BY <1>1, <1>3, <1>4 DEF Waiting
  <1> QED
    BY <1>1, <1>5 DEF p

\* activate(): the pending socket becomes a client under a generation of its own.
LEMMA AdmitGood ==
    ASSUME ServerGood(v, c, h), NEW sta, NEW ap, NEW setup \in BOOLEAN, Serve!AdmitPending(sta, ap, setup),
           setup \/ v.pending.plain
    PROVE  ServerGood(v', c', h')
  <1> DEFINE i == Serve!Place
             k == c[i]
             p == v.pending
             n == v.generation + 1
             q == Serve!Activated(k, p, n, setup)
  <1>1. /\ i \in Serve!Slots /\ Serve!Free(k) /\ k.rx \in {0, p.pcb} /\ (p.slot # 0 => p.slot = i)
    BY PlaceFree DEF Serve!AdmitPending
  <1>2. /\ c' = [c EXCEPT ![i] = q] /\ h' = Serve!Called(h) /\ p.pcb # 0
        /\ v' = Serve!Polling(Serve!Nobody, sta, ap, n)
        /\ ~(p.plain /\ Serve!WtpOccupied)
    BY DEF Serve!AdmitPending, Serve!Admissible
  <1>3. /\ v.generation \in Nat /\ n \in Nat /\ p.pcb \in Nat /\ p.plain \in BOOLEAN /\ p.softap \in BOOLEAN
    BY DEF ServerGood, View
  <1>4. View(v') /\ v'.pending = Serve!Nobody /\ v'.open = v.open /\ v'.generation = n
    BY <1>2, <1>3, PollingView, NobodyTyped DEF ServerGood
  <1>5. Connection(k, h.answered) /\ k.generation = 0
    BY <1>1 DEF ServerGood, Connections, Serve!Free
  <1>6. k.remaining = -1 /\ ~k.gone /\ ~k.endpoint /\ k.client = 0
    BY <1>5 DEF Connection
  <1>7. n # 0 /\ n > v.generation
    BY <1>3
  <1> HIDE DEF n
  <1>8. /\ Connection(q, h.answered) /\ q.generation = n /\ q.client = p.pcb /\ q.rx = k.rx
        /\ q.endpoint => p.plain
    <2>1. CASE p.plain
      BY <1>3, <1>5, <1>6, <1>7, <2>1 DEF Serve!Activated, Connection, ConnectionFields
    <2>2. CASE ~p.plain
      BY <1>3, <1>5, <1>6, <1>7, <2>2 DEF Serve!Activated, Connection, ConnectionFields
    <2> QED
      BY <1>3, <2>1, <2>2
  <1> HIDE DEF q
  <1>9. DOMAIN c = Serve!Slots /\ c'[i] = q /\ \A j \in Serve!Slots : j # i => c'[j] = c[j]
    BY <1>1, <1>2 DEF ServerGood, Connections
  <1>10. Waiting(v', c')
    <2>1. Waiting(v, c)
      BY DEF ServerGood
    <2>2. v'.pending.pcb = 0 /\ v'.pending.slot = 0
      BY <1>4, NobodyTyped
    <2> HIDE DEF i, k, p
    <2>3. SUFFICES ASSUME NEW j \in Serve!Slots, c'[j].rx # 0
                   PROVE  c'[j].rx = c'[j].client \/ c'[j].gone
      BY <2>2 DEF Waiting
    <2>4. CASE j = i
      BY <1>1, <1>8, <1>9, <2>3, <2>4
    <2>5. CASE j # i
      <3>1. c'[j] = c[j] /\ v.pending.slot # j
        BY <1>1, <1>9, <2>5, TwoSlots DEF p
      <3> QED
        BY <2>1, <2>3, <3>1 DEF Waiting
    <2> QED
      BY <2>4, <2>5
  <1>11. Shut(v', c')
    BY <1>2, <1>4 DEF ServerGood, Shut
  <1>12. /\ Books(h') /\ h'.answered = h.answered /\ h'.asked = h.asked /\ h'.done = h.done
    BY <1>2, CalledSame DEF ServerGood
  <1>13. Known(v', h')
    BY <1>3, <1>4, <1>7, <1>12 DEF ServerGood, Known, Books
  <1>14. q.client # 0 /\ q.endpoint => ~(c[3 - i].client # 0 /\ c[3 - i].endpoint)
    BY <1>1, <1>2, <1>8, TwoSlots DEF Serve!WtpOccupied, ServerGood, Connections, Connection
  <1>15. n <= v'.generation /\ v'.generation >= v.generation
    BY <1>3, <1>4, <1>7
  <1> QED
    BY <1>1, <1>2, <1>4, <1>7, <1>8, <1>10, <1>11, <1>12, <1>13, <1>14, <1>15, EndGood

\* A connection that cannot be set up ends as it began.
LEMMA AdmitFailsGood ==
    ASSUME ServerGood(v, c, h), NEW sta, NEW ap, NEW setup \in BOOLEAN, Serve!AdmitPending(sta, ap, setup),
           ~(setup \/ v.pending.plain)
    PROVE  ServerGood(v', c', h')
  <1> DEFINE i == Serve!Place
             n == v.generation + 1
             t == [Serve!Idle EXCEPT !.generation = n, !.softap = v.pending.softap]
             y == Serve!Called(h)
  <1>1. i \in Serve!Slots /\ (v.pending.slot # 0 => v.pending.slot = i)
    BY PlaceFree DEF Serve!AdmitPending
  <1>2. /\ c' = [c EXCEPT ![i] = Serve!Idle] /\ h' = Serve!Finish(y, t, FALSE)
        /\ v' = Serve!Polling(Serve!Nobody, sta, ap, n)
    BY DEF Serve!AdmitPending, Serve!Activated
  <1>3. v.generation \in Nat /\ n \in Nat /\ n > v.generation
    BY DEF ServerGood, View
  <1>4. View(v') /\ v'.pending = Serve!Nobody /\ v'.open = v.open /\ v'.generation = n
    BY <1>2, <1>3, PollingView, NobodyTyped DEF ServerGood
  <1>5. /\ Books(y) /\ y.done = h.done /\ y.asked = h.asked /\ y.answered = h.answered
    BY CalledSame DEF ServerGood
  <1>6. t.generation = n
    BY DEF Serve!Idle
  <1>7. \A o \in h.done : o[1] \in Nat /\ o[1] <= v.generation
    BY DEF ServerGood, Books, Known
  <1>8. \A a \in h.asked : a[1] \in Nat /\ a[1] <= v.generation
    BY DEF ServerGood, Books, Known
  <1> HIDE DEF n, y, t
  <1>9. Known(v', y)
    BY <1>3, <1>4, <1>5, <1>7, <1>8 DEF Known
  <1>10. Unfinished(t, y)
    BY <1>3, <1>5, <1>6, <1>7, <1>8 DEF Unfinished
  <1>11. Finishable(v', y, t, FALSE)
    BY <1>3, <1>4, <1>5, <1>6, <1>9, <1>10 DEF Finishable
  <1>12. Finished(v', y, t, h')
    BY <1>2, <1>11, FinishGood
  <1>13. \A o \in h'.done : o \in h.done \/ (o[1] > v.generation /\ o[1] # 0)
    BY <1>3, <1>5, <1>6, <1>12 DEF Finished
  <1>14. DOMAIN c = Serve!Slots /\ c'[i] = Serve!Idle
         /\ \A j \in Serve!Slots : j # i => c'[j] = c[j]
    BY <1>1, <1>2 DEF ServerGood, Connections
  <1>15. Waiting(v', c')
    <2>1. Waiting(v, c)
      BY DEF ServerGood
    <2>2. v'.pending.pcb = 0 /\ v'.pending.slot = 0
      BY <1>4, NobodyTyped
    <2> HIDE DEF i
    <2>3. SUFFICES ASSUME NEW j \in Serve!Slots, c'[j].rx # 0
                   PROVE  c'[j].rx = c'[j].client \/ c'[j].gone
      BY <2>2 DEF Waiting
    <2>4. j # i
      BY <1>14, <2>3, IdleGood
    <2>5. c'[j] = c[j] /\ v.pending.slot # j
      BY <1>1, <1>14, <2>4, TwoSlots
    <2> QED
      BY <2>1, <2>3, <2>5 DEF Waiting
  <1>16. Shut(v', c')
    BY <1>4, <1>14, NobodyTyped, IdleGood DEF ServerGood, Shut
  <1>17. /\ Books(h') /\ Known(v', h') /\ h'.answered = h.answered /\ h'.asked = h.asked
    BY <1>5, <1>12 DEF Finished
  <1>18. Serve!Idle.generation <= v'.generation /\ v'.generation >= v.generation
    BY <1>3, <1>4, IdleGood
  <1> QED
    BY <1>1, <1>2, <1>4, <1>13, <1>15, <1>16, <1>17, <1>18, IdleGood, EndGood

\* poll() before the turns of its connections.
LEMMA PollGood ==
    ASSUME ServerGood(v, c, h), NEW sta \in BOOLEAN, NEW ap \in BOOLEAN, NEW expired \in BOOLEAN,
           NEW setup \in BOOLEAN, Serve!Poll(sta, ap, expired, setup)
    PROVE  ServerGood(v', c', h')
  <1>1. CASE Serve!LinksDown(sta, ap)
    <2>1. View(v') /\ v'.generation = v.generation /\ v'.pending = Serve!Nobody
      BY <1>1, NobodyTyped DEF Serve!LinksDown, ServerGood, View, ViewFields
    <2> QED
      BY <1>1, <2>1, AllEnd DEF Serve!LinksDown
  <1> QED
    BY <1>1, RefusePendingGood, KeepPendingGood, AdmitGood, AdmitFailsGood DEF Serve!Poll

\* A server that is off.
LEMMA ServerStart ==
    ASSUME Serve!Init
    PROVE  ServerGood(v, c, h)
  <1>1. DOMAIN c = Serve!Slots /\ \A i \in Serve!Slots : c[i] = Serve!Idle
    BY DEF Serve!Init
  <1>2. View(v) /\ v.open /\ v.pending = Serve!Nobody /\ v.generation = 0
    BY NobodyTyped, EmptySeq DEF Serve!Init, View, ViewFields
  <1>3. Books(h) /\ h.done = {} /\ h.asked = {}
    BY DEF Serve!Init, Books
  <1>4. Connections(v, c, h.answered)
    BY <1>1, <1>2, IdleGood, TwoSlots DEF Connections
  <1> QED
    BY <1>1, <1>2, <1>3, <1>4, IdleGood, NobodyTyped DEF ServerGood, Live, Unfinished, Known, Waiting, Shut, Alone

\* Every callback and turn keeps the invariant.
LEMMA ServerStep ==
    ASSUME ServerGood(v, c, h), Serve!Next
    PROVE  ServerGood(v', c', h')
  BY StartGood, StopGood, SetAdmissionGood, AcceptGood, PendingReceiveGood, PendingLostGood, ReceiveGood,
     PeerFinGood, PeerResetGood, SentGood, PollGood, PollConnectionGood DEF Serve!Next

\* The invariant has what the server promises.
LEMMA ServerGoodSound ==
    ASSUME ServerGood(v, c, h)
    PROVE  Serve!WtpExclusive /\ Serve!AppliedAcknowledged /\ Serve!BytesOwned /\ Serve!AdmissionHeld
  BY DEF ServerGood, Alone, Books, Waiting, Shut, Serve!WtpExclusive, Serve!AppliedAcknowledged,
         Serve!BytesOwned, Serve!AdmissionHeld

\* At most one WTP connection, a change applied once and only when its own response was
\* acknowledged, bytes that belong to their socket, and no socket while admission is closed
\* (network/pico/server.cpp).
THEOREM ServerHolds == Spec => []ServerSound
  <1> DEFINE Inv == focus = "server" => ServerGood(v, c, h)
  <1>1. Init => Inv
    BY ServerStart DEF Init
  <1>2. Inv /\ [Next]_vars => Inv'
    <2>1. ASSUME Inv, Next PROVE Inv'
      BY <2>1, ServerStep DEF Next
    <2>2. ASSUME Inv, UNCHANGED vars PROVE Inv'
      BY <2>2 DEF vars
    <2> QED
      BY <2>1, <2>2
  <1>3. Inv => ServerSound
    BY ServerGoodSound DEF ServerSound
  <1> QED
    BY <1>1, <1>2, <1>3, PTL DEF Spec

-----------------------------------------------------------------------------
(* The setup server (Bootstrap).                                           *)

\* What the setup server keeps.
SetupFields ==
    {"slot", "digest", "verifier", "trial", "prev", "switched", "pend", "deliv", "join", "gate", "restart",
     "ack", "own", "otrial", "oprev", "oswitched", "opend", "odeliv", "oactive", "oreq", "rec", "orestart",
     "result", "prog", "expected", "login", "tx", "path", "shows", "rslot", "reset", "serial", "due", "ap",
     "sta", "apok", "adm", "safe", "src", "gen", "net", "boot", "healthy", "access", "station", "link",
     "radio", "idle", "rev", "reboot"}

\* A slot of the network or of the owner, and its states.
SlotFields == {"st", "sid", "req", "gen", "ok"}

\* The states of a slot.
SlotKinds == {"none", "granted", "trial", "terminal"}

\* A setup world: what the server works on.
SetupWorld(w) ==
    /\ DOMAIN w = SetupFields /\ DOMAIN w.slot = SlotFields /\ DOMAIN w.own = SlotFields
    /\ DOMAIN w.result = {"gen", "req", "told"}
    /\ w.slot.st \in SlotKinds /\ w.own.st \in SlotKinds

\* One setup at a time; and a result that waits for the restart admits no other claim.
Apart(w) ==
    /\ w.slot.st = "none" \/ w.own.st = "none"
    /\ w.rslot # 0 => w.slot.st = "none" /\ w.own.st \in {"none", "terminal"}
    /\ w.orestart => w.own.st \in {"none", "terminal"}

\* The station is on a network of n unless a trial has it, and what a trial keeps is its own. A
\* trial that has lapsed (l) may leave its traces.
Undone(w, n, l) ==
    /\ (~w.switched /\ ~w.oswitched /\ w.gate # "reconcile" /\ ~w.rec) => w.station \in n \cup {w.net}
    /\ w.prev \in n /\ w.oprev \in n
    /\ w.trial # 0 \/ w.prev # 0 \/ w.switched => w.slot.st = "trial" \/ l
    /\ w.otrial # 0 \/ w.oprev # 0 \/ w.oswitched \/ w.oactive \/ w.opend \/ w.odeliv => w.own.st = "trial"
    /\ w.slot.st = "trial" /\ ~w.pend /\ w.join => w.station = w.trial

\* A trial that goes on has had its answer delivered (a).
Heard(w, a) ==
    /\ w.slot.st = "trial" => (w.pend \/ w.slot.req \in a) /\ (w.deliv => w.slot.req \in a)
    /\ w.own.st = "trial" => (w.oactive \/ w.odeliv => w.own.req \in a)
    /\ w.tx # 0 /\ w.path \in {"submit", "forged"} /\ w.slot.st = "trial" => w.slot.req = w.tx
    /\ w.tx # 0 /\ w.path = "osubmit" /\ w.own.st = "trial" => w.own.req = w.tx

\* What holds of the world at every step: n are the networks held, a the answers delivered.
SetupGood(w, n, a, l) ==
    SetupWorld(w) /\ Apart(w) /\ Undone(w, n, l) /\ Heard(w, a) /\ 0 \in n

\* What every step but a request and a commit leaves: no new slot, trial or result.
Onward(w, x) ==
    /\ x.slot.st = "none" \/ x.slot = w.slot \/ (w.slot.st = "trial" /\ x.slot.st = "terminal")
    /\ x.own.st = "none" \/ x.own = w.own \/ (w.own.st = "trial" /\ x.own.st = "terminal")
    /\ x.gen = w.gen /\ x.net = w.net /\ x.result = w.result /\ x.orestart = w.orestart
    /\ x.tx = w.tx /\ x.path = w.path /\ x.shows = w.shows /\ x.rslot \in {0, w.rslot}

\* A step that keeps it and begins nothing.
Kept(w, x, n, a, l) == SetupGood(x, n, a, l) /\ Onward(w, x)

\* Two steps that begin nothing are one.
LEMMA OnwardTwice ==
    ASSUME NEW w, NEW x, NEW y, Onward(w, x), Onward(x, y)
    PROVE  Onward(w, y)
  BY DEF Onward

\* The fields of the network slot, of the owner's slot, and those that are of neither.
OwnerSame(w, x) ==
    /\ x.own = w.own /\ x.otrial = w.otrial /\ x.oprev = w.oprev /\ x.oswitched = w.oswitched
    /\ x.opend = w.opend /\ x.odeliv = w.odeliv /\ x.oactive = w.oactive

\* The network slot and what its trial keeps are as they were.
NetworkSame(w, x) ==
    /\ x.slot = w.slot /\ x.trial = w.trial /\ x.prev = w.prev /\ x.switched = w.switched
    /\ x.pend = w.pend /\ x.deliv = w.deliv /\ x.join = w.join

\* What belongs to neither slot is as it was.
RestSame(w, x) ==
    /\ x.gate = w.gate /\ x.rec = w.rec /\ x.net = w.net /\ x.gen = w.gen /\ x.result = w.result
    /\ x.orestart = w.orestart /\ x.tx = w.tx /\ x.path = w.path /\ x.shows = w.shows /\ x.rslot = w.rslot

\* What the properties see is the same.
AllSame(w, x) ==
    SetupWorld(x) /\ OwnerSame(w, x) /\ NetworkSame(w, x) /\ RestSame(w, x) /\ x.station = w.station

\* A change of what the invariant does not read.
LEMMA SameGood ==
    ASSUME NEW w, NEW x, NEW n, NEW a, NEW l, SetupGood(w, n, a, l), AllSame(w, x)
    PROVE  Kept(w, x, n, a, l)
  <1> USE DEF AllSame, OwnerSame, NetworkSame, RestSame, SetupGood
  <1>1. Apart(x)
    BY DEF Apart
  <1>2. Undone(x, n, l)
    BY DEF Undone
  <1>3. Heard(x, a)
    BY DEF Heard
  <1> QED
    BY <1>1, <1>2, <1>3 DEF Kept, Onward

\* restore_bootstrap(): the station goes back to where it was when the trial took it.
LEMMA RestoreBootstrapIs ==
    ASSUME NEW w, SetupWorld(w)
    PROVE  LET x == Boot!RestoreBootstrap(w)
           IN  /\ SetupWorld(x) /\ OwnerSame(w, x) /\ RestSame(w, x) /\ ~x.switched
               /\ x.slot = w.slot /\ x.trial = w.trial /\ x.prev = w.prev /\ x.pend = w.pend
               /\ x.deliv = w.deliv /\ x.join = w.join
               /\ IF w.switched THEN x.station \in {w.prev, 0} ELSE x.station = w.station
  BY DEF SetupWorld, SetupFields, OwnerSame, RestSame, Boot!RestoreBootstrap

\* The network slot is gone, or has ended, with what its trial kept.
SlotEnded(w, x) ==
    /\ SetupWorld(x) /\ OwnerSame(w, x) /\ RestSame(w, x) /\ x.trial = 0 /\ x.prev = 0
    /\ x.slot.st = "none" \/ (w.slot.st = "trial" /\ x.slot.st = "terminal")
    /\ IF w.slot.st = "trial" THEN ~x.switched ELSE x.switched = w.switched
    /\ x.station = w.station \/ (w.slot.st = "trial" /\ x.station \in {w.prev, 0})
    /\ w.slot.st = "trial" /\ w.switched => x.station \in {w.prev, 0}

\* The end of a network slot keeps the invariant.
LEMMA SlotEndedGood ==
    ASSUME NEW w, NEW x, NEW n, NEW a, NEW l, SetupGood(w, n, a, l), SlotEnded(w, x)
    PROVE  Kept(w, x, n, a, l)
  <1> USE DEF SlotEnded, OwnerSame, RestSame, SetupGood
  <1>1. Apart(x)
    BY DEF Apart
  <1>2. Undone(x, n, l)
    BY DEF Undone, Apart
  <1>3. Heard(x, a)
    BY DEF Heard
  <1> QED
    BY <1>1, <1>2, <1>3 DEF Kept, Onward

\* cancel_slot(): the slot goes with all that its trial kept.
LEMMA CancelSlotGood ==
    ASSUME NEW w, NEW n, NEW a, NEW l, SetupGood(w, n, a, l)
    PROVE  Kept(w, Boot!CancelSlot(w), n, a, l) /\ Boot!CancelSlot(w).slot.st = "none"
  <1> DEFINE y == IF w.slot.st = "trial" THEN Boot!RestoreBootstrap(w) ELSE w
             x == Boot!CancelSlot(w)
  <1>1. /\ SetupWorld(y) /\ OwnerSame(w, y) /\ RestSame(w, y)
        /\ IF w.slot.st = "trial" THEN ~y.switched ELSE y.switched = w.switched
        /\ IF w.slot.st = "trial" /\ w.switched THEN y.station \in {w.prev, 0} ELSE y.station = w.station
    BY RestoreBootstrapIs DEF SetupGood, OwnerSame, RestSame
  <1>2. x = [y EXCEPT !.login = 0, !.join = FALSE, !.slot = Boot!NoSlot, !.digest = 0, !.verifier = 0,
                      !.trial = 0, !.prev = 0, !.pend = FALSE, !.deliv = FALSE,
                      !.due = @ \ {"slot", "join", "deliver"}]
    BY DEF Boot!CancelSlot
  <1> HIDE DEF y, x
  <1>3. /\ SetupWorld(x) /\ OwnerSame(y, x) /\ RestSame(y, x) /\ x.trial = 0 /\ x.prev = 0
        /\ x.slot = Boot!NoSlot /\ x.switched = y.switched /\ x.station = y.station
    <2>1. DOMAIN y = SetupFields
      BY <1>1 DEF SetupWorld
    <2>2. DOMAIN x = SetupFields /\ x.result = y.result
      BY <1>2, <2>1 DEF SetupFields
    <2>3. OwnerSame(y, x)
      BY <1>2, <2>1 DEF SetupFields, OwnerSame
    <2>4. RestSame(y, x)
      BY <1>2, <2>1 DEF SetupFields, RestSame
    <2>5. /\ x.trial = 0 /\ x.prev = 0
          /\ x.slot = Boot!NoSlot /\ x.switched = y.switched /\ x.station = y.station
      BY <1>2, <2>1 DEF SetupFields
    <2>6. DOMAIN x.slot = SlotFields /\ x.slot.st \in SlotKinds
      BY <2>5 DEF SlotFields, SlotKinds, Boot!NoSlot
    <2>7. SetupWorld(x)
      BY <1>1, <2>2, <2>3, <2>6 DEF SetupWorld, OwnerSame
    <2> QED
      BY <2>3, <2>4, <2>5, <2>7
  <1>4. x.slot.st = "none"
    BY <1>3 DEF Boot!NoSlot
  <1>5. SlotEnded(w, x)
    BY <1>1, <1>3, <1>4 DEF SlotEnded, OwnerSame, RestSame
  <1> QED
    BY <1>4, <1>5, SlotEndedGood DEF x

\* cancel() of the slot alone: only a trial that has lapsed leaves its traces.
LEMMA DropSlotGood ==
    ASSUME NEW w, NEW n, NEW a, NEW l, SetupGood(w, n, a, l), w.slot.st = "trial" => l
    PROVE  Kept(w, Boot!DropSlot(w), n, a, l) /\ Boot!DropSlot(w).slot.st = "none"
  BY DEF SetupGood, SetupWorld, Apart, Undone, Heard, Onward, Kept, SetupFields, SlotFields, SlotKinds, Boot!DropSlot, Boot!NoSlot

\* finish(), after a trial.
LEMMA FinishSlotIs ==
    ASSUME NEW w, NEW ok, SetupWorld(w)
    PROVE  LET x == Boot!FinishSlot(w, ok)
           IN  /\ SetupWorld(x) /\ OwnerSame(w, x) /\ RestSame(w, x) /\ x.station = w.station
               /\ x.trial = w.trial /\ x.prev = w.prev /\ x.switched = w.switched
               /\ w.slot.st = "trial" => x.slot.st \in {"none", "terminal"}
  <1> DEFINE x == Boot!FinishSlot(w, ok)
  <1>1. CASE Boot!SlotExpired(w)
    BY <1>1 DEF SetupWorld, SetupFields, SlotFields, SlotKinds, OwnerSame, RestSame, Boot!FinishSlot, Boot!DropSlot, Boot!NoSlot
  <1>2. CASE ~Boot!SlotExpired(w) /\ w.slot.st # "trial"
    BY <1>2 DEF OwnerSame, RestSame, Boot!FinishSlot
  <1>3. CASE ~Boot!SlotExpired(w) /\ w.slot.st = "trial"
    <2> DEFINE q == [w.slot EXCEPT !.st = "terminal", !.sid = 0, !.ok = ok]
    <2>1. DOMAIN q = SlotFields /\ q.st = "terminal"
      BY DEF SetupWorld, SlotFields
    <2>2. x = [w EXCEPT !.slot = q, !.due = @ \ {"slot"}]
      BY <1>3 DEF Boot!FinishSlot
    <2> HIDE DEF q
    <2> QED
      BY <2>1, <2>2 DEF SetupWorld, SetupFields, SlotKinds, OwnerSame, RestSame
  <1> QED
    BY <1>1, <1>2, <1>3

\* end_trial(): what it changes.
LEMMA EndTrialIs ==
    ASSUME NEW w, NEW ok \in BOOLEAN, SetupWorld(w), w.slot.st = "trial"
    PROVE  LET x == Boot!EndTrial(w, ok)
           IN  /\ SetupWorld(x) /\ OwnerSame(w, x) /\ RestSame(w, x) /\ x.trial = 0 /\ x.prev = 0
               /\ x.slot.st \in {"none", "terminal"} /\ ~x.switched
               /\ IF w.switched /\ ~ok THEN x.station \in {w.prev, 0} ELSE x.station = w.station
  <1> DEFINE y == IF ok THEN w ELSE Boot!RestoreBootstrap(w)
             z == [y EXCEPT !.switched = FALSE, !.trial = 0, !.prev = 0, !.join = FALSE, !.pend = FALSE,
                   !.deliv = FALSE, !.verifier = IF ok THEN @ ELSE 0,
                   !.restart = @ \/ ok, !.ack = IF ok THEN FALSE ELSE @,
                   !.due = @ \ (IF ok THEN {"join", "deliver", "commit"} ELSE {"join", "deliver"})]
             x == Boot!EndTrial(w, ok)
  <1>1. /\ SetupWorld(y) /\ OwnerSame(w, y) /\ RestSame(w, y) /\ y.slot = w.slot
        /\ IF w.switched /\ ~ok THEN y.station \in {w.prev, 0} ELSE y.station = w.station
    BY RestoreBootstrapIs DEF OwnerSame, RestSame
  <1>2. x = Boot!FinishSlot(z, ok)
    BY DEF Boot!EndTrial
  <1> HIDE DEF y, x
  <1>3. /\ SetupWorld(z) /\ OwnerSame(y, z) /\ RestSame(y, z) /\ z.slot = y.slot /\ z.trial = 0
        /\ z.prev = 0 /\ ~z.switched /\ z.station = y.station
    <2>1. DOMAIN y = SetupFields
      BY <1>1 DEF SetupWorld
    <2>2. DOMAIN z = SetupFields /\ z.slot = y.slot /\ z.result = y.result
      BY <2>1 DEF SetupFields
    <2>3. OwnerSame(y, z)
      BY <2>1 DEF SetupFields, OwnerSame
    <2>4. RestSame(y, z)
      BY <2>1 DEF SetupFields, RestSame
    <2>5. z.trial = 0 /\ z.prev = 0 /\ ~z.switched /\ z.station = y.station
      BY <2>1 DEF SetupFields
    <2> HIDE DEF z
    <2>6. SetupWorld(z)
      BY <1>1, <2>2, <2>3 DEF SetupWorld, OwnerSame
    <2> QED
      BY <2>2, <2>3, <2>4, <2>5, <2>6
  <1> HIDE DEF z
  <1> QED
    BY <1>1, <1>2, <1>3, FinishSlotIs DEF OwnerSame, RestSame, x

\* The end of a trial that committed nothing.
LEMMA EndTrialGood ==
    ASSUME NEW w, NEW n, NEW a, NEW l, SetupGood(w, n, a, l), w.slot.st = "trial"
    PROVE  Kept(w, Boot!EndTrial(w, FALSE), n, a, l)
  <1> DEFINE x == Boot!EndTrial(w, FALSE)
  <1>1. SlotEnded(w, x)
    BY EndTrialIs DEF SetupGood, SlotEnded
  <1> QED
    BY <1>1, SlotEndedGood

\* Two steps that keep it are one.
LEMMA KeptTwice ==
    ASSUME NEW w, NEW x, NEW y, NEW n, NEW a, NEW l, Kept(w, x, n, a, l), Kept(x, y, n, a, l)
    PROVE  Kept(w, y, n, a, l)
  BY OnwardTwice DEF Kept

\* No step at all.
LEMMA KeptSelf ==
    ASSUME NEW w, NEW n, NEW a, NEW l, SetupGood(w, n, a, l)
    PROVE  Kept(w, w, n, a, l)
  BY DEF Kept, Onward

\* What such a step leaves.
LEMMA KeptGood ==
    ASSUME NEW w, NEW x, NEW n, NEW a, NEW l, Kept(w, x, n, a, l)
    PROVE  SetupGood(x, n, a, l)
  BY DEF Kept

\* restore_owner(): the same for a claim.
LEMMA RestoreOwnerIs ==
    ASSUME NEW w, SetupWorld(w)
    PROVE  LET x == Boot!RestoreOwner(w)
           IN  /\ SetupWorld(x) /\ NetworkSame(w, x) /\ RestSame(w, x) /\ x.own = w.own
               /\ IF w.oswitched THEN x.station \in {w.oprev, 0} ELSE x.station = w.station
  BY DEF SetupWorld, SetupFields, NetworkSame, RestSame, Boot!RestoreOwner

\* The owner's slot is gone, or has ended, with what its trial kept.
OwnerEnded(w, x) ==
    /\ SetupWorld(x) /\ NetworkSame(w, x) /\ RestSame(w, x) /\ x.otrial = 0 /\ x.oprev = 0
    /\ ~x.oswitched /\ ~x.oactive /\ ~x.opend /\ ~x.odeliv
    /\ x.own.st = "none" \/ (w.own.st = "trial" /\ x.own.st = "terminal")

\* The end of an owner's slot keeps the invariant.
LEMMA OwnerEndedGood ==
    ASSUME NEW w, NEW x, NEW n, NEW a, NEW l, SetupGood(w, n, a, l), OwnerEnded(w, x),
           IF w.oswitched THEN x.station \in {w.oprev, 0} ELSE x.station = w.station
    PROVE  Kept(w, x, n, a, l)
  <1> USE DEF OwnerEnded, NetworkSame, RestSame, SetupGood
  <1>1. Apart(x)
    BY DEF Apart
  <1>2. Undone(x, n, l)
    BY DEF Undone, Apart
  <1>3. Heard(x, a)
    BY DEF Heard
  <1> QED
    BY <1>1, <1>2, <1>3 DEF Kept, Onward

\* cancel_owner_slot(): what it changes.
LEMMA CancelOwnerIs ==
    ASSUME NEW w, NEW restore \in BOOLEAN, SetupWorld(w)
    PROVE  LET x == Boot!CancelOwnerSlot(w, restore)
           IN  /\ OwnerEnded(w, x) /\ x.own.st = "none"
               /\ IF w.oswitched /\ restore THEN x.station \in {w.oprev, 0} ELSE x.station = w.station
  <1> DEFINE y == IF restore THEN Boot!RestoreOwner(w) ELSE w
             x == Boot!CancelOwnerSlot(w, restore)
             r == IF w.orestart THEN y.oreq ELSE 0
  <1>1. /\ SetupWorld(y) /\ NetworkSame(w, y) /\ RestSame(w, y)
        /\ IF w.oswitched /\ restore THEN y.station \in {w.oprev, 0} ELSE y.station = w.station
    BY RestoreOwnerIs DEF NetworkSame, RestSame
  <1>2. x = [y EXCEPT !.prog = "no", !.expected = 0, !.login = 0, !.oswitched = FALSE, !.own = Boot!NoSlot,
                      !.otrial = 0, !.oprev = 0, !.oreq = r, !.oactive = FALSE,
                      !.opend = FALSE, !.odeliv = FALSE, !.due = @ \ {"owner"}]
    BY DEF Boot!CancelOwnerSlot
  <1> HIDE DEF y, x, r
  <1>3. DOMAIN y = SetupFields
    BY <1>1 DEF SetupWorld
  <1>4. DOMAIN x = SetupFields /\ x.result = y.result /\ x.slot = y.slot
    BY <1>2, <1>3 DEF SetupFields
  <1>5. NetworkSame(y, x)
    BY <1>2, <1>3 DEF SetupFields, NetworkSame
  <1>6. RestSame(y, x)
    BY <1>2, <1>3 DEF SetupFields, RestSame
  <1>7. /\ x.otrial = 0 /\ x.oprev = 0 /\ ~x.oswitched /\ ~x.oactive /\ ~x.opend /\ ~x.odeliv
        /\ x.own = Boot!NoSlot /\ x.station = y.station
    BY <1>2, <1>3 DEF SetupFields
  <1>8. x.own.st = "none" /\ DOMAIN x.own = SlotFields /\ "none" \in SlotKinds
    BY <1>7 DEF SlotFields, SlotKinds, Boot!NoSlot
  <1>9. SetupWorld(x)
    BY <1>1, <1>4, <1>8 DEF SetupWorld
  <1>10. NetworkSame(w, x) /\ RestSame(w, x)
    BY <1>1, <1>5, <1>6 DEF NetworkSame, RestSame
  <1>11. OwnerEnded(w, x)
    BY <1>7, <1>8, <1>9, <1>10 DEF OwnerEnded
  <1> QED
    BY <1>1, <1>7, <1>8, <1>11 DEF x

\* The owner's slot goes, and the station is brought back.
LEMMA CancelOwnerGood ==
    ASSUME NEW w, NEW n, NEW a, NEW l, SetupGood(w, n, a, l)
    PROVE  Kept(w, Boot!CancelOwnerSlot(w, TRUE), n, a, l) /\ Boot!CancelOwnerSlot(w, TRUE).own.st = "none"
  <1> DEFINE x == Boot!CancelOwnerSlot(w, TRUE)
  <1>1. OwnerEnded(w, x) /\ x.own.st = "none" /\ (IF w.oswitched THEN x.station \in {w.oprev, 0} ELSE x.station = w.station)
    BY CancelOwnerIs DEF SetupGood
  <1> HIDE DEF x
  <1>2. Kept(w, x, n, a, l)
    BY <1>1, OwnerEndedGood
  <1> QED
    BY <1>1, <1>2 DEF x

\* end_owner_trial(): what it changes.
LEMMA EndOwnerTrialIs ==
    ASSUME NEW w, NEW ok \in BOOLEAN, SetupWorld(w)
    PROVE  LET x == Boot!EndOwnerTrial(w, ok)
           IN  /\ SetupWorld(x) /\ NetworkSame(w, x) /\ RestSame(w, x) /\ x.otrial = 0 /\ x.oprev = 0
               /\ ~x.oswitched /\ ~x.oactive /\ ~x.opend /\ ~x.odeliv
               /\ IF ok THEN x.own = w.own
                  ELSE x.own.st = "none" \/ (w.own.st = "trial" /\ x.own.st = "terminal")
               /\ IF w.oswitched /\ ~ok THEN x.station \in {w.oprev, 0} ELSE x.station = w.station
  <1> DEFINE y == IF ok THEN w ELSE Boot!RestoreOwner(w)
             q == IF ok THEN y.own
                  ELSE IF w.idle /\ w.own.st = "trial" /\ "owner" \notin w.due
                       THEN [y.own EXCEPT !.st = "terminal", !.sid = 0, !.ok = FALSE]
                  ELSE Boot!NoSlot
             x == Boot!EndOwnerTrial(w, ok)
  <1>1. /\ SetupWorld(y) /\ NetworkSame(w, y) /\ RestSame(w, y) /\ y.own = w.own
        /\ IF w.oswitched /\ ~ok THEN y.station \in {w.oprev, 0} ELSE y.station = w.station
    BY RestoreOwnerIs DEF NetworkSame, RestSame
  <1>2. x = [y EXCEPT !.oswitched = FALSE, !.own = q, !.otrial = 0, !.oprev = 0, !.oactive = FALSE,
                      !.opend = FALSE, !.odeliv = FALSE, !.due = @ \ {"owner"}]
    BY DEF Boot!EndOwnerTrial
  <1> HIDE DEF y
  <1>0. /\ DOMAIN q = SlotFields /\ q.st \in SlotKinds
        /\ IF ok THEN q = w.own ELSE q.st = "none" \/ (w.own.st = "trial" /\ q.st = "terminal")
    <2>1. DOMAIN y.own = SlotFields /\ y.own.st \in SlotKinds
      BY <1>1 DEF SetupWorld
    <2>2. DOMAIN Boot!NoSlot = SlotFields /\ Boot!NoSlot.st = "none"
      BY DEF Boot!NoSlot, SlotFields
    <2>3. DOMAIN [y.own EXCEPT !.st = "terminal", !.sid = 0, !.ok = FALSE] = SlotFields
          /\ [y.own EXCEPT !.st = "terminal", !.sid = 0, !.ok = FALSE].st = "terminal"
      BY <2>1 DEF SlotFields
    <2> QED
      BY <1>1, <2>1, <2>2, <2>3 DEF SlotKinds
  <1> HIDE DEF x, q
  <1>3. DOMAIN y = SetupFields
    BY <1>1 DEF SetupWorld
  <1>4. DOMAIN x = SetupFields /\ x.result = y.result /\ x.slot = y.slot
    BY <1>2, <1>3 DEF SetupFields
  <1>5. NetworkSame(y, x)
    BY <1>2, <1>3 DEF SetupFields, NetworkSame
  <1>6. RestSame(y, x)
    BY <1>2, <1>3 DEF SetupFields, RestSame
  <1>7. /\ x.otrial = 0 /\ x.oprev = 0 /\ ~x.oswitched /\ ~x.oactive /\ ~x.opend /\ ~x.odeliv
        /\ x.own = q /\ x.station = y.station
    BY <1>2, <1>3 DEF SetupFields
  <1>9. SetupWorld(x)
    BY <1>0, <1>1, <1>4, <1>7 DEF SetupWorld
  <1>10. NetworkSame(w, x) /\ RestSame(w, x)
    BY <1>1, <1>5, <1>6 DEF NetworkSame, RestSame
  <1> QED
    BY <1>0, <1>1, <1>7, <1>9, <1>10 DEF x

\* The end of a claim that committed nothing.
LEMMA EndOwnerTrialGood ==
    ASSUME NEW w, NEW n, NEW a, NEW l, SetupGood(w, n, a, l)
    PROVE  Kept(w, Boot!EndOwnerTrial(w, FALSE), n, a, l)
  <1> DEFINE x == Boot!EndOwnerTrial(w, FALSE)
  <1>1. OwnerEnded(w, x) /\ (IF w.oswitched THEN x.station \in {w.oprev, 0} ELSE x.station = w.station)
    BY EndOwnerTrialIs DEF SetupGood, OwnerEnded
  <1> HIDE DEF x
  <1> QED
    BY <1>1, OwnerEndedGood DEF x

\* The failed end of an attempt makes room.
LEMMA ClearFailedGood ==
    ASSUME NEW w, NEW n, NEW a, NEW l, SetupGood(w, n, a, l)
    PROVE  Kept(w, Boot!ClearFailedSetup(w), n, a, l)
  <1> DEFINE x == IF w.slot.st = "terminal" /\ ~w.slot.ok /\ ~w.restart /\ w.gate # "reconcile"
                  THEN Boot!CancelSlot(w) ELSE w
  <1>1. Kept(w, x, n, a, l)
    BY CancelSlotGood, KeptSelf
  <1>2. Boot!ClearFailedSetup(w) = IF x.own.st = "terminal" /\ ~x.rec /\ ~x.orestart
                                   THEN Boot!CancelOwnerSlot(x, TRUE) ELSE x
    BY DEF Boot!ClearFailedSetup
  <1> HIDE DEF x
  <1>3. SetupGood(x, n, a, l)
    BY <1>1, KeptGood
  <1>4. Kept(x, Boot!CancelOwnerSlot(x, TRUE), n, a, l)
    BY <1>3, CancelOwnerGood
  <1>5. Kept(w, Boot!CancelOwnerSlot(x, TRUE), n, a, l)
    BY <1>1, <1>4, KeptTwice
  <1> QED
    BY <1>1, <1>2, <1>5, Zenon

\* Fields that nothing depends on.
LEMMA LoginForgotten ==
    ASSUME NEW w, NEW n, NEW a, NEW l, SetupGood(w, n, a, l)
    PROVE  Kept(w, [w EXCEPT !.login = 0], n, a, l)
  <1> DEFINE x == [w EXCEPT !.login = 0]
  <1>1. DOMAIN w = SetupFields
    BY DEF SetupGood, SetupWorld
  <1>2. AllSame(w, x)
    BY <1>1 DEF SetupGood, SetupWorld, SetupFields, AllSame, OwnerSame, NetworkSame, RestSame
  <1> QED
    BY <1>2, SameGood

\* A login that closes takes what it had opened and not submitted.
LEMMA LoginClosedGood ==
    ASSUME NEW w, NEW n, NEW a, NEW l, SetupGood(w, n, a, l), NEW login
    PROVE  Kept(w, Boot!SetupLoginClosed(w, login), n, a, l)
  <1> DEFINE x == IF w.slot.st = "granted" THEN Boot!CancelSlot(w) ELSE w
             y == IF x.own.st = "granted" THEN Boot!CancelOwnerSlot(x, TRUE) ELSE x
  <1>1. Kept(w, x, n, a, l)
    BY CancelSlotGood, KeptSelf
  <1>2. Boot!SetupLoginClosed(w, login) = IF login = 0 \/ login # w.login THEN w ELSE [y EXCEPT !.login = 0]
    BY DEF Boot!SetupLoginClosed
  <1>3. Kept(w, y, n, a, l)
    <2> HIDE DEF x
    <2> QED
      BY <1>1, CancelOwnerGood, KeptTwice, KeptGood
  <1> HIDE DEF y
  <1> QED
    BY <1>2, <1>3, LoginForgotten, KeptTwice, KeptGood, KeptSelf

-----------------------------------------------------------------------------

\* The poll of a network slot: its window, and the start of its trial.
LEMMA ExpireNetworkGood ==
    ASSUME NEW w, NEW n, NEW a, NEW l, SetupGood(w, n, a, l)
    PROVE  Kept(w, Boot!ExpireNetwork(w), n, a, l)
  <1> DEFINE x == IF w.slot.st \notin {"none", "terminal"} /\ w.gate # "reconcile"
                     /\ (~w.safe \/ ~Boot!NetworkSetupAuthority(w)) THEN Boot!CancelSlot(w) ELSE w
             y == IF x.slot.st # "none" /\ x.gate # "reconcile" /\ "slot" \in x.due
                  THEN Boot!CancelSlot(x) ELSE x
             z == [y EXCEPT !.digest = 0]
  <1>1. Kept(w, x, n, a, l)
    BY CancelSlotGood, KeptSelf
  <1>2. Boot!ExpireNetwork(w) = IF y.slot.st = "none" THEN z ELSE y
    BY DEF Boot!ExpireNetwork
  <1>3. Kept(w, y, n, a, l)
    <2> HIDE DEF x
    <2>1. SetupGood(x, n, a, l)
      BY <1>1, KeptGood
    <2>2. Kept(x, Boot!CancelSlot(x), n, a, l)
      BY <2>1, CancelSlotGood
    <2>3. Kept(w, Boot!CancelSlot(x), n, a, l)
      BY <1>1, <2>2, KeptTwice
    <2> QED
      BY <1>1, <2>3
  <1> HIDE DEF y
  <1>4. SetupGood(y, n, a, l)
    BY <1>3, KeptGood
  <1>5. AllSame(y, z)
    <2>1. DOMAIN y = SetupFields
      BY <1>4 DEF SetupGood, SetupWorld
    <2> QED
      BY <1>4, <2>1 DEF SetupGood, SetupWorld, SetupFields, AllSame, OwnerSame, NetworkSame, RestSame
  <1>6. Kept(w, z, n, a, l)
    BY <1>3, <1>4, <1>5, SameGood, KeptTwice
  <1> QED
    BY <1>2, <1>3, <1>6

\* The start of a trial whose answer was delivered.
LEMMA StartTrialGood ==
    ASSUME NEW w, NEW n, NEW a, NEW l, SetupGood(w, n, a, l), w.pend, w.deliv
    PROVE  Kept(w, Boot!StartTrial(w), n, a, l)
  <1> DEFINE x == [w EXCEPT !.pend = FALSE, !.deliv = FALSE]
             y == [x EXCEPT !.join = TRUE, !.due = @ \ {"join"}]
             z == [x EXCEPT !.switched = TRUE, !.station = x.trial, !.link = FALSE, !.join = TRUE,
                            !.due = @ \ {"join"}]
             u == [x EXCEPT !.switched = TRUE, !.station = 0, !.link = FALSE]
  <1>1. /\ SetupWorld(x) /\ OwnerSame(w, x) /\ RestSame(w, x) /\ x.slot = w.slot /\ x.trial = w.trial
        /\ x.prev = w.prev /\ x.switched = w.switched /\ x.station = w.station /\ ~x.pend /\ ~x.deliv
    BY DEF SetupGood, SetupWorld, SetupFields, OwnerSame, RestSame
  <1>2. \/ x.slot.st # "trial" /\ Boot!StartTrial(w) = Boot!CancelSlot(x)
        \/ x.slot.st = "trial" /\ x.station = x.trial /\ Boot!StartTrial(w) = y
        \/ x.slot.st = "trial" /\ Boot!StartTrial(w) = z
        \/ x.slot.st = "trial" /\ Boot!StartTrial(w) = Boot!EndTrial(u, FALSE)
    BY DEF Boot!StartTrial
  <1> HIDE DEF x
  <1>3. CASE x.slot.st # "trial" /\ Boot!StartTrial(w) = Boot!CancelSlot(x)
    <2>1. Apart(x) /\ Undone(x, n, l) /\ Heard(x, a)
      BY <1>1, <1>3 DEF SetupGood, Apart, Undone, Heard, OwnerSame, RestSame
    <2>2. Kept(w, x, n, a, l)
      BY <1>1, <2>1 DEF SetupGood, Kept, Onward, OwnerSame, RestSame
    <2> QED
      BY <1>3, <2>2, CancelSlotGood, KeptTwice, KeptGood
  <1>4. w.slot.st = "trial" => w.own.st = "none" /\ w.slot.req \in a
    BY DEF SetupGood, Apart, Heard
  <1>5. DOMAIN x = SetupFields
    BY <1>1 DEF SetupWorld
  <1>6. CASE x.slot.st = "trial" /\ x.station = x.trial /\ Boot!StartTrial(w) = y
    <2>1. /\ SetupWorld(y) /\ OwnerSame(x, y) /\ RestSame(x, y) /\ y.slot = x.slot /\ y.trial = x.trial
          /\ y.prev = x.prev /\ y.switched = x.switched /\ y.station = x.station /\ ~y.pend /\ ~y.deliv
      BY <1>1, <1>5 DEF SetupWorld, SetupFields, OwnerSame, RestSame
    <2> HIDE DEF y
    <2>2. Apart(y) /\ Undone(y, n, l) /\ Heard(y, a)
      BY <1>1, <1>4, <1>6, <2>1 DEF SetupGood, Apart, Undone, Heard, OwnerSame, RestSame
    <2> QED
      BY <1>1, <1>6, <2>1, <2>2 DEF SetupGood, Kept, Onward, OwnerSame, RestSame
  <1>7. CASE x.slot.st = "trial" /\ Boot!StartTrial(w) = z
    <2>1. /\ SetupWorld(z) /\ OwnerSame(x, z) /\ RestSame(x, z) /\ z.slot = x.slot /\ z.trial = x.trial
          /\ z.prev = x.prev /\ z.switched /\ z.station = x.trial /\ ~z.pend /\ ~z.deliv
      BY <1>1, <1>5 DEF SetupWorld, SetupFields, OwnerSame, RestSame
    <2> HIDE DEF z
    <2>2. Apart(z) /\ Undone(z, n, l) /\ Heard(z, a)
      BY <1>1, <1>4, <1>7, <2>1 DEF SetupGood, Apart, Undone, Heard, OwnerSame, RestSame
    <2> QED
      BY <1>1, <1>7, <2>1, <2>2 DEF SetupGood, Kept, Onward, OwnerSame, RestSame
  <1>8. CASE x.slot.st = "trial" /\ Boot!StartTrial(w) = Boot!EndTrial(u, FALSE)
    <2>1. /\ SetupWorld(u) /\ OwnerSame(x, u) /\ RestSame(x, u) /\ u.slot = x.slot
          /\ u.prev = x.prev /\ u.switched
      BY <1>1, <1>5 DEF SetupWorld, SetupFields, OwnerSame, RestSame
    <2> HIDE DEF u
    <2> DEFINE t == Boot!EndTrial(u, FALSE)
    <2>2. /\ SetupWorld(t) /\ OwnerSame(u, t) /\ RestSame(u, t) /\ t.trial = 0 /\ t.prev = 0
          /\ t.slot.st \in {"none", "terminal"} /\ ~t.switched /\ t.station \in {u.prev, 0}
      BY <1>8, <2>1, EndTrialIs
    <2> HIDE DEF t
    <2>3. SlotEnded(w, t)
      BY <1>1, <1>8, <2>1, <2>2 DEF SlotEnded, OwnerSame, RestSame
    <2> QED
      BY <1>8, <2>3, SlotEndedGood DEF t
  <1> QED
    BY <1>2, <1>3, <1>6, <1>7, <1>8

\* The poll that starts a network trial.
LEMMA NetworkStartsGood ==
    ASSUME NEW w, NEW n, NEW a, NEW l, SetupGood(w, n, a, l)
    PROVE  Kept(w, Boot!PollNetworkStart(w), n, a, l)
  BY StartTrialGood, KeptSelf DEF Boot!PollNetworkStart

\* The poll of the owner's slot: its window, and the start of its trial.
LEMMA ExpireOwnerGood ==
    ASSUME NEW w, NEW n, NEW a, NEW l, SetupGood(w, n, a, l), NEW active
    PROVE  Kept(w, Boot!ExpireOwner(w, active), n, a, l)
  <1> DEFINE x == IF ~active /\ w.own.st = "granted" THEN Boot!CancelOwnerSlot(w, TRUE) ELSE w
  <1>1. Kept(w, x, n, a, l)
    BY CancelOwnerGood, KeptSelf
  <1>2. Boot!ExpireOwner(w, active) = IF x.own.st # "none" /\ "owner" \in x.due
                                      THEN Boot!CancelOwnerSlot(x, TRUE) ELSE x
    BY DEF Boot!ExpireOwner
  <1> HIDE DEF x
  <1>3. SetupGood(x, n, a, l)
    BY <1>1, KeptGood
  <1>4. Kept(x, Boot!CancelOwnerSlot(x, TRUE), n, a, l)
    BY <1>3, CancelOwnerGood
  <1>5. Kept(w, Boot!CancelOwnerSlot(x, TRUE), n, a, l)
    BY <1>1, <1>4, KeptTwice
  <1> QED
    BY <1>1, <1>2, <1>5, Zenon

\* The poll that starts a claim's trial.
LEMMA OwnerStartsGood ==
    ASSUME NEW w, NEW n, NEW a, NEW l, SetupGood(w, n, a, l)
    PROVE  Kept(w, Boot!PollOwnerStart(w), n, a, l)
  <1> DEFINE x == [w EXCEPT !.opend = FALSE]
             y == [x EXCEPT !.oactive = TRUE]
             z == [x EXCEPT !.oswitched = TRUE, !.station = x.otrial, !.link = FALSE, !.oactive = TRUE]
             u == [x EXCEPT !.oswitched = TRUE, !.station = 0, !.link = FALSE]
  <1>1. CASE ~w.opend \/ w.tx # 0 \/ ~w.odeliv
    BY <1>1, KeptSelf DEF Boot!PollOwnerStart
  <1>2. CASE w.opend /\ w.odeliv
    <2>1. /\ SetupWorld(x) /\ NetworkSame(w, x) /\ RestSame(w, x) /\ x.own = w.own /\ x.otrial = w.otrial
          /\ x.oprev = w.oprev /\ x.oswitched = w.oswitched /\ x.station = w.station /\ x.oactive = w.oactive
      BY DEF SetupGood, SetupWorld, SetupFields, NetworkSame, RestSame
    <2>2. w.own.st = "trial" /\ w.slot.st = "none" /\ w.own.req \in a
      BY <1>2 DEF SetupGood, Apart, Undone, Heard
    <2>3. \/ Boot!PollOwnerStart(w) \in {w, y, z}
          \/ Boot!PollOwnerStart(w) = Boot!EndOwnerTrial(u, FALSE)
      BY DEF Boot!PollOwnerStart
    <2> HIDE DEF x
    <2>4. DOMAIN x = SetupFields
      BY <2>1 DEF SetupWorld
    <2>5. Kept(w, y, n, a, l)
      <3>1. /\ SetupWorld(y) /\ NetworkSame(x, y) /\ RestSame(x, y) /\ y.own = x.own /\ y.otrial = x.otrial
            /\ y.oprev = x.oprev /\ y.oswitched = x.oswitched /\ y.station = x.station
        BY <2>1, <2>4 DEF SetupWorld, SetupFields, NetworkSame, RestSame
      <3> HIDE DEF y
      <3>2. Apart(y) /\ Undone(y, n, l) /\ Heard(y, a)
        BY <2>1, <2>2, <3>1 DEF SetupGood, Apart, Undone, Heard, NetworkSame, RestSame
      <3> QED
        BY <2>1, <3>1, <3>2 DEF SetupGood, Kept, Onward, NetworkSame, RestSame
    <2>6. Kept(w, z, n, a, l)
      <3>1. /\ SetupWorld(z) /\ NetworkSame(x, z) /\ RestSame(x, z) /\ z.own = x.own /\ z.otrial = x.otrial
            /\ z.oprev = x.oprev /\ z.oswitched
        BY <2>1, <2>4 DEF SetupWorld, SetupFields, NetworkSame, RestSame
      <3> HIDE DEF z
      <3>2. Apart(z) /\ Undone(z, n, l) /\ Heard(z, a)
        BY <2>1, <2>2, <3>1 DEF SetupGood, Apart, Undone, Heard, NetworkSame, RestSame
      <3> QED
        BY <2>1, <3>1, <3>2 DEF SetupGood, Kept, Onward, NetworkSame, RestSame
    <2>7. Kept(w, u, n, a, l)
      <3>1. /\ SetupWorld(u) /\ NetworkSame(x, u) /\ RestSame(x, u) /\ u.own = x.own /\ u.otrial = x.otrial
            /\ u.oprev = x.oprev /\ u.oswitched
        BY <2>1, <2>4 DEF SetupWorld, SetupFields, NetworkSame, RestSame
      <3> HIDE DEF u
      <3>2. Apart(u) /\ Undone(u, n, l) /\ Heard(u, a)
        BY <2>1, <2>2, <3>1 DEF SetupGood, Apart, Undone, Heard, NetworkSame, RestSame
      <3> QED
        BY <2>1, <3>1, <3>2 DEF SetupGood, Kept, Onward, NetworkSame, RestSame
    <2> HIDE DEF y, z, u
    <2>8. Kept(w, Boot!EndOwnerTrial(u, FALSE), n, a, l)
      BY <2>7, EndOwnerTrialGood, KeptTwice, KeptGood
    <2> QED
      BY <2>3, <2>5, <2>6, <2>8, KeptSelf
  <1> QED
    BY <1>1, <1>2

-----------------------------------------------------------------------------

\* What a round may commit: a profile, for the trial whose answer was delivered; and the result that
\* then waits.
Committed(w, x, a) ==
    /\ x.slot.st = "none" \/ x.slot.st = "terminal" \/ x.slot = w.slot
    /\ x.own.st = "none" \/ x.own.st = "terminal" \/ x.own = w.own
    /\ x.tx = w.tx /\ x.path = w.path /\ x.shows = w.shows
    /\ w.orestart => x.orestart /\ x.result = w.result
    /\ x.result = w.result \/ ~x.result.told
    /\ x.gen # w.gen => \/ w.own.st = "trial" /\ w.own.req \in a /\ w.own.gen = w.gen
                        \/ w.slot.st = "trial" /\ w.slot.req \in a

\* A step that begins nothing commits nothing.
LEMMA OnwardCommits ==
    ASSUME NEW w, NEW x, NEW a, Onward(w, x)
    PROVE  Committed(w, x, a)
  BY DEF Onward, Committed

\* Two steps of a round are one.
LEMMA CommitsTwice ==
    ASSUME NEW w, NEW x, NEW y, NEW a, Committed(w, x, a), Committed(x, y, a)
    PROVE  Committed(w, y, a)
  BY DEF Committed

\* A claim whose write succeeded, or is of unknown result: its restart waits to be read.
LEMMA ResultBeginsIs ==
    ASSUME NEW w, NEW gen, NEW req, SetupWorld(w)
    PROVE  LET x == Boot!ResultBegins(w, gen, req)
           IN  /\ SetupWorld(x) /\ NetworkSame(w, x) /\ OwnerSame(w, x) /\ x.station = w.station
               /\ x.orestart /\ ~x.result.told /\ x.gate = w.gate /\ x.rec = w.rec /\ x.net = w.net
               /\ x.gen = w.gen /\ x.tx = w.tx /\ x.path = w.path /\ x.shows = w.shows /\ x.rslot = w.rslot
  BY DEF Boot!ResultBegins, SetupWorld, SetupFields, NetworkSame, OwnerSame

\* The commit of a claim, whichever way its write ends.
LEMMA ClaimCommitGood ==
    ASSUME NEW w, NEW n, NEW a, NEW l, NEW o, SetupGood(w, n, a, l), w.oactive, w.own.st = "trial",
           w.station = w.otrial
    PROVE  SetupGood(Boot!ClaimCommit(w, o), n, a, l) /\ Committed(w, Boot!ClaimCommit(w, o), a)
  <1> DEFINE t == Boot!ClaimCommit(w, o)
             x == [w EXCEPT !.own = [@ EXCEPT !.st = "terminal", !.sid = 0, !.ok = TRUE]]
             y == Boot!EndOwnerTrial(x, TRUE)
             z == [y EXCEPT !.src = "consumer", !.gen = @ + 1, !.net = w.otrial]
             r == o = "reconciled"
             g == IF r THEN w.gen + 1 ELSE w.gen
             u == Boot!CancelOwnerSlot(w, FALSE)
             p == [u EXCEPT !.rec = TRUE, !.oreq = w.oreq, !.healthy = r,
                            !.gen = IF r THEN @ + 1 ELSE @,
                            !.src = IF r THEN "consumer" ELSE @,
                            !.net = IF r THEN w.otrial ELSE @]
  <1>1. \/ t = Boot!EndOwnerTrial(w, FALSE)
        \/ w.own.gen = w.gen /\ t = Boot!ResultBegins(z, w.gen + 1, w.oreq)
        \/ w.own.gen = w.gen /\ t = Boot!ResultBegins(p, g, w.oreq)
    BY DEF Boot!ClaimCommit
  <1>2. w.own.req \in a /\ w.slot.st = "none" /\ ~w.orestart /\ w.rslot = 0
    BY DEF SetupGood, Heard, Apart
  <1> HIDE DEF t
  <1>3. CASE t = Boot!EndOwnerTrial(w, FALSE)
    BY <1>3, EndOwnerTrialGood, OnwardCommits DEF Kept, t
  <1>4. CASE w.own.gen = w.gen /\ t = Boot!ResultBegins(z, w.gen + 1, w.oreq)
    <2>1. /\ SetupWorld(x) /\ NetworkSame(w, x) /\ RestSame(w, x) /\ x.own.st = "terminal"
          /\ x.station = w.station
      <3> DEFINE q == [w.own EXCEPT !.st = "terminal", !.sid = 0, !.ok = TRUE]
      <3>1. DOMAIN w = SetupFields
        BY DEF SetupGood, SetupWorld
      <3>2. DOMAIN q = SlotFields /\ q.st = "terminal"
        BY DEF SetupGood, SetupWorld, SlotFields
      <3>3. x = [w EXCEPT !.own = q]
        BY <3>1 DEF SetupFields
      <3> HIDE DEF x, q
      <3>4. DOMAIN x = SetupFields /\ x.own = q /\ x.station = w.station
        BY <3>1, <3>3 DEF SetupFields
      <3>5. NetworkSame(w, x)
        BY <3>1, <3>3 DEF SetupFields, NetworkSame
      <3>6. RestSame(w, x)
        BY <3>1, <3>3 DEF SetupFields, RestSame
      <3>7. SetupWorld(x)
        BY <3>2, <3>4, <3>5, <3>6 DEF SetupGood, SetupWorld, SlotKinds, NetworkSame, RestSame
      <3> QED
        BY <3>2, <3>4, <3>5, <3>6, <3>7
    <2> HIDE DEF x
    <2>2. /\ SetupWorld(y) /\ NetworkSame(x, y) /\ RestSame(x, y) /\ y.otrial = 0 /\ y.oprev = 0
          /\ ~y.oswitched /\ ~y.oactive /\ ~y.opend /\ ~y.odeliv /\ y.own = x.own /\ y.station = x.station
      BY <2>1, EndOwnerTrialIs
    <2> HIDE DEF y
    <2>3. DOMAIN y = SetupFields
      BY <2>2 DEF SetupWorld
    <2>4. /\ SetupWorld(z) /\ NetworkSame(y, z) /\ OwnerSame(y, z) /\ z.station = y.station /\ z.net = w.otrial
          /\ z.gate = y.gate /\ z.rec = y.rec /\ z.tx = y.tx /\ z.path = y.path /\ z.shows = y.shows
          /\ z.rslot = y.rslot
      BY <2>2, <2>3 DEF SetupWorld, SetupFields, NetworkSame, OwnerSame
    <2> HIDE DEF z
    <2>5. /\ SetupWorld(t) /\ NetworkSame(z, t) /\ OwnerSame(z, t) /\ t.station = z.station
          /\ t.orestart /\ ~t.result.told /\ t.gate = z.gate /\ t.rec = z.rec /\ t.net = z.net
          /\ t.tx = z.tx /\ t.path = z.path /\ t.shows = z.shows /\ t.rslot = z.rslot
      BY <1>4, <2>4, ResultBeginsIs
    <2>6. /\ NetworkSame(w, t) /\ t.station = w.otrial /\ t.net = w.otrial /\ t.rslot = 0
          /\ t.otrial = 0 /\ t.oprev = 0
          /\ ~t.oswitched /\ ~t.oactive /\ ~t.opend /\ ~t.odeliv /\ t.own.st = "terminal"
          /\ t.tx = w.tx /\ t.path = w.path /\ t.shows = w.shows
      BY <1>2, <2>1, <2>2, <2>4, <2>5 DEF NetworkSame, RestSame, OwnerSame
    <2>7. Apart(t) /\ Undone(t, n, l) /\ Heard(t, a)
      BY <1>2, <2>5, <2>6 DEF SetupGood, Apart, Undone, Heard, NetworkSame
    <2> QED
      <3>1. SetupGood(t, n, a, l)
        BY <2>5, <2>7 DEF SetupGood
      <3>2. Committed(w, t, a)
        BY <1>2, <1>4, <2>5, <2>6 DEF Committed, NetworkSame
      <3> QED
        BY <3>1, <3>2 DEF t
  <1>5. CASE w.own.gen = w.gen /\ t = Boot!ResultBegins(p, g, w.oreq)
    <2>1. OwnerEnded(w, u) /\ u.own.st = "none" /\ u.station = w.station
      BY CancelOwnerIs DEF SetupGood
    <2> HIDE DEF u, r, g
    <2>2. SetupWorld(u) /\ DOMAIN u = SetupFields
      BY <2>1 DEF OwnerEnded, SetupWorld
    <2>3. /\ SetupWorld(p) /\ NetworkSame(u, p) /\ OwnerSame(u, p) /\ p.rec
          /\ p.tx = u.tx /\ p.path = u.path /\ p.shows = u.shows /\ p.rslot = u.rslot
      BY <2>2 DEF SetupWorld, SetupFields, NetworkSame, OwnerSame
    <2> HIDE DEF p
    <2>4. /\ SetupWorld(t) /\ NetworkSame(p, t) /\ OwnerSame(p, t)
          /\ t.orestart /\ ~t.result.told /\ t.rec = p.rec
          /\ t.tx = p.tx /\ t.path = p.path /\ t.shows = p.shows /\ t.rslot = p.rslot
      BY <1>5, <2>3, ResultBeginsIs
    <2>5. /\ NetworkSame(w, t) /\ t.rec /\ t.rslot = 0
          /\ t.otrial = 0 /\ t.oprev = 0
          /\ ~t.oswitched /\ ~t.oactive /\ ~t.opend /\ ~t.odeliv /\ t.own.st = "none"
          /\ t.tx = w.tx /\ t.path = w.path /\ t.shows = w.shows
      BY <1>2, <2>1, <2>3, <2>4 DEF NetworkSame, RestSame, OwnerSame, OwnerEnded
    <2>6. Apart(t) /\ Undone(t, n, l) /\ Heard(t, a)
      BY <1>2, <2>4, <2>5 DEF SetupGood, Apart, Undone, Heard, NetworkSame
    <2> QED
      <3>1. SetupGood(t, n, a, l)
        BY <2>4, <2>6 DEF SetupGood
      <3>2. Committed(w, t, a)
        BY <1>2, <1>5, <2>4, <2>5 DEF Committed, NetworkSame
      <3> QED
        BY <3>1, <3>2 DEF t
  <1> QED
    BY <1>1, <1>3, <1>4, <1>5 DEF t

\* The poll that commits a claim.
LEMMA OwnerCommitsGood ==
    ASSUME NEW w, NEW n, NEW a, NEW l, NEW o, SetupGood(w, n, a, l)
    PROVE  SetupGood(Boot!PollOwnerCommit(w, o), n, a, l) /\ Committed(w, Boot!PollOwnerCommit(w, o), a)
  BY ClaimCommitGood DEF Boot!PollOwnerCommit, Boot!StationReady, Committed

\* The commit of a network, whichever way its write ends.
LEMMA NetworkCommitGood ==
    ASSUME NEW w, NEW n, NEW a, NEW l, NEW o, SetupGood(w, n, a, l), w.slot.st = "trial", ~w.pend, w.join,
           w.gate = "open"
    PROVE  SetupGood(Boot!NetworkCommit(w, o), n, a, l) /\ Committed(w, Boot!NetworkCommit(w, o), a)
  <1> DEFINE t == Boot!NetworkCommit(w, o)
             x == [w EXCEPT !.gate = "committed", !.gen = @ + 1, !.net = w.trial,
                            !.src = IF @ = "consumer" THEN @ ELSE "network"]
             y == [w EXCEPT !.gate = "not"]
             r == o = "reconciled"
             z == [w EXCEPT !.gate = "reconcile", !.healthy = r,
                     !.gen = IF r THEN @ + 1 ELSE @,
                     !.net = IF r THEN w.trial ELSE @,
                     !.src = IF r /\ @ # "consumer" THEN "network" ELSE @,
                     !.restart = TRUE, !.ack = FALSE, !.join = FALSE, !.trial = 0, !.prev = 0,
                     !.switched = FALSE, !.verifier = 0, !.due = @ \ {"commit"}]
  <1>1. t = Boot!EndTrial(x, TRUE) \/ t = Boot!EndTrial(y, FALSE) \/ t = z
    BY DEF Boot!NetworkCommit
  <1>2. w.slot.req \in a /\ w.own.st = "none" /\ w.station = w.trial /\ DOMAIN w = SetupFields /\ w.rslot = 0
    BY DEF SetupGood, SetupWorld, Heard, Apart, Undone
  <1>3. /\ w.otrial = 0 /\ w.oprev = 0 /\ ~w.oswitched /\ ~w.oactive /\ ~w.opend /\ ~w.odeliv
    BY <1>2 DEF SetupGood, Undone
  <1> HIDE DEF t, r
  <1>4. CASE t = Boot!EndTrial(x, TRUE)
    <2>1. /\ SetupWorld(x) /\ OwnerSame(w, x) /\ x.slot = w.slot /\ x.station = w.station /\ x.net = w.trial
          /\ x.result = w.result /\ x.orestart = w.orestart /\ x.tx = w.tx /\ x.path = w.path
          /\ x.shows = w.shows /\ x.rslot = w.rslot
      BY <1>2 DEF SetupGood, SetupWorld, SetupFields, OwnerSame
    <2> HIDE DEF x
    <2>2. /\ SetupWorld(t) /\ OwnerSame(x, t) /\ RestSame(x, t) /\ t.trial = 0 /\ t.prev = 0
          /\ t.slot.st \in {"none", "terminal"} /\ ~t.switched /\ t.station = x.station
      BY <1>4, <2>1, EndTrialIs
    <2>3. /\ OwnerSame(w, t) /\ t.station = w.trial /\ t.net = w.trial /\ t.result = w.result
          /\ t.orestart = w.orestart /\ t.tx = w.tx /\ t.path = w.path /\ t.shows = w.shows /\ t.rslot = 0
      BY <1>2, <2>1, <2>2 DEF OwnerSame, RestSame
    <2>4. Apart(t) /\ Undone(t, n, l) /\ Heard(t, a)
      BY <1>2, <1>3, <2>2, <2>3 DEF SetupGood, Apart, Undone, Heard, OwnerSame
    <2> QED
      <3>1. SetupGood(t, n, a, l)
        BY <2>2, <2>4 DEF SetupGood
      <3>2. Committed(w, t, a)
        BY <1>2, <1>4, <2>2, <2>3 DEF Committed, OwnerSame
      <3> QED
        BY <3>1, <3>2 DEF t
  <1>5. CASE t = Boot!EndTrial(y, FALSE)
    <2>1. DOMAIN y = SetupFields /\ OwnerSame(w, y) /\ NetworkSame(w, y)
      <3>1. DOMAIN y = SetupFields
        BY <1>2
      <3>2. OwnerSame(w, y)
        BY <1>2 DEF SetupFields, OwnerSame
      <3>3. NetworkSame(w, y)
        BY <1>2 DEF SetupFields, NetworkSame
      <3> QED
        BY <3>1, <3>2, <3>3
    <2>2. /\ y.station = w.station /\ y.net = w.net /\ y.gen = w.gen /\ y.result = w.result
          /\ y.orestart = w.orestart /\ y.tx = w.tx /\ y.path = w.path /\ y.shows = w.shows
          /\ y.rslot = w.rslot /\ y.rec = w.rec /\ y.gate = "not"
      BY <1>2 DEF SetupFields
    <2> HIDE DEF y
    <2>3. SetupWorld(y)
      BY <2>1, <2>2 DEF SetupGood, SetupWorld, OwnerSame, NetworkSame
    <2>4. Apart(y)
      BY <2>1, <2>2 DEF SetupGood, Apart, OwnerSame, NetworkSame
    <2>5. Undone(y, n, l)
      BY <1>5, <2>1, <2>2 DEF SetupGood, Undone, OwnerSame, NetworkSame
    <2>6. Heard(y, a)
      BY <2>1, <2>2 DEF SetupGood, Heard, OwnerSame, NetworkSame
    <2>7. Kept(w, y, n, a, l) /\ y.slot.st = "trial"
      BY <2>1, <2>2, <2>3, <2>4, <2>5, <2>6 DEF SetupGood, Kept, Onward, OwnerSame, NetworkSame
    <2>8. Kept(w, Boot!EndTrial(y, FALSE), n, a, l)
      BY <2>7, EndTrialGood, KeptTwice, KeptGood
    <2> QED
      BY <1>5, <2>8, OnwardCommits DEF Kept, t
  <1>6. CASE t = z
    <2>1. DOMAIN z = SetupFields /\ z.slot = w.slot /\ z.result = w.result
      BY <1>2 DEF SetupFields
    <2>2. OwnerSame(w, z)
      BY <1>2 DEF SetupFields, OwnerSame
    <2>3. z.pend = w.pend /\ z.deliv = w.deliv /\ z.orestart = w.orestart /\ z.tx = w.tx
      BY <1>2 DEF SetupFields
    <2>4. z.path = w.path /\ z.shows = w.shows /\ z.rslot = w.rslot
      BY <1>2 DEF SetupFields
    <2>5. z.gate = "reconcile" /\ ~z.join /\ z.trial = 0 /\ z.prev = 0 /\ ~z.switched
      BY <1>2 DEF SetupFields
    <2> HIDE DEF z
    <2>6. SetupWorld(z)
      BY <2>1, <2>2 DEF SetupGood, SetupWorld, OwnerSame
    <2>7. Apart(z)
      BY <1>2, <2>1, <2>2, <2>3, <2>4 DEF Apart, OwnerSame
    <2>8. Undone(z, n, l)
      BY <1>2, <1>3, <2>2, <2>5 DEF SetupGood, Undone, OwnerSame
    <2>9. Heard(z, a)
      BY <1>2, <2>1, <2>2, <2>3, <2>4 DEF SetupGood, Heard, OwnerSame
    <2>10. SetupGood(z, n, a, l)
      BY <2>6, <2>7, <2>8, <2>9 DEF SetupGood
    <2>11. Committed(w, z, a)
      BY <1>2, <2>1, <2>2, <2>3, <2>4 DEF Committed, OwnerSame
    <2> QED
      BY <1>6, <2>10, <2>11 DEF t
  <1> QED
    BY <1>1, <1>4, <1>5, <1>6 DEF t

\* The poll of a network trial.
LEMMA NetworkTrialGood ==
    ASSUME NEW w, NEW n, NEW a, NEW l, NEW o, SetupGood(w, n, a, l)
    PROVE  SetupGood(Boot!PollNetworkTrial(w, o), n, a, l) /\ Committed(w, Boot!PollNetworkTrial(w, o), a)
  <1>1. CASE w.slot.st # "trial" \/ w.pend \/ w.gate # "open"
    BY <1>1 DEF Boot!PollNetworkTrial, Committed
  <1>2. CASE ~(w.slot.st # "trial" \/ w.pend \/ w.gate # "open")
    <2>1. CASE ~w.join \/ "join" \in w.due
      BY <1>2, <2>1, EndTrialGood, OnwardCommits DEF Boot!PollNetworkTrial, Kept
    <2>2. CASE ~(~w.join \/ "join" \in w.due)
      BY <1>2, <2>2, NetworkCommitGood DEF Boot!PollNetworkTrial, Committed
    <2> QED
      BY <2>1, <2>2
  <1> QED
    BY <1>1, <1>2

\* A restart is scheduled once the answer is delivered and the output idle.
LEMMA RestartGood ==
    ASSUME NEW w, NEW n, NEW a, NEW l, SetupGood(w, n, a, l)
    PROVE  Kept(w, Boot!PollRestart(w), n, a, l)
  <1> DEFINE q == w.gate = "reconcile"
             now == w.tx = 0 /\ w.restart /\ ("commit" \in w.due \/ (w.gate # "reconcile" /\ w.ack))
             set == ~w.reboot /\ w.idle
             x == [w EXCEPT !.reboot = TRUE, !.restart = q]
             y == IF now /\ set THEN x ELSE w
             z == [y EXCEPT !.reboot = TRUE]
  <1>1. Boot!PollRestart(w) \in {y, z}
    BY DEF Boot!PollRestart
  <1> HIDE DEF q, now, set
  <1>2. Kept(w, y, n, a, l)
    <2>1. DOMAIN w = SetupFields
      BY DEF SetupGood, SetupWorld
    <2>2. AllSame(w, x)
      BY <2>1 DEF SetupGood, SetupWorld, SetupFields, AllSame, OwnerSame, NetworkSame, RestSame
    <2> HIDE DEF x
    <2> QED
      BY <2>2, SameGood, KeptSelf
  <1> HIDE DEF y
  <1>3. Kept(y, z, n, a, l)
    <2>1. SetupGood(y, n, a, l) /\ DOMAIN y = SetupFields
      BY <1>2, KeptGood DEF SetupGood, SetupWorld
    <2>2. AllSame(y, z)
      BY <2>1 DEF SetupGood, SetupWorld, SetupFields, AllSame, OwnerSame, NetworkSame, RestSame
    <2> QED
      BY <2>1, <2>2, SameGood
  <1> HIDE DEF z
  <1>4. Kept(w, z, n, a, l)
    BY <1>2, <1>3, KeptTwice
  <1> QED
    BY <1>1, <1>2, <1>4

\* A device that admits nobody drops what is under way.
LEMMA UnadmittedGood ==
    ASSUME NEW w, NEW n, NEW a, NEW l, SetupGood(w, n, a, l)
    PROVE  Kept(w, Boot!Unadmitted(w), n, a, l)
  <1> DEFINE x == IF w.gate # "reconcile" THEN Boot!CancelSlot(w) ELSE w
  <1>1. Kept(w, x, n, a, l)
    BY CancelSlotGood, KeptSelf
  <1>2. Boot!Unadmitted(w) = IF ~x.rec /\ ~x.orestart THEN Boot!CancelOwnerSlot(x, TRUE) ELSE x
    BY DEF Boot!Unadmitted
  <1> HIDE DEF x
  <1>3. Kept(x, Boot!CancelOwnerSlot(x, TRUE), n, a, l)
    BY <1>1, KeptGood, CancelOwnerGood
  <1>4. Kept(w, Boot!CancelOwnerSlot(x, TRUE), n, a, l)
    BY <1>1, <1>3, KeptTwice
  <1> QED
    BY <1>1, <1>2, <1>4, Zenon

\* The window of the recovery slot.
LEMMA ExpireRecoveryGood ==
    ASSUME NEW w, NEW n, NEW a, NEW l, SetupGood(w, n, a, l), NEW active
    PROVE  Kept(w, Boot!ExpireRecovery(w, active), n, a, l)
  <1> DEFINE x == [w EXCEPT !.rslot = 0, !.due = @ \ {"recovery"}]
  <1>1. /\ SetupWorld(x) /\ OwnerSame(w, x) /\ NetworkSame(w, x) /\ x.rslot = 0
        /\ x.gate = w.gate /\ x.rec = w.rec /\ x.net = w.net /\ x.gen = w.gen /\ x.result = w.result
        /\ x.orestart = w.orestart /\ x.tx = w.tx /\ x.path = w.path /\ x.shows = w.shows
        /\ x.station = w.station
    BY DEF SetupGood, SetupWorld, SetupFields, OwnerSame, NetworkSame
  <1> HIDE DEF x
  <1>2. Apart(x)
    BY <1>1 DEF SetupGood, Apart, OwnerSame, NetworkSame
  <1>3. Undone(x, n, l)
    BY <1>1 DEF SetupGood, Undone, OwnerSame, NetworkSame
  <1>4. Heard(x, a)
    BY <1>1 DEF SetupGood, Heard, OwnerSame, NetworkSame
  <1>5. Kept(w, x, n, a, l)
    BY <1>1, <1>2, <1>3, <1>4 DEF SetupGood, Kept, Onward, OwnerSame, NetworkSame
  <1> QED
    BY <1>5, KeptSelf DEF Boot!ExpireRecovery, x

\* Windows that pass, and where requests may come from.
LEMMA DueGood ==
    ASSUME NEW w, NEW n, NEW a, NEW l, SetupGood(w, n, a, l), NEW t
    PROVE  Kept(w, [w EXCEPT !.due = t], n, a, l)
  <1> DEFINE x == [w EXCEPT !.due = t]
  <1>1. DOMAIN w = SetupFields
    BY DEF SetupGood, SetupWorld
  <1>2. AllSame(w, x)
    BY <1>1 DEF SetupGood, SetupWorld, SetupFields, AllSame, OwnerSame, NetworkSame, RestSame
  <1> QED
    BY <1>2, SameGood

\* Where requests may come from changes.
LEMMA SurroundingsGood ==
    ASSUME NEW w, NEW n, NEW a, NEW l, SetupGood(w, n, a, l), NEW ap, NEW sta, NEW setup
    PROVE  Kept(w, Boot!Surroundings(w, ap, sta, setup), n, a, l)
  <1> DEFINE q == setup \/ sta
             r == w.idle /\ (setup \/ sta)
             x == [w EXCEPT !.ap = ap, !.sta = sta, !.apok = setup, !.adm = q, !.safe = r]
             y == IF ap \/ sta THEN x ELSE Boot!SetupLoginClosed(x, x.login)
  <1>1. Boot!Surroundings(w, ap, sta, setup) = Boot!ExpireRecovery(y, ap \/ sta)
    BY DEF Boot!Surroundings
  <1> HIDE DEF q, r
  <1>2. Kept(w, x, n, a, l)
    <2>1. DOMAIN w = SetupFields
      BY DEF SetupGood, SetupWorld
    <2>2. AllSame(w, x)
      BY <2>1 DEF SetupGood, SetupWorld, SetupFields, AllSame, OwnerSame, NetworkSame, RestSame
    <2> QED
      BY <2>2, SameGood
  <1> HIDE DEF x
  <1>3. Kept(x, Boot!SetupLoginClosed(x, x.login), n, a, l)
    BY <1>2, KeptGood, LoginClosedGood
  <1>4. Kept(w, y, n, a, l)
    BY <1>2, <1>3, KeptTwice
  <1> HIDE DEF y
  <1>5. Kept(y, Boot!ExpireRecovery(y, ap \/ sta), n, a, l)
    BY <1>4, KeptGood, ExpireRecoveryGood
  <1> QED
    BY <1>1, <1>4, <1>5, KeptTwice

\* No trial is started without a listener.
LEMMA IdledGood ==
    ASSUME NEW w, NEW n, NEW a, NEW l, SetupGood(w, n, a, l)
    PROVE  Kept(w, Boot!Idled(w), n, a, l)
  BY CancelSlotGood, KeptSelf DEF Boot!Idled

\* One round: what it commits is for the answer that was delivered.
LEMMA RoundsGood ==
    ASSUME NEW w, NEW n, NEW a, NEW l, NEW o, SetupGood(w, n, a, l)
    PROVE  SetupGood(Boot!Rounds(w, o), n, a, l) /\ Committed(w, Boot!Rounds(w, o), a)
  <1> DEFINE x1 == Boot!ExpireNetwork(w)
             x2 == Boot!PollNetworkStart(x1)
             x3 == Boot!ExpireOwner(x2, w.ap \/ w.sta)
             x4 == Boot!PollOwnerStart(x3)
             x5 == Boot!PollOwnerCommit(x4, o)
             x6 == Boot!PollNetworkTrial(x5, o)
             x7 == Boot!PollRestart(x6)
  <1>1. Boot!Rounds(w, o) = IF ~w.adm THEN Boot!Unadmitted(w) ELSE x7
    BY DEF Boot!Rounds
  <1>2. Kept(w, Boot!Unadmitted(w), n, a, l)
    BY UnadmittedGood
  <1>3. Kept(w, x1, n, a, l)
    BY ExpireNetworkGood
  <1> HIDE DEF x1
  <1>4. Kept(w, x2, n, a, l)
    BY <1>3, NetworkStartsGood, KeptTwice, KeptGood
  <1> HIDE DEF x2
  <1>5. Kept(w, x3, n, a, l)
    BY <1>4, ExpireOwnerGood, KeptTwice, KeptGood
  <1> HIDE DEF x3
  <1>6. Kept(w, x4, n, a, l)
    BY <1>5, OwnerStartsGood, KeptTwice, KeptGood
  <1>7. SetupGood(x4, n, a, l) /\ Committed(w, x4, a)
    BY <1>6, OnwardCommits DEF Kept
  <1> HIDE DEF x4
  <1>8. SetupGood(x5, n, a, l) /\ Committed(w, x5, a)
    BY <1>7, OwnerCommitsGood, CommitsTwice
  <1> HIDE DEF x5
  <1>9. SetupGood(x6, n, a, l) /\ Committed(w, x6, a)
    BY <1>8, NetworkTrialGood, CommitsTwice
  <1> HIDE DEF x6
  <1>10. Kept(x6, x7, n, a, l)
    BY <1>9, RestartGood
  <1> HIDE DEF x7
  <1>11. SetupGood(x7, n, a, l) /\ Committed(w, x7, a)
    BY <1>9, <1>10, OnwardCommits, CommitsTwice DEF Kept
  <1>12. SetupGood(Boot!Unadmitted(w), n, a, l) /\ Committed(w, Boot!Unadmitted(w), a)
    BY <1>2, OnwardCommits DEF Kept
  <1> QED
    BY <1>1, <1>11, <1>12, Zenon

-----------------------------------------------------------------------------

\* The end of a connection.
LEMMA GoodGrows ==
    ASSUME NEW w, NEW n, NEW a, NEW l, NEW m, NEW b, NEW k, SetupGood(w, n, a, l),
           n \subseteq m, a \subseteq b, l => k
    PROVE  SetupGood(w, m, b, k)
  BY DEF SetupGood, Undone, Heard

\* What a reply that ends leaves: no new slot, trial or result, and a result is told only by a reply
\* that showed it.
Borne(w, x, shown) ==
    /\ x.slot.st = "none" \/ x.slot = w.slot \/ (w.slot.st = "trial" /\ x.slot.st = "terminal")
    /\ x.own.st = "none" \/ x.own = w.own \/ (w.own.st = "trial" /\ x.own.st = "terminal")
    /\ x.gen = w.gen /\ x.net = w.net /\ x.result.req = w.result.req /\ x.orestart = w.orestart
    /\ x.result.told => w.result.told \/ shown

\* The reply to request tx ends, and it showed the result.
Shows(w, tx, apply) == apply /\ tx # 0 /\ tx = w.tx /\ w.path = "ostatus" /\ w.shows

\* And its request is no longer remembered, or another one still is.
Ended(w, x, tx, apply) ==
    /\ Borne(w, x, Shows(w, tx, apply))
    /\ x.tx = 0 \/ (x.tx = w.tx /\ x.path = w.path /\ x.shows = w.shows)

\* Whose answer it was.
Answers(w, tx, a) ==
    /\ w.slot.st = "trial" /\ w.slot.req = tx => tx \in a
    /\ w.own.st = "trial" /\ w.own.req = tx => tx \in a

\* A reply that ends is forgotten.
LEMMA ReplyEndedIs ==
    ASSUME NEW w, SetupWorld(w)
    PROVE  LET x == [w EXCEPT !.path = "none", !.tx = 0, !.shows = FALSE]
           IN  /\ SetupWorld(x) /\ OwnerSame(w, x) /\ NetworkSame(w, x) /\ x.station = w.station
               /\ x.gate = w.gate /\ x.rec = w.rec /\ x.net = w.net /\ x.gen = w.gen
               /\ x.result = w.result /\ x.orestart = w.orestart /\ x.rslot = w.rslot /\ x.tx = 0
  BY DEF SetupWorld, SetupFields, OwnerSame, NetworkSame

\* To forget it keeps the invariant.
LEMMA ReplyEndedGood ==
    ASSUME NEW w, NEW n, NEW a, NEW l, SetupGood(w, n, a, l)
    PROVE  LET x == [w EXCEPT !.path = "none", !.tx = 0, !.shows = FALSE]
           IN  /\ SetupGood(x, n, a, l) /\ x.slot = w.slot /\ x.own = w.own
               /\ x.gen = w.gen /\ x.net = w.net /\ x.result = w.result /\ x.orestart = w.orestart
               /\ x.tx = 0
  <1> DEFINE x == [w EXCEPT !.path = "none", !.tx = 0, !.shows = FALSE]
  <1>1. /\ SetupWorld(x) /\ OwnerSame(w, x) /\ NetworkSame(w, x) /\ x.station = w.station
        /\ x.gate = w.gate /\ x.rec = w.rec /\ x.net = w.net /\ x.gen = w.gen
        /\ x.result = w.result /\ x.orestart = w.orestart /\ x.rslot = w.rslot /\ x.tx = 0
    BY ReplyEndedIs DEF SetupGood
  <1> HIDE DEF x
  <1>2. Apart(x)
    BY <1>1 DEF SetupGood, Apart, OwnerSame, NetworkSame
  <1>3. Undone(x, n, l)
    BY <1>1 DEF SetupGood, Undone, OwnerSame, NetworkSame
  <1>4. Heard(x, a)
    BY <1>1 DEF SetupGood, Heard, OwnerSame, NetworkSame
  <1>5. SetupGood(x, n, a, l)
    BY <1>1, <1>2, <1>3, <1>4 DEF SetupGood
  <1> QED
    BY <1>1, <1>5 DEF OwnerSame, NetworkSame, x

\* result_delivered(): the result is told.
LEMMA ResultDeliveredIs ==
    ASSUME NEW w, NEW n, NEW a, NEW l, SetupGood(w, n, a, l)
    PROVE  LET x == Boot!ResultDelivered(w)
           IN  /\ SetupGood(x, n, a, l) /\ x.slot = w.slot /\ x.own = w.own
               /\ x.gen = w.gen /\ x.net = w.net /\ x.result.req = w.result.req /\ x.orestart = w.orestart
  <1> DEFINE q == [w.result EXCEPT !.told = TRUE]
             x == [w EXCEPT !.result = q, !.due = @ \ {"result"}]
  <1>1. Boot!ResultDelivered(w) = IF w.result.told THEN w ELSE x
    BY DEF Boot!ResultDelivered
  <1>2. DOMAIN q = {"gen", "req", "told"} /\ q.req = w.result.req
    BY DEF SetupGood, SetupWorld
  <1>3. DOMAIN w = SetupFields
    BY DEF SetupGood, SetupWorld
  <1> HIDE DEF q
  <1>4. DOMAIN x = SetupFields /\ OwnerSame(w, x) /\ NetworkSame(w, x)
    BY <1>3 DEF SetupFields, OwnerSame, NetworkSame
  <1>5. /\ x.station = w.station /\ x.gate = w.gate /\ x.rec = w.rec /\ x.net = w.net /\ x.gen = w.gen
        /\ x.result = q /\ x.orestart = w.orestart /\ x.rslot = w.rslot /\ x.tx = w.tx /\ x.path = w.path
    BY <1>3 DEF SetupFields
  <1> HIDE DEF x
  <1>6. SetupWorld(x)
    BY <1>2, <1>4, <1>5 DEF SetupGood, SetupWorld, OwnerSame, NetworkSame
  <1>7. Apart(x)
    BY <1>4, <1>5 DEF SetupGood, Apart, OwnerSame, NetworkSame
  <1>8. Undone(x, n, l)
    BY <1>4, <1>5 DEF SetupGood, Undone, OwnerSame, NetworkSame
  <1>9. Heard(x, a)
    BY <1>4, <1>5 DEF SetupGood, Heard, OwnerSame, NetworkSame
  <1>10. SetupGood(x, n, a, l)
    BY <1>6, <1>7, <1>8, <1>9 DEF SetupGood
  <1> QED
    BY <1>1, <1>2, <1>4, <1>5, <1>10 DEF OwnerSame, NetworkSame

\* An answer that was delivered lets its trial start; one that was lost ends it.
LEMMA DeliveredGood ==
    ASSUME NEW w, NEW n, NEW a, NEW l, SetupGood(w, n, a, l), NEW tx, NEW apply \in BOOLEAN,
           apply => Answers(w, tx, a)
    PROVE  /\ SetupGood(Boot!SetupDelivered(w, tx, apply), n, a, l)
           /\ Ended(w, Boot!SetupDelivered(w, tx, apply), tx, apply)
  <1> DEFINE x1 == [w EXCEPT !.deliv = TRUE, !.due = @ \ {"deliver"}]
             x2 == Boot!CancelSlot(w)
             x3 == [w EXCEPT !.odeliv = TRUE]
             x4 == Boot!CancelOwnerSlot(w, TRUE)
             x5 == [w EXCEPT !.ack = TRUE]
             x6 == Boot!ResultDelivered(w)
             y == CASE w.path \in {"submit", "forged"} /\ w.pend -> IF apply THEN x1 ELSE x2
                    [] w.path = "osubmit" /\ w.opend -> IF apply THEN x3 ELSE x4
                    [] w.path = "ack" /\ apply -> x5
                    [] w.path = "ostatus" /\ apply /\ w.shows -> x6
                    [] OTHER -> w
             x == [y EXCEPT !.path = "none", !.tx = 0, !.shows = FALSE]
  <1>1. CASE tx = 0 \/ tx # w.tx
    BY <1>1 DEF Boot!SetupDelivered, Ended, Borne
  <1>2. CASE tx # 0 /\ tx = w.tx
    <2>1. Boot!SetupDelivered(w, tx, apply) = x
      BY <1>2 DEF Boot!SetupDelivered
    <2>2. \/ (w.path \in {"submit", "forged"} /\ w.pend /\ apply /\ y = x1)
          \/ y = x2
          \/ (w.path = "osubmit" /\ w.opend /\ apply /\ y = x3)
          \/ y = x4
          \/ y = x5
          \/ (apply /\ w.path = "ostatus" /\ w.shows /\ y = x6)
          \/ y = w
      <3> HIDE DEF x1, x2, x3, x4, x5, x6
      <3> QED
        OBVIOUS
    <2>3. DOMAIN w = SetupFields
      BY DEF SetupGood, SetupWorld
    <2> DEFINE shown == Shows(w, tx, apply)
    <2>4. ASSUME NEW z, Kept(w, z, n, a, l) PROVE SetupGood(z, n, a, l) /\ Borne(w, z, shown)
      BY <2>4 DEF Kept, Onward, Borne
    <2>5. ASSUME w.path \in {"submit", "forged"} /\ w.pend /\ apply /\ y = x1
         PROVE  SetupGood(y, n, a, l) /\ Borne(w, y, shown)
      <3>1. /\ SetupWorld(x1) /\ OwnerSame(w, x1) /\ RestSame(w, x1) /\ x1.slot = w.slot
            /\ x1.trial = w.trial /\ x1.prev = w.prev /\ x1.switched = w.switched /\ x1.pend = w.pend
            /\ x1.join = w.join /\ x1.station = w.station
        BY <2>3 DEF SetupGood, SetupWorld, SetupFields, OwnerSame, RestSame
      <3> HIDE DEF x1
      <3>2. w.slot.st = "trial" => w.slot.req \in a
        BY <1>2, <2>5 DEF SetupGood, Heard, Answers
      <3>3. Apart(x1)
        BY <3>1 DEF SetupGood, Apart, OwnerSame, RestSame
      <3>4. Undone(x1, n, l)
        BY <3>1 DEF SetupGood, Undone, OwnerSame, RestSame
      <3>5. Heard(x1, a)
        BY <3>1, <3>2 DEF SetupGood, Heard, OwnerSame, RestSame
      <3>6. SetupGood(x1, n, a, l) /\ Borne(w, x1, shown)
        BY <3>1, <3>3, <3>4, <3>5 DEF SetupGood, Borne, OwnerSame, RestSame
      <3> QED
        BY <2>5, <3>6
    <2>6. ASSUME y = x2
         PROVE  SetupGood(y, n, a, l) /\ Borne(w, y, shown)
      BY <2>4, <2>6, CancelSlotGood
    <2>7. ASSUME w.path = "osubmit" /\ w.opend /\ apply /\ y = x3
         PROVE  SetupGood(y, n, a, l) /\ Borne(w, y, shown)
      <3>1. /\ SetupWorld(x3) /\ NetworkSame(w, x3) /\ RestSame(w, x3) /\ x3.own = w.own
            /\ x3.otrial = w.otrial /\ x3.oprev = w.oprev /\ x3.oswitched = w.oswitched
            /\ x3.opend = w.opend /\ x3.oactive = w.oactive /\ x3.station = w.station
        BY <2>3 DEF SetupGood, SetupWorld, SetupFields, NetworkSame, RestSame
      <3> HIDE DEF x3
      <3>2. w.own.st = "trial" /\ w.own.req \in a
        BY <1>2, <2>7 DEF SetupGood, Undone, Heard, Answers
      <3>3. Apart(x3)
        BY <3>1 DEF SetupGood, Apart, NetworkSame, RestSame
      <3>4. Undone(x3, n, l)
        BY <3>1, <3>2 DEF SetupGood, Undone, NetworkSame, RestSame
      <3>5. Heard(x3, a)
        BY <3>1, <3>2 DEF SetupGood, Heard, NetworkSame, RestSame
      <3>6. SetupGood(x3, n, a, l) /\ Borne(w, x3, shown)
        BY <3>1, <3>3, <3>4, <3>5 DEF SetupGood, Borne, NetworkSame, RestSame
      <3> QED
        BY <2>7, <3>6
    <2>8. ASSUME y = x4
         PROVE  SetupGood(y, n, a, l) /\ Borne(w, y, shown)
      BY <2>4, <2>8, CancelOwnerGood
    <2>9. ASSUME y = x5
         PROVE  SetupGood(y, n, a, l) /\ Borne(w, y, shown)
      <3>1. AllSame(w, x5)
        BY <2>3 DEF SetupGood, SetupWorld, SetupFields, AllSame, OwnerSame, NetworkSame, RestSame
      <3> HIDE DEF x5
      <3> QED
        BY <2>4, <2>9, <3>1, SameGood
    <2>10. ASSUME apply /\ w.path = "ostatus" /\ w.shows /\ y = x6
         PROVE  SetupGood(y, n, a, l) /\ Borne(w, y, shown)
      BY <1>2, <2>10, ResultDeliveredIs DEF Borne, Shows
    <2>11. ASSUME y = w
         PROVE  SetupGood(y, n, a, l) /\ Borne(w, y, shown)
      BY <2>11 DEF Borne
    <2> HIDE DEF shown, y, x1, x2, x3, x4, x5, x6
    <2>12. SetupGood(y, n, a, l) /\ Borne(w, y, shown)
      BY <2>2, <2>5, <2>6, <2>7, <2>8, <2>9, <2>10, <2>11
    <2>13. /\ SetupGood(x, n, a, l) /\ x.slot = y.slot /\ x.own = y.own
           /\ x.gen = y.gen /\ x.net = y.net /\ x.result = y.result /\ x.orestart = y.orestart
           /\ x.tx = 0
      BY <2>12, ReplyEndedGood
    <2> HIDE DEF x
    <2>14. Ended(w, x, tx, apply)
      BY <1>2, <2>12, <2>13 DEF Ended, Borne, shown
    <2> QED
      BY <2>1, <2>13, <2>14
  <1> QED
    BY <1>1, <1>2

-----------------------------------------------------------------------------

\* A request that no other reply is under way for.
Asked(w, x, n, a, l) ==
    /\ SetupGood(x, n, a, l)
    /\ x.gen = w.gen /\ x.net = w.net /\ x.result = w.result /\ x.orestart = w.orestart /\ x.tx = w.tx

\* A step that begins nothing is one of them.
LEMMA KeptAsked ==
    ASSUME NEW w, NEW x, NEW n, NEW a, NEW l, Kept(w, x, n, a, l)
    PROVE  Asked(w, x, n, a, l)
  BY DEF Kept, Onward, Asked

\* A slot that is granted, where there was none.
LEMMA GrantGood ==
    ASSUME NEW w, NEW n, NEW a, NEW l, SetupGood(w, n, a, l), w.slot.st = "none", w.own.st = "none",
           w.rslot = 0, w.gate # "reconcile"
    PROVE  Asked(w, Boot!Initialized(Boot!GrantSlot([w EXCEPT !.gate = "open", !.login = 0])), n, a, l)
  <1> DEFINE q == [Boot!NoSlot EXCEPT !.st = "granted", !.sid = w.serial + 1]
             y == [w EXCEPT !.gate = "open", !.login = 0]
             x == Boot!Initialized(Boot!GrantSlot(y))
  <1>1. DOMAIN w = SetupFields
    BY DEF SetupGood, SetupWorld
  <1>2. DOMAIN y = SetupFields /\ y.serial = w.serial /\ y.gate = "open"
    BY <1>1 DEF SetupFields
  <1>3. OwnerSame(w, y) /\ NetworkSame(w, y)
    BY <1>1 DEF SetupFields, OwnerSame, NetworkSame
  <1>4. /\ y.station = w.station /\ y.rec = w.rec /\ y.net = w.net /\ y.gen = w.gen
        /\ y.result = w.result /\ y.orestart = w.orestart /\ y.rslot = w.rslot /\ y.tx = w.tx
        /\ y.path = w.path
    BY <1>1 DEF SetupFields
  <1> HIDE DEF y
  <1>5. x = [y EXCEPT !.serial = @ + 1, !.digest = y.serial + 1, !.due = @ \ {"slot"}, !.slot = q,
                      !.access = "ok"]
    BY <1>2 DEF Boot!Initialized, Boot!GrantSlot
  <1>6. DOMAIN q = SlotFields /\ q.st = "granted"
    BY DEF SlotFields, Boot!NoSlot
  <1> HIDE DEF x, q
  <1>7. DOMAIN x = SetupFields /\ x.slot = q /\ OwnerSame(y, x)
    BY <1>2, <1>5 DEF SetupFields, OwnerSame
  <1>8. /\ x.trial = y.trial /\ x.prev = y.prev /\ x.switched = y.switched /\ x.gate = y.gate
        /\ x.station = y.station /\ x.rec = y.rec /\ x.net = y.net /\ x.gen = y.gen
        /\ x.result = y.result /\ x.orestart = y.orestart /\ x.rslot = y.rslot /\ x.tx = y.tx
        /\ x.path = y.path
    BY <1>2, <1>5 DEF SetupFields
  <1>9. SetupWorld(x)
    BY <1>3, <1>4, <1>6, <1>7, <1>8 DEF SetupGood, SetupWorld, SlotKinds, OwnerSame
  <1>10. Apart(x)
    BY <1>3, <1>4, <1>7, <1>8 DEF SetupGood, Apart, OwnerSame
  <1>11. Undone(x, n, l)
    BY <1>2, <1>3, <1>4, <1>6, <1>7, <1>8 DEF SetupGood, Undone, OwnerSame, NetworkSame
  <1>12. Heard(x, a)
    BY <1>3, <1>4, <1>6, <1>7, <1>8 DEF SetupGood, Heard, OwnerSame
  <1>13. SetupGood(x, n, a, l)
    BY <1>9, <1>10, <1>11, <1>12 DEF SetupGood
  <1> QED
    BY <1>4, <1>8, <1>13 DEF Asked, x, y

\* start() of a network slot: a failed attempt makes room for it.
LEMMA NetworkStartGood ==
    ASSUME NEW w, NEW n, NEW a, NEW l, SetupGood(w, n, a, l), w.rslot = 0
    PROVE  Asked(w, Boot!NetworkStart(w).w, n, a, l)
  <1> DEFINE x == IF w.safe /\ Boot!NetworkSetupAuthority(w) THEN Boot!ClearFailedSetup(w) ELSE w
             y == Boot!Initialized(Boot!GrantSlot([x EXCEPT !.gate = "open", !.login = 0]))
  <1>1. Kept(w, x, n, a, l)
    BY ClearFailedGood, KeptSelf
  <1>2. \/ Boot!NetworkStart(w).w = x
        \/ x.slot.st = "none" /\ x.own.st = "none" /\ x.gate # "reconcile" /\ Boot!NetworkStart(w).w = y
    BY DEF Boot!NetworkStart, Boot!No, Boot!Yes
  <1> HIDE DEF x
  <1>3. SetupGood(x, n, a, l) /\ x.rslot = 0
    BY <1>1 DEF Kept, Onward
  <1>4. Asked(w, x, n, a, l)
    BY <1>1, KeptAsked
  <1>5. CASE x.slot.st = "none" /\ x.own.st = "none" /\ x.gate # "reconcile" /\ Boot!NetworkStart(w).w = y
    <2>1. Asked(x, y, n, a, l)
      BY <1>3, <1>5, GrantGood
    <2> HIDE DEF y
    <2> QED
      BY <1>4, <1>5, <2>1 DEF Asked
  <1> QED
    BY <1>2, <1>4, <1>5

\* A submission uses its slot up, and the box it was opened with.
LEMMA NetworkSubmitGood ==
    ASSUME NEW w, NEW q, NEW n, NEW a, NEW l, SetupGood(w, n, a, l), w.rslot = 0, w.net \in n, w.tx = 0
    PROVE  LET t == Boot!NetworkSubmit(w, q)
           IN  /\ Asked(w, t.w, n, a, l)
               /\ t.ok => /\ t.w.slot.st = "trial" => t.w.slot.req = q.tx
                          /\ t.w.own.st # "trial"
  <1> DEFINE r == [w.slot EXCEPT !.st = "trial", !.req = q.tx]
             u == [Boot!ConsumeSlot(w, q) EXCEPT !.prev = w.net]
             y == Boot!EndTrial(u, FALSE)
             z == [u EXCEPT !.trial = 2, !.verifier = q.tx, !.pend = TRUE, !.deliv = FALSE]
             t == Boot!NetworkSubmit(w, q)
  <1>1. \/ t = [w |-> w, ok |-> FALSE]
        \/ w.slot.st = "granted" /\ t = [w |-> Boot!DropSlot(w), ok |-> FALSE]
        \/ w.slot.st = "granted" /\ w.own.st = "none" /\ t.w = y
        \/ w.slot.st = "granted" /\ w.own.st = "none" /\ t.w = z
    BY DEF Boot!NetworkSubmit, Boot!No, Boot!Yes
  <1>2. DOMAIN w = SetupFields
    BY DEF SetupGood, SetupWorld
  <1>3. u = [w EXCEPT !.slot = r, !.prev = w.net]
    BY <1>2 DEF Boot!ConsumeSlot
  <1>4. DOMAIN r = SlotFields /\ r.st = "trial" /\ r.req = q.tx
    BY DEF SetupGood, SetupWorld, SlotFields
  <1> HIDE DEF u, r, t
  <1>5. DOMAIN u = SetupFields /\ u.slot = r /\ u.prev = w.net /\ OwnerSame(w, u)
    BY <1>2, <1>3 DEF SetupFields, OwnerSame
  <1>6. RestSame(w, u)
    BY <1>2, <1>3 DEF SetupFields, RestSame
  <1>7. u.station = w.station /\ u.switched = w.switched
    BY <1>2, <1>3 DEF SetupFields
  <1>8. SetupWorld(u)
    BY <1>4, <1>5, <1>6 DEF SetupGood, SetupWorld, SlotKinds, OwnerSame, RestSame
  <1>9. CASE t = [w |-> w, ok |-> FALSE]
    BY <1>9, KeptSelf, KeptAsked DEF t
  <1>10. CASE w.slot.st = "granted" /\ t = [w |-> Boot!DropSlot(w), ok |-> FALSE]
    BY <1>10, DropSlotGood, KeptAsked DEF t
  <1>11. CASE w.slot.st = "granted" /\ w.own.st = "none" /\ t.w = y
    <2>1. /\ SetupWorld(y) /\ OwnerSame(u, y) /\ RestSame(u, y) /\ y.trial = 0 /\ y.prev = 0
          /\ y.slot.st \in {"none", "terminal"} /\ ~y.switched
          /\ IF u.switched THEN y.station \in {u.prev, 0} ELSE y.station = u.station
      BY <1>4, <1>5, <1>8, EndTrialIs
    <2> HIDE DEF y
    <2>2. OwnerSame(w, y) /\ RestSame(w, y)
      BY <1>5, <1>6, <2>1 DEF OwnerSame, RestSame
    <2>3. Apart(y)
      BY <1>11, <2>2 DEF SetupGood, Apart, OwnerSame, RestSame
    <2>4. Undone(y, n, l)
      BY <1>5, <1>7, <2>1, <2>2 DEF SetupGood, Undone, OwnerSame, RestSame
    <2>5. Heard(y, a)
      BY <2>1, <2>2 DEF SetupGood, Heard, OwnerSame, RestSame
    <2>6. SetupGood(y, n, a, l)
      BY <2>1, <2>3, <2>4, <2>5 DEF SetupGood
    <2> QED
      BY <1>11, <2>1, <2>2, <2>6 DEF Asked, RestSame, OwnerSame, t
  <1>12. CASE w.slot.st = "granted" /\ w.own.st = "none" /\ t.w = z
    <2>1. DOMAIN z = SetupFields /\ OwnerSame(u, z) /\ RestSame(u, z)
      BY <1>5 DEF SetupFields, OwnerSame, RestSame
    <2>2. z.slot = r /\ z.prev = w.net /\ z.pend /\ ~z.deliv /\ z.station = w.station /\ z.switched = w.switched
      BY <1>5, <1>7 DEF SetupFields
    <2> HIDE DEF z
    <2>3. OwnerSame(w, z) /\ RestSame(w, z)
      BY <1>5, <1>6, <2>1 DEF OwnerSame, RestSame
    <2>4. SetupWorld(z)
      BY <1>4, <2>1, <2>2, <2>3 DEF SetupGood, SetupWorld, SlotKinds, OwnerSame, RestSame
    <2>5. Apart(z)
      BY <1>12, <2>3 DEF SetupGood, Apart, OwnerSame, RestSame
    <2>6. Undone(z, n, l)
      BY <1>4, <2>2, <2>3 DEF SetupGood, Undone, OwnerSame, RestSame
    <2>7. Heard(z, a)
      BY <1>4, <2>2, <2>3 DEF SetupGood, Heard, OwnerSame, RestSame
    <2>8. SetupGood(z, n, a, l)
      BY <2>4, <2>5, <2>6, <2>7 DEF SetupGood
    <2> QED
      BY <1>4, <1>12, <2>2, <2>3, <2>8 DEF Asked, RestSame, OwnerSame, t
  <1> QED
    BY <1>1, <1>9, <1>10, <1>11, <1>12

\* An acknowledgement may find that its trial has lapsed.
LEMMA NetworkAckGood ==
    ASSUME NEW w, NEW q, NEW n, NEW a, NEW l, SetupGood(w, n, a, l),
           w.slot.st = "trial" /\ ~Boot!NetworkAck(w, q).ok /\ Boot!NetworkAck(w, q).w.slot.st = "none" => l
    PROVE  Asked(w, Boot!NetworkAck(w, q).w, n, a, l)
  <1> DEFINE x == Boot!DropSlot(w)
             y == [x EXCEPT !.verifier = 0, !.digest = 0]
  <1>1. \/ Boot!NetworkAck(w, q).w = w
        \/ ~Boot!NetworkAck(w, q).ok /\ Boot!NetworkAck(w, q).w = x
        \/ w.slot.st = "terminal" /\ Boot!NetworkAck(w, q).w = y
    BY DEF Boot!NetworkAck, Boot!Acknowledged, Boot!No, Boot!Yes
  <1>2. DOMAIN w = SetupFields
    BY DEF SetupGood, SetupWorld
  <1>3. x.slot.st = "none"
    BY <1>2 DEF SetupFields, Boot!DropSlot, Boot!NoSlot
  <1>4. CASE Boot!NetworkAck(w, q).w = w
    BY <1>4, KeptSelf, KeptAsked
  <1>5. CASE ~Boot!NetworkAck(w, q).ok /\ Boot!NetworkAck(w, q).w = x
    BY <1>3, <1>5, DropSlotGood, KeptAsked
  <1>6. CASE w.slot.st = "terminal" /\ Boot!NetworkAck(w, q).w = y
    <2>1. Kept(w, x, n, a, l)
      BY <1>6, DropSlotGood
    <2> HIDE DEF x
    <2>2. SetupGood(x, n, a, l) /\ DOMAIN x = SetupFields
      BY <2>1 DEF Kept, SetupGood, SetupWorld
    <2>3. AllSame(x, y)
      BY <2>2 DEF SetupGood, SetupWorld, SetupFields, AllSame, OwnerSame, NetworkSame, RestSame
    <2> HIDE DEF y
    <2> QED
      BY <1>6, <2>1, <2>2, <2>3, SameGood, KeptTwice, KeptAsked
  <1> QED
    BY <1>1, <1>4, <1>5, <1>6

\* A claim of the owner's slot, where neither slot is taken.
LEMMA OwnerStartGood ==
    ASSUME NEW w, NEW q, NEW n, NEW a, NEW l, SetupGood(w, n, a, l), w.rslot = 0
    PROVE  Asked(w, Boot!OwnerStart(w, q).w, n, a, l)
  <1> DEFINE x == Boot!ClearFailedSetup(w)
             y == IF q.k = "pstart" THEN x ELSE Boot!Initialized(x)
             r == [Boot!NoSlot EXCEPT !.st = "granted", !.sid = x.serial + 1, !.gen = x.gen]
             p == Boot!Progress(q.k)
             z == [y EXCEPT !.serial = @ + 1, !.login = 0, !.oreq = 0, !.own = r,
                            !.prog = p, !.expected = x.rev, !.due = @ \ {"owner"}]
  <1>1. Kept(w, x, n, a, l)
    BY ClearFailedGood
  <1>2. \/ Boot!OwnerStart(w, q).w = w
        \/ Boot!OwnerStart(w, q).w = x
        \/ /\ ~w.orestart /\ x.slot.st = "none" /\ x.own.st = "none"
           /\ Boot!OwnerStart(w, q).w = z
    BY DEF Boot!OwnerStart, Boot!OwnerClaimable, Boot!No, Boot!Yes
  <1>3. DOMAIN r = SlotFields /\ r.st = "granted"
    BY DEF SlotFields, Boot!NoSlot
  <1> HIDE DEF x, r, p
  <1>4. SetupGood(x, n, a, l) /\ DOMAIN x = SetupFields /\ x.rslot = 0 /\ x.orestart = w.orestart
    BY <1>1 DEF Kept, Onward, SetupGood, SetupWorld
  <1>5. Asked(w, x, n, a, l)
    BY <1>1, KeptAsked
  <1>6. CASE /\ ~w.orestart /\ x.slot.st = "none" /\ x.own.st = "none"
             /\ Boot!OwnerStart(w, q).w = z
    <2>1. DOMAIN y = SetupFields /\ OwnerSame(x, y) /\ NetworkSame(x, y)
      BY <1>4 DEF SetupFields, OwnerSame, NetworkSame, Boot!Initialized
    <2>2. RestSame(x, y) /\ y.station = x.station
      BY <1>4 DEF SetupFields, RestSame, Boot!Initialized
    <2> HIDE DEF y
    <2>3. DOMAIN z = SetupFields /\ NetworkSame(y, z) /\ RestSame(y, z)
      BY <2>1 DEF SetupFields, NetworkSame, RestSame
    <2>4. /\ z.own = r /\ z.otrial = y.otrial /\ z.oprev = y.oprev /\ z.oswitched = y.oswitched
          /\ z.opend = y.opend /\ z.odeliv = y.odeliv /\ z.oactive = y.oactive /\ z.station = y.station
      BY <2>1 DEF SetupFields
    <2> HIDE DEF z
    <2>5. NetworkSame(x, z) /\ RestSame(x, z)
      BY <2>1, <2>2, <2>3 DEF NetworkSame, RestSame
    <2>6. SetupWorld(z)
      BY <1>3, <1>4, <2>3, <2>4, <2>5 DEF SetupGood, SetupWorld, SlotKinds, NetworkSame, RestSame
    <2>7. Apart(z)
      BY <1>3, <1>4, <1>6, <2>4, <2>5 DEF Apart, NetworkSame, RestSame
    <2>8. Undone(z, n, l)
      BY <1>4, <1>6, <2>1, <2>2, <2>4, <2>5 DEF SetupGood, Undone, OwnerSame, NetworkSame, RestSame
    <2>9. Heard(z, a)
      BY <1>3, <1>4, <2>4, <2>5 DEF SetupGood, Heard, NetworkSame, RestSame
    <2>10. SetupGood(z, n, a, l)
      BY <1>4, <2>6, <2>7, <2>8, <2>9 DEF SetupGood
    <2> QED
      BY <1>5, <1>6, <2>5, <2>10 DEF Asked, RestSame
  <1> QED
    BY <1>2, <1>5, <1>6, KeptSelf, KeptAsked

\* The end of a slot that was granted.
LEMMA GrantedEnds ==
    ASSUME NEW w, NEW x, NEW n, NEW a, NEW l, SetupGood(w, n, a, l), w.own.st = "granted",
           OwnerEnded(w, x), x.station = w.station
    PROVE  Asked(w, x, n, a, l)
  <1>1. ~w.oswitched
    BY DEF SetupGood, Undone
  <1> QED
    BY <1>1, OwnerEndedGood, KeptAsked

\* A submission of the owner, or of a progress record.
LEMMA OwnerSubmitGood ==
    ASSUME NEW w, NEW q, NEW n, NEW a, NEW l, SetupGood(w, n, a, l), w.rslot = 0, w.net \in n, w.tx = 0
    PROVE  LET t == Boot!OwnerSubmit(w, q)
           IN  /\ Asked(w, t.w, n, a, l)
               /\ t.ok /\ q.k = "osubmit" => /\ t.w.own.st = "trial" => t.w.own.req = q.tx
                                             /\ t.w.slot.st # "trial"
  <1> DEFINE r == [w.own EXCEPT !.st = "trial", !.req = q.tx]
             x == [w EXCEPT !.own = Boot!NoSlot, !.due = @ \ {"owner"}]
             u == [w EXCEPT !.rev = @ + 1]
             y == Boot!CancelOwnerSlot(u, FALSE)
             z == [w EXCEPT !.own = r, !.oreq = q.tx,
                            !.otrial = 2, !.oprev = w.net, !.opend = TRUE, !.odeliv = FALSE,
                            !.due = @ \ {"owner"}]
             t == Boot!OwnerSubmit(w, q)
  <1>1. \/ t = [w |-> w, ok |-> FALSE]
        \/ w.own.st = "granted" /\ t = [w |-> x, ok |-> FALSE]
        \/ w.own.st = "granted" /\ q.k = "psubmit" /\ t.w = y
        \/ w.own.st = "granted" /\ ~w.orestart /\ t.w = z
    BY DEF Boot!OwnerSubmit, Boot!OwnerCurrent, Boot!OwnerClaimable, Boot!No, Boot!Yes
  <1>2. DOMAIN w = SetupFields
    BY DEF SetupGood, SetupWorld
  <1>3. DOMAIN r = SlotFields /\ r.st = "trial" /\ r.req = q.tx
    BY DEF SetupGood, SetupWorld, SlotFields
  <1>4. w.own.st = "granted" => /\ w.slot.st = "none" /\ w.otrial = 0 /\ w.oprev = 0 /\ ~w.oswitched
                                /\ ~w.oactive /\ ~w.opend /\ ~w.odeliv
    BY DEF SetupGood, Apart, Undone
  <1> HIDE DEF r, t
  <1>5. CASE t = [w |-> w, ok |-> FALSE]
    BY <1>5, KeptSelf, KeptAsked DEF t
  <1>6. CASE w.own.st = "granted" /\ t = [w |-> x, ok |-> FALSE]
    <2>1. DOMAIN x = SetupFields /\ NetworkSame(w, x) /\ RestSame(w, x)
      BY <1>2 DEF SetupFields, NetworkSame, RestSame
    <2>2. /\ x.own = Boot!NoSlot /\ x.otrial = w.otrial /\ x.oprev = w.oprev /\ x.oswitched = w.oswitched
          /\ x.opend = w.opend /\ x.odeliv = w.odeliv /\ x.oactive = w.oactive /\ x.station = w.station
      BY <1>2 DEF SetupFields
    <2>3. DOMAIN x.own = SlotFields /\ x.own.st = "none"
      BY <2>2 DEF SlotFields, Boot!NoSlot
    <2> HIDE DEF x
    <2>4. OwnerEnded(w, x)
      BY <1>4, <1>6, <2>1, <2>2, <2>3 DEF SetupGood, SetupWorld, SlotKinds, OwnerEnded, NetworkSame, RestSame
    <2> QED
      BY <1>6, <2>2, <2>4, GrantedEnds DEF t
  <1>7. CASE w.own.st = "granted" /\ q.k = "psubmit" /\ t.w = y
    <2>1. AllSame(w, u)
      BY <1>2 DEF SetupGood, SetupWorld, SetupFields, AllSame, OwnerSame, NetworkSame, RestSame
    <2> HIDE DEF u
    <2>2. Kept(w, u, n, a, l) /\ SetupGood(u, n, a, l) /\ u.own.st = "granted"
      BY <1>7, <2>1, SameGood DEF Kept, AllSame, OwnerSame
    <2>3. OwnerEnded(u, y) /\ y.station = u.station
      BY <2>1, CancelOwnerIs DEF AllSame
    <2> HIDE DEF y
    <2>4. Asked(u, y, n, a, l)
      BY <2>2, <2>3, GrantedEnds
    <2> QED
      BY <1>7, <2>2, <2>4 DEF Kept, Onward, Asked, t
  <1>8. CASE w.own.st = "granted" /\ ~w.orestart /\ t.w = z
    <2>1. DOMAIN z = SetupFields /\ NetworkSame(w, z) /\ RestSame(w, z)
      BY <1>2 DEF SetupFields, NetworkSame, RestSame
    <2>2. /\ z.own = r /\ z.oprev = w.net /\ z.oswitched = w.oswitched
          /\ ~z.odeliv /\ z.oactive = w.oactive /\ z.station = w.station
      BY <1>2 DEF SetupFields
    <2> HIDE DEF z
    <2>3. SetupWorld(z)
      BY <1>3, <2>1, <2>2 DEF SetupGood, SetupWorld, SlotKinds, NetworkSame, RestSame
    <2>4. Apart(z)
      BY <1>4, <1>8, <2>1 DEF Apart, NetworkSame, RestSame
    <2>5. Undone(z, n, l)
      BY <1>3, <1>4, <1>8, <2>1, <2>2 DEF SetupGood, Undone, NetworkSame, RestSame
    <2>6. Heard(z, a)
      BY <1>3, <1>4, <1>8, <2>1, <2>2 DEF SetupGood, Heard, NetworkSame, RestSame
    <2>7. SetupGood(z, n, a, l)
      BY <2>3, <2>4, <2>5, <2>6 DEF SetupGood
    <2> QED
      BY <1>3, <1>4, <1>8, <2>1, <2>2, <2>7 DEF Asked, NetworkSame, RestSame, t
  <1> QED
    BY <1>1, <1>5, <1>6, <1>7, <1>8

\* The recovery slot.
LEMMA RecoveryGood ==
    ASSUME NEW w, NEW q, NEW n, NEW a, NEW l, SetupGood(w, n, a, l)
    PROVE  Asked(w, Boot!Recovery(w, q).w, n, a, l)
  <1> DEFINE x == [w EXCEPT !.serial = @ + 1, !.rslot = w.serial + 1, !.due = @ \ {"recovery"}]
             y == [w EXCEPT !.rslot = 0]
             z == [w EXCEPT !.rslot = 0, !.reset = TRUE, !.access = "ok"]
             t == Boot!Recovery(w, q).w
  <1>1. \/ t = w
        \/ w.slot.st = "none" /\ w.own.st \notin {"granted", "trial"} /\ t = x
        \/ t = y
        \/ t = z
    BY DEF Boot!Recovery, Boot!SetupPending, Boot!OwnerClaimPending, Boot!No, Boot!Yes
  <1>2. DOMAIN w = SetupFields
    BY DEF SetupGood, SetupWorld
  <1> DEFINE Rest(p) == /\ p.gate = w.gate /\ p.rec = w.rec /\ p.net = w.net /\ p.gen = w.gen
                        /\ p.result = w.result /\ p.orestart = w.orestart /\ p.tx = w.tx
                        /\ p.path = w.path /\ p.station = w.station
  <1>3. ASSUME NEW p, DOMAIN p = SetupFields, OwnerSame(w, p), NetworkSame(w, p), Rest(p),
               p.rslot # 0 => w.slot.st = "none" /\ w.own.st \in {"none", "terminal"}
        PROVE  Asked(w, p, n, a, l)
    <2>1. SetupWorld(p)
      BY <1>3 DEF SetupGood, SetupWorld, OwnerSame, NetworkSame
    <2>2. Apart(p)
      BY <1>3 DEF SetupGood, Apart, OwnerSame, NetworkSame
    <2>3. Undone(p, n, l)
      BY <1>3 DEF SetupGood, Undone, OwnerSame, NetworkSame
    <2>4. Heard(p, a)
      BY <1>3 DEF SetupGood, Heard, OwnerSame, NetworkSame
    <2> QED
      BY <1>3, <2>1, <2>2, <2>3, <2>4 DEF Asked, SetupGood
  <1>4. CASE w.slot.st = "none" /\ w.own.st \notin {"granted", "trial"} /\ t = x
    <2>1. DOMAIN x = SetupFields /\ OwnerSame(w, x) /\ NetworkSame(w, x)
      BY <1>2 DEF SetupFields, OwnerSame, NetworkSame
    <2>2. Rest(x)
      BY <1>2 DEF SetupFields
    <2>3. w.own.st \in {"none", "terminal"}
      BY <1>4 DEF SetupGood, SetupWorld, SlotKinds
    <2> HIDE DEF x
    <2> QED
      BY <1>3, <1>4, <2>1, <2>2, <2>3
  <1>5. CASE t = y
    <2>1. DOMAIN y = SetupFields /\ OwnerSame(w, y) /\ NetworkSame(w, y)
      BY <1>2 DEF SetupFields, OwnerSame, NetworkSame
    <2>2. Rest(y) /\ y.rslot = 0
      BY <1>2 DEF SetupFields
    <2> HIDE DEF y
    <2> QED
      BY <1>3, <1>5, <2>1, <2>2
  <1>6. CASE t = z
    <2>1. DOMAIN z = SetupFields /\ OwnerSame(w, z) /\ NetworkSame(w, z)
      BY <1>2 DEF SetupFields, OwnerSame, NetworkSame
    <2>2. Rest(z) /\ z.rslot = 0
      BY <1>2 DEF SetupFields
    <2> HIDE DEF z
    <2> QED
      BY <1>3, <1>6, <2>1, <2>2
  <1> QED
    BY <1>1, <1>4, <1>5, <1>6, KeptSelf, KeptAsked

\* An answer is a world and a verdict.
Answer(t) == DOMAIN t = {"w", "ok"}

\* Every handler answers.
LEMMA HandledAnswers ==
    ASSUME NEW w, NEW q
    PROVE  Answer(Boot!Handled(w, q))
  <1> USE DEF Answer, Boot!No, Boot!Yes
  <1>1. Answer(Boot!NetworkStart(w))
    BY DEF Boot!NetworkStart
  <1>2. Answer(Boot!NetworkSubmit(w, q))
    BY DEF Boot!NetworkSubmit
  <1>3. Answer(Boot!NetworkAck(w, q))
    BY DEF Boot!NetworkAck, Boot!Acknowledged
  <1>4. Answer(Boot!OwnerStart(w, q))
    BY DEF Boot!OwnerStart
  <1>5. Answer(Boot!OwnerSubmit(w, q))
    BY DEF Boot!OwnerSubmit
  <1>6. Answer(Boot!Recovery(w, q))
    BY DEF Boot!Recovery
  <1>7. Answer(Boot!Yes(w)) /\ Answer(Boot!No(w))
    OBVIOUS
  <1> QED
    BY <1>1, <1>2, <1>3, <1>4, <1>5, <1>6, <1>7 DEF Boot!Handled, Boot!Mutation, Boot!OwnerMutation

\* Every handler keeps the invariant, and a submission's trial is of its own request.
LEMMA HandledGood ==
    ASSUME NEW w, NEW q, NEW n, NEW a, NEW l, SetupGood(w, n, a, l), w.tx = 0, w.net \in n,
           (/\ q.k = "ack" /\ w.slot.st = "trial"
            /\ ~Boot!Handled(w, q).ok /\ Boot!Handled(w, q).w.slot.st = "none") => l
    PROVE  LET t == Boot!Handled(w, q)
           IN  /\ Asked(w, t.w, n, a, l)
               /\ t.ok /\ q.k \in {"submit", "forged"} /\ t.w.slot.st = "trial" => t.w.slot.req = q.tx
               /\ t.ok /\ q.k = "osubmit" /\ t.w.own.st = "trial" => t.w.own.req = q.tx
  <1> DEFINE t == Boot!Handled(w, q)
  <1>0. Boot!No(w) = [w |-> w, ok |-> FALSE] /\ Boot!Yes(w) = [w |-> w, ok |-> TRUE]
    BY DEF Boot!No, Boot!Yes
  <1>1. Asked(w, w, n, a, l)
    BY KeptSelf, KeptAsked
  <1>2. CASE t = Boot!No(w)
    BY <1>0, <1>1, <1>2
  <1>3. CASE t = Boot!Yes(w) /\ q.k \notin {"submit", "forged", "osubmit"}
    BY <1>0, <1>1, <1>3
  <1>4. CASE w.rslot = 0 /\ q.k = "start" /\ t = Boot!NetworkStart(w)
    BY <1>4, NetworkStartGood
  <1>5. CASE w.rslot = 0 /\ q.k \in {"submit", "forged"} /\ t = Boot!NetworkSubmit(w, q)
    BY <1>5, NetworkSubmitGood
  <1>6. CASE q.k = "ack" /\ t = Boot!NetworkAck(w, q)
    BY <1>6, NetworkAckGood
  <1>7. CASE w.rslot = 0 /\ q.k \in {"ostart", "pstart", "papply"} /\ t = Boot!OwnerStart(w, q)
    BY <1>7, OwnerStartGood
  <1>8. CASE w.rslot = 0 /\ q.k \in {"osubmit", "psubmit"} /\ t = Boot!OwnerSubmit(w, q)
    BY <1>8, OwnerSubmitGood
  <1>9. CASE q.k \in {"rstart", "rsubmit"} /\ t = Boot!Recovery(w, q)
    BY <1>9, RecoveryGood
  <1> HIDE DEF t
  <1>10. \/ t = Boot!No(w)
         \/ t = Boot!Yes(w) /\ q.k \notin {"submit", "forged", "osubmit"}
         \/ w.rslot = 0 /\ q.k = "start" /\ t = Boot!NetworkStart(w)
         \/ w.rslot = 0 /\ q.k \in {"submit", "forged"} /\ t = Boot!NetworkSubmit(w, q)
         \/ q.k = "ack" /\ t = Boot!NetworkAck(w, q)
         \/ w.rslot = 0 /\ q.k \in {"ostart", "pstart", "papply"} /\ t = Boot!OwnerStart(w, q)
         \/ w.rslot = 0 /\ q.k \in {"osubmit", "psubmit"} /\ t = Boot!OwnerSubmit(w, q)
         \/ q.k \in {"rstart", "rsubmit"} /\ t = Boot!Recovery(w, q)
    BY DEF t, Boot!Handled, Boot!Mutation, Boot!OwnerMutation
  <1> QED
    BY <1>2, <1>3, <1>4, <1>5, <1>6, <1>7, <1>8, <1>9, <1>10

\* What a request may have left to be remembered.
Replied(w, x, q) ==
    \/ x.tx = w.tx /\ x.path = w.path /\ x.shows = w.shows
    \/ x.tx = 0
    \/ x.tx = q.tx /\ (x.shows => q.k = "ostatus" /\ Boot!Reported(x) # 0)

\* The reply that is remembered.
LEMMA RememberIs ==
    ASSUME NEW w, NEW q, SetupWorld(w)
    PROVE  LET x == [w EXCEPT !.path = q.k, !.tx = q.tx, !.shows = q.k = "ostatus"]
           IN  /\ SetupWorld(x) /\ OwnerSame(w, x) /\ NetworkSame(w, x) /\ x.station = w.station
               /\ x.gate = w.gate /\ x.rec = w.rec /\ x.net = w.net /\ x.gen = w.gen
               /\ x.result = w.result /\ x.orestart = w.orestart /\ x.rslot = w.rslot
               /\ x.tx = q.tx /\ x.path = q.k /\ (x.shows => q.k = "ostatus")
               /\ Boot!Reported(x) = Boot!Reported(w)
  <1> DEFINE k == q.k = "ostatus"
             x == [w EXCEPT !.path = q.k, !.tx = q.tx, !.shows = k]
  <1> HIDE DEF k
  <1>1. DOMAIN w = SetupFields
    BY DEF SetupWorld
  <1>2. DOMAIN x = SetupFields /\ OwnerSame(w, x) /\ NetworkSame(w, x)
    BY <1>1 DEF SetupFields, OwnerSame, NetworkSame
  <1>3. /\ x.station = w.station
        /\ x.gate = w.gate /\ x.rec = w.rec /\ x.net = w.net /\ x.gen = w.gen
        /\ x.result = w.result /\ x.orestart = w.orestart /\ x.rslot = w.rslot
        /\ x.tx = q.tx /\ x.path = q.k /\ x.shows = k
    BY <1>1 DEF SetupFields
  <1>4. x.healthy = w.healthy /\ x.src = w.src /\ x.oreq = w.oreq
    BY <1>1 DEF SetupFields
  <1> HIDE DEF x
  <1>5. SetupWorld(x)
    BY <1>2, <1>3 DEF SetupWorld, OwnerSame, NetworkSame
  <1>6. Boot!Reported(x) = Boot!Reported(w)
    BY <1>3, <1>4 DEF Boot!Reported, Boot!ResultMatches
  <1> QED
    BY <1>2, <1>3, <1>5, <1>6 DEF x, k

\* To remember it keeps the invariant.
LEMMA RememberGood ==
    ASSUME NEW w, NEW q, NEW n, NEW a, NEW l, SetupGood(w, n, a, l), w.tx = 0,
           q.k \in {"submit", "forged"} /\ w.slot.st = "trial" => w.slot.req = q.tx,
           q.k = "osubmit" /\ w.own.st = "trial" => w.own.req = q.tx
    PROVE  LET x == Boot!RememberSetupReply(w, q)
           IN  /\ SetupGood(x, n, a, l) /\ Replied(w, x, q)
               /\ x.gen = w.gen /\ x.net = w.net /\ x.result = w.result /\ x.orestart = w.orestart
  <1> DEFINE x == [w EXCEPT !.path = q.k, !.tx = q.tx, !.shows = q.k = "ostatus"]
  <1>1. CASE ~(q.k \in {"submit", "forged", "ack", "osubmit"} \/ (q.k = "ostatus" /\ Boot!Reported(w) # 0))
    BY <1>1 DEF Boot!RememberSetupReply, Replied
  <1>2. CASE q.k \in {"submit", "forged", "ack", "osubmit"} \/ (q.k = "ostatus" /\ Boot!Reported(w) # 0)
    <2>1. Boot!RememberSetupReply(w, q) = x
      BY <1>2 DEF Boot!RememberSetupReply
    <2>2. q.k = "ostatus" => Boot!Reported(w) # 0
      BY <1>2
    <2>3. /\ SetupWorld(x) /\ OwnerSame(w, x) /\ NetworkSame(w, x) /\ x.station = w.station
          /\ x.gate = w.gate /\ x.rec = w.rec /\ x.net = w.net /\ x.gen = w.gen
          /\ x.result = w.result /\ x.orestart = w.orestart /\ x.rslot = w.rslot
          /\ x.tx = q.tx /\ x.path = q.k /\ (x.shows => q.k = "ostatus")
          /\ Boot!Reported(x) = Boot!Reported(w)
      <3>1. SetupWorld(w)
        BY DEF SetupGood
      <3> QED
        BY <3>1, RememberIs, Zenon
    <2> HIDE DEF x
    <2>4. Apart(x)
      BY <2>3 DEF SetupGood, Apart, OwnerSame, NetworkSame
    <2>5. Undone(x, n, l)
      BY <2>3 DEF SetupGood, Undone, OwnerSame, NetworkSame
    <2>6. Heard(x, a)
      BY <2>3 DEF SetupGood, Heard, OwnerSame, NetworkSame
    <2>7. SetupGood(x, n, a, l)
      BY <2>3, <2>4, <2>5, <2>6 DEF SetupGood
    <2>8. Replied(w, x, q)
      BY <2>2, <2>3 DEF Replied
    <2> QED
      BY <2>1, <2>3, <2>7, <2>8
  <1> QED
    BY <1>1, <1>2

\* One request, by whichever way it came.
LEMMA DispatchGood ==
    ASSUME NEW w, NEW q, NEW n, NEW a, NEW l, SetupGood(w, n, a, l), w.net \in n,
           q.k = "ack" /\ w.slot.st = "trial" /\ Boot!Dispatch(w, q).w.slot.st = "none" => l
    PROVE  LET t == Boot!Dispatch(w, q)
           IN  /\ SetupGood(t.w, n, a, l) /\ Replied(w, t.w, q)
               /\ t.w.gen = w.gen /\ t.w.net = w.net /\ t.w.result = w.result
               /\ t.w.orestart = w.orestart
               /\ t.w.tx \in {w.tx, 0} \/ t.ok
  <1> DEFINE f == Boot!Handled(w, q)
             g == IF f.ok /\ Boot!Opens(q.k) THEN [f EXCEPT !.w = [@ EXCEPT !.login = q.login]] ELSE f
             t == Boot!Dispatch(w, q)
  <1>1. \/ t = [w |-> w, ok |-> FALSE]
        \/ w.tx = 0 /\ t = Boot!Remembered(f, q)
        \/ w.tx = 0 /\ t = Boot!Remembered(g, q)
    BY DEF Boot!Dispatch, Boot!ConsumerSetup, Boot!No
  <1>2. CASE t = [w |-> w, ok |-> FALSE]
    BY <1>2 DEF Replied
  <1>3. Answer(f) /\ Answer(g) /\ (g.ok <=> f.ok)
    BY HandledAnswers DEF Answer
  <1>4. CASE w.tx = 0 /\ t \in {Boot!Remembered(f, q), Boot!Remembered(g, q)}
    <2>1. ~f.ok => t = f
      BY <1>3, <1>4 DEF Boot!Remembered
    <2>2. (q.k = "ack" /\ w.slot.st = "trial" /\ ~f.ok /\ f.w.slot.st = "none") => l
      BY <2>1
    <2>3. /\ Asked(w, f.w, n, a, l)
          /\ f.ok /\ q.k \in {"submit", "forged"} /\ f.w.slot.st = "trial" => f.w.slot.req = q.tx
          /\ f.ok /\ q.k = "osubmit" /\ f.w.own.st = "trial" => f.w.own.req = q.tx
      BY <1>4, <2>2, HandledGood
    <2> DEFINE x == [f.w EXCEPT !.login = q.login]
    <2>4. g.w \in {f.w, x}
      BY <1>3 DEF Answer
    <2> HIDE DEF f
    <2>5. DOMAIN f.w = SetupFields
      BY <2>3 DEF Asked, SetupGood, SetupWorld
    <2>6. AllSame(f.w, x)
      BY <2>3, <2>5 DEF Asked, SetupGood, SetupWorld, SetupFields, AllSame, OwnerSame, NetworkSame, RestSame
    <2> HIDE DEF x
    <2>7. SetupGood(x, n, a, l) /\ Asked(w, x, n, a, l)
      BY <2>3, <2>6, SameGood DEF Kept, Onward, Asked
    <2>8. x.slot = f.w.slot /\ x.own = f.w.own
      BY <2>6 DEF AllSame, OwnerSame, NetworkSame
    <2> HIDE DEF g
    <2>9. /\ Asked(w, g.w, n, a, l)
          /\ f.ok /\ q.k \in {"submit", "forged"} /\ g.w.slot.st = "trial" => g.w.slot.req = q.tx
          /\ f.ok /\ q.k = "osubmit" /\ g.w.own.st = "trial" => g.w.own.req = q.tx
      BY <2>3, <2>4, <2>7, <2>8
    <2> DEFINE Done(z) == /\ SetupGood(z, n, a, l) /\ Replied(w, z, q)
                          /\ z.gen = w.gen /\ z.net = w.net /\ z.result = w.result /\ z.orestart = w.orestart
    <2>10. ASSUME NEW z, Asked(w, z, n, a, l),
                  q.k \in {"submit", "forged"} /\ z.slot.st = "trial" => z.slot.req = q.tx,
                  q.k = "osubmit" /\ z.own.st = "trial" => z.own.req = q.tx
           PROVE  Done(Boot!RememberSetupReply(z, q))
      <3>1. SetupGood(z, n, a, l) /\ z.tx = 0
        BY <1>4, <2>10 DEF Asked
      <3> DEFINE y == Boot!RememberSetupReply(z, q)
      <3>2. /\ SetupGood(y, n, a, l) /\ Replied(z, y, q)
            /\ y.gen = z.gen /\ y.net = z.net /\ y.result = z.result /\ y.orestart = z.orestart
        BY <2>10, <3>1, RememberGood
      <3> HIDE DEF y
      <3>3. Done(y)
        BY <1>4, <2>10, <3>1, <3>2 DEF Asked, Replied
      <3> QED
        BY <3>3 DEF y
    <2>11. CASE ~f.ok
      BY <1>4, <2>1, <2>3, <2>11 DEF Asked, Replied
    <2>12. CASE f.ok
      <3>1. t.ok /\ t.w \in {Boot!RememberSetupReply(f.w, q), Boot!RememberSetupReply(g.w, q)}
        BY <1>3, <1>4, <2>12 DEF Boot!Remembered, Answer
      <3> HIDE DEF t
      <3>2. Done(t.w)
        <4>1. Done(Boot!RememberSetupReply(f.w, q))
          BY <2>3, <2>10, <2>12
        <4>2. Done(Boot!RememberSetupReply(g.w, q))
          BY <2>9, <2>10, <2>12
        <4> HIDE DEF Done
        <4> QED
          BY <3>1, <4>1, <4>2
      <3> QED
        BY <3>1, <3>2 DEF t
    <2> QED
      BY <2>11, <2>12
  <1> QED
    BY <1>1, <1>2, <1>4

-----------------------------------------------------------------------------

\* What the connections and the history know: a result is told where one was shown, a reply that
\* says a result says the one that waits, and so does the reply that is remembered to show one.
Told(w, cc, g) ==
    /\ w.result.told => g.shown = w.result.req
    /\ \A i \in 1..2 : cc[i].says # 0 => w.orestart /\ cc[i].says = w.result.req
    /\ (w.tx # 0 /\ w.path = "ostatus" /\ w.shows) => \A i \in 1..2 : cc[i].tx = w.tx => cc[i].says # 0

\* What a connection keeps.
ClientFields == {"st", "tx", "says"}

\* What the history keeps.
HistoryFields == {"tx", "changes", "nets", "shown", "delivered", "unfit", "lapsed"}

\* A reply has a number that was given out.
Clients(w, cc, g) ==
    /\ DOMAIN cc = 1..2 /\ DOMAIN g = HistoryFields /\ g.tx \in Nat /\ w.tx \in Nat /\ w.tx <= g.tx
    /\ \A i \in 1..2 : DOMAIN cc[i] = ClientFields /\ cc[i].tx \in Nat /\ cc[i].tx <= g.tx

\* The inductive invariant of the setup server.
BootGood(w, cc, g) ==
    /\ SetupGood(w, g.nets, g.delivered, g.lapsed) /\ w.net \in g.nets /\ ~g.unfit
    /\ Clients(w, cc, g) /\ Told(w, cc, g)

\* A round tells no result.
LEMMA ToldCommits ==
    ASSUME NEW w, NEW x, NEW a, NEW cc, NEW g, Told(w, cc, g), Committed(w, x, a)
    PROVE  Told(x, cc, g)
  BY DEF Told, Committed

\* A reply that ends, whose text the browser may have shown.
LEMMA ToldEnds ==
    ASSUME NEW w, NEW x, NEW cc, NEW g, NEW k, Told(w, cc, g), NEW i \in 1..2, NEW apply \in BOOLEAN,
           Ended(w, x, cc[i].tx, apply),
           k.shown = IF apply /\ cc[i].says # 0 THEN cc[i].says ELSE g.shown
    PROVE  Told(x, cc, k)
  <1>1. x.result.told => k.shown = x.result.req
    BY DEF Told, Ended, Borne, Shows
  <1>2. \A j \in 1..2 : cc[j].says # 0 => x.orestart /\ cc[j].says = x.result.req
    BY DEF Told, Ended, Borne
  <1>3. (x.tx # 0 /\ x.path = "ostatus" /\ x.shows) => \A j \in 1..2 : cc[j].tx = x.tx => cc[j].says # 0
    BY DEF Told, Ended
  <1> QED
    BY <1>1, <1>2, <1>3 DEF Told

\* What is recorded of a connection that ends.
LEMMA RecordedIs ==
    ASSUME NEW g, NEW q, DOMAIN g = HistoryFields
    PROVE  LET k == Boot!Recorded(g, q)
           IN  /\ DOMAIN k = HistoryFields /\ k.tx = g.tx /\ k.nets = g.nets /\ k.unfit = g.unfit
               /\ k.lapsed = g.lapsed /\ g.delivered \subseteq k.delivered
               /\ Boot!Delivered(q) => Answers(s, q.tx, k.delivered)
               /\ k.shown = IF Boot!Delivered(q) /\ q.says # 0 THEN q.says ELSE g.shown
  <1> DEFINE r == g.delivered \cup ({q.tx} \cap {s.slot.req, s.own.req})
             p == IF q.says # 0 THEN q.says ELSE g.shown
             k == [g EXCEPT !.delivered = r, !.shown = p]
  <1>1. Boot!Recorded(g, q) = IF Boot!Delivered(q) THEN k ELSE g
    BY DEF Boot!Recorded
  <1>2. g.delivered \subseteq r /\ Answers(s, q.tx, r)
    BY DEF Answers
  <1> HIDE DEF r, p
  <1>3. /\ DOMAIN k = HistoryFields /\ k.tx = g.tx /\ k.nets = g.nets /\ k.unfit = g.unfit
        /\ k.lapsed = g.lapsed /\ k.delivered = r /\ k.shown = p
    BY DEF HistoryFields
  <1> HIDE DEF k
  <1>4. CASE Boot!Delivered(q)
    BY <1>1, <1>2, <1>3, <1>4 DEF p
  <1>5. CASE ~Boot!Delivered(q)
    BY <1>1, <1>5
  <1> QED
    BY <1>4, <1>5

\* Bytes are acknowledged or not.
LEMMA DeliveredTyped ==
    ASSUME NEW q
    PROVE  Boot!Delivered(q) \in BOOLEAN
  BY DEF Boot!Delivered

\* Connections that are free say nothing.
LEMMA ClientsLeave ==
    ASSUME NEW w, NEW cc, NEW dd, NEW g, Told(w, cc, g), Clients(w, cc, g), DOMAIN dd = 1..2,
           \A i \in 1..2 : dd[i] = cc[i] \/ dd[i] = Boot!NoClient
    PROVE  Told(w, dd, g) /\ Clients(w, dd, g)
  <1>1. /\ DOMAIN Boot!NoClient = ClientFields /\ Boot!NoClient.tx = 0 /\ Boot!NoClient.says = 0
    BY DEF Boot!NoClient, ClientFields
  <1>2. Told(w, dd, g)
    BY <1>1 DEF Told
  <1>3. Clients(w, dd, g)
    BY <1>1 DEF Clients
  <1> QED
    BY <1>2, <1>3

\* The history after the end of connection q.
After(g, k, q) ==
    /\ DOMAIN k = HistoryFields /\ k.tx = g.tx /\ k.nets = g.nets /\ (k.unfit => g.unfit)
    /\ (g.lapsed => k.lapsed) /\ g.delivered \subseteq k.delivered
    /\ Boot!Delivered(q) => Answers(s, q.tx, k.delivered)
    /\ k.shown = IF Boot!Delivered(q) /\ q.says # 0 THEN q.says ELSE g.shown

\* The end of one connection, from world w and history g to k.
LEMMA LeaveGood ==
    ASSUME NEW w, NEW cc, NEW g, NEW k, NEW i \in 1..2, BootGood(w, cc, g), After(g, k, cc[i]),
           w.slot.st = "trial" => w.slot = s.slot, w.own.st = "trial" => w.own = s.own
    PROVE  LET x == Boot!SetupDelivered(w, cc[i].tx, Boot!Delivered(cc[i]))
           IN  /\ BootGood(x, cc, k)
               /\ x.slot.st = "trial" => x.slot = s.slot
               /\ x.own.st = "trial" => x.own = s.own
  <1> DEFINE q == cc[i]
             apply == Boot!Delivered(q)
             x == Boot!SetupDelivered(w, q.tx, apply)
  <1>2. /\ DOMAIN k = HistoryFields /\ k.tx = g.tx /\ k.nets = g.nets /\ (k.unfit => g.unfit)
        /\ (g.lapsed => k.lapsed) /\ g.delivered \subseteq k.delivered
        /\ apply => Answers(s, q.tx, k.delivered)
        /\ k.shown = IF apply /\ q.says # 0 THEN q.says ELSE g.shown
    BY DEF After
  <1>3. apply \in BOOLEAN
    BY DeliveredTyped
  <1> HIDE DEF apply
  <1>4. apply => Answers(w, q.tx, k.delivered)
    BY <1>2 DEF Answers
  <1>5. SetupGood(w, k.nets, k.delivered, k.lapsed)
    BY <1>2, GoodGrows DEF BootGood
  <1>6. SetupGood(x, k.nets, k.delivered, k.lapsed) /\ Ended(w, x, q.tx, apply)
    BY <1>3, <1>4, <1>5, DeliveredGood
  <1> HIDE DEF x
  <1>7. Told(x, cc, k)
    BY <1>2, <1>3, <1>6, ToldEnds DEF BootGood
  <1>8. Clients(x, cc, k) /\ x.net \in k.nets /\ ~k.unfit
    BY <1>2, <1>6 DEF BootGood, Clients, Ended, Borne
  <1>9. (x.slot.st = "trial" => x.slot = s.slot) /\ (x.own.st = "trial" => x.own = s.own)
    BY <1>6 DEF Ended, Borne
  <1> QED
    BY <1>6, <1>7, <1>8, <1>9 DEF BootGood, x, apply

\* A connection closes: delivered when its bytes were acknowledged.
LEMMA SetupCloseGood ==
    ASSUME BootGood(s, c, h), NEW i \in 1..2, Boot!Close(i)
    PROVE  BootGood(s', c', h')
  <1>1. BootGood(s', c, h')
    <2>1. After(h, Boot!Recorded(h, c[i]), c[i])
      BY RecordedIs DEF BootGood, Clients, After
    <2> QED
      BY <2>1, LeaveGood DEF Boot!Close
  <1>2. DOMAIN c' = 1..2 /\ \A j \in 1..2 : c'[j] = c[j] \/ c'[j] = Boot!NoClient
    BY DEF Boot!Close, BootGood, Clients
  <1>3. Told(s', c', h') /\ Clients(s', c', h')
    BY <1>1, <1>2, ClientsLeave DEF BootGood
  <1> QED
    BY <1>1, <1>3 DEF BootGood

\* The peer acknowledges a reply.
LEMMA SetupSentGood ==
    ASSUME BootGood(s, c, h), NEW i \in 1..2, Boot!Sent(i)
    PROVE  BootGood(s', c', h')
  <1>1. /\ DOMAIN c' = 1..2
        /\ \A j \in 1..2 : DOMAIN c'[j] = ClientFields /\ c'[j].tx = c[j].tx /\ c'[j].says = c[j].says
    BY DEF Boot!Sent, BootGood, Clients, ClientFields
  <1>2. s' = s /\ h' = h
    BY DEF Boot!Sent
  <1>3. Told(s', c', h') /\ Clients(s', c', h')
    BY <1>1, <1>2 DEF BootGood, Told, Clients
  <1> QED
    BY <1>2, <1>3 DEF BootGood

\* A request: its reply is a new one.
LEMMA ServeGood ==
    ASSUME BootGood(s, c, h), NEW i \in 1..2, NEW via, NEW k, NEW login, NEW passed,
           Boot!Serve(i, via, k, login, passed)
    PROVE  BootGood(s', c', h')
  <1> DEFINE w == [s EXCEPT !.due = passed]
             q == Boot!Received(k, via, login)
             t == Boot!Dispatch(w, q)
             x == t.w
             b == h.lapsed \/ (k = "ack" /\ Boot!Lapsed(s, x))
             p == IF t.ok /\ k = "ostatus" THEN Boot!Reported(x) ELSE 0
             z == [x EXCEPT !.due = {}]
  <1>1. /\ s' = z
        /\ c' = [c EXCEPT ![i] = [st |-> "sent", tx |-> h.tx + 1, says |-> p]]
        /\ h' = [h EXCEPT !.tx = @ + 1, !.lapsed = b]
    BY DEF Boot!Serve
  <1>2. q.k = k /\ q.tx = h.tx + 1
    BY DEF Boot!Received
  <1>6. p # 0 => t.ok /\ k = "ostatus" /\ p = Boot!Reported(x)
    OBVIOUS
  <1>7. t.ok /\ k = "ostatus" => p = Boot!Reported(x)
    OBVIOUS
  <1>21. (h.lapsed => b) /\ (k = "ack" /\ Boot!Lapsed(s, x) => b)
    OBVIOUS
  <1> HIDE DEF b
  <1>3. SetupGood(s, h.nets, h.delivered, b)
    BY <1>21, GoodGrows DEF BootGood
  <1>4. Kept(s, w, h.nets, h.delivered, b) /\ w.slot = s.slot
    <2>1. Kept(s, w, h.nets, h.delivered, b)
      BY <1>3, DueGood
    <2>2. DOMAIN s = SetupFields
      BY <1>3 DEF SetupGood, SetupWorld
    <2>3. w.slot = s.slot
      BY <2>2 DEF SetupFields
    <2> QED
      BY <2>1, <2>3
  <1>5. k = "ack" /\ w.slot.st = "trial" /\ x.slot.st = "none" => b
    BY <1>4, <1>21 DEF Boot!Lapsed
  <1> HIDE DEF w, q, t, p
  <1>8. SetupGood(w, h.nets, h.delivered, b) /\ w.net \in h.nets /\ Onward(s, w)
    BY <1>4 DEF Kept, Onward, BootGood
  <1>9. /\ SetupGood(x, h.nets, h.delivered, b) /\ Replied(w, x, q)
        /\ x.gen = w.gen /\ x.net = w.net /\ x.result = w.result /\ x.orestart = w.orestart
        /\ x.tx \in {w.tx, 0} \/ t.ok
    BY <1>2, <1>5, <1>8, DispatchGood DEF t
  <1> HIDE DEF x
  <1>10. Kept(x, z, h.nets, h.delivered, b)
    BY <1>9, DueGood
  <1> HIDE DEF z
  <1>11. SetupGood(z, h.nets, h.delivered, b) /\ Onward(x, z)
    BY <1>10 DEF Kept
  <1>12. /\ z.net = s.net /\ z.result = s.result /\ z.orestart = s.orestart
         /\ z.tx = x.tx /\ z.path = x.path /\ z.shows = x.shows
         /\ w.tx = s.tx /\ w.path = s.path /\ w.shows = s.shows
    BY <1>8, <1>9, <1>11 DEF Onward
  <1>13. p # 0 => s.orestart /\ p = s.result.req
    <2>1. Boot!Reported(x) # 0 => x.orestart /\ Boot!Reported(x) = x.result.req
      BY DEF Boot!Reported
    <2> QED
      BY <1>6, <1>9, <1>12, <2>1, <1>8 DEF Onward
  <1>14. /\ DOMAIN h' = HistoryFields /\ h'.tx = h.tx + 1 /\ h'.nets = h.nets /\ h'.delivered = h.delivered
         /\ h'.lapsed = b /\ h'.unfit = h.unfit /\ h'.shown = h.shown
    BY <1>1 DEF BootGood, Clients, HistoryFields
  <1>15. /\ DOMAIN c' = 1..2 /\ c'[i] = [st |-> "sent", tx |-> h.tx + 1, says |-> p]
         /\ \A j \in 1..2 : j # i => c'[j] = c[j]
    BY <1>1 DEF BootGood, Clients
  <1>16. DOMAIN c'[i] = ClientFields /\ c'[i].tx = h.tx + 1 /\ c'[i].says = p
    BY <1>15 DEF ClientFields
  <1>17. h.tx \in Nat /\ s.tx \in Nat /\ s.tx <= h.tx /\ \A j \in 1..2 : c[j].tx \in Nat /\ c[j].tx <= h.tx
    BY DEF BootGood, Clients
  <1>18. x.tx = s.tx \/ x.tx = 0 \/ x.tx = h.tx + 1
    BY <1>2, <1>9, <1>12 DEF Replied
  <1>19. Clients(z, c', h')
    <2>1. z.tx \in Nat /\ z.tx <= h.tx + 1 /\ h.tx + 1 \in Nat
      BY <1>12, <1>17, <1>18
    <2>2. \A j \in 1..2 : DOMAIN c'[j] = ClientFields /\ c'[j].tx \in Nat /\ c'[j].tx <= h.tx + 1
      BY <1>15, <1>16, <1>17 DEF BootGood, Clients
    <2> QED
      BY <1>14, <1>15, <2>1, <2>2 DEF Clients
  <1>20. Told(z, c', h')
    <2>1. z.result.told => h'.shown = z.result.req
      BY <1>12, <1>14 DEF BootGood, Told
    <2>2. \A j \in 1..2 : c'[j].says # 0 => z.orestart /\ c'[j].says = z.result.req
      BY <1>12, <1>13, <1>15, <1>16 DEF BootGood, Told
    <2>3. ASSUME z.tx # 0, z.path = "ostatus", z.shows, NEW j \in 1..2, c'[j].tx = z.tx
          PROVE  c'[j].says # 0
      <3>1. CASE x.tx = w.tx /\ x.path = w.path /\ x.shows = w.shows
        <4>1. s.tx # 0 /\ s.path = "ostatus" /\ s.shows /\ z.tx = s.tx
          BY <1>12, <2>3, <3>1
        <4>2. j # i
          BY <1>16, <1>17, <2>3, <4>1
        <4> QED
          BY <1>15, <2>3, <4>1, <4>2 DEF BootGood, Told
      <3>2. CASE x.tx = h.tx + 1 /\ (x.shows => k = "ostatus" /\ Boot!Reported(x) # 0)
        <4>1. k = "ostatus" /\ Boot!Reported(x) # 0
          BY <1>12, <2>3, <3>2
        <4>2. x.tx \notin {w.tx, 0}
          BY <1>12, <1>17, <3>2
        <4>3. p # 0
          BY <1>7, <1>9, <4>1, <4>2
        <4>4. j = i
          BY <1>12, <1>15, <1>17, <2>3, <3>2
        <4> QED
          BY <1>16, <4>3, <4>4
      <3> QED
        BY <1>2, <1>9, <1>12, <2>3, <3>1, <3>2 DEF Replied
    <2> QED
      BY <2>1, <2>2, <2>3 DEF Told
  <1> QED
    BY <1>1, <1>11, <1>12, <1>14, <1>19, <1>20 DEF BootGood

\* A change that the setup does not depend on, and one that leaves it as it was.
LEMMA OnwardBoot ==
    ASSUME NEW w, NEW x, NEW cc, NEW g, BootGood(w, cc, g), Kept(w, x, g.nets, g.delivered, g.lapsed)
    PROVE  BootGood(x, cc, g)
  <1>1. Onward(w, x) /\ Committed(w, x, {}) /\ SetupGood(x, g.nets, g.delivered, g.lapsed)
    BY OnwardCommits DEF Kept
  <1>2. Told(x, cc, g)
    BY <1>1, ToldCommits DEF BootGood
  <1>3. Clients(x, cc, g) /\ x.net \in g.nets
    BY <1>1 DEF Onward, BootGood, Clients
  <1> QED
    BY <1>1, <1>2, <1>3 DEF BootGood

\* Windows that pass keep all of it.
LEMMA DueBoot ==
    ASSUME NEW w, NEW cc, NEW g, BootGood(w, cc, g), NEW t
    PROVE  BootGood([w EXCEPT !.due = t], cc, g)
  BY OnwardBoot, DueGood DEF BootGood

\* The main loop: a commit is for an answer that reached its browser.
LEMMA SetupPollGood ==
    ASSUME BootGood(s, c, h), NEW ap \in BOOLEAN, NEW sta \in BOOLEAN, NEW setup \in BOOLEAN, NEW passed,
           NEW o, Boot!Poll(ap, sta, setup, passed, o)
    PROVE  BootGood(s', c', h')
  <1> DEFINE n == h.nets
             a == h.delivered
             l == h.lapsed
             x0 == [s EXCEPT !.due = passed]
             x1 == Boot!Surroundings(x0, ap, sta, setup)
             x2 == Boot!Rounds(x1, o)
             w == Boot!Idled(x2)
             on == ap \/ sta
             y == Boot!SetupDelivered(w, c[1].tx, Boot!Delivered(c[1]))
             z == Boot!SetupDelivered(y, c[2].tx, Boot!Delivered(c[2]))
             k1 == Boot!Recorded(h, c[1])
             k2 == Boot!Recorded(k1, c[2])
             m == h.nets \cup {w.net}
             p == IF on THEN h ELSE k2
             r == p.changes + (IF ap # s.ap \/ sta # s.sta \/ setup # s.apok THEN 1 ELSE 0)
             f == p.unfit \/ Boot!Unfit(s, w)
  <1>1. /\ s' = [(IF on THEN w ELSE z) EXCEPT !.due = {}]
        /\ c' = IF on THEN c ELSE [i \in 1..2 |-> Boot!NoClient]
        /\ h' = [p EXCEPT !.changes = r, !.nets = @ \cup {w.net}, !.unfit = f]
    BY DEF Boot!Poll, Boot!Stopped
  <1>2. SetupGood(s, n, a, l) /\ Apart(s) /\ DOMAIN h = HistoryFields /\ ~h.unfit
    BY DEF BootGood, SetupGood, Clients
  <1> HIDE DEF r
  <1>3. Kept(s, x0, n, a, l)
    BY <1>2, DueGood
  <1> HIDE DEF x0
  <1>4. Kept(s, x1, n, a, l)
    BY <1>3, SurroundingsGood, KeptTwice, KeptGood
  <1> HIDE DEF x1
  <1>5. SetupGood(x2, n, a, l) /\ Committed(s, x2, a)
    <2>1. SetupGood(x1, n, a, l) /\ Committed(s, x1, a)
      BY <1>4, OnwardCommits DEF Kept
    <2> QED
      BY <2>1, RoundsGood, CommitsTwice
  <1> HIDE DEF x2
  <1>6. SetupGood(w, n, a, l) /\ Committed(s, w, a)
    <2>1. Kept(x2, w, n, a, l)
      BY <1>5, IdledGood
    <2> QED
      BY <1>5, <2>1, OnwardCommits, CommitsTwice DEF Kept
  <1> HIDE DEF w
  <1>7. ~Boot!Unfit(s, w)
    BY <1>2, <1>6 DEF Boot!Unfit, Committed, Apart
  <1>8. /\ DOMAIN k1 = HistoryFields /\ k1.tx = h.tx /\ k1.nets = h.nets /\ k1.unfit = h.unfit
        /\ k1.lapsed = h.lapsed /\ h.delivered \subseteq k1.delivered
        /\ Boot!Delivered(c[1]) => Answers(s, c[1].tx, k1.delivered)
        /\ k1.shown = IF Boot!Delivered(c[1]) /\ c[1].says # 0 THEN c[1].says ELSE h.shown
    BY <1>2, RecordedIs
  <1> HIDE DEF k1
  <1>9. /\ DOMAIN k2 = HistoryFields /\ k2.tx = k1.tx /\ k2.nets = k1.nets /\ k2.unfit = k1.unfit
        /\ k2.lapsed = k1.lapsed /\ k1.delivered \subseteq k2.delivered
        /\ Boot!Delivered(c[2]) => Answers(s, c[2].tx, k2.delivered)
        /\ k2.shown = IF Boot!Delivered(c[2]) /\ c[2].says # 0 THEN c[2].says ELSE k1.shown
    BY <1>8, RecordedIs
  <1> HIDE DEF k2
  <1>10. DOMAIN p = HistoryFields /\ ~f /\ p.nets = h.nets
    BY <1>2, <1>7, <1>8, <1>9
  <1>11. /\ DOMAIN h' = HistoryFields /\ h'.tx = p.tx /\ h'.nets = m /\ h'.unfit = f
         /\ h'.lapsed = p.lapsed /\ h'.delivered = p.delivered /\ h'.shown = p.shown
    <2> HIDE DEF p, f
    <2> QED
      BY <1>1, <1>10 DEF HistoryFields
  <1> DEFINE g == [h EXCEPT !.nets = m]
  <1>12. /\ DOMAIN g = HistoryFields /\ g.tx = h.tx /\ g.nets = m /\ g.unfit = h.unfit
         /\ g.lapsed = h.lapsed /\ g.delivered = h.delivered /\ g.shown = h.shown
    BY <1>2 DEF HistoryFields
  <1> HIDE DEF g, f
  <1>13. BootGood(w, c, g)
    <2>1. Told(w, c, h)
      BY <1>6, ToldCommits DEF BootGood
    <2>2. Told(w, c, g)
      BY <1>12, <2>1 DEF Told
    <2>3. Clients(w, c, g)
      BY <1>6, <1>12 DEF BootGood, Clients, Committed
    <2>4. SetupGood(w, m, a, l)
      BY <1>6, GoodGrows
    <2> QED
      BY <1>2, <1>12, <2>2, <2>3, <2>4 DEF BootGood
  <1>14. CASE on
    <2>1. BootGood(w, c, h')
      <3>1. Told(w, c, h')
        BY <1>11, <1>12, <1>13, <1>14 DEF BootGood, Told
      <3>2. Clients(w, c, h')
        BY <1>11, <1>12, <1>13, <1>14 DEF BootGood, Clients
      <3> QED
        BY <1>10, <1>11, <1>12, <1>13, <1>14, <3>1, <3>2 DEF BootGood
    <2> QED
      BY <1>1, <1>14, <2>1, DueBoot
  <1>15. CASE ~on
    <2> DEFINE g1 == [g EXCEPT !.delivered = k1.delivered, !.shown = k1.shown]
    <2>1. /\ DOMAIN g1 = HistoryFields /\ g1.tx = g.tx /\ g1.nets = g.nets /\ g1.unfit = g.unfit
          /\ g1.lapsed = g.lapsed /\ g1.delivered = k1.delivered /\ g1.shown = k1.shown
      BY <1>12 DEF HistoryFields
    <2> HIDE DEF g1
    <2>2. After(g, g1, c[1])
      BY <1>8, <1>12, <2>1 DEF After
    <2>3. After(g1, h', c[2])
      BY <1>8, <1>9, <1>10, <1>11, <1>12, <1>15, <2>1 DEF After
    <2>4. (w.slot.st = "trial" => w.slot = s.slot) /\ (w.own.st = "trial" => w.own = s.own)
      BY <1>6 DEF Committed
    <2>5. /\ BootGood(y, c, g1)
          /\ y.slot.st = "trial" => y.slot = s.slot
          /\ y.own.st = "trial" => y.own = s.own
      BY <1>13, <2>2, <2>4, LeaveGood
    <2> HIDE DEF y
    <2>6. BootGood(z, c, h')
      BY <2>3, <2>5, LeaveGood
    <2> HIDE DEF z
    <2>7. BootGood(s', c, h')
      BY <1>1, <1>15, <2>6, DueBoot
    <2>8. DOMAIN c' = 1..2 /\ \A j \in 1..2 : c'[j] = Boot!NoClient
      BY <1>1, <1>15
    <2>9. Told(s', c', h') /\ Clients(s', c', h')
      BY <2>7, <2>8, ClientsLeave DEF BootGood
    <2> QED
      BY <2>7, <2>9 DEF BootGood
  <1> QED
    BY <1>14, <1>15

\* A change around the server.
LEMMA AroundChangeGood ==
    ASSUME BootGood(s, c, h), NEW w, SetupGood(w, h.nets \cup {w.net}, h.delivered, h.lapsed),
           w.result = s.result, w.orestart = s.orestart, w.tx = s.tx, w.path = s.path, w.shows = s.shows,
           Boot!Change(w)
    PROVE  BootGood(s', c', h')
  <1>1. DOMAIN h = HistoryFields
    BY DEF BootGood, Clients
  <1>2. /\ DOMAIN h' = HistoryFields /\ h'.tx = h.tx /\ h'.nets = h.nets \cup {w.net} /\ h'.unfit = h.unfit
        /\ h'.lapsed = h.lapsed /\ h'.delivered = h.delivered /\ h'.shown = h.shown
    BY <1>1 DEF HistoryFields, Boot!Change
  <1>3. s' = w /\ c' = c
    BY DEF Boot!Change
  <1>4. Told(s', c', h')
    BY <1>2, <1>3 DEF BootGood, Told
  <1>5. Clients(s', c', h')
    BY <1>2, <1>3 DEF BootGood, Clients
  <1> QED
    BY <1>2, <1>3, <1>4, <1>5 DEF BootGood

\* A change around the server that begins nothing.
LEMMA ChangeKept ==
    ASSUME BootGood(s, c, h), NEW w, Kept(s, w, h.nets, h.delivered, h.lapsed), Boot!Change(w)
    PROVE  BootGood(s', c', h')
  <1>1. h.nets \subseteq h.nets \cup {w.net}
    OBVIOUS
  <1>2. SetupGood(w, h.nets \cup {w.net}, h.delivered, h.lapsed)
    BY <1>1, GoodGrows DEF Kept
  <1> QED
    BY <1>2, AroundChangeGood DEF Kept, Onward

\* Output, the link, the radio, a progress record, a login that closes.
LEMMA AroundGood ==
    ASSUME BootGood(s, c, h),
           \/ Boot!LinkLost \/ Boot!OutputChanges \/ Boot!RadioFails \/ Boot!ProgressSaved \/ Boot!LoginCloses
    PROVE  BootGood(s', c', h')
  <1> USE DEF SetupWorld, AllSame, OwnerSame, NetworkSame, RestSame, SetupFields
  <1>1. SetupGood(s, h.nets, h.delivered, h.lapsed) /\ SetupWorld(s)
    BY DEF BootGood, SetupGood
  <1>2. CASE Boot!LinkLost
    <2>1. AllSame(s, [s EXCEPT !.link = FALSE])
      BY <1>1
    <2> QED
      BY <1>1, <1>2, <2>1, SameGood, ChangeKept DEF Boot!LinkLost
  <1>3. CASE Boot!OutputChanges
    <2>1. AllSame(s, [s EXCEPT !.idle = ~@])
      BY <1>1
    <2> QED
      BY <1>1, <1>3, <2>1, SameGood, ChangeKept DEF Boot!OutputChanges
  <1>4. CASE Boot!RadioFails
    <2>1. AllSame(s, [s EXCEPT !.radio = FALSE])
      BY <1>1
    <2> QED
      BY <1>1, <1>4, <2>1, SameGood, ChangeKept DEF Boot!RadioFails
  <1>5. CASE Boot!ProgressSaved
    <2>1. AllSame(s, [s EXCEPT !.rev = @ + 1])
      BY <1>1
    <2> QED
      BY <1>1, <1>5, <2>1, SameGood, ChangeKept DEF Boot!ProgressSaved
  <1>6. CASE Boot!LoginCloses
    BY <1>1, <1>6, LoginClosedGood, ChangeKept DEF Boot!LoginCloses
  <1> QED
    BY <1>2, <1>3, <1>4, <1>5, <1>6

\* Another network that USB saves is held from then on.
LEMMA UsbWifiGood ==
    ASSUME BootGood(s, c, h), Boot!UsbWifi
    PROVE  BootGood(s', c', h')
  <1> DEFINE w == [s EXCEPT !.gen = @ + 1, !.src = "consumer", !.net = 3]
  <1>1. SetupGood(s, h.nets, h.delivered, h.lapsed) /\ s.net \in h.nets
    BY DEF BootGood
  <1>2. DOMAIN s = SetupFields
    BY <1>1 DEF SetupGood, SetupWorld
  <1>3. Boot!Change(w)
    BY DEF Boot!UsbWifi
  <1>4. DOMAIN w = SetupFields /\ OwnerSame(s, w) /\ NetworkSame(s, w)
    BY <1>2 DEF SetupFields, OwnerSame, NetworkSame
  <1>5. /\ w.station = s.station /\ w.gate = s.gate /\ w.rec = s.rec /\ w.net = 3
        /\ w.result = s.result /\ w.orestart = s.orestart /\ w.rslot = s.rslot /\ w.tx = s.tx
        /\ w.path = s.path /\ w.shows = s.shows
    BY <1>2 DEF SetupFields
  <1> HIDE DEF w
  <1>6. SetupWorld(w)
    BY <1>1, <1>4, <1>5 DEF SetupGood, SetupWorld, OwnerSame, NetworkSame
  <1>7. Apart(w)
    BY <1>1, <1>4, <1>5 DEF SetupGood, Apart, OwnerSame, NetworkSame
  <1>8. Undone(w, h.nets \cup {w.net}, h.lapsed)
    BY <1>1, <1>4, <1>5 DEF SetupGood, Undone, OwnerSame, NetworkSame
  <1>9. Heard(w, h.delivered)
    BY <1>1, <1>4, <1>5 DEF SetupGood, Heard, OwnerSame, NetworkSame
  <1>10. SetupGood(w, h.nets \cup {w.net}, h.delivered, h.lapsed)
    BY <1>1, <1>6, <1>7, <1>8, <1>9 DEF SetupGood
  <1> QED
    BY <1>3, <1>5, <1>10, AroundChangeGood

\* The station joins; a restart is taken back.
LEMMA JoinGood ==
    ASSUME BootGood(s, c, h), Boot!Linked \/ Boot!RestartCancelled
    PROVE  BootGood(s', c', h')
  <1> USE DEF SetupWorld, AllSame, OwnerSame, NetworkSame, RestSame, SetupFields
  <1>1. SetupGood(s, h.nets, h.delivered, h.lapsed) /\ SetupWorld(s)
    BY DEF BootGood, SetupGood
  <1>2. CASE Boot!Linked
    <2>1. AllSame(s, [s EXCEPT !.link = TRUE])
      BY <1>1
    <2> QED
      BY <1>1, <1>2, <2>1, SameGood, OnwardBoot DEF Boot!Linked
  <1>3. CASE Boot!RestartCancelled
    <2>1. AllSame(s, [s EXCEPT !.reboot = FALSE])
      BY <1>1
    <2> QED
      BY <1>1, <1>3, <2>1, SameGood, OnwardBoot DEF Boot!RestartCancelled
  <1> QED
    BY <1>2, <1>3

\* A device that has just started has no setup under way.
LEMMA BootedGood ==
    ASSUME NEW src, NEW gen, NEW net, NEW access, NEW n, NEW a, NEW l, 0 \in n
    PROVE  LET w == Boot!Booted(src, gen, net, access)
           IN  SetupGood(w, n, a, l) /\ w.net = net /\ ~w.result.told /\ w.tx = 0
  <1> DEFINE w == Boot!Booted(src, gen, net, access)
  <1>1. DOMAIN w = SetupFields
    BY DEF Boot!Booted, SetupFields
  <1>2. /\ w.slot = Boot!NoSlot /\ w.own = Boot!NoSlot /\ w.result = [gen |-> 0, req |-> 0, told |-> FALSE]
        /\ w.trial = 0 /\ w.prev = 0 /\ ~w.switched /\ ~w.pend /\ ~w.deliv /\ ~w.join
        /\ w.otrial = 0 /\ w.oprev = 0 /\ ~w.oswitched /\ ~w.opend /\ ~w.odeliv /\ ~w.oactive
        /\ ~w.orestart /\ w.rslot = 0 /\ w.tx = 0 /\ w.net = net /\ w.station = net
    BY DEF Boot!Booted
  <1> HIDE DEF w
  <1>3. DOMAIN Boot!NoSlot = SlotFields /\ Boot!NoSlot.st = "none"
    BY DEF Boot!NoSlot, SlotFields
  <1>4. DOMAIN w.result = {"gen", "req", "told"} /\ ~w.result.told
    BY <1>2
  <1>5. SetupWorld(w)
    BY <1>1, <1>2, <1>3, <1>4 DEF SetupWorld, SlotKinds
  <1>6. Apart(w) /\ Undone(w, n, l) /\ Heard(w, a)
    BY <1>2, <1>3 DEF Apart, Undone, Heard
  <1> QED
    BY <1>2, <1>4, <1>5, <1>6 DEF SetupGood, w

\* Connections that are free have been told nothing.
LEMMA NobodyTold ==
    ASSUME NEW w, NEW g, ~w.result.told, w.tx = 0, DOMAIN g = HistoryFields, g.tx \in Nat
    PROVE  LET cc == [i \in 1..2 |-> Boot!NoClient]
           IN  Told(w, cc, g) /\ Clients(w, cc, g)
  BY DEF Told, Clients, ClientFields, Boot!NoClient

\* A restart forgets every setup.
LEMMA RebootGood ==
    ASSUME BootGood(s, c, h), Boot!Reboot
    PROVE  BootGood(s', c', h')
  <1>1. DOMAIN h = HistoryFields /\ h.tx \in Nat /\ ~h.unfit
    BY DEF BootGood, Clients
  <1>2. /\ DOMAIN h' = HistoryFields /\ h'.tx = h.tx /\ h'.nets = {0, s.net} /\ h'.unfit = h.unfit
    BY <1>1 DEF HistoryFields, Boot!Reboot
  <1>3. /\ SetupGood(s', h'.nets, h'.delivered, h'.lapsed) /\ s'.net = s.net
        /\ ~s'.result.told /\ s'.tx = 0
    BY <1>2, BootedGood DEF Boot!Reboot
  <1>4. Told(s', c', h') /\ Clients(s', c', h')
    BY <1>1, <1>2, <1>3, NobodyTold DEF Boot!Reboot
  <1> QED
    BY <1>1, <1>2, <1>3, <1>4 DEF BootGood

\* The first start.
LEMMA BootStart ==
    ASSUME Boot!Init
    PROVE  BootGood(s, c, h)
  <1>1. /\ DOMAIN h = HistoryFields /\ h.tx = 0 /\ h.nets = {0, 1} /\ ~h.unfit
    BY DEF Boot!Init, HistoryFields
  <1>2. /\ SetupGood(s, h.nets, h.delivered, h.lapsed) /\ s.net \in {0, 1}
        /\ ~s.result.told /\ s.tx = 0
    <2>1. PICK src \in Starts : s = Boot!Booted(src, IF src = "blank" THEN 0 ELSE 1,
                                                IF src = "blank" THEN 0 ELSE 1,
                                                IF src = "blank" THEN "erased" ELSE "ok")
      BY DEF Boot!Init
    <2> DEFINE net == IF src = "blank" THEN 0 ELSE 1
               access == IF src = "blank" THEN "erased" ELSE "ok"
    <2>2. s = Boot!Booted(src, net, net, access) /\ net \in {0, 1}
      BY <2>1
    <2> HIDE DEF net, access
    <2> QED
      BY <1>1, <2>2, BootedGood
  <1>3. Told(s, c, h) /\ Clients(s, c, h)
    BY <1>1, <1>2, NobodyTold DEF Boot!Init
  <1> QED
    BY <1>1, <1>2, <1>3 DEF BootGood

\* Every step of the setup server keeps the invariant.
LEMMA BootStep ==
    ASSUME BootGood(s, c, h), Boot!Next
    PROVE  BootGood(s', c', h')
  <1>1. ASSUME NEW ap \in BOOLEAN, NEW sta \in BOOLEAN, NEW setup \in BOOLEAN, NEW passed, NEW o,
               Boot!Poll(ap, sta, setup, passed, o)
        PROVE  BootGood(s', c', h')
    BY <1>1, SetupPollGood
  <1>2. ASSUME NEW i \in 1..2, NEW via, NEW k, NEW login, NEW passed, Boot!Serve(i, via, k, login, passed)
        PROVE  BootGood(s', c', h')
    BY <1>2, ServeGood
  <1>3. ASSUME NEW i \in 1..2, Boot!Sent(i) \/ Boot!Close(i)
        PROVE  BootGood(s', c', h')
    BY <1>3, SetupSentGood, SetupCloseGood
  <1> QED
    BY <1>1, <1>2, <1>3, AroundGood, UsbWifiGood, JoinGood, RebootGood DEF Boot!Next

\* The invariant has what the setup server promises.
LEMMA BootGoodSound ==
    ASSUME BootGood(s, c, h)
    PROVE  Boot!ExclusiveSetup /\ Boot!TrialUndone /\ Boot!CommitsAnswered /\ Boot!ResultShown
  <1>1. Boot!ExclusiveSetup
    BY DEF BootGood, SetupGood, Apart, Boot!ExclusiveSetup
  <1>2. Boot!TrialUndone
    BY DEF BootGood, SetupGood, Undone, Boot!TrialUndone
  <1>3. Boot!CommitsAnswered /\ Boot!ResultShown
    BY DEF BootGood, Told, Boot!CommitsAnswered, Boot!ResultShown
  <1> QED
    BY <1>1, <1>2, <1>3

\* One setup at a time, a trial that leaves nothing behind, a profile written only for a submission
\* whose answer reached the browser, and a restart hastened only by a reply that showed this result
\* (network/pico/bootstrap_server.cpp).
THEOREM SetupHolds == Spec => []SetupSound
  <1> DEFINE Inv == focus = "boot" => BootGood(s, c, h)
  <1>1. Init => Inv
    BY BootStart DEF Init
  <1>2. Inv /\ [Next]_vars => Inv'
    <2>1. ASSUME Inv, Next PROVE Inv'
      BY <2>1, BootStep DEF Next
    <2>2. ASSUME Inv, UNCHANGED vars PROVE Inv'
      BY <2>2 DEF vars
    <2> QED
      BY <2>1, <2>2
  <1>3. Inv => SetupSound
    BY BootGoodSound DEF SetupSound
  <1> QED
    BY <1>1, <1>2, <1>3, PTL DEF Spec

=============================================================================
