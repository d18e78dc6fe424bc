----------------------------- MODULE EventStream -----------------------------
(***************************************************************************)
(* Server-sent events in rpi/dashboard.py: broadcast_sse() and the         *)
(* bounded queue of each client, the generator that writes a client's      *)
(* queue to its connection, the threads and requests that change a status  *)
(* dictionary under its lock and broadcast a snapshot after they have      *)
(* released it, and the page, which loads the status once, listens, comes  *)
(* back two seconds after an error, and polls one of its panels.           *)
(*                                                                         *)
(* A status is the number of updates it has had.  A message is the number  *)
(* of its broadcast; sent[n] is the status that the n-th one carries.      *)
(***************************************************************************)
EXTENDS Integers, Sequences

CONSTANTS
    Pages,          \* browser tabs
    Publishers,     \* threads and requests that change the status
    QueueSize,      \* queue.Queue(maxsize=256)
    MaxUpdates,     \* bound on the updates
    MaxConnects     \* bound on the connections of a page

ASSUME StreamAssumption ==
    /\ QueueSize \in Nat \ {0} /\ MaxUpdates \in Nat /\ MaxConnects \in Nat

Conns == Pages \X (1 .. MaxConnects)

VARIABLES
    state,      \* the status dictionary
    snapshot,   \* per publisher: what it is about to broadcast, 0 for nothing
    sent,       \* the broadcasts so far
    clients,    \* sse_clients, as the connections whose queues are listed
    queue,      \* the queue of each connection
    stream,     \* "none", "open", "closed" by the page, "ended" by the generator
    got,        \* the last message taken from the queue; at first the last one sent
    current,    \* per page: the number of its connection, 0 before the first
    loaded,     \* per page: init() has fetched the status
    pushed,     \* a panel that only events change (logic analyzer)
    polled      \* a panel that is polled too (power capture)

server == <<state, snapshot, sent>>
page == <<current, loaded>>
panels == <<pushed, polled>>
vars == <<server, clients, queue, stream, got, page, panels>>

Init ==
    /\ state = 0 /\ snapshot = [t \in Publishers |-> 0] /\ sent = <<>>
    /\ clients = {} /\ queue = [c \in Conns |-> <<>>]
    /\ stream = [c \in Conns |-> "none"] /\ got = [c \in Conns |-> 0]
    /\ current = [p \in Pages |-> 0] /\ loaded = [p \in Pages |-> FALSE]
    /\ pushed = [p \in Pages |-> 0] /\ polled = [p \in Pages |-> 0]

-----------------------------------------------------------------------------
(* The publishers.                                                         *)

\* with the lock of the dictionary: change it and take a snapshot
Update(t) ==
    /\ snapshot[t] = 0 /\ state < MaxUpdates
    /\ state' = state + 1
    /\ snapshot' = [snapshot EXCEPT ![t] = state']
    /\ UNCHANGED <<sent, clients, queue, stream, got, page, panels>>

HasRoom(c) == Len(queue[c]) < QueueSize

\* broken: a client that is full stays
StayAll == clients
Stay == {c \in clients : HasRoom(c)}

\* broadcast_sse(): put_nowait() into each queue; a client whose queue is full is
\* taken off the list
Broadcast(t) ==
    /\ snapshot[t] # 0
    /\ sent' = Append(sent, snapshot[t])
    /\ snapshot' = [snapshot EXCEPT ![t] = 0]
    /\ queue' = [c \in Conns |-> IF c \in clients /\ HasRoom(c)
                                 THEN Append(queue[c], Len(sent')) ELSE queue[c]]
    /\ clients' = Stay
    /\ UNCHANGED <<state, stream, got, page, panels>>

-----------------------------------------------------------------------------
(* stream() and its generator.                                             *)

\* EventSource('/api/stream'): a queue of its own, which is listed at once
Connect(p) ==
    /\ loaded[p] /\ current[p] < MaxConnects
    /\ current[p] > 0 => stream[<<p, current[p]>>] # "open"
    /\ current' = [current EXCEPT ![p] = @ + 1]
    /\ LET c == <<p, current'[p]>>
       IN  /\ clients' = clients \cup {c}
           /\ stream' = [stream EXCEPT ![c] = "open"]
           /\ got' = [got EXCEPT ![c] = Len(sent)]
    /\ UNCHANGED <<server, queue, loaded, panels>>

\* q.get() and yield; the page handles the event
Deliver(c) ==
    /\ stream[c] = "open" /\ queue[c] # <<>>
    /\ queue' = [queue EXCEPT ![c] = Tail(@)]
    /\ got' = [got EXCEPT ![c] = Head(queue[c])]
    /\ pushed' = [pushed EXCEPT ![c[1]] = sent[Head(queue[c])]]
    /\ polled' = [polled EXCEPT ![c[1]] = sent[Head(queue[c])]]
    /\ UNCHANGED <<server, clients, stream, page>>

\* broken: the generator ends without taking its queue off the list
ForgetNot(c) == clients
Forget(c) == clients \ {c}

\* The next event, or the keep-alive after 30 s, cannot be written: GeneratorExit.
Exit(c) ==
    /\ stream[c] = "closed"
    /\ stream' = [stream EXCEPT ![c] = "ended"]
    /\ clients' = Forget(c)
    /\ UNCHANGED <<server, queue, got, page, panels>>

-----------------------------------------------------------------------------
(* The page.                                                               *)

\* init(), before connectSSE()
Load(p) ==
    /\ ~loaded[p]
    /\ loaded' = [loaded EXCEPT ![p] = TRUE]
    /\ pushed' = [pushed EXCEPT ![p] = state]
    /\ polled' = [polled EXCEPT ![p] = state]
    /\ UNCHANGED <<server, clients, queue, stream, got, current>>

\* onerror closes the connection; connectSSE() follows
Disconnect(p) ==
    /\ current[p] > 0 /\ stream[<<p, current[p]>>] = "open"
    /\ stream' = [stream EXCEPT ![<<p, current[p]>>] = "closed"]
    /\ UNCHANGED <<server, clients, queue, got, page, panels>>

\* broken: only a page that has lost its connection polls
MayPollAlone(p) == current[p] > 0 /\ stream[<<p, current[p]>>] # "open"
MayPoll(p) == current[p] > 0

\* setInterval(loadPowerCaptureStatus, 1000)
Poll(p) ==
    /\ MayPoll(p)
    /\ polled' = [polled EXCEPT ![p] = state]
    /\ UNCHANGED <<server, clients, queue, stream, got, page, pushed>>

Next ==
    \/ \E t \in Publishers : Update(t) \/ Broadcast(t)
    \/ \E c \in Conns : Deliver(c) \/ Exit(c)
    \/ \E p \in Pages : Load(p) \/ Connect(p) \/ Disconnect(p) \/ Poll(p)

\* A publisher goes on to broadcast its snapshot, a generator to write, and a page to
\* load, connect, reconnect and poll; no update and no disconnection has to happen.
Spec ==
    /\ Init /\ [][Next]_vars
    /\ \A t \in Publishers : WF_vars(Broadcast(t))
    /\ \A c \in Conns : WF_vars(Deliver(c)) /\ WF_vars(Exit(c))
    /\ \A p \in Pages : WF_vars(Load(p)) /\ WF_vars(Connect(p)) /\ WF_vars(Poll(p))

-----------------------------------------------------------------------------
(* Properties.                                                             *)

\* Types of the status, the queues, the connections and the pages.
TypeOK ==
    /\ state \in 0 .. MaxUpdates /\ snapshot \in [Publishers -> 0 .. MaxUpdates]
    /\ sent \in Seq(1 .. MaxUpdates) /\ clients \subseteq Conns
    /\ queue \in [Conns -> Seq(Nat)] /\ \A c \in Conns : Len(queue[c]) <= QueueSize
    /\ stream \in [Conns -> {"none", "open", "closed", "ended"}]
    /\ got \in [Conns -> Nat]
    /\ current \in [Pages -> 0 .. MaxConnects] /\ loaded \in [Pages -> BOOLEAN]
    /\ pushed \in [Pages -> 0 .. MaxUpdates] /\ polled \in [Pages -> 0 .. MaxUpdates]

\* A client that is still listed has missed nothing since it connected: every
\* broadcast has been taken from its queue or is in it, in their order.
Gapless ==
    \A c \in clients :
        /\ \A i \in 1 .. Len(queue[c]) : queue[c][i] = got[c] + i
        /\ got[c] + Len(queue[c]) = Len(sent)

\* The queue of a page that is gone does not stay on the list.
ClosedForgotten == \A c \in Conns : stream[c] = "closed" ~> c \notin clients

\* A panel that is polled ends up with the status, whatever has been overtaken,
\* dropped with a full queue or missed between two connections.
PolledConverges == \A p \in Pages : <>[](polled[p] = state)

\* A panel that only events change ends up with the status that was broadcast last,
\* when its page stays connected and listed and has been sent anything since it connected.
PushedFollows ==
    \A c \in Conns :
        <>[](c \in clients /\ stream[c] = "open") /\ <>(c \in clients /\ queue[c] # <<>>) =>
            <>[](sent # <<>> /\ pushed[c[1]] = sent[Len(sent)])

\* What a page that stays ends up with.
PagesConverge == PolledConverges /\ PushedFollows
=============================================================================
