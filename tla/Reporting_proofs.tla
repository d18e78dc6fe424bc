-------------------------- MODULE Reporting_proofs --------------------------
(***************************************************************************)
(* What holds of the two ways in which the dashboard reports: of           *)
(* EventStream for any pages, publishers, queues and connections, and of   *)
(* CsvLog for any number of lines, starts and kills and any size of the    *)
(* log in memory.                                                          *)
(*                                                                         *)
(* The lemmas about the rows of the file go through the number of rows     *)
(* written so far: were one of them false, there would be a least number   *)
(* it is false for.                                                        *)
(***************************************************************************)
EXTENDS EventStream, CsvLog, WellFoundedInduction, SequenceTheorems, FiniteSetTheorems, TLAPS

-----------------------------------------------------------------------------
(* EventStream.                                                            *)

\* What the types need of the constants.
LEMMA Bounds == QueueSize \in Nat /\ QueueSize > 0 /\ MaxUpdates \in Nat /\ MaxConnects \in Nat
  BY StreamAssumption DEF StreamAssumption

\* The connections of a page are numbered from 1.
LEMMA ConnIds ==
    /\ \A c \in Conns : c[1] \in Pages /\ c[2] \in 1 .. MaxConnects /\ c = <<c[1], c[2]>>
    /\ \A p \in Pages, n \in 1 .. MaxConnects : <<p, n>> \in Conns
  BY DEF Conns

\* Every message that waits anywhere has been broadcast.
Queued == \A c \in Conns : \A i \in 1 .. Len(queue[c]) : queue[c][i] \in 1 .. Len(sent)

\* A connection that has not been made yet has no message and is not listed.
Unmade == \A c \in Conns : c[2] > current[c[1]] => queue[c] = <<>> /\ c \notin clients

\* Adding to a queue keeps what is in it.
LEMMA Putting ==
    ASSUME NEW q \in Seq(Nat), NEW n \in Nat
    PROVE  /\ Append(q, n) \in Seq(Nat) /\ Len(Append(q, n)) = Len(q) + 1
           /\ \A i \in 1 .. Len(q) : Append(q, n)[i] = q[i]
           /\ Append(q, n)[Len(q) + 1] = n
  OBVIOUS

\* Taking the first message moves the others up.
LEMMA Taking ==
    ASSUME NEW q \in Seq(Nat), q # <<>>
    PROVE  /\ Tail(q) \in Seq(Nat) /\ Len(Tail(q)) = Len(q) - 1 /\ Len(q) >= 1
           /\ Head(q) = q[1] /\ Head(q) \in Nat
           /\ \A i \in 1 .. Len(Tail(q)) : Tail(q)[i] = q[i + 1]
  OBVIOUS

\* The status, the broadcasts and the pages.
StatusOK ==
    /\ state \in 0 .. MaxUpdates /\ snapshot \in [Publishers -> 0 .. MaxUpdates]
    /\ sent \in Seq(1 .. MaxUpdates)
    /\ current \in [Pages -> 0 .. MaxConnects] /\ loaded \in [Pages -> BOOLEAN]
    /\ pushed \in [Pages -> 0 .. MaxUpdates] /\ polled \in [Pages -> 0 .. MaxUpdates]

\* The connections and their queues.
ConnsOK ==
    /\ clients \subseteq Conns
    /\ queue \in [Conns -> Seq(Nat)] /\ \A c \in Conns : Len(queue[c]) <= QueueSize
    /\ stream \in [Conns -> {"none", "open", "closed", "ended"}]
    /\ got \in [Conns -> Nat]

\* The two halves are the type invariant.
LEMMA Halves == TypeOK <=> StatusOK /\ ConnsOK
  BY DEF TypeOK, StatusOK, ConnsOK

\* The queues never exceed their size, and a page only ever shows a status that there was.
THEOREM TypesAndQueues == Spec => [](TypeOK /\ Queued /\ Unmade)
<1> DEFINE Inv == StatusOK /\ ConnsOK /\ Queued /\ Unmade
<1>1. Init => Inv
  <2> SUFFICES ASSUME Init PROVE Inv
    OBVIOUS
  <2>1. StatusOK
    BY Bounds DEF Init, StatusOK
  <2>2. ConnsOK
    BY Bounds DEF Init, ConnsOK
  <2>3. Queued /\ Unmade
    BY DEF Init, Queued, Unmade
  <2>4. QED
    BY <2>1, <2>2, <2>3
<1>2. Inv /\ [Next]_vars => Inv'
  <2> SUFFICES ASSUME StatusOK, ConnsOK, Queued, Unmade, [Next]_vars PROVE Inv'
    OBVIOUS
  <2>1. ASSUME NEW t \in Publishers, Update(t) PROVE Inv'
    <3>1. StatusOK'
      BY <2>1, Bounds DEF Update, StatusOK, page, panels
    <3>2. UNCHANGED <<clients, queue, stream, got, sent, current>>
      BY <2>1 DEF Update, page
    <3>3. QED
      BY <3>1, <3>2 DEF ConnsOK, Queued, Unmade
  <2>2. ASSUME NEW t \in Publishers, Broadcast(t) PROVE Inv'
    <3>1. UNCHANGED <<state, stream, got, current, loaded, pushed, polled>>
      BY <2>2 DEF Broadcast, page, panels
    <3>2. sent' \in Seq(1 .. MaxUpdates) /\ Len(sent) \in Nat /\ Len(sent') = Len(sent) + 1
      <4>1. snapshot[t] \in 1 .. MaxUpdates /\ sent' = Append(sent, snapshot[t])
        BY <2>2, Bounds DEF StatusOK, Broadcast
      <4>2. QED
        BY <4>1 DEF StatusOK
    <3>3. snapshot' \in [Publishers -> 0 .. MaxUpdates]
      BY <2>2, Bounds DEF Broadcast, StatusOK
    <3>4. StatusOK'
      BY <3>1, <3>2, <3>3 DEF StatusOK
    <3>5. clients' \subseteq clients
      BY <2>2 DEF Broadcast, Stay
    <3>6. queue' = [c \in Conns |-> IF c \in clients /\ HasRoom(c)
                                   THEN Append(queue[c], Len(sent')) ELSE queue[c]]
      BY <2>2 DEF Broadcast
    <3>7. ASSUME NEW c \in Conns
          PROVE  /\ queue'[c] \in Seq(Nat) /\ Len(queue'[c]) <= QueueSize
                 /\ \A i \in 1 .. Len(queue'[c]) : queue'[c][i] \in 1 .. Len(sent')
      <4>1. queue[c] \in Seq(Nat) /\ Len(queue[c]) \in Nat /\ Len(queue[c]) <= QueueSize
        BY DEF ConnsOK
      <4>2. \A i \in 1 .. Len(queue[c]) : queue[c][i] \in 1 .. Len(sent')
        BY <3>2 DEF Queued
      <4>3. CASE c \in clients /\ HasRoom(c)
        <5>1. queue'[c] = Append(queue[c], Len(sent'))
          BY <3>6, <4>3
        <5>2. /\ queue'[c] \in Seq(Nat) /\ Len(queue'[c]) = Len(queue[c]) + 1
              /\ \A i \in 1 .. Len(queue[c]) : queue'[c][i] = queue[c][i]
              /\ queue'[c][Len(queue[c]) + 1] = Len(sent')
          BY <3>2, <4>1, <5>1, Putting
        <5>3. Len(queue[c]) < QueueSize
          BY <4>3 DEF HasRoom
        <5>4. ASSUME NEW i \in 1 .. Len(queue'[c]) PROVE queue'[c][i] \in 1 .. Len(sent')
          <6>1. i \in 1 .. Len(queue[c]) \/ i = Len(queue[c]) + 1
            BY <4>1, <5>2
          <6>2. Len(sent') \in 1 .. Len(sent')
            BY <3>2
          <6>3. QED
            BY <4>2, <5>2, <6>1, <6>2
        <5>5. Len(queue'[c]) <= QueueSize
          BY <4>1, <5>2, <5>3, Bounds
        <5>6. QED
          BY <5>2, <5>4, <5>5
      <4>4. CASE ~(c \in clients /\ HasRoom(c))
        BY <3>6, <4>1, <4>2, <4>4
      <4>5. QED
        BY <4>3, <4>4
    <3>8. queue' \in [Conns -> Seq(Nat)]
      BY <3>6, <3>7
    <3>9. ConnsOK' /\ Queued'
      BY <3>1, <3>5, <3>7, <3>8 DEF ConnsOK, Queued
    <3>10. Unmade'
      BY <3>1, <3>5, <3>6 DEF Unmade
    <3>11. QED
      BY <3>4, <3>9, <3>10
  <2>3. ASSUME NEW c \in Conns, Deliver(c) PROVE Inv'
    <3>1. UNCHANGED <<state, snapshot, sent, clients, stream, current, loaded>>
      BY <2>3 DEF Deliver, server, page
    <3>2. queue[c] \in Seq(Nat) /\ queue[c] # <<>> /\ Len(queue[c]) <= QueueSize
      BY <2>3 DEF Deliver, ConnsOK
    <3>3. Head(queue[c]) \in 1 .. Len(sent)
      BY <3>2, Taking DEF Queued
    <3>4. sent[Head(queue[c])] \in 0 .. MaxUpdates
      BY <3>3, Bounds DEF StatusOK
    <3>5. StatusOK'
      BY <2>3, <3>1, <3>4 DEF Deliver, StatusOK
    <3>6. queue' = [queue EXCEPT ![c] = Tail(@)] /\ got' = [got EXCEPT ![c] = Head(queue[c])]
      BY <2>3 DEF Deliver
    <3>7. ASSUME NEW d \in Conns
          PROVE  /\ queue'[d] \in Seq(Nat) /\ Len(queue'[d]) <= QueueSize
                 /\ \A i \in 1 .. Len(queue'[d]) : queue'[d][i] \in 1 .. Len(sent)
                 /\ queue[d] = <<>> => queue'[d] = <<>>
      <4>1. CASE d = c
        <5>1. queue'[d] = Tail(queue[c])
          BY <3>6, <4>1 DEF ConnsOK
        <5>2. QED
          BY <3>2, <4>1, <5>1, Taking, Bounds DEF Queued
      <4>2. CASE d # c
        BY <3>6, <4>2 DEF ConnsOK, Queued
      <4>3. QED
        BY <4>1, <4>2
    <3>8. queue' \in [Conns -> Seq(Nat)]
      BY <3>6, <3>7 DEF ConnsOK
    <3>9. got' \in [Conns -> Nat]
      BY <3>2, <3>6, Taking DEF ConnsOK
    <3>10. ConnsOK' /\ Queued' /\ Unmade'
      BY <3>1, <3>7, <3>8, <3>9 DEF ConnsOK, Queued, Unmade
    <3>11. QED
      BY <3>5, <3>10
  <2>4. ASSUME NEW c \in Conns, Exit(c) PROVE Inv'
    BY <2>4 DEF Exit, Forget, server, page, panels, StatusOK, ConnsOK, Queued, Unmade
  <2>5. ASSUME NEW p \in Pages, Load(p) PROVE Inv'
    BY <2>5 DEF Load, server, StatusOK, ConnsOK, Queued, Unmade
  <2>6. ASSUME NEW p \in Pages, Connect(p) PROVE Inv'
    <3> DEFINE c == <<p, current[p] + 1>>
    <3>1. current[p] \in 0 .. MaxConnects /\ current[p] < MaxConnects
      BY <2>6 DEF Connect, StatusOK
    <3>2. c \in Conns
      BY <3>1, Bounds, ConnIds
    <3>3. /\ current' = [current EXCEPT ![p] = @ + 1]
          /\ clients' = clients \cup {c} /\ stream' = [stream EXCEPT ![c] = "open"]
          /\ got' = [got EXCEPT ![c] = Len(sent)]
          /\ UNCHANGED <<state, snapshot, sent, queue, loaded, pushed, polled>>
      BY <2>6 DEF Connect, server, panels, StatusOK
    <3>4. StatusOK'
      BY <3>1, <3>3, Bounds DEF StatusOK
    <3>5. Len(sent) \in Nat
      BY DEF StatusOK
    <3>6. ConnsOK' /\ Queued'
      BY <3>2, <3>3, <3>5 DEF ConnsOK, Queued
    <3>7. Unmade'
      <4> SUFFICES ASSUME NEW d \in Conns, d[2] > current'[d[1]]
                   PROVE  queue[d] = <<>> /\ d \notin clients \cup {c}
        BY <3>3 DEF Unmade
      <4>1. d[1] \in Pages /\ d[2] \in 1 .. MaxConnects /\ current[d[1]] \in 0 .. MaxConnects
        BY ConnIds DEF StatusOK
      <4>2. d[2] > current[d[1]] /\ (d[1] = p => d[2] # current[p] + 1)
        BY <3>1, <3>3, <4>1, Bounds DEF StatusOK
      <4>3. d # c
        BY <4>2
      <4>4. QED
        BY <4>2, <4>3 DEF Unmade
    <3>8. QED
      BY <3>4, <3>6, <3>7
  <2>7. ASSUME NEW p \in Pages, Disconnect(p) PROVE Inv'
    BY <2>7 DEF Disconnect, server, page, panels, StatusOK, ConnsOK, Queued, Unmade
  <2>8. ASSUME NEW p \in Pages, Poll(p) PROVE Inv'
    BY <2>8 DEF Poll, server, page, StatusOK, ConnsOK, Queued, Unmade
  <2>9. CASE UNCHANGED vars
    BY <2>9 DEF vars, server, page, panels, StatusOK, ConnsOK, Queued, Unmade
  <2>10. QED
    BY <2>1, <2>2, <2>3, <2>4, <2>5, <2>6, <2>7, <2>8, <2>9 DEF Next
<1>3. Inv => TypeOK /\ Queued /\ Unmade
  BY Halves
<1>4. QED
  BY <1>1, <1>2, <1>3, PTL DEF Spec

\* Whoever is listed has missed nothing, for any interleaving of publishers, queues
\* that fill up and connections that come and go.
THEOREM NothingMissed == Spec => []Gapless
<1> DEFINE Ready == TypeOK /\ Unmade
<1>1. Init => Gapless
  BY DEF Init, Gapless
<1>2. Ready /\ Gapless /\ [Next]_vars => Gapless'
  <2> SUFFICES ASSUME TypeOK, Unmade, Gapless, [Next]_vars PROVE Gapless'
    OBVIOUS
  <2>1. StatusOK /\ ConnsOK
    BY Halves
  <2>2. Len(sent) \in Nat
    BY <2>1 DEF StatusOK
  <2>3. ASSUME NEW t \in Publishers, Update(t) PROVE Gapless'
    BY <2>3 DEF Update, Gapless
  <2>4. ASSUME NEW t \in Publishers, Broadcast(t) PROVE Gapless'
    <3> SUFFICES ASSUME NEW c \in clients'
                 PROVE  /\ \A i \in 1 .. Len(queue'[c]) : queue'[c][i] = got'[c] + i
                        /\ got'[c] + Len(queue'[c]) = Len(sent')
      BY DEF Gapless
    <3>1. c \in clients /\ HasRoom(c) /\ c \in Conns
      BY <2>1, <2>4 DEF Broadcast, Stay, ConnsOK
    <3>2. queue[c] \in Seq(Nat) /\ Len(queue[c]) \in Nat /\ got[c] \in Nat
      BY <2>1, <3>1 DEF ConnsOK
    <3>3. Len(sent') = Len(sent) + 1
      BY <2>1, <2>4 DEF Broadcast, StatusOK
    <3>4. queue'[c] = Append(queue[c], Len(sent')) /\ got' = got
      BY <2>4, <3>1 DEF Broadcast
    <3>5. /\ Len(queue'[c]) = Len(queue[c]) + 1
          /\ \A i \in 1 .. Len(queue[c]) : queue'[c][i] = queue[c][i]
          /\ queue'[c][Len(queue[c]) + 1] = Len(sent')
      BY <2>2, <3>2, <3>3, <3>4, Putting
    <3>6. /\ \A i \in 1 .. Len(queue[c]) : queue[c][i] = got[c] + i
          /\ got[c] + Len(queue[c]) = Len(sent)
      BY <3>1 DEF Gapless
    <3>7. ASSUME NEW i \in 1 .. Len(queue'[c]) PROVE queue'[c][i] = got[c] + i
      <4>1. CASE i \in 1 .. Len(queue[c])
        BY <3>5, <3>6, <4>1
      <4>2. CASE i = Len(queue[c]) + 1
        BY <2>2, <3>2, <3>3, <3>5, <3>6, <4>2
      <4>3. QED
        BY <3>2, <3>5, <4>1, <4>2
    <3>8. got[c] + Len(queue'[c]) = Len(sent')
      <4>1. Len(queue'[c]) = Len(queue[c]) + 1
        BY <3>5
      <4>2. got[c] + Len(queue[c]) = Len(sent)
        BY <3>6
      <4>3. QED
        BY <2>2, <3>2, <3>3, <4>1, <4>2
    <3>9. QED
      BY <3>4, <3>7, <3>8
  <2>5. ASSUME NEW d \in Conns, Deliver(d) PROVE Gapless'
    <3> SUFFICES ASSUME NEW c \in clients
                 PROVE  /\ \A i \in 1 .. Len(queue'[c]) : queue'[c][i] = got'[c] + i
                        /\ got'[c] + Len(queue'[c]) = Len(sent)
      BY <2>5 DEF Deliver, server, Gapless
    <3>1. /\ c \in Conns /\ queue[c] \in Seq(Nat) /\ Len(queue[c]) \in Nat /\ got[c] \in Nat
      BY <2>1 DEF ConnsOK
    <3>2. /\ \A i \in 1 .. Len(queue[c]) : queue[c][i] = got[c] + i
          /\ got[c] + Len(queue[c]) = Len(sent)
      BY DEF Gapless
    <3>3. CASE d = c
      <4>1. queue[c] # <<>> /\ queue'[c] = Tail(queue[c]) /\ got'[c] = Head(queue[c])
        BY <2>1, <2>5, <3>3 DEF Deliver, ConnsOK
      <4>2. /\ Len(queue'[c]) = Len(queue[c]) - 1 /\ Len(queue[c]) >= 1
            /\ got'[c] = queue[c][1]
            /\ \A i \in 1 .. Len(queue'[c]) : queue'[c][i] = queue[c][i + 1]
        BY <3>1, <4>1, Taking
      <4>3. got'[c] = got[c] + 1
        BY <3>1, <3>2, <4>2
      <4>4. ASSUME NEW i \in 1 .. Len(queue'[c]) PROVE queue'[c][i] = got'[c] + i
        <5>1. i + 1 \in 1 .. Len(queue[c])
          BY <3>1, <4>2
        <5>2. queue'[c][i] = got[c] + (i + 1)
          BY <3>2, <4>2, <5>1
        <5>3. QED
          BY <3>1, <4>3, <5>2
      <4>5. QED
        BY <3>1, <3>2, <4>2, <4>3, <4>4
    <3>4. CASE d # c
      <4>1. queue'[c] = queue[c] /\ got'[c] = got[c]
        BY <2>1, <2>5, <3>1, <3>4 DEF Deliver, ConnsOK
      <4>2. QED
        BY <3>2, <4>1
    <3>5. QED
      BY <3>3, <3>4
  <2>6. ASSUME NEW c \in Conns, Exit(c) PROVE Gapless'
    BY <2>6 DEF Exit, Forget, server, Gapless
  <2>7. ASSUME NEW p \in Pages, Load(p) PROVE Gapless'
    BY <2>7 DEF Load, server, Gapless
  <2>8. ASSUME NEW p \in Pages, Connect(p) PROVE Gapless'
    <3> DEFINE c == <<p, current[p] + 1>>
    <3>1. current[p] \in 0 .. MaxConnects /\ current[p] < MaxConnects
      BY <2>1, <2>8 DEF Connect, StatusOK
    <3>2. c \in Conns /\ c[1] = p /\ c[2] = current[p] + 1
      BY <3>1, Bounds, ConnIds
    <3>3. queue[c] = <<>> /\ c \notin clients
      BY <3>1, <3>2 DEF Unmade
    <3>4. /\ clients' = clients \cup {c} /\ got' = [got EXCEPT ![c] = Len(sent)]
          /\ UNCHANGED <<sent, queue>>
      BY <2>1, <2>8 DEF Connect, server, StatusOK
    <3>5. got'[c] = Len(sent) /\ \A d \in clients : got'[d] = got[d]
      BY <2>1, <3>2, <3>3, <3>4 DEF ConnsOK
    <3>6. QED
      BY <2>2, <3>3, <3>4, <3>5 DEF Gapless
  <2>9. ASSUME NEW p \in Pages, Disconnect(p) PROVE Gapless'
    BY <2>9 DEF Disconnect, server, Gapless
  <2>10. ASSUME NEW p \in Pages, Poll(p) PROVE Gapless'
    BY <2>10 DEF Poll, server, Gapless
  <2>11. CASE UNCHANGED vars
    BY <2>11 DEF vars, server, Gapless
  <2>12. QED
    BY <2>3, <2>4, <2>5, <2>6, <2>7, <2>8, <2>9, <2>10, <2>11 DEF Next
<1>3. QED
  BY <1>1, <1>2, TypesAndQueues, PTL DEF Spec

-----------------------------------------------------------------------------
(* CsvLog: writing rows to the file.                                       *)


\* What a buffer holds: whole rows.
Plain == 1 .. MaxLines \cup {Header, Power}

\* The file ends with half a row.
Ragged(rows) == rows # <<>> /\ rows[Len(rows)] = Torn

\* The special lines are no numbers of lines, and all different.
LEMMA Lines ==
    /\ MaxLines \in Nat /\ MaxLog \in Nat /\ MaxLog >= 1 /\ MaxRuns \in Nat
    /\ Plain \subseteq Rows /\ Torn \notin Plain /\ Garbled \notin Plain
    /\ Torn \in Rows /\ Garbled \in Rows /\ Header \in Plain /\ Power \in Plain
    /\ Header # Power /\ Torn # Garbled
    /\ \A n \in 1 .. MaxLines : n # Header /\ n # Power /\ n # Torn /\ n # Garbled
<1>1. /\ Header \notin {Power, Torn, Garbled} /\ Power \notin {Torn, Garbled} /\ Torn # Garbled
      /\ {Header, Power, Torn, Garbled} \cap (1 .. MaxLines) = {}
  BY LogAssumption DEF LogAssumption
<1>2. MaxLines \in Nat /\ MaxLog \in Nat /\ MaxLog >= 1 /\ MaxRuns \in Nat
  BY LogAssumption DEF LogAssumption
<1>3. \A n \in 1 .. MaxLines : n # Header /\ n # Power /\ n # Torn /\ n # Garbled
  BY <1>1, Zenon
<1>4. Torn \notin 1 .. MaxLines /\ Garbled \notin 1 .. MaxLines
  BY <1>1, Zenon
<1>5. Torn \notin Plain /\ Garbled \notin Plain
  BY <1>1, <1>4, Zenon DEF Plain
<1>6. /\ Plain \subseteq Rows /\ Torn \in Rows /\ Garbled \in Rows
      /\ Header \in Plain /\ Power \in Plain
  BY Zenon DEF Plain, Rows
<1>7. QED
  BY <1>1, <1>2, <1>3, <1>5, <1>6, Zenon

\* One row: it is appended, completes half a row, or is a sample that is not counted.
AddOK(rows, row, r) ==
    /\ r \in Seq(Rows)
    /\ Len(rows) <= Len(r) /\ Len(r) <= Len(rows) + 1
    /\ \A k \in 1 .. Len(rows) :
        r[k] = rows[k] \/ (k = Len(rows) /\ rows[k] = Torn /\ r[k] = Garbled)
    /\ r # <<>> /\ ~Ragged(r)
    /\ Len(r) = Len(rows) + 1 => r[Len(r)] = row
    /\ Ragged(rows) => r[Len(rows)] = Garbled
    /\ row # Power /\ ~Ragged(rows) => Len(r) = Len(rows) + 1

\* Add does one of these, and makes whole rows of whole rows.
LEMMA Adding ==
    ASSUME NEW rows \in Seq(Rows), NEW row \in Plain
    PROVE  /\ AddOK(rows, row, Add(rows, row))
           /\ rows \in Seq(Plain) => Add(rows, row) \in Seq(Plain)
<1>1. row \in Rows /\ row # Torn /\ Torn \in Rows /\ Garbled \in Rows /\ Torn # Garbled
  BY Lines
<1>2. Len(rows) \in Nat
  OBVIOUS
<1>3. CASE Ragged(rows)
  <2> DEFINE r == [rows EXCEPT ![Len(rows)] = Garbled]
  <2>1. Add(rows, row) = r
    BY <1>3 DEF Add, Ragged
  <2>2. Len(rows) \in 1 .. Len(rows)
    BY <1>2, <1>3 DEF Ragged
  <2>3. /\ r \in Seq(Rows) /\ Len(r) = Len(rows)
        /\ \A j \in 1 .. Len(rows) : r[j] = IF j = Len(rows) THEN Garbled ELSE rows[j]
    BY <1>1, <2>2, ExceptSeq
  <2> HIDE DEF r
  <2>4. AddOK(rows, row, r)
    BY <1>1, <1>2, <1>3, <2>2, <2>3 DEF AddOK, Ragged
  <2>5. ASSUME rows \in Seq(Plain) PROVE FALSE
    <3>1. rows[Len(rows)] \in Plain
      BY <2>2, <2>5, ElementOfSeq
    <3>2. QED
      BY <1>3, <3>1, Lines DEF Ragged
  <2>6. QED
    BY <2>1, <2>4, <2>5
<1>4. CASE ~Ragged(rows) /\ rows # <<>> /\ row = Power
  <2>1. Add(rows, row) = rows
    BY <1>4 DEF Add, Ragged
  <2>2. QED
    BY <1>1, <1>2, <1>4, <2>1 DEF AddOK
<1>5. CASE ~Ragged(rows) /\ ~(rows # <<>> /\ row = Power)
  <2> DEFINE r == Append(rows, row)
  <2>1. Add(rows, row) = r
    BY <1>5 DEF Add, Ragged
  <2>2. /\ r \in Seq(Rows) /\ Len(r) = Len(rows) + 1
        /\ \A j \in 1 .. Len(rows) : r[j] = rows[j]
        /\ r[Len(rows) + 1] = row /\ r # <<>>
    BY <1>1
  <2>3. rows \in Seq(Plain) => r \in Seq(Plain)
    OBVIOUS
  <2> HIDE DEF r
  <2>4. AddOK(rows, row, r)
    BY <1>1, <1>2, <1>5, <2>2 DEF AddOK, Ragged
  <2>5. QED
    BY <2>1, <2>3, <2>4
<1>6. QED
  BY <1>3, <1>4, <1>5

\* The least number principle, which arguments over the length of a buffer rest on.
LEMMA LeastLength == ASSUME NEW T, T \subseteq Nat, T # {} PROVE \E m \in T : \A k \in T : m <= k
<1>1. IsWellFoundedOn(OpToRel(<, Nat), Nat)
  BY NatLessThanWellFounded
<1>2. PICK m \in T : \A k \in T : <<k, m>> \notin OpToRel(<, Nat)
  BY <1>1, WFMin
<1>3. \A k \in T : ~(k < m)
  BY <1>2 DEF OpToRel
<1>4. QED
  BY <1>3

\* The function that Written is the last value of, and one step of it.
Writing(rows) ==
    LET written[i \in 0 .. Len(rows)] ==
            IF i = 0 THEN file ELSE Add(written[i - 1], rows[i])
    IN  written
WritingStep(rows, f, i) == IF i = 0 THEN file ELSE Add(f[i - 1], rows[i])

\* There is such a function, however long the buffer.
LEMMA WritingExists ==
    ASSUME NEW rows, NEW n \in Nat
    PROVE  \E f : f = [i \in 0 .. n |-> WritingStep(rows, f, i)]
<1> DEFINE Bad == {m \in Nat : ~ \E f : f = [i \in 0 .. m |-> WritingStep(rows, f, i)]}
<1> SUFFICES ASSUME Bad # {} PROVE FALSE
  OBVIOUS
<1>1. Bad \subseteq Nat
  OBVIOUS
<1>2. PICK m \in Bad : \A k \in Bad : m <= k
  BY <1>1, LeastLength
<1>3. m \in Nat /\ ~ \E f : f = [i \in 0 .. m |-> WritingStep(rows, f, i)]
  BY <1>2
<1>4. CASE m = 0
  <2> DEFINE f == [i \in 0 .. 0 |-> file]
  <2>1. f = [i \in 0 .. 0 |-> WritingStep(rows, f, i)]
    BY DEF WritingStep
  <2>2. QED
    BY <1>3, <1>4, <2>1
<1>5. CASE m # 0
  <2>1. m - 1 \in Nat /\ m - 1 \notin Bad
    BY <1>2, <1>3, <1>5
  <2>2. PICK g : g = [i \in 0 .. m - 1 |-> WritingStep(rows, g, i)]
    BY <2>1
  <2> DEFINE f == [i \in 0 .. m |-> IF i = m THEN WritingStep(rows, g, i) ELSE g[i]]
  <2>3. ASSUME NEW i \in 0 .. m PROVE f[i] = WritingStep(rows, f, i)
    <3>1. i = 0 \/ (i - 1 \in 0 .. m - 1 /\ f[i - 1] = g[i - 1])
      BY <1>3
    <3>2. WritingStep(rows, f, i) = WritingStep(rows, g, i)
      BY <3>1 DEF WritingStep
    <3>3. f[i] = WritingStep(rows, g, i)
      BY <1>3, <2>2
    <3>4. QED
      BY <3>2, <3>3
  <2>4. f = [i \in 0 .. m |-> WritingStep(rows, f, i)]
    BY <2>3
  <2>5. QED
    BY <1>3, <2>4
<1>6. QED
  BY <1>4, <1>5

\* So Writing is one.
LEMMA WritingIs ==
    ASSUME NEW rows, Len(rows) \in Nat
    PROVE  /\ Writing(rows) = [i \in 0 .. Len(rows) |-> WritingStep(rows, Writing(rows), i)]
           /\ Written(rows) = Writing(rows)[Len(rows)]
<1> DEFINE K == CHOOSE f : f = [i \in 0 .. Len(rows) |-> WritingStep(rows, f, i)]
<1>1. \E f : f = [i \in 0 .. Len(rows) |-> WritingStep(rows, f, i)]
  BY WritingExists
<1>2. K = [i \in 0 .. Len(rows) |-> WritingStep(rows, K, i)]
  BY <1>1
<1>3. Writing(rows) = K
  BY DEF Writing, WritingStep
<1>4. Written(rows) = Writing(rows)[Len(rows)]
  BY DEF Writing, Written
<1>5. QED
  BY <1>2, <1>3, <1>4

\* The file w after the first i rows have been written.
WrittenOK(rows, i, w) ==
    /\ w \in Seq(Rows)
    /\ Len(file) <= Len(w) /\ Len(w) <= Len(file) + i
    /\ \A k \in 1 .. Len(file) :
        w[k] = file[k] \/ (k = Len(file) /\ file[k] = Torn /\ w[k] = Garbled)
    /\ i = 0 => w = file
    /\ i > 0 => w # <<>> /\ ~Ragged(w)
    /\ i > 0 /\ Ragged(file) => w[Len(file)] = Garbled
    /\ \A k \in 1 .. Len(w) : k > Len(file) => \E j \in 1 .. i : w[k] = rows[j]
    /\ \A j \in 1 .. i : rows[j] \in 1 .. MaxLines =>
        (\E k \in 1 .. Len(w) : w[k] = rows[j]) \/ (j = 1 /\ Ragged(file))

\* One more row.
LEMMA OneMore ==
    ASSUME NEW rows \in Seq(Plain), NEW i \in 1 .. Len(rows), NEW w,
           file \in Seq(Rows), WrittenOK(rows, i - 1, w)
    PROVE  WrittenOK(rows, i, Add(w, rows[i]))
<1> DEFINE r == Add(w, rows[i])
<1>1. rows[i] \in Plain
  OBVIOUS
<1>2. w \in Seq(Rows)
  BY DEF WrittenOK
<1>3. AddOK(w, rows[i], r)
  BY <1>1, <1>2, Adding
<1> HIDE DEF r
<1>4. Len(file) \in Nat /\ Len(w) \in Nat /\ i \in Nat /\ Len(rows) \in Nat
  BY <1>2
<1>4a. r \in Seq(Rows) /\ Len(r) \in Nat
  BY <1>3 DEF AddOK
<1>5. Len(file) <= Len(w) /\ Len(w) <= Len(file) + (i - 1)
  BY DEF WrittenOK
<1>6. Len(w) <= Len(r) /\ Len(r) <= Len(w) + 1
  BY <1>3 DEF AddOK
<1>7. Len(file) <= Len(r) /\ Len(r) <= Len(file) + i
  BY <1>4, <1>4a, <1>5, <1>6
<1>8. r # <<>> /\ ~Ragged(r)
  BY <1>3 DEF AddOK
<1>9. \A k \in 1 .. Len(w) : r[k] = w[k] \/ (k = Len(w) /\ w[k] = Torn /\ r[k] = Garbled)
  BY <1>3 DEF AddOK
<1>10. Ragged(w) => i = 1 /\ w = file
  <2>1. i - 1 > 0 => ~Ragged(w)
    BY DEF WrittenOK
  <2>2. i - 1 = 0 => w = file
    BY DEF WrittenOK
  <2>3. QED
    BY <1>4, <2>1, <2>2
<1>11. ASSUME NEW k \in 1 .. Len(file)
       PROVE  r[k] = file[k] \/ (k = Len(file) /\ file[k] = Torn /\ r[k] = Garbled)
  <2>1. k \in 1 .. Len(w)
    BY <1>4, <1>5
  <2>2. CASE r[k] = w[k]
    BY <2>2 DEF WrittenOK
  <2>3. CASE k = Len(w) /\ w[k] = Torn /\ r[k] = Garbled
    <3>1. Ragged(w)
      BY <2>1, <2>3, <1>2 DEF Ragged
    <3>2. w = file
      BY <3>1, <1>10
    <3>3. QED
      BY <2>3, <3>2
  <2>4. QED
    BY <1>9, <2>1, <2>2, <2>3
<1>12. Ragged(file) => r[Len(file)] = Garbled
  <2>1. SUFFICES ASSUME Ragged(file) PROVE r[Len(file)] = Garbled
    OBVIOUS
  <2>2. Len(file) \in 1 .. Len(w)
    BY <1>4, <1>5, <2>1 DEF Ragged
  <2>3. CASE i = 1
    <3>1. w = file
      BY <2>3 DEF WrittenOK
    <3>2. QED
      BY <1>3, <2>1, <3>1 DEF AddOK
  <2>4. CASE i # 1
    <3>1. i - 1 > 0
      BY <1>4, <2>4
    <3>2. w[Len(file)] = Garbled
      BY <3>1, <2>1 DEF WrittenOK
    <3>3. QED
      BY <1>9, <2>2, <3>2
  <2>5. QED
    BY <2>3, <2>4
<1>13. ASSUME NEW k \in 1 .. Len(r), k > Len(file) PROVE \E j \in 1 .. i : r[k] = rows[j]
  <2>1. CASE k \in 1 .. Len(w)
    <3>1. PICK j \in 1 .. i - 1 : w[k] = rows[j]
      BY <1>13, <2>1 DEF WrittenOK
    <3>2. r[k] = w[k]
      <4>1. ASSUME Ragged(w) PROVE FALSE
        BY <1>10, <4>1, <2>1, <1>13, <1>4
      <4>2. ~(k = Len(w) /\ w[k] = Torn)
        BY <4>1, <1>2, <2>1 DEF Ragged
      <4>3. QED
        BY <1>9, <2>1, <4>2
    <3>3. j \in 1 .. i
      BY <1>4
    <3>4. QED
      BY <3>1, <3>2, <3>3
  <2>2. CASE k \notin 1 .. Len(w)
    <3>1. k = Len(w) + 1 /\ Len(r) = Len(w) + 1
      BY <2>2, <1>4, <1>4a, <1>6
    <3>2. r[k] = rows[i]
      BY <3>1, <1>3 DEF AddOK
    <3>3. QED
      BY <3>2, <1>4
  <2>3. QED
    BY <2>1, <2>2
<1>14. ASSUME NEW j \in 1 .. i, rows[j] \in 1 .. MaxLines
       PROVE  (\E k \in 1 .. Len(r) : r[k] = rows[j]) \/ (j = 1 /\ Ragged(file))
  <2>1. CASE j = i
    <3>1. CASE Ragged(w)
      BY <1>10, <2>1, <3>1
    <3>2. CASE ~Ragged(w)
      <4>1. rows[j] # Power
        BY <1>14, Lines
      <4>2. Len(r) = Len(w) + 1 /\ r[Len(r)] = rows[i]
        BY <1>3, <2>1, <3>2, <4>1 DEF AddOK
      <4>3. Len(r) \in 1 .. Len(r)
        BY <1>4, <4>2
      <4>4. QED
        BY <2>1, <4>2, <4>3
    <3>3. QED
      BY <3>1, <3>2
  <2>2. CASE j # i
    <3>1. j \in 1 .. i - 1
      BY <1>4, <2>2
    <3>2. CASE j = 1 /\ Ragged(file)
      BY <3>2
    <3>3. CASE \E k \in 1 .. Len(w) : w[k] = rows[j]
      <4>1. PICK k \in 1 .. Len(w) : w[k] = rows[j]
        BY <3>3
      <4>2. w[k] # Torn
        BY <4>1, <1>14, Lines
      <4>3. r[k] = rows[j] /\ k \in 1 .. Len(r)
        BY <1>9, <1>4, <1>4a, <1>6, <4>1, <4>2
      <4>4. QED
        BY <4>3
    <3>4. QED
      BY <1>14, <3>1, <3>2, <3>3 DEF WrittenOK
  <2>3. QED
    BY <2>1, <2>2
<1>15. i > 0
  BY <1>4
<1>16. WrittenOK(rows, i, r)
  BY <1>4a, <1>7, <1>8, <1>11, <1>12, <1>13, <1>14, <1>15 DEF WrittenOK
<1>17. QED
  BY <1>16 DEF r

\* What a flush makes of the file.
LEMMA WrittenIs ==
    ASSUME NEW rows \in Seq(Plain), file \in Seq(Rows)
    PROVE  WrittenOK(rows, Len(rows), Written(rows))
<1>1. Len(rows) \in Nat /\ Len(file) \in Nat
  OBVIOUS
<1> DEFINE W == Writing(rows)
<1>2. W = [i \in 0 .. Len(rows) |-> WritingStep(rows, W, i)] /\ Written(rows) = W[Len(rows)]
  BY <1>1, WritingIs
<1> HIDE DEF W
<1> DEFINE Bad == {i \in 0 .. Len(rows) : ~WrittenOK(rows, i, W[i])}
<1>3. SUFFICES ASSUME Bad # {} PROVE FALSE
  <2>1. Len(rows) \in 0 .. Len(rows)
    BY <1>1
  <2>2. QED
    BY <1>2, <2>1, Zenon
<1>4. Bad \subseteq Nat
  BY <1>1
<1>5. PICK m \in Bad : \A k \in Bad : m <= k
  BY <1>3, <1>4, LeastLength
<1>6. m \in 0 .. Len(rows) /\ ~WrittenOK(rows, m, W[m])
  BY <1>5
<1>7. CASE m = 0
  <2>1. W[m] = file
    BY <1>2, <1>6, <1>7 DEF WritingStep
  <2>2. WrittenOK(rows, 0, file)
    BY <1>1 DEF WrittenOK
  <2>3. QED
    BY <1>6, <1>7, <2>1, <2>2
<1>8. CASE m # 0
  <2>1. m \in 1 .. Len(rows) /\ m - 1 \in 0 .. Len(rows) /\ ~(m <= m - 1)
    BY <1>1, <1>6, <1>8
  <2>2. m - 1 \notin Bad
    BY <1>5, <2>1
  <2>3. WrittenOK(rows, m - 1, W[m - 1])
    BY <2>1, <2>2
  <2>4. W[m] = Add(W[m - 1], rows[m])
    BY <1>2, <1>6, <1>8 DEF WritingStep
  <2>5. WrittenOK(rows, m, Add(W[m - 1], rows[m]))
    BY <2>1, <2>3, OneMore
  <2>6. QED
    BY <1>6, <2>4, <2>5
<1>9. QED
  BY <1>7, <1>8
-----------------------------------------------------------------------------
(* The inductive invariant.                                                *)

\* The types: of main() and the threads,
MainOK ==
    /\ program \in Programs /\ main \in {"off", "opened", "header", "run", "stopping", "closed"}
    /\ writeHeader \in BOOLEAN /\ exists \in BOOLEAN /\ cut \in BOOLEAN
    /\ due \subseteq Samplers /\ runs \in 0 .. MaxRuns
ThreadsOK ==
    /\ lock \in Threads \cup {"free"} /\ line \in 0 .. MaxLines /\ lines \in 0 .. MaxLines
    /\ pc \in [Threads -> {"off", "idle", "write", "flush", "log"}]
\* of the file, whose buffer holds whole rows,
FileOK == file \in Seq(Rows) /\ buffer \in Seq(Plain)
\* and of the states in memory.
StatesOK ==
    /\ state_log \in Seq(1 .. MaxLines) /\ Len(state_log) <= MaxLog
    /\ published \subseteq 1 .. MaxLines

\* A thread that flushes holds csv_lock.
LockOK == \A t \in Threads : pc[t] = "flush" => lock = t
\* The threads are started by main().
Asleep == main \in {"off", "opened", "header"} => \A t \in Threads : pc[t] = "off"
\* The reader has a line to write, and has put it into the buffer before it flushes.
HasLine == pc["reader"] \in {"write", "flush", "log"} => line \in 1 .. MaxLines
InBuffer ==
    pc["reader"] = "flush" /\ main # "closed" => \E i \in 1 .. Len(buffer) : buffer[i] = line

\* The header is the first thing that is written, and is written once.
HeaderBuffered ==
    /\ main \in {"off", "opened"} => buffer = <<>>
    /\ main = "header" => writeHeader /\ buffer = <<Header>>
    /\ main # "header" => \A i \in 1 .. Len(buffer) : buffer[i] # Header
\* The file gets its header before anything else: while it is owed, the file is empty.
HeaderOwed == main \in {"opened", "header"} /\ writeHeader
HeaderOK(f) == f # <<>> /\ f[1] = Header /\ \A i \in 2 .. Len(f) : f[i] # Header
HeaderInv ==
    ~cut =>
        /\ ~exists => main = "off" /\ file = <<>>
        /\ exists /\ HeaderOwed => file = <<>>
        /\ exists /\ ~HeaderOwed => HeaderOK(file)

\* The lines that must be in the file, or be lost to half a row: those that the page could show,
\* and the one that the reader has flushed and is about to show.
Owed == published \cup (IF pc["reader"] = "log" THEN {line} ELSE {})
Lost == Cardinality(Owed \ InFile) <= Cardinality(GarbledLines)

ControlInv == MainOK /\ ThreadsOK /\ LockOK /\ Asleep /\ HasLine
LogInv == ControlInv /\ FileOK /\ StatesOK /\ InBuffer /\ HeaderBuffered /\ HeaderInv /\ Lost

\* Thread names.
LEMMA ThreadNames ==
    /\ Samplers \subseteq Threads /\ "reader" \in Threads /\ "reader" \notin Samplers
    /\ "free" \notin Threads
<1>1. QED
  BY DEF Threads, Samplers

\* Who runs, and who holds csv_lock, after a step.
LEMMA ControlStep ==
    ASSUME ControlInv, [LogNext]_logVars
    PROVE  ControlInv'
<1> USE DEF ControlInv, threads, counts
<1>1. MaxLines \in Nat /\ MaxRuns \in Nat
  BY Lines
<1>2. CASE Open
  <2>1. MainOK'
    BY <1>1, <1>2 DEF Open, MainOK, ThreadsOK, NeedsHeader
  <2>2. ThreadsOK'
    BY <1>1, <1>2, ThreadNames DEF Open, ThreadsOK
  <2>3. LockOK'
    BY <1>2, ThreadNames DEF Open, LockOK, ThreadsOK
  <2>4. Asleep'
    BY <1>2, ThreadNames DEF Open, Asleep, ThreadsOK, MainOK
  <2>5. HasLine'
    BY <1>1, <1>2, ThreadNames DEF Open, HasLine, ThreadsOK
  <2>6. QED
    BY <2>1, <2>2, <2>3, <2>4, <2>5
<1>3. CASE WriteHeader
  <2>1. MainOK'
    BY <1>1, <1>3 DEF WriteHeader, MainOK, ThreadsOK, NeedsHeader
  <2>2. ThreadsOK'
    BY <1>1, <1>3, ThreadNames DEF WriteHeader, ThreadsOK
  <2>3. LockOK'
    BY <1>3, ThreadNames DEF WriteHeader, LockOK, ThreadsOK
  <2>4. Asleep'
    BY <1>3, ThreadNames DEF WriteHeader, Asleep, ThreadsOK, MainOK
  <2>5. HasLine'
    BY <1>1, <1>3, ThreadNames DEF WriteHeader, HasLine, ThreadsOK
  <2>6. QED
    BY <2>1, <2>2, <2>3, <2>4, <2>5
<1>4. CASE StartThreads
  <2>1. MainOK'
    BY <1>1, <1>4 DEF StartThreads, Flush, MainOK, ThreadsOK, NeedsHeader
  <2>2. ThreadsOK'
    BY <1>1, <1>4, ThreadNames DEF StartThreads, Flush, ThreadsOK
  <2>3. LockOK'
    BY <1>4, ThreadNames DEF StartThreads, Flush, LockOK, ThreadsOK
  <2>4. Asleep'
    BY <1>4, ThreadNames DEF StartThreads, Flush, Asleep, ThreadsOK, MainOK
  <2>5. HasLine'
    BY <1>1, <1>4, ThreadNames DEF StartThreads, Flush, HasLine, ThreadsOK
  <2>6. QED
    BY <2>1, <2>2, <2>3, <2>4, <2>5
<1>5. CASE Stop
  <2>1. MainOK'
    BY <1>1, <1>5 DEF Stop, ReaderGone, MainOK, ThreadsOK, NeedsHeader
  <2>2. ThreadsOK'
    BY <1>1, <1>5, ThreadNames DEF Stop, ReaderGone, ThreadsOK
  <2>3. LockOK'
    BY <1>5, ThreadNames DEF Stop, ReaderGone, LockOK, ThreadsOK
  <2>4. Asleep'
    BY <1>5, ThreadNames DEF Stop, ReaderGone, Asleep, ThreadsOK, MainOK
  <2>5. HasLine'
    BY <1>1, <1>5, ThreadNames DEF Stop, ReaderGone, HasLine, ThreadsOK
  <2>6. QED
    BY <2>1, <2>2, <2>3, <2>4, <2>5
<1>6. CASE Close
  <2>1. MainOK'
    BY <1>1, <1>6 DEF Close, Flush, MainOK, ThreadsOK, NeedsHeader
  <2>2. ThreadsOK'
    BY <1>1, <1>6, ThreadNames DEF Close, Flush, ThreadsOK
  <2>3. LockOK'
    BY <1>6, ThreadNames DEF Close, Flush, LockOK, ThreadsOK
  <2>4. Asleep'
    BY <1>6, ThreadNames DEF Close, Flush, Asleep, ThreadsOK, MainOK
  <2>5. HasLine'
    BY <1>1, <1>6, ThreadNames DEF Close, Flush, HasLine, ThreadsOK
  <2>6. QED
    BY <2>1, <2>2, <2>3, <2>4, <2>5
<1>7. CASE Return
  <2>1. MainOK'
    BY <1>1, <1>7 DEF Return, ProcessEnds, MainOK, ThreadsOK, NeedsHeader
  <2>2. ThreadsOK'
    BY <1>1, <1>7, ThreadNames DEF Return, ProcessEnds, ThreadsOK
  <2>3. LockOK'
    BY <1>7, ThreadNames DEF Return, ProcessEnds, LockOK, ThreadsOK
  <2>4. Asleep'
    BY <1>7, ThreadNames DEF Return, ProcessEnds, Asleep, ThreadsOK, MainOK
  <2>5. HasLine'
    BY <1>1, <1>7, ThreadNames DEF Return, ProcessEnds, HasLine, ThreadsOK
  <2>6. QED
    BY <2>1, <2>2, <2>3, <2>4, <2>5
<1>8. CASE Die
  <2>1. MainOK'
    BY <1>1, <1>8 DEF Die, ProcessEnds, MainOK, ThreadsOK, NeedsHeader
  <2>2. ThreadsOK'
    BY <1>1, <1>8, ThreadNames DEF Die, ProcessEnds, ThreadsOK
  <2>3. LockOK'
    BY <1>8, ThreadNames DEF Die, ProcessEnds, LockOK, ThreadsOK
  <2>4. Asleep'
    BY <1>8, ThreadNames DEF Die, ProcessEnds, Asleep, ThreadsOK, MainOK
  <2>5. HasLine'
    BY <1>1, <1>8, ThreadNames DEF Die, ProcessEnds, HasLine, ThreadsOK
  <2>6. QED
    BY <2>1, <2>2, <2>3, <2>4, <2>5
<1>9. CASE Receive
  <2>1. MainOK'
    BY <1>1, <1>9 DEF Receive, Reader, MainOK, ThreadsOK, NeedsHeader
  <2>2. ThreadsOK'
    BY <1>1, <1>9, ThreadNames DEF Receive, Reader, ThreadsOK
  <2>3. LockOK'
    BY <1>9, ThreadNames DEF Receive, Reader, LockOK, ThreadsOK
  <2>4. Asleep'
    BY <1>9, ThreadNames DEF Receive, Reader, Asleep, ThreadsOK, MainOK
  <2>5. HasLine'
    BY <1>1, <1>9, ThreadNames DEF Receive, Reader, HasLine, ThreadsOK
  <2>6. QED
    BY <2>1, <2>2, <2>3, <2>4, <2>5
<1>10. CASE ReaderWrite
  <2>1. MainOK'
    BY <1>1, <1>10 DEF ReaderWrite, Reader, MainOK, ThreadsOK, NeedsHeader
  <2>2. ThreadsOK'
    BY <1>1, <1>10, ThreadNames DEF ReaderWrite, Reader, ThreadsOK
  <2>3. LockOK'
    BY <1>10, ThreadNames DEF ReaderWrite, Reader, LockOK, ThreadsOK
  <2>4. Asleep'
    BY <1>10, ThreadNames DEF ReaderWrite, Reader, Asleep, ThreadsOK, MainOK
  <2>5. HasLine'
    BY <1>1, <1>10, ThreadNames DEF ReaderWrite, Reader, HasLine, ThreadsOK
  <2>6. QED
    BY <2>1, <2>2, <2>3, <2>4, <2>5
<1>11. CASE ReaderFlush
  <2>1. MainOK'
    BY <1>1, <1>11 DEF ReaderFlush, Reader, Flush, MainOK, ThreadsOK, NeedsHeader
  <2>2. ThreadsOK'
    BY <1>1, <1>11, ThreadNames DEF ReaderFlush, Reader, Flush, ThreadsOK
  <2>3. LockOK'
    BY <1>11, ThreadNames DEF ReaderFlush, Reader, Flush, LockOK, ThreadsOK
  <2>4. Asleep'
    BY <1>11, ThreadNames DEF ReaderFlush, Reader, Flush, Asleep, ThreadsOK, MainOK
  <2>5. HasLine'
    BY <1>1, <1>11, ThreadNames DEF ReaderFlush, Reader, Flush, HasLine, ThreadsOK
  <2>6. QED
    BY <2>1, <2>2, <2>3, <2>4, <2>5
<1>12. CASE ReaderLog
  <2>1. MainOK'
    BY <1>1, <1>12 DEF ReaderLog, Reader, MainOK, ThreadsOK, NeedsHeader
  <2>2. ThreadsOK'
    BY <1>1, <1>12, ThreadNames DEF ReaderLog, Reader, ThreadsOK
  <2>3. LockOK'
    BY <1>12, ThreadNames DEF ReaderLog, Reader, LockOK, ThreadsOK
  <2>4. Asleep'
    BY <1>12, ThreadNames DEF ReaderLog, Reader, Asleep, ThreadsOK, MainOK
  <2>5. HasLine'
    BY <1>1, <1>12, ThreadNames DEF ReaderLog, Reader, HasLine, ThreadsOK
  <2>6. QED
    BY <2>1, <2>2, <2>3, <2>4, <2>5
<1>13. CASE ReaderFails
  <2>1. MainOK'
    BY <1>1, <1>13 DEF ReaderFails, Reader, MainOK, ThreadsOK, NeedsHeader
  <2>2. ThreadsOK'
    BY <1>1, <1>13, ThreadNames DEF ReaderFails, Reader, ThreadsOK
  <2>3. LockOK'
    BY <1>13, ThreadNames DEF ReaderFails, Reader, LockOK, ThreadsOK
  <2>4. Asleep'
    BY <1>13, ThreadNames DEF ReaderFails, Reader, Asleep, ThreadsOK, MainOK
  <2>5. HasLine'
    BY <1>1, <1>13, ThreadNames DEF ReaderFails, Reader, HasLine, ThreadsOK
  <2>6. QED
    BY <2>1, <2>2, <2>3, <2>4, <2>5
<1>14. ASSUME NEW t \in Samplers, Sample(t) PROVE ControlInv'
  <2>1. MainOK'
    BY <1>1, <1>14 DEF Sample, Sampler, MainOK, ThreadsOK, NeedsHeader
  <2>2. ThreadsOK'
    BY <1>1, <1>14, ThreadNames DEF Sample, Sampler, ThreadsOK
  <2>3. LockOK'
    BY <1>14, ThreadNames DEF Sample, Sampler, LockOK, ThreadsOK
  <2>4. Asleep'
    BY <1>14, ThreadNames DEF Sample, Sampler, Asleep, ThreadsOK, MainOK
  <2>5. HasLine'
    BY <1>1, <1>14, ThreadNames DEF Sample, Sampler, HasLine, ThreadsOK
  <2>6. QED
    BY <2>1, <2>2, <2>3, <2>4, <2>5
<1>15. ASSUME NEW t \in Samplers, SampleWrite(t) PROVE ControlInv'
  <2>1. MainOK'
    BY <1>1, <1>15 DEF SampleWrite, Sampler, Due, MainOK, ThreadsOK, NeedsHeader
  <2>2. ThreadsOK'
    BY <1>1, <1>15, ThreadNames DEF SampleWrite, Sampler, Due, ThreadsOK
  <2>3. LockOK'
    BY <1>15, ThreadNames DEF SampleWrite, Sampler, Due, LockOK, ThreadsOK
  <2>4. Asleep'
    BY <1>15, ThreadNames DEF SampleWrite, Sampler, Due, Asleep, ThreadsOK, MainOK
  <2>5. HasLine'
    BY <1>1, <1>15, ThreadNames DEF SampleWrite, Sampler, Due, HasLine, ThreadsOK
  <2>6. QED
    BY <2>1, <2>2, <2>3, <2>4, <2>5
<1>16. ASSUME NEW t \in Samplers, SampleFlush(t) PROVE ControlInv'
  <2>1. MainOK'
    BY <1>1, <1>16 DEF SampleFlush, Sampler, Flush, MainOK, ThreadsOK, NeedsHeader
  <2>2. ThreadsOK'
    BY <1>1, <1>16, ThreadNames DEF SampleFlush, Sampler, Flush, ThreadsOK
  <2>3. LockOK'
    BY <1>16, ThreadNames DEF SampleFlush, Sampler, Flush, LockOK, ThreadsOK
  <2>4. Asleep'
    BY <1>16, ThreadNames DEF SampleFlush, Sampler, Flush, Asleep, ThreadsOK, MainOK
  <2>5. HasLine'
    BY <1>1, <1>16, ThreadNames DEF SampleFlush, Sampler, Flush, HasLine, ThreadsOK
  <2>6. QED
    BY <2>1, <2>2, <2>3, <2>4, <2>5
<1>17. ASSUME NEW t \in Samplers, SampleFails(t) PROVE ControlInv'
  <2>1. MainOK'
    BY <1>1, <1>17 DEF SampleFails, Sampler, MainOK, ThreadsOK, NeedsHeader
  <2>2. ThreadsOK'
    BY <1>1, <1>17, ThreadNames DEF SampleFails, Sampler, ThreadsOK
  <2>3. LockOK'
    BY <1>17, ThreadNames DEF SampleFails, Sampler, LockOK, ThreadsOK
  <2>4. Asleep'
    BY <1>17, ThreadNames DEF SampleFails, Sampler, Asleep, ThreadsOK, MainOK
  <2>5. HasLine'
    BY <1>1, <1>17, ThreadNames DEF SampleFails, Sampler, HasLine, ThreadsOK
  <2>6. QED
    BY <2>1, <2>2, <2>3, <2>4, <2>5
<1>18. ASSUME NEW t \in Samplers, Elapse(t) PROVE ControlInv'
  <2>1. MainOK'
    BY <1>1, <1>18 DEF Elapse, MainOK, ThreadsOK, NeedsHeader
  <2>2. ThreadsOK'
    BY <1>1, <1>18, ThreadNames DEF Elapse, ThreadsOK
  <2>3. LockOK'
    BY <1>18, ThreadNames DEF Elapse, LockOK, ThreadsOK
  <2>4. Asleep'
    BY <1>18, ThreadNames DEF Elapse, Asleep, ThreadsOK, MainOK
  <2>5. HasLine'
    BY <1>1, <1>18, ThreadNames DEF Elapse, HasLine, ThreadsOK
  <2>6. QED
    BY <2>1, <2>2, <2>3, <2>4, <2>5
<1>19. CASE Disk
  <2>1. MainOK'
    BY <1>1, <1>19 DEF Disk, MainOK, ThreadsOK, NeedsHeader
  <2>2. ThreadsOK'
    BY <1>1, <1>19, ThreadNames DEF Disk, ThreadsOK
  <2>3. LockOK'
    BY <1>19, ThreadNames DEF Disk, LockOK, ThreadsOK
  <2>4. Asleep'
    BY <1>19, ThreadNames DEF Disk, Asleep, ThreadsOK, MainOK
  <2>5. HasLine'
    BY <1>1, <1>19, ThreadNames DEF Disk, HasLine, ThreadsOK
  <2>6. QED
    BY <2>1, <2>2, <2>3, <2>4, <2>5
<1>20. CASE UNCHANGED logVars
  BY <1>20 DEF logVars, MainOK, ThreadsOK, LockOK, Asleep, HasLine
<1>21. QED
  BY <1>2, <1>3, <1>4, <1>5, <1>6, <1>7, <1>8, <1>9, <1>10, <1>11, <1>12, <1>13, <1>14, <1>15, <1>16, <1>17, <1>18, <1>19, <1>20 DEF LogNext, Main, ReaderStep, SamplerStep

-----------------------------------------------------------------------------
(* The states in memory.                                                   *)

\* The log is cut to its newest states.
LEMMA Trimming ==
    ASSUME NEW log \in Seq(1 .. MaxLines)
    PROVE  Trimmed(log) \in Seq(1 .. MaxLines) /\ Len(Trimmed(log)) <= MaxLog
<1>1. MaxLog \in Nat /\ MaxLog >= 1 /\ Len(log) \in Nat
  BY Lines
<1> DEFINE first == IF Len(log) > MaxLog THEN Len(log) - MaxLog + 1 ELSE 1
<1>2. first \in 1 .. Len(log) + 1 /\ Len(log) - first + 1 <= MaxLog
  BY <1>1
<1>3. Trimmed(log) = SubSeq(log, first, Len(log))
  BY DEF Trimmed
<1> HIDE DEF first
<1>4. first \in Int /\ Len(log) \in Int
  BY <1>1, <1>2
<1>5. ASSUME NEW i \in first .. Len(log) PROVE log[i] \in 1 .. MaxLines
  <2>1. i \in 1 .. Len(log)
    BY <1>1, <1>2
  <2>2. QED
    BY <2>1, ElementOfSeq
<1>6. /\ SubSeq(log, first, Len(log)) \in Seq(1 .. MaxLines)
      /\ Len(SubSeq(log, first, Len(log))) =
            IF first <= Len(log) THEN Len(log) - first + 1 ELSE 0
  BY <1>4, <1>5, SubSeqProperties, ZenonT(30)
<1>7. QED
  BY <1>1, <1>2, <1>3, <1>6

\* The types of the states in memory, after any step.
LEMMA StatesStep ==
    ASSUME ControlInv, StatesOK, [LogNext]_logVars
    PROVE  StatesOK'
<1>1. CASE ReaderLog
  <2>1. line \in 1 .. MaxLines
    BY <1>1 DEF ReaderLog, Reader, ControlInv, HasLine
  <2>2. Append(state_log, line) \in Seq(1 .. MaxLines)
    BY <2>1 DEF StatesOK
  <2>3. QED
    BY <1>1, <2>1, <2>2, Trimming DEF ReaderLog, StatesOK
<1>2. CASE Open \/ Return \/ Die
  <2>1. published' = published /\ state_log' = <<>>
    BY <1>2 DEF Open, Return, Die, ProcessEnds, counts
  <2>2. <<>> \in Seq(1 .. MaxLines) /\ Len(<<>>) <= MaxLog
    BY Lines
  <2>3. QED
    BY <2>1, <2>2 DEF StatesOK
<1>3. CASE state_log' = state_log /\ published' = published
  BY <1>3 DEF StatesOK
<1>4. ASSUME NEW t \in Samplers, Sample(t) \/ SamplerStep(t) \/ Elapse(t) PROVE StatesOK'
  BY <1>3, <1>4 DEF Sample, SamplerStep, SampleWrite, SampleFlush, SampleFails, Elapse, Sampler
<1>5. CASE WriteHeader \/ StartThreads \/ Stop \/ Close
  BY <1>3, <1>5 DEF WriteHeader, StartThreads, Stop, Close
<1>6. CASE Receive \/ ReaderWrite \/ ReaderFlush \/ ReaderFails
  BY <1>3, <1>6 DEF Receive, ReaderWrite, ReaderFlush, ReaderFails
<1>7. CASE Disk \/ UNCHANGED logVars
  BY <1>3, <1>7 DEF Disk, logVars
<1>8. QED
  BY <1>1, <1>2, <1>4, <1>5, <1>6, <1>7 DEF LogNext, Main, ReaderStep

-----------------------------------------------------------------------------
(* The file and its buffer.                                                *)

\* the file after a kill that has handed over k rows of the buffer
Handed(k) ==
    LET kept == Written(SubSeq(buffer, 1, k)) IN {kept, Append(kept, Torn)}

\* The file changes by writing rows of the buffer only, perhaps with half a row behind them.
LEMMA FileChange ==
    ASSUME FileOK, [LogNext]_logVars
    PROVE  file' = file \/ \E k \in 0 .. Len(buffer) : file' \in Handed(k)
<1>1. Len(buffer) \in 0 .. Len(buffer) /\ SubSeq(buffer, 1, Len(buffer)) = buffer
  BY SubSeqFull DEF FileOK
<1>2. CASE Flush
  BY <1>1, <1>2 DEF Flush, Handed
<1>3. CASE Die
  BY <1>3 DEF Die, Handed
<1>4. CASE file' = file
  BY <1>4
<1>5. ASSUME NEW t \in Samplers, Sample(t) \/ SamplerStep(t) \/ Elapse(t)
      PROVE  Flush \/ file' = file
  BY <1>5 DEF Sample, SamplerStep, SampleWrite, SampleFlush, SampleFails, Elapse, Sampler
<1>6. CASE Open \/ WriteHeader \/ StartThreads \/ Stop \/ Close \/ Return
  BY <1>2, <1>4, <1>6 DEF Open, WriteHeader, StartThreads, Stop, Close, Return
<1>7. CASE Receive \/ ReaderWrite \/ ReaderFlush \/ ReaderLog \/ ReaderFails
  BY <1>2, <1>4, <1>7 DEF Receive, ReaderWrite, ReaderFlush, ReaderLog, ReaderFails
<1>8. CASE Disk \/ UNCHANGED logVars
  BY <1>4, <1>8 DEF Disk, logVars
<1>9. QED
  BY <1>2, <1>3, <1>4, <1>5, <1>6, <1>7, <1>8 DEF LogNext, Main, ReaderStep

\* The rows that are handed over are whole rows, the first ones of the buffer.
LEMMA Prefixes ==
    ASSUME buffer \in Seq(Plain), NEW k \in 0 .. Len(buffer)
    PROVE  /\ SubSeq(buffer, 1, k) \in Seq(Plain) /\ Len(SubSeq(buffer, 1, k)) = k
           /\ \A i \in 1 .. k : SubSeq(buffer, 1, k)[i] = buffer[i]
<1>1. Len(buffer) \in Nat
  OBVIOUS
<1>2. 1 \in Int /\ k \in Int /\ \A i \in 1 .. k : buffer[i] \in Plain
  BY <1>1
<1>3. /\ SubSeq(buffer, 1, k) \in Seq(Plain)
      /\ Len(SubSeq(buffer, 1, k)) = IF 1 <= k THEN k - 1 + 1 ELSE 0
      /\ \A i \in 1 .. k - 1 + 1 : SubSeq(buffer, 1, k)[i] = buffer[1 + i - 1]
  BY <1>2, SubSeqProperties
<1>4. QED
  BY <1>1, <1>3

\* The types of the file and what is known of its buffer, after any step.
LEMMA FileStep ==
    ASSUME ControlInv, FileOK, HeaderBuffered, InBuffer, [LogNext]_logVars
    PROVE  FileOK' /\ HeaderBuffered' /\ InBuffer'
<1>1. file' \in Seq(Rows)
  <2>1. CASE file' = file
    BY <2>1 DEF FileOK
  <2>2. ASSUME NEW k \in 0 .. Len(buffer), file' \in Handed(k) PROVE file' \in Seq(Rows)
    <3>1. Written(SubSeq(buffer, 1, k)) \in Seq(Rows)
      BY <2>2, Prefixes, WrittenIs DEF FileOK, WrittenOK
    <3>2. QED
      BY <2>2, <3>1, Lines DEF Handed
  <2>3. QED
    BY <2>1, <2>2, FileChange
<1>2. /\ <<>> \in Seq(Plain) /\ Len(<<>>) = 0 /\ <<Header>> \in Seq(Plain)
      /\ Len(<<Header>>) = 1 /\ <<Header>>[1] = Header
  BY Lines
<1>3. ASSUME buffer' = <<>>, main' # "header", pc'["reader"] = "flush" => main' = "closed"
      PROVE  buffer' \in Seq(Plain) /\ HeaderBuffered' /\ InBuffer'
  BY <1>2, <1>3 DEF HeaderBuffered, InBuffer
<1>4. ASSUME buffer' = buffer, main' = main, writeHeader' = writeHeader,
             pc'["reader"] = "flush" => pc["reader"] = "flush" /\ line' = line
      PROVE  buffer' \in Seq(Plain) /\ HeaderBuffered' /\ InBuffer'
  BY <1>4 DEF HeaderBuffered, InBuffer, FileOK
<1>5. ASSUME NEW row \in Plain, row # Header, buffer' = Add(buffer, row), main' = main,
             main \notin {"off", "opened", "header"}
      PROVE  /\ buffer' \in Seq(Plain) /\ HeaderBuffered'
             /\ \A i \in 1 .. Len(buffer) : buffer'[i] = buffer[i] /\ i \in 1 .. Len(buffer')
             /\ row # Power => \E i \in 1 .. Len(buffer') : buffer'[i] = row
  <2>1. buffer \in Seq(Rows) /\ buffer \in Seq(Plain)
    BY Lines, SeqMonotonic DEF FileOK
  <2>2. AddOK(buffer, row, buffer') /\ buffer' \in Seq(Plain)
    BY <1>5, <2>1, Adding
  <2>3. Len(buffer) \in Nat /\ Len(buffer') \in Nat
    BY <2>1, <2>2
  <2>4. \A i \in 1 .. Len(buffer) : buffer[i] # Torn
    BY <2>1, Lines
  <2>5. ~Ragged(buffer)
    BY <2>1, <2>3, <2>4 DEF Ragged
  <2>6. /\ Len(buffer) <= Len(buffer') /\ Len(buffer') <= Len(buffer) + 1
        /\ \A i \in 1 .. Len(buffer) : buffer'[i] = buffer[i]
        /\ Len(buffer') = Len(buffer) + 1 => buffer'[Len(buffer')] = row
        /\ row # Power => Len(buffer') = Len(buffer) + 1
    BY <2>2, <2>4, <2>5 DEF AddOK
  <2>7. \A i \in 1 .. Len(buffer') : buffer'[i] # Header
    <3>1. \A i \in 1 .. Len(buffer) : buffer[i] # Header
      BY <1>5 DEF HeaderBuffered
    <3>2. QED
      BY <1>5, <2>3, <2>6, <3>1
  <2>8. HeaderBuffered'
    BY <1>5, <2>7 DEF HeaderBuffered
  <2>9. row # Power => \E i \in 1 .. Len(buffer') : buffer'[i] = row
    BY <2>3, <2>6
  <2>10. \A i \in 1 .. Len(buffer) : buffer'[i] = buffer[i] /\ i \in 1 .. Len(buffer')
    BY <2>3, <2>6
  <2>11. QED
    BY <2>2, <2>8, <2>9, <2>10
<1>6. \A t \in Threads : pc[t] # "off" => main \notin {"off", "opened", "header"}
  BY DEF ControlInv, Asleep
<1>7. pc \in [Threads -> {"off", "idle", "write", "flush", "log"}]
  BY DEF ControlInv, ThreadsOK
<1> DEFINE Goal == buffer' \in Seq(Plain) /\ HeaderBuffered' /\ InBuffer'
<1>8. ASSUME Open PROVE Goal
  <2>1. buffer' = <<>> /\ main' = "opened" /\ pc' = pc /\ pc["reader"] = "off"
    BY <1>8, ThreadNames DEF Open, threads, ControlInv, Asleep, HeaderBuffered
  <2>2. QED
    BY <1>3, <2>1
<1>9. ASSUME WriteHeader PROVE Goal
  <2>1. /\ buffer' = <<Header>> /\ main' = "header" /\ writeHeader' = TRUE
        /\ pc' = pc /\ pc["reader"] = "off"
    BY <1>9, ThreadNames DEF WriteHeader, threads, ControlInv, Asleep, MainOK
  <2>2. QED
    BY <1>2, <2>1 DEF HeaderBuffered, InBuffer
<1>10. ASSUME StartThreads PROVE Goal
  <2>1. buffer' = <<>> /\ main' = "run"
    BY <1>10 DEF StartThreads, Flush, HeaderBuffered
  <2>2. pc'["reader"] # "flush"
    BY <1>10, ThreadNames DEF StartThreads
  <2>3. QED
    BY <1>3, <2>1, <2>2
<1>11. ASSUME Stop PROVE Goal
  <2>1. buffer' = buffer /\ main = "run" /\ main' = "stopping"
    BY <1>11 DEF Stop
  <2>2. pc'["reader"] = "flush" => pc["reader"] = "flush" /\ line' = line
    BY <1>7, <1>11, ThreadNames DEF Stop, ReaderGone
  <2>3. QED
    BY <2>1, <2>2 DEF HeaderBuffered, InBuffer, FileOK
<1>12. ASSUME Close PROVE Goal
  <2>1. buffer' = <<>> /\ main' = "closed"
    BY <1>12 DEF Close, Flush
  <2>2. QED
    BY <1>3, <2>1
<1>13. ASSUME Return \/ Die PROVE Goal
  <2>1. buffer' = <<>> /\ main' = "off" /\ pc'["reader"] # "flush"
    BY <1>13, ThreadNames DEF Return, Die, ProcessEnds
  <2>2. QED
    BY <1>3, <2>1
<1>14. ASSUME ReaderWrite PROVE Goal
  <2>1. line \in 1 .. MaxLines /\ main \notin {"off", "opened", "header"}
    BY <1>6, <1>14, ThreadNames DEF ReaderWrite, Reader, ControlInv, HasLine
  <2>2. line \in Plain /\ line # Header /\ line # Power
    BY <2>1, Lines DEF Plain
  <2>3. buffer' = Add(buffer, line) /\ main' = main /\ line' = line
    BY <1>14 DEF ReaderWrite
  <2>4. /\ buffer' \in Seq(Plain) /\ HeaderBuffered'
        /\ \E i \in 1 .. Len(buffer') : buffer'[i] = line
    BY <1>5, <2>1, <2>2, <2>3
  <2>5. QED
    BY <2>3, <2>4 DEF InBuffer
<1>15. ASSUME ReaderFlush PROVE Goal
  <2>1. buffer' = <<>> /\ main' = main /\ main # "header" /\ pc'["reader"] # "flush"
    BY <1>6, <1>7, <1>15, ThreadNames DEF ReaderFlush, Reader, Flush
  <2>2. QED
    BY <1>3, <2>1
<1>16. ASSUME Receive \/ ReaderLog PROVE Goal
  <2>1. /\ buffer' = buffer /\ main' = main /\ writeHeader' = writeHeader
        /\ pc'["reader"] # "flush"
    BY <1>7, <1>16, ThreadNames DEF Receive, ReaderLog, Reader
  <2>2. QED
    BY <1>4, <2>1
<1>17. ASSUME ReaderFails PROVE Goal
  <2>1. pc'["reader"] = "off" /\ buffer' = buffer /\ writeHeader' = writeHeader
    BY <1>7, <1>17, ThreadNames DEF ReaderFails, Reader
  <2>2. main' = main \/ (main = "run" /\ main' = "stopping")
    BY <1>17 DEF ReaderFails
  <2>3. QED
    BY <2>1, <2>2 DEF HeaderBuffered, InBuffer, FileOK
<1>18. ASSUME NEW t \in Samplers, Sample(t) \/ SampleFails(t) \/ Elapse(t) PROVE Goal
  <2>1. buffer' = buffer /\ main' = main /\ writeHeader' = writeHeader /\ line' = line
    BY <1>18 DEF Sample, SampleFails, Elapse, Sampler
  <2>2. pc'["reader"] = pc["reader"]
    BY <1>7, <1>18, ThreadNames DEF Sample, SampleFails, Elapse, Sampler
  <2>3. QED
    BY <1>4, <2>1, <2>2
<1>19. ASSUME NEW t \in Samplers, SampleWrite(t) PROVE Goal
  <2>1. t \in Threads /\ pc[t] # "off"
    BY <1>19, ThreadNames DEF SampleWrite, Sampler
  <2>2. /\ buffer' = Add(buffer, Power) /\ main' = main /\ line' = line
        /\ main \notin {"off", "opened", "header"}
    BY <1>6, <1>19, <2>1 DEF SampleWrite, Sampler
  <2>3. pc'["reader"] = pc["reader"]
    BY <1>7, <1>19, ThreadNames DEF SampleWrite, Sampler
  <2>4. /\ buffer' \in Seq(Plain) /\ HeaderBuffered'
        /\ \A i \in 1 .. Len(buffer) : buffer'[i] = buffer[i] /\ i \in 1 .. Len(buffer')
    BY <1>5, <2>2, Lines
  <2>5. QED
    BY <2>2, <2>3, <2>4 DEF InBuffer
<1>20. ASSUME NEW t \in Samplers, SampleFlush(t) PROVE Goal
  <2>1. t \in Threads /\ t # "reader" /\ pc[t] = "flush"
    BY <1>20, ThreadNames DEF SampleFlush, Sampler
  <2>2. buffer' = <<>> /\ main' = main /\ main # "header"
    BY <1>6, <1>20, <2>1 DEF SampleFlush, Sampler, Flush
  <2>3. pc["reader"] # "flush"
    BY <2>1, ThreadNames DEF ControlInv, LockOK
  <2>4. pc'["reader"] # "flush"
    BY <1>7, <1>20, <2>3, ThreadNames DEF SampleFlush, Sampler
  <2>5. QED
    BY <1>3, <2>2, <2>4
<1>21. ASSUME Disk \/ UNCHANGED logVars PROVE Goal
  <2>1. /\ buffer' = buffer /\ main' = main /\ writeHeader' = writeHeader
        /\ pc' = pc /\ line' = line
    BY <1>21 DEF Disk, logVars, threads
  <2>2. QED
    BY <1>4, <2>1
<1>22. Goal
  BY <1>8, <1>9, <1>10, <1>11, <1>12, <1>13, <1>14, <1>15, <1>16, <1>17, <1>18, <1>19, <1>20,
     <1>21 DEF LogNext, Main, ReaderStep, SamplerStep
<1>23. QED
  BY <1>1, <1>22 DEF FileOK

-----------------------------------------------------------------------------
(* The header.                                                             *)

\* Rows without a header, and half a row, leave the header of a file alone.
LEMMA HeaderStays ==
    ASSUME FileOK, HeaderOK(file), NEW k \in 0 .. Len(buffer),
           \A i \in 1 .. Len(buffer) : buffer[i] # Header,
           NEW f \in Handed(k)
    PROVE  HeaderOK(f)
<1> DEFINE rows == SubSeq(buffer, 1, k)
           w == Written(rows)
<1>1. Len(buffer) \in Nat /\ Len(file) \in Nat
  BY DEF FileOK
<1>2. /\ rows \in Seq(Plain) /\ Len(rows) = k
      /\ \A i \in 1 .. k : rows[i] # Header
  BY <1>1, Prefixes DEF FileOK
<1> HIDE DEF rows
<1>3. WrittenOK(rows, k, w)
  BY <1>2, WrittenIs DEF FileOK
<1>4. f = w \/ f = Append(w, Torn)
  BY DEF Handed, rows
<1> HIDE DEF w
<1>5. w \in Seq(Rows) /\ Len(w) \in Nat /\ Len(file) <= Len(w)
  BY <1>3 DEF WrittenOK
<1>6. Header # Torn /\ Header # Garbled /\ Torn \in Rows
  BY Lines
<1>7. 1 \in 1 .. Len(file) /\ file[1] = Header /\ \A i \in 2 .. Len(file) : file[i] # Header
  BY <1>1 DEF HeaderOK, FileOK
<1>8. \A i \in 1 .. Len(file) :
        w[i] = file[i] \/ (i = Len(file) /\ file[i] = Torn /\ w[i] = Garbled)
  BY <1>3 DEF WrittenOK
<1>9. w[1] = Header
  BY <1>6, <1>7, <1>8
<1>10. ASSUME NEW i \in 2 .. Len(w) PROVE w[i] # Header
  <2>1. CASE i <= Len(file)
    BY <1>1, <1>5, <1>6, <1>7, <1>8, <2>1
  <2>2. CASE ~(i <= Len(file))
    <3>1. i \in 1 .. Len(w) /\ i > Len(file)
      BY <1>1, <1>5, <2>2
    <3>2. PICK j \in 1 .. k : w[i] = rows[j]
      BY <1>3, <3>1 DEF WrittenOK
    <3>3. QED
      BY <1>2, <3>2
  <2>3. QED
    BY <2>1, <2>2
<1>11. w # <<>>
  BY <1>1, <1>5, <1>7
<1>12. HeaderOK(w)
  BY <1>9, <1>10, <1>11 DEF HeaderOK
<1>13. HeaderOK(Append(w, Torn))
  <2>1. /\ Len(Append(w, Torn)) = Len(w) + 1 /\ Append(w, Torn)[Len(w) + 1] = Torn
        /\ \A i \in 1 .. Len(w) : Append(w, Torn)[i] = w[i]
        /\ Append(w, Torn) # <<>>
    <3>1. Append(w, Torn) \in Seq(Rows) /\ Len(Append(w, Torn)) = Len(w) + 1
      BY <1>5, <1>6
    <3>2. Append(w, Torn)[Len(w) + 1] = Torn
      BY <1>5
    <3>3. \A i \in 1 .. Len(w) : Append(w, Torn)[i] = w[i]
      BY <1>5
    <3>4. Append(w, Torn) # <<>>
      BY <1>5, <3>1, EmptySeq
    <3>5. QED
      BY <3>1, <3>2, <3>3, <3>4
  <2>2. 1 \in 1 .. Len(w)
    BY <1>1, <1>5, <1>7
  <2>3. ASSUME NEW i \in 2 .. Len(w) + 1 PROVE Append(w, Torn)[i] # Header
    <3>1. i \in 2 .. Len(w) \/ i = Len(w) + 1
      BY <1>5
    <3>2. QED
      BY <1>5, <1>6, <1>10, <2>1, <3>1
  <2>4. QED
    BY <1>9, <2>1, <2>2, <2>3 DEF HeaderOK
<1>14. QED
  BY <1>4, <1>12, <1>13

\* The header alone makes a file that is in order.
LEMMA HeaderAlone ==
    ASSUME file = <<>>
    PROVE  Written(<<Header>>) = <<Header>> /\ HeaderOK(<<Header>>)
<1>1. <<Header>> \in Seq(Plain) /\ Len(<<Header>>) = 1 /\ <<Header>>[1] = Header
  BY Lines
<1>2. file \in Seq(Rows) /\ Len(file) = 0
  OBVIOUS
<1> DEFINE w == Written(<<Header>>)
<1>3. WrittenOK(<<Header>>, 1, w)
  BY <1>1, <1>2, WrittenIs
<1> HIDE DEF w
<1>4. w \in Seq(Rows) /\ Len(w) <= 1 /\ w # <<>>
  BY <1>2, <1>3 DEF WrittenOK
<1>5. Len(w) = 1
  <2>1. Len(w) \in Nat \ {0}
    BY <1>4, EmptySeq
  <2>2. Len(w) <= 1
    BY <1>4
  <2>3. QED
    BY <2>1, <2>2
<1>6. \A k \in 1 .. Len(w) : k > Len(file) => \E j \in 1 .. 1 : w[k] = <<Header>>[j]
  BY <1>3 DEF WrittenOK
<1>7. w[1] = Header
  BY <1>1, <1>2, <1>5, <1>6
<1>8. w = <<Header>>
  BY <1>4, <1>5, <1>7
<1>9. HeaderOK(<<Header>>)
  BY <1>1 DEF HeaderOK
<1>10. QED
  BY <1>8, <1>9 DEF w

\* The header is still owed or in its place, after any step: what is written while it is owed is
\* the header itself, and the threads, which write the rest, wait for it.
LEMMA HeaderStep ==
    ASSUME ControlInv, FileOK, HeaderBuffered, HeaderInv, [LogNext]_logVars
    PROVE  HeaderInv'
<1>1. SUFFICES ASSUME ~cut'
               PROVE  /\ ~exists' => main' = "off" /\ file' = <<>>
                      /\ exists' /\ HeaderOwed' => file' = <<>>
                      /\ exists' /\ ~HeaderOwed' => HeaderOK(file')
  BY DEF HeaderInv, HeaderOK
<1> DEFINE Goal == /\ ~exists' => main' = "off" /\ file' = <<>>
                   /\ exists' /\ HeaderOwed' => file' = <<>>
                   /\ exists' /\ ~HeaderOwed' => HeaderOK(file')
<1>2. \A t \in Threads : pc[t] # "off" => main \notin {"off", "opened", "header"}
  BY DEF ControlInv, Asleep
<1>3. exists \in BOOLEAN /\ writeHeader \in BOOLEAN /\ cut \in BOOLEAN
  BY DEF ControlInv, MainOK
<1>4. ASSUME ~cut PROVE /\ ~exists => main = "off" /\ file = <<>>
                        /\ exists /\ HeaderOwed => file = <<>>
                        /\ exists /\ ~HeaderOwed => HeaderOK(file)
  BY <1>4 DEF HeaderInv
<1>5. ASSUME main # "header", HeaderOK(file) PROVE HeaderOK(file')
  <2>1. \A i \in 1 .. Len(buffer) : buffer[i] # Header
    BY <1>5 DEF HeaderBuffered
  <2>2. CASE file' = file
    BY <1>5, <2>2
  <2>3. ASSUME NEW k \in 0 .. Len(buffer), file' \in Handed(k) PROVE HeaderOK(file')
    BY <1>5, <2>1, <2>3, HeaderStays
  <2>4. QED
    BY <2>2, <2>3, FileChange
<1>6. ASSUME main \notin {"off", "opened", "header"}, main' \notin {"opened", "header"},
             exists' = exists, cut' = cut
      PROVE  Goal
  <2>1. exists /\ ~HeaderOwed /\ ~HeaderOwed'
    BY <1>1, <1>3, <1>4, <1>6 DEF HeaderOwed
  <2>2. HeaderOK(file')
    BY <1>1, <1>4, <1>5, <1>6, <2>1
  <2>3. QED
    BY <1>6, <2>1, <2>2
<1>7. ASSUME file' = file, main' = main, writeHeader' = writeHeader, exists' = exists, cut' = cut
      PROVE  Goal
  <2>1. HeaderOwed' <=> HeaderOwed
    BY <1>7 DEF HeaderOwed
  <2>2. QED
    BY <1>1, <1>4, <1>7, <2>1
<1>8. ASSUME Open PROVE Goal
  <2>1. /\ main = "off" /\ main' = "opened" /\ exists' = TRUE /\ writeHeader' = ~exists
        /\ file' = file /\ cut' = cut
    BY <1>8 DEF Open, NeedsHeader
  <2>2. ~HeaderOwed /\ (HeaderOwed' <=> ~exists)
    BY <2>1 DEF HeaderOwed
  <2>3. QED
    BY <1>1, <1>3, <1>4, <2>1, <2>2
<1>9. ASSUME WriteHeader PROVE Goal
  <2>1. /\ main = "opened" /\ writeHeader /\ main' = "header" /\ writeHeader' = writeHeader
        /\ exists' = exists /\ file' = file /\ cut' = cut
    BY <1>9 DEF WriteHeader
  <2>2. HeaderOwed /\ HeaderOwed'
    BY <2>1 DEF HeaderOwed
  <2>3. QED
    BY <1>1, <1>3, <1>4, <2>1, <2>2
<1>10. ASSUME StartThreads PROVE Goal
  <2>1. main' = "run" /\ exists' = exists /\ cut' = cut /\ main \in {"opened", "header"}
    BY <1>10 DEF StartThreads
  <2>2. exists /\ ~HeaderOwed'
    BY <1>1, <1>4, <2>1 DEF HeaderOwed
  <2>3. CASE main = "opened" /\ ~writeHeader
    <3>1. ~HeaderOwed
      BY <2>3 DEF HeaderOwed
    <3>2. HeaderOK(file')
      BY <1>1, <1>4, <1>5, <2>1, <2>2, <2>3, <3>1
    <3>3. QED
      BY <2>1, <2>2, <3>2
  <2>4. CASE main = "header" /\ Flush
    <3>1. HeaderOwed /\ buffer = <<Header>>
      BY <2>4 DEF HeaderOwed, HeaderBuffered
    <3>2. file = <<>>
      BY <1>1, <1>4, <2>1, <2>2, <3>1
    <3>3. file' = <<Header>> /\ HeaderOK(<<Header>>)
      BY <2>4, <3>1, <3>2, HeaderAlone DEF Flush
    <3>4. QED
      BY <2>1, <2>2, <3>3
  <2>5. QED
    BY <1>10, <2>3, <2>4 DEF StartThreads
<1>11. ASSUME Die PROVE Goal
  <2>1. /\ main' = "off" /\ exists' = exists /\ main \notin {"off", "closed"}
        /\ cut' = (cut \/ (writeHeader /\ main \in {"opened", "header"} /\ file' # <<Header>>))
    BY <1>11 DEF Die, ProcessEnds
  <2>2. ~cut /\ (HeaderOwed => file' = <<Header>>) /\ ~HeaderOwed'
    BY <1>1, <1>3, <2>1 DEF HeaderOwed
  <2>3. exists
    BY <1>3, <1>4, <2>1, <2>2
  <2>4. CASE HeaderOwed
    <3>1. file = <<>> /\ file' = <<Header>>
      BY <1>4, <2>2, <2>3, <2>4
    <3>2. QED
      BY <2>1, <2>2, <2>3, <3>1, HeaderAlone
  <2>5. CASE ~HeaderOwed
    <3>1. main # "header"
      BY <2>5 DEF HeaderOwed, HeaderBuffered
    <3>2. HeaderOK(file')
      BY <1>4, <1>5, <2>2, <2>3, <2>5, <3>1
    <3>3. QED
      BY <2>1, <2>2, <2>3, <3>2
  <2>6. QED
    BY <2>4, <2>5
<1>12. ASSUME Stop \/ Close \/ Return PROVE Goal
  <2>1. /\ main \in {"run", "stopping", "closed"} /\ main' \in {"stopping", "closed", "off"}
        /\ exists' = exists /\ cut' = cut
    BY <1>12 DEF Stop, Close, Return, ProcessEnds
  <2>2. QED
    BY <1>6, <2>1
<1>13. ASSUME Receive \/ ReaderStep \/ ReaderFails PROVE Goal
  <2>1. pc["reader"] # "off" /\ exists' = exists /\ cut' = cut
    BY <1>13 DEF Receive, ReaderStep, ReaderWrite, ReaderFlush, ReaderLog, ReaderFails, Reader
  <2>2. main' = main \/ main' = "stopping"
    BY <1>13 DEF Receive, ReaderStep, ReaderWrite, ReaderFlush, ReaderLog, ReaderFails
  <2>3. QED
    BY <1>2, <1>6, <2>1, <2>2, ThreadNames
<1>14. ASSUME NEW t \in Samplers, Sample(t) \/ SamplerStep(t) PROVE Goal
  <2>1. pc[t] # "off" /\ exists' = exists /\ cut' = cut /\ main' = main
    BY <1>14 DEF Sample, SamplerStep, SampleWrite, SampleFlush, SampleFails, Sampler
  <2>2. QED
    BY <1>2, <1>6, <2>1, ThreadNames
<1>15. ASSUME NEW t \in Samplers, Elapse(t) PROVE Goal
  BY <1>7, <1>15 DEF Elapse
<1>16. ASSUME Disk \/ UNCHANGED logVars PROVE Goal
  <2>1. /\ file' = file /\ main' = main /\ writeHeader' = writeHeader /\ exists' = exists
        /\ cut' = cut
    BY <1>16 DEF Disk, logVars
  <2>2. QED
    BY <1>7, <2>1
<1>17. QED
  BY <1>8, <1>9, <1>10, <1>11, <1>12, <1>13, <1>14, <1>15, <1>16 DEF LogNext, Main

-----------------------------------------------------------------------------
(* What has been shown.                                                    *)

\* The rows and the garbled lines of a file.
RowsOf(f) == {f[i] : i \in 1 .. Len(f)}
GarbledOf(f) == {i \in 1 .. Len(f) : f[i] = Garbled}
\* S is in the file f, but for one line for each garbled one.
Safe(S, f) == Cardinality(S \ RowsOf(f)) <= Cardinality(GarbledOf(f))

\* Lines, and places in a file, can be counted.
LEMMA Finite ==
    ASSUME NEW S \in SUBSET (1 .. MaxLines), NEW f \in Seq(Rows)
    PROVE  /\ IsFiniteSet(S) /\ Cardinality(S) \in Nat
           /\ IsFiniteSet(GarbledOf(f)) /\ Cardinality(GarbledOf(f)) \in Nat
<1>1. MaxLines \in Nat /\ Len(f) \in Nat
  BY Lines
<1>2. IsFiniteSet(1 .. MaxLines) /\ IsFiniteSet(1 .. Len(f))
  BY <1>1, FS_Interval
<1>3. GarbledOf(f) \in SUBSET (1 .. Len(f))
  BY DEF GarbledOf
<1>4. IsFiniteSet(S) /\ IsFiniteSet(GarbledOf(f))
  BY <1>2, <1>3, FS_Subset
<1>5. QED
  BY <1>4, FS_CardinalityType

\* Fewer lines are safe, and a file that has their rows and the garbled lines keeps them safe.
LEMMA SafeStays ==
    ASSUME NEW S \in SUBSET (1 .. MaxLines), NEW T \in SUBSET S,
           NEW f \in Seq(Rows), NEW g \in Seq(Rows), Safe(S, f),
           S \cap RowsOf(f) \subseteq RowsOf(g), GarbledOf(f) \subseteq GarbledOf(g)
    PROVE  Safe(T, g)
<1> DEFINE A == S \ RowsOf(f)
           B == T \ RowsOf(g)
<1>1. B \in SUBSET A /\ A \in SUBSET (1 .. MaxLines) /\ B \in SUBSET (1 .. MaxLines)
  OBVIOUS
<1>2. IsFiniteSet(A) /\ Cardinality(A) \in Nat /\ Cardinality(B) \in Nat
  BY <1>1, Finite
<1>3. Cardinality(B) <= Cardinality(A)
  BY <1>1, <1>2, FS_Subset
<1>4. /\ IsFiniteSet(GarbledOf(g))
      /\ Cardinality(GarbledOf(f)) \in Nat /\ Cardinality(GarbledOf(g)) \in Nat
  BY Finite
<1>5. GarbledOf(f) \in SUBSET GarbledOf(g)
  OBVIOUS
<1>6. Cardinality(GarbledOf(f)) <= Cardinality(GarbledOf(g))
  BY <1>4, <1>5, FS_Subset
<1>7. Cardinality(A) <= Cardinality(GarbledOf(f))
  BY DEF Safe
<1>8. Cardinality(B) <= Cardinality(GarbledOf(g))
  BY <1>2, <1>3, <1>4, <1>6, <1>7
<1>9. QED
  BY <1>8 DEF Safe

\* Half a row at the end is neither a line nor garbled yet.
LEMMA TornSafe ==
    ASSUME NEW S \in SUBSET (1 .. MaxLines), NEW f \in Seq(Rows), Safe(S, f)
    PROVE  Safe(S, Append(f, Torn))
<1>1. Torn \in Rows /\ Len(f) \in Nat
  BY Lines
<1>2. Append(f, Torn) \in Seq(Rows) /\ Len(Append(f, Torn)) = Len(f) + 1
  BY <1>1
<1>3. \A i \in 1 .. Len(f) : Append(f, Torn)[i] = f[i] /\ i \in 1 .. Len(f) + 1
  BY <1>1
<1>4. RowsOf(f) \subseteq RowsOf(Append(f, Torn))
  BY <1>2, <1>3 DEF RowsOf
<1>5. GarbledOf(f) \subseteq GarbledOf(Append(f, Torn))
  BY <1>2, <1>3 DEF GarbledOf
<1>6. QED
  BY <1>2, <1>4, <1>5, SafeStays

\* Writing rows keeps safe what was safe, and makes the lines that it writes safe: when half a
\* row swallows the first of them, one more line is garbled.
LEMMA WritingSafe ==
    ASSUME NEW S \in SUBSET (1 .. MaxLines), file \in Seq(Rows), Safe(S, file),
           NEW rows \in Seq(Plain), NEW T \in SUBSET (1 .. MaxLines),
           \A s \in T : s \in S \/ \E j \in 1 .. Len(rows) : rows[j] = s
    PROVE  Safe(T, Written(rows))
<1> DEFINE w == Written(rows)
<1>1. WrittenOK(rows, Len(rows), w)
  BY WrittenIs
<1> HIDE DEF w
<1>2. Len(rows) \in Nat /\ Len(file) \in Nat
  OBVIOUS
<1>3. w \in Seq(Rows) /\ Len(w) \in Nat /\ Len(file) <= Len(w)
  BY <1>1 DEF WrittenOK
<1>4. \A k \in 1 .. Len(file) : /\ k \in 1 .. Len(w)
                                /\ w[k] = file[k] \/ (file[k] = Torn /\ w[k] = Garbled)
  BY <1>1, <1>2, <1>3 DEF WrittenOK
<1>5. \A s \in 1 .. MaxLines : s \in RowsOf(file) => s \in RowsOf(w)
  BY <1>4, Lines DEF RowsOf
<1>6. GarbledOf(file) \subseteq GarbledOf(w)
  BY <1>4, Lines DEF GarbledOf
<1>7. \A j \in 1 .. Len(rows) : rows[j] \in 1 .. MaxLines =>
        rows[j] \in RowsOf(w) \/ (j = 1 /\ Ragged(file))
  <2>1. \A j \in 1 .. Len(rows) : rows[j] \in 1 .. MaxLines =>
          (\E k \in 1 .. Len(w) : w[k] = rows[j]) \/ (j = 1 /\ Ragged(file))
    BY <1>1 DEF WrittenOK
  <2>2. QED
    BY <2>1 DEF RowsOf
<1> DEFINE A == S \ RowsOf(file)
           B == T \ RowsOf(w)
<1>8. A \in SUBSET (1 .. MaxLines) /\ B \in SUBSET (1 .. MaxLines)
  OBVIOUS
<1>9. IsFiniteSet(A) /\ Cardinality(A) \in Nat /\ Cardinality(B) \in Nat
  BY <1>8, Finite
<1>10. /\ IsFiniteSet(GarbledOf(file)) /\ Cardinality(GarbledOf(file)) \in Nat
       /\ IsFiniteSet(GarbledOf(w)) /\ Cardinality(GarbledOf(w)) \in Nat
  BY <1>3, Finite
<1>11. Cardinality(A) <= Cardinality(GarbledOf(file))
  BY DEF Safe
<1>12. CASE ~(Ragged(file) /\ Len(rows) > 0)
  <2>1. ASSUME NEW s \in B PROVE s \in A
    <3>1. s \in S
      BY <1>2, <1>7, <1>12
    <3>2. QED
      BY <1>5, <3>1
  <2>2. B \in SUBSET A
    BY <2>1
  <2>3. Cardinality(B) <= Cardinality(A)
    BY <1>9, <2>2, FS_Subset
  <2>4. Cardinality(GarbledOf(file)) <= Cardinality(GarbledOf(w))
    BY <1>6, <1>10, FS_Subset
  <2>5. Cardinality(B) <= Cardinality(GarbledOf(w))
    BY <1>9, <1>10, <1>11, <2>3, <2>4
  <2>6. QED
    BY <2>5 DEF Safe, w
<1>13. CASE Ragged(file) /\ Len(rows) > 0
  <2>1. w[Len(file)] = Garbled
    BY <1>1, <1>13 DEF WrittenOK
  <2>2. Len(file) \in 1 .. Len(file) /\ file[Len(file)] = Torn
    BY <1>2, <1>13 DEF Ragged
  <2>3. Len(file) \in GarbledOf(w) /\ Len(file) \notin GarbledOf(file)
    BY <1>4, <2>1, <2>2, Lines DEF GarbledOf
  <2> DEFINE C == A \cup {rows[1]}
             G == GarbledOf(file) \cup {Len(file)}
  <2>4. ASSUME NEW s \in B PROVE s \in C
    BY <1>5, <1>7
  <2>5. B \in SUBSET C
    BY <2>4
  <2>6. /\ IsFiniteSet(C)
        /\ Cardinality(C) = IF rows[1] \in A THEN Cardinality(A) ELSE Cardinality(A) + 1
    BY <1>9, FS_AddElement
  <2>7. Cardinality(B) <= Cardinality(C)
    BY <2>5, <2>6, FS_Subset
  <2>8. Cardinality(G) = Cardinality(GarbledOf(file)) + 1
    BY <1>10, <2>3, FS_AddElement
  <2>9. G \in SUBSET GarbledOf(w)
    BY <1>6, <2>3
  <2>10. Cardinality(G) <= Cardinality(GarbledOf(w))
    BY <1>10, <2>9, FS_Subset
  <2>11. Cardinality(B) <= Cardinality(GarbledOf(w))
    BY <1>9, <1>10, <1>11, <2>6, <2>7, <2>8, <2>10
  <2>12. QED
    BY <2>11 DEF Safe, w
<1>14. QED
  BY <1>12, <1>13

\* What is owed is a set of lines, and grows only by the line that the reader has flushed.
LEMMA OwedStep ==
    ASSUME ControlInv, StatesOK, [LogNext]_logVars
    PROVE  /\ Owed \subseteq 1 .. MaxLines
           /\ Owed' \subseteq Owed \/ (ReaderFlush /\ Owed' \subseteq Owed \cup {line})
<1>1. pc \in [Threads -> {"off", "idle", "write", "flush", "log"}]
  BY DEF ControlInv, ThreadsOK
<1>2. Owed \subseteq 1 .. MaxLines
  BY DEF ControlInv, HasLine, StatesOK, Owed
<1>3. ASSUME published' = published, pc'["reader"] = "log" => pc["reader"] = "log" /\ line' = line
      PROVE  Owed' \subseteq Owed
  BY <1>3 DEF Owed
<1>4. CASE ReaderFlush
  <2>1. published' = published /\ (pc'["reader"] = "log" => line' = line)
    BY <1>1, <1>4, ThreadNames DEF ReaderFlush, Reader
  <2>2. Owed' \subseteq Owed \cup {line}
    BY <2>1 DEF Owed
  <2>3. QED
    BY <1>2, <1>4, <2>2
<1>5. CASE ReaderLog
  <2>1. pc["reader"] = "log" /\ pc'["reader"] = "idle" /\ published' = published \cup {line}
    BY <1>1, <1>5, ThreadNames DEF ReaderLog, Reader
  <2>2. Owed' \subseteq Owed
    BY <2>1 DEF Owed
  <2>3. QED
    BY <1>2, <2>2
<1>6. CASE Receive \/ ReaderWrite \/ ReaderFails
  <2>1. published' = published /\ pc'["reader"] # "log"
    BY <1>1, <1>6, ThreadNames DEF Receive, ReaderWrite, ReaderFails, Reader
  <2>2. QED
    BY <1>2, <1>3, <2>1
<1>7. CASE StartThreads \/ Return \/ Die
  <2>1. published' = published /\ pc'["reader"] # "log"
    BY <1>7, ThreadNames DEF StartThreads, Return, Die, ProcessEnds
  <2>2. QED
    BY <1>2, <1>3, <2>1
<1>8. CASE Stop
  <2>1. /\ published' = published
        /\ pc'["reader"] = "log" => pc["reader"] = "log" /\ line' = line
    BY <1>1, <1>8, ThreadNames DEF Stop, ReaderGone
  <2>2. QED
    BY <1>2, <1>3, <2>1
<1>9. CASE Open \/ WriteHeader \/ Close \/ Disk \/ UNCHANGED logVars
  <2>1. published' = published /\ pc' = pc /\ line' = line
    BY <1>9 DEF Open, WriteHeader, Close, Disk, logVars, threads
  <2>2. QED
    BY <1>2, <1>3, <2>1
<1>10. ASSUME NEW t \in Samplers, Sample(t) \/ SamplerStep(t) \/ Elapse(t)
       PROVE  Owed' \subseteq Owed
  <2>1. published' = published /\ line' = line
    BY <1>10 DEF Sample, SamplerStep, SampleWrite, SampleFlush, SampleFails, Elapse, Sampler
  <2>2. pc'["reader"] = pc["reader"]
    BY <1>1, <1>10, ThreadNames
    DEF Sample, SamplerStep, SampleWrite, SampleFlush, SampleFails, Elapse, Sampler
  <2>3. QED
    BY <1>3, <2>1, <2>2
<1>11. QED
  BY <1>2, <1>4, <1>5, <1>6, <1>7, <1>8, <1>9, <1>10 DEF LogNext, Main, ReaderStep

\* No line that is owed is lost, after any step: only a flush of the reader makes it owe one,
\* which is then in the rows that have been written.
LEMMA LostStep ==
    ASSUME ControlInv, FileOK, FileOK', StatesOK, InBuffer, Lost, [LogNext]_logVars
    PROVE  Lost'
<1>1. /\ Owed \in SUBSET (1 .. MaxLines) /\ file \in Seq(Rows) /\ buffer \in Seq(Plain)
      /\ file' \in Seq(Rows)
  BY OwedStep DEF FileOK
<1>2. Safe(Owed, file)
  BY DEF Lost, Safe, InFile, GarbledLines, RowsOf, GarbledOf
<1>3. SUFFICES Safe(Owed', file')
  BY DEF Lost, Safe, InFile, GarbledLines, RowsOf, GarbledOf
<1>4. CASE Owed' \subseteq Owed
  <2>1. CASE file' = file
    BY <1>1, <1>2, <1>4, <2>1, SafeStays
  <2>2. ASSUME NEW k \in 0 .. Len(buffer), file' \in Handed(k) PROVE Safe(Owed', file')
    <3> DEFINE rows == SubSeq(buffer, 1, k)
    <3>1. rows \in Seq(Plain)
      BY <1>1, Prefixes
    <3>2. file' = Written(rows) \/ file' = Append(Written(rows), Torn)
      BY <2>2 DEF Handed
    <3> HIDE DEF rows
    <3>3. Owed' \in SUBSET (1 .. MaxLines)
      BY <1>1, <1>4
    <3>4. Safe(Owed', Written(rows))
      BY <1>1, <1>2, <1>4, <3>1, <3>3, WritingSafe
    <3>5. Written(rows) \in Seq(Rows)
      BY <1>1, <3>1, WrittenIs DEF WrittenOK
    <3>6. Safe(Owed', Append(Written(rows), Torn))
      BY <3>3, <3>4, <3>5, TornSafe
    <3>7. QED
      BY <3>2, <3>4, <3>6
  <2>3. QED
    BY <2>1, <2>2, FileChange
<1>5. CASE ReaderFlush /\ Owed' \subseteq Owed \cup {line}
  <2>1. pc["reader"] = "flush" /\ main # "closed" /\ file' = Written(buffer)
    BY <1>5 DEF ReaderFlush, Reader, Flush
  <2>2. line \in 1 .. MaxLines
    BY <2>1 DEF ControlInv, HasLine
  <2>3. \E j \in 1 .. Len(buffer) : buffer[j] = line
    BY <2>1 DEF InBuffer
  <2>4. Owed' \in SUBSET (1 .. MaxLines)
    BY <1>1, <1>5, <2>2
  <2>5. \A s \in Owed' : s \in Owed \/ \E j \in 1 .. Len(buffer) : buffer[j] = s
    BY <1>5, <2>3
  <2>6. Safe(Owed', Written(buffer))
    BY <1>1, <1>2, <2>4, <2>5, WritingSafe
  <2>7. QED
    BY <2>1, <2>6
<1>6. QED
  BY <1>4, <1>5, OwedStep

-----------------------------------------------------------------------------
(* The theorems.                                                           *)

\* The invariant holds at the start and after every step.
LEMMA LogInvHolds == LogSpec => []LogInv
<1>1. ASSUME LogInit PROVE LogInv
  <2>1. MaxLines \in Nat /\ MaxLog \in Nat /\ MaxRuns \in Nat
    BY Lines
  <2>2. MainOK
    <3>1. writeHeader \in BOOLEAN /\ exists \in BOOLEAN /\ cut \in BOOLEAN
      BY <1>1, Zenon DEF LogInit
    <3>2. program \in Programs /\ main = "off" /\ due = {} /\ runs = 0
      BY <1>1 DEF LogInit, Programs
    <3>3. QED
      BY <2>1, <3>1, <3>2 DEF MainOK
  <2>3. ThreadsOK
    BY <1>1, <2>1 DEF LogInit, ThreadsOK
  <2>4. LockOK /\ Asleep /\ HasLine /\ InBuffer
    BY <1>1, ThreadNames DEF LogInit, LockOK, Asleep, HasLine, InBuffer
  <2>5. FileOK
    BY <1>1 DEF LogInit, FileOK
  <2>6. StatesOK
    BY <1>1, <2>1 DEF LogInit, StatesOK
  <2>7. HeaderBuffered
    BY <1>1 DEF LogInit, HeaderBuffered
  <2>8. HeaderInv
    BY <1>1 DEF LogInit, HeaderInv, HeaderOwed
  <2>9. Lost
    <3>1. Owed = {} /\ Owed \ InFile = {}
      BY <1>1, ThreadNames DEF LogInit, Owed
    <3>2. GarbledLines = {}
      BY <1>1 DEF LogInit, GarbledLines
    <3>3. QED
      BY <3>1, <3>2, FS_EmptySet DEF Lost
  <2>10. QED
    BY <2>2, <2>3, <2>4, <2>5, <2>6, <2>7, <2>8, <2>9 DEF LogInv, ControlInv
<1>2. ASSUME LogInv, [LogNext]_logVars PROVE LogInv'
  <2>1. ControlInv'
    BY <1>2, ControlStep DEF LogInv
  <2>2. StatesOK'
    BY <1>2, StatesStep DEF LogInv
  <2>3. FileOK' /\ HeaderBuffered' /\ InBuffer'
    BY <1>2, FileStep DEF LogInv
  <2>4. HeaderInv'
    BY <1>2, HeaderStep DEF LogInv
  <2>5. Lost'
    BY <1>2, <2>3, LostStep DEF LogInv
  <2>6. QED
    BY <2>1, <2>2, <2>3, <2>4, <2>5 DEF LogInv
<1>3. QED
  BY <1>1, <1>2, PTL DEF LogSpec

\* Whatever is started, stopped or killed, and however full the disk: the file has its header once
\* and on top, unless a start was killed before it had flushed the header.
THEOREM HeaderOnTop == LogSpec => []LogConsistent
<1>1. ASSUME LogInv PROVE LogConsistent
  <2>1. LogTypeOK
    <3>1. buffer \in Seq(Rows)
      BY <1>1, Lines, SeqMonotonic DEF LogInv, FileOK
    <3>2. QED
      BY <1>1, <3>1
      DEF LogInv, ControlInv, MainOK, ThreadsOK, FileOK, StatesOK, LogTypeOK
  <2>2. HeaderFirst
    <3>1. SUFFICES ASSUME ~cut, file # <<>> PROVE HeaderOK(file)
      BY DEF HeaderFirst, HeaderOK
    <3>2. QED
      BY <1>1, <3>1 DEF LogInv, HeaderInv, ControlInv, MainOK
  <2>3. QED
    BY <2>1, <2>2 DEF LogConsistent
<1>2. QED
  BY <1>1, LogInvHolds, PTL

\* A state that the page could show is in the file, also after kills and with a full disk, but for
\* one line for each garbled one.
THEOREM ShownIsKept == LogSpec => []PublishedKept
<1>1. ASSUME LogInv PROVE PublishedKept
  <2>1. Owed \in SUBSET (1 .. MaxLines) /\ file \in Seq(Rows)
    BY <1>1 DEF LogInv, ControlInv, HasLine, StatesOK, FileOK, Owed
  <2>2. Safe(Owed, file)
    BY <1>1 DEF LogInv, Lost, Safe, InFile, GarbledLines, RowsOf, GarbledOf
  <2>3. published \in SUBSET Owed
    BY DEF Owed
  <2>4. Safe(published, file)
    BY <2>1, <2>2, <2>3, SafeStays
  <2>5. QED
    BY <2>4 DEF PublishedKept, Safe, InFile, GarbledLines, RowsOf, GarbledOf
<1>2. QED
  BY <1>1, LogInvHolds, PTL
=============================================================================
