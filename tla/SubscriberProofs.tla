---------------------------- MODULE SubscriberProofs ---------------------------
(* Theorems about Subscriber for any number of messages and connections, any  *)
(* identifiers, kinds of message and pacing of the stream.                    *)
EXTENDS Subscriber, SequenceTheorems, FiniteSetTheorems, TLAPS

-------------------------------------------------------------------------------
(* Packets and identifiers.                                                  *)

LEMMA CellsProperties ==
  ASSUME NEW m \in 0..N
  PROVE  /\ Cells(m) \in Seq(Cell)
         /\ \A i \in 1..Len(Cells(m)) : Cells(m)[i].m = m
         /\ m = Control => Len(Cells(m)) = 1 /\ Cells(m)[1].part = "all"
         /\ m # Control => /\ Len(Cells(m)) = 3
                           /\ Cells(m)[1].part = "type"
                           /\ Cells(m)[2].part = "names"
                           /\ Cells(m)[3].part = "payload"
  <1>1. \A part \in {"all", "type", "names", "payload"} :
          [m |-> m, part |-> part] \in Cell
    BY DEF Cell
  <1>2. CASE m = Control
    <2>1. Cells(m) = <<[m |-> m, part |-> "all"]>>
      BY <1>2 DEF Cells
    <2>2. Cells(m) \in Seq(Cell) /\ Len(Cells(m)) = 1
      BY <1>1, <2>1
    <2>3. Cells(m)[1] = [m |-> m, part |-> "all"]
      BY <2>1
    <2> QED BY <1>2, <2>2, <2>3
  <1>3. CASE m # Control
    <2>1. Cells(m) = <<[m |-> m, part |-> "type"], [m |-> m, part |-> "names"],
                       [m |-> m, part |-> "payload"]>>
      BY <1>3 DEF Cells
    <2>2. Cells(m) \in Seq(Cell) /\ Len(Cells(m)) = 3
      BY <1>1, <2>1
    <2>3. /\ Cells(m)[1] = [m |-> m, part |-> "type"]
          /\ Cells(m)[2] = [m |-> m, part |-> "names"]
          /\ Cells(m)[3] = [m |-> m, part |-> "payload"]
      BY <2>1
    <2> QED BY <1>3, <2>2, <2>3
  <1> QED BY <1>2, <1>3

LEMMA Words == MaxWord = 65535
  BY DEF MaxWord

LEMMA WordLimit == MaxWord \in Nat
  BY DEF MaxWord

LEMMA IdType ==
  ASSUME NEW m \in Messages
  PROVE  Id(m) \in 0..MaxWord /\ m \in Nat
  <1>1. /\ N \in Nat /\ FirstId \in Nat
        /\ FirstId >= 1 /\ FirstId + N <= MaxWord + 1
    BY SubscriberAssumption, Words
  <1>2. m \in Nat /\ m >= 1 /\ m <= N
    BY <1>1 DEF Messages
  <1>3. Id(m) \in Nat /\ Id(m) <= MaxWord
    BY <1>1, <1>2, Words DEF Id
  <1> QED BY <1>2, <1>3, WordLimit

LEMMA Remainder ==
  ASSUME NEW w \in Nat
  PROVE  w % 256 \in Nat /\ w % 256 < 256
  OBVIOUS

LEMMA ReadWordBound ==
  ASSUME NEW w \in Nat, w <= MaxWord
  PROVE  ReadWord(w) \in Nat /\ ReadWord(w) <= MaxWord
  <1> DEFINE r == w % 256
             v == ReadWord(w)
  <1>1. r \in Nat /\ r < 256
    BY Remainder
  <1>2. v = 65280 + r \/ v = w
    BY DEF ReadWord
  <1> HIDE DEF r, v
  <1>3. v \in Nat /\ v <= MaxWord
    BY <1>1, <1>2, Words
  <1> QED BY <1>3 DEF v

LEMMA ReadWordType ==
  ASSUME NEW w \in 0..MaxWord
  PROVE  ReadWord(w) \in 0..MaxWord
  <1>1. w \in Nat /\ w <= MaxWord
    BY WordLimit
  <1>2. ReadWord(w) \in Nat /\ ReadWord(w) <= MaxWord
    BY <1>1, ReadWordBound
  <1> QED BY <1>2, WordLimit

\* The first element of a queue, and the rest.
LEMMA HeadAndTail ==
  ASSUME NEW S, NEW q \in Seq(S), q # <<>>
  PROVE  /\ Len(q) \in Nat /\ Len(q) >= 1 /\ q[1] \in S /\ Head(q) = q[1]
         /\ Tail(q) \in Seq(S)
         /\ Len(Tail(q)) = Len(q) - 1
         /\ \A i \in 1..Len(q) - 1 : Tail(q)[i] = q[i + 1]
  OBVIOUS

LEMMA Joined ==
  ASSUME NEW S, NEW s \in Seq(S), NEW t \in Seq(S)
  PROVE  /\ s \o t \in Seq(S)
         /\ Len(s \o t) = Len(s) + Len(t)
         /\ \A i \in 1..Len(s) : (s \o t)[i] = s[i]
         /\ \A i \in 1..Len(t) : (s \o t)[Len(s) + i] = t[i]
  OBVIOUS

LEMMA Appended ==
  ASSUME NEW S, NEW s \in Seq(S), NEW e \in S
  PROVE  /\ Append(s, e) \in Seq(S)
         /\ Len(s) \in Nat
         /\ Len(Append(s, e)) = Len(s) + 1
         /\ Append(s, e)[Len(s) + 1] = e
         /\ \A i \in 1..Len(s) : Append(s, e)[i] = s[i]
  OBVIOUS

LEMMA ElementsOf ==
  ASSUME NEW S, NEW T, NEW s \in Seq(S), \A i \in 1..Len(s) : s[i] \in T
  PROVE  s \in Seq(T)
  OBVIOUS

LEMMA Members ==
  ASSUME NEW S, NEW s \in Seq(S)
  PROVE  Len(s) \in Nat /\ \A i \in 1..Len(s) : s[i] \in S
  OBVIOUS

LEMMA MessageRange == N \in Nat /\ Messages \subseteq 0..N /\ Control \in 0..N
  <1>1. N \in Nat
    BY SubscriberAssumption
  <1>2. ASSUME NEW m \in 1..N PROVE m \in 0..N
    BY <1>1, <1>2
  <1> QED BY <1>1, <1>2 DEF Messages, Control

-------------------------------------------------------------------------------
(* The steps that change the stream, in terms of what its cells become.      *)

\* Every step leaves the choices of the behaviour alone.
LEMMA ChoicesKept == [Next]_vars => UNCHANGED choices
  BY DEF Next, vars, Publish, Send, TakeAck, Fail, Breaks, Tick, DropIdle,
         HandlePublish, Reconnect

LEMMA SendShape ==
  ASSUME SubscriberTypeOK, Send
  PROVE  \E h \in 0..N :
            /\ queue # <<>> /\ h = queue[1] /\ Len(queue) \in Nat /\ Len(queue) >= 1
            /\ stream' \in Seq(Cell)
            /\ Len(stream') = Len(stream) + Len(Cells(h))
            /\ \A i \in 1..Len(stream) : stream'[i] = stream[i]
            /\ \A i \in 1..Len(Cells(h)) : stream'[Len(stream) + i] = Cells(h)[i]
            /\ queue' \in Seq(0..N)
            /\ Len(queue') = Len(queue) - 1
            /\ \A i \in 1..Len(queue) - 1 : queue'[i] = queue[i + 1]
  <1>1. queue \in Seq(0..N) /\ stream \in Seq(Cell) /\ queue # <<>>
    BY DEF SubscriberTypeOK, Send
  <1>2. queue[1] \in 0..N /\ Len(queue) \in Nat /\ Len(queue) >= 1 /\ Head(queue) = queue[1]
    BY <1>1, HeadAndTail
  <1>3. Cells(queue[1]) \in Seq(Cell)
    BY <1>2, CellsProperties
  <1>4. stream' = stream \o Cells(queue[1]) /\ queue' = Tail(queue)
    BY <1>2 DEF Send
  <1>5. /\ queue' \in Seq(0..N)
        /\ Len(queue') = Len(queue) - 1
        /\ \A i \in 1..Len(queue) - 1 : queue'[i] = queue[i + 1]
    BY <1>1, <1>4, HeadAndTail
  <1> HIDE DEF Cells
  <1>6. /\ stream' \in Seq(Cell)
        /\ Len(stream') = Len(stream) + Len(Cells(queue[1]))
        /\ \A i \in 1..Len(stream) : stream'[i] = stream[i]
        /\ \A i \in 1..Len(Cells(queue[1])) :
              stream'[Len(stream) + i] = Cells(queue[1])[i]
    BY <1>1, <1>3, <1>4
  <1> QED BY <1>1, <1>2, <1>5, <1>6

LEMMA BreakShape ==
  ASSUME SubscriberTypeOK, NEW how, Breaks(how)
  PROVE  \E n \in 0..Len(stream) :
            /\ n = 0 \/ n \in Cuts
            /\ stream' \in Seq(Cell)
            /\ Len(stream') = n
            /\ \A i \in 1..n : stream'[i] = stream[i]
  <1>1. PICK n \in {0} \cup Cuts : stream' = SubSeq(stream, 1, n)
    BY DEF Breaks
  <1>2. stream \in Seq(Cell) /\ n \in 0..Len(stream)
    BY <1>1 DEF SubscriberTypeOK, Cuts
  <1> QED BY <1>1, <1>2, SubSeqProperties

LEMMA HandleShape ==
  ASSUME SubscriberTypeOK, HandlePublish
  PROVE  \E n \in Cuts :
            /\ n \in 1..Len(stream)
            /\ SubSeq(stream, 1, n) \in Seq(Cell)
            /\ Len(SubSeq(stream, 1, n)) = n
            /\ SubSeq(stream, 1, n)[1] = stream[1]
            /\ stream[1] \in Cell
            /\ Parsed(SubSeq(stream, 1, n))
            /\ stream' \in Seq(Cell)
            /\ Len(stream') = Len(stream) - n
            /\ \A i \in 1..Len(stream) - n : stream'[i] = stream[n + i]
            /\ taken' = taken \cup {stream[i].m : i \in
                          {j \in 1..n : stream[j].part = "payload"}}
  <1>1. PICK n \in Cuts :
            /\ Parsed(SubSeq(stream, 1, n))
            /\ stream' = Received(n)
            /\ taken' = taken \cup {stream[i].m : i \in
                          {j \in 1..n : stream[j].part = "payload"}}
    BY DEF HandlePublish
  <1>2. stream \in Seq(Cell) /\ n \in 1..Len(stream)
    BY DEF SubscriberTypeOK, Cuts
  <1>3. /\ SubSeq(stream, 1, n) \in Seq(Cell)
        /\ Len(SubSeq(stream, 1, n)) = n
        /\ SubSeq(stream, 1, n)[1] = stream[1]
        /\ stream[1] \in Cell
    BY <1>2, SubSeqProperties
  <1>4. /\ SubSeq(stream, n + 1, Len(stream)) \in Seq(Cell)
        /\ Len(SubSeq(stream, n + 1, Len(stream))) = Len(stream) - n
        /\ \A i \in 1..Len(stream) - n :
              SubSeq(stream, n + 1, Len(stream))[i] = stream[n + i]
    <2>1. /\ Len(SubSeq(stream, n + 1, Len(stream))) = Len(stream) - (n + 1) + 1
          /\ \A i \in 1..Len(stream) - (n + 1) + 1 :
                SubSeq(stream, n + 1, Len(stream))[i] = stream[(n + 1) + i - 1]
          /\ SubSeq(stream, n + 1, Len(stream)) \in Seq(Cell)
      BY <1>2, SubSeqProperties
    <2> QED BY <1>2, <2>1
  <1> QED BY <1>1, <1>2, <1>3, <1>4 DEF Received

LEMMA ReconnectShape ==
  ASSUME SubscriberTypeOK, Reconnect
  PROVE  \E s \in Seq(pending) :
            /\ \A i, j \in 1..Len(s) : i < j => s[i] < s[j]
            /\ queue' \in Seq(0..N)
            /\ Len(queue') = Len(s) + 2
            /\ queue'[1] = Control /\ queue'[2] = Control
            /\ \A i \in 1..Len(s) : s[i] \in pending /\ queue'[2 + i] = s[i]
            /\ \A m \in pending : \E i \in 1..Len(s) : s[i] = m
  <1>1. PICK s \in Backlogs : queue' = <<Control, Control>> \o s
    BY DEF Reconnect
  <1>2. pending \subseteq Messages /\ N \in Nat
    BY MessageRange DEF SubscriberTypeOK
  <1>3. Cardinality(pending) \in Nat /\ IsFiniteSet(pending)
    <2>1. IsFiniteSet(1..N)
      BY <1>2, FS_Interval
    <2>2. IsFiniteSet(pending)
      BY <1>2, <2>1, FS_Subset DEF Messages
    <2> QED BY <2>2, FS_CardinalityType
  <1>4. /\ s \in [1..Cardinality(pending) -> pending]
        /\ \A i, j \in DOMAIN s : i < j => s[i] < s[j]
    BY <1>1 DEF Backlogs
  <1>5. s \in Seq(pending) /\ DOMAIN s = 1..Len(s) /\ Len(s) \in Nat
    BY <1>3, <1>4
  <1>6. \A i \in 1..Len(s) : s[i] \in pending
    BY <1>4, <1>5
  <1> DEFINE head == <<Control, Control>>
  <1>7. /\ head \in Seq(0..N) /\ Len(head) = 2
        /\ head[1] = Control /\ head[2] = Control
    BY MessageRange
  <1>8. s \in Seq(0..N)
    <2>1. \A i \in 1..Len(s) : s[i] \in 0..N
      BY <1>2, <1>6, MessageRange
    <2> QED BY <1>5, <2>1, ElementsOf
  <1>9. queue' = head \o s
    BY <1>1
  <1> HIDE DEF head
  <1>10. /\ queue' \in Seq(0..N) /\ Len(queue') = Len(head) + Len(s)
         /\ \A i \in 1..Len(head) : queue'[i] = head[i]
         /\ \A i \in 1..Len(s) : queue'[Len(head) + i] = s[i]
    <2> DEFINE P == 0..N
    <2>1. head \in Seq(P) /\ s \in Seq(P)
      BY <1>7, <1>8
    <2> HIDE DEF P
    <2>2. /\ queue' \in Seq(P) /\ Len(queue') = Len(head) + Len(s)
          /\ \A i \in 1..Len(head) : queue'[i] = head[i]
          /\ \A i \in 1..Len(s) : queue'[Len(head) + i] = s[i]
      BY <1>9, <2>1, Joined
    <2> QED BY <2>2 DEF P
  <1>11. /\ Len(queue') = Len(s) + 2
         /\ queue'[1] = Control /\ queue'[2] = Control
         /\ \A i \in 1..Len(s) : s[i] \in pending /\ queue'[2 + i] = s[i]
    BY <1>5, <1>6, <1>7, <1>10
  <1>12. \A i, j \in 1..Len(s) : i < j => s[i] < s[j]
    BY <1>4, <1>5
  <1>13. \A m \in pending : \E i \in 1..Len(s) : s[i] = m
    <2> DEFINE D == 1..Cardinality(pending)
    <2>1. \A i, j \in D : s[i] = s[j] => i = j
      <3> SUFFICES ASSUME NEW i \in D, NEW j \in D, i < j PROVE s[i] # s[j]
        BY <1>3
      <3>1. s[i] < s[j] /\ s[i] \in pending /\ s[j] \in pending
        BY <1>4
      <3>2. s[i] \in Messages /\ s[j] \in Messages
        BY <1>2, <3>1
      <3>3. \A m \in Messages : m \in Nat
        BY MessageRange DEF Messages
      <3> QED BY <3>1, <3>2, <3>3
    <2>2. Cardinality(D) = Cardinality(pending)
      BY <1>3, FS_Interval
    <2> HIDE DEF D
    <2>3. s \in Injection(D, pending)
      BY <1>4, <2>1 DEF Injection, IsInjective, D
    <2>4. s \in Surjection(D, pending)
      BY <1>3, <2>2, <2>3, FS_Injection
    <2>5. \A m \in pending : \E i \in D : s[i] = m
      BY <2>4 DEF Surjection
    <2>6. D = DOMAIN s
      BY <1>4 DEF D
    <2> QED BY <1>5, <2>5, <2>6
  <1> QED BY <1>5, <1>10, <1>11, <1>12, <1>13

-------------------------------------------------------------------------------
(* What handle_publish makes of a segment.                                   *)

LEMMA ParsedCases ==
  ASSUME NEW s \in Seq(Cell), Len(s) >= 1, Parsed(s)
  PROVE  \/ s[1].part = "all" /\ Ignored
         \/ s[1].part \in {"names", "payload"} /\ (Ignored \/ Misread({0, 1, 2}))
         \/ s[1].part = "type" /\ Len(s) = 1 /\ Misread({kind[s[1].m].qos})
         \/ s[1].part = "type" /\ Len(s) > 1 /\ ~Fits(kind[s[1].m]) /\ Overrun
         \/ s[1].part = "type" /\ Len(s) > 1 /\ Fits(kind[s[1].m]) /\ Shown(s)
  <1>1. s[1] \in Cell /\ Len(s) \in Nat
    OBVIOUS
  <1>2. s[1].part \in {"all", "type", "names", "payload"}
    BY <1>1 DEF Cell
  <1>3. CASE s[1].part = "all"
    BY <1>3 DEF Parsed
  <1>4. CASE s[1].part \in {"names", "payload"}
    BY <1>4 DEF Parsed
  <1>5. CASE s[1].part = "type" /\ Len(s) = 1
    BY <1>5 DEF Parsed
  <1>6. CASE s[1].part = "type" /\ Len(s) > 1
    <2>1. IF Fits(kind[s[1].m]) THEN Shown(s) ELSE Overrun
      BY <1>1, <1>6 DEF Parsed
    <2> QED BY <1>6, <2>1
  <1>7. Len(s) = 1 \/ Len(s) > 1
    <2> DEFINE n == Len(s)
    <2>1. n \in Nat /\ n >= 1
      BY <1>1
    <2> HIDE DEF n
    <2>2. n = 1 \/ n > 1
      BY <2>1
    <2> QED BY <2>2 DEF n
  <1> QED BY <1>2, <1>3, <1>4, <1>5, <1>6, <1>7

\* What becomes of one identifier.
Answered(id) ==
    \/ /\ link = "up" /\ acks' = Append(acks, id)
       /\ UNCHANGED <<loop, unsent>>
    \/ /\ unsent' = unsent \cup {id} /\ loop' \in {loop, "killed"}
       /\ UNCHANGED acks

LEMMA AcknowledgeOutcome ==
  ASSUME NEW id, Acknowledge(id)
  PROVE  Answered(id)
  BY DEF Acknowledge, NotAcknowledged, Answered

\* What one recv may leave of the variables of the client.
Handled ==
    /\ loop' \in {loop, "overrun", "killed"}
    /\ acks' = acks \/ \E w \in 0..MaxWord : acks' = Append(acks, w)
    /\ unsent' = unsent \/ \E w \in 0..MaxWord : unsent' = unsent \cup {w}
    /\ shown' = shown \/ \E m \in Messages : shown' = shown \cup {m}
    /\ order' = order \/ \E m \in Messages : order' = Append(order, m)

LEMMA BufferOutcome ==
  ASSUME SubscriberTypeOK, ShowsTheBuffer
  PROVE  /\ shown' = shown
         /\ order' = order \/ \E m \in Messages : order' = Append(order, m)
  <1>1. shown \subseteq Messages
    BY DEF SubscriberTypeOK
  <1> QED BY <1>1 DEF ShowsTheBuffer

LEMMA MisreadOutcome ==
  ASSUME SubscriberTypeOK, NEW qualities, Misread(qualities)
  PROVE  Handled
  <1>1. 0 \in 0..MaxWord
    BY WordLimit
  <1>2. \A m \in 0..N : (IF m = 0 THEN 0 ELSE Id(m)) \in 0..MaxWord
    BY <1>1, IdType, SubscriberAssumption DEF Messages
  <1>3. CASE Overrun
    BY <1>3 DEF Overrun, Handled
  <1>4. CASE ShowsTheBuffer /\ Unacknowledged
    BY <1>4, BufferOutcome DEF Unacknowledged, Handled
  <1>5. ASSUME ShowsTheBuffer, NEW w \in 0..MaxWord, Acknowledge(w)
        PROVE  Handled
    <2>1. Answered(w)
      BY <1>5, AcknowledgeOutcome
    <2> QED BY <1>5, <2>1, BufferOutcome DEF Answered, Handled
  <1> QED BY <1>2, <1>3, <1>4, <1>5 DEF Misread

\* A PUBLISH that is whole, or cut behind its identifier.
LEMMA ShownOutcome ==
  ASSUME SubscriberTypeOK, NEW s \in Seq(Cell), Len(s) >= 1, Shown(s)
  PROVE  /\ IF kind[s[1].m].qos = 1 THEN Answered(ReadWord(Id(s[1].m)))
                                    ELSE UNCHANGED <<acks, unsent, loop>>
         /\ \/ ShowsTheBuffer /\ Len(s) < 3
            \/ /\ shown' = shown \cup {s[1].m}
               /\ order' = Append(order, s[1].m)
               /\ Len(s) >= 3
  <1>1. Len(s) \in Nat
    OBVIOUS
  <1> QED BY <1>1, AcknowledgeOutcome DEF Shown, Unacknowledged

\* Only packets of the connection's start have no message.
Named == \A i \in 1..Len(stream) : stream[i].part # "all" => stream[i].m # Control

LEMMA NamedMessage ==
  ASSUME SubscriberTypeOK, Named, NEW i \in 1..Len(stream), stream[i].part # "all"
  PROVE  stream[i].m \in Messages
  <1>1. stream[i] \in Cell /\ stream[i].m # 0
    BY DEF SubscriberTypeOK, Named, Control
  <1>2. stream[i].m \in 0..N
    BY <1>1 DEF Cell
  <1> QED BY <1>1, <1>2, MessageRange DEF Messages

LEMMA HandleOutcome ==
  ASSUME SubscriberTypeOK, Named, HandlePublish
  PROVE  Handled
  <1>1. PICK n \in 1..Len(stream) :
            /\ SubSeq(stream, 1, n) \in Seq(Cell)
            /\ Len(SubSeq(stream, 1, n)) = n
            /\ SubSeq(stream, 1, n)[1] = stream[1]
            /\ Parsed(SubSeq(stream, 1, n))
    BY HandleShape
  <1> DEFINE s == SubSeq(stream, 1, n)
  <1>2. /\ Len(s) >= 1
        /\ Len(stream) \in Nat /\ Len(stream) >= 1 /\ 1 \in 1..Len(stream)
    <2>1. Len(stream) \in Nat /\ n \in Nat /\ n >= 1 /\ n <= Len(stream)
      BY DEF SubscriberTypeOK
    <2> QED BY <1>1, <2>1
  <1>3. stream[1].part # "all" => s[1].m \in Messages
    BY <1>1, <1>2, NamedMessage
  <1> HIDE DEF s
  <1>4. s \in Seq(Cell) /\ Parsed(s) /\ s[1] = stream[1]
    BY <1>1 DEF s
  <1>5. CASE Ignored
    BY <1>5 DEF Ignored, Handled
  <1>6. CASE Overrun
    BY <1>6 DEF Overrun, Handled
  <1>7. ASSUME NEW qualities, Misread(qualities)
        PROVE  Handled
    BY <1>7, MisreadOutcome
  <1>8. CASE s[1].part = "type" /\ Shown(s)
    <2> DEFINE m == s[1].m
    <2>1. m \in Messages /\ ReadWord(Id(m)) \in 0..MaxWord
      BY <1>3, <1>4, <1>8, IdType, ReadWordType
    <2>2. /\ Answered(ReadWord(Id(m))) \/ UNCHANGED <<acks, unsent, loop>>
          /\ \/ ShowsTheBuffer
             \/ shown' = shown \cup {m} /\ order' = Append(order, m)
      BY <1>2, <1>4, <1>8, ShownOutcome
    <2> HIDE DEF m
    <2>3. /\ loop' \in {loop, "killed"}
          /\ acks' = acks \/ \E w \in 0..MaxWord : acks' = Append(acks, w)
          /\ unsent' = unsent \/ \E w \in 0..MaxWord : unsent' = unsent \cup {w}
      BY <2>1, <2>2 DEF Answered
    <2>4. /\ shown' = shown \/ \E k \in Messages : shown' = shown \cup {k}
          /\ order' = order \/ \E k \in Messages : order' = Append(order, k)
      BY <2>1, <2>2, BufferOutcome
    <2> QED BY <2>3, <2>4 DEF Handled
  <1> QED BY <1>2, <1>4, <1>5, <1>6, <1>7, <1>8, ParsedCases

-------------------------------------------------------------------------------
(* Type correctness.  That connects stays within its bound needs a part on   *)
(* the broken connections: only one that may be replaced breaks.             *)

CanReconnect == link # "up" => connects < MaxConnects

TypeInv == SubscriberTypeOK /\ Named /\ CanReconnect

LEMMA AcksType ==
  ASSUME SubscriberTypeOK,
         acks' = acks \/ \E w \in 0..MaxWord : acks' = Append(acks, w)
  PROVE  acks' \in Seq(0..MaxWord)
  <1>1. acks \in Seq(0..MaxWord)
    BY DEF SubscriberTypeOK
  <1> DEFINE W == 0..MaxWord
  <1> HIDE DEF W
  <1>2. \A w \in W : acks \in Seq(W) => Append(acks, w) \in Seq(W)
    OBVIOUS
  <1> QED BY <1>1, <1>2 DEF W

\* The actions that change neither the stream nor the queue nor what is shown.
LEMMA TypeOfTheRest ==
  ASSUME TypeInv, TakeAck \/ Tick
  PROVE  TypeInv'
  <1> USE DEF TypeInv, SubscriberTypeOK, Named, CanReconnect, choices, clientVars,
              brokerVars
  <1>1. CASE TakeAck
    <2>1. acks \in Seq(0..MaxWord) /\ acks # <<>> /\ acks' = Tail(acks)
      BY <1>1 DEF TakeAck
    <2>2. acks' \in Seq(0..MaxWord)
      BY <2>1, HeadAndTail
    <2>3. pending' \subseteq Messages
      BY <1>1 DEF TakeAck
    <2> QED BY <1>1, <2>2, <2>3 DEF TakeAck
  <1>2. CASE Tick
    <2>1. idle' \in 0..2
      BY <1>2 DEF Tick
    <2> QED BY <1>2, <2>1 DEF Tick
  <1> QED BY <1>1, <1>2

LEMMA TypeAfterBreak ==
  ASSUME TypeInv, NEW how \in {"closed", "dropped"}, Breaks(how)
  PROVE  TypeInv'
  <1>0. SubscriberTypeOK /\ Named /\ CanReconnect
    BY DEF TypeInv
  <1> USE DEF TypeInv, SubscriberTypeOK, CanReconnect, choices, clientVars, brokerVars
  <1>1. PICK n \in 0..Len(stream) :
          /\ stream' \in Seq(Cell) /\ Len(stream') = n
          /\ \A i \in 1..n : stream'[i] = stream[i]
    BY <1>0, BreakShape
  <1>2. Named'
    <2> SUFFICES ASSUME NEW i \in 1..Len(stream'), stream'[i].part # "all"
                 PROVE  stream'[i].m # Control
      BY DEF Named
    <2>1. Len(stream) \in Nat
      OBVIOUS
    <2>2. stream'[i] = stream[i] /\ i \in 1..Len(stream)
      BY <1>1, <2>1
    <2> QED BY <1>0, <2>2 DEF Named
  <1>3. /\ link' \in Links /\ queue' = <<>> /\ acks' = <<>>
        /\ connects < MaxConnects
    BY DEF Breaks, Links
  <1> QED BY <1>1, <1>2, <1>3 DEF Breaks

LEMMA TypeStep == TypeInv /\ [Next]_vars => TypeInv'
  <1> SUFFICES ASSUME TypeInv, [Next]_vars PROVE TypeInv'
    OBVIOUS
  <1>0. SubscriberTypeOK /\ Named /\ CanReconnect
    BY DEF TypeInv
  <1> USE DEF TypeInv, SubscriberTypeOK, CanReconnect, choices, clientVars, brokerVars
  <1>1. CASE UNCHANGED vars
    BY <1>1 DEF vars, Named
  <1>2. CASE Publish
    <2>1. published + 1 \in Messages /\ published' = published + 1
      BY <1>2, MessageRange DEF Publish, Messages
    <2>2. published' \in 0..N /\ published + 1 \in 0..N
      BY <2>1, MessageRange
    <2>3. queue' = queue \/ queue' = Append(queue, published + 1)
      BY <1>2 DEF Publish
    <2>4. queue' \in Seq(0..N)
      <3>1. queue \in Seq(0..N)
        OBVIOUS
      <3>2. Append(queue, published + 1) \in Seq(0..N)
        BY <2>2, <3>1, Appended
      <3> QED BY <2>3, <3>1, <3>2
    <2>5. pending' \subseteq Messages
      BY <1>2, <2>1 DEF Publish
    <2> QED BY <1>2, <2>2, <2>4, <2>5 DEF Publish, Named
  <1>3. CASE Send
    <2>1. PICK h \in 0..N :
            /\ stream' \in Seq(Cell)
            /\ Len(stream') = Len(stream) + Len(Cells(h))
            /\ \A i \in 1..Len(stream) : stream'[i] = stream[i]
            /\ \A i \in 1..Len(Cells(h)) : stream'[Len(stream) + i] = Cells(h)[i]
            /\ queue' \in Seq(0..N)
      BY <1>0, <1>3, SendShape
    <2>2. ASSUME NEW i \in 1..Len(stream'), stream'[i].part # "all"
          PROVE  stream'[i].m # Control
      <3>1. /\ Len(stream) \in Nat /\ Len(Cells(h)) \in Nat
            /\ \A k \in 1..Len(Cells(h)) : Cells(h)[k].m = h
            /\ h = Control => Len(Cells(h)) = 1 /\ Cells(h)[1].part = "all"
        BY CellsProperties
      <3>2. CASE i <= Len(stream)
        BY <2>1, <2>2, <3>1, <3>2 DEF Named
      <3>3. CASE i > Len(stream)
        <4>1. PICK k \in 1..Len(Cells(h)) : i = Len(stream) + k
          <5>1. i - Len(stream) \in 1..Len(Cells(h))
            BY <2>1, <3>1, <3>3
          <5> QED BY <3>1, <5>1
        <4>2. stream'[i] = Cells(h)[k]
          BY <2>1, <4>1
        <4> QED BY <2>2, <3>1, <4>1, <4>2
      <3> QED BY <2>1, <3>1, <3>2, <3>3
    <2> QED BY <1>3, <2>1, <2>2 DEF Send, Named
  <1>4. CASE Fail \/ DropIdle
    BY <1>0, <1>4, TypeAfterBreak DEF Fail, DropIdle
  <1>5. CASE HandlePublish
    <2>1. PICK n \in 1..Len(stream) :
            /\ stream' \in Seq(Cell)
            /\ Len(stream') = Len(stream) - n
            /\ \A i \in 1..Len(stream) - n : stream'[i] = stream[n + i]
            /\ taken' = taken \cup {stream[i].m : i \in
                          {j \in 1..n : stream[j].part = "payload"}}
      BY <1>0, <1>5, HandleShape
    <2>2. Len(stream) \in Nat
      OBVIOUS
    <2>3. Named'
      <3> SUFFICES ASSUME NEW i \in 1..Len(stream'), stream'[i].part # "all"
                   PROVE  stream'[i].m # Control
        BY DEF Named
      <3>1. stream'[i] = stream[n + i] /\ n + i \in 1..Len(stream)
        BY <2>1, <2>2
      <3> QED BY <1>0, <3>1 DEF Named
    <2>4. \A j \in 1..n : stream[j].part = "payload" => stream[j].m \in Messages
      BY <1>0, <2>2, NamedMessage
    <2>5. taken' \subseteq Messages
      BY <2>1, <2>4
    <2>6. acks' \in Seq(0..MaxWord)
      BY <1>0, <1>5, HandleOutcome, AcksType DEF Handled
    <2>7. /\ loop' \in Loops /\ unsent' \subseteq 0..MaxWord
          /\ shown' \subseteq Messages /\ order' \in Seq(Messages)
      <3>1. order \in Seq(Messages) /\ shown \subseteq Messages
        OBVIOUS
      <3>2. \A m \in Messages : Append(order, m) \in Seq(Messages)
        BY <3>1, Appended
      <3>3. Handled
        BY <1>0, <1>5, HandleOutcome
      <3>4. order' \in Seq(Messages) /\ shown' \subseteq Messages
        BY <3>1, <3>2, <3>3 DEF Handled
      <3>5. loop' \in Loops
        BY <3>3 DEF Handled, Loops
      <3>6. unsent' \subseteq 0..MaxWord
        <4> DEFINE W == 0..MaxWord
        <4>1. unsent \subseteq W
          OBVIOUS
        <4>2. unsent' = unsent \/ \E w \in W : unsent' = unsent \cup {w}
          BY <3>3 DEF Handled
        <4> HIDE DEF W
        <4>3. unsent' \subseteq W
          BY <4>1, <4>2
        <4> QED BY <4>3 DEF W
      <3> QED BY <3>4, <3>5, <3>6
    <2> QED BY <1>0, <1>5, <2>1, <2>3, <2>5, <2>6, <2>7 DEF HandlePublish
  <1>6. CASE Reconnect
    <2>1. queue' \in Seq(0..N)
      BY <1>0, <1>6, ReconnectShape
    <2>2. connects' \in 1..MaxConnects /\ connects' = connects + 1
      BY <1>0, <1>6, SubscriberAssumption DEF Reconnect
    <2>3. link' \in Links /\ order' = <<>> /\ unsent' = {}
      BY <1>6 DEF Reconnect, Links
    <2> QED BY <1>0, <1>6, <2>1, <2>2, <2>3 DEF Reconnect, Named
  <1> QED
    BY <1>1, <1>2, <1>3, <1>4, <1>5, <1>6, TypeOfTheRest
    DEF Next

LEMMA TypeInit == Init => TypeInv
  <1> SUFFICES ASSUME Init PROVE TypeInv
    OBVIOUS
  <1>1. queue \in Seq(0..N)
    BY MessageRange DEF Init
  <1>2. connects \in 1..MaxConnects /\ published \in 0..N
    BY SubscriberAssumption DEF Init
  <1> QED BY <1>1, <1>2
    DEF Init, TypeInv, SubscriberTypeOK, Named, CanReconnect, Links, Loops

\* Messages, cells, identifiers and the number of connections stay within
\* their types, whatever is cut and lost.
THEOREM SubscriberTypeCorrect == Spec => []SubscriberTypeOK
  <1>1. TypeInv => SubscriberTypeOK
    BY DEF TypeInv
  <1> QED BY <1>1, TypeInit, TypeStep, PTL DEF Spec

LEMMA Lengths ==
  ASSUME SubscriberTypeOK
  PROVE  /\ Len(stream) \in Nat /\ Len(queue) \in Nat /\ Len(order) \in Nat
         /\ Len(acks) \in Nat /\ published \in Nat
         /\ \A i \in 1..Len(stream) : stream[i].m \in Nat
         /\ \A i \in 1..Len(queue) : queue[i] \in Nat
         /\ \A i \in 1..Len(order) : order[i] \in Nat
  <1>1. /\ stream \in Seq(Cell) /\ queue \in Seq(0..N) /\ order \in Seq(Messages)
        /\ acks \in Seq(0..MaxWord) /\ published \in 0..N
    BY DEF SubscriberTypeOK
  <1>2. \A i \in 1..Len(stream) : stream[i].m \in 0..N
    <2>1. \A i \in 1..Len(stream) : stream[i] \in Cell
      BY <1>1, Members
    <2> QED BY <2>1 DEF Cell
  <1>3. Len(queue) \in Nat /\ \A i \in 1..Len(queue) : queue[i] \in 0..N
    BY <1>1, Members
  <1>5. Len(order) \in Nat /\ \A i \in 1..Len(order) : order[i] \in Messages
    BY <1>1, Members
  <1>6. Len(stream) \in Nat /\ Len(acks) \in Nat
    BY <1>1, Members
  <1>4. (\A n \in 0..N : n \in Nat) /\ (\A n \in Messages : n \in Nat)
    BY MessageRange DEF Messages
  <1>7. published \in Nat
    BY <1>1, <1>4
  <1>8. \A i \in 1..Len(stream) : stream[i].m \in Nat
    BY <1>2, <1>4
  <1>9. /\ \A i \in 1..Len(queue) : queue[i] \in Nat
        /\ \A i \in 1..Len(order) : order[i] \in Nat
    BY <1>3, <1>4, <1>5
  <1> QED BY <1>3, <1>5, <1>6, <1>7, <1>8, <1>9

-------------------------------------------------------------------------------
(* As long as no packet is cut, the stream is a row of whole packets, and    *)
(* recv returns whole packets: handle_publish finds the first byte of a      *)
(* packet where it looks for one.                                            *)

Row(s) ==
    \A i \in 1..Len(s) :
        /\ s[i].part = "type" =>
              /\ i + 2 \in 1..Len(s)
              /\ s[i + 1].part = "names" /\ s[i + 2].part = "payload"
        /\ s[i].part = "names" => i - 1 \in 1..Len(s) /\ s[i - 1].part = "type"
        /\ s[i].part = "payload" => i - 1 \in 1..Len(s) /\ s[i - 1].part = "names"

Whole == pacing # "split" => Row(stream)

WholeInv == TypeInv /\ Whole

LEMMA RowOfOne ==
  ASSUME NEW m \in 0..N
  PROVE  Row(Cells(m))
  <1>1. CASE m = Control
    <2>1. Len(Cells(m)) = 1 /\ Cells(m)[1].part = "all"
      BY <1>1, CellsProperties
    <2>2. \A i \in 1..1 : i = 1
      OBVIOUS
    <2> QED BY <2>1, <2>2 DEF Row
  <1>2. CASE m # Control
    <2> DEFINE c == Cells(m)
    <2>1. /\ Len(c) = 3 /\ c[1].part = "type" /\ c[2].part = "names"
          /\ c[3].part = "payload"
      BY <1>2, CellsProperties
    <2> HIDE DEF c
    <2>2. \A i \in 1..3 : i = 1 \/ i = 2 \/ i = 3
      OBVIOUS
    <2>3. Row(c)
      <3> SUFFICES ASSUME NEW i \in 1..3
                   PROVE  /\ c[i].part = "type" =>
                               /\ i + 2 \in 1..3
                               /\ c[i + 1].part = "names" /\ c[i + 2].part = "payload"
                          /\ c[i].part = "names" =>
                               i - 1 \in 1..3 /\ c[i - 1].part = "type"
                          /\ c[i].part = "payload" =>
                               i - 1 \in 1..3 /\ c[i - 1].part = "names"
        BY <2>1 DEF Row
      <3>1. CASE i = 1
        BY <2>1, <3>1
      <3>2. CASE i = 2
        BY <2>1, <3>2
      <3>3. CASE i = 3
        BY <2>1, <3>3
      <3> QED BY <2>2, <3>1, <3>2, <3>3
    <2> QED BY <2>3 DEF c
  <1> QED BY <1>1, <1>2

LEMMA RowsJoined ==
  ASSUME NEW s, NEW t, NEW u, Len(s) \in Nat, Len(t) \in Nat,
         Row(s), Row(t),
         Len(u) = Len(s) + Len(t),
         \A i \in 1..Len(s) : u[i] = s[i],
         \A i \in 1..Len(t) : u[Len(s) + i] = t[i]
  PROVE  Row(u)
  <1> SUFFICES ASSUME NEW i \in 1..Len(u)
               PROVE  /\ u[i].part = "type" =>
                           /\ i + 2 \in 1..Len(u)
                           /\ u[i + 1].part = "names" /\ u[i + 2].part = "payload"
                      /\ u[i].part = "names" =>
                           i - 1 \in 1..Len(u) /\ u[i - 1].part = "type"
                      /\ u[i].part = "payload" =>
                           i - 1 \in 1..Len(u) /\ u[i - 1].part = "names"
    BY DEF Row
  <1>1. CASE i \in 1..Len(s)
    <2>1. u[i] = s[i]
      BY <1>1
    <2>2. ASSUME u[i].part = "type"
          PROVE  /\ i + 2 \in 1..Len(u)
                 /\ u[i + 1].part = "names" /\ u[i + 2].part = "payload"
      <3>1. /\ i + 2 \in 1..Len(s)
            /\ s[i + 1].part = "names" /\ s[i + 2].part = "payload"
        BY <1>1, <2>1, <2>2 DEF Row
      <3>2. i + 1 \in 1..Len(s) /\ i + 2 \in 1..Len(u)
        BY <1>1, <3>1
      <3> QED BY <3>1, <3>2
    <2>3. ASSUME u[i].part = "names"
          PROVE  i - 1 \in 1..Len(u) /\ u[i - 1].part = "type"
      <3>1. i - 1 \in 1..Len(s) /\ s[i - 1].part = "type"
        BY <1>1, <2>1, <2>3 DEF Row
      <3>2. i - 1 \in 1..Len(u)
        BY <3>1
      <3> QED BY <3>1, <3>2
    <2>4. ASSUME u[i].part = "payload"
          PROVE  i - 1 \in 1..Len(u) /\ u[i - 1].part = "names"
      <3>1. i - 1 \in 1..Len(s) /\ s[i - 1].part = "names"
        BY <1>1, <2>1, <2>4 DEF Row
      <3>2. i - 1 \in 1..Len(u)
        BY <3>1
      <3> QED BY <3>1, <3>2
    <2> QED BY <2>2, <2>3, <2>4
  <1>2. CASE i \notin 1..Len(s)
    <2>1. PICK k \in 1..Len(t) : i = Len(s) + k
      <3>1. i - Len(s) \in 1..Len(t) /\ i = Len(s) + (i - Len(s))
        BY <1>2
      <3> QED BY <3>1
    <2>2. u[i] = t[k]
      BY <2>1
    <2>3. ASSUME u[i].part = "type"
          PROVE  /\ i + 2 \in 1..Len(u)
                 /\ u[i + 1].part = "names" /\ u[i + 2].part = "payload"
      <3>1. /\ k + 2 \in 1..Len(t)
            /\ t[k + 1].part = "names" /\ t[k + 2].part = "payload"
        BY <2>1, <2>2, <2>3 DEF Row
      <3>2. /\ k + 1 \in 1..Len(t)
            /\ i + 1 = Len(s) + (k + 1) /\ i + 2 = Len(s) + (k + 2)
            /\ i + 2 \in 1..Len(u)
        BY <2>1, <3>1
      <3> QED BY <3>1, <3>2
    <2>4. ASSUME u[i].part = "names"
          PROVE  i - 1 \in 1..Len(u) /\ u[i - 1].part = "type"
      <3>1. k - 1 \in 1..Len(t) /\ t[k - 1].part = "type"
        BY <2>1, <2>2, <2>4 DEF Row
      <3>2. i - 1 = Len(s) + (k - 1) /\ i - 1 \in 1..Len(u)
        BY <2>1, <3>1
      <3> QED BY <3>1, <3>2
    <2>5. ASSUME u[i].part = "payload"
          PROVE  i - 1 \in 1..Len(u) /\ u[i - 1].part = "names"
      <3>1. k - 1 \in 1..Len(t) /\ t[k - 1].part = "names"
        BY <2>1, <2>2, <2>5 DEF Row
      <3>2. i - 1 = Len(s) + (k - 1) /\ i - 1 \in 1..Len(u)
        BY <2>1, <3>1
      <3> QED BY <3>1, <3>2
    <2> QED BY <2>3, <2>4, <2>5
  <1> QED BY <1>1, <1>2

\* Where a row is cut behind a packet, both parts are rows.
LEMMA RowBefore ==
  ASSUME NEW s, NEW n \in 1..Len(s), NEW u, Len(s) \in Nat,
         Row(s), s[n].part \in {"all", "payload"},
         Len(u) = n, \A i \in 1..n : u[i] = s[i]
  PROVE  Row(u)
  <1> SUFFICES ASSUME NEW i \in 1..n
               PROVE  /\ u[i].part = "type" =>
                           /\ i + 2 \in 1..n
                           /\ u[i + 1].part = "names" /\ u[i + 2].part = "payload"
                      /\ u[i].part = "names" =>
                           i - 1 \in 1..n /\ u[i - 1].part = "type"
                      /\ u[i].part = "payload" =>
                           i - 1 \in 1..n /\ u[i - 1].part = "names"
    BY DEF Row
  <1>1. i \in 1..Len(s) /\ u[i] = s[i]
    OBVIOUS
  <1>2. ASSUME u[i].part = "type"
        PROVE  /\ i + 2 \in 1..n
               /\ u[i + 1].part = "names" /\ u[i + 2].part = "payload"
    <2>1. /\ i + 2 \in 1..Len(s) /\ s[i].part = "type"
          /\ s[i + 1].part = "names" /\ s[i + 2].part = "payload"
      BY <1>1, <1>2 DEF Row
    <2>2. i # n /\ i + 1 # n
      BY <2>1
    <2>3. i + 2 \in 1..n /\ i + 1 \in 1..n
      BY <2>1, <2>2
    <2> QED BY <2>1, <2>3
  <1>3. ASSUME u[i].part = "names"
        PROVE  i - 1 \in 1..n /\ u[i - 1].part = "type"
    <2>1. i - 1 \in 1..Len(s) /\ s[i - 1].part = "type"
      BY <1>1, <1>3 DEF Row
    <2>2. i - 1 \in 1..n
      BY <2>1
    <2> QED BY <2>1, <2>2
  <1>4. ASSUME u[i].part = "payload"
        PROVE  i - 1 \in 1..n /\ u[i - 1].part = "names"
    <2>1. i - 1 \in 1..Len(s) /\ s[i - 1].part = "names"
      BY <1>1, <1>4 DEF Row
    <2>2. i - 1 \in 1..n
      BY <2>1
    <2> QED BY <2>1, <2>2
  <1> QED BY <1>2, <1>3, <1>4

LEMMA RowAfter ==
  ASSUME NEW s, NEW n \in 1..Len(s), NEW u, Len(s) \in Nat,
         Row(s), s[n].part \in {"all", "payload"},
         Len(u) = Len(s) - n, \A i \in 1..Len(s) - n : u[i] = s[n + i]
  PROVE  Row(u)
  <1> SUFFICES ASSUME NEW i \in 1..Len(s) - n
               PROVE  /\ u[i].part = "type" =>
                           /\ i + 2 \in 1..Len(s) - n
                           /\ u[i + 1].part = "names" /\ u[i + 2].part = "payload"
                      /\ u[i].part = "names" =>
                           i - 1 \in 1..Len(s) - n /\ u[i - 1].part = "type"
                      /\ u[i].part = "payload" =>
                           i - 1 \in 1..Len(s) - n /\ u[i - 1].part = "names"
    BY DEF Row
  <1>1. PICK k \in 1..Len(s) : k = n + i /\ u[i] = s[k]
    <2>1. n + i \in 1..Len(s) /\ u[i] = s[n + i]
      OBVIOUS
    <2> QED BY <2>1
  <1>2. ASSUME u[i].part = "type"
        PROVE  /\ i + 2 \in 1..Len(s) - n
               /\ u[i + 1].part = "names" /\ u[i + 2].part = "payload"
    <2>1. /\ k + 2 \in 1..Len(s)
          /\ s[k + 1].part = "names" /\ s[k + 2].part = "payload"
      BY <1>1, <1>2 DEF Row
    <2>2. /\ i + 2 \in 1..Len(s) - n /\ i + 1 \in 1..Len(s) - n
          /\ k + 1 = n + (i + 1) /\ k + 2 = n + (i + 2)
      BY <1>1, <2>1
    <2> QED BY <2>1, <2>2
  <1>3. ASSUME u[i].part = "names"
        PROVE  i - 1 \in 1..Len(s) - n /\ u[i - 1].part = "type"
    <2>1. k - 1 \in 1..Len(s) /\ s[k - 1].part = "type"
      BY <1>1, <1>3 DEF Row
    <2>2. k - 1 # n
      BY <2>1
    <2>3. i - 1 \in 1..Len(s) - n /\ k - 1 = n + (i - 1)
      BY <1>1, <2>2
    <2> QED BY <2>1, <2>3
  <1>4. ASSUME u[i].part = "payload"
        PROVE  i - 1 \in 1..Len(s) - n /\ u[i - 1].part = "names"
    <2>1. k - 1 \in 1..Len(s) /\ s[k - 1].part = "names"
      BY <1>1, <1>4 DEF Row
    <2>2. k - 1 # n
      BY <2>1
    <2>3. i - 1 \in 1..Len(s) - n /\ k - 1 = n + (i - 1)
      BY <1>1, <2>2
    <2> QED BY <2>1, <2>3
  <1> QED BY <1>2, <1>3, <1>4

\* A whole packet was shown.
ShownWhole(m) ==
    /\ shown' = shown \cup {m} /\ order' = Append(order, m)
    /\ IF kind[m].qos = 1 THEN Answered(ReadWord(Id(m)))
                          ELSE UNCHANGED <<acks, unsent, loop>>

LEMMA WholeAcks ==
  ASSUME NEW m, ShownWhole(m)
  PROVE  /\ loop' \in {loop, "killed"}
         /\ acks' = acks \/ acks' = Append(acks, ReadWord(Id(m)))
  BY DEF ShownWhole, Answered

\* What one recv and handle_publish do as long as no packet is cut.
LEMMA HandleWhole ==
  ASSUME SubscriberTypeOK, Named, Row(stream), pacing # "split", HandlePublish
  PROVE  \E n \in 1..Len(stream) :
            /\ stream[n].part \in {"all", "payload"}
            /\ Len(stream') = Len(stream) - n
            /\ \A i \in 1..Len(stream) - n : stream'[i] = stream[n + i]
            /\ taken' = taken \cup {stream[i].m : i \in
                          {j \in 1..n : stream[j].part = "payload"}}
            /\ \/ stream[1].part = "all" /\ Ignored
               \/ /\ stream[1].part = "type" /\ n >= 3 /\ stream[1].m \in Messages
                  /\ ~Fits(kind[stream[1].m]) /\ Overrun
               \/ /\ stream[1].part = "type" /\ n >= 3 /\ stream[1].m \in Messages
                  /\ ShownWhole(stream[1].m)
  <1>1. PICK n \in 1..Len(stream) :
            /\ n \in Cuts
            /\ SubSeq(stream, 1, n) \in Seq(Cell)
            /\ Len(SubSeq(stream, 1, n)) = n
            /\ SubSeq(stream, 1, n)[1] = stream[1]
            /\ stream[1] \in Cell
            /\ Parsed(SubSeq(stream, 1, n))
            /\ Len(stream') = Len(stream) - n
            /\ \A i \in 1..Len(stream) - n : stream'[i] = stream[n + i]
            /\ taken' = taken \cup {stream[i].m : i \in
                          {j \in 1..n : stream[j].part = "payload"}}
    BY HandleShape
  <1>2. stream[n].part \in {"all", "payload"}
    BY <1>1 DEF Cuts
  <1>3. /\ Len(stream) \in Nat /\ 1 \in 1..Len(stream)
        /\ n \in Nat /\ n >= 1
    <2>1. Len(stream) \in Nat
      BY Lengths
    <2> QED BY <2>1
  <1>4. stream[1].part \notin {"names", "payload"}
    BY <1>3 DEF Row
  <1>5. stream[1].part = "type" => n >= 3 /\ stream[1].m \in Messages
    <2>1. stream[1].part = "type" => stream[2].part = "names"
      BY <1>3 DEF Row
    <2>2. stream[1].part = "type" => n # 1 /\ n # 2
      BY <1>2, <2>1
    <2> QED BY <1>3, <2>2, NamedMessage
  <1> DEFINE s == SubSeq(stream, 1, n)
  <1>6. s \in Seq(Cell) /\ Len(s) = n /\ Parsed(s) /\ s[1] = stream[1]
    BY <1>1
  <1> HIDE DEF s
  <1>7. \/ s[1].part = "all" /\ Ignored
        \/ s[1].part = "type" /\ ~Fits(kind[s[1].m]) /\ Overrun
        \/ s[1].part = "type" /\ Shown(s)
    <2>1. Len(s) >= 1 /\ (s[1].part = "type" => Len(s) # 1)
      BY <1>3, <1>5, <1>6
    <2> QED BY <1>4, <1>6, <2>1, ParsedCases
  <1>8. CASE s[1].part = "type" /\ Shown(s)
    <2>1. stream[1].part = "type" /\ n >= 3 /\ stream[1].m \in Messages
      BY <1>5, <1>6, <1>8
    <2>2. /\ IF kind[s[1].m].qos = 1 THEN Answered(ReadWord(Id(s[1].m)))
                                     ELSE UNCHANGED <<acks, unsent, loop>>
          /\ \/ Len(s) < 3
             \/ shown' = shown \cup {s[1].m} /\ order' = Append(order, s[1].m)
      BY <1>3, <1>6, <1>8, ShownOutcome
    <2>3. ShownWhole(stream[1].m)
      <3>1. ~(Len(s) < 3)
        BY <1>3, <1>6, <2>1
      <3> QED BY <1>6, <2>2, <3>1 DEF ShownWhole
    <2> QED BY <1>1, <1>2, <2>1, <2>3
  <1> QED BY <1>1, <1>2, <1>5, <1>6, <1>7, <1>8

LEMMA WholeStep == WholeInv /\ [Next]_vars => WholeInv'
  <1> SUFFICES ASSUME WholeInv, [Next]_vars PROVE WholeInv'
    OBVIOUS
  <1>0. /\ TypeInv /\ TypeInv' /\ SubscriberTypeOK /\ Named
        /\ Len(stream) \in Nat /\ pacing' = pacing
    <2>1. TypeInv /\ TypeInv'
      BY TypeStep DEF WholeInv
    <2>2. SubscriberTypeOK /\ Named
      BY <2>1 DEF TypeInv
    <2> QED BY <2>1, <2>2, Lengths, ChoicesKept DEF choices
  <1> SUFFICES ASSUME pacing # "split", Row(stream) PROVE Row(stream')
    BY <1>0 DEF WholeInv, Whole
  <1>1. CASE stream' = stream
    BY <1>1
  <1>2. CASE Send
    <2>1. PICK h \in 0..N :
            /\ Len(stream') = Len(stream) + Len(Cells(h))
            /\ \A i \in 1..Len(stream) : stream'[i] = stream[i]
            /\ \A i \in 1..Len(Cells(h)) : stream'[Len(stream) + i] = Cells(h)[i]
      BY <1>0, <1>2, SendShape
    <2> DEFINE c == Cells(h)
    <2>2. Row(c) /\ Len(c) \in Nat
      BY RowOfOne, CellsProperties
    <2>3. /\ Len(stream') = Len(stream) + Len(c)
          /\ \A i \in 1..Len(c) : stream'[Len(stream) + i] = c[i]
      BY <2>1
    <2> HIDE DEF c
    <2> QED BY <1>0, <2>1, <2>2, <2>3, RowsJoined
  <1>3. ASSUME NEW how, Breaks(how) PROVE Row(stream')
    <2>1. PICK n \in 0..Len(stream) :
            /\ n = 0 \/ n \in Cuts
            /\ Len(stream') = n
            /\ \A i \in 1..n : stream'[i] = stream[i]
      BY <1>0, <1>3, BreakShape
    <2>2. CASE n = 0
      BY <2>1, <2>2 DEF Row
    <2>3. CASE n \in Cuts
      <3>1. n \in 1..Len(stream) /\ stream[n].part \in {"all", "payload"}
        BY <2>3 DEF Cuts
      <3> QED BY <1>0, <2>1, <3>1, RowBefore
    <2> QED BY <2>1, <2>2, <2>3
  <1>4. CASE HandlePublish
    <2>1. PICK n \in 1..Len(stream) :
            /\ stream[n].part \in {"all", "payload"}
            /\ Len(stream') = Len(stream) - n
            /\ \A i \in 1..Len(stream) - n : stream'[i] = stream[n + i]
      BY <1>0, <1>4, HandleWhole
    <2> QED BY <1>0, <2>1, RowAfter
  <1>5. Publish \/ TakeAck \/ Tick \/ Reconnect \/ UNCHANGED vars => stream' = stream
    BY DEF Publish, TakeAck, Tick, Reconnect, vars
  <1> QED BY <1>1, <1>2, <1>3, <1>4, <1>5 DEF Next, Fail, DropIdle

LEMMA WholeInit == Init => WholeInv
  BY TypeInit DEF Init, WholeInv, Whole, Row

-------------------------------------------------------------------------------
(* Order.  As long as no packet is cut, what is shown is in order because    *)
(* the stream and the queue behind it hold later messages only, each in      *)
(* order, and nothing is in them that was not published.                     *)

\* Message m has not been reached on this connection.
Ahead(m) == \A j \in 1..Len(order) : order[j] < m

InPublished ==
    /\ \A i \in 1..Len(stream) : stream[i].m <= published
    /\ \A i \in 1..Len(queue) : queue[i] <= published
    /\ \A i \in 1..Len(order) : order[i] <= published
    /\ pending \subseteq 1..published

StreamAscends ==
    /\ \A i \in 1..Len(stream) : stream[i].part = "type" => Ahead(stream[i].m)
    /\ \A i, j \in 1..Len(stream) :
          i < j /\ stream[i].part = "type" /\ stream[j].part = "type"
             => stream[i].m < stream[j].m

QueueAscends ==
    /\ link # "up" => queue = <<>>
    /\ \A i \in 1..Len(queue) : queue[i] # Control => Ahead(queue[i])
    /\ \A i, j \in 1..Len(queue) :
          i < j /\ queue[i] # Control /\ queue[j] # Control => queue[i] < queue[j]
    /\ \A i \in 1..Len(stream), j \in 1..Len(queue) :
          stream[i].part = "type" /\ queue[j] # Control => stream[i].m < queue[j]

OrderAscends == \A i, j \in 1..Len(order) : i < j => order[i] < order[j]

OrderInv ==
    /\ TypeInv
    /\ InPublished
    /\ StreamAscends
    /\ QueueAscends
    /\ OrderAscends

LEMMA OrderAfterPublish == OrderInv /\ Publish => OrderInv'
  <1> SUFFICES ASSUME OrderInv, Publish PROVE OrderInv'
    OBVIOUS
  <1>0. /\ SubscriberTypeOK /\ InPublished /\ StreamAscends /\ QueueAscends
        /\ OrderAscends
    BY DEF OrderInv, TypeInv
  <1>1. TypeInv'
    BY TypeStep DEF OrderInv, Next
  <1>2. /\ published' = published + 1
        /\ UNCHANGED <<stream, order, link>>
        /\ pending' \subseteq pending \cup {published + 1}
        /\ \/ queue' = queue
           \/ link = "up" /\ queue' = Append(queue, published + 1)
    BY DEF Publish, clientVars
  <1>3. /\ Len(stream) \in Nat /\ Len(queue) \in Nat /\ Len(order) \in Nat
        /\ published \in Nat
        /\ \A i \in 1..Len(stream) : stream[i].m \in Nat
        /\ \A i \in 1..Len(queue) : queue[i] \in Nat
        /\ \A i \in 1..Len(order) : order[i] \in Nat
    BY <1>0, Lengths
  <1>4. OrderAscends' /\ StreamAscends'
    BY <1>0, <1>2 DEF OrderAscends, StreamAscends, Ahead
  <1>5. CASE queue' = queue
    <2>1. QueueAscends'
      BY <1>0, <1>2, <1>5 DEF QueueAscends, Ahead
    <2>2. InPublished'
      BY <1>0, <1>2, <1>3, <1>5 DEF InPublished
    <2> QED BY <1>1, <1>4, <2>1, <2>2 DEF OrderInv
  <1>6. CASE link = "up" /\ queue' = Append(queue, published + 1)
    <2>1. queue \in Seq(Nat) /\ published + 1 \in Nat
      <3>1. queue \in Seq(0..N)
        BY <1>0 DEF SubscriberTypeOK
      <3> QED BY <1>3, <3>1, ElementsOf
    <2>2. /\ Len(queue') = Len(queue) + 1
          /\ queue'[Len(queue) + 1] = published + 1
          /\ \A i \in 1..Len(queue) : queue'[i] = queue[i]
      BY <1>6, <2>1, Appended
    <2>3. \A i \in 1..Len(queue') : i \in 1..Len(queue) \/ i = Len(queue) + 1
      BY <1>3, <2>2
    <2>4. InPublished'
      <3>1. /\ \A i \in 1..Len(stream) : stream[i].m <= published + 1
            /\ \A i \in 1..Len(order) : order[i] <= published + 1
        BY <1>0, <1>3 DEF InPublished
      <3>2. \A i \in 1..Len(queue) : queue[i] <= published + 1
        BY <1>0, <1>3 DEF InPublished
      <3>3. ASSUME NEW i \in 1..Len(queue') PROVE queue'[i] <= published + 1
        <4>1. CASE i \in 1..Len(queue)
          BY <2>2, <3>2, <4>1
        <4>2. CASE i = Len(queue) + 1
          BY <1>3, <2>2, <4>2
        <4> QED BY <2>3, <4>1, <4>2
      <3>4. pending' \subseteq 1..(published + 1)
        BY <1>0, <1>2, <1>3 DEF InPublished
      <3> QED BY <1>2, <3>1, <3>3, <3>4 DEF InPublished
    <2>5. /\ Ahead(published + 1)
          /\ \A i \in 1..Len(stream) : stream[i].m < published + 1
          /\ \A i \in 1..Len(queue) : queue[i] < published + 1
      BY <1>0, <1>3 DEF InPublished, Ahead
    <2>6. QueueAscends'
      <3>1. \A i \in 1..Len(queue') : queue'[i] # Control => Ahead(queue'[i])
        BY <1>0, <2>2, <2>3, <2>5 DEF QueueAscends
      <3>2. ASSUME NEW i \in 1..Len(queue'), NEW j \in 1..Len(queue'), i < j,
                   queue'[i] # Control, queue'[j] # Control
            PROVE  queue'[i] < queue'[j]
        <4>1. i \in 1..Len(queue) /\ queue'[i] = queue[i]
          <5>1. i # Len(queue) + 1
            BY <1>3, <2>2, <3>2
          <5> QED BY <2>2, <2>3, <5>1
        <4>2. CASE j \in 1..Len(queue)
          <5>1. queue'[j] = queue[j]
            BY <2>2, <4>2
          <5> QED BY <1>0, <3>2, <4>1, <4>2, <5>1 DEF QueueAscends
        <4>3. CASE j = Len(queue) + 1
          BY <2>2, <2>5, <4>1, <4>3
        <4> QED BY <2>3, <4>2, <4>3
      <3>3. \A i \in 1..Len(stream), j \in 1..Len(queue') :
              stream[i].part = "type" /\ queue'[j] # Control
                 => stream[i].m < queue'[j]
        BY <1>0, <2>2, <2>3, <2>5 DEF QueueAscends
      <3> QED BY <1>2, <1>6, <3>1, <3>2, <3>3 DEF QueueAscends, Ahead
    <2> QED BY <1>1, <1>4, <2>4, <2>6 DEF OrderInv
  <1> QED BY <1>2, <1>5, <1>6

LEMMA OrderAfterSend == OrderInv /\ Send => OrderInv'
  <1> SUFFICES ASSUME OrderInv, Send PROVE OrderInv'
    OBVIOUS
  <1>0. /\ SubscriberTypeOK /\ InPublished /\ StreamAscends /\ QueueAscends
        /\ OrderAscends
    BY DEF OrderInv, TypeInv
  <1>1. TypeInv'
    BY TypeStep DEF OrderInv, Next
  <1>2. PICK h \in 0..N :
          /\ h = queue[1] /\ Len(queue) >= 1
          /\ Len(stream') = Len(stream) + Len(Cells(h))
          /\ \A i \in 1..Len(stream) : stream'[i] = stream[i]
          /\ \A i \in 1..Len(Cells(h)) : stream'[Len(stream) + i] = Cells(h)[i]
          /\ Len(queue') = Len(queue) - 1
          /\ \A i \in 1..Len(queue) - 1 : queue'[i] = queue[i + 1]
    <2>1. \A q : Len(q) \in Nat \ {0} => Len(q) >= 1
      OBVIOUS
    <2> QED BY <1>0, <2>1, SendShape
  <1>3. UNCHANGED <<order, published, pending, link>> /\ link = "up"
    BY DEF Send, clientVars
  <1>4. /\ Len(stream) \in Nat /\ Len(queue) \in Nat /\ Len(order) \in Nat
        /\ published \in Nat
        /\ \A i \in 1..Len(stream) : stream[i].m \in Nat
        /\ \A i \in 1..Len(queue) : queue[i] \in Nat
    BY <1>0, Lengths
  <1>5. /\ Len(Cells(h)) \in Nat /\ Len(Cells(h)) >= 1
        /\ \A k \in 1..Len(Cells(h)) :
              /\ Cells(h)[k].m = h
              /\ Cells(h)[k].part = "type" => k = 1 /\ h # Control
    <2>1. \A k \in 1..3 : k = 1 \/ k = 2 \/ k = 3
      OBVIOUS
    <2>2. \A k \in 1..1 : k = 1
      OBVIOUS
    <2> QED BY <2>1, <2>2, CellsProperties
  <1>6. ASSUME NEW i \in 1..Len(stream')
        PROVE  \/ i \in 1..Len(stream) /\ stream'[i] = stream[i]
               \/ /\ i > Len(stream)
                  /\ stream'[i].m = queue[1]
                  /\ stream'[i].part = "type" =>
                       i = Len(stream) + 1 /\ queue[1] # Control
    <2>1. CASE i <= Len(stream)
      BY <1>2, <1>4, <2>1
    <2>2. CASE i > Len(stream)
      <3> DEFINE k == i - Len(stream)
      <3>1. k \in 1..Len(Cells(h)) /\ i = Len(stream) + k
        BY <1>2, <1>4, <1>5, <2>2
      <3> HIDE DEF k
      <3>2. stream'[i] = Cells(h)[k]
        BY <1>2, <3>1
      <3> QED BY <1>2, <1>5, <2>2, <3>1, <3>2
    <2> QED BY <1>4, <1>5, <1>2, <2>1, <2>2
  <1>7. /\ Len(queue') \in Nat /\ 1 \in 1..Len(queue)
        /\ \A j \in 1..Len(queue') :
              /\ j + 1 \in 1..Len(queue) /\ 1 < j + 1
              /\ queue'[j] = queue[j + 1]
    BY <1>2, <1>4
  <1>8. OrderAscends'
    BY <1>0, <1>3 DEF OrderAscends
  <1>9. InPublished'
    <2>1. \A i \in 1..Len(stream') : stream'[i].m <= published
      BY <1>0, <1>6, <1>7 DEF InPublished
    <2> QED BY <1>0, <1>3, <1>7, <2>1 DEF InPublished
  <1>10. StreamAscends'
    <2>1. \A i \in 1..Len(stream') : stream'[i].part = "type" => Ahead(stream'[i].m)
      BY <1>0, <1>6, <1>7 DEF StreamAscends, QueueAscends
    <2>2. ASSUME NEW i \in 1..Len(stream'), NEW j \in 1..Len(stream'), i < j,
                 stream'[i].part = "type", stream'[j].part = "type"
          PROVE  stream'[i].m < stream'[j].m
      <3>1. i \in 1..Len(stream) /\ stream'[i] = stream[i]
        <4>1. CASE i > Len(stream)
          <5>1. i = Len(stream) + 1 /\ j = Len(stream) + 1
            BY <1>4, <1>6, <2>2, <4>1
          <5> QED BY <2>2, <5>1
        <4> QED BY <1>6, <4>1
      <3>2. CASE j \in 1..Len(stream) /\ stream'[j] = stream[j]
        BY <1>0, <2>2, <3>1, <3>2 DEF StreamAscends
      <3>3. CASE stream'[j].m = queue[1] /\ queue[1] # Control
        BY <1>0, <1>7, <2>2, <3>1, <3>3 DEF QueueAscends
      <3> QED BY <1>6, <2>2, <3>2, <3>3
    <2> QED BY <1>3, <2>1, <2>2 DEF StreamAscends, Ahead
  <1>11. QueueAscends'
    <2>1. \A i \in 1..Len(queue') : queue'[i] # Control => Ahead(queue'[i])
      BY <1>0, <1>7 DEF QueueAscends
    <2>2. ASSUME NEW i \in 1..Len(queue'), NEW j \in 1..Len(queue'), i < j,
                 queue'[i] # Control, queue'[j] # Control
          PROVE  queue'[i] < queue'[j]
      <3>1. i + 1 < j + 1
        BY <2>2
      <3> QED BY <1>0, <1>7, <2>2, <3>1 DEF QueueAscends
    <2>3. ASSUME NEW i \in 1..Len(stream'), NEW j \in 1..Len(queue'),
                 stream'[i].part = "type", queue'[j] # Control
          PROVE  stream'[i].m < queue'[j]
      <3>1. CASE i \in 1..Len(stream) /\ stream'[i] = stream[i]
        BY <1>0, <1>7, <2>3, <3>1 DEF QueueAscends
      <3>2. CASE stream'[i].m = queue[1] /\ queue[1] # Control
        BY <1>0, <1>7, <2>3, <3>2 DEF QueueAscends
      <3> QED BY <1>6, <2>3, <3>1, <3>2
    <2> QED BY <1>3, <2>1, <2>2, <2>3 DEF QueueAscends, Ahead
  <1> QED BY <1>1, <1>8, <1>9, <1>10, <1>11 DEF OrderInv

LEMMA OrderAfterBreak ==
  ASSUME OrderInv, NEW how \in {"closed", "dropped"}, Breaks(how)
  PROVE  OrderInv'
  <1>0. /\ SubscriberTypeOK /\ InPublished /\ StreamAscends /\ OrderAscends
    BY DEF OrderInv, TypeInv
  <1>1. TypeInv'
    BY TypeAfterBreak DEF OrderInv
  <1>2. PICK n \in 0..Len(stream) :
          /\ Len(stream') = n
          /\ \A i \in 1..n : stream'[i] = stream[i]
    BY <1>0, BreakShape
  <1>3. UNCHANGED <<order, published, pending>> /\ queue' = <<>>
    BY DEF Breaks, clientVars
  <1>4. Len(stream) \in Nat
    BY <1>0, Lengths
  <1>5. \A i \in 1..Len(stream') : i \in 1..Len(stream) /\ stream'[i] = stream[i]
    BY <1>2, <1>4
  <1>6. \A i \in 1..Len(queue') : FALSE
    BY <1>3
  <1>7. OrderAscends'
    BY <1>0, <1>3 DEF OrderAscends
  <1>8. InPublished'
    BY <1>0, <1>3, <1>5, <1>6 DEF InPublished
  <1>9. StreamAscends'
    BY <1>0, <1>3, <1>5 DEF StreamAscends, Ahead
  <1>10. QueueAscends'
    BY <1>3, <1>6 DEF QueueAscends
  <1> QED BY <1>1, <1>7, <1>8, <1>9, <1>10 DEF OrderInv

LEMMA OrderAfterHandle ==
  ASSUME pacing # "split", WholeInv, OrderInv, HandlePublish
  PROVE  OrderInv'
  <1>0. /\ SubscriberTypeOK /\ Named /\ InPublished /\ StreamAscends
        /\ QueueAscends /\ OrderAscends
    BY DEF OrderInv, TypeInv
  <1>1. TypeInv'
    BY TypeStep DEF OrderInv, Next
  <1>2. PICK n \in 1..Len(stream) :
          /\ Len(stream') = Len(stream) - n
          /\ \A i \in 1..Len(stream) - n : stream'[i] = stream[n + i]
    BY <1>0, HandleShape
  <1>3. UNCHANGED <<queue, published, pending, link>>
    BY DEF HandlePublish, brokerVars
  <1>4. /\ Len(stream) \in Nat /\ Len(queue) \in Nat /\ Len(order) \in Nat
        /\ published \in Nat
        /\ \A i \in 1..Len(stream) : stream[i].m \in Nat
        /\ \A i \in 1..Len(queue) : queue[i] \in Nat
        /\ \A i \in 1..Len(order) : order[i] \in Nat
    BY <1>0, Lengths
  <1>5. /\ 1 \in 1..Len(stream)
        /\ \A i \in 1..Len(stream') :
              /\ n + i \in 1..Len(stream) /\ 1 < n + i
              /\ stream'[i] = stream[n + i]
    BY <1>2, <1>4
  <1>6. \A i, j \in 1..Len(stream') : i < j => n + i < n + j
    BY <1>2, <1>4
  <1>7. /\ \A i, j \in 1..Len(stream') :
              i < j /\ stream'[i].part = "type" /\ stream'[j].part = "type"
                 => stream'[i].m < stream'[j].m
        /\ \A i \in 1..Len(stream'), j \in 1..Len(queue') :
              stream'[i].part = "type" /\ queue'[j] # Control
                 => stream'[i].m < queue'[j]
        /\ \A i \in 1..Len(stream') : stream'[i].m <= published
    <2>1. ASSUME NEW i \in 1..Len(stream'), NEW j \in 1..Len(stream'), i < j,
                 stream'[i].part = "type", stream'[j].part = "type"
          PROVE  stream'[i].m < stream'[j].m
      BY <1>0, <1>5, <1>6, <2>1 DEF StreamAscends
    <2>2. ASSUME NEW i \in 1..Len(stream'), NEW j \in 1..Len(queue'),
                 stream'[i].part = "type", queue'[j] # Control
          PROVE  stream'[i].m < queue'[j]
      BY <1>0, <1>3, <1>5, <2>2 DEF QueueAscends
    <2>3. \A i \in 1..Len(stream') : stream'[i].m <= published
      BY <1>0, <1>5 DEF InPublished
    <2> QED BY <2>1, <2>2, <2>3
  <1>8. CASE order' = order
    <2>1. OrderAscends'
      BY <1>0, <1>8 DEF OrderAscends
    <2>2. InPublished'
      BY <1>0, <1>3, <1>7, <1>8 DEF InPublished
    <2>3. StreamAscends'
      BY <1>0, <1>5, <1>7, <1>8 DEF StreamAscends, Ahead
    <2>4. QueueAscends'
      BY <1>0, <1>3, <1>7, <1>8 DEF QueueAscends, Ahead
    <2> QED BY <1>1, <2>1, <2>2, <2>3, <2>4 DEF OrderInv
  <1>9. CASE /\ stream[1].part = "type" /\ stream[1].m \in Messages
             /\ order' = Append(order, stream[1].m)
    <2>1. order \in Seq(Messages)
      BY <1>0 DEF SubscriberTypeOK
    <2>2. /\ Len(order') = Len(order) + 1
          /\ order'[Len(order) + 1] = stream[1].m
          /\ \A i \in 1..Len(order) : order'[i] = order[i]
      BY <1>9, <2>1, Appended
    <2>3. \A i \in 1..Len(order') : i \in 1..Len(order) \/ i = Len(order) + 1
      BY <1>4, <2>2
    <2>4. \A i \in 1..Len(order) : order[i] < stream[1].m
      BY <1>0, <1>5, <1>9 DEF StreamAscends, Ahead
    <2>5. OrderAscends'
      <3> SUFFICES ASSUME NEW i \in 1..Len(order'), NEW j \in 1..Len(order'), i < j
                   PROVE  order'[i] < order'[j]
        BY DEF OrderAscends
      <3>1. i \in 1..Len(order)
        BY <1>4, <2>2
      <3> QED BY <1>0, <2>2, <2>3, <2>4, <3>1 DEF OrderAscends
    <2>6. \A i \in 1..Len(order') : order'[i] <= published
      BY <1>0, <1>5, <2>2, <2>3 DEF InPublished
    <2>7. InPublished'
      BY <1>0, <1>3, <1>7, <2>6 DEF InPublished
    <2>8. ASSUME NEW m \in Nat, Ahead(m), stream[1].m < m PROVE Ahead(m)'
      BY <2>2, <2>3, <2>8 DEF Ahead
    <2>9. ASSUME NEW i \in 1..Len(stream'), stream'[i].part = "type"
          PROVE  Ahead(stream[i].m)'
      <3>1. /\ Ahead(stream[n + i].m) /\ stream[1].m < stream[n + i].m
            /\ stream[n + i].m \in Nat /\ stream'[i].m = stream[n + i].m
        BY <1>0, <1>4, <1>5, <1>9, <2>9 DEF StreamAscends
      <3> QED BY <2>2, <2>3, <3>1 DEF Ahead
    <2>10. ASSUME NEW i \in 1..Len(queue), queue[i] # Control PROVE Ahead(queue[i])'
      <3>1. Ahead(queue[i]) /\ stream[1].m < queue[i] /\ queue[i] \in Nat
        BY <1>0, <1>4, <1>5, <1>9, <2>10 DEF QueueAscends
      <3> QED BY <1>3, <2>2, <2>3, <3>1 DEF Ahead
    <2>11. StreamAscends'
      BY <1>7, <2>9 DEF StreamAscends
    <2>12. QueueAscends'
      BY <1>0, <1>3, <1>7, <2>10 DEF QueueAscends
    <2> QED BY <1>1, <2>5, <2>7, <2>11, <2>12 DEF OrderInv
  <1>10. Row(stream)
    BY DEF WholeInv, Whole
  <1>11. \/ order' = order
         \/ /\ stream[1].part = "type" /\ stream[1].m \in Messages
            /\ order' = Append(order, stream[1].m)
    BY <1>0, <1>10, HandleWhole DEF Ignored, Overrun, ShownWhole
  <1> QED BY <1>8, <1>9, <1>11

LEMMA OrderAfterReconnect == OrderInv /\ Reconnect => OrderInv'
  <1> SUFFICES ASSUME OrderInv, Reconnect PROVE OrderInv'
    OBVIOUS
  <1>0. SubscriberTypeOK /\ InPublished
    BY DEF OrderInv, TypeInv
  <1>1. TypeInv'
    BY TypeStep DEF OrderInv, Next
  <1>2. PICK s \in Seq(pending) :
          /\ \A i, j \in 1..Len(s) : i < j => s[i] < s[j]
          /\ Len(queue') = Len(s) + 2
          /\ queue'[1] = Control /\ queue'[2] = Control
          /\ \A i \in 1..Len(s) : s[i] \in pending /\ queue'[2 + i] = s[i]
    BY <1>0, ReconnectShape
  <1>3. /\ stream' = <<>> /\ order' = <<>> /\ link' = "up"
        /\ UNCHANGED <<published, pending>>
    BY DEF Reconnect
  <1>4. /\ \A i \in 1..Len(stream') : FALSE
        /\ \A i \in 1..Len(order') : FALSE
    BY <1>3
  <1>5. Len(s) \in Nat /\ published \in Nat
    BY <1>0, Lengths
  <1>6. ASSUME NEW j \in 1..Len(queue')
        PROVE  \/ queue'[j] = Control
               \/ /\ j - 2 \in 1..Len(s) /\ queue'[j] = s[j - 2]
                  /\ s[j - 2] \in 1..published
    <2>1. CASE j > 2
      <3>1. j - 2 \in 1..Len(s) /\ j = 2 + (j - 2)
        BY <1>2, <1>5, <2>1
      <3> DEFINE k == j - 2
      <3>2. k \in 1..Len(s) /\ j = 2 + k
        BY <3>1
      <3> HIDE DEF k
      <3>3. queue'[j] = s[k] /\ s[k] \in pending
        BY <1>2, <3>2
      <3>4. s[k] \in 1..published
        BY <1>0, <3>3 DEF InPublished
      <3> QED BY <3>2, <3>3, <3>4 DEF k
    <2>2. CASE j = 1 \/ j = 2
      BY <1>2, <2>2
    <2> QED BY <1>2, <1>5, <2>1, <2>2
  <1>7. InPublished'
    <2>1. \A j \in 1..Len(queue') : queue'[j] <= published
      BY <1>5, <1>6 DEF Control
    <2> QED BY <1>0, <1>3, <1>4, <2>1 DEF InPublished
  <1>8. StreamAscends' /\ OrderAscends'
    BY <1>4 DEF StreamAscends, OrderAscends
  <1>9. QueueAscends'
    <2>1. ASSUME NEW i \in 1..Len(queue'), NEW j \in 1..Len(queue'), i < j,
                 queue'[i] # Control, queue'[j] # Control
          PROVE  queue'[i] < queue'[j]
      <3>1. i - 2 < j - 2
        BY <1>2, <1>5, <2>1
      <3> QED BY <1>2, <1>6, <2>1, <3>1
    <2> QED BY <1>3, <1>4, <2>1 DEF QueueAscends, Ahead
  <1> QED BY <1>1, <1>7, <1>8, <1>9 DEF OrderInv

LEMMA OrderStep ==
  ASSUME pacing # "split", WholeInv, OrderInv, [Next]_vars
  PROVE  OrderInv'
  <1>0. TypeInv' /\ InPublished /\ StreamAscends /\ QueueAscends /\ OrderAscends
    BY TypeStep DEF OrderInv
  <1>1. CASE TakeAck \/ Tick \/ UNCHANGED vars
    <2>1. /\ UNCHANGED <<stream, queue, order, published, link>>
          /\ pending' \subseteq pending
      BY <1>1 DEF TakeAck, Tick, vars, clientVars, brokerVars
    <2>2. InPublished'
      BY <1>0, <2>1 DEF InPublished
    <2>3. StreamAscends' /\ OrderAscends'
      BY <1>0, <2>1 DEF StreamAscends, OrderAscends, Ahead
    <2>4. QueueAscends'
      BY <1>0, <2>1 DEF QueueAscends, Ahead
    <2> QED BY <1>0, <2>2, <2>3, <2>4 DEF OrderInv
  <1>2. CASE Fail \/ DropIdle
    BY <1>2, OrderAfterBreak DEF Fail, DropIdle
  <1> QED BY <1>1, <1>2, OrderAfterPublish, OrderAfterSend, OrderAfterHandle,
             OrderAfterReconnect DEF Next

LEMMA OrderInit == Init => OrderInv
  <1> SUFFICES ASSUME Init PROVE OrderInv
    OBVIOUS
  <1>1. /\ queue = <<Control, Control>> /\ stream = <<>> /\ order = <<>>
        /\ published = 0 /\ pending = {} /\ link = "up"
    BY DEF Init
  <1>2. /\ \A i \in 1..Len(stream) : FALSE
        /\ \A i \in 1..Len(order) : FALSE
        /\ \A i \in 1..Len(queue) : queue[i] = Control
    BY <1>1
  <1>3. InPublished
    BY <1>1, <1>2 DEF InPublished, Control
  <1>4. StreamAscends /\ QueueAscends /\ OrderAscends
    BY <1>1, <1>2 DEF StreamAscends, QueueAscends, OrderAscends
  <1> QED BY <1>3, <1>4, TypeInit DEF OrderInv

ShownInv == WholeInv /\ (pacing # "split" => OrderInv)

LEMMA ShownStep == ShownInv /\ [Next]_vars => ShownInv'
  <1> SUFFICES ASSUME ShownInv, [Next]_vars PROVE ShownInv'
    OBVIOUS
  <1>1. WholeInv' /\ pacing' = pacing
    BY WholeStep, ChoicesKept DEF ShownInv, choices
  <1> QED BY <1>1, OrderStep DEF ShownInv

\* As long as recv cuts no packet, what is shown on one connection is shown in
\* the order of publication and once: whatever shares a recv with other
\* packets, and after any number of lost connections.
THEOREM ShownInOrder == Spec => []InOrder
  <1>1. Init => ShownInv
    BY WholeInit, OrderInit DEF ShownInv
  <1>2. ShownInv => InOrder
    <2> SUFFICES ASSUME OrderInv PROVE InOrder
      BY DEF ShownInv, InOrder
    <2>1. order \in Seq(Messages) /\ OrderAscends
      BY DEF OrderInv, TypeInv, SubscriberTypeOK
    <2>2. DOMAIN order = 1..Len(order)
      BY <2>1
    <2> QED BY <2>1, <2>2 DEF InOrder, OrderAscends
  <1> QED BY <1>1, <1>2, ShownStep, PTL DEF Spec

-------------------------------------------------------------------------------
(* Memory and acknowledgements.                                              *)

\* The lengths that handle_publish computes when the remaining length has one
\* byte are the ones of the message, and both arrays hold them.
LEMMA OneByteFits ==
  ASSUME NEW k \in Kinds, RemainingLength(k) < 128
  PROVE  /\ Fits(k)
         /\ TopicLength(k) = k.topic /\ PayloadLength(k) = k.payload
  <1> DEFINE t == k.topic
             p == k.payload
             b == IdBytes(k)
  <1>1. t \in Nat /\ p \in Nat /\ b \in Nat
    BY SubscriberAssumption DEF IdBytes
  <1>2. RemainingLength(k) = 2 + t + b + p
    BY DEF RemainingLength
  <1>3. LengthWord(k) = t /\ LengthByte(k) = 2 + t + b + p
    BY <1>2 DEF LengthWord, LengthByte
  <1> HIDE DEF t, p, b
  <1>4. t < 128 /\ p < 128
    BY <1>1, <1>2
  <1>5. t % 256 = t
    BY <1>1, <1>4
  <1>6. TopicLength(k) = t
    BY <1>1, <1>3, <1>4, <1>5 DEF TopicLength, ReadWord
  <1>7. PayloadStart(k) = 4 + t + b
    BY <1>6 DEF PayloadStart, b
  <1>8. PayloadLength(k) = p
    BY <1>1, <1>3, <1>7 DEF PayloadLength
  <1> QED BY <1>1, <1>4, <1>6, <1>8 DEF Fits, t, p

MemoryInv == WholeInv /\ MemorySafe

LEMMA MemoryStep == MemoryInv /\ [Next]_vars => MemoryInv'
  <1> SUFFICES ASSUME MemoryInv, [Next]_vars PROVE MemoryInv'
    OBVIOUS
  <1>0. /\ WholeInv /\ WholeInv' /\ SubscriberTypeOK /\ Named
        /\ UNCHANGED <<pacing, kind>>
    BY WholeStep, ChoicesKept DEF MemoryInv, WholeInv, TypeInv, choices
  <1> SUFFICES ASSUME loop' = "overrun", pacing # "split"
               PROVE  \E m \in Messages : RemainingLength(kind[m]) >= 128
    BY <1>0 DEF MemoryInv, MemorySafe
  <1>1. CASE loop = "overrun"
    BY <1>1 DEF MemoryInv, MemorySafe
  <1>2. CASE HandlePublish /\ loop # "overrun"
    <2>1. Row(stream)
      BY <1>0 DEF WholeInv, Whole
    <2>2. \/ Ignored
          \/ stream[1].m \in Messages /\ ~Fits(kind[stream[1].m])
          \/ ShownWhole(stream[1].m)
      BY <1>0, <1>2, <2>1, HandleWhole
    <2>3. stream[1].m \in Messages /\ ~Fits(kind[stream[1].m])
      BY <1>2, <2>2, WholeAcks DEF Ignored
    <2>4. kind[stream[1].m] \in Kinds
      BY <1>0, <2>3 DEF SubscriberTypeOK
    <2>5. RemainingLength(kind[stream[1].m]) \in Nat
      BY <2>4, SubscriberAssumption DEF RemainingLength, IdBytes
    <2> QED BY <2>3, <2>4, <2>5, OneByteFits
  <1>3. HandlePublish \/ loop' = loop
    BY DEF Next, vars, Publish, Send, TakeAck, Fail, Breaks, Tick, DropIdle,
           Reconnect, clientVars
  <1> QED BY <1>1, <1>2, <1>3

\* As long as no packet is cut and every remaining length has one byte,
\* handle_publish stays within topic[256] and payload[256]: for every length of
\* topic and payload, also when one recv returns several packets, and when
\* connections are lost in between.
THEOREM BuffersHold == Spec => []MemorySafe
  <1>1. Init => MemoryInv
    BY WholeInit DEF MemoryInv, MemorySafe, Init
  <1>2. MemoryInv => MemorySafe
    BY DEF MemoryInv
  <1> QED BY <1>1, <1>2, MemoryStep, PTL DEF Spec

\* No message is acknowledged under the identifier of another one.  It takes
\* more than 256 identifiers, up to the ones from 0xFF80 on, to break this:
\* an identifier that is not read back is read as one of those.
IdsApart == \A k, m \in Messages : ReadWord(Id(k)) = Id(m) => k = m

LEMMA ReadBackOrHigh ==
  ASSUME NEW w \in Nat, w <= MaxWord
  PROVE  \/ ReadWord(w) = w
         \/ ReadWord(w) >= 65408 /\ \E h \in Nat : ReadWord(w) = w + 256 * h
  <1> DEFINE q == w \div 256
             r == w % 256
  <1>1. /\ q \in Nat /\ r \in Nat /\ r < 256
        /\ w = (256 * q) + r
    BY SMT
  <1>2. ReadWord(w) = IF r >= 128 THEN 65280 + r ELSE w
    BY SMT DEF ReadWord
  <1> HIDE DEF q, r
  <1>3. q <= 255
    BY <1>1, Words, SMT
  <1>4. CASE r >= 128
    <2>1. ReadWord(w) = 65280 + r
      BY <1>2, <1>4, SMT
    <2>2. 255 - q \in Nat
      BY <1>1, <1>3, SMT
    <2>3. ReadWord(w) = w + 256 * (255 - q)
      BY <1>1, <1>3, <2>1, SMT
    <2>4. ReadWord(w) >= 65408
      BY <1>1, <1>4, <2>1, SMT
    <2> QED BY <2>2, <2>3, <2>4
  <1> QED BY <1>1, <1>2, <1>4, SMT

LEMMA FewIdsAreApart ==
  ASSUME N <= 256 \/ FirstId + N <= 65408
  PROVE  IdsApart
  <1> SUFFICES ASSUME NEW k \in Messages, NEW m \in Messages,
                      ReadWord(Id(k)) = Id(m)
               PROVE  k = m
    BY DEF IdsApart
  <1>1. /\ N \in Nat /\ FirstId \in Nat
        /\ k \in Nat /\ k >= 1 /\ k <= N /\ m \in Nat /\ m >= 1 /\ m <= N
    BY SubscriberAssumption DEF Messages
  <1>2. Id(k) = FirstId + k - 1 /\ Id(m) = FirstId + m - 1
    BY DEF Id
  <1>3. Id(k) \in Nat /\ Id(k) <= MaxWord
    BY IdType, WordLimit
  <1>4. CASE Id(m) = Id(k)
    BY <1>1, <1>2, <1>4
  <1>5. CASE Id(m) >= 65408 /\ \E h \in Nat : Id(m) = Id(k) + 256 * h
    <2>1. PICK h \in Nat : Id(m) = Id(k) + 256 * h
      BY <1>5
    <2>2. N <= 256
      BY <1>1, <1>2, <1>5, SMT
    <2>3. m = k + 256 * h
      BY <1>1, <1>2, <2>1
    <2>4. h = 0
      BY <1>1, <2>2, <2>3
    <2> QED BY <1>1, <2>3, <2>4
  <1> QED BY <1>3, <1>4, <1>5, ReadBackOrHigh

AcksShown ==
    \A i \in 1..Len(acks), m \in Messages : acks[i] = Id(m) => m \in shown

AckInv == WholeInv /\ AckedShown /\ (pacing # "split" => AcksShown)

LEMMA AckStep ==
  ASSUME IdsApart, AckInv, [Next]_vars
  PROVE  AckInv'
  <1>0. /\ WholeInv /\ WholeInv' /\ SubscriberTypeOK /\ Named
        /\ UNCHANGED <<pacing, kind>>
        /\ \A m : Kept(m)' <=> Kept(m)
    BY WholeStep, ChoicesKept DEF AckInv, WholeInv, TypeInv, choices, Kept
  <1> SUFFICES ASSUME pacing # "split", AcksShown,
                      \A m \in 1..published : Kept(m) /\ m \notin pending => m \in shown
               PROVE  /\ AcksShown'
                      /\ \A m \in 1..published' :
                            Kept(m) /\ m \notin pending' => m \in shown'
    BY <1>0 DEF AckInv, AckedShown
  <1>1. /\ acks \in Seq(0..MaxWord) /\ Len(acks) \in Nat /\ published \in Nat
        /\ published <= N /\ N \in Nat
    BY <1>0, Lengths, MessageRange DEF SubscriberTypeOK
  <1>2. CASE UNCHANGED <<acks, shown, published, pending>>
    BY <1>2 DEF AcksShown
  <1>3. CASE Publish
    <2>1. /\ UNCHANGED <<acks, shown>> /\ published' = published + 1
          /\ pending' = IF Kept(published + 1) THEN pending \cup {published + 1}
                                               ELSE pending
      BY <1>3 DEF Publish, clientVars
    <2>2. \A m \in 1..(published + 1) : m \in 1..published \/ m = published + 1
      BY <1>1
    <2> QED BY <2>1, <2>2 DEF AcksShown
  <1>4. CASE TakeAck
    <2>1. /\ acks # <<>> /\ acks' = Tail(acks)
          /\ pending' = {m \in pending : Id(m) # Head(acks)}
          /\ UNCHANGED <<published, shown>>
      BY <1>4 DEF TakeAck, clientVars
    <2> DEFINE W == 0..MaxWord
    <2>2. acks \in Seq(W)
      BY <1>1
    <2> HIDE DEF W
    <2>3. /\ Len(acks) >= 1 /\ Head(acks) = acks[1]
          /\ Len(acks') = Len(acks) - 1
          /\ \A i \in 1..Len(acks) - 1 : acks'[i] = acks[i + 1]
      BY <2>1, <2>2, HeadAndTail
    <2>4. AcksShown'
      <3>1. \A i \in 1..Len(acks') : i + 1 \in 1..Len(acks) /\ acks'[i] = acks[i + 1]
        BY <1>1, <2>3
      <3> QED BY <2>1, <3>1 DEF AcksShown
    <2>5. ASSUME NEW m \in 1..published, Kept(m), m \notin pending'
          PROVE  m \in shown
      <3>1. CASE m \in pending
        <4>1. Id(m) = acks[1] /\ 1 \in 1..Len(acks) /\ m \in Messages
          BY <1>1, <2>1, <2>3, <2>5, <3>1 DEF Messages
        <4> QED BY <4>1 DEF AcksShown
      <3> QED BY <2>5, <3>1
    <2> QED BY <2>1, <2>4, <2>5
  <1>5. ASSUME NEW how, Breaks(how)
        PROVE  /\ AcksShown'
               /\ UNCHANGED <<published, pending, shown>>
    <2>1. acks' = <<>> /\ UNCHANGED <<published, pending, shown>>
      BY <1>5 DEF Breaks, clientVars
    <2>2. \A i \in 1..Len(acks') : FALSE
      BY <2>1
    <2> QED BY <2>1, <2>2 DEF AcksShown
  <1>6. CASE HandlePublish
    <2>1. UNCHANGED <<published, pending>>
      BY <1>6 DEF HandlePublish, brokerVars
    <2>2. Row(stream)
      BY <1>0 DEF WholeInv, Whole
    <2>3. \/ UNCHANGED <<shown, acks>>
          \/ /\ stream[1].m \in Messages
             /\ shown' = shown \cup {stream[1].m}
             /\ acks' = acks \/ acks' = Append(acks, ReadWord(Id(stream[1].m)))
      <3>1. \/ Ignored \/ Overrun
            \/ stream[1].m \in Messages /\ ShownWhole(stream[1].m)
        BY <1>0, <1>6, <2>2, HandleWhole
      <3> QED BY <3>1, WholeAcks DEF Ignored, Overrun, ShownWhole
    <2>4. AcksShown'
      <3>1. CASE acks' = acks
        BY <2>3, <3>1 DEF AcksShown
      <3>2. CASE /\ stream[1].m \in Messages
                 /\ shown' = shown \cup {stream[1].m}
                 /\ acks' = Append(acks, ReadWord(Id(stream[1].m)))
        <4> DEFINE e == ReadWord(Id(stream[1].m))
        <4> DEFINE W == 0..MaxWord
        <4>1. e \in W /\ acks \in Seq(W)
          BY <1>1, <3>2, IdType, ReadWordType
        <4>2. acks' = Append(acks, e)
          BY <3>2
        <4> HIDE DEF e, W
        <4>3. /\ Len(acks') = Len(acks) + 1 /\ acks'[Len(acks) + 1] = e
              /\ \A i \in 1..Len(acks) : acks'[i] = acks[i]
          BY <4>1, <4>2, Appended
        <4>4. \A i \in 1..Len(acks') : i \in 1..Len(acks) \/ i = Len(acks) + 1
          BY <1>1, <4>3
        <4>5. \A m \in Messages : e = Id(m) => m \in shown'
          BY <3>2 DEF IdsApart, e
        <4> QED BY <3>2, <4>3, <4>4, <4>5 DEF AcksShown
      <3> QED BY <2>3, <3>1, <3>2
    <2> QED BY <2>1, <2>3, <2>4
  <1>7. Send \/ Tick \/ Reconnect \/ UNCHANGED vars
          => UNCHANGED <<acks, shown, published, pending>>
    BY DEF Send, Tick, Reconnect, vars, clientVars, brokerVars
  <1>8. CASE Fail \/ DropIdle
    BY <1>5, <1>8 DEF Fail, DropIdle
  <1> QED BY <1>2, <1>3, <1>4, <1>6, <1>7, <1>8 DEF Next

\* The broker forgets a message of QoS 1 only when it has been shown, unless
\* more than 256 identifiers reach the ones from 0xFF80 on, which one PUBACK
\* may carry for another message.
THEOREM AcknowledgedWasShown ==
  ASSUME N <= 256 \/ FirstId + N <= 65408
  PROVE  Spec => []AckedShown
  <1>1. Init => AckInv
    <2> SUFFICES ASSUME Init PROVE AckInv
      OBVIOUS
    <2>1. acks = <<>> /\ published = 0
      BY DEF Init
    <2>2. \A i \in 1..Len(acks) : FALSE
      BY <2>1
    <2> QED BY <2>1, <2>2, WholeInit DEF AckInv, AckedShown, AcksShown
  <1>2. AckInv /\ [Next]_vars => AckInv'
    BY FewIdsAreApart, AckStep
  <1>3. AckInv => AckedShown
    BY DEF AckInv
  <1> QED BY <1>1, <1>2, <1>3, PTL DEF Spec

-------------------------------------------------------------------------------
(* One packet at a time.  Then the stream holds one packet at most, and recv *)
(* takes all of it.                                                          *)

Single(s) ==
    \/ Len(s) = 0
    \/ Len(s) = 1 /\ s[1].part = "all"
    \/ /\ Len(s) = 3
       /\ s[1].part = "type" /\ s[2].part = "names" /\ s[3].part = "payload"
       /\ s[3].m = s[1].m

PacedInv == WholeInv /\ PacedShowsAll /\ (pacing = "paced" => Single(stream))

\* Whatever ends behind a packet ends behind all of a single one.
LEMMA SingleCut ==
  ASSUME NEW s, Len(s) \in Nat, Single(s), NEW n \in 1..Len(s),
         s[n].part \in {"all", "payload"}
  PROVE  n = Len(s)
  <1>1. CASE Len(s) = 1
    BY <1>1
  <1>2. CASE /\ Len(s) = 3 /\ s[1].part = "type" /\ s[2].part = "names"
    <2>1. n = 1 \/ n = 2 \/ n = 3
      BY <1>2
    <2> QED BY <1>2, <2>1
  <1>3. Len(s) # 0
    OBVIOUS
  <1> QED BY <1>1, <1>2, <1>3 DEF Single

LEMMA PacedStep == PacedInv /\ [Next]_vars => PacedInv'
  <1> SUFFICES ASSUME PacedInv, [Next]_vars PROVE PacedInv'
    OBVIOUS
  <1>0. /\ WholeInv /\ WholeInv' /\ SubscriberTypeOK /\ Named
        /\ Len(stream) \in Nat /\ UNCHANGED <<pacing, kind>>
    <2>1. WholeInv /\ WholeInv' /\ SubscriberTypeOK /\ Named
      BY WholeStep DEF PacedInv, WholeInv, TypeInv
    <2> QED BY <2>1, Lengths, ChoicesKept DEF choices
  <1> SUFFICES ASSUME pacing = "paced", Single(stream),
                      loop = "running" => taken \subseteq shown
               PROVE  /\ Single(stream')
                      /\ loop' = "running" => taken' \subseteq shown'
    BY <1>0 DEF PacedInv, PacedShowsAll, NothingLost
  <1>1. CASE UNCHANGED <<stream, loop, taken, shown>>
    BY <1>1
  <1>2. CASE Send
    <2>1. PICK h \in 0..N :
            /\ Len(stream') = Len(stream) + Len(Cells(h))
            /\ \A i \in 1..Len(Cells(h)) : stream'[Len(stream) + i] = Cells(h)[i]
      BY <1>0, <1>2, SendShape
    <2>2. Len(stream) = 0 /\ UNCHANGED <<loop, taken, shown>>
      BY <1>2 DEF Send, clientVars
    <2> DEFINE c == Cells(h)
    <2>3. /\ \/ Len(c) = 1 /\ c[1].part = "all"
             \/ /\ Len(c) = 3 /\ c[1].part = "type" /\ c[2].part = "names"
                /\ c[3].part = "payload" /\ c[3].m = c[1].m
      <3>1. /\ c[1].m = h
            /\ Len(c) = 3 => c[3].m = h
        BY CellsProperties
      <3> QED BY <3>1, CellsProperties
    <2>4. /\ Len(stream') = Len(stream) + Len(c)
          /\ \A i \in 1..Len(c) : stream'[Len(stream) + i] = c[i]
      BY <2>1
    <2> HIDE DEF c
    <2>5. Len(stream') = Len(c) /\ \A i \in 1..Len(c) : stream'[i] = c[i]
      BY <2>2, <2>3, <2>4
    <2>6. Single(stream')
      <3>1. CASE Len(c) = 1 /\ c[1].part = "all"
        BY <2>5, <3>1 DEF Single
      <3>2. CASE /\ Len(c) = 3 /\ c[1].part = "type" /\ c[2].part = "names"
                 /\ c[3].part = "payload" /\ c[3].m = c[1].m
        <4>1. stream'[1] = c[1] /\ stream'[2] = c[2] /\ stream'[3] = c[3]
          BY <2>5, <3>2
        <4> QED BY <2>5, <3>2, <4>1 DEF Single
      <3> QED BY <2>3, <3>1, <3>2
    <2> QED BY <2>2, <2>6
  <1>3. ASSUME NEW how, Breaks(how)
        PROVE  Single(stream') /\ UNCHANGED <<loop, taken, shown>>
    <2> SUFFICES Single(stream')
      BY <1>3 DEF Breaks, clientVars
    <2>1. PICK n \in 0..Len(stream) :
            /\ n = 0 \/ n \in Cuts
            /\ Len(stream') = n
            /\ \A i \in 1..n : stream'[i] = stream[i]
      BY <1>0, <1>3, BreakShape
    <2>2. CASE n = 0
      BY <2>1, <2>2 DEF Single
    <2>3. CASE n \in Cuts
      <3>1. n \in 1..Len(stream) /\ stream[n].part \in {"all", "payload"}
        BY <2>3 DEF Cuts
      <3>2. n = Len(stream)
        BY <1>0, <3>1, SingleCut
      <3>3. Len(stream') = Len(stream) /\ \A i \in 1..Len(stream) : stream'[i] = stream[i]
        BY <2>1, <3>2
      <3>4. CASE Len(stream) = 1
        <4>1. stream'[1] = stream[1]
          BY <3>3, <3>4
        <4> QED BY <3>3, <3>4, <4>1 DEF Single
      <3>5. CASE Len(stream) = 3
        <4>1. /\ stream'[1] = stream[1] /\ stream'[2] = stream[2]
              /\ stream'[3] = stream[3]
          BY <3>3, <3>5
        <4> QED BY <3>3, <3>5, <4>1 DEF Single
      <3>6. CASE Len(stream) = 0
        BY <3>3, <3>6 DEF Single
      <3> QED BY <3>4, <3>5, <3>6 DEF Single
    <2> QED BY <2>1, <2>2, <2>3
  <1>4. CASE HandlePublish
    <2>1. Row(stream)
      BY <1>0 DEF WholeInv, Whole
    <2>2. PICK n \in 1..Len(stream) :
            /\ stream[n].part \in {"all", "payload"}
            /\ Len(stream') = Len(stream) - n
            /\ taken' = taken \cup {stream[i].m : i \in
                          {j \in 1..n : stream[j].part = "payload"}}
            /\ \/ stream[1].part = "all" /\ shown' = shown
               \/ loop' = "overrun"
               \/ stream[1].part = "type" /\ shown' = shown \cup {stream[1].m}
      BY <1>0, <1>4, <2>1, HandleWhole DEF Ignored, Overrun, ShownWhole
    <2>3. n = Len(stream)
      BY <1>0, <2>2, SingleCut
    <2>4. Single(stream')
      BY <1>0, <2>2, <2>3 DEF Single
    <2>5. loop = "running" /\ taken \subseteq shown
      BY <1>4 DEF HandlePublish
    <2>6. CASE stream[1].part = "all" /\ shown' = shown
      <3>1. n = 1
        BY <2>3, <2>6 DEF Single
      <3>2. \A j \in 1..n : stream[j].part # "payload"
        BY <2>6, <3>1
      <3>3. taken' = taken
        BY <2>2, <3>2
      <3> QED BY <2>4, <2>5, <2>6, <3>3
    <2>7. CASE loop' = "overrun"
      BY <2>4, <2>7
    <2>8. CASE stream[1].part = "type" /\ shown' = shown \cup {stream[1].m}
      <3>1. /\ n = 3 /\ stream[2].part = "names" /\ stream[3].m = stream[1].m
        BY <2>3, <2>8 DEF Single
      <3>2. \A j \in 1..n : stream[j].part = "payload" => j = 3
        <4>1. \A j \in 1..3 : j = 1 \/ j = 2 \/ j = 3
          OBVIOUS
        <4> QED BY <2>8, <3>1, <4>1
      <3>3. taken' \subseteq taken \cup {stream[1].m}
        BY <2>2, <3>1, <3>2
      <3> QED BY <2>4, <2>5, <2>8, <3>3
    <2> QED BY <2>2, <2>6, <2>7, <2>8
  <1>5. Publish \/ TakeAck \/ Tick \/ Reconnect \/ UNCHANGED vars
          => UNCHANGED <<stream, loop, taken, shown>>
    BY DEF Publish, TakeAck, Tick, Reconnect, vars, clientVars, brokerVars
  <1>6. CASE Fail \/ DropIdle
    BY <1>3, <1>6 DEF Fail, DropIdle
  <1> QED BY <1>1, <1>2, <1>4, <1>5, <1>6 DEF Next

\* When every packet comes alone, every message that recv has returned to its
\* end was shown, as long as the loop runs.
THEOREM PacedMessagesAreShown == Spec => []PacedShowsAll
  <1>1. Init => PacedInv
    <2> SUFFICES ASSUME Init PROVE PacedInv
      OBVIOUS
    <2>1. stream = <<>> /\ taken = {}
      BY DEF Init
    <2>2. Len(stream) = 0 /\ taken \subseteq shown
      BY <2>1
    <2> QED BY <2>2, WholeInit DEF PacedInv, PacedShowsAll, NothingLost, Single
  <1>2. PacedInv => PacedShowsAll
    BY DEF PacedInv
  <1> QED BY <1>1, <1>2, PacedStep, PTL DEF Spec

-------------------------------------------------------------------------------
(* What is left when everything has been delivered.  A message that waits    *)
(* for its PUBACK is on its way to the client, or its PUBACK is on the way   *)
(* back, or could not be sent.                                               *)

InQueue(m) == \E i \in 1..Len(queue) : queue[i] = m

InStream(m) ==
    \E i \in 1..Len(stream) : stream[i].part = "type" /\ stream[i].m = m

InAcks(m) == \E i \in 1..Len(acks) : acks[i] = Id(m)

Underway(m) ==
    \/ InQueue(m) \/ InStream(m) \/ InAcks(m)
    \/ Id(m) \in unsent

WaitingUnderway ==
    pacing = "paced" /\ loop = "running" /\ link = "up" =>
        \A m \in pending : ReadWord(Id(m)) = Id(m) => Underway(m)

SettleInv ==
    /\ PacedInv
    /\ \A m \in pending : Kept(m)
    /\ WaitingUnderway

LEMMA SettleStep == SettleInv /\ [Next]_vars => SettleInv'
  <1> SUFFICES ASSUME SettleInv, [Next]_vars PROVE SettleInv'
    OBVIOUS
  <1>0. /\ PacedInv /\ PacedInv' /\ WholeInv /\ SubscriberTypeOK /\ Named
        /\ UNCHANGED <<pacing, kind>>
        /\ \A m : Kept(m)' <=> Kept(m)
    BY PacedStep, ChoicesKept DEF SettleInv, PacedInv, WholeInv, TypeInv, choices, Kept
  <1>1. /\ acks \in Seq(0..MaxWord) /\ Len(acks) \in Nat
        /\ queue \in Seq(0..N) /\ Len(queue) \in Nat /\ Len(stream) \in Nat
        /\ pending \subseteq Messages
    BY <1>0, Lengths DEF SubscriberTypeOK
  <1>2. \A m \in pending' : Kept(m)'
    <2>1. \A m \in pending' : m \in pending \/ Kept(m)
      BY DEF Next, vars, Publish, Send, TakeAck, Fail, Breaks, Tick, DropIdle,
             HandlePublish, Reconnect, brokerVars
    <2> QED BY <1>0, <2>1 DEF SettleInv
  <1> SUFFICES ASSUME pacing = "paced", loop' = "running", link' = "up",
                      NEW m \in pending', ReadWord(Id(m)) = Id(m)
               PROVE  Underway(m)'
    BY <1>0, <1>2 DEF SettleInv, WaitingUnderway, Id, ReadWord
  <1>3. loop = "running" /\ link = "up" /\ m \in pending => Underway(m)
    BY DEF SettleInv, WaitingUnderway
  <1> HIDE DEF WaitingUnderway
  <1>4. CASE UNCHANGED <<queue, stream, acks, unsent, pending, link, loop>>
    BY <1>3, <1>4 DEF Underway, InQueue, InStream, InAcks
  <1>5. CASE Publish
    <2>1. /\ UNCHANGED <<stream, acks, unsent, loop, link>>
          /\ queue' = Append(queue, published + 1)
          /\ pending' \subseteq pending \cup {published + 1}
      BY <1>5 DEF Publish, clientVars
    <2>2. published + 1 \in 0..N
      <3>1. published \in 0..N /\ published < N /\ N \in Nat
        BY <1>0, <1>5, MessageRange DEF Publish, SubscriberTypeOK
      <3> QED BY <3>1
    <2>3. /\ Len(queue') = Len(queue) + 1
          /\ queue'[Len(queue) + 1] = published + 1
          /\ \A i \in 1..Len(queue) : queue'[i] = queue[i]
      <3> DEFINE P == 0..N
      <3>1. queue \in Seq(P) /\ published + 1 \in P
        BY <1>1, <2>2
      <3> HIDE DEF P
      <3> QED BY <2>1, <3>1, Appended
    <2>4. /\ Len(queue) + 1 \in 1..Len(queue')
          /\ \A i \in 1..Len(queue) : i \in 1..Len(queue')
      BY <1>1, <2>3
    <2>5. InQueue(m) => InQueue(m)'
      BY <2>3, <2>4 DEF InQueue
    <2>6. CASE m = published + 1
      BY <2>3, <2>4, <2>6 DEF InQueue, Underway
    <2>7. CASE m \in pending
      BY <1>3, <2>1, <2>5, <2>7 DEF Underway, InStream, InAcks
    <2> QED BY <2>1, <2>6, <2>7
  <1>6. CASE Send
    <2>1. PICK h \in 0..N :
            /\ h = queue[1]
            /\ Len(stream') = Len(stream) + Len(Cells(h))
            /\ \A i \in 1..Len(stream) : stream'[i] = stream[i]
            /\ \A i \in 1..Len(Cells(h)) : stream'[Len(stream) + i] = Cells(h)[i]
            /\ Len(queue') = Len(queue) - 1
            /\ \A i \in 1..Len(queue) - 1 : queue'[i] = queue[i + 1]
      BY <1>0, <1>6, SendShape
    <2>2. UNCHANGED <<acks, unsent, loop, link, pending>>
      BY <1>6 DEF Send, clientVars
    <2>3. Len(Cells(h)) \in Nat
      BY CellsProperties
    <2>4. InStream(m) => InStream(m)'
      <3>1. \A i \in 1..Len(stream) : i \in 1..Len(stream')
        BY <1>1, <2>1, <2>3
      <3> QED BY <2>1, <3>1 DEF InStream
    <2>5. ASSUME InQueue(m) PROVE InQueue(m)' \/ InStream(m)'
      <3>1. PICK i \in 1..Len(queue) : queue[i] = m
        BY <2>5 DEF InQueue
      <3>2. CASE i = 1
        <4>1. m = h /\ m # Control /\ m \in 0..N
          BY <1>1, <2>1, <2>2, <3>1, <3>2, MessageRange DEF Messages, Control
        <4>2. /\ Cells(h)[1].part = "type" /\ Cells(h)[1].m = m
              /\ Len(Cells(h)) = 3
          BY <4>1, CellsProperties
        <4>3. /\ 1 \in 1..Len(Cells(h))
              /\ Len(stream) + 1 \in 1..Len(stream')
          BY <1>1, <2>1, <4>2
        <4>4. stream'[Len(stream) + 1] = Cells(h)[1]
          BY <2>1, <4>3
        <4> QED BY <4>2, <4>3, <4>4 DEF InStream
      <3>3. CASE i # 1
        <4> DEFINE k == i - 1
        <4>1. k \in 1..Len(queue) - 1 /\ k + 1 = i /\ k \in 1..Len(queue')
          BY <1>1, <2>1, <3>3
        <4> HIDE DEF k
        <4>2. queue'[k] = m
          BY <2>1, <3>1, <4>1
        <4> QED BY <4>1, <4>2 DEF InQueue
      <3> QED BY <3>2, <3>3
    <2> QED BY <1>3, <1>6, <2>2, <2>4, <2>5 DEF Send, Underway, InAcks
  <1>7. CASE TakeAck
    <2>1. /\ acks # <<>> /\ acks' = Tail(acks)
          /\ pending' = {k \in pending : Id(k) # Head(acks)}
          /\ UNCHANGED <<queue, stream, unsent, loop, link>>
      BY <1>7 DEF TakeAck, clientVars
    <2> DEFINE W == 0..MaxWord
    <2>2. acks \in Seq(W)
      BY <1>1
    <2> HIDE DEF W
    <2>3. /\ Len(acks) >= 1 /\ Head(acks) = acks[1]
          /\ Len(acks') = Len(acks) - 1
          /\ \A i \in 1..Len(acks) - 1 : acks'[i] = acks[i + 1]
      BY <2>1, <2>2, HeadAndTail
    <2>4. m \in pending /\ Id(m) # acks[1]
      BY <2>1, <2>3
    <2>5. ASSUME InAcks(m) PROVE InAcks(m)'
      <3>1. PICK i \in 1..Len(acks) : acks[i] = Id(m)
        BY <2>5 DEF InAcks
      <3> DEFINE k == i - 1
      <3>2. k \in 1..Len(acks) - 1 /\ k + 1 = i /\ k \in 1..Len(acks')
        <4>1. i # 1
          BY <2>4, <3>1
        <4> QED BY <1>1, <2>3, <4>1
      <3> HIDE DEF k
      <3>3. acks'[k] = Id(m)
        BY <2>3, <3>1, <3>2
      <3> QED BY <3>2, <3>3 DEF InAcks, Id
    <2> QED BY <1>3, <2>1, <2>4, <2>5 DEF Underway, InQueue, InStream, Id
  <1>8. CASE HandlePublish
    <2>1. /\ UNCHANGED <<queue, pending, link>> /\ loop = "running"
          /\ Row(stream) /\ Single(stream)
      BY <1>0, <1>8 DEF HandlePublish, brokerVars, WholeInv, Whole, PacedInv
    <2>2. PICK n \in 1..Len(stream) :
            \/ stream[1].part = "all" /\ Ignored
            \/ Overrun
            \/ n >= 3 /\ stream[1].part = "type" /\ ShownWhole(stream[1].m)
      BY <1>0, <1>8, <2>1, HandleWhole
    <2>3. Underway(m) /\ Kept(m)
      BY <1>3, <2>1 DEF SettleInv
    <2>4. CASE stream[1].part = "all" /\ Ignored
      <3>1. ~InStream(m)
        <4>1. Len(stream) = 0 \/ Len(stream) = 1
          BY <2>1, <2>4 DEF Single
        <4> QED BY <2>4, <4>1 DEF InStream
      <3> QED BY <2>1, <2>3, <2>4, <3>1 DEF Ignored, Underway, InQueue, InAcks
    <2>5. CASE Overrun
      BY <2>5 DEF Overrun
    <2>6. CASE n >= 3 /\ stream[1].part = "type" /\ ShownWhole(stream[1].m)
      <3> DEFINE k == stream[1].m
      <3>1. InStream(m) => m = k
        <4>1. /\ Len(stream) = 3
              /\ stream[2].part = "names" /\ stream[3].part = "payload"
          BY <1>1, <2>1, <2>6 DEF Single
        <4>2. \A i \in 1..Len(stream) : stream[i].part = "type" => i = 1
          <5>1. \A i \in 1..3 : i = 1 \/ i = 2 \/ i = 3
            OBVIOUS
          <5> QED BY <4>1, <5>1
        <4> QED BY <4>2 DEF InStream
      <3>2. IF kind[k].qos = 1 THEN Answered(ReadWord(Id(k)))
                               ELSE UNCHANGED <<acks, unsent, loop>>
        BY <2>6 DEF ShownWhole
      <3> HIDE DEF k
      <3>3. \/ UNCHANGED acks
            \/ acks' = Append(acks, ReadWord(Id(k)))
        BY <3>2 DEF Answered
      <3>4. unsent \subseteq unsent'
        BY <3>2 DEF Answered
      <3>5. ASSUME InAcks(m) PROVE InAcks(m)'
        <4>1. PICK i \in 1..Len(acks) : acks[i] = Id(m)
          BY <3>5 DEF InAcks
        <4>2. i \in 1..Len(acks') /\ acks'[i] = acks[i]
          <5>1. CASE acks' = Append(acks, ReadWord(Id(k)))
            <6>1. i \in 1..(Len(acks) + 1) /\ Len(acks') = Len(acks) + 1
                  /\ acks'[i] = acks[i]
              BY <1>1, <5>1
            <6> QED BY <6>1
          <5> QED BY <3>3, <5>1
        <4> QED BY <4>1, <4>2 DEF InAcks, Id
      <3>6. ASSUME m = k PROVE InAcks(m)' \/ Id(m)' \in unsent'
        <4>1. Answered(Id(m))
          BY <2>3, <3>2, <3>6 DEF Kept
        <4>2. CASE acks' = Append(acks, Id(m))
          <5> DEFINE e == Id(m)
                     l == Len(acks)
          <5>1. /\ Len(acks') = l + 1 /\ acks'[l + 1] = e /\ l \in Nat
            BY <1>1, <4>2
          <5>2. l + 1 \in 1..Len(acks')
            BY <5>1
          <5> QED BY <5>1, <5>2 DEF InAcks, Id
        <4>3. CASE unsent' = unsent \cup {Id(m)}
          BY <4>3 DEF Id
        <4> QED BY <4>1, <4>2, <4>3 DEF Answered
      <3> QED BY <2>1, <2>3, <3>1, <3>4, <3>5, <3>6 DEF Underway, InQueue, Id
    <2> QED BY <2>2, <2>4, <2>5, <2>6
  <1>9. CASE Reconnect
    <2>1. PICK s \in Seq(pending) :
            /\ Len(queue') = Len(s) + 2
            /\ \A i \in 1..Len(s) : s[i] \in pending /\ queue'[2 + i] = s[i]
            /\ \A k \in pending : \E i \in 1..Len(s) : s[i] = k
      BY <1>0, <1>9, ReconnectShape
    <2>2. m \in pending
      BY <1>9 DEF Reconnect
    <2>3. PICK i \in 1..Len(s) : s[i] = m
      BY <2>1, <2>2
    <2>4. queue'[2 + i] = m
      BY <2>1, <2>3
    <2>5. 2 + i \in 1..Len(queue')
      <3> DEFINE l == Len(s)
      <3>1. l \in Nat /\ i \in 1..l /\ Len(queue') = l + 2
        BY <2>1
      <3> HIDE DEF l
      <3> QED BY <3>1
    <2> QED BY <2>4, <2>5 DEF Underway, InQueue
  <1>10. Tick \/ UNCHANGED vars
           => UNCHANGED <<queue, stream, acks, unsent, pending, link, loop>>
    BY DEF Tick, vars, clientVars, brokerVars
  <1>11. CASE Fail \/ DropIdle
    BY <1>11 DEF Fail, DropIdle, Breaks
  <1> QED BY <1>4, <1>5, <1>6, <1>7, <1>8, <1>9, <1>10, <1>11 DEF Next

\* When packets come alone and everything on a connection has been delivered,
\* both ways, the broker keeps no message whose identifier is read back and
\* whose PUBACK could be sent: for any number of messages, whatever was lost
\* with earlier connections.
THEOREM DeliveredIsSettled == Spec => []Settled
  <1>1. Init => SettleInv
    <2> SUFFICES ASSUME Init PROVE SettleInv
      OBVIOUS
    <2>1. stream = <<>> /\ taken = {} /\ pending = {}
      BY DEF Init
    <2>2. Len(stream) = 0 /\ taken \subseteq shown
      BY <2>1
    <2>3. PacedInv
      BY <2>2, WholeInit DEF PacedInv, PacedShowsAll, NothingLost, Single
    <2> QED BY <2>1, <2>3 DEF SettleInv, WaitingUnderway
  <1>2. SettleInv => Settled
    <2> SUFFICES ASSUME SettleInv, queue = <<>>, stream = <<>>, acks = <<>>,
                        NEW m \in pending, Underway(m)
                 PROVE  Id(m) \in unsent
      BY DEF SettleInv, WaitingUnderway, Settled
    <2>1. /\ \A i \in 1..Len(queue) : FALSE
          /\ \A i \in 1..Len(stream) : FALSE
          /\ \A i \in 1..Len(acks) : FALSE
      OBVIOUS
    <2> QED BY <2>1 DEF Underway, InQueue, InStream, InAcks
  <1> QED BY <1>1, <1>2, SettleStep, PTL DEF Spec

===============================================================================
