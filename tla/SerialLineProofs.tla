-------------------------- MODULE SerialLineProofs --------------------------
(***************************************************************************)
(* A serial line keeps the frames of its sink apart, and the assembler at  *)
(* its end returns exactly the frames it hears.                            *)
(***************************************************************************)
EXTENDS SerialLine, RtuAssemblerProofs

\* A leaf that names no prover is left to Zenon.
USE Zenon

Writing == sink.pc = "writing"

\* The number of the last send that may have written anything.
LastSend == IF Writing THEN Len(results) + 1 ELSE Len(results)

\* No send before the n-th timed out or failed in the driver.
Punctual(n) == \A k \in 1 .. n - 1 : results[k] \notin {"Timeout", "Io"}

\* What has been written and is not on the line: octets move from the buffer
\* to the driver, and the order of both together stays.
Queue == port \o sink.buffer

\* When the octet at the head of the driver began to be shifted out; now, if
\* it has not begun.
Begun == IF shift = 0 THEN now ELSE now + shift - CHARACTER

Result == {"InvalidInput", "Frame", "Ok", "Timeout", "Io"}
Written == [byte : Octet, from : Nat \ {0}]
Heard == [at : Nat, byte : Octet, from : Nat]
Stamped == [at : 0 .. HORIZON, byte : Octet]
SinkState ==
    [pc : {"ready", "waiting", "writing"}, frame : Sends \cup {NoFrame},
     until : Int, buffer : Seq(Written), last_tx_end : Int]

LineTypes ==
    /\ now \in 0 .. HORIZON
    /\ sink \in SinkState
    /\ sink.pc = "waiting" => sink.frame \in Sends
    /\ sink.last_tx_end =< now
    /\ port \in Seq(Written)
    /\ shift \in 0 .. CHARACTER - 1
    /\ port = <<>> => shift = 0
    /\ results \in Seq(Result)
    /\ air \in Seq(Heard)
    /\ \A i \in DOMAIN air : air[i].at =< now
    /\ speech \in Seq(Octet)
    /\ unread \in Seq(Stamped)

\* Octets leave in the order of the sends they belong to.
InOrder ==
    /\ \A i \in DOMAIN air : air[i].from =< LastSend
    /\ \A a \in DOMAIN Queue : Queue[a].from =< LastSend
    /\ \A a, b \in DOMAIN Queue : a =< b => Queue[a].from =< Queue[b].from
    /\ \A i \in DOMAIN air, a \in DOMAIN Queue : air[i].from =< Queue[a].from

\* An octet waits behind another send's only when a send before it was cut short,
\* and otherwise the octets of earlier sends left t3.5 before the head of the
\* queue begins to leave.
WaitsSilent ==
    \A a \in DOMAIN Queue : Punctual(Queue[a].from) =>
        /\ \A b \in DOMAIN Queue : Queue[a].from =< Queue[b].from
        /\ \A i \in DOMAIN air :
              air[i].from > 0 /\ air[i].from < Queue[a].from => air[i].at + t3_5 =< Begun

\* Between sends, none of which was cut short, nothing is left to be written, the
\* end of the last transmission is on record, and a send that waits waits for
\* t3.5 from there.
RestsSilent ==
    ~Writing /\ Punctual(Len(results) + 1) =>
        /\ Queue = <<>>
        /\ \A i \in DOMAIN air : air[i].from > 0 =>
              /\ air[i].at =< sink.last_tx_end
              /\ sink.pc = "waiting" => air[i].at + t3_5 =< sink.until

LineInv == LineTypes /\ InOrder /\ WaitsSilent /\ RestsSilent /\ FramesApart
-----------------------------------------------------------------------------
\* The first octet of the driver is the first of the queue.
LEMMA TailOfConcat ==
    ASSUME NEW S, NEW s \in Seq(S), NEW t \in Seq(S), s # <<>>
    PROVE  Tail(s) \o t = Tail(s \o t)
<1>1. Tail(s) \in Seq(S) /\ Len(Tail(s)) = Len(s) - 1 /\ \A i \in 1 .. Len(Tail(s)) : Tail(s)[i] = s[i + 1]
  BY HeadTailProperties
<1>2. /\ s \o t \in Seq(S) /\ s \o t # <<>> /\ Len(s \o t) = Len(s) + Len(t)
      /\ Len(s) \in Nat \ {0} /\ Len(t) \in Nat
  BY SMT
<1>3. /\ Tail(s \o t) \in Seq(S) /\ Len(Tail(s \o t)) = Len(s \o t) - 1
      /\ \A i \in 1 .. Len(Tail(s \o t)) : Tail(s \o t)[i] = (s \o t)[i + 1]
  BY <1>2, HeadTailProperties
<1>4. Tail(s) \o t \in Seq(S) /\ Len(Tail(s) \o t) = Len(Tail(s)) + Len(t)
  BY SMT, <1>1
<1>5. ASSUME NEW i \in 1 .. Len(Tail(s) \o t) PROVE (Tail(s) \o t)[i] = Tail(s \o t)[i]
  <2>1. i \in 1 .. Len(Tail(s \o t))
    BY SMT, <1>1, <1>2, <1>3, <1>4
  <2>2. Tail(s \o t)[i] = (s \o t)[i + 1]
    BY <1>3, <2>1
  <2>3. CASE i =< Len(s) - 1
    <3>1. i \in 1 .. Len(Tail(s)) /\ i + 1 \in 1 .. Len(s)
      BY SMT, <1>1, <1>2, <2>3
    <3>2. (Tail(s) \o t)[i] = Tail(s)[i] /\ (s \o t)[i + 1] = s[i + 1]
      BY SMT, <1>1, <3>1
    <3> QED BY <1>1, <2>2, <3>1, <3>2
  <2>4. CASE i > Len(s) - 1
    <3>1. i - (Len(s) - 1) \in 1 .. Len(t) /\ i + 1 - Len(s) = i - (Len(s) - 1)
      BY SMT, <1>1, <1>2, <1>4, <2>4
    <3>2. (Tail(s) \o t)[i] = t[i - (Len(s) - 1)]
      BY SMT, <1>1, <1>2, <2>4, <3>1
    <3>3. (s \o t)[i + 1] = t[i + 1 - Len(s)]
      BY SMT, <1>2, <2>4, <3>1
    <3> QED BY <2>2, <3>1, <3>2, <3>3
  <2> QED BY SMT, <1>2, <2>3, <2>4
<1> QED BY SMT, <1>1, <1>2, <1>3, <1>4, <1>5, SeqEqual

\* The octet at the head of the driver does not begin in the future.
LEMMA BegunTyped ==
    ASSUME LineTypes
    PROVE  Begun \in Int /\ now \in Int /\ Begun =< now
<1>1. now \in Int /\ shift \in 0 .. CHARACTER - 1 /\ CHARACTER \in Nat
  BY SMT, LineAssumption DEF LineTypes
<1> QED BY SMT, <1>1 DEF Begun

\* An octet more on the line.
LEMMA AirGrows ==
    ASSUME LineTypes, NEW o \in Heard, air' = Append(air, o)
    PROVE  /\ Len(air) \in Nat /\ DOMAIN air = 1 .. Len(air)
           /\ DOMAIN air' = DOMAIN air \cup {Len(air) + 1} /\ Len(air) + 1 \notin DOMAIN air
           /\ \A i \in DOMAIN air : air'[i] = air[i]
           /\ air'[Len(air) + 1] = o
           /\ \A i \in DOMAIN air' : \A j \in 1 .. i - 1 : j \in DOMAIN air /\ air'[j] = air[j]
<1>1. air \in Seq(Heard) /\ o \in Heard
  BY DEF LineTypes
<1>2. Len(air) \in Nat /\ DOMAIN air = 1 .. Len(air) /\ Len(air') = Len(air) + 1 /\ DOMAIN air' = 1 .. Len(air')
  BY SMT, <1>1
<1>3. \A i \in 1 .. Len(air) : air'[i] = air[i]
  BY SMT, <1>1
<1>4. air'[Len(air) + 1] = o
  BY SMT, <1>1
<1> QED BY SMT, <1>2, <1>3, <1>4

\* An octet on the line has a time and a sender.
LEMMA AirTyped ==
    ASSUME LineTypes
    PROVE  \A i \in DOMAIN air : air[i].at \in Nat /\ air[i].from \in Nat /\ air[i].at =< now
<1>1. air \in Seq(Heard) /\ \A i \in DOMAIN air : air[i].at =< now
  BY DEF LineTypes
<1>2. \A i \in DOMAIN air : air[i] \in Heard
  BY SMT, <1>1
<1>3. \A o \in Heard : o.at \in Nat /\ o.from \in Nat
  BY DEF Heard
<1> QED BY <1>1, <1>2, <1>3

\* The octets in the driver come first in the queue.
LEMMA QueueTyped ==
    ASSUME LineTypes
    PROVE  /\ Queue \in Seq(Written)
           /\ Len(Queue) = Len(port) + Len(sink.buffer)
           /\ \A a \in DOMAIN Queue : Queue[a].from \in Nat \ {0}
           /\ port # <<>> => Queue # <<>> /\ Queue[1] = Head(port)
<1>1. port \in Seq(Written) /\ sink.buffer \in Seq(Written)
  BY DEF LineTypes, SinkState
<1>2. Queue \in Seq(Written) /\ Len(Queue) = Len(port) + Len(sink.buffer)
  BY SMT, <1>1 DEF Queue
<1>3. \A a \in DOMAIN Queue : Queue[a] \in Written
  BY SMT, <1>2
<1>4. \A a \in DOMAIN Queue : Queue[a].from \in Nat \ {0}
  BY <1>3 DEF Written
<1>5. ASSUME port # <<>> PROVE Queue # <<>> /\ Queue[1] = Head(port)
  BY SMT, <1>1, <1>2, <1>5 DEF Queue
<1> QED BY <1>2, <1>4, <1>5

\* What a send returns does not change what was known of the ones before it.
LEMMA PunctualStays ==
    ASSUME LineTypes, NEW r, results' = Append(results, r), NEW n \in Nat, n =< Len(results) + 1
    PROVE  Punctual(n)' <=> Punctual(n)
<1>1. results \in Seq(Result) /\ Len(results) \in Nat
  BY SMT DEF LineTypes
<1>2. \A k \in 1 .. n - 1 : k \in 1 .. Len(results)
  BY SMT, <1>1
<1>3. \A k \in 1 .. n - 1 : results'[k] = results[k]
  BY SMT, <1>1, <1>2
<1> QED BY <1>3 DEF Punctual

\* Frames already on the line stay apart when a send returns.
LEMMA ApartStays ==
    ASSUME LineTypes, InOrder, FramesApart, air' = air,
           \/ results' = results
           \/ \E r : results' = Append(results, r)
    PROVE  FramesApart'
<1>1. results \in Seq(Result) /\ Len(results) \in Nat
  BY SMT DEF LineTypes
<1>2. \A i \in DOMAIN air : air[i].from \in Nat /\ air[i].from =< Len(results) + 1
  BY SMT, <1>1, AirTyped DEF InOrder, LastSend
<1>3. \A i \in DOMAIN air : \A k \in 1 .. air[i].from - 1 : k \in 1 .. Len(results)
  BY SMT, <1>1, <1>2
<1>4. \A i \in DOMAIN air : \A k \in 1 .. air[i].from - 1 : results'[k] = results[k]
  BY SMT, <1>1, <1>3
<1>5. \A i \in DOMAIN air : Starts(i)' => Starts(i)
  BY <1>4 DEF Starts
<1> QED BY <1>5 DEF FramesApart, Silence

\* A send returns, and the queue stays as it is.
LEMMA ReturnKeeps ==
    ASSUME LineTypes, InOrder, WaitsSilent, FramesApart,
           air' = air, Queue' = Queue, Begun' = Begun, ~Writing',
           NEW r, results' = Append(results, r)
    PROVE  InOrder' /\ WaitsSilent' /\ FramesApart'
<1>1. results \in Seq(Result) /\ Len(results) \in Nat
  BY SMT DEF LineTypes
<1>2. Len(results') = Len(results) + 1
  BY SMT, <1>1
<1>3. LastSend \in Nat /\ LastSend' = Len(results) + 1 /\ LastSend =< LastSend'
  BY SMT, <1>1, <1>2 DEF LastSend
<1>4. \A a \in DOMAIN Queue : Queue[a].from \in Nat
  BY QueueTyped
<1>5. \A i \in DOMAIN air : air[i].from \in Nat
  BY AirTyped
<1>6. InOrder'
  BY SMT, <1>3, <1>4, <1>5 DEF InOrder
<1>7. \A a \in DOMAIN Queue : Queue[a].from =< Len(results) + 1
  BY SMT, <1>1, <1>4 DEF InOrder, LastSend
<1>8. \A a \in DOMAIN Queue : Punctual(Queue[a].from)' <=> Punctual(Queue[a].from)
  <2> SUFFICES ASSUME NEW a \in DOMAIN Queue PROVE Punctual(Queue[a].from)' <=> Punctual(Queue[a].from)
    OBVIOUS
  <2> DEFINE n == Queue[a].from
  <2>1. n \in Nat /\ n =< Len(results) + 1
    BY <1>4, <1>7
  <2>2. n' = n
    OBVIOUS
  <2> HIDE DEF n
  <2>3. \A m \in Nat : m =< Len(results) + 1 => (Punctual(m)' <=> Punctual(m))
    BY PunctualStays
  <2> QED BY <2>1, <2>2, <2>3 DEF n, Punctual
<1>9. WaitsSilent'
  BY <1>8 DEF WaitsSilent
<1>10. FramesApart'
  BY ApartStays
<1> QED BY <1>6, <1>9, <1>10

\* Nothing is put on the line and no send returns: time may pass and octets
\* may move from the buffer to the driver.
LEMMA QuietKeeps ==
    ASSUME LineTypes, InOrder, WaitsSilent, FramesApart,
           air' = air, Queue' = Queue, results' = results, Writing' = Writing,
           Begun \in Int, Begun' \in Int, Begun =< Begun'
    PROVE  InOrder' /\ WaitsSilent' /\ FramesApart'
<1>1. InOrder'
  BY DEF InOrder, LastSend
<1>2. \A i \in DOMAIN air : air[i].at + t3_5 \in Int
  BY SMT, TimingAssumption, AirTyped
<1>3. \A n : Punctual(n)' <=> Punctual(n)
  BY DEF Punctual
<1>4. WaitsSilent'
  BY SMT, <1>2, <1>3 DEF WaitsSilent
<1>5. FramesApart'
  BY ApartStays
<1> QED BY <1>1, <1>4, <1>5

\* An octet that took c to shift out, d after another at the moment t.
LEMMA LaterBy ==
    \A n, c, t, d \in Int : t + d =< n + 1 - c => n + 1 - c - t >= d
BY SMT

\* Octets written after octets: the order of writing them is all that counts.
LEMMA WrittenAssociates ==
    \A s, t, u \in Seq(Written) : (s \o t) \o u = s \o (t \o u)
<1> SUFFICES ASSUME NEW s \in Seq(Written), NEW t \in Seq(Written), NEW u \in Seq(Written)
             PROVE  (s \o t) \o u = s \o (t \o u)
  OBVIOUS
<1> QED BY SMT

\* A frame enters the buffer once the silence before it is over.
LEMMA FrameEnters ==
    ASSUME LineTypes, InOrder, WaitsSilent, RestsSilent, FramesApart, LineTypes',
           sink.pc = "waiting", now >= sink.until, Writing',
           air' = air, results' = results, now' = now, shift' = shift, port' = port,
           NEW octets \in Seq(Written), sink'.buffer = sink.buffer \o octets,
           \A k \in DOMAIN octets : octets[k].from = Len(results) + 1
    PROVE  InOrder' /\ WaitsSilent' /\ FramesApart'
<1> DEFINE n == Len(results) + 1
<1>0. results \in Seq(Result)
  BY DEF LineTypes
<1>1. Len(results) \in Nat /\ n \in Nat
  BY SMT, <1>0
<1>2. LastSend = Len(results) /\ LastSend' = n
  BY DEF LastSend, Writing
<1>3. /\ Queue \in Seq(Written) /\ port \in Seq(Written) /\ sink.buffer \in Seq(Written)
      /\ \A a \in DOMAIN Queue : Queue[a].from \in Nat
  BY QueueTyped DEF LineTypes, SinkState
<1>4. Queue' = Queue \o octets
  <2>1. Queue' = port \o (sink.buffer \o octets)
    BY DEF Queue
  <2>2. (port \o sink.buffer) \o octets = port \o (sink.buffer \o octets)
    BY <1>3, WrittenAssociates
  <2> QED BY <2>1, <2>2 DEF Queue
<1>5. \A a \in DOMAIN Queue : Queue[a].from =< n /\ Queue[a].from < n
  BY SMT, <1>1, <1>2, <1>3 DEF InOrder
<1>6. \A i \in DOMAIN air : air[i].from \in Nat /\ air[i].at \in Nat /\ air[i].from < n
  BY SMT, <1>1, <1>2, AirTyped DEF InOrder
<1>7. Len(Queue) \in Nat /\ Len(octets) \in Nat /\ DOMAIN Queue = 1 .. Len(Queue)
      /\ DOMAIN Queue' = 1 .. Len(Queue) + Len(octets) /\ DOMAIN octets = 1 .. Len(octets)
  BY SMT, <1>3, <1>4
<1>8. \A a \in DOMAIN Queue' :
         \/ a \in DOMAIN Queue /\ Queue'[a] = Queue[a]
         \/ a > Len(Queue) /\ Queue'[a].from = n
  <2> SUFFICES ASSUME NEW a \in DOMAIN Queue', a \notin DOMAIN Queue
               PROVE  a > Len(Queue) /\ Queue'[a].from = n
    BY SMT, <1>3, <1>4, <1>7
  <2>1. a \in Nat /\ a > Len(Queue) /\ a - Len(Queue) \in DOMAIN octets
    BY SMT, <1>7
  <2>2. Queue'[a] = octets[a - Len(Queue)]
    BY SMT, <1>3, <1>4, <1>7, <2>1
  <2> QED BY <2>1, <2>2
<1>9. InOrder'
  <2>1. \A i \in DOMAIN air : air[i].from =< LastSend'
    BY SMT, <1>1, <1>2, <1>6
  <2>2. \A a \in DOMAIN Queue' : Queue'[a].from =< LastSend'
    BY SMT, <1>1, <1>2, <1>5, <1>8
  <2>3. ASSUME NEW a \in DOMAIN Queue', NEW b \in DOMAIN Queue', a =< b
        PROVE  Queue'[a].from =< Queue'[b].from
    <3>1. CASE b \in DOMAIN Queue /\ Queue'[b] = Queue[b]
      <4>1. a \in DOMAIN Queue
        BY SMT, <1>7, <2>3, <3>1
      <4>2. Queue'[a] = Queue[a]
        BY SMT, <1>7, <1>8, <4>1
      <4> QED BY <2>3, <3>1, <4>1, <4>2 DEF InOrder
    <3>2. CASE Queue'[b].from = n
      <4>1. CASE a \in DOMAIN Queue /\ Queue'[a] = Queue[a]
        BY <1>5, <3>2, <4>1
      <4>2. CASE Queue'[a].from = n
        BY SMT, <1>1, <3>2, <4>2
      <4> QED BY <1>8, <4>1, <4>2
    <3> QED BY <1>8, <3>1, <3>2
  <2>4. ASSUME NEW i \in DOMAIN air, NEW a \in DOMAIN Queue'
        PROVE  air[i].from =< Queue'[a].from
    <3>1. CASE a \in DOMAIN Queue /\ Queue'[a] = Queue[a]
      BY <3>1 DEF InOrder
    <3>2. CASE Queue'[a].from = n
      BY SMT, <1>1, <1>6, <3>2
    <3> QED BY <1>8, <3>1, <3>2
  <2> QED BY <2>1, <2>2, <2>3, <2>4 DEF InOrder
<1>10. \A m : Punctual(m)' <=> Punctual(m)
  BY DEF Punctual
<1>11. ASSUME Punctual(n)
       PROVE  Queue = <<>> /\ shift = 0 /\ \A i \in DOMAIN air : air[i].from > 0 => air[i].at + t3_5 =< Begun'
  <2>1. Queue = <<>> /\ \A i \in DOMAIN air : air[i].from > 0 => air[i].at + t3_5 =< sink.until
    BY <1>11 DEF RestsSilent, Writing
  <2>2. port = <<>>
    BY SMT, <1>3, <2>1 DEF Queue
  <2>3. shift = 0 /\ Begun' = now
    BY <2>2 DEF LineTypes, Begun
  <2>4. now \in Int /\ sink.until \in Int
    BY SMT DEF LineTypes, SinkState
  <2>5. \A i \in DOMAIN air : air[i].at + t3_5 \in Int
    BY SMT, <1>6, TimingAssumption
  <2> QED BY SMT, <2>1, <2>3, <2>4, <2>5
<1>12. Begun' = Begun
  BY DEF Begun
<1>13. WaitsSilent'
  <2> SUFFICES ASSUME NEW a \in DOMAIN Queue', Punctual(Queue'[a].from)
               PROVE  /\ \A b \in DOMAIN Queue' : Queue'[a].from =< Queue'[b].from
                      /\ \A i \in DOMAIN air :
                            air[i].from > 0 /\ air[i].from < Queue'[a].from => air[i].at + t3_5 =< Begun'
    BY <1>10 DEF WaitsSilent
  <2>1. CASE a \in DOMAIN Queue /\ Queue'[a] = Queue[a]
    <3>1. /\ \A b \in DOMAIN Queue : Queue[a].from =< Queue[b].from
          /\ \A i \in DOMAIN air :
                air[i].from > 0 /\ air[i].from < Queue[a].from => air[i].at + t3_5 =< Begun
      BY <2>1 DEF WaitsSilent
    <3>2. \A b \in DOMAIN Queue' : Queue[a].from =< Queue'[b].from
      BY <1>5, <1>8, <2>1, <3>1
    <3> QED BY <1>12, <2>1, <3>1, <3>2
  <2>2. CASE Queue'[a].from = n
    <3>1. Queue = <<>> /\ \A i \in DOMAIN air : air[i].from > 0 => air[i].at + t3_5 =< Begun'
      BY <1>11, <2>2
    <3>2. \A b \in DOMAIN Queue' : Queue'[b].from = n
      BY SMT, <1>7, <1>8, <3>1
    <3> QED BY SMT, <1>1, <2>2, <3>1, <3>2
  <2> QED BY <1>8, <2>1, <2>2
<1>14. FramesApart'
  BY ApartStays
<1> QED BY <1>9, <1>13, <1>14

\* The silence before an octet that is on the line now.
LEMMA SilenceBefore ==
    ASSUME NEW i, NEW j, now \in Int, CHARACTER \in Int, air[j].at \in Int,
           air'[i].at = now + 1, air'[j].at = air[j].at
    PROVE  Silence(j, i)' = now + 1 - CHARACTER - air[j].at
BY SMT DEF Silence

\* The octet at the head of the driver has left; if it is the first of its
\* send, the silence before it was long enough.
LEMMA OctetLeaves ==
    ASSUME LineTypes, InOrder, WaitsSilent, FramesApart,
           port # <<>>, port' = Tail(port), sink' = sink, results' = results,
           now' = now + 1, shift' = 0,
           (IF shift = 0 THEN CHARACTER ELSE shift) = 1,
           air' = Append(air, [at |-> now + 1, byte |-> Head(port).byte, from |-> Head(port).from])
    PROVE  InOrder' /\ WaitsSilent' /\ FramesApart'
<1> DEFINE new == Len(air) + 1
           f == Queue[1].from
<1>1. /\ now \in Nat /\ shift \in Nat /\ CHARACTER \in Nat /\ t3_5 \in Nat
      /\ port \in Seq(Written) /\ sink.buffer \in Seq(Written) /\ air \in Seq(Heard)
  BY SMT, LineAssumption, TimingAssumption DEF LineTypes, SinkState
<1>2. /\ Queue \in Seq(Written) /\ Queue # <<>> /\ Queue[1] = Head(port)
      /\ \A a \in DOMAIN Queue : Queue[a].from \in Nat \ {0}
  BY QueueTyped
<1>3. Queue' = Tail(Queue)
  <2>1. Queue' = Tail(port) \o sink.buffer
    BY DEF Queue
  <2> QED BY <1>1, <2>1, TailOfConcat DEF Queue
<1>4. 1 \in DOMAIN Queue /\ f \in Nat \ {0}
  BY SMT, <1>2
<1>5. \A a \in DOMAIN Queue' : a + 1 \in DOMAIN Queue /\ Queue'[a] = Queue[a + 1]
  BY SMT, <1>2, <1>3
<1>6. \A a \in DOMAIN Queue' : f =< Queue'[a].from
  <2>1. \A b \in DOMAIN Queue : 1 =< b
    BY SMT, <1>2
  <2>2. \A b \in DOMAIN Queue : f =< Queue[b].from
    BY <1>4, <2>1 DEF InOrder
  <2> QED BY <1>5, <2>2
<1>7. Begun = now + 1 - CHARACTER /\ Begun' = now + 1 /\ Begun \in Int /\ Begun < Begun'
  BY SMT, <1>1, LineAssumption DEF Begun
<1>8. /\ DOMAIN air' = DOMAIN air \cup {new} /\ new \notin DOMAIN air
      /\ \A i \in DOMAIN air : air'[i] = air[i]
      /\ air'[new].at = now + 1 /\ air'[new].from = f
      /\ \A i \in DOMAIN air' : \A j \in 1 .. i - 1 : j \in DOMAIN air /\ air'[j] = air[j]
  <2>0. Head(port) \in Written
    BY SMT, <1>1
  <2>1. [at |-> now + 1, byte |-> Head(port).byte, from |-> Head(port).from] \in Heard
    <3>1. Head(port).byte \in Octet /\ Head(port).from \in Nat
      BY <2>0 DEF Written
    <3> QED BY SMT, <1>1, <3>1 DEF Heard
  <2> QED BY SMT, <1>2, <2>1, AirGrows
<1>9. \A i \in DOMAIN air : air[i].at \in Nat /\ air[i].from \in Nat /\ air[i].from =< f
  BY <1>4, AirTyped DEF InOrder
<1>10. LastSend' = LastSend /\ Writing' = Writing
  BY DEF LastSend, Writing
<1>11. f =< LastSend
  BY <1>4 DEF InOrder
<1>12. InOrder'
  <2>1. \A i \in DOMAIN air' : air'[i].from =< LastSend'
    BY <1>8, <1>10, <1>11 DEF InOrder
  <2>2. \A a \in DOMAIN Queue' : Queue'[a].from =< LastSend'
    BY <1>5, <1>10 DEF InOrder
  <2>3. \A a, b \in DOMAIN Queue' : a =< b => a \in Int /\ b \in Int /\ a + 1 =< b + 1
    BY SMT, <1>2, <1>3
  <2>4. \A a, b \in DOMAIN Queue' : a =< b => Queue'[a].from =< Queue'[b].from
    BY <1>5, <2>3 DEF InOrder
  <2>5. \A i \in DOMAIN air, a \in DOMAIN Queue' : air[i].from =< Queue'[a].from
    BY <1>5 DEF InOrder
  <2>6. \A i \in DOMAIN air', a \in DOMAIN Queue' : air'[i].from =< Queue'[a].from
    BY <1>6, <1>8, <2>5
  <2> QED BY <2>1, <2>2, <2>4, <2>6 DEF InOrder
<1>13. \A m : Punctual(m)' <=> Punctual(m)
  BY DEF Punctual
<1>14. WaitsSilent'
  <2> SUFFICES ASSUME NEW a \in DOMAIN Queue', Punctual(Queue'[a].from)
               PROVE  /\ \A b \in DOMAIN Queue' : Queue'[a].from =< Queue'[b].from
                      /\ \A i \in DOMAIN air' :
                            air'[i].from > 0 /\ air'[i].from < Queue'[a].from => air'[i].at + t3_5 =< Begun'
    BY <1>13 DEF WaitsSilent
  <2>1. a + 1 \in DOMAIN Queue /\ Queue'[a] = Queue[a + 1]
    BY <1>5
  <2>2. /\ \A b \in DOMAIN Queue : Queue'[a].from =< Queue[b].from
        /\ \A i \in DOMAIN air :
              air[i].from > 0 /\ air[i].from < Queue'[a].from => air[i].at + t3_5 =< Begun
    BY <2>1 DEF WaitsSilent
  <2>3. \A b \in DOMAIN Queue' : Queue'[a].from =< Queue'[b].from
    BY <1>5, <2>2
  <2>4. Queue'[a].from =< f /\ Queue'[a].from \in Nat
    BY <1>2, <1>4, <2>1, <2>2
  <2>5. ~(air'[new].from < Queue'[a].from)
    BY SMT, <1>4, <1>8, <2>4
  <2>0. t3_5 \in Int /\ now \in Int
    BY SMT, <1>1
  <2>6. \A i \in DOMAIN air : air[i].at + t3_5 \in Int
    BY SMT, <1>9, <2>0
  <2>7. ASSUME NEW i \in DOMAIN air, air[i].from > 0, air[i].from < Queue'[a].from
        PROVE  air[i].at + t3_5 =< Begun'
    <3>1. air[i].at + t3_5 =< Begun
      BY <2>2, <2>7
    <3>2. air[i].at + t3_5 \in Int /\ Begun \in Int /\ Begun' \in Int /\ Begun < Begun'
      BY SMT, <1>7, <2>0, <2>6
    <3> QED BY SMT, <3>1, <3>2
  <2> QED BY <1>8, <2>3, <2>5, <2>7
<1>15. FramesApart'
  <2> SUFFICES ASSUME NEW i \in DOMAIN air', Starts(i)', NEW j \in 1 .. i - 1, air'[j].from > 0
               PROVE  Silence(j, i)' >= t3_5
    BY DEF FramesApart
  <2>1. j \in DOMAIN air /\ air'[j] = air[j]
    BY <1>8
  <2>2. CASE i \in DOMAIN air
    <3>1. air'[i] = air[i] /\ \A k \in 1 .. i - 1 : k \in DOMAIN air /\ air'[k] = air[k]
      BY <1>8, <2>2
    <3>2. Starts(i)
      BY <3>1 DEF Starts
    <3>3. Silence(j, i) >= t3_5
      BY <2>1, <2>2, <3>2 DEF FramesApart
    <3> QED BY <2>1, <3>1, <3>3 DEF Silence
  <2>3. CASE i = new
    <3>1. Punctual(f)
      BY <1>8, <2>3 DEF Starts, Punctual
    <3>2. air[j].from # f
      BY <1>8, <2>1, <2>3 DEF Starts
    <3>3. air[j].from < f
      <4>1. air[j].from \in Nat /\ air[j].from =< f /\ f \in Nat
        BY <1>4, <1>9, <2>1
      <4> QED BY SMT, <3>2, <4>1
    <3>4. air[j].at + t3_5 =< Begun
      BY <1>4, <2>1, <3>1, <3>3 DEF WaitsSilent
    <3>5. air'[i].at = now + 1 /\ air'[j].at = air[j].at
      BY <1>8, <2>1, <2>3
    <3>6. now \in Int /\ CHARACTER \in Int /\ t3_5 \in Int /\ air[j].at \in Int
      BY SMT, <1>1, <1>9, <2>1
    <3>7. Silence(j, i)' = now + 1 - CHARACTER - air[j].at
      BY <3>5, <3>6, SilenceBefore
    <3>8. air[j].at + t3_5 =< now + 1 - CHARACTER
      BY <1>7, <3>4
    <3>9. now + 1 - CHARACTER - air[j].at >= t3_5
      BY <3>6, <3>8, LaterBy
    <3> QED BY <3>7, <3>9
  <2> QED BY <1>8, <2>2, <2>3
<1> QED BY <1>12, <1>14, <1>15

\* An octet of the other station is no send's.
LEMMA OtherSpeaks ==
    ASSUME LineInv, NEW octet \in Octet, air' = Append(air, [at |-> now, byte |-> octet, from |-> 0]),
           port' = port, sink' = sink, results' = results, now' = now, shift' = shift
    PROVE  InOrder' /\ WaitsSilent' /\ RestsSilent' /\ FramesApart'
<1> DEFINE new == Len(air) + 1
<1>0. LineTypes /\ InOrder /\ WaitsSilent /\ RestsSilent /\ FramesApart
  BY DEF LineInv
<1>1. now \in Nat /\ [at |-> now, byte |-> octet, from |-> 0] \in Heard
  BY SMT, <1>0, LineAssumption DEF LineTypes, Heard
<1>2. /\ DOMAIN air' = DOMAIN air \cup {new}
      /\ \A i \in DOMAIN air : air'[i] = air[i]
      /\ air'[new].from = 0
      /\ \A i \in DOMAIN air' : \A j \in 1 .. i - 1 : j \in DOMAIN air /\ air'[j] = air[j]
  BY SMT, <1>0, <1>1, AirGrows
<1>3. Queue' = Queue /\ Writing' = Writing /\ LastSend' = LastSend /\ Begun' = Begun
  BY DEF Queue, Writing, LastSend, Begun
<1>4. \A m : Punctual(m)' <=> Punctual(m)
  BY DEF Punctual
<1>5. LastSend \in Nat /\ \A a \in DOMAIN Queue : Queue[a].from \in Nat
  <2>1. results \in Seq(Result)
    BY <1>0 DEF LineTypes
  <2>2. LastSend \in Nat
    BY SMT, <2>1 DEF LastSend
  <2> QED BY <1>0, <2>2, QueueTyped
<1>6. ~(0 > 0)
  BY SMT
<1>7. InOrder'
  <2>1. ASSUME NEW i \in DOMAIN air' PROVE air'[i].from =< LastSend
    <3>1. CASE i \in DOMAIN air
      BY <1>0, <1>2, <3>1 DEF InOrder
    <3>2. CASE i = new
      BY SMT, <1>2, <1>5, <3>2
    <3> QED BY <1>2, <2>1, <3>1, <3>2
  <2>2. ASSUME NEW i \in DOMAIN air', NEW a \in DOMAIN Queue
        PROVE  air'[i].from =< Queue[a].from
    <3>1. CASE i \in DOMAIN air
      BY <1>0, <1>2, <3>1 DEF InOrder
    <3>2. CASE i = new
      BY SMT, <1>2, <1>5, <3>2
    <3> QED BY <1>2, <2>2, <3>1, <3>2
  <2> QED BY <1>0, <1>3, <2>1, <2>2 DEF InOrder
<1>8. WaitsSilent'
  <2>1. \A a \in DOMAIN Queue : Punctual(Queue[a].from) =>
           /\ \A b \in DOMAIN Queue : Queue[a].from =< Queue[b].from
           /\ \A i \in DOMAIN air' :
                 air'[i].from > 0 /\ air'[i].from < Queue[a].from => air'[i].at + t3_5 =< Begun
    BY <1>0, <1>2, <1>6 DEF WaitsSilent
  <2> QED BY <1>3, <1>4, <2>1 DEF WaitsSilent
<1>9. RestsSilent'
  <2> SUFFICES ASSUME ~Writing, Punctual(Len(results) + 1)
               PROVE  /\ Queue = <<>>
                      /\ \A i \in DOMAIN air' : air'[i].from > 0 =>
                            /\ air'[i].at =< sink.last_tx_end
                            /\ sink.pc = "waiting" => air'[i].at + t3_5 =< sink.until
    BY <1>3, <1>4 DEF RestsSilent
  <2> QED BY <1>0, <1>2, <1>6 DEF RestsSilent
<1>10. FramesApart'
  <2> SUFFICES ASSUME NEW i \in DOMAIN air', Starts(i)', NEW j \in 1 .. i - 1, air'[j].from > 0
               PROVE  Silence(j, i)' >= t3_5
    BY DEF FramesApart
  <2>1. i # new
    BY <1>2, <1>6 DEF Starts
  <2>2. i \in DOMAIN air /\ air'[i] = air[i] /\ \A k \in 1 .. i - 1 : air'[k] = air[k]
    BY <1>2, <2>1
  <2>3. Starts(i)
    BY <2>2 DEF Starts
  <2>4. Silence(j, i) >= t3_5
    BY <1>0, <2>2, <2>3 DEF FramesApart
  <2> QED BY <2>2, <2>4 DEF Silence
<1> QED BY <1>7, <1>8, <1>9, <1>10

\* Sends that have not been cut short yet were not before.
LEMMA PunctualBefore ==
    ASSUME LineTypes, NEW r, results' = Append(results, r), Punctual(Len(results) + 1)'
    PROVE  Punctual(Len(results) + 1) /\ r \notin {"Timeout", "Io"}
<1> DEFINE n == Len(results)
<1>0. results \in Seq(Result)
  BY DEF LineTypes
<1>1. n \in Nat /\ Len(results') = n + 1 /\ results'[n + 1] = r /\ \A k \in 1 .. n : results'[k] = results[k]
  BY SMT, <1>0
<1>2. \A k \in 1 .. n + 1 : results'[k] \notin {"Timeout", "Io"}
  BY SMT, <1>1 DEF Punctual
<1>3. r \notin {"Timeout", "Io"} /\ \A k \in 1 .. n : results[k] \notin {"Timeout", "Io"}
  BY SMT, <1>1, <1>2
<1> QED BY SMT, <1>1, <1>3 DEF Punctual

\* A send that returns without having written leaves the silence known.
LEMMA ReturnRests ==
    ASSUME LineTypes, RestsSilent, ~Writing, NEW r, results' = Append(results, r),
           Queue' = Queue, air' = air, sink'.pc = "ready", sink'.last_tx_end = sink.last_tx_end
    PROVE  RestsSilent'
<1> SUFFICES ASSUME Punctual(Len(results) + 1)'
             PROVE  /\ Queue = <<>>
                    /\ \A i \in DOMAIN air : air[i].from > 0 => air[i].at =< sink.last_tx_end
  BY DEF RestsSilent
<1>1. Punctual(Len(results) + 1)
  BY PunctualBefore
<1> QED BY <1>1 DEF RestsSilent

\* The delay before a frame: when it is over, t3.5 have passed since the end
\* of the last transmission.
LEMMA DelayCovers ==
    ASSUME NEW last \in Int, NEW instant \in Int, last # None
    PROVE  /\ remaining_interframe_delay(last, instant) \in Int
           /\ last + t3_5 =< instant + remaining_interframe_delay(last, instant)
BY SMT, TimingAssumption DEF remaining_interframe_delay, None

\* SerialSink::send, up to its delay.
LEMMA SendKeeps ==
    ASSUME LineInv, NEW frame \in Sends, send(frame)
    PROVE  LineInv'
<1>0. LineTypes /\ InOrder /\ WaitsSilent /\ RestsSilent /\ FramesApart
  BY DEF LineInv
<1>1. /\ sink.pc = "ready" /\ port' = port /\ shift' = shift /\ now' = now
      /\ air' = air /\ speech' = speech /\ unread' = unread
  BY DEF send
<1>2. Begun' = Begun /\ Begun \in Int
  BY <1>0, <1>1, BegunTyped DEF Begun
<1>3. CASE returns("InvalidInput") /\ sink' = sink
  <2>1. results' = Append(results, "InvalidInput")
    BY <1>3 DEF returns
  <2>2. Queue' = Queue /\ ~Writing /\ ~Writing'
    BY <1>1, <1>3 DEF Queue, Writing
  <2>3. LineTypes'
    <3>1. results' \in Seq(Result)
      BY SMT, <1>0, <2>1 DEF LineTypes, Result
    <3> QED BY <1>0, <1>1, <1>3, <3>1 DEF LineTypes
  <2>4. InOrder' /\ WaitsSilent' /\ FramesApart'
    BY <1>0, <1>1, <1>2, <2>1, <2>2, ReturnKeeps
  <2>5. RestsSilent'
    BY <1>0, <1>1, <1>3, <2>1, <2>2, ReturnRests
  <2> QED BY <2>3, <2>4, <2>5 DEF LineInv
<1>4. CASE /\ sink' = [sink EXCEPT !.pc = "waiting", !.frame = frame,
                          !.until = now + remaining_interframe_delay(sink.last_tx_end, now)]
           /\ results' = results
  <2>0. /\ now \in Int /\ sink.last_tx_end \in Int
        /\ sink \in SinkState
    BY SMT, <1>0, LineAssumption DEF LineTypes, SinkState
  <2>1. remaining_interframe_delay(sink.last_tx_end, now) \in Int
    BY SMT, <2>0, TimingAssumption DEF remaining_interframe_delay, None
  <2>2. /\ sink'.pc = "waiting" /\ sink'.frame = frame /\ sink'.buffer = sink.buffer
        /\ sink'.until = now + remaining_interframe_delay(sink.last_tx_end, now)
        /\ sink'.last_tx_end = sink.last_tx_end
        /\ sink' \in SinkState
    <3> DEFINE t == now + remaining_interframe_delay(sink.last_tx_end, now)
    <3>1. t \in Int
      BY SMT, <2>0, <2>1
    <3>2. sink' = [sink EXCEPT !.pc = "waiting", !.frame = frame, !.until = t]
      BY <1>4
    <3> HIDE DEF t
    <3>3. /\ sink'.pc = "waiting" /\ sink'.frame = frame /\ sink'.buffer = sink.buffer
          /\ sink'.until = t /\ sink'.last_tx_end = sink.last_tx_end
          /\ sink' \in SinkState
      BY <2>0, <3>1, <3>2 DEF SinkState
    <3> QED BY <3>3 DEF t
  <2>3. Queue' = Queue /\ ~Writing /\ ~Writing' /\ Writing' = Writing
    BY <1>1, <2>2 DEF Queue, Writing
  <2>4. LineTypes'
    BY <1>0, <1>1, <1>4, <2>2 DEF LineTypes
  <2>5. InOrder' /\ WaitsSilent' /\ FramesApart'
    BY SMT, <1>0, <1>1, <1>2, <1>4, <2>3, QuietKeeps
  <2>6. RestsSilent'
    <3> SUFFICES ASSUME Punctual(Len(results) + 1)
                 PROVE  /\ Queue = <<>>
                        /\ \A i \in DOMAIN air : air[i].from > 0 =>
                              /\ air[i].at =< sink.last_tx_end
                              /\ air[i].at + t3_5 =< sink'.until
      BY <1>1, <1>4, <2>2, <2>3 DEF RestsSilent, Punctual
    <3>1. Queue = <<>> /\ \A i \in DOMAIN air : air[i].from > 0 => air[i].at =< sink.last_tx_end
      BY <1>0, <2>3 DEF RestsSilent
    <3>2. ASSUME NEW i \in DOMAIN air, air[i].from > 0
          PROVE  air[i].at + t3_5 =< sink'.until
      <4>1. air[i].at \in Nat /\ air[i].at =< sink.last_tx_end
        BY <1>0, <3>1, <3>2, AirTyped
      <4>2. sink.last_tx_end # None
        BY SMT, <2>0, <4>1 DEF None
      <4>3. sink.last_tx_end + t3_5 =< sink'.until
        BY <2>0, <2>2, <4>2, DelayCovers
      <4>4. sink'.until \in Int
        BY <2>2 DEF SinkState
      <4> QED BY SMT, <2>0, <4>1, <4>3, <4>4, TimingAssumption
    <3> QED BY <3>1, <3>2
  <2> QED BY <2>4, <2>5, <2>6 DEF LineInv
<1> QED BY <1>3, <1>4 DEF send

\* The delay is over: the frame is refused, or enters the buffer.
LEMMA StartKeeps ==
    ASSUME LineInv, start_write
    PROVE  LineInv'
<1> DEFINE encoded == encode(sink.frame)
           octets == [k \in DOMAIN encoded.val |-> [byte |-> encoded.val[k], from |-> Len(results) + 1]]
<1>0. LineTypes /\ InOrder /\ WaitsSilent /\ RestsSilent /\ FramesApart
  BY DEF LineInv
<1>1. /\ sink.pc = "waiting" /\ now >= sink.until /\ port' = port /\ shift' = shift /\ now' = now
      /\ air' = air /\ speech' = speech /\ unread' = unread
  BY DEF start_write
<1>2. Begun' = Begun /\ Begun \in Int
  BY <1>0, <1>1, BegunTyped DEF Begun
<1>3. /\ now \in Int /\ sink.frame \in Sends
      /\ sink \in SinkState
      /\ results \in Seq(Result)
  BY SMT, <1>0, <1>1, LineAssumption DEF LineTypes
<1>4. CASE sink' = [sink EXCEPT !.pc = "ready"] /\ returns("Frame")
  <2>1. results' = Append(results, "Frame")
    BY <1>4 DEF returns
  <2>2. /\ sink'.pc = "ready" /\ sink'.buffer = sink.buffer /\ sink'.last_tx_end = sink.last_tx_end
        /\ sink' \in SinkState
    BY <1>3, <1>4 DEF SinkState
  <2>3. Queue' = Queue /\ ~Writing /\ ~Writing'
    BY <1>1, <2>2 DEF Queue, Writing
  <2>4. LineTypes'
    <3>1. results' \in Seq(Result)
      BY SMT, <1>3, <2>1 DEF Result
    <3> QED BY <1>0, <1>1, <2>2, <3>1 DEF LineTypes
  <2>5. InOrder' /\ WaitsSilent' /\ FramesApart'
    BY <1>0, <1>1, <1>2, <2>1, <2>3, ReturnKeeps
  <2>6. RestsSilent'
    BY <1>0, <1>1, <2>1, <2>2, <2>3, ReturnRests
  <2> QED BY <2>4, <2>5, <2>6 DEF LineInv
<1>5. CASE /\ encoded.ok
           /\ sink' = [sink EXCEPT !.pc = "writing", !.until = now + WRITE_TIMEOUT, !.buffer = @ \o octets]
           /\ results' = results
  <2>1. encoded.val \in Seq(Octet)
    BY <1>3, <1>5, LineAssumption
  <2>2. octets \in Seq(Written) /\ \A k \in DOMAIN octets : octets[k].from = Len(results) + 1
    <3> DEFINE v == encoded.val
               n == Len(results) + 1
    <3>1. v \in Seq(Octet) /\ n \in Nat \ {0}
      BY SMT, <1>3, <2>1
    <3> HIDE DEF encoded, v, n
    <3>2. DOMAIN v = 1 .. Len(v) /\ Len(v) \in Nat /\ \A k \in DOMAIN v : v[k] \in Octet
      BY SMT, <3>1
    <3>3. \A k \in DOMAIN v : [byte |-> v[k], from |-> n] \in Written
      BY <3>1, <3>2 DEF Written
    <3>4. [k \in DOMAIN v |-> [byte |-> v[k], from |-> n]] \in Seq(Written)
      BY SMT, <3>2, <3>3
    <3> QED BY <3>4 DEF v, n
  <2> HIDE DEF octets, encoded
  <2>3. sink.buffer \in Seq(Written) /\ sink.buffer \o octets \in Seq(Written) /\ now + WRITE_TIMEOUT \in Int
    <3>1. sink.buffer \in Seq(Written) /\ now \in Int
      BY <1>3 DEF SinkState
    <3>2. WRITE_TIMEOUT \in Int
      BY SMT, LineAssumption
    <3> QED BY SMT, <2>2, <3>1, <3>2
  <2>4. /\ sink'.pc = "writing" /\ sink'.buffer = sink.buffer \o octets /\ sink'.last_tx_end = sink.last_tx_end
        /\ sink' \in SinkState
    BY <1>3, <1>5, <2>3 DEF SinkState
  <2>5. Writing'
    BY <2>4 DEF Writing
  <2>6. LineTypes'
    BY <1>0, <1>1, <1>5, <2>4 DEF LineTypes
  <2>7. InOrder' /\ WaitsSilent' /\ FramesApart'
    BY <1>0, <1>1, <1>5, <2>2, <2>4, <2>5, <2>6, FrameEnters
  <2>8. RestsSilent'
    BY <2>5 DEF RestsSilent
  <2> QED BY <2>6, <2>7, <2>8 DEF LineInv
<1> QED BY <1>4, <1>5 DEF start_write

\* The driver takes octets from the buffer: the queue stays as it is.
LEMMA WriteKeeps ==
    ASSUME LineInv, write
    PROVE  LineInv'
<1> DEFINE room == PORT_SIZE - Len(port)
           n == IF Len(sink.buffer) < room THEN Len(sink.buffer) ELSE room
<1>0. LineTypes /\ InOrder /\ WaitsSilent /\ RestsSilent /\ FramesApart
  BY DEF LineInv
<1>1. /\ sink.pc = "writing" /\ n > 0 /\ port' = port \o SubSeq(sink.buffer, 1, n)
      /\ sink' = [sink EXCEPT !.buffer = SubSeq(@, n + 1, Len(@))]
      /\ now' = now /\ results' = results /\ shift' = shift
      /\ air' = air /\ speech' = speech /\ unread' = unread
  BY DEF write
<1>2. /\ sink \in SinkState
      /\ sink.buffer \in Seq(Written) /\ port \in Seq(Written)
  BY <1>0 DEF LineTypes, SinkState
<1>3. Len(sink.buffer) \in Nat /\ n \in 1 .. Len(sink.buffer)
  <2>1. Len(sink.buffer) \in Nat /\ Len(port) \in Nat
    BY SMT, <1>2
  <2>2. room \in Int
    BY SMT, <2>1, LineAssumption
  <2> HIDE DEF room
  <2> QED BY SMT, <1>1, <2>1, <2>2
<1> HIDE DEF n
<1> DEFINE first == SubSeq(sink.buffer, 1, n)
           rest == SubSeq(sink.buffer, n + 1, Len(sink.buffer))
<1>4. first \in Seq(Written) /\ rest \in Seq(Written) /\ first # <<>> /\ first \o rest = sink.buffer
  <2>1. first \in Seq(Written) /\ rest \in Seq(Written) /\ first # <<>>
    BY SMT, <1>2, <1>3
  <2>2. first \o rest = SubSeq(sink.buffer, 1, Len(sink.buffer))
    BY SMT, <1>2, <1>3, ConcatAdjacentSubSeq
  <2>3. SubSeq(sink.buffer, 1, Len(sink.buffer)) = sink.buffer
    BY <1>2, SubSeqFull
  <2> QED BY <2>1, <2>2, <2>3
<1>5. port' = port \o first /\ sink' = [sink EXCEPT !.buffer = rest]
  BY <1>1
<1> HIDE DEF first, rest
<1>6. /\ sink'.pc = "writing" /\ sink'.buffer = rest /\ sink'.last_tx_end = sink.last_tx_end
      /\ sink' \in SinkState
  BY <1>1, <1>2, <1>4, <1>5 DEF SinkState
<1>7. port' \in Seq(Written) /\ port' # <<>>
  BY SMT, <1>2, <1>4, <1>5
<1>8. Queue' = Queue
  <2>1. Queue' = (port \o first) \o rest
    BY <1>5, <1>6 DEF Queue
  <2>2. \A s, t, u \in Seq(Written) : (s \o t) \o u = s \o (t \o u)
    BY SMT, ConcatAssociative
  <2>3. (port \o first) \o rest = port \o (first \o rest)
    BY <1>2, <1>4, <2>2
  <2> QED BY <1>4, <2>1, <2>3 DEF Queue
<1>9. Writing /\ Writing' /\ Writing' = Writing
  BY <1>1, <1>6 DEF Writing
<1>10. Begun' = Begun /\ Begun \in Int
  BY <1>0, <1>1, BegunTyped DEF Begun
<1>11. LineTypes'
  BY <1>0, <1>1, <1>6, <1>7 DEF LineTypes
<1>12. InOrder' /\ WaitsSilent' /\ FramesApart'
  BY SMT, <1>0, <1>1, <1>8, <1>9, <1>10, QuietKeeps
<1>13. RestsSilent'
  BY <1>9 DEF RestsSilent
<1> QED BY <1>11, <1>12, <1>13 DEF LineInv

\* The send ends: everything has left, its time is over, or the driver failed.
LEMMA EndKeeps ==
    ASSUME LineInv, sent \/ send_times_out \/ send_fails
    PROVE  LineInv'
<1>0. LineTypes /\ InOrder /\ WaitsSilent /\ RestsSilent /\ FramesApart
  BY DEF LineInv
<1>1. /\ now' = now /\ port' = port /\ shift' = shift
      /\ air' = air /\ speech' = speech /\ unread' = unread
  BY DEF sent, send_times_out, send_fails
<1>2. /\ sink \in SinkState
      /\ results \in Seq(Result)
      /\ now \in Int /\ sink.last_tx_end =< now
  <2>1. now \in 0 .. HORIZON /\ HORIZON \in Nat
    BY <1>0, LineAssumption DEF LineTypes
  <2> QED BY SMT, <1>0, <2>1 DEF LineTypes
<1>3. Begun' = Begun
  BY <1>1 DEF Begun
<1>4. CASE sent
  <2>1. sink.buffer = <<>> /\ port = <<>> /\ sink' = [sink EXCEPT !.pc = "ready", !.last_tx_end = now]
    BY <1>4 DEF sent
  <2>2. results' = Append(results, "Ok")
    BY <1>4 DEF sent, returns
  <2>3. /\ sink'.pc = "ready" /\ sink'.buffer = sink.buffer /\ sink'.last_tx_end = now
        /\ sink' \in SinkState
    BY <1>2, <2>1 DEF SinkState
  <2>4. Queue' = Queue /\ Queue = <<>> /\ ~Writing'
    BY SMT, <1>1, <2>1, <2>3 DEF Queue, Writing
  <2>5. LineTypes'
    <3>1. results' \in Seq(Result)
      BY SMT, <1>2, <2>2 DEF Result
    <3>2. sink'.last_tx_end =< now
      BY SMT, <1>2, <2>3
    <3> QED BY <1>0, <1>1, <2>3, <3>1, <3>2 DEF LineTypes
  <2>6. InOrder' /\ WaitsSilent' /\ FramesApart'
    BY <1>0, <1>1, <1>3, <2>2, <2>4, ReturnKeeps
  <2>7. RestsSilent'
    <3>1. \A i \in DOMAIN air : air[i].at =< now
      BY <1>0, AirTyped
    <3> QED BY <1>1, <2>3, <2>4, <3>1 DEF RestsSilent
  <2> QED BY <2>5, <2>6, <2>7 DEF LineInv
<1>5. CASE send_times_out \/ send_fails
  <2>1. sink' = [sink EXCEPT !.pc = "ready"]
    BY <1>5 DEF send_times_out, send_fails
  <2>2. PICK r \in {"Timeout", "Io"} : results' = Append(results, r)
    BY <1>5 DEF send_times_out, send_fails, returns
  <2>3. /\ sink'.pc = "ready" /\ sink'.buffer = sink.buffer /\ sink'.last_tx_end = sink.last_tx_end
        /\ sink' \in SinkState
    BY <1>2, <2>1 DEF SinkState
  <2>4. Queue' = Queue /\ ~Writing'
    BY <1>1, <2>3 DEF Queue, Writing
  <2>5. LineTypes'
    <3>1. r \in Result
      BY DEF Result
    <3>2. results' \in Seq(Result)
      BY <1>2, <2>2, <3>1, AppendProperties
    <3> QED BY <1>0, <1>1, <2>3, <3>2 DEF LineTypes
  <2>6. InOrder' /\ WaitsSilent' /\ FramesApart'
    BY <1>0, <1>1, <1>3, <2>2, <2>4, ReturnKeeps
  <2>7. ~Punctual(Len(results) + 1)'
    BY <1>0, <2>2, PunctualBefore
  <2>8. RestsSilent'
    BY <2>7 DEF RestsSilent
  <2> QED BY <2>5, <2>6, <2>8 DEF LineInv
<1> QED BY <1>4, <1>5

\* A tick: the octet being shifted out comes nearer to its end, or leaves.
LEMMA TickKeeps ==
    ASSUME LineInv, tick
    PROVE  LineInv'
<1> DEFINE left == IF shift = 0 THEN CHARACTER ELSE shift
<1>0. LineTypes /\ InOrder /\ WaitsSilent /\ RestsSilent /\ FramesApart
  BY DEF LineInv
<1>1. now < HORIZON /\ now' = now + 1 /\ sink' = sink /\ results' = results /\ speech' = speech
  BY DEF tick
<1>2. /\ now \in 0 .. HORIZON /\ HORIZON \in Nat /\ shift \in 0 .. CHARACTER - 1 /\ CHARACTER \in Nat \ {0}
      /\ port \in Seq(Written)
  BY <1>0, LineAssumption DEF LineTypes
<1>3. now' \in 0 .. HORIZON /\ now =< now' /\ left \in 1 .. CHARACTER
  BY SMT, <1>1, <1>2
<1>4. sink.last_tx_end \in Int /\ sink.last_tx_end =< now' /\ \A i \in DOMAIN air : air[i].at =< now'
  <2>1. sink.last_tx_end \in Int /\ sink.last_tx_end =< now /\ now \in Int
    <3>1. sink.last_tx_end =< now /\ sink \in SinkState
      BY <1>0 DEF LineTypes
    <3> QED BY SMT, <1>2, <3>1 DEF SinkState
  <2>2. \A i \in DOMAIN air : air[i].at \in Nat /\ air[i].at =< now
    BY <1>0, AirTyped
  <2> QED BY SMT, <1>1, <2>1, <2>2
<1>5. Writing' = Writing
  BY <1>1 DEF Writing
<1>6. CASE port = <<>> /\ UNCHANGED <<port, shift, air, unread>>
  <2>1. LineTypes'
    BY <1>0, <1>1, <1>3, <1>4, <1>6 DEF LineTypes
  <2>2. shift = 0
    BY <1>0, <1>6 DEF LineTypes
  <2>3. Begun \in Int /\ Begun' \in Int /\ Begun =< Begun'
    BY SMT, <1>1, <1>2, <1>6, <2>2 DEF Begun
  <2>4. Queue' = Queue
    BY <1>1, <1>6 DEF Queue
  <2>5. InOrder' /\ WaitsSilent' /\ FramesApart'
    BY <1>0, <1>1, <1>5, <1>6, <2>3, <2>4, QuietKeeps
  <2>6. RestsSilent'
    BY <1>0, <1>1, <1>5, <1>6, <2>4 DEF RestsSilent, Punctual
  <2> QED BY <2>1, <2>5, <2>6 DEF LineInv
<1>7. ASSUME port # <<>> PROVE RestsSilent'
  <2>1. Queue # <<>>
    BY <1>0, <1>7, QueueTyped
  <2>2. ~(~Writing /\ Punctual(Len(results) + 1))
    BY <1>0, <2>1 DEF RestsSilent
  <2>3. ~(~Writing /\ Punctual(Len(results) + 1))'
    BY <1>1, <1>5, <2>2 DEF Punctual
  <2> QED BY <2>3 DEF RestsSilent
<1>8. CASE port # <<>> /\ left > 1 /\ shift' = left - 1 /\ UNCHANGED <<port, air, unread>>
  <2>1. shift' \in 0 .. CHARACTER - 1 /\ shift' # 0
    BY SMT, <1>2, <1>3, <1>8
  <2>2. LineTypes'
    BY <1>0, <1>1, <1>3, <1>4, <1>8, <2>1 DEF LineTypes
  <2>3. Begun' = now + 1 + (left - 1) - CHARACTER /\ Begun' = now + left - CHARACTER
    <3>1. Begun' = now' + shift' - CHARACTER
      BY <2>1 DEF Begun
    <3> QED BY SMT, <1>1, <1>2, <1>3, <1>8, <3>1
  <2>4. Begun = now + left - CHARACTER
    BY SMT, <1>2 DEF Begun
  <2>5. Begun \in Int /\ Begun' \in Int /\ Begun =< Begun'
    BY SMT, <1>0, <2>3, <2>4, BegunTyped
  <2>6. Queue' = Queue
    BY <1>1, <1>8 DEF Queue
  <2>7. InOrder' /\ WaitsSilent' /\ FramesApart'
    BY <1>0, <1>1, <1>5, <1>8, <2>5, <2>6, QuietKeeps
  <2> QED BY <1>7, <1>8, <2>2, <2>7 DEF LineInv
<1>9. CASE /\ port # <<>> /\ left = 1 /\ shift' = 0 /\ port' = Tail(port)
           /\ heard(Head(port).byte, Head(port).from, now + 1)
  <2>1. /\ unread' = <<[at |-> now + 1, byte |-> Head(port).byte]>>
        /\ air' = Append(air, [at |-> now + 1, byte |-> Head(port).byte, from |-> Head(port).from])
    BY <1>9 DEF heard
  <2>2. Head(port) \in Written /\ Tail(port) \in Seq(Written)
    BY SMT, <1>2, <1>9
  <2>3. Head(port).byte \in Octet /\ Head(port).from \in Nat
    BY <2>2 DEF Written
  <2>4. [at |-> now + 1, byte |-> Head(port).byte, from |-> Head(port).from] \in Heard /\ now + 1 \in 0 .. HORIZON
    BY SMT, <1>1, <1>2, <2>3 DEF Heard
  <2>5. unread' \in Seq(Stamped)
    <3>1. [at |-> now + 1, byte |-> Head(port).byte] \in Stamped
      BY <2>3, <2>4 DEF Stamped
    <3> QED BY SMT, <2>1, <3>1
  <2>6. air' \in Seq(Heard)
    <3>1. air \in Seq(Heard)
      BY <1>0 DEF LineTypes
    <3> QED BY <2>1, <2>4, <3>1, AppendProperties
  <2>7. \A i \in DOMAIN air' : air'[i].at =< now'
    <3>1. /\ DOMAIN air' = DOMAIN air \cup {Len(air) + 1}
          /\ \A i \in DOMAIN air : air'[i] = air[i]
          /\ air'[Len(air) + 1].at = now + 1
      BY SMT, <1>0, <2>1, <2>4, AirGrows
    <3>2. now + 1 =< now'
      BY SMT, <1>1, <1>2
    <3> QED BY <1>4, <3>1, <3>2
  <2>8. LineTypes'
    <3>1. shift' \in 0 .. CHARACTER - 1 /\ shift' = 0
      BY SMT, <1>2, <1>9
    <3>2. now' \in 0 .. HORIZON /\ port' \in Seq(Written) /\ sink.last_tx_end =< now'
      BY <1>3, <1>4, <1>9, <2>2
    <3> QED BY <1>0, <1>1, <2>5, <2>6, <2>7, <3>1, <3>2 DEF LineTypes
  <2>9. InOrder' /\ WaitsSilent' /\ FramesApart'
    BY <1>0, <1>1, <1>9, <2>1, OctetLeaves
  <2> QED BY <1>7, <1>9, <2>8, <2>9 DEF LineInv
<1> QED BY <1>6, <1>8, <1>9 DEF tick

\* The other station says its next octet.
LEMMA SpeakKeeps ==
    ASSUME LineInv, speak
    PROVE  LineInv'
<1>0. LineTypes
  BY DEF LineInv
<1>1. /\ speech # <<>> /\ heard(Head(speech), 0, now) /\ speech' = Tail(speech)
      /\ now' = now /\ sink' = sink /\ results' = results /\ port' = port /\ shift' = shift
  BY DEF speak
<1>2. unread' = <<[at |-> now, byte |-> Head(speech)]>> /\ air' = Append(air, [at |-> now, byte |-> Head(speech), from |-> 0])
  BY <1>1 DEF heard
<1>3. /\ now \in 0 .. HORIZON /\ HORIZON \in Nat /\ speech \in Seq(Octet)
      /\ air \in Seq(Heard)
  BY <1>0, LineAssumption DEF LineTypes
<1>4. Head(speech) \in Octet /\ Tail(speech) \in Seq(Octet)
  BY SMT, <1>1, <1>3
<1>5. unread' \in Seq(Stamped)
  <2>1. [at |-> now, byte |-> Head(speech)] \in Stamped
    BY <1>3, <1>4 DEF Stamped
  <2> QED BY SMT, <1>2, <2>1
<1>6. [at |-> now, byte |-> Head(speech), from |-> 0] \in Heard
  BY SMT, <1>3, <1>4 DEF Heard
<1>7. air' \in Seq(Heard)
  BY <1>2, <1>3, <1>6, AppendProperties
<1>8. \A i \in DOMAIN air' : air'[i].at =< now
  <2>1. /\ DOMAIN air' = DOMAIN air \cup {Len(air) + 1}
        /\ \A i \in DOMAIN air : air'[i] = air[i]
        /\ air'[Len(air) + 1].at = now
    BY SMT, <1>0, <1>2, <1>6, AirGrows
  <2>2. \A i \in DOMAIN air : air[i].at =< now
    BY <1>0, AirTyped
  <2> QED BY SMT, <1>3, <2>1, <2>2
<1>9. LineTypes'
  BY <1>0, <1>1, <1>4, <1>5, <1>7, <1>8 DEF LineTypes
<1>10. InOrder' /\ WaitsSilent' /\ RestsSilent' /\ FramesApart'
  BY <1>1, <1>2, <1>4, OtherSpeaks
<1> QED BY <1>9, <1>10 DEF LineInv

\* The listener and the timers touch neither the sink nor the line.
LEMMA ListenerKeeps ==
    ASSUME LineInv,
           now' = now, sink' = sink, results' = results, port' = port, shift' = shift,
           air' = air, speech' = speech, unread' = unread \/ unread' = <<>>
    PROVE  LineInv'
<1>0. LineTypes /\ InOrder /\ WaitsSilent /\ RestsSilent /\ FramesApart
  BY DEF LineInv
<1>1. LineTypes'
  <2>1. unread \in Seq(Stamped)
    BY <1>0 DEF LineTypes
  <2>2. <<>> \in Seq(Stamped)
    BY SMT
  <2>3. unread' \in Seq(Stamped)
    BY <2>1, <2>2
  <2> QED BY <1>0, <2>3 DEF LineTypes
<1>2. Queue' = Queue /\ Writing' = Writing /\ Begun' = Begun /\ Begun \in Int /\ Begun =< Begun
  BY SMT, <1>0, BegunTyped DEF Queue, Writing, Begun
<1>3. InOrder' /\ WaitsSilent' /\ FramesApart'
  BY <1>0, <1>2, QuietKeeps
<1>4. RestsSilent'
  BY <1>0, <1>2 DEF RestsSilent, Punctual
<1> QED BY <1>1, <1>3, <1>4 DEF LineInv

\* A quiet line satisfies the invariant.
LEMMA LineInitially ==
    ASSUME LineInit
    PROVE  LineInv
<1>1. /\ now = 0 /\ results = <<>> /\ port = <<>> /\ shift = 0 /\ air = <<>> /\ unread = <<>>
      /\ sink = [pc |-> "ready", frame |-> NoFrame, until |-> 0, buffer |-> <<>>, last_tx_end |-> None]
  BY DEF LineInit
<1>2. speech \in Seq(Octet)
  BY LineAssumption DEF LineInit
<1>3. /\ sink.pc = "ready" /\ sink.buffer = <<>> /\ sink.last_tx_end = -1
      /\ sink \in SinkState
  <2>1. None \in Int /\ None = -1 /\ <<>> \in Seq(Written)
    BY SMT DEF None
  <2> QED BY SMT, <1>1, <2>1 DEF SinkState
<1>4. now \in 0 .. HORIZON /\ shift \in 0 .. CHARACTER - 1 /\ -1 =< 0
  BY SMT, <1>1, LineAssumption
<1>5. DOMAIN air = {}
  BY SMT, <1>1
<1>6. LineTypes
  <2>1. sink.pc # "waiting" /\ sink.last_tx_end =< now
    BY <1>1, <1>3, <1>4
  <2>2. /\ port \in Seq(Written) /\ air \in Seq(Heard) /\ unread \in Seq(Stamped)
        /\ results \in Seq(Result)
    BY SMT, <1>1
  <2> QED BY <1>1, <1>2, <1>3, <1>4, <1>5, <2>1, <2>2 DEF LineTypes
<1>7. Queue = <<>> /\ DOMAIN Queue = {}
  <2>1. Queue = <<>> \o <<>>
    BY <1>1, <1>3 DEF Queue
  <2>2. <<>> \o <<>> = <<>> /\ DOMAIN <<>> = {}
    BY SMT
  <2> QED BY <2>1, <2>2
<1> QED BY <1>5, <1>6, <1>7 DEF LineInv, InOrder, WaitsSilent, RestsSilent, FramesApart

\* Every step of the line keeps the invariant.
LEMMA LineNextKeeps ==
    ASSUME LineInv, [LineNext]_all_vars
    PROVE  LineInv'
<1>1. CASE UNCHANGED all_vars
  BY <1>1, ListenerKeeps DEF all_vars, line_vars
<1>2. CASE \E frame \in Sends : send(frame)
  BY <1>2, SendKeeps
<1>3. CASE hand_over
  BY <1>3, ListenerKeeps DEF hand_over
<1>4. CASE timer_fires
  BY <1>4, ListenerKeeps DEF timer_fires
<1>5. CASE time_is_up
  BY <1>1, <1>5 DEF time_is_up
<1> QED
  BY <1>1, <1>2, <1>3, <1>4, <1>5, StartKeeps, WriteKeeps, EndKeeps, TickKeeps, SpeakKeeps DEF LineNext

\* What the listener and the timers do to the assembler are steps of it; the
\* rest of the line leaves it alone.
LEMMA LineStepsAssemble ==
    ASSUME LineInv, [LineNext]_all_vars
    PROVE  [Next]_vars
<1>0. now \in Timestamp /\ 0 .. HORIZON \subseteq Timestamp /\ unread \in Seq(Stamped)
  <2>1. now \in 0 .. HORIZON /\ unread \in Seq(Stamped)
    BY DEF LineInv, LineTypes
  <2>2. 0 .. HORIZON \subseteq Timestamp
    BY SMT, LineAssumption, BoundsAssumption DEF Timestamp
  <2> QED BY <2>1, <2>2
<1>1. CASE hand_over
  <2>1. unread \in Seq(Stamped) /\ unread # <<>>
    BY <1>0, <1>1 DEF hand_over
  <2>2. Head(unread) \in Stamped
    BY SMT, <2>1
  <2>3. Head(unread).at \in Timestamp /\ Head(unread).byte \in Octet
    BY <1>0, <2>2 DEF Stamped
  <2> QED BY <1>1, <2>3 DEF hand_over, Next
<1>2. CASE timer_fires
  BY <1>0, <1>2 DEF timer_fires, Next
<1>3. CASE \E frame \in Sends : send(frame)
  BY <1>3 DEF send
<1>4. CASE start_write \/ write \/ sent \/ send_times_out \/ send_fails
  BY <1>4 DEF start_write, write, sent, send_times_out, send_fails
<1>5. CASE tick \/ speak \/ time_is_up
  BY <1>5 DEF tick, speak, time_is_up, all_vars
<1>6. CASE UNCHANGED all_vars
  BY <1>6 DEF all_vars
<1> QED BY <1>1, <1>2, <1>3, <1>4, <1>5, <1>6 DEF LineNext

-----------------------------------------------------------------------------
(* From the wire to the assembler. *)

\* The accepted octets are those on the wire, but for the one still held.
Carried ==
    /\ Len(line) + Len(unread) = Len(air)
    /\ \A i \in DOMAIN line : line[i].at = air[i].at /\ line[i].byte = air[i].byte

\* The listener holds at most the last octet of the wire.
Held ==
    \/ unread = <<>>
    \/ /\ air # <<>>
       /\ unread = <<[at |-> air[Len(air)].at, byte |-> air[Len(air)].byte]>>

\* What the assembler has observed is not in the future, its tokens number the
\* octets it accepted, and unless a timer overtook it an octet that is held is
\* no older than what was observed.
WireInv ==
    /\ Held
    /\ last_observed =< now
    /\ deadline_sequence = Len(line)
    /\ ~overtaken => \A i \in DOMAIN unread : last_observed =< unread[i].at
    /\ ~overtaken /\ Representable => Carried

\* A quiet line carries nothing.
LEMMA WireInitially ==
    ASSUME LineInit
    PROVE  WireInv
<1>1. /\ now = 0 /\ last_observed = 0 /\ deadline_sequence = 0
      /\ line = <<>> /\ air = <<>> /\ unread = <<>>
  BY DEF LineInit, Init
<1>2. /\ Len(line) = 0 /\ Len(air) = 0 /\ Len(unread) = 0 /\ 0 + 0 = 0 /\ 0 =< 0
      /\ DOMAIN line = {} /\ DOMAIN unread = {}
  BY SMT, <1>1
<1> QED BY <1>1, <1>2 DEF WireInv, Held, Carried

\* A step that moves neither octets nor the assembler, while time may pass.
LEMMA WireIdle ==
    ASSUME LineInv, WireInv, TypeOK, vars' = vars, air' = air, unread' = unread, overtaken' = overtaken,
           now' = now \/ now' = now + 1
    PROVE  WireInv'
<1>1. last_observed' = last_observed /\ deadline_sequence' = deadline_sequence /\ line' = line
  BY DEF vars, assembler
<1>2. last_observed \in Int /\ now \in Int
  BY SMT, LineAssumption, BoundsAssumption DEF TypeOK, Timestamp, LineInv, LineTypes
<1>3. last_observed =< now'
  BY SMT, <1>2 DEF WireInv
<1> QED BY <1>1, <1>3 DEF WireInv, Held, Carried, Representable

\* An octet arrives.
LEMMA WireHears ==
    ASSUME LineInv, WireInv, TypeOK, vars' = vars, overtaken' = overtaken,
           now' = now \/ now' = now + 1, NEW b \in Octet, NEW f \in Nat, heard(b, f, now')
    PROVE  WireInv'
<1> DEFINE o == [at |-> now', byte |-> b, from |-> f]
<1>1. last_observed' = last_observed /\ deadline_sequence' = deadline_sequence /\ line' = line
  BY DEF vars, assembler
<1>2. last_observed \in Int /\ now \in Nat /\ LineTypes
  BY SMT, LineAssumption, BoundsAssumption DEF TypeOK, Timestamp, LineInv, LineTypes
<1>3. last_observed =< now' /\ now' \in Nat
  BY SMT, <1>2 DEF WireInv
<1>4. unread = <<>> /\ unread' = <<[at |-> now', byte |-> b]>> /\ air' = Append(air, o)
  BY DEF heard
<1>5. o \in Heard /\ o.at = now' /\ o.byte = b
  BY <1>3 DEF Heard
<1> HIDE DEF o
<1>6. /\ Len(air) \in Nat /\ DOMAIN air = 1 .. Len(air)
      /\ DOMAIN air' = DOMAIN air \cup {Len(air) + 1}
      /\ \A i \in DOMAIN air : air'[i] = air[i]
      /\ air'[Len(air) + 1] = o
  BY <1>2, <1>4, <1>5, AirGrows
<1>7. Len(air') = Len(air) + 1 /\ air' # <<>>
  <2>1. air \in Seq(Heard)
    BY <1>2 DEF LineTypes
  <2> QED BY SMT, <1>4, <1>5, <2>1
<1>8. Held'
  BY <1>4, <1>5, <1>6, <1>7 DEF Held
<1>9. Len(unread) = 0 /\ Len(unread') = 1 /\ DOMAIN unread' = {1} /\ unread'[1].at = now'
  BY SMT, <1>4
<1>10. ASSUME Representable', ~overtaken PROVE Carried'
  <2>1. Representable
    <3>1. Len(air) =< SEQUENCE_MAX
      <4>1. Len(air') =< SEQUENCE_MAX /\ SEQUENCE_MAX \in Nat
        BY <1>10, BoundsAssumption DEF Representable
      <4> QED BY SMT, <1>6, <1>7, <4>1
    <3> QED BY <1>6, <1>10, <3>1 DEF Representable
  <2>2. Carried
    BY <1>10, <2>1 DEF WireInv
  <2>3. line \in Seq([at : Timestamp, byte : Octet])
    BY DEF TypeOK
  <2>4. Len(line) = Len(air) /\ Len(line) + 1 = Len(air) + 1 /\ DOMAIN line = DOMAIN air
    <3>1. Len(line) \in Nat /\ DOMAIN line = 1 .. Len(line)
      BY SMT, <2>3
    <3>2. Len(line) + 0 = Len(air)
      BY <1>9, <2>2 DEF Carried
    <3>3. Len(line) = Len(air)
      BY SMT, <3>1, <3>2
    <3> QED BY <1>6, <3>1, <3>3
  <2> QED BY <1>1, <1>6, <1>7, <1>9, <2>2, <2>4 DEF Carried
<1> QED BY <1>1, <1>3, <1>8, <1>9, <1>10 DEF WireInv

\* An accepted octet goes to the end of the line and takes the next token.
LEMMA AcceptedAppends ==
    ASSUME NEW t, NEW b, observe_byte(t, b)
    PROVE  \/ UNCHANGED vars /\ ~(check_timestamp(t) /\ plan_deadline(t))
           \/ /\ check_timestamp(t) /\ plan_deadline(t)
              /\ line' = Append(line, [at |-> t, byte |-> b])
              /\ deadline_sequence' = deadline_sequence + 1
              /\ last_observed' = t
<1> DEFINE accepted == /\ line' = Append(line, [at |-> t, byte |-> b])
                       /\ deadline_sequence' = deadline_sequence + 1
                       /\ last_observed' = t
<1>1. byte_when_idle(t, b) => accepted
  BY DEF byte_when_idle, start_candidate, armed
<1>2. byte_when_collecting(t, b) => accepted
  BY DEF byte_when_collecting, start_candidate, enter_quarantine, armed
<1>3. byte_when_quarantined(t, b) => accepted
  BY DEF byte_when_quarantined, start_candidate, enter_quarantine, armed
<1>4. byte_rejected(t) => UNCHANGED vars /\ ~(check_timestamp(t) /\ plan_deadline(t))
  BY DEF byte_rejected
<1> QED BY <1>1, <1>2, <1>3, <1>4 DEF observe_byte

\* The listener hands its octet over: it is accepted unless it was overtaken
\* or its deadline is not representable.
LEMMA WireHandsOver ==
    ASSUME LineInv, WireInv, TypeOK, hand_over
    PROVE  WireInv'
<1> DEFINE t == Head(unread).at
           b == Head(unread).byte
<1>1. /\ unread # <<>> /\ observe_byte(t, b) /\ unread' = <<>>
      /\ now' = now /\ air' = air /\ overtaken' = overtaken
  BY DEF hand_over
<1>2. air # <<>> /\ unread = <<[at |-> air[Len(air)].at, byte |-> air[Len(air)].byte]>>
  BY <1>1 DEF WireInv, Held
<1>3. t = air[Len(air)].at /\ b = air[Len(air)].byte /\ Len(unread) = 1 /\ DOMAIN unread = {1} /\ unread[1].at = t
  BY SMT, <1>2
<1>4. LineTypes /\ air \in Seq(Heard) /\ line \in Seq([at : Timestamp, byte : Octet])
  BY DEF LineInv, LineTypes, TypeOK
<1>5. Len(air) \in DOMAIN air /\ Len(air) \in Nat /\ Len(line) \in Nat /\ DOMAIN line = 1 .. Len(line)
  BY SMT, <1>2, <1>4
<1>6. t \in Nat /\ t =< now
  BY <1>3, <1>4, <1>5, AirTyped
<1> HIDE DEF t, b
<1>7. Len(unread') = 0 /\ DOMAIN unread' = {}
  BY SMT, <1>1
<1>8. CASE UNCHANGED vars /\ ~(check_timestamp(t) /\ plan_deadline(t))
  <2>1. last_observed' = last_observed /\ deadline_sequence' = deadline_sequence /\ line' = line
    BY <1>8 DEF vars, assembler
  <2>2. ASSUME ~overtaken, Representable PROVE FALSE
    <3>1. last_observed =< t /\ Carried /\ deadline_sequence = Len(line)
      BY <1>3, <2>2 DEF WireInv
    <3>2. t + t3_5 =< TIMESTAMP_MAX /\ Len(air) =< SEQUENCE_MAX
      BY <1>3, <1>5, <2>2 DEF Representable
    <3>3. last_observed \in Int /\ SEQUENCE_MAX \in Int
      BY SMT, BoundsAssumption DEF TypeOK, Timestamp
    <3>4. check_timestamp(t)
      BY SMT, <1>6, <3>1, <3>3 DEF check_timestamp
    <3>5. deadline_sequence < SEQUENCE_MAX
      BY SMT, <1>3, <1>5, <3>1, <3>2, <3>3 DEF Carried
    <3> QED BY <1>8, <3>2, <3>4, <3>5 DEF plan_deadline
  <2>3. ~(~overtaken /\ Representable)'
    BY <1>1, <2>2 DEF Representable
  <2> QED BY <1>1, <1>7, <2>1, <2>3 DEF WireInv, Held
<1>9. CASE /\ check_timestamp(t) /\ plan_deadline(t)
           /\ line' = Append(line, [at |-> t, byte |-> b])
           /\ deadline_sequence' = deadline_sequence + 1
           /\ last_observed' = t
  <2>1. [at |-> t, byte |-> b] \in [at : Timestamp, byte : Octet]
    <3>1. air[Len(air)] \in Heard
      BY SMT, <1>4, <1>5
    <3>2. b \in Octet
      BY <1>3, <3>1 DEF Heard
    <3>3. t \in Timestamp
      BY SMT, <1>4, <1>6, LineAssumption, BoundsAssumption DEF LineTypes, Timestamp
    <3> QED BY <3>2, <3>3
  <2>2. Len(line') = Len(line) + 1
    BY SMT, <1>4, <1>9, <2>1
  <2>3. deadline_sequence' = Len(line')
    BY <1>9, <2>2 DEF WireInv
  <2>4. ASSUME ~overtaken, Representable PROVE Carried'
    <3>1. Carried
      BY <2>4 DEF WireInv
    <3>2. Len(line) + 1 = Len(air) /\ Len(line') + Len(unread') = Len(air)
      BY SMT, <1>3, <1>5, <1>7, <2>2, <3>1 DEF Carried
    <3>3. /\ DOMAIN line' = DOMAIN line \cup {Len(line) + 1}
          /\ \A i \in DOMAIN line : line'[i] = line[i]
          /\ line'[Len(line) + 1] = [at |-> t, byte |-> b]
      <4>1. line' \in Seq([at : Timestamp, byte : Octet])
        BY <1>4, <1>9, <2>1, AppendProperties
      <4>2. \A i \in 1 .. Len(line) : line'[i] = line[i]
        BY SMT, <1>4, <1>9, <2>1
      <4>3. line'[Len(line) + 1] = [at |-> t, byte |-> b]
        BY SMT, <1>4, <1>9, <2>1
      <4>4. DOMAIN line' = 1 .. Len(line) \cup {Len(line) + 1}
        BY SMT, <1>5, <2>2, <4>1
      <4> QED BY <1>5, <4>2, <4>3, <4>4
    <3>4. line'[Len(line) + 1].at = air[Len(air)].at /\ line'[Len(line) + 1].byte = air[Len(air)].byte
      <4>1. line'[Len(line) + 1].at = t /\ line'[Len(line) + 1].byte = b
        BY SMT, <3>3
      <4>2. t = air[Len(air)].at /\ b = air[Len(air)].byte
        BY <1>3
      <4> QED BY <4>1, <4>2
    <3> QED BY <1>1, <3>1, <3>2, <3>3, <3>4 DEF Carried
  <2>5. (~overtaken /\ Representable)' => Carried'
    BY <1>1, <2>4 DEF Representable
  <2> QED BY <1>1, <1>6, <1>7, <1>9, <2>3, <2>5 DEF WireInv, Held
<1> QED BY <1>1, <1>8, <1>9, AcceptedAppends

\* A timer reaches the assembler: no octet is accepted, and one that it
\* overtakes is noted.
LEMMA WireTimed ==
    ASSUME LineInv, WireInv, TypeOK, timer_fires
    PROVE  WireInv'
<1>1. /\ now' = now /\ air' = air /\ unread' = unread
      /\ overtaken' = (overtaken \/ \E i \in DOMAIN unread : unread[i].at < last_observed')
  BY DEF timer_fires
<1>2. /\ deadline_sequence' = deadline_sequence /\ line' = line
      /\ last_observed' = last_observed \/ last_observed' = now
  BY DEF timer_fires, observe_deadline, deadline_ignored, deadline_elapses, vars, assembler
<1>3. last_observed \in Int /\ now \in Int /\ unread \in Seq(Stamped)
  BY SMT, LineAssumption, BoundsAssumption DEF TypeOK, Timestamp, LineInv, LineTypes
<1>4. last_observed' \in Int /\ last_observed' =< now
  BY SMT, <1>2, <1>3 DEF WireInv
<1>5. \A i \in DOMAIN unread : unread[i].at \in Int
  <2>1. \A i \in DOMAIN unread : unread[i] \in Stamped
    BY SMT, <1>3
  <2>2. \A o \in Stamped : o.at \in 0 .. HORIZON
    BY DEF Stamped
  <2> QED BY SMT, <2>1, <2>2
<1>6. ~overtaken' => \A i \in DOMAIN unread : last_observed' =< unread[i].at
  <2> SUFFICES ASSUME ~overtaken', NEW i \in DOMAIN unread PROVE last_observed' =< unread[i].at
    OBVIOUS
  <2>1. ~(unread[i].at < last_observed')
    BY <1>1
  <2>2. unread[i].at \in Int
    BY <1>5
  <2> QED BY SMT, <1>4, <2>1, <2>2
<1>7. ~overtaken' => ~overtaken
  BY <1>1
<1>8. (~overtaken /\ Representable)' => Carried'
  BY <1>1, <1>2, <1>7 DEF WireInv, Carried, Representable
<1> QED BY <1>1, <1>2, <1>4, <1>6, <1>8 DEF WireInv, Held

\* Every step of the line keeps what the wire and the assembler share.
LEMMA WireKept ==
    ASSUME IInv, LineInv, WireInv, [LineNext]_all_vars
    PROVE  WireInv'
<1>0. TypeOK
  BY DEF IInv
<1>1. CASE hand_over
  BY <1>0, <1>1, WireHandsOver
<1>2. CASE timer_fires
  BY <1>0, <1>2, WireTimed
<1>3. CASE tick
  <2>1. vars' = vars /\ overtaken' = overtaken /\ now' = now + 1
    BY <1>3 DEF tick
  <2>2. CASE UNCHANGED <<air, unread>>
    BY <1>0, <2>1, <2>2, WireIdle
  <2>3. CASE port # <<>> /\ heard(Head(port).byte, Head(port).from, now + 1)
    <3>1. port \in Seq(Written)
      BY DEF LineInv, LineTypes
    <3>2. Head(port) \in Written
      BY SMT, <2>3, <3>1
    <3>3. Head(port).byte \in Octet /\ Head(port).from \in Nat
      BY <3>2 DEF Written
    <3> QED BY <1>0, <2>1, <2>3, <3>3, WireHears
  <2> QED BY <1>3, <2>2, <2>3 DEF tick
<1>4. CASE speak
  <2>1. vars' = vars /\ overtaken' = overtaken /\ now' = now /\ speech # <<>> /\ heard(Head(speech), 0, now)
    BY <1>4 DEF speak
  <2>2. speech \in Seq(Octet)
    BY DEF LineInv, LineTypes
  <2>3. Head(speech) \in Octet /\ 0 \in Nat
    BY SMT, <2>1, <2>2
  <2> QED BY <1>0, <2>1, <2>3, WireHears
<1>5. CASE \E frame \in Sends : send(frame)
  BY <1>0, <1>5, WireIdle DEF send
<1>6. CASE start_write \/ write \/ sent \/ send_times_out \/ send_fails
  BY <1>0, <1>6, WireIdle DEF start_write, write, sent, send_times_out, send_fails
<1>7. CASE time_is_up \/ UNCHANGED all_vars
  BY <1>0, <1>7, WireIdle DEF time_is_up, all_vars, line_vars
<1> QED BY <1>1, <1>2, <1>3, <1>4, <1>5, <1>6, <1>7 DEF LineNext

-----------------------------------------------------------------------------
(* The theorems *)

INSTANCE FiniteSetTheorems

\* What the lemmas assume about finite sets is true.
LEMMA CountingHolds == Counting
<1>1. EmptyCounts
  BY FS_EmptySet DEF EmptyCounts
<1>2. CountsAreNatural
  BY FS_CardinalityType DEF CountsAreNatural
<1>3. SingletonCounts
  BY FS_Singleton DEF SingletonCounts
<1>4. SubsetCounts
  BY FS_Subset DEF SubsetCounts
<1>5. AddCounts
  BY FS_AddElement DEF AddCounts
<1>6. RemoveCounts
  BY FS_RemoveElement DEF RemoveCounts
<1>7. UnionCounts
  BY FS_Union DEF UnionCounts
<1>8. DifferenceCounts
  BY FS_Difference DEF DifferenceCounts
<1>9. InjectionCounts
  <2> SUFFICES ASSUME NEW S, NEW T, NEW f, IsFiniteSet(T), f \in [S -> T],
                      \A x, y \in S : f[x] = f[y] => x = y
               PROVE  IsFiniteSet(S) /\ Cardinality(S) <= Cardinality(T)
    BY DEF InjectionCounts
  <2>1. f \in Injection(S, T)
    BY DEF Injection, IsInjective
  <2> QED BY <2>1, FS_Injection
<1>10. IntervalCounts
  BY FS_Interval DEF IntervalCounts
<1>11. LeastNatural
  <2> SUFFICES ASSUME NEW T, T \subseteq Nat, T # {} PROVE \E x \in T : \A y \in T : x <= y
    BY DEF LeastNatural
  <2>1. \E x \in T : \A y \in T : ~(<<y, x>> \in OpToRel(<, Nat))
    BY NatLessThanWellFounded, WFMin
  <2>2. PICK x \in T : \A y \in T : ~(<<y, x>> \in OpToRel(<, Nat))
    BY <2>1
  <2>3. \A y \in T : ~(y < x)
    BY <2>2 DEF OpToRel
  <2> QED BY SMT, <2>3
<1> QED BY SMT, <1>1, <1>2, <1>3, <1>4, <1>5, <1>6, <1>7, <1>8, <1>9, <1>10, <1>11 DEF Counting

\* Every state RtuFrameAssembler reaches satisfies the inductive invariant.
THEOREM AssemblerInvariant == Spec => []IInv
<1>1. Init => IInv
  BY Initially, CountingHolds
<1>2. IInv /\ [Next]_vars => IInv'
  BY Preserved, CountingHolds
<1> QED BY <1>1, <1>2, PTL DEF Spec

\* The variables keep their types: the candidate never outgrows its buffer and
\* the counters saturate.
THEOREM AssemblerTypeCorrect == Spec => []TypeOK
<1>1. IInv => TypeOK
  BY DEF IInv
<1> QED BY <1>1, AssemblerInvariant, PTL

\* The frames observe_byte and observe_deadline return are exactly the frames
\* of the line, for every timing with 0 < t1.5 < t3.5, every frame size, and
\* every CRC.
THEOREM AssemblerReturnsTheFrames == Spec => []ExactlyTheFrames
<1>1. IInv => ExactlyTheFrames
  BY DEF IInv, Sound, Complete, Counted, ExactlyTheFrames
<1> QED BY <1>1, AssemblerInvariant, PTL

\* The inductive invariant of the line.
THEOREM LineInvariant == LineSpec => []LineInv
<1>1. LineInit => LineInv
  BY LineInitially
<1>2. LineInv /\ [LineNext]_all_vars => LineInv'
  BY LineNextKeeps
<1> QED BY <1>1, <1>2, PTL DEF LineSpec

\* SerialSink keeps its frames apart by t3.5: whatever the driver, the
\* scheduler and the other station do, the first octet of a send begins no
\* earlier than t3.5 after the last octet of the sends before it, as long as
\* none of those timed out or failed in the driver.
THEOREM SinkKeepsFramesApart == LineSpec => []FramesApart
<1>1. LineInv => FramesApart
  BY DEF LineInv
<1> QED BY <1>1, LineInvariant, PTL

\* The assembler at the end of the line behaves as the assembler does.
THEOREM LineAssembles == LineSpec => Spec
<1>1. LineInit => Init
  BY DEF LineInit
<1>2. LineInv /\ [LineNext]_all_vars => [Next]_vars
  BY LineStepsAssemble
<1> QED BY <1>1, <1>2, LineInvariant, PTL DEF LineSpec, Spec

\* The frames that the assembler returns are exactly those of the octets it
\* accepted, and these are the octets that went over the wire, each at its
\* time, as long as no timer overtook an octet that the listener held back.
THEOREM LineReturnsTheFrames == LineSpec => []HeardFramesReturned
<1>1. LineInit => WireInv
  BY WireInitially
<1>2. IInv /\ LineInv /\ WireInv /\ [LineNext]_all_vars => WireInv'
  BY WireKept
<1>3. ExactlyTheFrames /\ WireInv => HeardFramesReturned
  BY DEF WireInv, Carried, HeardFramesReturned
<1> QED BY <1>1, <1>2, <1>3, LineInvariant, LineAssembles, AssemblerInvariant, AssemblerReturnsTheFrames, PTL DEF LineSpec

=============================================================================
