-------------------------- MODULE SerialBridgeProofs --------------------------
(* Proofs about SerialBridge, for both builds, any buffers and any traffic.    *)
EXTENDS SerialBridge, SequenceTheorems, TLAPS

Bytes == Seq(Nat)

Types ==
  /\ device_line \in Bytes /\ buffer_ \in Bytes /\ serial_buffer \in Bytes
  /\ socket_took \in Bytes /\ peer_line \in Bytes /\ device_got \in Bytes
  /\ device_sent \in Nat /\ peer_sent \in Nat /\ port_lost \in Nat
  /\ kb \in Key

\* ReadArray overwrites the buffer of the main loop: it must be empty then.
BufferIsFree == pc \notin {"send", "sending", "exited"} => serial_buffer = <<>>

\* The bytes on their way to the peer, and those on their way to the device.
ToPeer == socket_took \o serial_buffer \o buffer_ \o device_line
ToDevice == device_got \o peer_line

PeerPart == conn # "broken" => ToPeer = Numbers(device_sent)

DevicePart ==
  /\ InOrder(ToDevice)
  /\ \A i \in DOMAIN ToDevice : ToDevice[i] \in 1 .. peer_sent
  /\ Len(device_got) + Len(peer_line) + port_lost = peer_sent
  /\ posix /\ port_up => port_lost = 0

IInv == Types /\ BufferIsFree /\ PeerPart /\ DevicePart

-----------------------------------------------------------------------------
(* Sequences                                                               *)

\* What is taken from the front and what stays make up the whole.
LEMMA SplitAt ==
  ASSUME NEW s \in Bytes, NEW n \in 0 .. Len(s)
  PROVE  First(n, s) \in Bytes /\ Rest(n, s) \in Bytes /\ First(n, s) \o Rest(n, s) = s
<1>. USE DEF Bytes, First, Rest
<1>1. Len(s) \in Nat /\ \A i \in 1 .. Len(s) : s[i] \in Nat
  BY LenProperties, ElementOfSeq
<1>2. First(n, s) \in Bytes
  BY <1>1, SubSeqProperties
<1>3. Rest(n, s) \in Bytes
  <2>. \A i \in n + 1 .. Len(s) : s[i] \in Nat
    BY <1>1
  <2>. QED
    BY <1>1, SubSeqProperties
<1>4. SubSeq(s, 1, n) \o SubSeq(s, n + 1, Len(s)) = SubSeq(s, 1, Len(s))
  <2>. 1 \in 1 .. Len(s) + 1 /\ n \in 1 - 1 .. Len(s) /\ Len(s) \in n .. Len(s)
    BY <1>1
  <2>. QED
    BY ConcatAdjacentSubSeq
<1>. QED
  BY <1>2, <1>3, <1>4, SubSeqFull

LEMMA ConcatType ==
  ASSUME NEW s \in Bytes, NEW t \in Bytes
  PROVE  s \o t \in Bytes
  BY ConcatProperties DEF Bytes

LEMMA Regroup ==
  ASSUME NEW s \in Bytes, NEW t \in Bytes, NEW u \in Bytes
  PROVE  (s \o t) \o u = s \o (t \o u)
  BY ConcatAssociative, SMTT(30) DEF Bytes

LEMMA NothingMore ==
  ASSUME NEW s \in Bytes
  PROVE  <<>> \in Bytes /\ s \o <<>> = s /\ <<>> \o s = s
  BY ConcatEmptySeq, EmptySeq DEF Bytes

\* One more number is sent, and is the last one of the line.
LEMMA OneMore ==
  ASSUME NEW s \in Bytes, NEW t \in Bytes, NEW n \in Nat, s \o t = Numbers(n)
  PROVE  /\ Append(t, n + 1) \in Bytes
         /\ s \o Append(t, n + 1) = Numbers(n + 1)
<1>. USE DEF Bytes
<1>1. /\ Append(t, n + 1) \in Bytes /\ Append(t, n + 1) = t \o <<n + 1>>
      /\ <<n + 1>> \in Bytes
  <2>. n + 1 \in Nat
    OBVIOUS
  <2>1. Append(t, n + 1) \in Bytes
    BY AppendProperties
  <2>2. Append(t, n + 1) = t \o <<n + 1>>
    BY AppendIsConcat
  <2>. QED
    BY <2>1, <2>2
<1>2. s \o Append(t, n + 1) = Numbers(n) \o <<n + 1>>
  <2>. s \o (t \o <<n + 1>>) = (s \o t) \o <<n + 1>>
    BY <1>1, Regroup
  <2>. QED
    BY <1>1
<1>3. Numbers(n) \o <<n + 1>> = Numbers(n + 1)
  <2>1. /\ Numbers(n) \in Seq(Nat) /\ Len(Numbers(n)) = n
        /\ Numbers(n + 1) \in Seq(Nat) /\ Len(Numbers(n + 1)) = n + 1
    BY DEF Numbers
  <2>2. <<n + 1>> \in Seq(Nat) /\ Len(<<n + 1>>) = 1 /\ <<n + 1>>[1] = n + 1
    OBVIOUS
  <2>3. /\ Numbers(n) \o <<n + 1>> \in Seq(Nat)
        /\ Len(Numbers(n) \o <<n + 1>>) = n + 1
        /\ \A i \in 1 .. n + 1 : (Numbers(n) \o <<n + 1>>)[i] =
             IF i <= n THEN Numbers(n)[i] ELSE <<n + 1>>[i - n]
    BY <2>1, <2>2, ConcatProperties
  <2>4. \A i \in 1 .. n + 1 : (Numbers(n) \o <<n + 1>>)[i] = Numbers(n + 1)[i]
    BY <2>2, <2>3 DEF Numbers
  <2>. QED
    BY <2>1, <2>3, <2>4, SeqEqual
<1>. QED
  BY <1>1, <1>2, <1>3

\* Two sequences in a row, byte by byte.
LEMMA ConcatParts ==
  ASSUME NEW s \in Bytes, NEW t \in Bytes
  PROVE  /\ Len(s) \in Nat /\ Len(t) \in Nat /\ Len(s \o t) = Len(s) + Len(t)
         /\ DOMAIN (s \o t) = 1 .. Len(s) + Len(t)
         /\ \A i \in 1 .. Len(s) : (s \o t)[i] = s[i]
         /\ \A i \in 1 .. Len(t) : (s \o t)[Len(s) + i] = t[i]
<1>1. Len(s) \in Nat /\ Len(t) \in Nat /\ Len(s \o t) = Len(s) + Len(t)
  BY LenProperties, ConcatProperties DEF Bytes
<1>2. DOMAIN (s \o t) = 1 .. Len(s \o t)
  BY ConcatType, LenProperties DEF Bytes
<1>3. \A i \in 1 .. Len(s) + Len(t) :
        (s \o t)[i] = IF i <= Len(s) THEN s[i] ELSE t[i - Len(s)]
  BY ConcatProperties DEF Bytes
<1>4. ASSUME NEW i \in 1 .. Len(s)
      PROVE  (s \o t)[i] = s[i]
  BY <1>1, <1>3
<1>5. ASSUME NEW i \in 1 .. Len(t)
      PROVE  (s \o t)[Len(s) + i] = t[i]
  <2>1. Len(s) + i \in 1 .. Len(s) + Len(t) /\ ~(Len(s) + i <= Len(s)) /\ (Len(s) + i) - Len(s) = i
    BY <1>1
  <2>2. QED
    BY <1>3, <2>1
<1>6. QED
  BY <1>1, <1>2, <1>4, <1>5

\* The lengths of what is taken from the front and of what stays, byte by byte.
LEMMA SplitParts ==
  ASSUME NEW s \in Bytes, NEW n \in 0 .. Len(s)
  PROVE  /\ Len(First(n, s)) = n /\ Len(Rest(n, s)) = Len(s) - n
         /\ \A i \in 1 .. n : First(n, s)[i] = s[i]
         /\ \A i \in 1 .. Len(s) - n : Rest(n, s)[i] = s[n + i]
<1>. USE DEF Bytes, First, Rest
<1>1. Len(s) \in Nat /\ \A i \in 1 .. Len(s) : s[i] \in Nat
  BY LenProperties, ElementOfSeq
<1>2. Len(SubSeq(s, 1, n)) = n /\ \A i \in 1 .. n : SubSeq(s, 1, n)[i] = s[i]
  <2>1. \A i \in 1 .. n : s[i] \in Nat
    BY <1>1
  <2>2. QED
    BY <1>1, <2>1, SubSeqProperties
<1>3. /\ Len(SubSeq(s, n + 1, Len(s))) = Len(s) - n
      /\ \A i \in 1 .. Len(s) - n : SubSeq(s, n + 1, Len(s))[i] = s[n + i]
  <2>1. \A i \in n + 1 .. Len(s) : s[i] \in Nat
    BY <1>1
  <2>2. QED
    BY <1>1, <2>1, SubSeqProperties
<1>4. QED
  BY <1>2, <1>3

\* Leaving out bytes in the middle keeps the order and the range of the others.
LEMMA LeavingOut ==
  ASSUME NEW s \in Bytes, NEW t \in Bytes, NEW n \in 0 .. Len(t), NEW k \in 0 .. n,
         NEW m \in Nat, InOrder(s \o t), \A i \in DOMAIN (s \o t) : (s \o t)[i] \in 1 .. m
  PROVE  LET v == (s \o First(k, t)) \o Rest(n, t)
         IN  /\ InOrder(v) /\ \A i \in DOMAIN v : v[i] \in 1 .. m
             /\ Len(s \o First(k, t)) = Len(s) + k /\ Len(Rest(n, t)) = Len(t) - n
<1> DEFINE w == s \o t
           f == First(k, t)
           u == s \o f
           g == Rest(n, t)
           v == u \o g
           At(i) == IF i <= Len(s) + k THEN i ELSE i + (n - k)
<1>1. Len(s) \in Nat /\ Len(t) \in Nat /\ k \in 0 .. Len(t)
  BY ConcatParts
<1>2. /\ f \in Bytes /\ g \in Bytes /\ Len(f) = k /\ Len(g) = Len(t) - n
      /\ \A i \in 1 .. k : f[i] = t[i]
      /\ \A i \in 1 .. Len(t) - n : g[i] = t[n + i]
  BY <1>1, SplitAt, SplitParts
<1> HIDE DEF f, g
<1>3. /\ u \in Bytes /\ Len(u) = Len(s) + k
      /\ \A i \in 1 .. Len(s) : u[i] = s[i]
      /\ \A i \in 1 .. k : u[Len(s) + i] = f[i]
  BY <1>2, ConcatParts, ConcatType
<1>4. /\ DOMAIN v = 1 .. (Len(s) + k) + (Len(t) - n)
      /\ \A i \in 1 .. Len(s) + k : v[i] = u[i]
      /\ \A i \in 1 .. Len(t) - n : v[(Len(s) + k) + i] = g[i]
  <2> HIDE DEF u
  <2>1. /\ DOMAIN (u \o g) = 1 .. Len(u) + Len(g)
        /\ \A i \in 1 .. Len(u) : (u \o g)[i] = u[i]
        /\ \A i \in 1 .. Len(g) : (u \o g)[Len(u) + i] = g[i]
    BY <1>2, <1>3, ConcatParts
  <2>2. QED
    BY <2>1, <1>2, <1>3
<1>5. /\ DOMAIN w = 1 .. Len(s) + Len(t)
      /\ \A i \in 1 .. Len(s) : w[i] = s[i]
      /\ \A i \in 1 .. Len(t) : w[Len(s) + i] = t[i]
  BY ConcatParts
<1> HIDE DEF u, v, w
<1>6. ASSUME NEW i \in DOMAIN v
      PROVE  At(i) \in DOMAIN w /\ v[i] = w[At(i)]
  <2>1. CASE i \in 1 .. Len(s)
    <3>1. At(i) = i /\ i \in 1 .. Len(s) + k /\ i \in 1 .. Len(s) + Len(t)
      BY <1>1, <2>1
    <3>2. QED
      BY <3>1, <2>1, <1>3, <1>4, <1>5
  <2>2. CASE i \in Len(s) + 1 .. Len(s) + k
    <3> DEFINE j == i - Len(s)
    <3>1. /\ j \in 1 .. k /\ j \in 1 .. Len(t) /\ i = Len(s) + j /\ At(i) = i
          /\ i \in 1 .. Len(s) + k /\ i \in 1 .. Len(s) + Len(t)
      BY <1>1, <2>2
    <3> HIDE DEF j
    <3>2. QED
      BY <3>1, <1>2, <1>3, <1>4, <1>5
  <2>3. CASE i \in Len(s) + k + 1 .. (Len(s) + k) + (Len(t) - n)
    <3> DEFINE j == i - (Len(s) + k)
    <3>0. ~(i <= Len(s) + k) /\ At(i) = i + (n - k)
      BY <1>1, <2>3
    <3> HIDE DEF At
    <3>5. /\ i \in Int /\ n \in Int /\ k \in Int /\ 0 <= k /\ k <= n /\ n <= Len(t)
          /\ Len(s) + k + 1 <= i /\ i <= (Len(s) + k) + (Len(t) - n)
      BY <1>1, <2>3
    <3>6. j \in Int /\ i = (Len(s) + k) + j /\ 1 <= j /\ j <= Len(t) - n
      <4> DEFINE p == Len(s) + k
                 q == Len(t) - n
      <4>1. p \in Int /\ q \in Int /\ i \in Int /\ p + 1 <= i /\ i <= p + q
        BY <3>5, <1>1
      <4> HIDE DEF p, q
      <4>2. i - p \in Int /\ i = p + (i - p) /\ 1 <= i - p /\ i - p <= q
        BY <4>1
      <4>3. QED
        BY <4>2 DEF p, q
    <3> HIDE DEF j
    <3>7. j \in 1 .. Len(t) - n
      BY <3>6, <3>5, <1>1
    <3>8. n + j \in 1 .. Len(t)
      BY <3>6, <3>5, <1>1
    <3>9. At(i) = Len(s) + (n + j)
      BY <3>0, <3>6, <3>5, <1>1
    <3>10. Len(s) + (n + j) \in 1 .. Len(s) + Len(t)
      BY <3>8, <1>1
    <3>1. /\ j \in 1 .. Len(t) - n /\ i = (Len(s) + k) + j /\ n + j \in 1 .. Len(t)
          /\ At(i) = Len(s) + (n + j) /\ At(i) \in 1 .. Len(s) + Len(t)
      BY <3>6, <3>7, <3>8, <3>9, <3>10
    <3>2. v[i] = t[n + j]
      BY <3>1, <1>2, <1>4
    <3>3. w[At(i)] = t[n + j]
      BY <3>1, <1>5
    <3>4. QED
      BY <3>1, <3>2, <3>3, <1>5
  <2>4. i \in 1 .. (Len(s) + k) + (Len(t) - n)
    BY <1>4
  <2>5. \/ i \in 1 .. Len(s) \/ i \in Len(s) + 1 .. Len(s) + k
        \/ i \in Len(s) + k + 1 .. (Len(s) + k) + (Len(t) - n)
    BY <1>1, <2>4
  <2>6. QED
    BY <2>1, <2>2, <2>3, <2>5
<1>7. InOrder(v)
  <2> SUFFICES ASSUME NEW i \in DOMAIN v, NEW j \in DOMAIN v, i < j
               PROVE  v[i] < v[j]
    BY DEF InOrder
  <2>1. At(i) < At(j)
    BY <1>1, <1>4
  <2> HIDE DEF At
  <2>2. w[At(i)] < w[At(j)]
    BY <1>6, <2>1 DEF InOrder, w
  <2>3. QED
    BY <1>6, <2>2
<1>8. \A i \in DOMAIN v : v[i] \in 1 .. m
  <2> HIDE DEF At
  <2>1. QED
    BY <1>6 DEF w
<1>9. QED
  BY <1>2, <1>3, <1>7, <1>8 DEF f, g, u, v

\* A byte sent last is the greatest.
LEMMA LastInOrder ==
  ASSUME NEW s \in Bytes, NEW t \in Bytes, NEW m \in Nat,
         InOrder(s \o t), \A i \in DOMAIN (s \o t) : (s \o t)[i] \in 1 .. m
  PROVE  LET v == s \o Append(t, m + 1)
         IN  /\ Append(t, m + 1) \in Bytes /\ Len(Append(t, m + 1)) = Len(t) + 1
             /\ InOrder(v) /\ \A i \in DOMAIN v : v[i] \in 1 .. m + 1
<1> DEFINE w == s \o t
           u == Append(t, m + 1)
           v == s \o u
<1>1. Len(s) \in Nat /\ Len(t) \in Nat
  BY ConcatParts
<1>2. /\ u \in Bytes /\ Len(u) = Len(t) + 1 /\ u[Len(t) + 1] = m + 1
      /\ \A i \in 1 .. Len(t) : u[i] = t[i]
  <2>1. m + 1 \in Nat
    OBVIOUS
  <2>2. QED
    BY <2>1, AppendProperties DEF Bytes
<1>3. /\ DOMAIN w = 1 .. Len(s) + Len(t)
      /\ \A i \in 1 .. Len(s) : w[i] = s[i]
      /\ \A i \in 1 .. Len(t) : w[Len(s) + i] = t[i]
  BY ConcatParts
<1>4. /\ DOMAIN v = 1 .. Len(s) + (Len(t) + 1)
      /\ \A i \in 1 .. Len(s) : v[i] = s[i]
      /\ \A i \in 1 .. Len(t) + 1 : v[Len(s) + i] = u[i]
  <2> HIDE DEF u
  <2>1. /\ DOMAIN (s \o u) = 1 .. Len(s) + Len(u)
        /\ \A i \in 1 .. Len(s) : (s \o u)[i] = s[i]
        /\ \A i \in 1 .. Len(u) : (s \o u)[Len(s) + i] = u[i]
    BY <1>2, ConcatParts
  <2>2. QED
    BY <2>1, <1>2
<1> HIDE DEF u, v, w
<1>5. ASSUME NEW i \in DOMAIN v
      PROVE  \/ i \in DOMAIN w /\ v[i] = w[i] /\ v[i] \in 1 .. m
             \/ i = Len(s) + (Len(t) + 1) /\ v[i] = m + 1
  <2>1. CASE i \in 1 .. Len(s)
    <3>1. i \in DOMAIN w /\ v[i] = w[i]
      BY <1>1, <1>3, <1>4, <2>1
    <3>2. QED
      BY <3>1 DEF w
  <2>2. CASE i \in Len(s) + 1 .. Len(s) + Len(t)
    <3> DEFINE j == i - Len(s)
    <3>1. j \in 1 .. Len(t) /\ j \in 1 .. Len(t) + 1 /\ i = Len(s) + j
      BY <1>1, <2>2
    <3> HIDE DEF j
    <3>2. i \in DOMAIN w /\ v[i] = w[i]
      BY <3>1, <2>2, <1>1, <1>2, <1>3, <1>4
    <3>3. QED
      BY <3>2 DEF w
  <2>3. CASE i = Len(s) + (Len(t) + 1)
    <3>1. Len(t) + 1 \in 1 .. Len(t) + 1
      BY <1>1
    <3>2. QED
      BY <3>1, <2>3, <1>2, <1>4
  <2>4. i \in 1 .. Len(s) + (Len(t) + 1)
    BY <1>4
  <2>5. \/ i \in 1 .. Len(s) \/ i \in Len(s) + 1 .. Len(s) + Len(t)
        \/ i = Len(s) + (Len(t) + 1)
    BY <1>1, <2>4
  <2>6. QED
    BY <2>1, <2>2, <2>3, <2>5
<1>6. InOrder(v)
  <2> SUFFICES ASSUME NEW i \in DOMAIN v, NEW j \in DOMAIN v, i < j
               PROVE  v[i] < v[j]
    BY DEF InOrder
  <2>1. i # Len(s) + (Len(t) + 1)
    BY <1>1, <1>4
  <2>2. i \in DOMAIN w /\ v[i] = w[i] /\ v[i] \in 1 .. m
    BY <2>1, <1>5
  <2>3. CASE j \in DOMAIN w /\ v[j] = w[j]
    BY <2>2, <2>3 DEF InOrder, w
  <2>4. CASE v[j] = m + 1
    BY <2>2, <2>4
  <2>5. QED
    BY <2>3, <2>4, <1>5
<1>7. \A i \in DOMAIN v : v[i] \in 1 .. m + 1
  <2>1. m + 1 \in 1 .. m + 1 /\ 1 .. m \subseteq 1 .. m + 1
    OBVIOUS
  <2>2. QED
    BY <1>5, <2>1
<1>8. QED
  BY <1>2, <1>6, <1>7 DEF u, v

-----------------------------------------------------------------------------
(* Every action keeps every byte, but a write that leaves some out         *)

\* Nothing is sent at first.
LEMMA InitIInv == Init => IInv
<1>. SUFFICES ASSUME Init PROVE IInv
  OBVIOUS
<1>1. <<>> \in Bytes /\ <<>> \o <<>> = <<>>
  BY NothingMore DEF Bytes
<1>2. Numbers(0) = <<>>
  BY DEF Numbers
<1>3. ToPeer = <<>> /\ ToDevice = <<>>
  BY <1>1 DEF Init, ToPeer, ToDevice
<1>4. Types /\ BufferIsFree
  BY <1>1 DEF Init, Types, Key, BufferIsFree
<1>5. PeerPart
  BY <1>2, <1>3 DEF Init, PeerPart
<1>6. DevicePart
  BY <1>3 DEF Init, DevicePart, InOrder
<1>. QED
  BY <1>4, <1>5, <1>6 DEF IInv

\* A step that moves nothing towards the device.
LEMMA DeviceSideStays ==
  ASSUME DevicePart, UNCHANGED <<peer_line, peer_sent, device_got, port_lost>>,
         posix' = posix, port_up' => port_up
  PROVE  DevicePart'
BY DEF DevicePart, ToDevice, InOrder

\* A step that moves nothing towards the peer.
LEMMA PeerSideStays ==
  ASSUME PeerPart, UNCHANGED <<socket_took, serial_buffer, buffer_, device_line, device_sent>>,
         conn = "broken" => conn' = "broken"
  PROVE  PeerPart'
BY DEF PeerPart, ToPeer

\* The ring is filled from the line.
LEMMA AvailableKeeps ==
  ASSUME IInv, Available
  PROVE  IInv'
<1>. USE DEF IInv, device, serial, to_peer, peer, to_device
<1>1. DevicePart'
  BY DeviceSideStays DEF Available
<1>2. CASE UNCHANGED <<buffer_, device_line>>
  BY <1>1, <1>2, PeerSideStays DEF Available, Step, Types, BufferIsFree
<1>3. CASE buffer_ = <<>> /\ port_up
  <2>1. PICK n \in 0 .. SERIAL_BUFFER_SIZE :
          /\ n <= Len(device_line)
          /\ buffer_' = First(n, device_line)
          /\ device_line' = Rest(n, device_line)
    BY <1>3 DEF Available
  <2>2. /\ buffer_' \in Bytes /\ device_line' \in Bytes
        /\ buffer_' \o device_line' = device_line
    <3>. n \in 0 .. Len(device_line) /\ device_line \in Bytes
      BY <2>1, BridgeAssumption DEF Types
    <3>. QED
      BY <2>1, SplitAt
  <2>3. socket_took \o serial_buffer \in Bytes /\ socket_took \o serial_buffer \o buffer_ \in Bytes
    BY ConcatType DEF Types
  <2>4. ToPeer = (socket_took \o serial_buffer) \o device_line
    BY <1>3, <2>3, NothingMore DEF ToPeer
  <2>5. ToPeer' = (socket_took \o serial_buffer) \o (buffer_' \o device_line')
    BY <2>2, <2>3, Regroup DEF ToPeer, Available
  <2>. QED
    BY <1>1, <2>2, <2>4, <2>5 DEF Available, Step, Types, BufferIsFree, PeerPart
<1>. QED
  BY <1>2, <1>3 DEF Available

\* The ring goes into the empty buffer of the loop.
LEMMA ReadArrayKeeps ==
  ASSUME IInv, ReadArray
  PROVE  IInv'
<1>. USE DEF IInv, device, serial, to_peer, peer, to_device
<1>1. serial_buffer = <<>> /\ serial_buffer' = buffer_ /\ buffer_' = <<>>
  BY DEF ReadArray, Step, BufferIsFree
<1>2. socket_took \o serial_buffer \o buffer_ = socket_took \o serial_buffer' \o buffer_'
  BY <1>1, NothingMore, ConcatType DEF Types
<1>3. PeerPart'
  BY <1>1, <1>2 DEF ReadArray, PeerPart, ToPeer
<1>. QED
  BY <1>1, <1>3, NothingMore, DeviceSideStays DEF ReadArray, Step, Types, BufferIsFree

\* The socket takes some of the buffer, and the loop goes on with it until it has all.
LEMMA SocketTakesKeeps ==
  ASSUME IInv, SocketTakes
  PROVE  IInv'
<1>. USE DEF IInv, device, serial, to_peer, peer, to_device
<1>1. PICK n \in 1 .. Len(serial_buffer) :
        /\ socket_took' = socket_took \o First(n, serial_buffer)
        /\ pc' = AfterTaken(Rest(n, serial_buffer))
        /\ serial_buffer' = IF pc' = "receive" THEN <<>> ELSE Rest(n, serial_buffer)
  BY DEF SocketTakes
<1>2. n \in 0 .. Len(serial_buffer) /\ serial_buffer \in Bytes
  BY DEF Types
<1>3. /\ First(n, serial_buffer) \in Bytes /\ Rest(n, serial_buffer) \in Bytes
      /\ First(n, serial_buffer) \o Rest(n, serial_buffer) = serial_buffer
  BY <1>2, SplitAt
<1>4. serial_buffer' = Rest(n, serial_buffer)
      /\ (pc' = "receive" => serial_buffer' = <<>>) /\ pc' \in {"receive", "sending"}
  BY <1>1 DEF AfterTaken
<1>5. /\ socket_took' \in Bytes
      /\ socket_took' \o serial_buffer' = socket_took \o serial_buffer
  <2> DEFINE f == First(n, serial_buffer)
             r == Rest(n, serial_buffer)
  <2>1. f \in Bytes /\ r \in Bytes /\ f \o r = serial_buffer /\ socket_took \in Bytes
        /\ socket_took' = socket_took \o f /\ serial_buffer' = r
    BY <1>1, <1>3, <1>4 DEF Types
  <2> HIDE DEF f, r
  <2>2. (socket_took \o f) \o r = socket_took \o (f \o r)
    BY <2>1, Regroup
  <2>3. QED
    BY <2>1, <2>2, ConcatType
<1>6. PeerPart'
  BY <1>5 DEF SocketTakes, PeerPart, ToPeer
<1>. QED
  BY <1>3, <1>4, <1>5, <1>6, DeviceSideStays DEF SocketTakes, Types, BufferIsFree

\* A write that fails, or drops what it has not written: the connection is broken.
LEMMA WriteFailsKeeps ==
  ASSUME IInv, WriteFails
  PROVE  IInv'
<1>. USE DEF IInv, device, serial, to_peer, peer, to_device
<1>1. serial_buffer' = <<>> \/ (pc' = "exited" /\ serial_buffer' = serial_buffer)
  BY DEF WriteFails
<1>. QED
  BY <1>1, NothingMore, DeviceSideStays DEF WriteFails, Types, BufferIsFree, PeerPart

\* The loop hands bytes of the peer to the port, which leaves some out or none.
LEMMA ReceiveKeeps ==
  ASSUME IInv, Receive
  PROVE  IInv'
<1>. USE DEF IInv, device, serial, to_peer, peer, to_device
<1>0. PICK n \in 1 .. SOCKET_BUFFER_SIZE :
        /\ n <= Len(peer_line)
        /\ peer_line' = Rest(n, peer_line)
        /\ \E k \in PortTakes(n) : /\ device_got' = device_got \o First(k, peer_line)
                                   /\ port_lost' = port_lost + (n - k)
  BY DEF Receive
<1>1. PICK k \in PortTakes(n) : /\ device_got' = device_got \o First(k, peer_line)
                                /\ port_lost' = port_lost + (n - k)
  BY <1>0
<1>2. /\ n \in Nat /\ k \in 0 .. n /\ (posix /\ port_up => k = n)
      /\ peer_line \in Bytes /\ device_got \in Bytes /\ Len(peer_line) \in Nat
      /\ Len(device_got) \in Nat
  BY <1>0, <1>1, BridgeAssumption, LenProperties DEF PortTakes, Types, Bytes
<1>3. n \in 0 .. Len(peer_line) /\ k \in 0 .. Len(peer_line)
  BY <1>0, <1>1, <1>2
<1>4. First(k, peer_line) \in Bytes /\ peer_line' \in Bytes /\ device_got' \in Bytes
  BY <1>0, <1>1, <1>2, <1>3, SplitAt, ConcatType
<1>5. /\ InOrder(device_got' \o peer_line')
      /\ \A i \in DOMAIN (device_got' \o peer_line') : (device_got' \o peer_line')[i] \in 1 .. peer_sent
      /\ Len(device_got') = Len(device_got) + k /\ Len(peer_line') = Len(peer_line) - n
  <2>1. /\ peer_sent \in Nat /\ InOrder(device_got \o peer_line)
        /\ \A i \in DOMAIN (device_got \o peer_line) : (device_got \o peer_line)[i] \in 1 .. peer_sent
    BY DEF Types, DevicePart, ToDevice
  <2> DEFINE v == (device_got \o First(k, peer_line)) \o Rest(n, peer_line)
  <2>2. /\ InOrder(v) /\ \A i \in DOMAIN v : v[i] \in 1 .. peer_sent
        /\ Len(device_got \o First(k, peer_line)) = Len(device_got) + k
        /\ Len(Rest(n, peer_line)) = Len(peer_line) - n
    BY ONLY <2>1, <1>2, <1>3, LeavingOut
  <2>3. v = device_got' \o peer_line'
    BY <1>0, <1>1
  <2> HIDE DEF v
  <2>4. QED
    BY <2>2, <2>3, <1>0, <1>1
<1>6. UNCHANGED <<posix, port_up, peer_sent, conn, kb>> /\ pc' = "key" /\ pc = "receive"
      /\ UNCHANGED <<socket_took, serial_buffer, buffer_, device_line, device_sent>>
  BY DEF Receive, Step
<1>7. port_lost' \in Nat /\ Len(device_got') + Len(peer_line') + port_lost' = peer_sent
  <2>1. /\ port_lost \in Nat /\ peer_sent \in Nat
        /\ Len(device_got) + Len(peer_line) + port_lost = peer_sent
    BY DEF Types, DevicePart
  <2>2. k \in Int /\ n \in Int /\ n - k \in Nat
    BY <1>2
  <2>3. port_lost' = port_lost + (n - k)
        /\ Len(device_got') = Len(device_got) + k /\ Len(peer_line') = Len(peer_line) - n
    BY <1>1, <1>5
  <2>4. Len(device_got) \in Int /\ Len(peer_line) \in Int
    BY <1>2
  <2>5. QED
    BY <2>1, <2>2, <2>3, <2>4
<1>8. posix' /\ port_up' => port_lost' = 0
  BY <1>1, <1>2, <1>6 DEF Types, DevicePart
<1>9. DevicePart'
  BY <1>5, <1>6, <1>7, <1>8 DEF DevicePart, ToDevice
<1>10. PeerPart'
  BY <1>6, PeerSideStays
<1>11. Types' /\ BufferIsFree'
  BY <1>4, <1>6, <1>7 DEF Types, BufferIsFree
<1>. QED
  BY <1>9, <1>10, <1>11

\* The steps of the loop that move no byte.
LEMMA OtherStepsKeep ==
  ASSUME IInv, CheckKey \/ NothingToSend \/ NothingToReceive \/ ReadFails
  PROVE  IInv'
<1>. USE DEF IInv, device, serial, to_peer, peer, to_device
<1>1. /\ UNCHANGED <<posix, device_line, device_sent, buffer_, serial_buffer, socket_took,
                    peer_line, peer_sent, conn, device_got, port_lost, port_up>>
      /\ kb' \in Key /\ serial_buffer = <<>>
  BY DEF CheckKey, NothingToSend, NothingToReceive, ReadFails, Step, Types, Key, BufferIsFree
<1>. QED
  BY <1>1, PeerSideStays, DeviceSideStays DEF Types, BufferIsFree

\* Every step of the loop.
LEMMA LoopKeeps ==
  ASSUME IInv, Loop
  PROVE  IInv'
BY AvailableKeeps, ReadArrayKeeps, SocketTakesKeeps, WriteFailsKeeps, ReceiveKeeps,
   OtherStepsKeep DEF Loop, Send

\* The device sends one more byte.
LEMMA DeviceSendsKeeps ==
  ASSUME IInv, DeviceSends
  PROVE  IInv'
<1>. USE DEF IInv, device, serial, to_peer, peer, to_device
<1>1. /\ UNCHANGED <<pc, kb, posix, conn, buffer_, serial_buffer, socket_took,
                    peer_line, peer_sent, device_got, port_lost, port_up>>
      /\ device_sent' = device_sent + 1 /\ device_line' = Append(device_line, device_sent + 1)
  BY DEF DeviceSends
<1>2. device_line' \in Bytes
  <2>1. device_sent + 1 \in Nat
    BY DEF Types
  <2>2. QED
    BY <1>1, <2>1, AppendProperties DEF Types, Bytes
<1>3. PeerPart'
  <2>1. socket_took \o serial_buffer \o buffer_ \in Bytes
    BY ConcatType DEF Types
  <2>2. ASSUME (socket_took \o serial_buffer \o buffer_) \o device_line = Numbers(device_sent)
        PROVE  (socket_took \o serial_buffer \o buffer_) \o device_line' = Numbers(device_sent + 1)
    BY <1>1, <2>1, <2>2, OneMore DEF Types
  <2>3. QED
    BY <1>1, <2>2 DEF PeerPart, ToPeer
<1>4. Types' /\ BufferIsFree'
  BY <1>1, <1>2 DEF Types, BufferIsFree
<1>. QED
  BY <1>1, <1>3, <1>4, DeviceSideStays

\* The peer sends one more byte.
LEMMA PeerSendsKeeps ==
  ASSUME IInv, PeerSends
  PROVE  IInv'
<1>. USE DEF IInv, device, serial, to_peer, peer, to_device
<1>1. /\ UNCHANGED <<pc, kb, posix, conn, buffer_, serial_buffer, socket_took,
                    device_line, device_sent, device_got, port_lost, port_up>>
      /\ peer_sent' = peer_sent + 1 /\ peer_line' = Append(peer_line, peer_sent + 1)
  BY DEF PeerSends
<1>2. /\ peer_line' \in Bytes /\ Len(peer_line') = Len(peer_line) + 1
      /\ InOrder(device_got \o peer_line')
      /\ \A i \in DOMAIN (device_got \o peer_line') :
           (device_got \o peer_line')[i] \in 1 .. peer_sent + 1
  BY <1>1, LastInOrder DEF Types, DevicePart, ToDevice
<1>3. Len(device_got) \in Nat /\ Len(peer_line) \in Nat
  BY LenProperties DEF Types, Bytes
<1>4. DevicePart'
  <2>1. Len(device_got) + Len(peer_line') + port_lost = peer_sent + 1
    BY <1>2, <1>3 DEF Types, DevicePart
  <2>2. QED
    BY <1>1, <1>2, <2>1 DEF DevicePart, ToDevice
<1>5. Types' /\ BufferIsFree'
  BY <1>1, <1>2 DEF Types, BufferIsFree
<1>. QED
  BY <1>1, <1>4, <1>5, PeerSideStays

\* The others move no byte that is kept here.
LEMMA OthersKeep ==
  ASSUME IInv, PeerReads \/ ConnectionEnds \/ PortFails \/ PressKey \/ UNCHANGED vars
  PROVE  IInv'
<1>. USE DEF IInv, device, serial, to_peer, peer, to_device
<1>1. /\ UNCHANGED <<posix, pc, device_line, device_sent, buffer_, serial_buffer, socket_took,
                    peer_line, peer_sent, device_got, port_lost>>
      /\ conn = "broken" => conn' = "broken"
      /\ port_up' => port_up
      /\ kb' \in Key
  BY DEF PeerReads, ConnectionEnds, PortFails, PressKey, vars, Types, Key
<1>. QED
  BY <1>1, PeerSideStays, DeviceSideStays DEF Types, BufferIsFree

\* LostOnlyByWrites: towards the peer every byte is in one place and in order while the
\* connection stands; towards the device bytes come in order and at most once, and what
\* is missing is what a write to the port left out (the loop of main(), write_array).
THEOREM BytesAreLostOnlyByWrites == Spec => []LostOnlyByWrites
<1>1. IInv /\ [Next]_vars => IInv'
  BY LoopKeeps, DeviceSendsKeeps, PeerSendsKeeps, OthersKeep DEF Next
<1>2. IInv => LostOnlyByWrites
  BY DEF IInv, PeerPart, DevicePart, ToPeer, ToDevice, LostOnlyByWrites
<1>. QED
  BY InitIInv, <1>1, <1>2, PTL DEF Spec
=============================================================================
