------------------------ MODULE RtspConnection_proofs ------------------------
(***************************************************************************)
(* Theorems about RtspConnection, for every list of requests, every size   *)
(* of the buffers and of the payloads, and every way TCP cuts the stream.  *)
(*                                                                         *)
(* What the client has not looked at is what it has buffered followed by   *)
(* the wire.  A read moves the boundary between the two and changes        *)
(* neither the tokens nor their order; the rest is counting.               *)
(***************************************************************************)
EXTENDS RtspConnection, SequenceTheorems, WellFoundedInduction, TLAPS

-----------------------------------------------------------------------------
(* Sequences *)

\* What was taken from a sequence and what was left of it are the sequence.
LEMMA TakenAndLeft ==
  ASSUME NEW S, NEW w \in Seq(S), NEW n \in Nat, n <= Len(w)
  PROVE  /\ SubSeq(w, 1, n) \in Seq(S) /\ Len(SubSeq(w, 1, n)) = n
         /\ SubSeq(w, n + 1, Len(w)) \in Seq(S)
         /\ Len(SubSeq(w, n + 1, Len(w))) = Len(w) - n
         /\ \A i \in 1 .. Len(w) - n : SubSeq(w, n + 1, Len(w))[i] = w[n + i]
         /\ \A i \in 1 .. n : SubSeq(w, 1, n)[i] = w[i]
         /\ SubSeq(w, 1, n) \o SubSeq(w, n + 1, Len(w)) = w
<1>1. Len(w) \in Nat /\ \A i \in 1 .. Len(w) : w[i] \in S
  OBVIOUS
<1>2. /\ SubSeq(w, 1, n) \in Seq(S) /\ Len(SubSeq(w, 1, n)) = n
      /\ \A i \in 1 .. n : SubSeq(w, 1, n)[i] = w[i]
  <2>1. /\ SubSeq(w, 1, n) \in Seq(S)
        /\ Len(SubSeq(w, 1, n)) = (IF 1 <= n THEN n - 1 + 1 ELSE 0)
        /\ \A i \in 1 .. n - 1 + 1 : SubSeq(w, 1, n)[i] = w[1 + i - 1]
    BY <1>1, SubSeqProperties
  <2> QED BY <2>1
<1>3. /\ SubSeq(w, n + 1, Len(w)) \in Seq(S)
      /\ Len(SubSeq(w, n + 1, Len(w))) = Len(w) - n
      /\ \A i \in 1 .. Len(w) - n : SubSeq(w, n + 1, Len(w))[i] = w[n + i]
  <2>1. /\ SubSeq(w, n + 1, Len(w)) \in Seq(S)
        /\ Len(SubSeq(w, n + 1, Len(w)))
             = (IF n + 1 <= Len(w) THEN Len(w) - (n + 1) + 1 ELSE 0)
        /\ \A i \in 1 .. Len(w) - (n + 1) + 1 :
             SubSeq(w, n + 1, Len(w))[i] = w[(n + 1) + i - 1]
    BY <1>1, SubSeqProperties
  <2> QED BY <1>1, <2>1
<1>4. SubSeq(w, 1, n) \o SubSeq(w, n + 1, Len(w)) = w
  <2>1. 1 \in 1 .. Len(w) + 1 /\ n \in 1 - 1 .. Len(w) /\ Len(w) \in n .. Len(w)
    BY <1>1
  <2>2. SubSeq(w, 1, n) \o SubSeq(w, n + 1, Len(w)) = SubSeq(w, 1, Len(w))
    BY <2>1, ConcatAdjacentSubSeq
  <2> QED BY <2>2, SubSeqFull
<1> QED BY <1>2, <1>3, <1>4

\* A sequence and what was appended to it, by position.
LEMMA Joined ==
  ASSUME NEW S, NEW a \in Seq(S), NEW b \in Seq(S)
  PROVE  /\ a \o b \in Seq(S) /\ Len(a \o b) = Len(a) + Len(b)
         /\ Len(a) \in Nat /\ Len(b) \in Nat
         /\ \A i \in 1 .. Len(a) : (a \o b)[i] = a[i]
         /\ \A i \in 1 .. Len(b) : (a \o b)[Len(a) + i] = b[i]
         /\ \A i \in 1 .. Len(a) + Len(b) : i > Len(a) => (a \o b)[i] = b[i - Len(a)]
<1>1. Len(a) \in Nat /\ Len(b) \in Nat
  BY LenProperties
<1>2. /\ a \o b \in Seq(S) /\ Len(a \o b) = Len(a) + Len(b)
      /\ \A i \in 1 .. Len(a) + Len(b) :
           (a \o b)[i] = IF i <= Len(a) THEN a[i] ELSE b[i - Len(a)]
  BY ConcatProperties
<1>3. ASSUME NEW i \in 1 .. Len(b)
      PROVE  (a \o b)[Len(a) + i] = b[i]
  <2>1. /\ Len(a) + i \in 1 .. Len(a) + Len(b) /\ ~(Len(a) + i <= Len(a))
        /\ (Len(a) + i) - Len(a) = i
    BY <1>1
  <2> QED BY <1>2, <2>1
<1> QED BY <1>1, <1>2, <1>3

\* t is what is left of s without its first m elements.
Without(t, s, m) ==
  /\ m <= Len(s) /\ Len(t) = Len(s) - m
  /\ \A i \in 1 .. Len(s) - m : t[i] = s[m + i]

LEMMA LeftOfBuffer ==
  ASSUME NEW S, NEW r \in Seq(S), NEW w \in Seq(S), NEW n \in Nat, n <= Len(r)
  PROVE  Without(SubSeq(r, n + 1, Len(r)) \o w, r \o w, n)
<1> DEFINE t == SubSeq(r, n + 1, Len(r))
<1>1. /\ t \in Seq(S) /\ Len(t) = Len(r) - n
      /\ \A i \in 1 .. Len(r) - n : t[i] = r[n + i]
  BY TakenAndLeft
<1> HIDE DEF t
<1>2. Without(t \o w, r \o w, n)
  <2>1. /\ Len(t \o w) = Len(t) + Len(w) /\ Len(t) \in Nat /\ Len(w) \in Nat
        /\ \A i \in 1 .. Len(t) : (t \o w)[i] = t[i]
        /\ \A i \in 1 .. Len(t) + Len(w) : i > Len(t) => (t \o w)[i] = w[i - Len(t)]
    <3>1. Len(t \o w) = Len(t) + Len(w) /\ Len(t) \in Nat /\ Len(w) \in Nat
      BY <1>1, Joined
    <3>2. \A i \in 1 .. Len(t) : (t \o w)[i] = t[i]
      BY <1>1, Joined
    <3>3. \A i \in 1 .. Len(t) + Len(w) : i > Len(t) => (t \o w)[i] = w[i - Len(t)]
      BY <1>1, Joined
    <3> QED BY <3>1, <3>2, <3>3
  <2>2. /\ Len(r \o w) = Len(r) + Len(w) /\ Len(r) \in Nat
        /\ \A i \in 1 .. Len(r) : (r \o w)[i] = r[i]
        /\ \A i \in 1 .. Len(r) + Len(w) : i > Len(r) => (r \o w)[i] = w[i - Len(r)]
    BY Joined
  <2>3. ASSUME NEW i \in 1 .. Len(r \o w) - n
        PROVE  (t \o w)[i] = (r \o w)[n + i]
    <3>1. CASE i <= Len(t)
      BY <1>1, <2>1, <2>2, <2>3, <3>1
    <3>2. CASE i > Len(t)
      <4>1. i \in 1 .. Len(t) + Len(w) /\ n + i \in 1 .. Len(r) + Len(w) /\ n + i > Len(r)
        BY <1>1, <2>1, <2>2, <2>3, <3>2
      <4>2. (t \o w)[i] = w[i - Len(t)] /\ (r \o w)[n + i] = w[(n + i) - Len(r)]
        BY <2>1, <2>2, <3>2, <4>1
      <4>3. i - Len(t) = (n + i) - Len(r)
        BY <1>1, <2>2
      <4> QED BY <4>2, <4>3
    <3>3. i \in Nat /\ Len(t) \in Nat
      BY <1>1, <2>1, <2>2
    <3>4. i <= Len(t) \/ i > Len(t)
      BY <3>3
    <3> QED BY <3>1, <3>2, <3>4
  <2> QED BY <1>1, <2>1, <2>2, <2>3 DEF Without
<1> QED BY <1>2 DEF t

LEMMA LeftOfWire ==
  ASSUME NEW S, NEW r \in Seq(S), NEW w \in Seq(S), NEW n \in Nat, n <= Len(w)
  PROVE  Without(SubSeq(w, n + 1, Len(w)), r \o w, Len(r) + n)
<1> DEFINE t == SubSeq(w, n + 1, Len(w))
<1>1. /\ t \in Seq(S) /\ Len(t) = Len(w) - n
      /\ \A i \in 1 .. Len(w) - n : t[i] = w[n + i]
  BY TakenAndLeft
<1> HIDE DEF t
<1>2. /\ Len(r \o w) = Len(r) + Len(w) /\ Len(r) \in Nat /\ Len(w) \in Nat
      /\ \A i \in 1 .. Len(w) : (r \o w)[Len(r) + i] = w[i]
  BY Joined
<1>3. ASSUME NEW i \in 1 .. Len(r \o w) - (Len(r) + n)
      PROVE  t[i] = (r \o w)[(Len(r) + n) + i]
  <2>1. i \in 1 .. Len(w) - n /\ n + i \in 1 .. Len(w)
    BY <1>2
  <2>2. (r \o w)[Len(r) + (n + i)] = w[n + i]
    BY <1>2, <2>1
  <2>3. Len(r) + (n + i) = (Len(r) + n) + i
    BY <1>2, <2>1
  <2> QED BY <1>1, <2>1, <2>2, <2>3
<1> QED BY <1>1, <1>2, <1>3 DEF Without, t

LEMMA SmallestOf ==
  ASSUME NEW S, S \subseteq Nat, S # {}
  PROVE  Min(S) \in S /\ \A x \in S : Min(S) <= x
<1>1. PICK m \in S : \A x \in S : <<x, m>> \notin OpToRel(<, Nat)
  BY NatLessThanWellFounded, WFMin
<1>2. \A x \in S : m <= x
  <2> TAKE x \in S
  <2>1. ~(x < m)
    BY <1>1, Zenon DEF OpToRel
  <2> QED BY <2>1
<1> QED BY <1>2 DEF Min

\* The first token of some kinds.
LEMMA FirstOfKind ==
  ASSUME NEW s \in Seq(Tokens), NEW kinds
  PROVE  \/ First(s, kinds) = 0 /\ \A i \in 1 .. Len(s) : s[i][1] \notin kinds
         \/ /\ First(s, kinds) \in 1 .. Len(s) /\ s[First(s, kinds)][1] \in kinds
            /\ \A i \in 1 .. Len(s) : i < First(s, kinds) => s[i][1] \notin kinds
<1> DEFINE I == {i \in 1 .. Len(s) : s[i][1] \in kinds}
<1>1. First(s, kinds) = IF I # {} THEN Min(I) ELSE 0
  BY DEF First, SelectInSeq
<1>2. I \subseteq Nat /\ \A i \in 1 .. Len(s) : i \in I <=> s[i][1] \in kinds
  OBVIOUS
<1>3. I \subseteq 1 .. Len(s)
  OBVIOUS
<1> HIDE DEF I
<1>4. CASE I = {}
  BY <1>1, <1>2, <1>4
<1>5. CASE I # {}
  <2>1. Min(I) \in I /\ \A x \in I : Min(I) <= x
    BY <1>2, <1>5, SmallestOf
  <2>2. First(s, kinds) = Min(I)
    BY <1>1, <1>5
  <2>3. ASSUME NEW i \in 1 .. Len(s), i < Min(I)
        PROVE  i \notin I
    <3>1. i \in Nat /\ Min(I) \in Nat
      <4>1. Min(I) \in Nat
        BY <1>2, <2>1, Zenon
      <4> QED BY <4>1
    <3>2. i \in I => Min(I) <= i
      BY <2>1
    <3>3. ~(Min(I) <= i)
      BY <2>3, <3>1
    <3> QED BY <3>2, <3>3
  <2> QED BY <1>2, <1>3, <2>1, <2>2, <2>3
<1> QED BY <1>4, <1>5
-----------------------------------------------------------------------------
(* Packets in a stream of tokens *)

\* Where a packet begins; a '$' in a response has no number.
IsStart(token) == token[1] = "$" /\ token[2] # 0

\* Packet p, of z bytes, lies in s at i.
PacketAt(s, i, p, z) ==
  /\ i + 3 + z <= Len(s)
  /\ \A j \in 1 .. 4 + z : s[i + j - 1] = Packet(p, z)[j]

\* Behind the first m tokens of s the packets after k lie whole and in order.
Framed(s, m, k, sizes) ==
  /\ m <= Len(s)
  /\ \A i \in m + 1 .. Len(s) :
       IsStart(s[i]) =>
         /\ s[i][2] \in k + 1 .. Len(sizes)
         /\ PacketAt(s, i, s[i][2], sizes[s[i][2]])
  /\ \A i, j \in m + 1 .. Len(s) :
       i < j /\ IsStart(s[i]) /\ IsStart(s[j]) => s[i][2] < s[j][2]
  /\ \A p \in k + 1 .. Len(sizes) :
       \E i \in m + 1 .. Len(s) : IsStart(s[i]) /\ s[i][2] = p

LEMMA TokenNumber ==
  ASSUME NEW s \in Seq(Tokens), NEW i \in 1 .. Len(s)
  PROVE  s[i] \in Tokens /\ s[i][2] \in Nat
<1>1. s[i] \in Tokens
  BY ElementOfSeq
<1> QED BY <1>1 DEF Tokens

LEMMA PacketTokens ==
  ASSUME NEW p \in Nat, NEW z \in Nat
  PROVE  /\ Packet(p, z) \in Seq(Tokens) /\ Len(Packet(p, z)) = 4 + z
         /\ Packet(p, z)[1] = <<"$", p, 0>>
         /\ Packet(p, z)[3] = <<"size", z, 0>> /\ Packet(p, z)[4] = <<"size", z, 1>>
         /\ \A j \in 1 .. z : Packet(p, z)[4 + j] = Payload(p, z)[j]
         /\ \A j \in 2 .. 4 + z : ~IsStart(Packet(p, z)[j])
<1> DEFINE h == <<<<"$", p, 0>>, <<"channel", p, 0>>, <<"size", z, 0>>, <<"size", z, 1>>>>
<1>1. h \in Seq(Tokens) /\ Len(h) = 4
  <2>1. /\ <<"$", p, 0>> \in Tokens /\ <<"channel", p, 0>> \in Tokens
        /\ <<"size", z, 0>> \in Tokens /\ <<"size", z, 1>> \in Tokens
    BY DEF Tokens
  <2> QED BY <2>1
<1>2. /\ Payload(p, z) \in Seq(Tokens) /\ Len(Payload(p, z)) = z
      /\ \A j \in 1 .. z : Payload(p, z)[j] = <<"payload", p, j>>
  <2>1. \A j \in 1 .. z : <<"payload", p, j>> \in Tokens
    BY DEF Tokens
  <2> QED BY <2>1 DEF Payload
<1>3. /\ h[1] = <<"$", p, 0>> /\ h[2] = <<"channel", p, 0>>
      /\ h[3] = <<"size", z, 0>> /\ h[4] = <<"size", z, 1>>
  OBVIOUS
<1>4. Packet(p, z) = h \o Payload(p, z)
  BY DEF Packet
<1> HIDE DEF h
<1>5. /\ Packet(p, z) \in Seq(Tokens) /\ Len(Packet(p, z)) = 4 + z
      /\ \A j \in 1 .. 4 : Packet(p, z)[j] = h[j]
      /\ \A j \in 1 .. z : Packet(p, z)[4 + j] = Payload(p, z)[j]
      /\ \A j \in 1 .. 4 + z : j > 4 => Packet(p, z)[j] = Payload(p, z)[j - 4]
  <2>1. PICK a \in Seq(Tokens), b \in Seq(Tokens) : a = h /\ b = Payload(p, z)
    BY <1>1, <1>2
  <2>2. /\ a \o b \in Seq(Tokens) /\ Len(a \o b) = Len(a) + Len(b)
        /\ \A i \in 1 .. Len(a) : (a \o b)[i] = a[i]
        /\ \A i \in 1 .. Len(b) : (a \o b)[Len(a) + i] = b[i]
        /\ \A i \in 1 .. Len(a) + Len(b) : i > Len(a) => (a \o b)[i] = b[i - Len(a)]
    BY Joined
  <2>3. Len(a) = 4 /\ Len(b) = z /\ Packet(p, z) = a \o b
    BY <1>1, <1>2, <1>4, <2>1
  <2> QED BY <2>1, <2>2, <2>3
<1>6. ASSUME NEW j \in 2 .. 4 + z
      PROVE  ~IsStart(Packet(p, z)[j])
  <2>1. CASE j \in 2 .. 4
    <3>1. Packet(p, z)[j] \in {h[2], h[3], h[4]}
      BY <1>5, <2>1
    <3> QED BY <1>3, <3>1 DEF IsStart
  <2>2. CASE j > 4
    <3>1. Packet(p, z)[j] = <<"payload", p, j - 4>>
      BY <1>2, <1>5, <2>2
    <3> QED BY <3>1 DEF IsStart
  <2> QED BY <2>1, <2>2
<1> QED BY <1>3, <1>5, <1>6

\* The number of a packet that is still to come, and its size.
LEMMA PacketNumber ==
  ASSUME NEW sizes \in Seq(Nat), NEW k \in Nat, NEW p \in k + 1 .. Len(sizes)
  PROVE  p \in 1 .. Len(sizes) /\ p \in Nat /\ sizes[p] \in Nat
<1>1. Len(sizes) \in Nat /\ \A q \in 1 .. Len(sizes) : sizes[q] \in Nat
  BY LenProperties, ElementOfSeq
<1>2. p \in 1 .. Len(sizes) /\ p \in Nat
  BY <1>1
<1> QED BY <1>1, <1>2

\* What is taken from the front does not disturb the packets behind it.
LEMMA FramedWithout ==
  ASSUME NEW s \in Seq(Tokens), NEW t \in Seq(Tokens), NEW m \in Nat, NEW d \in 0 .. m,
         NEW k \in Nat, NEW sizes \in Seq(Nat), Framed(s, m, k, sizes), Without(t, s, d)
  PROVE  Framed(t, m - d, k, sizes)
<1>1. /\ Len(s) \in Nat /\ Len(t) = Len(s) - d /\ m <= Len(s)
      /\ \A i \in 1 .. Len(t) : t[i] = s[d + i]
  BY LenProperties DEF Framed, Without
<1>2. \A i \in (m - d) + 1 .. Len(t) : d + i \in m + 1 .. Len(s) /\ t[i] = s[d + i]
  BY <1>1
<1>3. ASSUME NEW i \in (m - d) + 1 .. Len(t), IsStart(t[i])
      PROVE  t[i][2] \in k + 1 .. Len(sizes) /\ PacketAt(t, i, t[i][2], sizes[t[i][2]])
  <2> DEFINE p == t[i][2]
             z == sizes[p]
  <2>1. p \in k + 1 .. Len(sizes) /\ PacketAt(s, d + i, p, z)
    BY <1>2, <1>3 DEF Framed
  <2>2. p \in Nat /\ z \in Nat
    <3>1. t[i][2] \in k + 1 .. Len(sizes)
      BY <2>1
    <3> QED BY <3>1, PacketNumber
  <2> HIDE DEF p, z
  <2>3. i + 3 + z <= Len(t) /\ i \in Nat
    BY <1>1, <2>1, <2>2 DEF PacketAt
  <2>4. ASSUME NEW j \in 1 .. 4 + z
        PROVE  t[i + j - 1] = Packet(p, z)[j]
    <3>1. i + j - 1 \in 1 .. Len(t) /\ d + (i + j - 1) = (d + i) + j - 1
      BY <1>1, <2>2, <2>3
    <3>2. t[i + j - 1] = s[(d + i) + j - 1]
      BY <1>1, <3>1
    <3> QED BY <2>1, <3>2 DEF PacketAt
  <2> QED BY <2>1, <2>3, <2>4 DEF PacketAt, p, z
<1>4. ASSUME NEW i \in (m - d) + 1 .. Len(t), NEW j \in (m - d) + 1 .. Len(t),
             i < j, IsStart(t[i]), IsStart(t[j])
      PROVE  t[i][2] < t[j][2]
  <2>1. d + i < d + j
    BY <1>1, <1>4
  <2> QED BY <1>2, <1>4, <2>1 DEF Framed
<1>5. ASSUME NEW p \in k + 1 .. Len(sizes)
      PROVE  \E i \in (m - d) + 1 .. Len(t) : IsStart(t[i]) /\ t[i][2] = p
  <2>1. PICK i \in m + 1 .. Len(s) : IsStart(s[i]) /\ s[i][2] = p
    BY DEF Framed
  <2>2. i - d \in (m - d) + 1 .. Len(t) /\ d + (i - d) = i
    BY <1>1
  <2>3. t[i - d] = s[i]
    BY <1>2, <2>2
  <2> QED BY <2>1, <2>2, <2>3
<1>6. m - d <= Len(t)
  BY <1>1
<1> QED BY <1>3, <1>4, <1>5, <1>6 DEF Framed

\* Tokens that begin no packet may be skipped.
LEMMA FramedBehind ==
  ASSUME NEW s \in Seq(Tokens), NEW m \in Nat, NEW n \in Nat, m <= n, n <= Len(s),
         NEW k, NEW sizes, Framed(s, m, k, sizes),
         \A i \in m + 1 .. n : ~IsStart(s[i])
  PROVE  Framed(s, n, k, sizes)
<1>1. Len(s) \in Nat
  BY LenProperties
<1>2. \A i \in n + 1 .. Len(s) : i \in m + 1 .. Len(s)
  BY <1>1
<1>3. ASSUME NEW i \in m + 1 .. Len(s), IsStart(s[i])
      PROVE  i \in n + 1 .. Len(s)
  BY <1>1, <1>3
<1> QED BY <1>2, <1>3 DEF Framed

\* The first packet of the stream, and what is behind it.
LEMMA FramedFirst ==
  ASSUME NEW s \in Seq(Tokens), NEW k \in Nat, NEW sizes \in Seq(Nat),
         Framed(s, 0, k, sizes), s # <<>>, IsStart(s[1])
  PROVE  /\ k + 1 \in 1 .. Len(sizes) /\ sizes[k + 1] \in Nat
         /\ PacketAt(s, 1, k + 1, sizes[k + 1])
         /\ Framed(s, 4 + sizes[k + 1], k + 1, sizes)
<1>1. Len(s) \in Nat /\ 1 \in 1 .. Len(s) /\ Len(sizes) \in Nat
  BY LenProperties, EmptySeq
<1>2. s[1][2] \in k + 1 .. Len(sizes) /\ PacketAt(s, 1, s[1][2], sizes[s[1][2]])
  BY <1>1 DEF Framed
<1>3. k + 1 \in k + 1 .. Len(sizes)
  BY <1>1, <1>2
<1>4. PICK i \in 1 .. Len(s) : IsStart(s[i]) /\ s[i][2] = k + 1
  BY <1>3 DEF Framed
<1>5. s[1][2] = k + 1
  <2>1. CASE i = 1
    BY <1>4, <2>1
  <2>2. CASE i # 1
    <3>1. 1 < i
      BY <1>1, <2>2
    <3>2. s[1][2] < s[i][2]
      BY <1>1, <1>4, <3>1 DEF Framed
    <3> QED BY <1>2, <1>4, <3>2
  <2> QED BY <2>1, <2>2
<1> DEFINE z == sizes[k + 1]
<1>6. k + 1 \in 1 .. Len(sizes) /\ z \in Nat
  BY <1>1, <1>3, ElementOfSeq
<1>7. PacketAt(s, 1, k + 1, z)
  BY <1>2, <1>5
<1> HIDE DEF z
<1>8. ASSUME NEW j \in 2 .. 4 + z
      PROVE  j \in 1 .. Len(s) /\ ~IsStart(s[j])
  <2>1. j \in 1 .. Len(s) /\ s[1 + j - 1] = Packet(k + 1, z)[j] /\ 1 + j - 1 = j
    BY <1>1, <1>6, <1>7 DEF PacketAt
  <2>2. PICK p \in Nat : p = k + 1
    OBVIOUS
  <2>3. \A q \in 2 .. 4 + z : ~IsStart(Packet(p, z)[q])
    BY <1>6, PacketTokens
  <2> QED BY <2>1, <2>2, <2>3
<1>9. Framed(s, 4 + z, k + 1, sizes)
  <2>1. 4 + z <= Len(s)
    BY <1>6, <1>7 DEF PacketAt
  <2>2. ASSUME NEW j \in (4 + z) + 1 .. Len(s), IsStart(s[j])
        PROVE  s[j][2] \in (k + 1) + 1 .. Len(sizes) /\ PacketAt(s, j, s[j][2], sizes[s[j][2]])
    <3>1. j \in 1 .. Len(s) /\ 1 < j
      BY <1>1, <1>6
    <3>2. s[j][2] \in k + 1 .. Len(sizes) /\ PacketAt(s, j, s[j][2], sizes[s[j][2]])
      BY <2>2, <3>1 DEF Framed
    <3>3. k + 1 < s[j][2]
      BY <1>1, <1>5, <2>2, <3>1 DEF Framed
    <3> QED BY <1>1, <3>2, <3>3
  <2>3. \A j \in (4 + z) + 1 .. Len(s) : j \in 1 .. Len(s)
    BY <1>1, <1>6
  <2>4. ASSUME NEW p \in (k + 1) + 1 .. Len(sizes)
        PROVE  \E j \in (4 + z) + 1 .. Len(s) : IsStart(s[j]) /\ s[j][2] = p
    <3>1. p \in k + 1 .. Len(sizes) /\ p # k + 1
      BY <1>1
    <3>2. PICK j \in 1 .. Len(s) : IsStart(s[j]) /\ s[j][2] = p
      BY <3>1 DEF Framed
    <3>3. j # 1 /\ j \notin 2 .. 4 + z
      BY <1>5, <1>8, <3>1, <3>2
    <3>4. j \in (4 + z) + 1 .. Len(s)
      BY <1>1, <1>6, <3>3
    <3> QED BY <3>2, <3>4
  <2> QED BY <2>1, <2>2, <2>3, <2>4 DEF Framed
<1> QED BY <1>6, <1>7, <1>9 DEF z

\* A packet is where it was when something is appended.
LEMMA PacketStays ==
  ASSUME NEW s \in Seq(Tokens), NEW t \in Seq(Tokens), NEW i \in Nat \ {0}, NEW p \in Nat,
         NEW z \in Nat, PacketAt(s, i, p, z)
  PROVE  PacketAt(s \o t, i, p, z)
<1>1. /\ Len(s \o t) = Len(s) + Len(t) /\ Len(s) \in Nat /\ Len(t) \in Nat
      /\ \A j \in 1 .. Len(s) : (s \o t)[j] = s[j]
  BY Joined
<1>2. i + 3 + z <= Len(s)
  BY DEF PacketAt
<1>3. ASSUME NEW j \in 1 .. 4 + z
      PROVE  (s \o t)[i + j - 1] = Packet(p, z)[j]
  <2>1. i + j - 1 \in 1 .. Len(s)
    BY <1>1, <1>2
  <2>2. (s \o t)[i + j - 1] = s[i + j - 1]
    BY <1>1, <2>1
  <2> QED BY <2>2 DEF PacketAt
<1> QED BY <1>1, <1>2, <1>3 DEF PacketAt

\* The server sends what begins no packet.
LEMMA FramedMore ==
  ASSUME NEW s \in Seq(Tokens), NEW t \in Seq(Tokens), NEW m \in Nat, NEW k \in Nat,
         NEW sizes \in Seq(Nat), Framed(s, m, k, sizes),
         \A i \in 1 .. Len(t) : ~IsStart(t[i])
  PROVE  Framed(s \o t, m, k, sizes)
<1>1. /\ Len(s \o t) = Len(s) + Len(t) /\ Len(s) \in Nat /\ Len(t) \in Nat
      /\ \A i \in 1 .. Len(s) : (s \o t)[i] = s[i]
      /\ \A i \in 1 .. Len(s) + Len(t) : i > Len(s) => (s \o t)[i] = t[i - Len(s)]
  BY Joined
<1>2. m <= Len(s \o t)
  BY <1>1 DEF Framed
<1>3. ASSUME NEW i \in m + 1 .. Len(s \o t), IsStart((s \o t)[i])
      PROVE  i \in m + 1 .. Len(s) /\ (s \o t)[i] = s[i]
  <2>1. i <= Len(s)
    <3> SUFFICES ASSUME i > Len(s) PROVE FALSE
      BY <1>1
    <3>1. i - Len(s) \in 1 .. Len(t) /\ i \in 1 .. Len(s) + Len(t)
      BY <1>1
    <3>2. (s \o t)[i] = t[i - Len(s)]
      BY <1>1, <3>1
    <3> QED BY <1>3, <3>1, <3>2
  <2>2. i \in m + 1 .. Len(s) /\ i \in 1 .. Len(s)
    BY <1>1, <2>1
  <2> QED BY <1>1, <2>2
<1>4. ASSUME NEW i \in m + 1 .. Len(s \o t), IsStart((s \o t)[i])
      PROVE  /\ (s \o t)[i][2] \in k + 1 .. Len(sizes)
             /\ PacketAt(s \o t, i, (s \o t)[i][2], sizes[(s \o t)[i][2]])
  <2>1. i \in m + 1 .. Len(s) /\ (s \o t)[i] = s[i] /\ IsStart(s[i]) /\ i \in Nat \ {0}
    BY <1>3, <1>4
  <2>2. s[i][2] \in k + 1 .. Len(sizes) /\ PacketAt(s, i, s[i][2], sizes[s[i][2]])
    BY <2>1 DEF Framed
  <2>3. s[i][2] \in Nat /\ sizes[s[i][2]] \in Nat
    <3>1. s[i][2] \in k + 1 .. Len(sizes)
      BY <2>2
    <3> QED BY <3>1, PacketNumber
  <2> QED BY <2>1, <2>2, <2>3, PacketStays
<1>5. ASSUME NEW i \in m + 1 .. Len(s \o t), NEW j \in m + 1 .. Len(s \o t), i < j,
             IsStart((s \o t)[i]), IsStart((s \o t)[j])
      PROVE  (s \o t)[i][2] < (s \o t)[j][2]
  <2>1. /\ i \in m + 1 .. Len(s) /\ (s \o t)[i] = s[i]
        /\ j \in m + 1 .. Len(s) /\ (s \o t)[j] = s[j]
    BY <1>3, <1>5
  <2> QED BY <1>5, <2>1 DEF Framed
<1>6. ASSUME NEW p \in k + 1 .. Len(sizes)
      PROVE  \E i \in m + 1 .. Len(s \o t) : IsStart((s \o t)[i]) /\ (s \o t)[i][2] = p
  <2>1. PICK i \in m + 1 .. Len(s) : IsStart(s[i]) /\ s[i][2] = p
    BY DEF Framed
  <2>2. i \in 1 .. Len(s) /\ i \in m + 1 .. Len(s \o t)
    BY <1>1
  <2> QED BY <1>1, <2>1, <2>2
<1> QED BY <1>2, <1>4, <1>5, <1>6 DEF Framed

\* The server sends the next packet.
LEMMA FramedPacket ==
  ASSUME NEW s \in Seq(Tokens), NEW m \in Nat, NEW k \in Nat, NEW sizes \in Seq(Nat),
         NEW z \in Nat, Framed(s, m, k, sizes), k <= Len(sizes)
  PROVE  Framed(s \o Packet(Len(sizes) + 1, z), m, k, Append(sizes, z))
<1> DEFINE n == Len(sizes)
<1>1. PICK t \in Seq(Tokens), more \in Seq(Nat) : t = Packet(n + 1, z) /\ more = Append(sizes, z)
  <2>1. n \in Nat /\ n + 1 \in Nat
    BY LenProperties
  <2> QED BY <2>1, PacketTokens, AppendProperties
<1>2. /\ n \in Nat /\ Len(more) = n + 1 /\ more[n + 1] = z
      /\ \A i \in 1 .. n : more[i] = sizes[i] /\ sizes[i] \in Nat
  BY <1>1, LenProperties, AppendProperties, ElementOfSeq
<1>3. /\ Len(t) = 4 + z /\ t[1] = <<"$", n + 1, 0>>
      /\ \A i \in 2 .. 4 + z : ~IsStart(t[i])
  <2>1. n + 1 \in Nat
    BY <1>2
  <2>2. /\ Len(Packet(n + 1, z)) = 4 + z /\ Packet(n + 1, z)[1] = <<"$", n + 1, 0>>
        /\ \A j \in 2 .. 4 + z : ~IsStart(Packet(n + 1, z)[j])
    BY <2>1, PacketTokens
  <2> QED BY <1>1, <2>2
<1>4. /\ Len(s \o t) = Len(s) + Len(t) /\ Len(s) \in Nat /\ Len(t) \in Nat
      /\ \A i \in 1 .. Len(s) : (s \o t)[i] = s[i]
      /\ \A i \in 1 .. Len(t) : (s \o t)[Len(s) + i] = t[i]
      /\ \A i \in 1 .. Len(s) + Len(t) : i > Len(s) => (s \o t)[i] = t[i - Len(s)]
      /\ s \o t \in Seq(Tokens)
  BY Joined
<1> DEFINE e == Len(s) + 1
<1>5. e \in m + 1 .. Len(s \o t) /\ e \in Nat \ {0} /\ (s \o t)[e] = <<"$", n + 1, 0>>
  <2>1. 1 \in 1 .. Len(t)
    BY <1>3
  <2>2. m <= Len(s)
    BY DEF Framed
  <2> QED BY <1>3, <1>4, <2>1, <2>2
<1>6. PacketAt(s \o t, e, n + 1, z)
  <2>1. ASSUME NEW j \in 1 .. 4 + z
        PROVE  (s \o t)[e + j - 1] = t[j]
    <3>1. e + j - 1 = Len(s) + j /\ j \in 1 .. Len(t)
      BY <1>3, <1>4
    <3> QED BY <1>4, <3>1
  <2>2. e + 3 + z <= Len(s \o t)
    BY <1>3, <1>4
  <2> QED BY <1>1, <2>1, <2>2 DEF PacketAt
<1> HIDE DEF n, e
<1>7. ASSUME NEW i \in m + 1 .. Len(s \o t), IsStart((s \o t)[i])
      PROVE  i = e \/ (i < e /\ i \in m + 1 .. Len(s) /\ (s \o t)[i] = s[i] /\ IsStart(s[i]))
  <2>1. CASE i <= Len(s)
    <3>1. i \in m + 1 .. Len(s) /\ i \in 1 .. Len(s) /\ i < e
      BY <1>4, <2>1 DEF e
    <3>2. (s \o t)[i] = s[i]
      BY <1>4, <3>1
    <3> QED BY <1>7, <3>1, <3>2
  <2>2. CASE i > Len(s)
    <3>1. i - Len(s) \in 1 .. Len(t) /\ i \in 1 .. Len(s) + Len(t)
      BY <1>4, <2>2
    <3>2. (s \o t)[i] = t[i - Len(s)]
      BY <1>4, <2>2, <3>1
    <3>3. i - Len(s) = 1
      <4>1. i - Len(s) \notin 2 .. 4 + z
        BY <1>3, <1>7, <3>2
      <4>2. i - Len(s) \in 1 .. 4 + z
        BY <1>3, <3>1
      <4>3. \A q \in 1 .. 4 + z : q = 1 \/ q \in 2 .. 4 + z
        OBVIOUS
      <4> QED BY <4>1, <4>2, <4>3
    <3> QED BY <1>4, <3>3 DEF e
  <2> QED BY <1>4, <2>1, <2>2
<1>8. ASSUME NEW i \in m + 1 .. Len(s), IsStart(s[i])
      PROVE  /\ s[i][2] \in k + 1 .. n /\ s[i][2] \in 1 .. n
             /\ PacketAt(s \o t, i, s[i][2], more[s[i][2]])
  <2>1. s[i][2] \in k + 1 .. n /\ PacketAt(s, i, s[i][2], sizes[s[i][2]])
    BY <1>8 DEF Framed, n
  <2>2. s[i][2] \in 1 .. n /\ i \in Nat \ {0}
    <3>1. s[i][2] \in 1 .. Len(sizes)
      BY <2>1, PacketNumber DEF n
    <3>2. i \in Nat \ {0}
      BY <1>4
    <3> QED BY <3>1, <3>2 DEF n
  <2>3. s[i][2] \in Nat /\ sizes[s[i][2]] \in Nat /\ more[s[i][2]] = sizes[s[i][2]]
    <3>1. n \in Nat
      BY <1>2
    <3>2. s[i][2] \in Nat
      BY <2>2, <3>1
    <3> QED BY <1>2, <2>2, <3>2
  <2> QED BY <2>1, <2>2, <2>3, PacketStays
<1>9. ASSUME NEW i \in m + 1 .. Len(s \o t), IsStart((s \o t)[i])
      PROVE  /\ (s \o t)[i][2] \in k + 1 .. Len(more)
             /\ PacketAt(s \o t, i, (s \o t)[i][2], more[(s \o t)[i][2]])
  <2>1. CASE i = e
    <3>1. (s \o t)[i][2] = n + 1
      BY <1>5, <2>1
    <3>2. n + 1 \in k + 1 .. Len(more)
      BY <1>2 DEF n
    <3> QED BY <1>2, <1>6, <2>1, <3>1, <3>2
  <2>2. CASE i # e
    <3>1. i \in m + 1 .. Len(s) /\ (s \o t)[i] = s[i] /\ IsStart(s[i])
      BY <1>7, <1>9, <2>2
    <3>2. s[i][2] \in k + 1 .. n /\ PacketAt(s \o t, i, s[i][2], more[s[i][2]])
      BY <1>8, <3>1
    <3>3. s[i][2] \in k + 1 .. Len(more)
      <4>1. \A q \in k + 1 .. n : q \in k + 1 .. n + 1
        BY <1>2
      <4> QED BY <1>2, <3>2, <4>1
    <3> QED BY <3>1, <3>2, <3>3
  <2> QED BY <2>1, <2>2
<1>10. ASSUME NEW i \in m + 1 .. Len(s \o t), NEW j \in m + 1 .. Len(s \o t), i < j,
              IsStart((s \o t)[i]), IsStart((s \o t)[j])
       PROVE  (s \o t)[i][2] < (s \o t)[j][2]
  <2>1. i # e
    BY <1>4, <1>5, <1>7, <1>10
  <2>2. i \in m + 1 .. Len(s) /\ (s \o t)[i] = s[i] /\ IsStart(s[i])
    BY <1>7, <1>10, <2>1
  <2>3. CASE j = e
    <3>1. (s \o t)[j][2] = n + 1
      BY <1>5, <2>3
    <3>2. s[i][2] \in 1 .. n
      BY <1>8, <2>2
    <3>3. \A q \in 1 .. n : q < n + 1
      BY <1>2
    <3> QED BY <2>2, <3>1, <3>2, <3>3
  <2>4. CASE j # e
    <3>1. j \in m + 1 .. Len(s) /\ (s \o t)[j] = s[j] /\ IsStart(s[j])
      BY <1>7, <1>10, <2>4
    <3> QED BY <1>10, <2>2, <3>1 DEF Framed
  <2> QED BY <2>3, <2>4
<1>11. ASSUME NEW p \in k + 1 .. Len(more)
       PROVE  \E i \in m + 1 .. Len(s \o t) : IsStart((s \o t)[i]) /\ (s \o t)[i][2] = p
  <2>1. CASE p = n + 1
    <3>1. IsStart((s \o t)[e]) /\ (s \o t)[e][2] = p
      BY <1>2, <1>5, <2>1 DEF IsStart
    <3> QED BY <1>5, <3>1
  <2>2. CASE p # n + 1
    <3>1. p \in k + 1 .. n
      BY <1>2, <2>2
    <3>2. PICK i \in m + 1 .. Len(s) : IsStart(s[i]) /\ s[i][2] = p
      BY <3>1 DEF Framed, n
    <3>3. i \in 1 .. Len(s) /\ i \in m + 1 .. Len(s \o t)
      BY <1>4
    <3> QED BY <1>4, <3>2, <3>3
  <2> QED BY <2>1, <2>2
<1>12. m <= Len(s \o t)
  BY <1>4 DEF Framed
<1>13. Framed(s \o t, m, k, more)
  BY <1>9, <1>10, <1>11, <1>12 DEF Framed
<1> QED BY <1>1, <1>13 DEF n
-----------------------------------------------------------------------------
(* The invariant *)

(* The headers of a response.                                              *)
Headers == 5

(* The length of the body of the response to the present request.          *)
LengthOf(code) == IF code = "200" THEN Requests[request].body ELSE 0

(* s is what the client has not looked at; behind its first m tokens there *)
(* is media and nothing else.                                              *)
Follows(s, m) ==
  IF playing THEN Framed(s, m, Len(received), sent) ELSE Len(s) = m

Begins(s, t) == Len(t) <= Len(s) /\ \A i \in 1 .. Len(t) : s[i] = t[i]

Responding(code) ==
  /\ playing = (request = Play /\ code = "200")
  /\ Begins(buffer \o wire, Response(code, LengthOf(code)))
  /\ Follows(buffer \o wire, Headers + LengthOf(code))

Unanswered == closed /\ pc = "read" /\ wire = <<>> /\ buffer = <<>> /\ ~playing

SendInv == pc = "send" => ~playing /\ wire = <<>>

ReadInv ==
  pc \in {"read", "parse"} =>
    Unanswered \/ \E code \in Statuses : Responding(code)

(* A read stops where the headers end, and in portions of one exactly there. *)
BufferInv ==
  /\ pc = "read" => Len(buffer) < Headers
  /\ pc = "parse" => Len(buffer) >= Headers /\ (Portion = 1 => Len(buffer) = Headers)

BodyInv ==
  pc = "body" =>
    /\ status = "200" /\ expected = Requests[request].body
    /\ playing = (request = Play)
    /\ \A i \in 1 .. Len(body) : body[i] = <<"body", i, 0>>
    /\ \A i \in 1 .. expected - Len(body) : wire[i] = <<"body", Len(body) + i, 0>>
    /\ Follows(wire, expected - Len(body))

DecideInv ==
  pc = "decide" =>
    /\ BodyIsWhole
    /\ playing => request = Play /\ status = "200"
    /\ ~swallowed => Follows(wire, 0)

Sound == ~swallowed /\ ~misframed

MediaInv ==
  pc \in {"find", "header", "payload"} =>
    /\ request = Play
    /\ Sound => Follows(rest \o wire, 0)
    /\ pc \in {"header", "payload"} /\ Sound => playing /\ rest # <<>> /\ IsStart(rest[1])
    /\ pc = "payload" => Len(rest) >= HeaderSize

BeforeMedia ==
  pc \in {"send", "read", "parse", "body", "decide"} =>
    /\ rest = <<>> /\ received = <<>> /\ ~misframed
    /\ pc # "decide" => ~swallowed

Bookkeeping ==
  /\ ~playing => sent = <<>> /\ ~swallowed
  /\ repeated => authenticator

Flow ==
  /\ SendInv /\ ReadInv /\ BufferInv /\ BodyInv /\ DecideInv /\ MediaInv
  /\ BeforeMedia /\ Bookkeeping /\ PacketsArriveWhole

IInv == TypeOK /\ Flow

-----------------------------------------------------------------------------
(* What the server sends *)

LEMMA ResponseTokens ==
  ASSUME NEW code \in Statuses, NEW n \in Nat
  PROVE  /\ Response(code, n) \in Seq(Tokens) /\ Len(Response(code, n)) = Headers + n
         /\ Response(code, n)[1] = <<code, n, 0>>
         /\ Response(code, n)[2] = Crlf /\ Response(code, n)[3] = <<"line", 0, 0>>
         /\ Response(code, n)[4] = Crlf /\ Response(code, n)[5] = Crlf
         /\ \A i \in 1 .. n : Response(code, n)[Headers + i] = <<"body", i, 0>>
         /\ \A i \in 1 .. Headers + n : ~IsStart(Response(code, n)[i])
<1> DEFINE h == <<<<code, n, 0>>, Crlf, <<"line", 0, 0>>, Crlf, Crlf>>
           d == [i \in 1 .. n |-> <<"body", i, 0>>]
<1>1. h \in Seq(Tokens) /\ Len(h) = 5
  <2>1. <<code, n, 0>> \in Tokens /\ Crlf \in Tokens /\ <<"line", 0, 0>> \in Tokens
    BY DEF Tokens, Crlf
  <2> QED BY <2>1
<1>2. d \in Seq(Tokens) /\ Len(d) = n /\ \A i \in 1 .. n : d[i] = <<"body", i, 0>>
  <2>1. \A i \in 1 .. n : <<"body", i, 0>> \in Tokens
    BY DEF Tokens
  <2> QED BY <2>1
<1>3. /\ h[1] = <<code, n, 0>> /\ h[2] = Crlf /\ h[3] = <<"line", 0, 0>>
      /\ h[4] = Crlf /\ h[5] = Crlf
  OBVIOUS
<1>4. Response(code, n) = h \o d
  BY DEF Response
<1> HIDE DEF h, d
<1>5. /\ Response(code, n) \in Seq(Tokens) /\ Len(Response(code, n)) = 5 + n
      /\ \A i \in 1 .. 5 : Response(code, n)[i] = h[i]
      /\ \A i \in 1 .. n : Response(code, n)[5 + i] = d[i]
      /\ \A i \in 1 .. 5 + n : i > 5 => Response(code, n)[i] = d[i - 5]
  <2>1. PICK a \in Seq(Tokens), b \in Seq(Tokens) : a = h /\ b = d
    BY <1>1, <1>2
  <2>2. /\ a \o b \in Seq(Tokens) /\ Len(a \o b) = Len(a) + Len(b)
        /\ \A i \in 1 .. Len(a) : (a \o b)[i] = a[i]
        /\ \A i \in 1 .. Len(b) : (a \o b)[Len(a) + i] = b[i]
        /\ \A i \in 1 .. Len(a) + Len(b) : i > Len(a) => (a \o b)[i] = b[i - Len(a)]
    BY Joined
  <2>3. Len(a) = 5 /\ Len(b) = n /\ Response(code, n) = a \o b
    BY <1>1, <1>2, <1>4, <2>1
  <2>4. \A i \in 1 .. 5 : (a \o b)[i] = h[i]
    BY <2>1, <2>2, <2>3
  <2>5. \A i \in 1 .. n : (a \o b)[5 + i] = d[i]
    BY <2>1, <2>2, <2>3
  <2>6. \A i \in 1 .. 5 + n : i > 5 => (a \o b)[i] = d[i - 5]
    BY <2>1, <2>2, <2>3
  <2> QED BY <2>2, <2>3, <2>4, <2>5, <2>6
<1>6. ASSUME NEW i \in 1 .. 5 + n
      PROVE  ~IsStart(Response(code, n)[i])
  <2>1. CASE i \in 1 .. 5
    <3>1. Response(code, n)[i] \in {h[1], h[2], h[3], h[4], h[5]}
      BY <1>5, <2>1
    <3> QED BY <1>3, <3>1 DEF IsStart, Statuses, Crlf
  <2>2. CASE i > 5
    <3>1. Response(code, n)[i] = <<"body", i - 5, 0>>
      BY <1>2, <1>5, <2>2
    <3> QED BY <3>1 DEF IsStart
  <2> QED BY <2>1, <2>2
<1> QED BY <1>2, <1>3, <1>5, <1>6 DEF Headers

LEMMA AnswerTokens ==
  ASSUME NEW sign \in Signs
  PROVE  /\ Answer(sign) \in Seq(Tokens)
         /\ \A i \in 1 .. Len(Answer(sign)) : ~IsStart(Answer(sign)[i])
<1>1. sign \in {"line", "$"}
  BY ConnectionAssumption
<1>2. /\ <<"200", 0, 0>> \in Tokens /\ Crlf \in Tokens /\ <<sign, 0, 0>> \in Tokens
  BY <1>1 DEF Tokens, Crlf, Statuses
<1>3. \A t \in {<<"200", 0, 0>>, Crlf, <<sign, 0, 0>>} : ~IsStart(t)
  BY DEF IsStart, Crlf
<1>4. Answer(sign) \in Seq({<<"200", 0, 0>>, Crlf, <<sign, 0, 0>>})
  BY DEF Answer
<1>5. /\ \A i \in 1 .. Len(Answer(sign)) :
           Answer(sign)[i] \in {<<"200", 0, 0>>, Crlf, <<sign, 0, 0>>}
      /\ Answer(sign) \in Seq(Tokens)
  <2>1. {<<"200", 0, 0>>, Crlf, <<sign, 0, 0>>} \subseteq Tokens
    BY <1>2
  <2> QED BY <1>4, <2>1, ElementOfSeq, SeqMonotonic
<1> QED BY <1>3, <1>5

LEMMA ServerTypes ==
  ASSUME TypeOK
  PROVE  /\ Len(received) \in Nat /\ sent \in Seq(Nat) /\ Len(sent) \in Nat
         /\ Play \in Nat \ {0} /\ request \in 1 .. Play
         /\ Requests[request].body \in Nat /\ Requests[request].portion \in {0, 1}
         /\ \A code : LengthOf(code) \in Nat
<1>1. Len(received) \in Nat /\ Len(sent) \in Nat
  BY LenProperties DEF TypeOK
<1>2. sent \in Seq(Nat)
  BY ConnectionAssumption, SeqMonotonic DEF TypeOK
<1>3. Play \in Nat \ {0}
  BY ConnectionAssumption, EmptySeq DEF Play
<1>4. Requests[request] \in [body : Nat, portion : {0, 1}, ensured : BOOLEAN]
  BY ConnectionAssumption, ElementOfSeq DEF TypeOK, Play
<1> QED BY <1>1, <1>2, <1>3, <1>4 DEF TypeOK, LengthOf

LEMMA FollowsFrom ==
  ASSUME NEW s, NEW m, Follows(s, m)
  PROVE  m <= Len(s) \/ Len(s) = m
BY DEF Follows, Framed

LEMMA InitInvariant == Init => IInv
<1> SUFFICES ASSUME Init PROVE IInv
  OBVIOUS
<1>1. TypeOK
  <2>1. /\ 1 \in 1 .. Play /\ <<>> \in Seq(Tokens) /\ Len(<<>>) = 0
        /\ <<>> \in Seq(Seq(Tokens)) /\ <<>> \in Seq(Payloads)
    BY ConnectionAssumption, EmptySeq DEF Play
  <2>2. /\ wire \in Seq(Tokens) /\ buffer \in Seq(Tokens) /\ Len(buffer) <= HeadersLimit
        /\ body \in Seq(Tokens) /\ Len(body) <= expected /\ rest \in Seq(Tokens)
        /\ received \in Seq(Seq(Tokens)) /\ sent \in Seq(Payloads) /\ Len(sent) <= MaxPackets
    BY <2>1, ConnectionAssumption DEF Init
  <2>3. /\ pc \in {"send", "read", "parse", "body", "decide", "find", "header", "payload", "failed"}
        /\ request \in 1..Play /\ repeated \in BOOLEAN /\ authenticator \in BOOLEAN
        /\ status \in Statuses /\ expected \in Nat /\ playing \in BOOLEAN /\ closed \in BOOLEAN
        /\ answers \in 0..MaxAnswers /\ swallowed \in BOOLEAN /\ misframed \in BOOLEAN
    <3>1. answers \in 0..MaxAnswers
      BY ConnectionAssumption DEF Init
    <3> QED BY <2>1, <3>1 DEF Init, Statuses
  <2> QED BY <2>2, <2>3 DEF TypeOK
<1>2. PacketsArriveWhole
  BY DEF Init, PacketsArriveWhole
<1> QED
  BY <1>1, <1>2 DEF Init, IInv, Flow, SendInv, ReadInv, BufferInv, BodyInv, DecideInv, MediaInv,
                   BeforeMedia, Bookkeeping

-----------------------------------------------------------------------------
(* The server's steps *)

\* What the server puts on the wire is media, and the next packet if it is one.
Serves(t) ==
  \/ sent' = sent /\ \A i \in 1 .. Len(t) : ~IsStart(t[i])
  \/ \E size \in Payloads : t = Packet(Len(sent) + 1, size) /\ sent' = Append(sent, size)

LEMMA FollowsMore ==
  ASSUME TypeOK, NEW t \in Seq(Tokens), Serves(t), playing, playing', received' = received,
         Len(received) <= Len(sent), NEW s \in Seq(Tokens), NEW m \in Nat, Follows(s, m)
  PROVE  (IF playing' THEN Framed(s \o t, m, Len(received'), sent') ELSE Len(s \o t) = m)
<1>1. Framed(s, m, Len(received), sent) /\ Len(received) \in Nat /\ sent \in Seq(Nat)
  BY ServerTypes DEF Follows
<1>2. CASE sent' = sent /\ \A i \in 1 .. Len(t) : ~IsStart(t[i])
  BY <1>1, <1>2, FramedMore
<1>3. ASSUME NEW size \in Payloads, t = Packet(Len(sent) + 1, size), sent' = Append(sent, size)
      PROVE  Framed(s \o t, m, Len(received), sent')
  <2>1. size \in Nat
    BY ConnectionAssumption
  <2> QED BY <1>1, <1>3, <2>1, FramedPacket
<1> QED BY <1>2, <1>3 DEF Serves

LEMMA BeginsMore ==
  ASSUME NEW s \in Seq(Tokens), NEW t \in Seq(Tokens), NEW r \in Seq(Tokens), Begins(s, r)
  PROVE  Begins(s \o t, r)
<1>1. /\ Len(s \o t) = Len(s) + Len(t) /\ Len(s) \in Nat /\ Len(t) \in Nat /\ Len(r) \in Nat
      /\ \A i \in 1 .. Len(s) : (s \o t)[i] = s[i]
  BY Joined, LenProperties
<1>2. Len(r) <= Len(s) /\ \A i \in 1 .. Len(r) : s[i] = r[i]
  BY DEF Begins
<1>3. \A i \in 1 .. Len(r) : i \in 1 .. Len(s)
  BY <1>1, <1>2
<1> QED BY <1>1, <1>2, <1>3 DEF Begins

LEMMA LongerWire ==
  ASSUME NEW a \in Seq(Tokens), NEW w \in Seq(Tokens), NEW t \in Seq(Tokens)
  PROVE  a \o w \in Seq(Tokens) /\ a \o (w \o t) = (a \o w) \o t
<1>1. a \o w \in Seq(Tokens)
  BY ConcatProperties
<1>2. (a \o w) \o t = a \o (w \o t)
  BY ConcatAssociative
<1> QED BY <1>1, <1>2

\* Everything but the wire and the server's own variables stays.
ClientStays == UNCHANGED <<pc, rtsp, tpkt, playing, faults>>

LEMMA ServeKeeps ==
  ASSUME IInv, NEW t \in Seq(Tokens), playing, wire' = wire \o t, Serves(t), ClientStays,
         closed' \in BOOLEAN, ~closed, TypeOK'
  PROVE  Flow'
<1> USE DEF ClientStays, rtsp, tpkt, faults
<1>1. /\ wire \in Seq(Tokens) /\ buffer \in Seq(Tokens) /\ rest \in Seq(Tokens)
      /\ wire' \in Seq(Tokens) /\ Len(body) \in Nat /\ expected \in Nat
      /\ Len(received) \in Nat /\ Len(sent) \in Nat /\ Len(body) <= expected
      /\ sent \in Seq(Nat) /\ \A code : LengthOf(code) \in Nat
  <2>1. TypeOK /\ TypeOK'
    BY DEF IInv
  <2>2. Len(body) \in Nat
    BY <2>1, LenProperties DEF TypeOK
  <2> QED BY <2>1, <2>2, ServerTypes DEF TypeOK
<1> DEFINE More(a) == a \o wire \in Seq(Tokens) /\ a \o (wire \o t) = (a \o wire) \o t
<1>more. \A a \in Seq(Tokens) : More(a)
  <2>1. \A w \in Seq(Tokens) : \A a \in Seq(Tokens) :
          a \o w \in Seq(Tokens) /\ a \o (w \o t) = (a \o w) \o t
    BY LongerWire
  <2>2. wire \in Seq(Tokens)
    BY <1>1
  <2> QED BY <2>1, <2>2, Zenon
<1>2. SendInv' /\ BufferInv' /\ BeforeMedia' /\ Bookkeeping'
  BY DEF IInv, Flow, SendInv, BufferInv, BeforeMedia, Bookkeeping, Portion
<1>3. received = <<>> => Len(received) <= Len(sent)
  BY <1>1
<1>4. ReadInv'
  <2> SUFFICES ASSUME pc \in {"read", "parse"} PROVE \E code \in Statuses : Responding(code)'
    BY DEF ReadInv
  <2>1. PICK code \in Statuses : Responding(code)
    BY DEF IInv, Flow, ReadInv, Unanswered
  <2>2. received = <<>>
    BY DEF IInv, Flow, BeforeMedia
  <2> DEFINE n == LengthOf(code)
  <2>3. n \in Nat /\ Headers + n \in Nat /\ LengthOf(code)' = n
    <3>1. LengthOf(code) \in Nat /\ LengthOf(code)' = LengthOf(code)
      BY <1>1 DEF LengthOf
    <3>2. \A l \in Nat : Headers + l \in Nat
      BY DEF Headers
    <3> QED BY <3>1, <3>2
  <2>4. buffer \o wire \in Seq(Tokens) /\ Response(code, n) \in Seq(Tokens)
        /\ buffer' \o wire' = (buffer \o wire) \o t
    <3>1. buffer \o wire \in Seq(Tokens) /\ buffer \o (wire \o t) = (buffer \o wire) \o t
      BY <1>1, <1>more
    <3>2. Response(code, n) \in Seq(Tokens)
      BY <2>3, ResponseTokens
    <3> QED BY <3>1, <3>2
  <2> HIDE DEF n
  <2>5. Begins(buffer' \o wire', Response(code, n))
    BY <2>1, <2>4, BeginsMore DEF Responding, n
  <2>6. Follows(buffer \o wire, Headers + n)
    BY <2>1 DEF Responding, n
  <2>7. IF playing' THEN Framed(buffer' \o wire', Headers + n, Len(received'), sent')
                    ELSE Len(buffer' \o wire') = Headers + n
    BY <1>3, <2>2, <2>3, <2>4, <2>6, FollowsMore DEF IInv
  <2>8. Responding(code)'
    BY <2>1, <2>3, <2>5, <2>7 DEF Responding, Follows
  <2> QED BY <2>8
<1>5. BodyInv'
  <2> SUFFICES ASSUME pc = "body" PROVE BodyInv'
    BY DEF BodyInv
  <2>1. /\ status = "200" /\ expected = Requests[request].body
        /\ playing = (request = Play)
        /\ \A i \in 1 .. Len(body) : body[i] = <<"body", i, 0>>
        /\ \A i \in 1 .. expected - Len(body) : wire[i] = <<"body", Len(body) + i, 0>>
        /\ Follows(wire, expected - Len(body))
    BY DEF IInv, Flow, BodyInv
  <2>2. received = <<>>
    BY DEF IInv, Flow, BeforeMedia
  <2>3. PICK m \in Nat : m = expected - Len(body)
    <3>1. expected \in Nat
      BY DEF IInv, TypeOK
    <3>2. expected - Len(body) \in Nat
      BY <1>1, <3>1
    <3> QED BY <3>2
  <2>4. IF playing' THEN Framed(wire', m, Len(received'), sent') ELSE Len(wire') = m
    BY <1>1, <1>3, <2>1, <2>2, <2>3, FollowsMore DEF IInv
  <2>5. \A i \in 1 .. m : wire'[i] = wire[i]
    <3>1. m <= Len(wire)
      BY <2>1, <2>3 DEF Follows, Framed
    <3>2. \A i \in 1 .. Len(wire) : (wire \o t)[i] = wire[i]
      BY <1>1, Joined
    <3>3. Len(wire) \in Nat
      BY <1>1, LenProperties
    <3>4. \A i \in 1 .. m : i \in 1 .. Len(wire)
      BY <3>1, <3>3
    <3> QED BY <3>2, <3>4
  <2> QED BY <2>1, <2>3, <2>4, <2>5 DEF BodyInv, Follows
<1>6. DecideInv'
  <2>1. BodyIsWhole'
    BY DEF IInv, Flow, DecideInv, BodyIsWhole
  <2>2. ASSUME pc = "decide", ~swallowed
        PROVE  IF playing' THEN Framed(wire', 0, Len(received'), sent') ELSE Len(wire') = 0
    <3>1. Follows(wire, 0) /\ received = <<>>
      BY <2>2 DEF IInv, Flow, DecideInv, BeforeMedia
    <3> QED BY <1>1, <1>3, <3>1, FollowsMore DEF IInv
  <2> QED BY <2>1, <2>2 DEF IInv, Flow, DecideInv, Follows
<1>7. MediaInv'
  <2>1. ASSUME pc \in {"find", "header", "payload"}, Sound
        PROVE  IF playing' THEN Framed(rest' \o wire', 0, Len(received'), sent')
                           ELSE Len(rest' \o wire') = 0
    <3>1. Follows(rest \o wire, 0) /\ Len(received) <= Len(sent)
      BY <2>1 DEF IInv, Flow, MediaInv, PacketsArriveWhole, Sound
    <3>2. rest \o wire \in Seq(Tokens) /\ rest' \o wire' = (rest \o wire) \o t
      BY <1>1, <1>more
    <3> QED BY <3>1, <3>2, FollowsMore DEF IInv
  <2> QED BY <2>1 DEF IInv, Flow, MediaInv, Follows, Sound
<1>8. PacketsArriveWhole'
  <2> SUFFICES ASSUME ~swallowed, ~misframed
               PROVE  /\ Len(received) <= Len(sent')
                      /\ \A p \in 1 .. Len(received) : received[p] = Payload(p, sent'[p])
    BY DEF PacketsArriveWhole
  <2>1. /\ Len(received) <= Len(sent)
        /\ \A p \in 1 .. Len(received) : received[p] = Payload(p, sent[p])
    BY DEF IInv, Flow, PacketsArriveWhole
  <2>2. Len(sent) <= Len(sent') /\ \A p \in 1 .. Len(sent) : sent'[p] = sent[p]
    <3>1. CASE sent' = sent
      BY <1>1, <3>1
    <3>2. ASSUME NEW size \in Payloads, sent' = Append(sent, size)
          PROVE  Len(sent) <= Len(sent') /\ \A p \in 1 .. Len(sent) : sent'[p] = sent[p]
      <4>1. size \in Nat
        BY ConnectionAssumption
      <4>2. /\ Len(Append(sent, size)) = Len(sent) + 1
            /\ \A p \in 1 .. Len(sent) : Append(sent, size)[p] = sent[p]
        BY <1>1, <4>1, AppendProperties
      <4> QED BY <1>1, <3>2, <4>2
    <3> QED BY <3>1, <3>2 DEF Serves
  <2>3. \A p \in 1 .. Len(received) : p \in 1 .. Len(sent)
    BY <1>1, <2>1
  <2>4. Len(received) <= Len(sent')
    <3>1. Len(sent') \in Nat
      BY LenProperties DEF TypeOK
    <3> QED BY <1>1, <2>1, <2>2, <3>1
  <2> QED BY <2>1, <2>2, <2>3, <2>4
<1> QED BY <1>2, <1>4, <1>5, <1>6, <1>7, <1>8 DEF Flow

\* A step that changes nothing but these keeps the types of the others.
LEMMA ServerKeepsTypes ==
  ASSUME TypeOK, UNCHANGED <<pc, rtsp, tpkt, playing, faults>>,
         wire' \in Seq(Tokens), sent' \in Seq(Payloads), Len(sent') <= MaxPackets,
         answers' \in 0..MaxAnswers, closed' \in BOOLEAN
  PROVE  TypeOK'
BY DEF TypeOK, rtsp, tpkt, faults

LEMMA ServerStep ==
  ASSUME IInv,
         \/ \E size \in Payloads : SendPacket(size)
         \/ \E sign \in Signs : AnswerKeepAlive(sign)
         \/ Close
         \/ UNCHANGED vars
  PROVE  IInv'
<1>1. /\ wire \in Seq(Tokens) /\ sent \in Seq(Payloads) /\ Len(sent) \in Nat /\ answers \in Nat
      /\ Len(sent) <= MaxPackets /\ answers \in 0..MaxAnswers /\ closed \in BOOLEAN
      /\ MaxPackets \in Nat /\ MaxAnswers \in Nat /\ TypeOK /\ Flow
  BY ConnectionAssumption, LenProperties DEF IInv, TypeOK
<1>2. ASSUME NEW size \in Payloads, SendPacket(size)
      PROVE  IInv'
  <2>1. PICK t \in Seq(Tokens) : t = Packet(Len(sent) + 1, size)
    <3>1. size \in Nat /\ Len(sent) + 1 \in Nat
      BY <1>1, ConnectionAssumption
    <3> QED BY <3>1, PacketTokens
  <2>2. sent' \in Seq(Payloads) /\ Len(sent') = Len(sent) + 1
    BY <1>1, <1>2, AppendProperties DEF SendPacket
  <2>3. wire' = wire \o t
    BY <1>2, <2>1, <2>2 DEF SendPacket
  <2>4. TypeOK'
    <3>1. wire' \in Seq(Tokens)
      BY <1>1, <2>3, ConcatProperties
    <3>2. Len(sent') <= MaxPackets
      BY <1>1, <1>2, <2>2 DEF SendPacket
    <3> QED BY <1>1, <1>2, <2>2, <3>1, <3>2, ServerKeepsTypes DEF SendPacket
  <2>5. Serves(t) /\ ClientStays /\ playing /\ ~closed /\ closed' \in BOOLEAN
    BY <1>1, <1>2, <2>1 DEF SendPacket, Serves, ClientStays
  <2>6. Flow'
    BY <2>3, <2>4, <2>5, ServeKeeps
  <2> QED BY <2>4, <2>6 DEF IInv
<1>3. ASSUME NEW sign \in Signs, AnswerKeepAlive(sign)
      PROVE  IInv'
  <2>1. PICK t \in Seq(Tokens) : t = Answer(sign) /\ \A i \in 1 .. Len(t) : ~IsStart(t[i])
    BY AnswerTokens
  <2>2. wire' = wire \o t
    BY <1>3, <2>1 DEF AnswerKeepAlive
  <2>3. TypeOK'
    <3>1. wire' \in Seq(Tokens)
      BY <1>1, <2>2, ConcatProperties
    <3>2. answers' \in 0..MaxAnswers
      BY <1>1, <1>3 DEF AnswerKeepAlive
    <3> QED BY <1>1, <1>3, <3>1, <3>2, ServerKeepsTypes DEF AnswerKeepAlive
  <2>4. Serves(t) /\ ClientStays /\ playing /\ ~closed /\ closed' \in BOOLEAN
    BY <1>1, <1>3, <2>1 DEF AnswerKeepAlive, Serves, ClientStays
  <2>5. Flow'
    BY <2>2, <2>3, <2>4, ServeKeeps
  <2> QED BY <2>3, <2>5 DEF IInv
<1>4. CASE Close \/ UNCHANGED vars
  <2>1. /\ UNCHANGED <<pc, rtsp, wire, tpkt, playing, sent, answers, faults>>
        /\ closed' = TRUE \/ closed' = closed
    BY <1>4 DEF Close, vars, server
  <2>2. TypeOK'
    BY <1>1, <2>1, ServerKeepsTypes
  <2>3. \A code : LengthOf(code)' = LengthOf(code)
    BY <2>1 DEF LengthOf, rtsp
  <2>4. \A code \in Statuses : Responding(code) => Responding(code)'
    BY <2>1, <2>3 DEF Responding, Follows, rtsp, tpkt
  <2>5. ReadInv'
    BY <1>1, <2>1, <2>4 DEF Flow, ReadInv, Unanswered, rtsp
  <2>6. SendInv' /\ BufferInv' /\ BeforeMedia' /\ Bookkeeping' /\ PacketsArriveWhole'
    BY <1>1, <2>1 DEF Flow, SendInv, BufferInv, BeforeMedia, Bookkeeping, PacketsArriveWhole,
                      Portion, rtsp, tpkt, faults
  <2>7. BodyInv' /\ DecideInv' /\ MediaInv'
    BY <1>1, <2>1 DEF Flow, BodyInv, DecideInv, MediaInv, BodyIsWhole, Follows, Sound,
                      rtsp, tpkt, faults
  <2> QED BY <2>2, <2>5, <2>6, <2>7 DEF IInv, Flow
<1> QED BY <1>2, <1>3, <1>4

-----------------------------------------------------------------------------
(* The client's steps: a request and its response *)

LEMMA SendRequestKeeps ==
  ASSUME IInv, SendRequest
  PROVE  IInv'
<1>1. /\ TypeOK /\ wire = <<>> /\ ~playing /\ rest = <<>> /\ received = <<>> /\ ~misframed
      /\ ~swallowed /\ sent = <<>> /\ (repeated => authenticator)
  BY DEF SendRequest, IInv, Flow, SendInv, BeforeMedia, Bookkeeping
<1>2. /\ buffer' = <<>> /\ body' = <<>> /\ pc' = "read"
      /\ UNCHANGED <<request, repeated, authenticator, status, expected, tpkt, sent, answers,
                     closed, faults>>
  BY DEF SendRequest
<1>3. \/ closed /\ wire' = <<>> /\ playing' = FALSE
      \/ \E code \in Statuses :
           /\ wire' = <<>> \o Response(code, LengthOf(code))
           /\ playing' = (request = Play /\ code = "200")
  BY <1>1 DEF SendRequest, LengthOf
<1>4. \A code \in Statuses :
        /\ Response(code, LengthOf(code)) \in Seq(Tokens)
        /\ Len(Response(code, LengthOf(code))) = Headers + LengthOf(code)
        /\ LengthOf(code) \in Nat
  BY <1>1, ServerTypes, ResponseTokens
<1>5. \/ closed /\ wire' = <<>> /\ playing' = FALSE
      \/ \E code \in Statuses :
           /\ wire' = Response(code, LengthOf(code))
           /\ playing' = (request = Play /\ code = "200")
  BY <1>3, <1>4, ConcatEmptySeq
<1>6. /\ wire' \in Seq(Tokens) /\ playing' \in BOOLEAN /\ <<>> \in Seq(Tokens) /\ Len(<<>>) = 0
      /\ HeadersLimit \in Nat
  BY <1>4, <1>5, EmptySeq, ConnectionAssumption
<1>7. TypeOK'
  BY <1>1, <1>2, <1>6 DEF TypeOK, tpkt, faults
<1>8. ReadInv'
  <2>1. CASE closed /\ wire' = <<>> /\ playing' = FALSE
    BY <1>2, <2>1 DEF ReadInv, Unanswered
  <2>2. ASSUME NEW code \in Statuses, wire' = Response(code, LengthOf(code)),
               playing' = (request = Play /\ code = "200")
        PROVE  Responding(code)'
    <3>1. PICK r \in Seq(Tokens), n \in Nat :
            r = Response(code, n) /\ n = LengthOf(code) /\ Len(r) = Headers + n
      BY <1>4
    <3>2. buffer' \o wire' = r
      BY <1>2, <2>2, <3>1, ConcatEmptySeq
    <3>3. LengthOf(code)' = n
      BY <1>2, <3>1 DEF LengthOf
    <3>4. Begins(r, r)
      BY LenProperties DEF Begins
    <3>5. Framed(r, Headers + n, 0, <<>>)
      <4>1. Headers + n \in Nat
        BY <3>1 DEF Headers
      <4>2. (Headers + n) + 1 .. Len(r) = {} /\ 0 + 1 .. Len(<<>>) = {}
        BY <3>1, <4>1, <1>6
      <4> QED BY <3>1, <4>1, <4>2 DEF Framed
    <3>6. Len(received') = 0 /\ sent' = <<>>
      BY <1>1, <1>2, <1>6 DEF tpkt
    <3> QED BY <1>2, <2>2, <3>1, <3>2, <3>3, <3>4, <3>5, <3>6 DEF Responding, Follows
  <2> QED BY <1>5, <2>1, <2>2 DEF ReadInv
<1>9. PacketsArriveWhole'
  BY <1>1, <1>2, <1>6 DEF PacketsArriveWhole, tpkt
<1> QED
  BY <1>1, <1>2, <1>6, <1>7, <1>8, <1>9
  DEF IInv, Flow, SendInv, BufferInv, BodyInv, DecideInv, MediaInv, BeforeMedia, Bookkeeping,
      tpkt, faults, Headers

\* The buffer holds the beginning of the response.
LEMMA BufferHasResponse ==
  ASSUME TypeOK, NEW code \in Statuses, Responding(code), NEW b \in Seq(Tokens), NEW w \in Seq(Tokens),
         b \o w = buffer \o wire
  PROVE  /\ \A i \in 1 .. Len(b) :
              i <= Headers + LengthOf(code) => b[i] = Response(code, LengthOf(code))[i]
         /\ \A i \in 1 .. Len(b) :
              i < 4 => ~(b[i] = Crlf /\ i + 1 \in 1 .. Len(b) /\ b[i + 1] = Crlf)
         /\ Len(b) >= 4 => b[4] = Crlf
         /\ Len(b) >= 5 => b[5] = Crlf
         /\ Len(b) >= 1 => b[1] = <<code, LengthOf(code), 0>>
<1>1. PICK n \in Nat : n = LengthOf(code)
  BY ServerTypes
<1>2. PICK r \in Seq(Tokens) :
        /\ r = Response(code, n) /\ Len(r) = 5 + n
        /\ r[1] = <<code, n, 0>> /\ r[2] = Crlf /\ r[3] = <<"line", 0, 0>> /\ r[4] = Crlf /\ r[5] = Crlf
  BY ResponseTokens DEF Headers
<1>3. Len(b) \in Nat /\ \A i \in 1 .. Len(b) : (b \o w)[i] = b[i]
  BY Joined
<1>4. \A i \in 1 .. 5 + n : (b \o w)[i] = r[i]
  BY <1>1, <1>2 DEF Responding, Begins
<1>5. ASSUME NEW i \in 1 .. Len(b), i <= 5 + n
      PROVE  b[i] = r[i]
  <2>1. i \in 1 .. 5 + n
    BY <1>3, <1>5
  <2> QED BY <1>3, <1>4, <2>1
<1>6. /\ Len(b) >= 1 => b[1] = <<code, n, 0>>
      /\ Len(b) >= 2 => b[2] = Crlf
      /\ Len(b) >= 3 => b[3] = <<"line", 0, 0>>
      /\ Len(b) >= 4 => b[4] = Crlf
      /\ Len(b) >= 5 => b[5] = Crlf
  <2>1. \A i \in 1 .. 5 : Len(b) >= i => i \in 1 .. Len(b) /\ i <= 5 + n
    BY <1>3
  <2>2. \A i \in 1 .. 5 : Len(b) >= i => b[i] = r[i]
    BY <1>5, <2>1
  <2> QED BY <1>2, <2>2
<1>7. <<"line", 0, 0>> # Crlf /\ <<code, n, 0>> # Crlf
  BY DEF Crlf, Statuses
<1>8. ASSUME NEW i \in 1 .. Len(b), i < 4
      PROVE  ~(b[i] = Crlf /\ i + 1 \in 1 .. Len(b) /\ b[i + 1] = Crlf)
  <2>1. i \in {1, 2, 3} /\ Len(b) >= i
    BY <1>3, <1>8
  <2>2. CASE i = 1
    BY <1>6, <1>7, <2>1, <2>2
  <2>3. CASE i = 2
    <3>1. i + 1 \in 1 .. Len(b) => Len(b) >= 3 /\ b[i + 1] = b[3]
      BY <1>3, <2>3
    <3> QED BY <1>6, <1>7, <3>1
  <2>4. CASE i = 3
    BY <1>6, <1>7, <2>1, <2>4
  <2> QED BY <2>1, <2>2, <2>3, <2>4
<1> QED BY <1>1, <1>2, <1>5, <1>6, <1>8 DEF Headers

\* A search of a response for the end of its headers finds it as soon as it is there.
LEMMA EndFound ==
  ASSUME TypeOK, NEW code \in Statuses, Responding(code), NEW b \in Seq(Tokens), NEW w \in Seq(Tokens),
         b \o w = buffer \o wire, NEW from \in 1 .. 4
  PROVE  /\ EndIn(b, from) \subseteq Nat
         /\ \A i \in EndIn(b, from) : 4 <= i
         /\ Len(b) < Headers => EndIn(b, from) = {}
         /\ Len(b) >= Headers => 4 \in EndIn(b, from)
<1>1. Len(b) \in Nat
  BY LenProperties
<1>2. ASSUME NEW i \in EndIn(b, from)
      PROVE  i \in Nat /\ 4 <= i /\ i + 1 <= Len(b)
  <2>1. i \in from .. Len(b) - 1 /\ b[i] = Crlf /\ b[i + 1] = Crlf
    BY <1>2 DEF EndIn
  <2>2. i \in 1 .. Len(b) /\ i + 1 \in 1 .. Len(b)
    BY <1>1, <2>1
  <2>3. ~(i < 4)
    BY <2>1, <2>2, BufferHasResponse
  <2> QED BY <1>1, <2>2, <2>3
<1>3. ASSUME Len(b) >= 5
      PROVE  4 \in EndIn(b, from)
  <2>1. b[4] = Crlf /\ b[4 + 1] = Crlf
    <3>1. Len(b) >= 4 /\ Len(b) >= 5
      BY <1>1, <1>3
    <3>2. (Len(b) >= 4 => b[4] = Crlf) /\ (Len(b) >= 5 => b[5] = Crlf)
      BY BufferHasResponse
    <3> QED BY <3>1, <3>2
  <2>2. 4 \in from .. Len(b) - 1
    BY <1>1, <1>3
  <2> QED BY <2>1, <2>2 DEF EndIn
<1>4. ASSUME Len(b) < 5
      PROVE  EndIn(b, from) = {}
  BY <1>1, <1>2, <1>4
<1> QED BY <1>2, <1>3, <1>4 DEF Headers

\* A read moves the first n tokens of the wire behind what is buffered.
LEMMA TakeAndLeave ==
  ASSUME TypeOK, NEW n \in Nat, n <= Len(wire), Leave(n), NEW a \in Seq(Tokens)
  PROVE  /\ Take(n) \in Seq(Tokens) /\ Len(Take(n)) = n
         /\ \A i \in 1 .. n : Take(n)[i] = wire[i]
         /\ wire' \in Seq(Tokens) /\ Len(wire') = Len(wire) - n
         /\ \A i \in 1 .. Len(wire) - n : wire'[i] = wire[n + i]
         /\ a \o Take(n) \in Seq(Tokens) /\ Len(a \o Take(n)) = Len(a) + n
         /\ (a \o Take(n)) \o wire' = a \o wire
<1>1. PICK w \in Seq(Tokens) : w = wire /\ n <= Len(w)
  BY DEF TypeOK
<1>2. /\ SubSeq(w, 1, n) \in Seq(Tokens) /\ Len(SubSeq(w, 1, n)) = n
      /\ SubSeq(w, n + 1, Len(w)) \in Seq(Tokens)
      /\ Len(SubSeq(w, n + 1, Len(w))) = Len(w) - n
      /\ \A i \in 1 .. Len(w) - n : SubSeq(w, n + 1, Len(w))[i] = w[n + i]
      /\ \A i \in 1 .. n : SubSeq(w, 1, n)[i] = w[i]
      /\ SubSeq(w, 1, n) \o SubSeq(w, n + 1, Len(w)) = w
  <2>1. n <= Len(w)
    BY <1>1
  <2>2. SubSeq(w, 1, n) \in Seq(Tokens) /\ Len(SubSeq(w, 1, n)) = n
    BY <2>1, TakenAndLeft
  <2>3. /\ SubSeq(w, n + 1, Len(w)) \in Seq(Tokens)
        /\ Len(SubSeq(w, n + 1, Len(w))) = Len(w) - n
    BY <2>1, TakenAndLeft
  <2>4. \A i \in 1 .. Len(w) - n : SubSeq(w, n + 1, Len(w))[i] = w[n + i]
    BY <2>1, TakenAndLeft
  <2>5. \A i \in 1 .. n : SubSeq(w, 1, n)[i] = w[i]
    BY <2>1, TakenAndLeft
  <2>6. SubSeq(w, 1, n) \o SubSeq(w, n + 1, Len(w)) = w
    BY <2>1, TakenAndLeft
  <2> QED BY <2>2, <2>3, <2>4, <2>5, <2>6
<1>3. PICK t \in Seq(Tokens), u \in Seq(Tokens) :
        t = SubSeq(w, 1, n) /\ u = SubSeq(w, n + 1, Len(w))
  BY <1>2
<1>4. /\ a \o t \in Seq(Tokens) /\ Len(a \o t) = Len(a) + Len(t)
      /\ (a \o t) \o u = a \o (t \o u)
  <2>1. a \o t \in Seq(Tokens) /\ Len(a \o t) = Len(a) + Len(t)
    BY ConcatProperties
  <2>2. (a \o t) \o u = a \o (t \o u)
    BY ConcatAssociative, SMTT(20)
  <2> QED BY <2>1, <2>2
<1>5. Take(n) = t /\ wire' = u /\ t \o u = wire
  BY <1>1, <1>2, <1>3 DEF Take, Leave
<1> HIDE DEF Take
<1> QED BY <1>1, <1>2, <1>3, <1>4, <1>5

LEMMA ReadHeadersKeeps ==
  ASSUME IInv, ReadHeaders
  PROVE  IInv'
<1>1. /\ TypeOK /\ pc = "read" /\ ReadInv /\ Len(buffer) < Headers
      /\ rest = <<>> /\ received = <<>> /\ ~misframed /\ ~swallowed
      /\ PacketsArriveWhole /\ Bookkeeping
  BY DEF ReadHeaders, IInv, Flow, BufferInv, BeforeMedia
<1>2. UNCHANGED <<request, repeated, authenticator, status, expected, body, tpkt, server, faults>>
  BY DEF ReadHeaders
<1>3. /\ buffer \in Seq(Tokens) /\ wire \in Seq(Tokens) /\ Len(buffer) \in Nat /\ Len(wire) \in Nat
      /\ Len(buffer) <= HeadersLimit /\ HeadersLimit \in Nat
  BY <1>1, ConnectionAssumption, LenProperties DEF TypeOK
<1>4. PacketsArriveWhole' /\ Bookkeeping'
  BY <1>1, <1>2 DEF PacketsArriveWhole, Bookkeeping, tpkt, server, faults
<1>5. CASE pc' = "failed" /\ UNCHANGED <<wire, buffer>>
  <2>1. TypeOK'
    BY <1>1, <1>2, <1>5 DEF TypeOK, tpkt, server, faults
  <2> QED BY <1>4, <1>5, <2>1
          DEF IInv, Flow, SendInv, ReadInv, BufferInv, BodyInv, DecideInv, MediaInv, BeforeMedia
<1>6. ASSUME Count # 0, NEW n \in 1..Count, n <= Len(wire), buffer' = buffer \o Take(n), Leave(n),
             pc' = IF EndIn(buffer', SearchFrom(Len(buffer))) = {} THEN "read" ELSE "parse"
      PROVE  IInv'
  <2>1. /\ Portion \in {0, 1} /\ Count \in Nat /\ Count <= HeadersLimit - Len(buffer)
        /\ Portion = 1 => Count <= 1
    <3>1. Portion \in {0, 1}
      BY <1>1, ServerTypes DEF Portion
    <3> QED BY <1>3, <3>1 DEF Count
  <2>2. n \in Nat /\ n >= 1 /\ n <= Count
    BY <2>1
  <2>3. /\ Take(n) \in Seq(Tokens) /\ Len(Take(n)) = n /\ wire' \in Seq(Tokens)
        /\ buffer' \o wire' = buffer \o wire
    BY <1>1, <1>3, <1>6, <2>2, TakeAndLeave
  <2>4. buffer' \in Seq(Tokens) /\ Len(buffer') = Len(buffer) + n
    BY <1>1, <1>3, <1>6, <2>2, TakeAndLeave
  <2>5. TypeOK'
    <3>1. Len(buffer') <= HeadersLimit
      BY <1>3, <2>1, <2>2, <2>4
    <3>2. pc' \in {"read", "parse"}
      BY <1>6
    <3> QED BY <1>1, <1>2, <2>3, <2>4, <3>1, <3>2 DEF TypeOK, tpkt, server, faults
  <2>6. PICK code \in Statuses : Responding(code)
    <3>1. wire # <<>>
      <4>1. wire = <<>> => Len(wire) = 0
        BY EmptySeq
      <4> QED BY <1>3, <1>6, <2>2, <4>1
    <3> QED BY <1>1, <3>1 DEF ReadInv, Unanswered
  <2>7. Responding(code)'
    BY <1>2, <2>3, <2>6 DEF Responding, Follows, LengthOf, tpkt, server
  <2>8. SearchFrom(Len(buffer)) \in 1 .. 4
    <3>1. Len(buffer) \in Nat /\ Len(buffer) < 5
      BY <1>1, <1>3 DEF Headers
    <3>2. \A old \in Nat : old < 5 => SearchFrom(old) \in 1 .. 4
      BY DEF SearchFrom
    <3> QED BY <3>1, <3>2
  <2>9. /\ Len(buffer') < Headers => pc' = "read"
        /\ Len(buffer') >= Headers => pc' = "parse"
    BY <1>1, <1>6, <2>3, <2>4, <2>6, <2>8, EndFound
  <2>10. Len(buffer') \in Nat /\ (Portion = 1 => Len(buffer') <= Headers)
    BY <1>1, <1>3, <2>1, <2>2, <2>4 DEF Headers
  <2>11. BufferInv'
    <3>1. Portion' = Portion
      BY <1>2 DEF Portion
    <3>2. pc' = "read" => Len(buffer') < Headers
      BY <2>9, <2>10 DEF Headers
    <3>3. pc' = "parse" => Len(buffer') >= Headers
      BY <2>9, <2>10 DEF Headers
    <3>4. ASSUME pc' = "parse", Portion = 1
          PROVE  Len(buffer') = Headers
      <4>1. Len(buffer') \in Nat /\ Len(buffer') <= Headers /\ Len(buffer') >= Headers
        BY <2>10, <3>3, <3>4
      <4>2. \A l \in Nat : l <= Headers /\ l >= Headers => l = Headers
        BY DEF Headers
      <4> QED BY <4>1, <4>2
    <3> QED BY <3>1, <3>2, <3>3, <3>4 DEF BufferInv
  <2>12. pc' \in {"read", "parse"} /\ ReadInv'
    BY <1>6, <2>7 DEF ReadInv
  <2>13. BeforeMedia'
    BY <1>1, <1>2 DEF BeforeMedia, tpkt, faults
  <2> QED BY <1>4, <2>5, <2>11, <2>12, <2>13
          DEF IInv, Flow, SendInv, BodyInv, DecideInv, MediaInv
<1> QED BY <1>1, <1>5, <1>6 DEF ReadHeaders

\* What Parse finds in the buffer.
LEMMA ParseFinds ==
  ASSUME TypeOK, NEW code \in Statuses, Responding(code), Len(buffer) >= Headers
  PROVE  /\ First(buffer, Statuses) = 1 /\ Min(EndIn(buffer, 1)) + 1 = Headers
         /\ DataPart(1, Headers) = Len(buffer) - Headers
         /\ buffer[1] = <<code, LengthOf(code), 0>>
<1>1. buffer \in Seq(Tokens) /\ wire \in Seq(Tokens) /\ Len(buffer) \in Nat /\ Len(buffer) >= 5
  BY LenProperties DEF TypeOK, Headers
<1>2. buffer[1] = <<code, LengthOf(code), 0>>
  <2>1. Len(buffer) >= 1 => buffer[1] = <<code, LengthOf(code), 0>>
    BY <1>1, BufferHasResponse
  <2> QED BY <1>1, <2>1
<1>3. First(buffer, Statuses) = 1
  <2>1. PICK f \in Nat : f = First(buffer, Statuses)
    <3>1. First(buffer, Statuses) = 0 \/ First(buffer, Statuses) \in 1 .. Len(buffer)
      BY <1>1, FirstOfKind
    <3> QED BY <1>1, <3>1
  <2>2. 1 \in 1 .. Len(buffer) /\ buffer[1][1] \in Statuses
    BY <1>1, <1>2
  <2>3. \/ f = 0 /\ \A i \in 1 .. Len(buffer) : buffer[i][1] \notin Statuses
        \/ /\ f \in 1 .. Len(buffer)
           /\ \A i \in 1 .. Len(buffer) : i < f => buffer[i][1] \notin Statuses
    BY <1>1, <2>1, FirstOfKind
  <2>4. f # 0 /\ ~(1 < f)
    BY <2>2, <2>3
  <2> QED BY <2>1, <2>4
<1>4. Min(EndIn(buffer, 1)) = 4
  <2>1. /\ EndIn(buffer, 1) \subseteq Nat /\ 4 \in EndIn(buffer, 1)
        /\ \A i \in EndIn(buffer, 1) : 4 <= i
    <3>1. PICK b \in Seq(Tokens), w \in Seq(Tokens), from \in 1 .. 4 :
            b = buffer /\ w = wire /\ from = 1
      BY <1>1
    <3>2. b \o w = buffer \o wire /\ Len(b) >= Headers
      BY <3>1
    <3>3. EndIn(b, from) \subseteq Nat
      BY <3>2, EndFound
    <3>4. \A i \in EndIn(b, from) : 4 <= i
      BY <3>2, EndFound
    <3>5. 4 \in EndIn(b, from)
      BY <3>2, EndFound
    <3> QED BY <3>1, <3>3, <3>4, <3>5
  <2>2. Min(EndIn(buffer, 1)) \in EndIn(buffer, 1) /\ Min(EndIn(buffer, 1)) <= 4
    BY <2>1, SmallestOf
  <2> QED BY <2>1, <2>2
<1>5. DataPart(1, Headers) = Len(buffer) - Headers
  BY <1>1 DEF DataPart, Headers
<1> QED BY <1>2, <1>3, <1>4, <1>5 DEF Headers

LEMMA ParseKeeps ==
  ASSUME IInv, Parse
  PROVE  IInv'
<1>1. /\ TypeOK /\ pc = "parse" /\ rest = <<>> /\ received = <<>> /\ ~misframed /\ ~swallowed
      /\ Len(buffer) >= Headers /\ Bookkeeping /\ PacketsArriveWhole
  BY DEF Parse, IInv, Flow, BufferInv, BeforeMedia
<1>2. PICK code \in Statuses : Responding(code)
  BY <1>1 DEF IInv, Flow, ReadInv, Unanswered
<1>3. PICK n \in Nat, data \in Nat : n = LengthOf(code) /\ data = Len(buffer) - Headers
  <2>1. Len(buffer) \in Nat /\ LengthOf(code) \in Nat
    BY <1>1, ServerTypes, LenProperties DEF TypeOK
  <2>2. \A l \in Nat : l >= Headers => l - Headers \in Nat
    BY DEF Headers
  <2>3. Len(buffer) - Headers \in Nat
    BY <1>1, <2>1, <2>2
  <2> QED BY <2>1, <2>3
<1>4. UNCHANGED <<request, repeated, authenticator, wire, buffer, tpkt, server, misframed>>
  BY DEF Parse
<1>5. \/ pc' = "failed" /\ UNCHANGED <<status, expected, body, swallowed>>
      \/ /\ status' = code /\ expected' = n
         /\ \/ /\ n = 0 /\ body' = <<>> /\ pc' = "decide"
               /\ swallowed' = (swallowed \/ Len(buffer) > Headers)
            \/ pc' = "failed" /\ body' = <<>> /\ UNCHANGED swallowed
            \/ /\ n # 0 /\ data <= n /\ UNCHANGED swallowed
               /\ body' = Behind(Headers, data) /\ pc' = "body"
  <2>1. /\ First(buffer, Statuses) = 1 /\ Min(EndIn(buffer, 1)) + 1 = Headers
        /\ DataPart(1, Headers) = data /\ buffer[1][1] = code /\ buffer[1][2] = n
    BY <1>1, <1>2, <1>3, ParseFinds
  <2>2. ~(data > n) => data <= n
    OBVIOUS
  <2> QED BY <2>1, <2>2 DEF Parse
<1>6. /\ buffer \in Seq(Tokens) /\ wire \in Seq(Tokens) /\ Len(buffer) = Headers + data
      /\ Len(wire) \in Nat /\ <<>> \in Seq(Tokens) /\ Len(<<>>) = 0
  BY <1>1, <1>3, EmptySeq, LenProperties DEF TypeOK, Headers
<1>7. PacketsArriveWhole'
  BY <1>1, <1>4, <1>6 DEF PacketsArriveWhole, tpkt, server
<1>8. playing = (request = Play /\ code = "200") /\ Follows(buffer \o wire, Headers + n)
  BY <1>2, <1>3 DEF Responding
<1>9. playing => Framed(buffer \o wire, Headers + n, 0, sent)
  BY <1>1, <1>6, <1>8 DEF Follows
<1>10. ~playing => Len(wire) = n - data /\ data <= n
  <2>1. Len(buffer \o wire) = Len(buffer) + Len(wire)
    BY <1>6, ConcatProperties
  <2>2. ~playing => (Headers + data) + Len(wire) = Headers + n
    BY <1>6, <1>8, <2>1 DEF Follows
  <2> QED BY <1>6, <2>2 DEF Headers
<1>11. CASE pc' = "failed"
  <2>1. swallowed' = swallowed
    BY <1>5, <1>11
  <2>2. TypeOK'
    <3>1. CASE UNCHANGED <<status, expected, body>>
      BY <1>1, <1>4, <1>11, <2>1, <3>1 DEF TypeOK, tpkt, server
    <3>2. CASE status' = code /\ expected' = n /\ body' = <<>>
      <4>1. status' \in Statuses /\ expected' \in Nat
        BY <3>2
      <4>2. body' \in Seq(Tokens) /\ Len(body') <= expected'
        BY <1>6, <3>2
      <4> QED BY <1>1, <1>4, <1>11, <2>1, <4>1, <4>2 DEF TypeOK, tpkt, server
    <3> QED BY <1>5, <1>11, <3>1, <3>2
  <2> QED BY <1>1, <1>4, <1>7, <1>11, <2>1, <2>2
          DEF IInv, Flow, SendInv, ReadInv, BufferInv, BodyInv, DecideInv, MediaInv, BeforeMedia,
              Bookkeeping, server
<1>12. ASSUME data <= n
       PROVE  /\ playing => Framed(wire, n - data, 0, sent)
              /\ \A i \in 1 .. n - data : i \in 1 .. Len(wire) /\ wire[i] = <<"body", data + i, 0>>
  <2>1. Headers + data <= Headers + n /\ n - data \in Nat /\ Headers + n \in Nat
        /\ Headers + data \in 0 .. Headers + n
        /\ (Headers + n) - (Headers + data) = n - data
    BY <1>12 DEF Headers
  <2>2. PICK s \in Seq(Tokens) : s = buffer \o wire /\ Len(s) = Len(buffer) + Len(wire)
    BY <1>6, ConcatProperties
  <2>3. Without(wire, s, Headers + data)
    <3>1. \A i \in 1 .. Len(wire) : (buffer \o wire)[Len(buffer) + i] = wire[i]
      BY <1>6, Joined
    <3>2. Len(s) - (Headers + data) = Len(wire) /\ Headers + data <= Len(s)
      BY <1>6, <2>1, <2>2
    <3> QED BY <1>6, <2>2, <3>1, <3>2 DEF Without
  <2>4. playing => Framed(wire, n - data, 0, sent)
    <3>1. sent \in Seq(Nat)
      BY <1>1, ServerTypes
    <3>2. ASSUME playing PROVE Framed(wire, (Headers + n) - (Headers + data), 0, sent)
      <4>1. Framed(s, Headers + n, 0, sent)
        BY <1>9, <2>2, <3>2
      <4> QED BY <1>6, <2>1, <2>3, <3>1, <4>1, FramedWithout
    <3> QED BY <2>1, <3>2
  <2>5. ASSUME NEW i \in 1 .. n - data
        PROVE  i \in 1 .. Len(wire) /\ wire[i] = <<"body", data + i, 0>>
    <3>1. data + i \in 1 .. n /\ Headers + (data + i) = (Headers + data) + i
      BY <1>12 DEF Headers
    <3>2. /\ Len(Response(code, n)) = Headers + n
          /\ Response(code, n)[Headers + (data + i)] = <<"body", data + i, 0>>
      BY <3>1, ResponseTokens
    <3>3. /\ Headers + n <= Len(s)
          /\ \A j \in 1 .. Headers + n : s[j] = Response(code, n)[j]
      BY <1>2, <1>3, <2>2, <3>2 DEF Responding, Begins
    <3>4. Headers + (data + i) \in 1 .. Headers + n
      BY <3>1 DEF Headers
    <3>5. s[(Headers + data) + i] = <<"body", data + i, 0>>
      BY <3>1, <3>2, <3>3, <3>4
    <3>6. i \in 1 .. Len(wire) /\ i \in 1 .. Len(s) - (Headers + data)
      BY <1>6, <2>1, <2>2, <3>1, <3>3 DEF Headers
    <3> QED BY <2>3, <3>5, <3>6 DEF Without
  <2> QED BY <2>4, <2>5
<1>13. ASSUME n = 0, body' = <<>>, pc' = "decide", status' = code, expected' = n,
              swallowed' = (swallowed \/ Len(buffer) > Headers)
       PROVE  IInv'
  <2>1. TypeOK'
    BY <1>1, <1>4, <1>6, <1>13 DEF TypeOK, tpkt, server
  <2>2. BodyIsWhole'
    BY <1>3, <1>4, <1>6, <1>13 DEF BodyIsWhole, LengthOf
  <2>7. swallowed' <=> data > 0
    <3>1. Headers + data > Headers <=> data > 0
      BY DEF Headers
    <3> QED BY <1>1, <1>6, <1>13, <3>1
  <2>3. swallowed' => playing
    <3>1. ~playing => data <= 0
      BY <1>10, <1>13
    <3>2. ~(data <= 0 /\ data > 0)
      OBVIOUS
    <3> QED BY <2>7, <3>1, <3>2
  <2>4. ~swallowed' => Follows(wire, 0)'
    <3> SUFFICES ASSUME ~swallowed' PROVE Follows(wire, 0)'
      OBVIOUS
    <3>1. data = 0
      BY <2>7
    <3>2. (playing => Framed(wire, 0, 0, sent)) /\ (~playing => Len(wire) = 0)
      BY <1>10, <1>12, <1>13, <3>1
    <3> QED BY <1>1, <1>4, <1>6, <3>2 DEF Follows, tpkt, server
  <2>5. DecideInv'
    BY <1>4, <1>8, <1>13, <2>2, <2>4 DEF DecideInv, server
  <2>6. Bookkeeping' /\ BeforeMedia'
    BY <1>1, <1>4, <1>13, <2>3 DEF Bookkeeping, BeforeMedia, tpkt, server
  <2> QED BY <1>7, <1>13, <2>1, <2>5, <2>6
          DEF IInv, Flow, SendInv, ReadInv, BufferInv, BodyInv, MediaInv
<1>14. ASSUME n # 0, data <= n, UNCHANGED swallowed, body' = Behind(Headers, data), pc' = "body",
              status' = code, expected' = n
       PROVE  IInv'
  <2>1. /\ body' \in Seq(Tokens) /\ Len(body') = data
        /\ \A i \in 1 .. data : body'[i] = <<"body", i, 0>>
    <3>1. ASSUME NEW i \in 1 .. data
          PROVE  Headers + i <= Len(buffer) /\ buffer[Headers + i] = <<"body", i, 0>>
                 /\ <<"body", i, 0>> \in Tokens
      <4>1. Headers + i \in 1 .. Len(buffer) /\ Headers + i <= Headers + n /\ i \in 1 .. n
        BY <1>6, <1>14 DEF Headers
      <4>2. buffer[Headers + i] = Response(code, n)[Headers + i]
        BY <1>1, <1>2, <1>3, <1>6, <4>1, BufferHasResponse
      <4>3. Response(code, n)[Headers + i] = <<"body", i, 0>>
        BY <4>1, ResponseTokens
      <4>4. <<"body", i, 0>> \in Tokens
        BY DEF Tokens
      <4> QED BY <1>6, <4>1, <4>2, <4>3, <4>4
    <3>2. body' = [i \in 1 .. data |-> <<"body", i, 0>>]
      BY <1>14, <3>1 DEF Behind
    <3> QED BY <3>1, <3>2
  <2>2. TypeOK'
    BY <1>1, <1>4, <1>14, <2>1 DEF TypeOK, tpkt, server
  <2>3. code = "200" /\ n = Requests[request].body
    BY <1>3, <1>14 DEF LengthOf
  <2>4. Follows(wire, n - data)'
    <3>1. playing => Framed(wire, n - data, 0, sent)
      BY <1>12, <1>14
    <3> QED BY <1>1, <1>4, <1>6, <1>10, <3>1 DEF Follows, tpkt, server
  <2>5. BodyInv'
    <3>1. \A i \in 1 .. n - data : wire[i] = <<"body", data + i, 0>>
      BY <1>12, <1>14
    <3> QED BY <1>4, <1>8, <1>14, <2>1, <2>3, <2>4, <3>1 DEF BodyInv, server, Follows
  <2>6. Bookkeeping' /\ BeforeMedia'
    BY <1>1, <1>4, <1>14 DEF Bookkeeping, BeforeMedia, tpkt, server
  <2> QED BY <1>7, <1>14, <2>2, <2>5, <2>6
          DEF IInv, Flow, SendInv, ReadInv, BufferInv, DecideInv, MediaInv
<1> QED BY <1>5, <1>11, <1>13, <1>14

LEMMA ReadBodyKeeps ==
  ASSUME IInv, ReadBody
  PROVE  IInv'
<1>1. /\ TypeOK /\ pc = "body" /\ rest = <<>> /\ received = <<>> /\ ~misframed /\ ~swallowed
      /\ BodyInv /\ Bookkeeping /\ PacketsArriveWhole
  BY DEF ReadBody, IInv, Flow, BeforeMedia
<1>2. UNCHANGED <<request, repeated, authenticator, buffer, status, expected, tpkt, server, faults>>
  BY DEF ReadBody
<1>3. PICK m \in Nat : m = expected - Len(body)
  <2>1. expected \in Nat /\ Len(body) \in Nat /\ Len(body) <= expected
    BY <1>1, LenProperties DEF TypeOK
  <2> QED BY <2>1
<1>4. /\ body \in Seq(Tokens) /\ wire \in Seq(Tokens) /\ Len(body) \in Nat /\ Len(wire) \in Nat
      /\ Len(<<>>) = 0 /\ expected = Len(body) + m
  <2>1. expected \in Nat /\ Len(body) \in Nat
    BY <1>1, LenProperties DEF TypeOK
  <2> QED BY <1>1, <1>3, <2>1, EmptySeq, LenProperties DEF TypeOK
<1>5. PacketsArriveWhole' /\ Bookkeeping'
  BY <1>1, <1>2 DEF PacketsArriveWhole, Bookkeeping, tpkt, server, faults
<1>6. CASE pc' = "failed" /\ UNCHANGED <<wire, body>>
  <2>1. TypeOK'
    BY <1>1, <1>2, <1>6 DEF TypeOK, tpkt, server, faults
  <2> QED BY <1>5, <1>6, <2>1
          DEF IInv, Flow, SendInv, ReadInv, BufferInv, BodyInv, DecideInv, MediaInv, BeforeMedia
<1>7. ASSUME m <= Len(wire), body' = body \o Take(m), Leave(m), pc' = "decide"
      PROVE  IInv'
  <2>1. /\ Take(m) \in Seq(Tokens) /\ Len(Take(m)) = m
        /\ \A i \in 1 .. m : Take(m)[i] = wire[i]
        /\ wire' \in Seq(Tokens) /\ Len(wire') = Len(wire) - m
        /\ \A i \in 1 .. Len(wire) - m : wire'[i] = wire[m + i]
        /\ body' \in Seq(Tokens) /\ Len(body') = Len(body) + m
    <3>1. /\ Take(m) \in Seq(Tokens) /\ Len(Take(m)) = m
          /\ \A i \in 1 .. m : Take(m)[i] = wire[i]
      BY <1>1, <1>4, <1>7, TakeAndLeave
    <3>2. /\ wire' \in Seq(Tokens) /\ Len(wire') = Len(wire) - m
          /\ \A i \in 1 .. Len(wire) - m : wire'[i] = wire[m + i]
      BY <1>1, <1>4, <1>7, TakeAndLeave
    <3>3. body' \in Seq(Tokens) /\ Len(body') = Len(body) + m
      BY <1>1, <1>4, <1>7, TakeAndLeave
    <3> QED BY <3>1, <3>2, <3>3
  <2>2. TypeOK'
    <3>1. Len(body') <= expected'
      BY <1>2, <1>4, <2>1
    <3> QED BY <1>1, <1>2, <1>7, <2>1, <3>1 DEF TypeOK, tpkt, server, faults
  <2>3. \A i \in 1 .. Len(body') : body'[i] = <<"body", i, 0>>
    <3>1. PICK t \in Seq(Tokens) : t = Take(m) /\ Len(t) = m
      BY <2>1
    <3>2. /\ \A i \in 1 .. Len(body) : (body \o t)[i] = body[i]
          /\ \A i \in 1 .. Len(body) + Len(t) : i > Len(body) => (body \o t)[i] = t[i - Len(body)]
      BY <1>4, Joined
    <3> SUFFICES ASSUME NEW i \in 1 .. Len(body')
                 PROVE  body'[i] = <<"body", i, 0>>
      OBVIOUS
    <3>3. CASE i <= Len(body)
      <4>1. i \in 1 .. Len(body)
        BY <1>4, <2>1, <3>3
      <4> QED BY <1>1, <1>7, <3>1, <3>2, <4>1 DEF BodyInv
    <3>4. CASE i > Len(body)
      <4>1. PICK j \in 1 .. m : j = i - Len(body)
        <5>1. \A l \in Nat : \A k \in 1 .. l + m : k > l => k - l \in 1 .. m
          OBVIOUS
        <5>2. i - Len(body) \in 1 .. m
          BY <1>4, <2>1, <3>4, <5>1
        <5> QED BY <5>2
      <4>2. i \in 1 .. Len(body) + Len(t) /\ Len(body) + j = i
        BY <1>4, <2>1, <3>1, <4>1
      <4>3. body'[i] = t[j]
        BY <1>7, <3>1, <3>2, <3>4, <4>1, <4>2
      <4>4. t[j] = wire[j]
        BY <2>1, <3>1
      <4>5. wire[j] = <<"body", Len(body) + j, 0>>
        BY <1>1, <1>3 DEF BodyInv
      <4> QED BY <4>2, <4>3, <4>4, <4>5
    <3>5. i <= Len(body) \/ i > Len(body)
      BY <1>4, <2>1
    <3> QED BY <3>3, <3>4, <3>5
  <2>4. status = "200" /\ expected = Requests[request].body /\ playing = (request = Play)
    BY <1>1 DEF BodyInv
  <2>5. BodyIsWhole'
    <3>1. Len(body') = Requests[request].body
      BY <1>4, <2>1, <2>4
    <3> QED BY <1>2, <2>3, <3>1 DEF BodyIsWhole
  <2>6. Follows(wire, m)
    BY <1>1, <1>3 DEF BodyInv
  <2>7. Follows(wire, 0)'
    <3>1. CASE playing
      <4>1. Framed(wire, m, 0, sent)
        BY <1>1, <1>4, <2>6, <3>1 DEF Follows
      <4>2. Without(wire', wire, m)
        BY <1>7, <2>1 DEF Without
      <4>3. PICK s \in Seq(Tokens), t \in Seq(Tokens), sizes \in Seq(Nat), d \in 0 .. m :
              s = wire /\ t = wire' /\ sizes = sent /\ d = m
        BY <1>1, <1>4, <2>1, ServerTypes
      <4>4. Framed(t, m - d, 0, sizes)
        BY <4>1, <4>2, <4>3, FramedWithout
      <4>5. Framed(wire', 0, 0, sent)
        BY <4>3, <4>4
      <4> QED BY <1>1, <1>2, <1>4, <3>1, <4>5 DEF Follows, tpkt, server
    <3>2. CASE ~playing
      <4>1. Len(wire) = m
        BY <2>6, <3>2 DEF Follows
      <4>2. Len(wire') = 0
        BY <1>4, <2>1, <4>1
      <4> QED BY <1>2, <3>2, <4>2 DEF Follows, tpkt, server
    <3> QED BY <3>1, <3>2
  <2>8. DecideInv'
    BY <1>2, <2>4, <2>5, <2>7 DEF DecideInv, server
  <2>9. BeforeMedia'
    BY <1>1, <1>2, <1>7 DEF BeforeMedia, tpkt, faults
  <2> QED BY <1>5, <1>7, <2>2, <2>8, <2>9
          DEF IInv, Flow, SendInv, ReadInv, BufferInv, BodyInv, MediaInv
<1> QED BY <1>3, <1>6, <1>7 DEF ReadBody

LEMMA DecideKeeps ==
  ASSUME IInv, Decide
  PROVE  IInv'
<1>1. /\ TypeOK /\ pc = "decide" /\ rest = <<>> /\ received = <<>> /\ ~misframed
      /\ DecideInv /\ Bookkeeping /\ PacketsArriveWhole
  BY DEF Decide, IInv, Flow, BeforeMedia
<1>2. UNCHANGED <<wire, buffer, status, expected, body, tpkt, server, faults>>
  BY DEF Decide
<1>3. \/ pc' = "find" /\ request = Play /\ request' = request /\ repeated' = FALSE
           /\ authenticator' = authenticator
      \/ pc' = "send" /\ request # Play /\ request' = request + 1 /\ repeated' = FALSE
           /\ authenticator' = authenticator
      \/ pc' = "send" /\ status = "401" /\ request' = request /\ repeated' = TRUE
           /\ authenticator' = TRUE
      \/ pc' = "failed" /\ UNCHANGED <<request, repeated, authenticator>>
  BY DEF Decide
<1>4. /\ wire \in Seq(Tokens) /\ Len(wire) \in Nat /\ Len(<<>>) = 0
      /\ request \in 1 .. Play /\ Play \in Nat
  BY <1>1, EmptySeq, ServerTypes, LenProperties DEF TypeOK
<1>5. request' \in 1 .. Play /\ repeated' \in BOOLEAN /\ authenticator' \in BOOLEAN
      /\ (repeated' => authenticator')
  <2>1. request # Play => request + 1 \in 1 .. Play
    BY <1>4
  <2>2. request' \in 1 .. Play
    BY <1>3, <1>4, <2>1
  <2>3. /\ repeated \in BOOLEAN /\ authenticator \in BOOLEAN
        /\ repeated => authenticator
    BY <1>1 DEF TypeOK, Bookkeeping
  <2>4. repeated' \in BOOLEAN /\ authenticator' \in BOOLEAN
    BY <1>3, <2>3
  <2>5. repeated' => authenticator'
    BY <1>3, <2>3, Zenon
  <2> QED BY <2>2, <2>4, <2>5
<1>6. TypeOK'
  BY <1>1, <1>2, <1>3, <1>5 DEF TypeOK, tpkt, server, faults
<1>7. PacketsArriveWhole' /\ Bookkeeping'
  BY <1>1, <1>2, <1>5 DEF PacketsArriveWhole, Bookkeeping, tpkt, server, faults
<1>8. ASSUME pc' = "send"
      PROVE  ~playing' /\ wire' = <<>> /\ ~swallowed'
  <2>1. ~playing
    BY <1>1, <1>3, <1>8 DEF DecideInv
  <2>2. ~swallowed
    BY <1>1, <2>1 DEF Bookkeeping
  <2>3. Len(wire) = 0
    BY <1>1, <2>1, <2>2 DEF DecideInv, Follows
  <2> QED BY <1>2, <1>4, <2>1, <2>2, <2>3, EmptySeq DEF server, faults
<1>9. ASSUME pc' = "find"
      PROVE  MediaInv'
  <2>1. request' = Play
    BY <1>3, <1>9
  <2>2. ASSUME Sound' PROVE Follows(rest \o wire, 0)'
    <3>1. Follows(wire, 0)
      BY <1>1, <1>2, <2>2 DEF DecideInv, Sound, faults
    <3>2. rest' = <<>> /\ wire' = wire /\ wire \in Seq(Tokens)
      BY <1>1, <1>2, <1>4 DEF tpkt
    <3>3. rest' \o wire' = wire
      BY <3>2, ConcatEmptySeq
    <3> QED BY <1>2, <3>1, <3>3 DEF Follows, tpkt, server
  <2> QED BY <1>9, <2>1, <2>2 DEF MediaInv
<1>10. BeforeMedia'
  BY <1>1, <1>2, <1>3, <1>8 DEF BeforeMedia, tpkt, faults
<1> QED BY <1>3, <1>6, <1>7, <1>8, <1>9, <1>10
        DEF IInv, Flow, SendInv, ReadInv, BufferInv, BodyInv, DecideInv, MediaInv

-----------------------------------------------------------------------------
(* What TpktStream does *)

\* What begins no packet may be dropped from the front.
LEMMA FollowsWithout ==
  ASSUME TypeOK, NEW s \in Seq(Tokens), NEW t \in Seq(Tokens), NEW n \in Nat, Follows(s, 0),
         Without(t, s, n), \A i \in 1 .. n : ~IsStart(s[i])
  PROVE  Follows(t, 0)
<1>1. /\ n <= Len(s) /\ Len(t) = Len(s) - n /\ Len(s) \in Nat
  BY LenProperties DEF Without
<1>2. CASE playing
  <2>1. PICK k \in Nat, sizes \in Seq(Nat), d \in 0 .. n, o \in Nat :
          k = Len(received) /\ sizes = sent /\ d = n /\ o = 0
    BY ServerTypes
  <2>2. Framed(s, o, k, sizes)
    BY <1>2, <2>1 DEF Follows
  <2>3. Framed(s, n, k, sizes)
    <3>1. o <= n /\ \A i \in o + 1 .. n : ~IsStart(s[i])
      BY <2>1
    <3> QED BY <1>1, <2>2, <3>1, FramedBehind
  <2>4. Framed(t, n - d, k, sizes)
    BY <2>3, <2>1, FramedWithout
  <2>5. n - d = 0
    BY <2>1
  <2> QED BY <1>2, <2>1, <2>4, <2>5 DEF Follows
<1>3. CASE ~playing
  <2>1. Len(s) = 0
    BY <1>3 DEF Follows
  <2>2. Len(t) = 0
    BY <1>1, <2>1
  <2> QED BY <1>3, <2>2 DEF Follows
<1> QED BY <1>2, <1>3

\* The media is the first thing the client does not touch, so the rest is as it was.
LEMMA StillMedia ==
  ASSUME IInv, TypeOK', MediaInv', pc \in {"find", "header", "payload"},
         pc' \in {"find", "header", "payload", "failed"}, UNCHANGED <<rtsp, server, swallowed>>,
         PacketsArriveWhole'
  PROVE  IInv'
<1>1. Bookkeeping'
  BY DEF IInv, Flow, Bookkeeping, rtsp, server
<1> QED BY <1>1 DEF IInv, Flow, SendInv, ReadInv, BufferInv, BodyInv, DecideInv, BeforeMedia

LEMMA FindNextPacketKeeps ==
  ASSUME IInv, FindNextPacket
  PROVE  IInv'
<1>1. /\ TypeOK /\ pc = "find" /\ request = Play /\ (Sound => Follows(rest \o wire, 0))
      /\ PacketsArriveWhole /\ MediaInv
  BY DEF FindNextPacket, IInv, Flow, MediaInv
<1>2. UNCHANGED <<rtsp, received, server, swallowed>>
  BY DEF FindNextPacket
<1>3. PICK r \in Seq(Tokens), w \in Seq(Tokens) : r = rest /\ w = wire
  BY <1>1 DEF TypeOK
<1>4. /\ Len(r) \in Nat /\ Len(w) \in Nat /\ r \o w \in Seq(Tokens)
      /\ Len(r \o w) = Len(r) + Len(w)
      /\ \A i \in 1 .. Len(r) : (r \o w)[i] = r[i]
      /\ \A i \in 1 .. Len(w) : (r \o w)[Len(r) + i] = w[i]
  BY Joined
<1>5. PICK at \in Nat : at = First(r, {"$"})
  <2>1. First(r, {"$"}) = 0 \/ First(r, {"$"}) \in 1 .. Len(r)
    BY FirstOfKind
  <2> QED BY <1>4, <2>1
<1>6. /\ at = 0 => \A i \in 1 .. Len(r) : ~IsStart(r[i])
      /\ at # 0 => at \in 1 .. Len(r) /\ r[at][1] = "$"
      /\ \A i \in 1 .. Len(r) : i < at => ~IsStart(r[i])
  <2>1. \/ at = 0 /\ \A i \in 1 .. Len(r) : r[i][1] \notin {"$"}
        \/ /\ at \in 1 .. Len(r) /\ r[at][1] \in {"$"}
           /\ \A i \in 1 .. Len(r) : i < at => r[i][1] \notin {"$"}
    BY <1>5, FirstOfKind
  <2> QED BY <2>1 DEF IsStart
<1>7. CASE at # 0
  <2>1. /\ rest' = SubSeq(r, at, Len(r)) /\ misframed' = (misframed \/ r[at][2] = 0)
        /\ pc' = "header" /\ wire' = w
    BY <1>3, <1>5, <1>7 DEF FindNextPacket
  <2>2. PICK n \in Nat : n + 1 = at /\ n <= Len(r)
    <3>1. at - 1 \in Nat /\ (at - 1) + 1 = at /\ at - 1 <= Len(r)
      BY <1>4, <1>6, <1>7
    <3> QED BY <3>1
  <2>3. PICK t \in Seq(Tokens) :
          /\ t = SubSeq(r, n + 1, Len(r)) /\ Len(t) = Len(r) - n
          /\ \A i \in 1 .. Len(r) - n : t[i] = r[n + i]
    <3>1. SubSeq(r, n + 1, Len(r)) \in Seq(Tokens) /\ Len(SubSeq(r, n + 1, Len(r))) = Len(r) - n
      BY <2>2, TakenAndLeft
    <3>2. \A i \in 1 .. Len(r) - n : SubSeq(r, n + 1, Len(r))[i] = r[n + i]
      BY <2>2, TakenAndLeft
    <3> QED BY <3>1, <3>2
  <2>4. rest' = t /\ Len(t) # 0 /\ t # <<>> /\ t[1] = r[at]
    <3>1. Len(t) # 0 /\ 1 \in 1 .. Len(r) - n
      BY <1>4, <1>6, <1>7, <2>2, <2>3
    <3>2. t[1] = r[at]
      BY <2>2, <2>3, <3>1
    <3> QED BY <2>1, <2>2, <2>3, <3>1, <3>2, EmptySeq
  <2>5. TypeOK'
    BY <1>1, <1>2, <1>3, <2>1, <2>4 DEF TypeOK, rtsp, server
  <2>6. Without(t \o w, r \o w, n)
    BY <2>2, <2>3, LeftOfBuffer
  <2>7. ASSUME Sound'
        PROVE  Follows(rest \o wire, 0)' /\ playing' /\ IsStart(rest'[1])
    <3>1. Sound /\ r[at][2] # 0
      BY <1>1, <1>2, <2>1, <2>7 DEF Sound
    <3>2. Follows(r \o w, 0)
      BY <1>1, <1>3, <3>1
    <3>3. \A i \in 1 .. n : ~IsStart((r \o w)[i])
      <4>1. ASSUME NEW i \in 1 .. n PROVE i \in 1 .. Len(r) /\ i < at
        BY <1>4, <2>2
      <4> QED BY <1>4, <1>6, <4>1
    <3>4. t \o w \in Seq(Tokens)
      BY ConcatProperties
    <3>5. Follows(t \o w, 0)
      BY <1>1, <1>4, <2>6, <3>2, <3>3, <3>4, FollowsWithout
    <3>6. playing
      <4>1. Len(r \o w) # 0
        BY <1>4, <1>6, <1>7
      <4> QED BY <3>2, <4>1 DEF Follows
    <3>7. IsStart(rest'[1])
      BY <1>6, <1>7, <2>4, <3>1 DEF IsStart
    <3> QED BY <1>2, <2>1, <2>4, <3>5, <3>6, <3>7 DEF Follows, server
  <2>8. MediaInv'
    BY <1>1, <1>2, <2>1, <2>4, <2>7 DEF MediaInv, rtsp
  <2>9. PacketsArriveWhole'
    BY <1>1, <1>2, <2>1 DEF PacketsArriveWhole, server
  <2> QED BY <1>1, <1>2, <2>1, <2>5, <2>8, <2>9, StillMedia
<1>8. ASSUME at = 0, NEW n \in 1 .. BufferSize, n <= Len(wire), rest' = Take(n), Leave(n),
             UNCHANGED <<pc, misframed>>
      PROVE  IInv'
  <2>1. n \in Nat /\ <<>> \in Seq(Tokens)
    BY ConnectionAssumption, EmptySeq
  <2>2. /\ Take(n) \in Seq(Tokens) /\ wire' \in Seq(Tokens)
        /\ (<<>> \o Take(n)) \o wire' = <<>> \o wire
    BY <1>1, <1>8, <2>1, TakeAndLeave
  <2>3. rest' \in Seq(Tokens) /\ rest' \o wire' = w
    BY <1>3, <1>8, <2>2, ConcatEmptySeq
  <2>4. TypeOK'
    BY <1>1, <1>2, <1>8, <2>2, <2>3 DEF TypeOK, rtsp, server
  <2>5. ASSUME Sound'
        PROVE  Follows(rest \o wire, 0)'
    <3>1. Follows(r \o w, 0)
      BY <1>1, <1>2, <1>3, <1>8, <2>5 DEF Sound
    <3>2. Without(w, r \o w, Len(r))
      BY <1>4 DEF Without
    <3>3. \A i \in 1 .. Len(r) : ~IsStart((r \o w)[i])
      BY <1>4, <1>6, <1>8
    <3>4. Follows(w, 0)
      BY <1>1, <1>4, <3>1, <3>2, <3>3, FollowsWithout
    <3> QED BY <1>2, <2>3, <3>4 DEF Follows, server
  <2>6. MediaInv'
    BY <1>1, <1>2, <1>8, <2>5 DEF MediaInv, rtsp
  <2>7. PacketsArriveWhole'
    BY <1>1, <1>2, <1>8 DEF PacketsArriveWhole, server
  <2> QED BY <1>1, <1>2, <1>8, <2>4, <2>6, <2>7, StillMedia
<1>9. ASSUME pc' = "failed", UNCHANGED <<wire, rest, misframed>>
      PROVE  IInv'
  <2>1. TypeOK'
    BY <1>1, <1>2, <1>9 DEF TypeOK, rtsp, server
  <2>2. PacketsArriveWhole'
    BY <1>1, <1>2, <1>9 DEF PacketsArriveWhole, server
  <2>3. MediaInv'
    BY <1>9 DEF MediaInv
  <2> QED BY <1>1, <1>2, <1>9, <2>1, <2>2, <2>3, StillMedia
<1> QED BY <1>3, <1>5, <1>7, <1>8, <1>9 DEF FindNextPacket

LEMMA ReadHeaderKeeps ==
  ASSUME IInv, ReadHeader
  PROVE  IInv'
<1>1. /\ TypeOK /\ pc = "header" /\ request = Play /\ PacketsArriveWhole
      /\ Sound => Follows(rest \o wire, 0) /\ playing /\ rest # <<>> /\ IsStart(rest[1])
  BY DEF ReadHeader, IInv, Flow, MediaInv
<1>2. UNCHANGED <<rtsp, received, server, faults>>
  BY DEF ReadHeader
<1>3. rest \in Seq(Tokens) /\ Len(rest) \in Nat
  BY <1>1, LenProperties DEF TypeOK
<1>4. PICK m \in Nat :
        /\ m = (IF Len(rest) >= HeaderSize THEN 0 ELSE HeaderSize - Len(rest))
        /\ Len(rest) + m >= HeaderSize
  <2>1. \A l \in Nat : \E m \in Nat :
          m = (IF l >= HeaderSize THEN 0 ELSE HeaderSize - l) /\ l + m >= HeaderSize
    <3> TAKE l \in Nat
    <3>1. CASE l >= 4
      BY <3>1 DEF HeaderSize
    <3>2. CASE ~(l >= 4)
      <4>1. 4 - l \in Nat /\ l + (4 - l) >= 4
        BY <3>2
      <4> QED BY <3>2, <4>1 DEF HeaderSize
    <3> QED BY <3>1, <3>2
  <2> QED BY <1>3, <2>1
<1>5. PacketsArriveWhole'
  BY <1>1, <1>2 DEF PacketsArriveWhole, server, faults
<1>6. ASSUME m <= Len(wire), rest' = rest \o Take(m), Leave(m), pc' = "payload"
      PROVE  IInv'
  <2>1. wire' \in Seq(Tokens)
    BY <1>1, <1>3, <1>6, TakeAndLeave
  <2>2. PICK t \in Seq(Tokens) : t = Take(m) /\ Len(t) = m
    BY <1>1, <1>3, <1>6, TakeAndLeave
  <2>3. rest' \o wire' = rest \o wire
    BY <1>1, <1>3, <1>6, TakeAndLeave
  <2>4. /\ rest' \in Seq(Tokens) /\ Len(rest') = Len(rest) + m
        /\ \A i \in 1 .. Len(rest) : rest'[i] = rest[i]
    BY <1>3, <1>6, <2>2, Joined
  <2>5. TypeOK'
    BY <1>1, <1>2, <1>6, <2>1, <2>4 DEF TypeOK, rtsp, server, faults
  <2>6. Len(rest') >= HeaderSize
    BY <1>4, <2>4
  <2>7. ASSUME Sound
        PROVE  rest' # <<>> /\ IsStart(rest'[1]) /\ Follows(rest \o wire, 0)' /\ playing'
    <3>1. Len(rest) # 0
      BY <1>1, <1>3, <2>7, EmptySeq
    <3>2. rest'[1] = rest[1]
      BY <1>3, <2>4, <3>1
    <3>3. rest' # <<>>
      <4>1. Len(rest') # 0
        BY <1>3, <2>4, <3>1
      <4> QED BY <4>1, EmptySeq
    <3>4. Follows(rest \o wire, 0)'
      BY <1>1, <1>2, <2>3, <2>7 DEF Follows, server
    <3> QED BY <1>1, <1>2, <2>7, <3>2, <3>3, <3>4 DEF server
  <2>8. MediaInv'
    BY <1>1, <1>2, <1>6, <2>6, <2>7 DEF MediaInv, Sound, rtsp, faults
  <2> QED BY <1>1, <1>2, <1>5, <1>6, <2>5, <2>8, StillMedia DEF faults
<1>7. ASSUME pc' = "failed", UNCHANGED <<wire, rest>>
      PROVE  IInv'
  <2>1. TypeOK'
    BY <1>1, <1>2, <1>7 DEF TypeOK, rtsp, server, faults
  <2>2. MediaInv'
    BY <1>7 DEF MediaInv
  <2> QED BY <1>1, <1>2, <1>5, <1>7, <2>1, <2>2, StillMedia DEF faults
<1> QED BY <1>4, <1>6, <1>7 DEF ReadHeader

\* The size in the header of the packet that is next is its size.
LEMMA HeaderTellsSize ==
  ASSUME TypeOK, pc = "payload", MediaInv, Sound
  PROVE  /\ playing /\ Len(received) + 1 \in 1 .. Len(sent)
         /\ sent[Len(received) + 1] \in Nat
         /\ SizesRead = {sent[Len(received) + 1]}
         /\ PacketAt(rest \o wire, 1, Len(received) + 1, sent[Len(received) + 1])
         /\ Framed(rest \o wire, 4 + sent[Len(received) + 1], Len(received) + 1, sent)
<1>1. /\ playing /\ IsStart(rest[1]) /\ Len(rest) >= 4 /\ Follows(rest \o wire, 0)
      /\ rest \in Seq(Tokens) /\ wire \in Seq(Tokens) /\ Len(rest) \in Nat
  BY LenProperties DEF MediaInv, HeaderSize, TypeOK
<1>2. PICK s \in Seq(Tokens), k \in Nat, sizes \in Seq(Nat) :
        s = rest \o wire /\ k = Len(received) /\ sizes = sent
  BY <1>1, ServerTypes, ConcatProperties
<1>3. \A i \in 1 .. Len(rest) : s[i] = rest[i]
  BY <1>1, <1>2, Joined
<1>4. s[1] = rest[1] /\ s[3] = rest[3] /\ s[4] = rest[4] /\ s # <<>>
  <2>1. 1 \in 1 .. Len(rest) /\ 3 \in 1 .. Len(rest) /\ 4 \in 1 .. Len(rest)
    BY <1>1
  <2>2. Len(s) = Len(rest) + Len(wire) /\ Len(wire) \in Nat
    BY <1>1, <1>2, ConcatProperties, LenProperties
  <2>3. Len(s) # 0
    BY <1>1, <2>2
  <2> QED BY <1>3, <2>1, <2>3, EmptySeq
<1>5. Framed(s, 0, k, sizes)
  BY <1>1, <1>2 DEF Follows
<1>6. /\ k + 1 \in 1 .. Len(sizes) /\ sizes[k + 1] \in Nat
      /\ PacketAt(s, 1, k + 1, sizes[k + 1])
      /\ Framed(s, 4 + sizes[k + 1], k + 1, sizes)
  BY <1>1, <1>4, <1>5, FramedFirst
<1>7. PICK z \in Nat : z = sizes[k + 1]
  BY <1>6
<1>8. rest[3] = <<"size", z, 0>> /\ rest[4] = <<"size", z, 1>>
  <2>1. s[1 + 3 - 1] = Packet(k + 1, z)[3] /\ s[1 + 4 - 1] = Packet(k + 1, z)[4]
    BY <1>6, <1>7 DEF PacketAt
  <2>2. Packet(k + 1, z)[3] = <<"size", z, 0>> /\ Packet(k + 1, z)[4] = <<"size", z, 1>>
    <3>1. PICK p \in Nat : p = k + 1
      OBVIOUS
    <3>2. Packet(p, z)[3] = <<"size", z, 0>> /\ Packet(p, z)[4] = <<"size", z, 1>>
      BY PacketTokens
    <3> QED BY <3>1, <3>2
  <2> QED BY <1>4, <2>1, <2>2
<1>9. SizesRead = {z}
  BY <1>8 DEF SizesRead
<1> QED BY <1>1, <1>2, <1>6, <1>7, <1>9

\* A packet that was read: what is behind it is what the client has left.
LEMMA PayloadTaken ==
  ASSUME TypeOK, Len(rest) >= HeaderSize, NEW size \in Nat, NEW m \in Nat,
         m = (IF Len(rest) - HeaderSize >= size THEN 0 ELSE size - (Len(rest) - HeaderSize)),
         m <= Len(wire), rest' = Beyond(size), Leave(m)
  PROVE  /\ rest \o Take(m) \in Seq(Tokens) /\ 4 + size <= Len(rest \o Take(m))
         /\ 4 + size <= Len(rest \o wire)
         /\ \A j \in 1 .. 4 + size : (rest \o Take(m))[j] = (rest \o wire)[j]
         /\ rest' \in Seq(Tokens) /\ wire' \in Seq(Tokens)
         /\ Without(rest' \o wire', rest \o wire, 4 + size)
<1>1. PICK r \in Seq(Tokens), w \in Seq(Tokens) :
        r = rest /\ w = wire /\ Len(r) >= 4 /\ m <= Len(w) /\ Len(r) \in Nat /\ Len(w) \in Nat
  BY LenProperties DEF TypeOK, HeaderSize
<1>2. PICK t \in Seq(Tokens) : t = Take(m) /\ Len(t) = m
  BY <1>1, TakeAndLeave
<1>3. wire' \in Seq(Tokens) /\ (r \o t) \o wire' = r \o w
  BY <1>1, <1>2, TakeAndLeave
<1>4. PICK u \in Seq(Tokens), v \in Seq(Tokens) :
        u = r \o t /\ v = wire' /\ Len(u) = Len(r) + m /\ Len(u) \in Nat
  <2>1. r \o t \in Seq(Tokens) /\ Len(r \o t) = Len(r) + Len(t)
    BY ConcatProperties
  <2>2. Len(r \o t) = Len(r) + m
    BY <1>2, <2>1
  <2>3. Len(r \o t) \in Nat
    BY <1>1, <2>2
  <2> QED BY <1>3, <2>1, <2>2, <2>3
<1>5. \/ Len(r) - 4 >= size /\ m = 0 /\ 4 + size <= Len(r)
      \/ Len(r) < 4 + size /\ Len(r) + m = 4 + size
  <2>1. m = (IF Len(r) - 4 >= size THEN 0 ELSE size - (Len(r) - 4))
    BY <1>1 DEF HeaderSize
  <2> QED BY <1>1, <2>1
<1>6. 4 + size <= Len(u) /\ 4 + size \in Nat
  BY <1>1, <1>4, <1>5
<1>7. /\ \A j \in 1 .. Len(u) : (u \o v)[j] = u[j]
      /\ Len(u \o v) = Len(u) + Len(v) /\ Len(v) \in Nat
  BY Joined
<1>8. \A j \in 1 .. 4 + size : u[j] = (r \o w)[j]
  <2>1. \A j \in 1 .. 4 + size : j \in 1 .. Len(u)
    BY <1>4, <1>6
  <2> QED BY <1>3, <1>4, <1>7, <2>1
<1>9. 4 + size <= Len(r \o w)
  BY <1>3, <1>4, <1>6, <1>7
<1>10. PICK n \in Nat : n = 4 + size
  BY <1>6
<1>11. rest' = SubSeq(r, n + 1, Len(r))
  BY <1>1, <1>10 DEF Beyond, HeaderSize
<1>12. v = SubSeq(w, m + 1, Len(w))
  BY <1>1, <1>4 DEF Leave
<1>13. CASE m = 0 /\ n <= Len(r)
  <2>1. SubSeq(r, n + 1, Len(r)) \in Seq(Tokens)
    BY <1>13, TakenAndLeft
  <2>2. v = w
    <3>1. m + 1 = 1
      BY <1>13
    <3>2. v = SubSeq(w, 1, Len(w))
      BY <1>12, <3>1
    <3> QED BY <3>2, SubSeqFull
  <2>3. Without(SubSeq(r, n + 1, Len(r)) \o w, r \o w, n)
    BY <1>13, LeftOfBuffer
  <2> QED BY <1>1, <1>2, <1>4, <1>6, <1>8, <1>9, <1>10, <1>11, <2>1, <2>2, <2>3
<1>14. CASE Len(r) < n /\ Len(r) + m = n
  <2>1. rest' = <<>>
    <3>1. n + 1 > Len(r) /\ n + 1 \in Nat
      BY <1>1, <1>14
    <3>2. SubSeq(r, n + 1, Len(r)) = <<>>
      BY <1>1, <3>1, SubSeqEmpty
    <3> QED BY <1>11, <3>2
  <2>2. rest' \in Seq(Tokens) /\ rest' \o v = v
    BY <2>1, EmptySeq, ConcatEmptySeq
  <2>3. Without(SubSeq(w, m + 1, Len(w)), r \o w, Len(r) + m)
    BY <1>1, LeftOfWire
  <2> QED BY <1>1, <1>2, <1>4, <1>6, <1>8, <1>9, <1>10, <1>12, <1>14, <2>2, <2>3
<1> QED BY <1>5, <1>10, <1>13, <1>14

LEMMA ReadPayloadKeeps ==
  ASSUME IInv, ReadPayload
  PROVE  IInv'
<1>1. /\ TypeOK /\ pc = "payload" /\ request = Play /\ PacketsArriveWhole /\ MediaInv
      /\ Sound => Follows(rest \o wire, 0)
      /\ Len(rest) >= HeaderSize
  BY DEF ReadPayload, IInv, Flow, MediaInv
<1>2. UNCHANGED <<rtsp, server, faults>>
  BY DEF ReadPayload
<1>3. /\ rest \in Seq(Tokens) /\ wire \in Seq(Tokens) /\ Len(rest) \in Nat /\ Len(rest) >= 4
      /\ received \in Seq(Seq(Tokens)) /\ Len(received) \in Nat
  BY <1>1, LenProperties DEF TypeOK, HeaderSize
<1>4. SizesRead \subseteq Nat
  <2>1. rest[3][2] \in Nat
    <3>1. 3 \in 1 .. Len(rest)
      BY <1>3
    <3> QED BY <1>3, <3>1, TokenNumber
  <2> QED BY <2>1, ConnectionAssumption DEF SizesRead
<1>5. PICK size \in SizesRead :
        LET have == Len(rest) - HeaderSize
            missing == IF have >= size THEN 0 ELSE size - have
        IN \/ /\ missing <= Len(wire)
              /\ received' = Append(received,
                   SubSeq(rest \o Take(missing), HeaderSize + 1, HeaderSize + size))
              /\ rest' = Beyond(size)
              /\ Leave(missing)
              /\ pc' = "find"
           \/ /\ missing > Len(wire) /\ closed
              /\ pc' = "failed" /\ UNCHANGED <<wire, rest, received>>
  BY DEF ReadPayload
<1>6. size \in Nat
  BY <1>4
<1>7. PICK m \in Nat :
        m = (IF Len(rest) - HeaderSize >= size THEN 0 ELSE size - (Len(rest) - HeaderSize))
  <2>1. \A l \in Nat : l >= 4 =>
          (IF l - 4 >= size THEN 0 ELSE size - (l - 4)) \in Nat
    BY <1>6
  <2> QED BY <1>3, <2>1 DEF HeaderSize
<1>8. ASSUME m <= Len(wire),
             received' = Append(received, SubSeq(rest \o Take(m), HeaderSize + 1, HeaderSize + size)),
             rest' = Beyond(size), Leave(m), pc' = "find"
      PROVE  IInv'
  <2>1. rest \o Take(m) \in Seq(Tokens) /\ 4 + size <= Len(rest \o Take(m))
    BY <1>1, <1>6, <1>7, <1>8, PayloadTaken
  <2>2. \A j \in 1 .. 4 + size : (rest \o Take(m))[j] = (rest \o wire)[j]
    BY <1>1, <1>6, <1>7, <1>8, PayloadTaken
  <2>3. rest' \in Seq(Tokens) /\ wire' \in Seq(Tokens)
    BY <1>1, <1>6, <1>7, <1>8, PayloadTaken
  <2>4. Without(rest' \o wire', rest \o wire, 4 + size)
    BY <1>1, <1>6, <1>7, <1>8, PayloadTaken
  <2>5. PICK u \in Seq(Tokens) : u = rest \o Take(m) /\ Len(u) \in Nat /\ 4 + size <= Len(u)
    BY <2>1, LenProperties
  <2>6. PICK x \in Seq(Tokens) :
          /\ x = SubSeq(u, 5, 4 + size) /\ Len(x) = size
          /\ \A j \in 1 .. size : x[j] = u[4 + j]
    <3>1. PICK e \in Int : e = 4 + size
      BY <1>6
    <3>2. \A i \in 5 .. e : u[i] \in Tokens
      <4>1. \A i \in 5 .. e : i \in 1 .. Len(u)
        BY <1>6, <2>5, <3>1
      <4> QED BY <4>1, ElementOfSeq
    <3> DEFINE v == SubSeq(u, 5, e)
    <3>3. /\ v \in Seq(Tokens) /\ Len(v) = (IF 5 <= e THEN e - 5 + 1 ELSE 0)
          /\ \A j \in 1 .. e - 5 + 1 : v[j] = u[5 + j - 1]
      BY <3>1, <3>2, SubSeqProperties
    <3>4. Len(v) = size
      BY <1>6, <3>1, <3>3
    <3>5. \A j \in 1 .. size : v[j] = u[4 + j]
      <4>1. \A j \in 1 .. size : j \in 1 .. e - 5 + 1 /\ 5 + j - 1 = 4 + j
        BY <1>6, <3>1
      <4> QED BY <3>3, <4>1
    <3> QED BY <3>1, <3>3, <3>4, <3>5
  <2>7. /\ received' \in Seq(Seq(Tokens)) /\ Len(received') = Len(received) + 1
        /\ \A p \in 1 .. Len(received) : received'[p] = received[p]
        /\ received'[Len(received) + 1] = x
    <3>1. received' = Append(received, x) /\ x \in Seq(Tokens)
      BY <1>8, <2>5, <2>6 DEF HeaderSize
    <3> QED BY <1>3, <3>1, AppendProperties
  <2>8. TypeOK'
    BY <1>1, <1>2, <1>8, <2>3, <2>7 DEF TypeOK, rtsp, server, faults
  <2>9. ASSUME Sound
        PROVE  /\ Follows(rest \o wire, 0)' /\ Len(received) + 1 \in 1 .. Len(sent)
               /\ x = Payload(Len(received) + 1, sent[Len(received) + 1])
    <3>1. PICK k \in Nat, z \in Nat, sizes \in Seq(Nat), s \in Seq(Tokens), t \in Seq(Tokens) :
            k = Len(received) /\ z = sent[k + 1] /\ sizes = sent /\ s = rest \o wire
            /\ t = rest' \o wire'
      <4>1. rest \o wire \in Seq(Tokens) /\ rest' \o wire' \in Seq(Tokens)
        BY <1>3, <2>3, ConcatProperties
      <4>2. sent \in Seq(Nat) /\ sent[Len(received) + 1] \in Nat
        BY <1>1, <2>9, ServerTypes, HeaderTellsSize
      <4> QED BY <1>3, <4>1, <4>2
    <3>2. /\ playing /\ k + 1 \in 1 .. Len(sizes) /\ size = z
          /\ PacketAt(s, 1, k + 1, z) /\ Framed(s, 4 + z, k + 1, sizes)
      BY <1>1, <1>5, <2>9, <3>1, HeaderTellsSize
    <3>3. Framed(t, 0, k + 1, sizes)
      <4>1. PICK n \in Nat : n = 4 + z
        OBVIOUS
      <4>2. PICK d \in 0 .. n : d = n
        OBVIOUS
      <4>3. Framed(t, n - d, k + 1, sizes)
        <5>1. PICK q \in Nat : q = k + 1
          OBVIOUS
        <5>2. Framed(s, n, q, sizes) /\ Without(t, s, d)
          BY <2>4, <3>1, <3>2, <4>1, <4>2, <5>1
        <5>3. Framed(t, n - d, q, sizes)
          BY <5>2, FramedWithout
        <5> QED BY <5>1, <5>3
      <4>4. n - d = 0
        BY <4>2
      <4> QED BY <4>3, <4>4
    <3>4. Follows(rest \o wire, 0)'
      BY <1>2, <2>7, <3>1, <3>2, <3>3 DEF Follows, server
    <3>5. \A j \in 1 .. z : x[j] = Payload(k + 1, z)[j]
      <4> SUFFICES ASSUME NEW j \in 1 .. z PROVE x[j] = Payload(k + 1, z)[j]
        OBVIOUS
      <4>1. 4 + j \in 1 .. 4 + z /\ 1 + (4 + j) - 1 = 4 + j
        OBVIOUS
      <4>2. x[j] = s[4 + j]
        BY <2>2, <2>5, <2>6, <3>1, <3>2, <4>1
      <4>3. s[4 + j] = Packet(k + 1, z)[4 + j]
        BY <3>2, <4>1 DEF PacketAt
      <4>4. Packet(k + 1, z)[4 + j] = Payload(k + 1, z)[j]
        <5>1. PICK p \in Nat : p = k + 1
          OBVIOUS
        <5>2. Packet(p, z)[4 + j] = Payload(p, z)[j]
          BY PacketTokens
        <5> QED BY <5>1, <5>2
      <4> QED BY <4>2, <4>3, <4>4
    <3>6. x = Payload(k + 1, z)
      <4>1. x = [j \in 1 .. z |-> x[j]]
        <5>1. Len(x) = z
          BY <2>6, <3>2
        <5> QED BY <5>1
      <4>2. Payload(k + 1, z) = [j \in 1 .. z |-> Payload(k + 1, z)[j]]
        BY DEF Payload
      <4> QED BY <3>5, <4>1, <4>2
    <3> QED BY <3>1, <3>2, <3>4, <3>6
  <2>10. MediaInv'
    BY <1>1, <1>2, <1>8, <2>9 DEF MediaInv, Sound, rtsp, faults
  <2>11. PacketsArriveWhole'
    <3> SUFFICES ASSUME Sound
                 PROVE  /\ Len(received') <= Len(sent)
                        /\ \A p \in 1 .. Len(received') : received'[p] = Payload(p, sent[p])
      BY <1>2 DEF PacketsArriveWhole, Sound, server, faults
    <3>1. Len(received') <= Len(sent)
      BY <1>3, <2>7, <2>9
    <3>2. ASSUME NEW p \in 1 .. Len(received')
          PROVE  received'[p] = Payload(p, sent[p])
      <4>1. p \in 1 .. Len(received) \/ p = Len(received) + 1
        BY <1>3, <2>7
      <4>2. p \in 1 .. Len(received) => received[p] = Payload(p, sent[p])
        BY <1>1 DEF PacketsArriveWhole, Sound
      <4> QED BY <2>7, <2>9, <4>1, <4>2
    <3> QED BY <3>1, <3>2
  <2> QED BY <1>1, <1>2, <1>8, <2>8, <2>10, <2>11, StillMedia DEF faults
<1>9. ASSUME pc' = "failed", UNCHANGED <<wire, rest, received>>
      PROVE  IInv'
  <2>1. TypeOK'
    BY <1>1, <1>2, <1>9 DEF TypeOK, rtsp, server, faults
  <2>2. MediaInv'
    BY <1>9 DEF MediaInv
  <2>3. PacketsArriveWhole'
    BY <1>1, <1>2, <1>9 DEF PacketsArriveWhole, server, faults
  <2> QED BY <1>1, <1>2, <1>9, <2>1, <2>2, <2>3, StillMedia DEF faults
<1> QED BY <1>5, <1>7, <1>8, <1>9

-----------------------------------------------------------------------------
(* The theorems *)

LEMMA StepInvariant == IInv /\ [Next]_vars => IInv'
<1> SUFFICES ASSUME IInv, [Next]_vars
             PROVE  IInv'
  OBVIOUS
<1>1. CASE SendRequest
  BY <1>1, SendRequestKeeps
<1>2. CASE ReadHeaders
  BY <1>2, ReadHeadersKeeps
<1>3. CASE Parse
  BY <1>3, ParseKeeps
<1>4. CASE ReadBody
  BY <1>4, ReadBodyKeeps
<1>5. CASE Decide
  BY <1>5, DecideKeeps
<1>6. CASE FindNextPacket
  BY <1>6, FindNextPacketKeeps
<1>7. CASE ReadHeader
  BY <1>7, ReadHeaderKeeps
<1>8. CASE ReadPayload
  BY <1>8, ReadPayloadKeeps
<1>9. CASE \/ \E size \in Payloads : SendPacket(size)
           \/ \E sign \in Signs : AnswerKeepAlive(sign)
           \/ Close
           \/ UNCHANGED vars
  BY <1>9, ServerStep
<1> QED
  BY <1>1, <1>2, <1>3, <1>4, <1>5, <1>6, <1>7, <1>8, <1>9 DEF Next, Client

LEMMA Invariance == Spec => []IInv
BY InitInvariant, StepInvariant, PTL DEF Spec

(***************************************************************************)
(* Every variable of the connection keeps its type: the buffer of a        *)
(* response never outgrows MaxResponseHeadersSize, and its body is never   *)
(* longer than its headers said (RtspTransportClient.cs:94-157).           *)
(***************************************************************************)
THEOREM TypeCorrect == Spec => []TypeOK
<1>1. IInv => TypeOK
  BY DEF IInv
<1> QED
  BY <1>1, Invariance, PTL

(***************************************************************************)
(* However TCP cuts the stream up, the client has the bodies the server    *)
(* sent, and TpktStream returns the payloads of the packets the server     *)
(* sent, whole and in order, from the first one behind the response to     *)
(* PLAY (RtspTransportClient.cs:94-134, TpktStream.cs:27-71, 95-125).      *)
(***************************************************************************)
THEOREM DataAlwaysWhole == Spec => []DataIsWhole
<1>1. IInv => DataIsWhole
  <2>1. IInv => PacketsArriveWhole
    BY DEF IInv, Flow
  <2>2. IInv => BodyIsWhole
    BY DEF IInv, Flow, DecideInv, BodyIsWhole
  <2> QED BY <2>1, <2>2 DEF DataIsWhole
<1> QED
  BY <1>1, Invariance, PTL

(* The response to PLAY is read by the byte (RtspClientInternal.cs:110).   *)
PlayIsReadByTheByte == Requests[Play].portion = 1

\* A response that is read by the byte has nothing behind it, so what was there had been
\* read by the repetition of a request.
LEMMA ParseSwallows ==
  ASSUME IInv, PlayIsReadByTheByte, Parse, swallowed'
  PROVE  request' = Play /\ authenticator'
<1>1. /\ TypeOK /\ pc = "parse" /\ ~swallowed /\ Len(buffer) >= Headers
      /\ (Portion = 1 => Len(buffer) = Headers) /\ (repeated => authenticator)
  BY DEF Parse, IInv, Flow, BufferInv, BeforeMedia, Bookkeeping
<1>2. PICK code \in Statuses : Responding(code)
  BY <1>1 DEF IInv, Flow, ReadInv, Unanswered
<1>3. UNCHANGED <<request, authenticator, playing>>
  BY DEF Parse, server
<1>4. request = Play
  <2>1. playing'
    BY ParseKeeps DEF IInv, Flow, Bookkeeping
  <2> QED BY <1>2, <1>3, <2>1 DEF Responding
<1>5. Len(buffer) > Headers
  <2>1. First(buffer, Statuses) = 1 /\ Min(EndIn(buffer, 1)) + 1 = Headers
    BY <1>1, <1>2, ParseFinds
  <2> QED BY <1>1, <2>1 DEF Parse
<1>6. repeated
  <2>1. Portion # 1
    <3>1. Headers \in Nat /\ ~(Headers > Headers)
      BY DEF Headers
    <3> QED BY <1>1, <1>5, <3>1
  <2> QED BY <1>4, <2>1 DEF Portion, PlayIsReadByTheByte
<1> QED BY <1>1, <1>3, <1>4, <1>6

(***************************************************************************)
(* Bytes are dropped with a response only after PLAY itself was            *)
(* challenged: its first response is read by the byte, and stops where its *)
(* headers end (RtspTransportClient.cs:67, 147-148).                       *)
(***************************************************************************)
THEOREM SwallowingNeedsAChallenge ==
  ASSUME PlayIsReadByTheByte
  PROVE  Spec => []SwallowedOnlyWhenRepeated
<1>1. Init => SwallowedOnlyWhenRepeated
  BY DEF Init, SwallowedOnlyWhenRepeated
<1>2. IInv /\ SwallowedOnlyWhenRepeated /\ [Next]_vars => SwallowedOnlyWhenRepeated'
  <2> SUFFICES ASSUME IInv, SwallowedOnlyWhenRepeated, [Next]_vars, swallowed'
               PROVE  request' = Play /\ authenticator'
    BY DEF SwallowedOnlyWhenRepeated
  <2>1. CASE Parse
    BY <2>1, ParseSwallows
  <2>2. CASE Decide
    <3>1. swallowed
      BY <2>2 DEF Decide, faults
    <3>2. request = Play /\ authenticator
      BY <3>1 DEF SwallowedOnlyWhenRepeated
    <3> QED BY <2>2, <3>2 DEF Decide
  <2>3. CASE \/ SendRequest \/ ReadHeaders \/ ReadBody \/ FindNextPacket \/ ReadHeader
             \/ ReadPayload \/ UNCHANGED vars
             \/ \E size \in Payloads : SendPacket(size)
             \/ \E sign \in Signs : AnswerKeepAlive(sign)
             \/ Close
    <3>1. UNCHANGED <<request, authenticator, swallowed>>
      BY <2>3 DEF SendRequest, ReadHeaders, ReadBody, FindNextPacket, ReadHeader, ReadPayload,
                  SendPacket, AnswerKeepAlive, Close, vars, rtsp, faults
    <3> QED BY <3>1 DEF SwallowedOnlyWhenRepeated
  <2> QED BY <2>1, <2>2, <2>3 DEF Next, Client
<1> QED
  BY <1>1, <1>2, Invariance, PTL DEF Spec
=============================================================================
