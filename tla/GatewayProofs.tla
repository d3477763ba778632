--------------------------- MODULE GatewayProofs ---------------------------
(***************************************************************************)
(* A device behind Gateway hears every ADU at most as often as it was      *)
(* asked for, and no more clients are served than there are permits: for   *)
(* every routing table, every limit, any clients with any requests, cut    *)
(* into the stream anywhere.                                               *)
(*                                                                         *)
(* HeardAtMostOnce alone is not inductive, for it counts what was written  *)
(* and not what is about to be.  BooksInv keeps the account: what a device *)
(* heard and what is still owed to it was asked.  StreamInv says why a     *)
(* request is taken once: what a client's stream still holds is exactly    *)
(* its requests not taken yet, wherever the octets were cut.               *)
(***************************************************************************)
EXTENDS Gateway, Counting, SequenceTheorems, TLAPS

\* A leaf that names no prover is left to Zenon.
USE Zenon

\* f is the recursion of octets_from, unrolled from the m-th ADU on.
Unrolls(adus, f, m) ==
    f = [k \in m..Len(adus) + 1 |-> IF k > Len(adus) THEN <<>> ELSE adus[k] \o f[k + 1]]

\* The recursion of octets_from has a solution.
LEMMA FromExists ==
    ASSUME Counting, NEW B, NEW s \in Seq(Seq(B))
    PROVE  \E f : Unrolls(s, f, 1)
<1> DEFINE n == Len(s) + 1
           T == {d \in 0..n - 1 : ~\E f : Unrolls(s, f, n - d)}
<1>0. n \in Nat /\ n >= 1 /\ n = Len(s) + 1 /\ Len(s) = n - 1
  BY SMT
<1> HIDE DEF n
<1>1. T \subseteq 0..n - 1 /\ \A d \in 0..n - 1 : d \in T <=> ~\E f : Unrolls(s, f, n - d)
  OBVIOUS
<1>2. \E f : Unrolls(s, f, n)
  <2> DEFINE g == [k \in n..n |-> <<>>]
  <2>1. \A k \in n..n : k > Len(s)
    BY SMT, <1>0
  <2>2. g = [k \in n..n |-> IF k > Len(s) THEN <<>> ELSE s[k] \o g[k + 1]]
    BY <2>1
  <2>3. Unrolls(s, g, n)
    BY <1>0, <2>2 DEF Unrolls
  <2> QED BY <2>3
<1>3. ASSUME NEW m \in 1..n - 1, NEW f, Unrolls(s, f, m + 1) PROVE \E g : Unrolls(s, g, m)
  <2> DEFINE g == [k \in m..n |-> IF k > Len(s) THEN <<>> ELSE s[k] \o f[k + 1]]
  <2>1. \A k \in m + 1..n : f[k] = IF k > Len(s) THEN <<>> ELSE s[k] \o f[k + 1]
    BY <1>0, <1>3 DEF Unrolls
  <2>2. \A k \in m + 1..n : g[k] = f[k]
    BY SMT, <1>0, <2>1
  <2>3. \A k \in m..n : ~(k > Len(s)) => k + 1 \in m + 1..n
    BY SMT, <1>0
  <2>4. Unrolls(s, g, m)
    BY <1>0, <2>2, <2>3 DEF Unrolls
  <2> QED BY <2>4
<1> HIDE DEF T
<1>4. ASSUME NEW d \in T, \A e \in T : d <= e PROVE FALSE
  <2>1. d \in 0..n - 1
    BY <1>1
  <2>2. d # 0
    BY SMT, <1>0, <1>1, <1>2
  <2>3. d - 1 \in 0..n - 1 /\ ~(d <= d - 1) /\ n - d \in 1..n - 1 /\ n - (d - 1) = (n - d) + 1
    BY SMT, <1>0, <2>1, <2>2
  <2>4. PICK f : Unrolls(s, f, (n - d) + 1)
    BY <1>1, <1>4, <2>3
  <2> QED BY <1>1, <1>3, <2>1, <2>3, <2>4
<1>5. T = {}
  <2>1. T \subseteq Nat
    BY SMT, <1>0, <1>1
  <2> QED BY <1>4, <2>1 DEF Counting, LeastNatural
<1>6. n - 1 \in 0..n - 1 /\ n - (n - 1) = 1
  BY SMT, <1>0
<1> QED BY <1>1, <1>5, <1>6

\* The octets from an ADU on: its own, then those from the next one on.
LEMMA OctetsFrom ==
    ASSUME Counting, NEW B, NEW s \in Seq(Seq(B))
    PROVE  /\ octets_from(s)[Len(s) + 1] = <<>>
           /\ \A k \in 1..Len(s) : octets_from(s)[k] = s[k] \o octets_from(s)[k + 1]
<1>1. PICK f : Unrolls(s, f, 1)
  BY FromExists
<1>2. Unrolls(s, octets_from(s), 1)
  BY <1>1 DEF octets_from, Unrolls
<1>3. /\ Len(s) \in Nat /\ Len(s) + 1 \in 1..Len(s) + 1 /\ Len(s) + 1 > Len(s)
      /\ \A k \in 1..Len(s) : k \in 1..Len(s) + 1 /\ ~(k > Len(s))
  BY SMT
<1> QED BY <1>2, <1>3 DEF Unrolls

\* They are octets.
LEMMA OctetsTyped ==
    ASSUME Counting, NEW B, NEW s \in Seq(Seq(B))
    PROVE  \A k \in 1..Len(s) + 1 : octets_from(s)[k] \in Seq(B)
<1> DEFINE n == Len(s) + 1
           T == {d \in 0..n - 1 : octets_from(s)[n - d] \notin Seq(B)}
<1>0. n \in Nat /\ n >= 1 /\ n = Len(s) + 1 /\ Len(s) = n - 1 /\ \A k \in 1..n - 1 : s[k] \in Seq(B)
  BY SMT
<1> HIDE DEF n
<1>1. T \subseteq 0..n - 1 /\ \A d \in 0..n - 1 : d \in T <=> octets_from(s)[n - d] \notin Seq(B)
  OBVIOUS
<1>2. /\ octets_from(s)[n] = <<>>
      /\ \A k \in 1..n - 1 : octets_from(s)[k] = s[k] \o octets_from(s)[k + 1]
  BY <1>0, OctetsFrom
<1> HIDE DEF T
<1>3. ASSUME NEW d \in T, \A e \in T : d <= e PROVE FALSE
  <2>1. d \in 0..n - 1
    BY <1>1
  <2>2. d # 0
    <3>1. n - 0 = n /\ <<>> \in Seq(B)
      BY SMT, <1>0
    <3> QED BY <1>1, <1>2, <2>1, <3>1
  <2>3. d - 1 \in 0..n - 1 /\ ~(d <= d - 1) /\ n - d \in 1..n - 1 /\ n - (d - 1) = (n - d) + 1
    BY SMT, <1>0, <2>1, <2>2
  <2>4. octets_from(s)[(n - d) + 1] \in Seq(B) /\ s[n - d] \in Seq(B)
    BY <1>0, <1>1, <1>3, <2>3
  <2>5. s[n - d] \o octets_from(s)[(n - d) + 1] \in Seq(B)
    BY SMT, <2>4
  <2> QED BY <1>1, <1>2, <2>1, <2>3, <2>5
<1>4. T = {}
  <2>1. T \subseteq Nat
    BY SMT, <1>0, <1>1
  <2> QED BY <1>3, <2>1 DEF Counting, LeastNatural
<1>5. ASSUME NEW k \in 1..n PROVE octets_from(s)[k] \in Seq(B)
  <2>1. n - k \in 0..n - 1 /\ n - (n - k) = k
    BY SMT, <1>0
  <2> QED BY <1>1, <1>4, <2>1
<1> QED BY <1>5 DEF n
-----------------------------------------------------------------------------
\* Where the octets of two sequences are in the two together.
Joins(B, s, t, m, n) ==
    /\ s \o t \in Seq(B) /\ Len(s \o t) = m + n
    /\ \A i \in 1..m : (s \o t)[i] = s[i]
    /\ \A i \in 1..n : (s \o t)[m + i] = t[i]

\* Where the octets of s and of t are in s \o t.
LEMMA Joined ==
    ASSUME NEW B, NEW s \in Seq(B), NEW t \in Seq(B)
    PROVE  Joins(B, s, t, Len(s), Len(t))
BY SMT DEF Joins

\* An octet is a natural below 256.
LEMMA ByteIs ==
    ASSUME NEW x
    PROVE  x \in Byte <=> x \in Nat /\ x < 256
BY SMT DEF Byte

\* A word has two octets.
LEMMA WordIs ==
    ASSUME NEW x
    PROVE  x \in Word <=> x \in Nat /\ x < 256 * 256
<1>1. 2 ^ 16 - 1 = 256 * 256 - 1
  BY SMT
<1> QED BY SMT, <1>1 DEF Word

\* The longest PDU, as a number.
LEMMA MaxPduIs == MAX_PDU_SIZE \in Nat /\ MAX_PDU_SIZE = 253
BY SMT DEF MAX_PDU_SIZE

\* The length that the header of a request declares is a word.
LEMMA PduLength ==
    ASSUME NEW n \in 1..MAX_PDU_SIZE
    PROVE  n \in Nat /\ n >= 1 /\ n <= MAX_PDU_SIZE /\ n + 1 \in Word
<1>1. n \in Nat /\ n >= 1 /\ n <= MAX_PDU_SIZE
  BY SMT, MaxPduIs
<1>2. n + 1 \in Nat /\ n + 1 < 256 * 256
  BY SMT, <1>1, MaxPduIs
<1> QED BY <1>1, <1>2, WordIs

\* A word and its octets in network order.
LEMMA WordOctets ==
    ASSUME NEW w \in Word
    PROVE  \E y \in Byte, z \in Byte :
             /\ to_be(w) = <<y, z>>
             /\ \A s, i : s[i] = y /\ s[i + 1] = z => be16(s, i) = w
<1>1. w \in Nat /\ w < 256 * 256
  BY WordIs
<1>2. PICK y \in Nat, z \in Nat : y = w \div 256 /\ z = w % 256
  BY SMT, <1>1
<1>3. w = y * 256 + z /\ z < 256
  BY SMT, <1>1, <1>2
<1>4. y < 256
  BY SMT, <1>1, <1>3
<1>5. 256 * y + z = w
  BY SMT, <1>3
<1>6. y \in Byte /\ z \in Byte
  BY <1>3, <1>4, ByteIs
<1>7. to_be(w) = <<y, z>>
  BY <1>2 DEF to_be
<1>8. \A s, i : s[i] = y /\ s[i + 1] = z => be16(s, i) = w
  BY <1>5 DEF be16
<1> QED BY <1>6, <1>7, <1>8

\* The header of a request.
IsHeader(h, a, b, c, d, u) ==
    /\ h \in Seq(Byte) /\ Len(h) = 7
    /\ h[1] = a /\ h[2] = b /\ h[3] = 0 /\ h[4] = 0 /\ h[5] = c /\ h[6] = d /\ h[7] = u

\* The parts of an MBAP header put together are its seven octets.
LEMMA HeaderIs ==
    ASSUME NEW a \in Byte, NEW b \in Byte, NEW c \in Byte, NEW d \in Byte, NEW u \in Byte
    PROVE  IsHeader(<<a, b>> \o <<0, 0>> \o <<c, d>> \o <<u>>, a, b, c, d, u)
<1>h. PICK h : h = <<a, b>> \o <<0, 0>> \o <<c, d>> \o <<u>>
  OBVIOUS
<1>0. 0 \in Byte
  BY SMT, ByteIs
<1>1. PICK s : s = <<a, b>> \o <<0, 0>>
  OBVIOUS
<1>2. s \in Seq(Byte) /\ Len(s) = 4 /\ s[1] = a /\ s[2] = b /\ s[3] = 0 /\ s[4] = 0
  BY SMT, <1>0, <1>1
<1>3. PICK e : e = <<c, d>>
  OBVIOUS
<1>4. e \in Seq(Byte) /\ Len(e) = 2 /\ e[1] = c /\ e[2] = d
  BY SMT, <1>3
<1>5. Joins(Byte, s, e, 4, 2)
  <2>1. Joins(Byte, s, e, Len(s), Len(e))
    BY <1>2, <1>4, Joined
  <2> QED BY <1>2, <1>4, <2>1
<1>6. PICK t : t = s \o e
  OBVIOUS
<1>7. t \in Seq(Byte) /\ Len(t) = 6
  BY SMT, <1>5, <1>6 DEF Joins
<1>8. t[1] = s[1] /\ t[2] = s[2] /\ t[3] = s[3] /\ t[4] = s[4]
  <2>1. \A i \in 1..4 : t[i] = s[i]
    BY <1>5, <1>6 DEF Joins
  <2> QED BY SMT, <2>1
<1>9. t[5] = e[1] /\ t[6] = e[2]
  <2>1. \A i \in 1..2 : t[4 + i] = e[i]
    BY <1>5, <1>6 DEF Joins
  <2>2. t[4 + 1] = e[1] /\ t[4 + 2] = e[2]
    BY SMT, <2>1
  <2> QED BY SMT, <2>2
<1>10. h = t \o <<u>>
  BY <1>h, <1>1, <1>3, <1>6
<1>11. <<u>> \in Seq(Byte) /\ Len(<<u>>) = 1
  BY SMT
<1>12. Joins(Byte, t, <<u>>, 6, 1)
  <2>1. Joins(Byte, t, <<u>>, Len(t), Len(<<u>>))
    BY <1>7, <1>11, Joined
  <2> QED BY <1>7, <1>11, <2>1
<1>13. h \in Seq(Byte) /\ Len(h) = 7 /\ \A i \in 1..6 : h[i] = t[i]
  BY SMT, <1>10, <1>12 DEF Joins
<1>14. h[7] = u
  <2>1. h[6 + 1] = u
    BY SMT, <1>10, <1>12 DEF Joins
  <2> QED BY SMT, <2>1
<1>15. \A i \in {1, 2, 3, 4, 5, 6} : h[i] = t[i]
  BY SMT, <1>13
<1>16. IsHeader(h, a, b, c, d, u)
  BY <1>2, <1>4, <1>8, <1>9, <1>13, <1>14, <1>15 DEF IsHeader
<1> QED BY <1>h, <1>16

\* The octets of an encoded request.
IsEncoded(e, txn, unit, pdu) ==
    /\ e \in Seq(Byte) /\ Len(e) = 7 + Len(pdu)
    /\ be16(e, 1) = txn /\ be16(e, 3) = 0 /\ be16(e, 5) = Len(pdu) + 1 /\ e[7] = unit
    /\ \A i \in 1..Len(pdu) : e[7 + i] = pdu[i]

\* What MbapCodec::encode writes has every field in its place.
LEMMA EncodedOctets ==
    ASSUME NEW w \in Word, NEW u \in Byte, NEW p \in Seq(Byte), Len(p) \in 1..MAX_PDU_SIZE
    PROVE  IsEncoded(to_be(w) \o <<0, 0>> \o to_be(Len(p) + 1) \o <<u>> \o p, w, u, p)
<1>1. PICK n : n = Len(p) + 1
  OBVIOUS
<1>2. n \in Word
  BY <1>1, PduLength
<1>3. PICK a \in Byte, b \in Byte :
         /\ to_be(w) = <<a, b>>
         /\ \A s, i : s[i] = a /\ s[i + 1] = b => be16(s, i) = w
  BY WordOctets
<1>4. PICK c \in Byte, d \in Byte :
         /\ to_be(n) = <<c, d>>
         /\ \A s, i : s[i] = c /\ s[i + 1] = d => be16(s, i) = n
  BY <1>2, WordOctets
<1>5. PICK h : h = <<a, b>> \o <<0, 0>> \o <<c, d>> \o <<u>>
  OBVIOUS
<1>6. PICK e : e = h \o p
  OBVIOUS
<1>7. /\ h \in Seq(Byte) /\ Len(h) = 7
      /\ h[1] = a /\ h[2] = b /\ h[3] = 0 /\ h[4] = 0 /\ h[5] = c /\ h[6] = d /\ h[7] = u
  <2>1. IsHeader(h, a, b, c, d, u)
    BY <1>5, HeaderIs
  <2> QED BY <2>1 DEF IsHeader
<1>8. Joins(Byte, h, p, 7, Len(p))
  <2>1. Joins(Byte, h, p, Len(h), Len(p))
    BY <1>7, Joined
  <2> QED BY <1>7, <2>1
<1>9. /\ e \in Seq(Byte) /\ Len(e) = 7 + Len(p)
      /\ \A i \in 1..Len(p) : e[7 + i] = p[i]
      /\ \A i \in 1..7 : e[i] = h[i]
  BY <1>6, <1>8 DEF Joins
<1>10. /\ e[1] = h[1] /\ e[1 + 1] = h[2] /\ e[3] = h[3] /\ e[3 + 1] = h[4]
       /\ e[5] = h[5] /\ e[5 + 1] = h[6] /\ e[7] = h[7]
  <2>1. \A i \in {1, 2, 3, 4, 5, 6, 7} : e[i] = h[i]
    BY SMT, <1>9
  <2>2. 1 + 1 = 2 /\ 3 + 1 = 4 /\ 5 + 1 = 6
    BY SMT
  <2> QED BY <2>1, <2>2
<1>11. be16(e, 1) = w /\ be16(e, 5) = n
  BY <1>3, <1>4, <1>7, <1>10
<1>12. be16(e, 3) = 0
  <2>1. be16(e, 3) = 256 * e[3] + e[3 + 1]
    BY DEF be16
  <2>2. e[3] = 0 /\ e[3 + 1] = 0 /\ 256 * 0 + 0 = 0
    BY SMT, <1>7, <1>10
  <2> QED BY SMT, <2>1, <2>2
<1>13. IsEncoded(e, w, u, p)
  BY <1>1, <1>7, <1>9, <1>10, <1>11, <1>12 DEF IsEncoded
<1>14. e = to_be(w) \o <<0, 0>> \o to_be(Len(p) + 1) \o <<u>> \o p
  BY <1>1, <1>3, <1>4, <1>5, <1>6
<1> QED BY <1>13, <1>14

\* The octets of a request.
Encoded(q) == MbapCodec_encode(q).val

\* A request that fits a PDU is encoded without an error, field by field.
LEMMA EncodedIs ==
    ASSUME NEW q \in Request
    PROVE  IsEncoded(Encoded(q), q.txn, q.unit, q.pdu)
<1>1. q.txn \in Word /\ q.unit \in Byte /\ q.pdu \in Seq(Byte) /\ Len(q.pdu) \in 1..MAX_PDU_SIZE
  BY DEF Request
<1>2. Encoded(q) = to_be(q.txn) \o <<0, 0>> \o to_be(Len(q.pdu) + 1) \o <<q.unit>> \o q.pdu
  BY <1>1 DEF Encoded, MbapCodec_encode, Checked, Ok
<1> QED BY <1>1, <1>2, EncodedOctets

\* A part of a sequence, and what follows an octet.
IsPart(B, t, s, m, n) ==
    /\ t \in Seq(B) /\ Len(t) = n - m + 1
    /\ \A i \in 1..n - m + 1 : t[i] = s[m + i - 1]

\* SubSeq takes the octets from m to n.
LEMMA Part ==
    ASSUME NEW B, NEW s \in Seq(B), NEW m \in Nat, NEW n \in Nat, 1 <= m, n <= Len(s), m <= n + 1
    PROVE  IsPart(B, SubSeq(s, m, n), s, m, n)
<1>1. SubSeq(s, m, n) \in Seq(B) /\ Len(SubSeq(s, m, n)) = n - m + 1
  BY SMT
<1>2. \A i \in 1..n - m + 1 : SubSeq(s, m, n)[i] = s[m + i - 1]
  BY SMT
<1> QED BY <1>1, <1>2 DEF IsPart

\* Two ways of cutting the same octets in two.
Overlaps(b, a, e, r, m, n, k, l) ==
    /\ m + n = k + l
    /\ \A i \in 1..m : i <= k => b[i] = e[i]
    /\ \A i \in 1..l : k + i <= m => r[i] = b[k + i]
    /\ \A i \in 1..l, j \in 1..n : k + i = m + j => r[i] = a[j]

\* Octets counted across a cut.
LEMMA Balance ==
    ASSUME NEW m \in Nat, NEW n \in Nat, NEW k \in Nat, NEW l \in Nat, m + n = k + l
    PROVE  (m - k) + n = l
BY SMT

\* Where the two ways of cutting overlap they agree octet by octet.
LEMMA Overlap ==
    ASSUME NEW B, NEW b \in Seq(B), NEW a \in Seq(B), NEW e \in Seq(B), NEW r \in Seq(B), b \o a = e \o r
    PROVE  Overlaps(b, a, e, r, Len(b), Len(a), Len(e), Len(r))
<1>1. Joins(B, b, a, Len(b), Len(a)) /\ Joins(B, e, r, Len(e), Len(r))
  BY Joined
<1>2. Len(b) \in Nat /\ Len(a) \in Nat /\ Len(e) \in Nat /\ Len(r) \in Nat
  BY SMT
<1>3. PICK s : s = b \o a /\ s = e \o r
  OBVIOUS
<1>4. /\ Len(s) = Len(b) + Len(a) /\ Len(s) = Len(e) + Len(r)
      /\ \A i \in 1..Len(b) : s[i] = b[i]
      /\ \A i \in 1..Len(a) : s[Len(b) + i] = a[i]
      /\ \A i \in 1..Len(e) : s[i] = e[i]
      /\ \A i \in 1..Len(r) : s[Len(e) + i] = r[i]
  BY <1>1, <1>3 DEF Joins
<1>5. ASSUME NEW i \in 1..Len(b), i <= Len(e) PROVE b[i] = e[i]
  <2>1. i \in 1..Len(e)
    BY SMT, <1>2, <1>5
  <2> QED BY <1>4, <2>1
<1>6. ASSUME NEW i \in 1..Len(r), Len(e) + i <= Len(b) PROVE r[i] = b[Len(e) + i]
  <2>1. Len(e) + i \in 1..Len(b)
    BY SMT, <1>2, <1>6
  <2> QED BY <1>4, <2>1
<1>7. ASSUME NEW i \in 1..Len(r), NEW j \in 1..Len(a), Len(e) + i = Len(b) + j PROVE r[i] = a[j]
  BY <1>4, <1>7
<1> QED BY <1>4, <1>5, <1>6, <1>7 DEF Overlaps

\* What follows the first of the two parts.
Splits(B, b, a, e, r) ==
    b \in Seq(B) /\ a \in Seq(B) /\ e \in Seq(B) /\ r \in Seq(B) /\ b \o a = e \o r

\* A buffer that holds the first part leaves the second, with what is still to come.
LEMMA Remains ==
    ASSUME NEW B, NEW b, NEW a, NEW e, NEW r, Splits(B, b, a, e, r), Len(e) <= Len(b)
    PROVE  From(b, Len(e) + 1) \in Seq(B) /\ From(b, Len(e) + 1) \o a = r
<1>0. b \in Seq(B) /\ a \in Seq(B) /\ e \in Seq(B) /\ r \in Seq(B) /\ b \o a = e \o r
  BY DEF Splits
<1>1. PICK k \in Nat, m \in Nat, n \in Nat, l \in Nat :
         k = Len(e) /\ m = Len(b) /\ n = Len(a) /\ l = Len(r)
  BY SMT, <1>0
<1>2. /\ m + n = k + l /\ k <= m
      /\ \A i \in 1..l : k + i <= m => r[i] = b[k + i]
      /\ \A i \in 1..l, j \in 1..n : k + i = m + j => r[i] = a[j]
  <2>1. Overlaps(b, a, e, r, Len(b), Len(a), Len(e), Len(r))
    BY <1>0, Overlap
  <2>2. Overlaps(b, a, e, r, m, n, k, l) /\ k <= m
    BY <1>1, <2>1
  <2> QED BY <2>2 DEF Overlaps
<1>3. PICK t : t = SubSeq(b, k + 1, m)
  OBVIOUS
<1>4. k + 1 \in Nat /\ 1 <= k + 1 /\ m <= Len(b) /\ k + 1 <= m + 1 /\ m - (k + 1) + 1 = m - k
  BY SMT, <1>1, <1>2
<1>5. t \in Seq(B) /\ Len(t) = m - k /\ \A i \in 1..m - k : t[i] = b[(k + 1) + i - 1]
  <2>1. IsPart(B, SubSeq(b, k + 1, m), b, k + 1, m)
    BY <1>0, <1>4, Part
  <2>2. IsPart(B, t, b, k + 1, m)
    BY <1>3, <2>1
  <2> QED BY <1>4, <2>2 DEF IsPart
<1>6. Joins(B, t, a, m - k, n)
  <2>1. Joins(B, t, a, Len(t), Len(a))
    BY <1>0, <1>5, Joined
  <2> QED BY <1>1, <1>5, <2>1
<1>7. /\ t \o a \in Seq(B) /\ Len(t \o a) = l
      /\ \A i \in 1..m - k : (t \o a)[i] = t[i]
      /\ \A i \in 1..n : (t \o a)[(m - k) + i] = a[i]
  <2>1. (m - k) + n = l
    BY SMT, <1>2, Balance
  <2> QED BY <1>6, <2>1 DEF Joins
<1>8. ASSUME NEW i \in 1..l PROVE (t \o a)[i] = r[i]
  <2>1. CASE i <= m - k
    <3>1. i \in 1..m - k /\ k + i <= m /\ (k + 1) + i - 1 = k + i
      BY SMT, <1>2, <2>1
    <3>2. r[i] = b[k + i] /\ t[i] = b[k + i]
      BY <1>2, <1>5, <3>1
    <3> QED BY <1>7, <3>1, <3>2
  <2>2. CASE ~(i <= m - k)
    <3>1. PICK j \in 1..n : j = i - (m - k)
      BY SMT, <1>2, <2>2
    <3>2. (m - k) + j = i /\ k + i = m + j
      BY SMT, <1>2, <3>1
    <3> QED BY <1>2, <1>7, <3>2
  <2> QED BY <2>1, <2>2
<1>9. t \o a = r
  BY <1>0, <1>1, <1>7, <1>8, SeqEqual
<1> QED BY <1>1, <1>3, <1>5, <1>9 DEF From

\* A request e, then r, of which b has been read and a has not.
Begins(e, w, u, p, r, b, a) ==
    /\ p \in Seq(Byte) /\ b \in Seq(Byte) /\ a \in Seq(Byte) /\ r \in Seq(Byte)
    /\ IsEncoded(e, w, u, p) /\ b \o a = e \o r

\* What the decoder sees of the header of a request is that header.
LEMMA SeesHeader ==
    ASSUME NEW w, NEW u, NEW p, NEW e, NEW b, NEW a, NEW r, Begins(e, w, u, p, r, b, a), Len(b) >= 7
    PROVE  be16(b, 1) = w /\ be16(b, 3) = 0 /\ be16(b, 5) = Len(p) + 1 /\ b[7] = u
<1>1. e \in Seq(Byte) /\ Len(e) = 7 + Len(p) /\ Len(p) \in Nat /\ Len(b) \in Nat
  BY SMT DEF IsEncoded, Begins
<1>2. Overlaps(b, a, e, r, Len(b), Len(a), Len(e), Len(r))
  BY <1>1, Overlap DEF Begins
<1>3. \A i \in 1..7 : b[i] = e[i]
  <2>1. \A i \in 1..7 : i \in 1..Len(b) /\ i <= Len(e)
    BY SMT, <1>1
  <2> QED BY <1>2, <2>1 DEF Overlaps
<1>4. /\ b[1] = e[1] /\ b[1 + 1] = e[1 + 1] /\ b[3] = e[3] /\ b[3 + 1] = e[3 + 1]
      /\ b[5] = e[5] /\ b[5 + 1] = e[5 + 1] /\ b[7] = e[7]
  BY SMT, <1>3
<1>5. be16(b, 1) = be16(e, 1) /\ be16(b, 3) = be16(e, 3) /\ be16(b, 5) = be16(e, 5)
  BY SMT, <1>4 DEF be16
<1> QED BY <1>4, <1>5 DEF IsEncoded, Begins

\* The PDU that it takes is that of the request.
LEMMA SeesPdu ==
    ASSUME NEW w, NEW u, NEW p, NEW e, NEW b, NEW a, NEW r, Begins(e, w, u, p, r, b, a),
           Len(b) >= 7 + Len(p)
    PROVE  SubSeq(b, 8, 7 + Len(p)) = p
<1>0. p \in Seq(Byte) /\ b \in Seq(Byte)
  BY DEF Begins
<1>1. PICK n \in Nat : n = Len(p)
  BY SMT, <1>0
<1>2. e \in Seq(Byte) /\ Len(e) = 7 + n /\ Len(b) \in Nat /\ \A i \in 1..n : e[7 + i] = p[i]
  <2>1. Len(b) \in Nat
    BY SMT, <1>0
  <2> QED BY <1>1, <2>1 DEF IsEncoded, Begins
<1>3. Overlaps(b, a, e, r, Len(b), Len(a), Len(e), Len(r))
  BY <1>2, Overlap DEF Begins
<1>4. ASSUME NEW i \in 1..n PROVE b[7 + i] = p[i]
  <2>1. 7 + i \in 1..Len(b) /\ 7 + i <= Len(e)
    BY SMT, <1>1, <1>2
  <2> QED BY <1>2, <1>3, <2>1 DEF Overlaps
<1>5. PICK t : t = SubSeq(b, 8, 7 + n)
  OBVIOUS
<1>6. t \in Seq(Byte) /\ Len(t) = n /\ \A i \in 1..n : t[i] = b[7 + i]
  <2>1. 8 \in Nat /\ 7 + n \in Nat /\ 1 <= 8 /\ 7 + n <= Len(b) /\ 8 <= (7 + n) + 1
    BY SMT, <1>1
  <2>2. IsPart(Byte, t, b, 8, 7 + n)
    BY <1>0, <1>5, <2>1, Part
  <2>3. (7 + n) - 8 + 1 = n /\ \A i \in 1..n : 8 + i - 1 = 7 + i
    BY SMT
  <2> QED BY <2>2, <2>3 DEF IsPart
<1>7. t = p
  BY <1>0, <1>1, <1>4, <1>6, SeqEqual
<1> QED BY <1>1, <1>5, <1>7

\* The decoder returns nothing from less than a header.
LEMMA LongEnough ==
    ASSUME NEW b \in Seq(Byte), MbapCodec_decode(b).status = "frame"
    PROVE  Len(b) \in Nat /\ Len(b) >= 7
BY SMT DEF MbapCodec_decode, More, Broken, MBAP_HEADER_LEN

\* A frame that is decoded when a request begins the stream is that request,
\* and the rest of the stream is what follows it.
Comes(q, r, b, a) ==
    /\ q \in Request /\ b \in Seq(Byte) /\ a \in Seq(Byte) /\ r \in Seq(Byte)
    /\ b \o a = Encoded(q) \o r

\* However the stream was cut, a frame that MbapCodec::decode returns is the next
\* request, whole, and what it leaves begins with the one after.
LEMMA Decodes ==
    ASSUME NEW q, NEW b, NEW a, NEW r, Comes(q, r, b, a), MbapCodec_decode(b).status = "frame"
    PROVE  /\ MbapCodec_decode(b).frame = q
           /\ MbapCodec_decode(b).rest \in Seq(Byte)
           /\ MbapCodec_decode(b).rest \o a = r
<1>0. /\ q \in Request /\ b \in Seq(Byte) /\ a \in Seq(Byte) /\ r \in Seq(Byte)
      /\ b \o a = Encoded(q) \o r
  BY DEF Comes
<1>1. PICK e, p, n : e = Encoded(q) /\ p = q.pdu /\ n = Len(p)
  OBVIOUS
<1>2. p \in Seq(Byte) /\ n \in Nat /\ q = Frame(q.txn, q.unit, p)
  BY SMT, <1>0, <1>1 DEF Request, Frame
<1>3. Begins(e, q.txn, q.unit, p, r, b, a)
  BY <1>0, <1>1, <1>2, EncodedIs DEF Begins
<1>4. e \in Seq(Byte) /\ Len(e) = 7 + n /\ b \o a = e \o r
  BY <1>1, <1>3 DEF IsEncoded, Begins
<1>5. Len(b) >= 7 /\ Len(b) \in Nat
  BY <1>0, LongEnough
<1>6. be16(b, 1) = q.txn /\ be16(b, 3) = 0 /\ be16(b, 5) = n + 1 /\ b[7] = q.unit
  BY SMT, <1>1, <1>3, <1>5, SeesHeader
<1>7. PICK l, t : l = be16(b, 5) /\ t = MBAP_HEADER_LEN - 1 + l
  OBVIOUS
<1>8. t = 7 + n
  BY SMT, <1>2, <1>6, <1>7 DEF MBAP_HEADER_LEN
<1>9. /\ ~(Len(b) < t)
      /\ MbapCodec_decode(b) = Decoded(Frame(be16(b, 1), b[7], SubSeq(b, 8, t)), From(b, t + 1))
  <2>1. MBAP_HEADER_LEN + 1 = 8
    BY SMT DEF MBAP_HEADER_LEN
  <2> QED BY <1>7, <2>1 DEF MbapCodec_decode, More, Broken
<1>10. SubSeq(b, 8, 7 + n) = p
  <2>1. Len(b) >= 7 + Len(p)
    BY SMT, <1>1, <1>2, <1>5, <1>8, <1>9
  <2> QED BY <1>1, <1>3, <2>1, SeesPdu
<1>11. From(b, Len(e) + 1) \in Seq(Byte) /\ From(b, Len(e) + 1) \o a = r
  <2>1. Len(e) <= Len(b)
    BY SMT, <1>2, <1>4, <1>5, <1>8, <1>9
  <2>2. Splits(Byte, b, a, e, r)
    BY <1>0, <1>4 DEF Splits
  <2> QED BY <2>1, <2>2, Remains
<1>12. MbapCodec_decode(b) = Decoded(q, From(b, Len(e) + 1))
  BY <1>2, <1>4, <1>6, <1>8, <1>9, <1>10
<1> QED BY SMT, <1>11, <1>12 DEF Decoded
-----------------------------------------------------------------------------
\* The two parts of a sequence made of two.
LEMMA Halves ==
    ASSUME NEW B, NEW s \in Seq(B), NEW t \in Seq(B)
    PROVE  SubSeq(s \o t, 1, Len(s)) = s /\ From(s \o t, Len(s) + 1) = t
<1>1. PICK x, m, n : x = s \o t /\ m = Len(s) /\ n = Len(t)
  OBVIOUS
<1>2. Joins(B, s, t, m, n) /\ m \in Nat /\ n \in Nat
  BY SMT, <1>1, Joined
<1>3. x \in Seq(B) /\ Len(x) = m + n /\ \A i \in 1..m : x[i] = s[i]
  BY <1>1, <1>2 DEF Joins
<1>4. SubSeq(x, 1, m) = s
  <2>1. PICK y : y = SubSeq(x, 1, m)
    OBVIOUS
  <2>2. 1 \in Nat /\ 1 <= 1 /\ m <= Len(x) /\ 1 <= m + 1
    BY SMT, <1>2, <1>3
  <2>3. IsPart(B, y, x, 1, m)
    BY <1>2, <1>3, <2>1, <2>2, Part
  <2>4. m - 1 + 1 = m /\ \A i \in 1..m : 1 + i - 1 = i
    BY SMT, <1>2
  <2>5. y \in Seq(B) /\ Len(y) = m /\ \A i \in 1..m : y[i] = s[i]
    BY <1>3, <2>3, <2>4 DEF IsPart
  <2> QED BY <1>1, <2>1, <2>5, SeqEqual
<1>5. From(x, m + 1) = t
  <2>1. x \o <<>> = s \o t /\ <<>> \in Seq(B)
    BY SMT, <1>1, <1>3
  <2>2. Splits(B, x, <<>>, s, t)
    BY <1>3, <2>1 DEF Splits
  <2>3. Len(s) <= Len(x)
    BY SMT, <1>1, <1>2, <1>3
  <2>4. From(x, m + 1) \in Seq(B) /\ From(x, m + 1) \o <<>> = t
    BY <1>1, <2>2, <2>3, Remains
  <2> QED BY SMT, <2>4
<1> QED BY <1>1, <1>4, <1>5

\* What a device hears of a request, and that it is whole.
Sent(q) == encode_frame(mbap_to_rtu(q)).val

\* The ADU written for a request is its unit and PDU followed by their CRC.
LEMMA SentIs ==
    ASSUME NEW q \in Request
    PROVE  /\ <<q.unit>> \o q.pdu = SubSeq(Sent(q), 1, Len(Sent(q)) - 2)
           /\ verify_crc(Sent(q))
<1>1. PICK u, p : u = q.unit /\ p = q.pdu
  OBVIOUS
<1>2. u \in Byte /\ p \in Seq(Byte) /\ Len(p) \in 1..MAX_PDU_SIZE
  BY <1>1 DEF Request
<1>3. PICK body : body = <<u>> \o p
  OBVIOUS
<1>4. PICK lo, hi : to_le(crc16(body)) = <<lo, hi>>
  BY SMT DEF to_le
<1>5. Sent(q) = body \o <<lo, hi>>
  BY <1>1, <1>2, <1>3, <1>4 DEF Sent, mbap_to_rtu, Frame, encode_frame, Checked, Ok
<1>6. PICK B : B = Byte \union {lo, hi}
  OBVIOUS
<1>7. <<u>> \in Seq(B) /\ p \in Seq(B) /\ <<lo, hi>> \in Seq(B) /\ Len(<<lo, hi>>) = 2
  BY SMT, <1>2, <1>6
<1>8. Len(p) \in Nat /\ Len(p) >= 1
  BY <1>2, PduLength
<1>9. PICK n \in Nat : n = Len(body) /\ n >= 2 /\ body \in Seq(B)
  <2>1. Joins(B, <<u>>, p, Len(<<u>>), Len(p))
    BY <1>7, Joined
  <2>2. body \in Seq(B) /\ Len(body) = Len(<<u>>) + Len(p) /\ Len(<<u>>) = 1
    BY <1>3, <2>1 DEF Joins
  <2> QED BY SMT, <1>8, <2>2
<1>10. PICK x : x = body \o <<lo, hi>>
  OBVIOUS
<1>11. Len(x) = n + 2
  <2>1. Joins(B, body, <<lo, hi>>, Len(body), Len(<<lo, hi>>))
    BY <1>7, <1>9, Joined
  <2> QED BY <1>7, <1>9, <1>10, <2>1 DEF Joins
<1>12. SubSeq(x, 1, n) = body /\ From(x, n + 1) = <<lo, hi>>
  BY <1>7, <1>9, <1>10, Halves
<1>13. Len(x) - 2 = n /\ Len(x) >= 3
  BY SMT, <1>9, <1>11
<1>14. verify_crc(x)
  BY <1>4, <1>12, <1>13 DEF verify_crc
<1> QED BY <1>1, <1>3, <1>5, <1>10, <1>12, <1>13, <1>14
-----------------------------------------------------------------------------
(* The invariant. *)
\* The encoded requests of a client.
Encodings(c) == [i \in DOMAIN requests(c) |-> Encoded(requests(c)[i])]

\* r has the fields of a connection.
IsConnection(r) ==
    r = [pc |-> r.pc, frame |-> r.frame, route |-> r.route, taken |-> r.taken, reply |-> r.reply]

\* What a client's stream still holds, read or not, is its requests not taken yet.
StreamInv ==
    /\ scene \in Scenes
    /\ connection = [c \in Clients |-> connection[c]]
    /\ \A c \in Clients : IsConnection(connection[c]) /\ connection[c].taken \in 0..Len(requests(c))
    /\ buffer \in [Clients -> Seq(Byte)] /\ arriving \in [Clients -> Seq(Byte)]
    /\ \A c \in Clients : buffer[c] \o arriving[c] = octets_from(Encodings(c))[connection[c].taken + 1]

\* The task of c is about to send.
InFlight(c) == connection[c].pc \in {"connect", "send"}

\* The request about to be sent is the last one taken.
FlightInv ==
    \A c \in Clients : InFlight(c) =>
        /\ connection[c].taken \in 1..Len(requests(c))
        /\ connection[c].frame = requests(c)[connection[c].taken]
        /\ connection[c].frame.unit # 0
        /\ connection[c].route = resolve_route(connection[c].frame.unit) /\ connection[c].route # 0

\* A broadcast task carries a broadcast taken before, to the address of its entry.
IsTask(t) ==
    /\ t = [client |-> t.client, nth |-> t.nth, copy |-> t.copy, backend |-> t.backend, frame |-> t.frame]
    /\ t.client \in Clients /\ t.nth \in 1..connection[t.client].taken
    /\ t.copy \in all_backends /\ t.backend = Routes[t.copy].backend
    /\ t.frame = mbap_to_rtu(requests(t.client)[t.nth])
    /\ requests(t.client)[t.nth].unit = 0

\* Every broadcast task is one of them.
TaskInv == \A t \in broadcasts : IsTask(t)

\* The requests that may still be written to b as adu.
Owes(b, adu, r) ==
    /\ Sent(requests(r[1])[r[2]]) = adu
    /\ \/ /\ InFlight(r[1]) /\ connection[r[1]].taken = r[2]
          /\ Routes[connection[r[1]].route].backend = b
       \/ \E t \in broadcasts : t.client = r[1] /\ t.nth = r[2] /\ t.backend = b

\* All of them.
OwedTo(b, adu) == {r \in Taken : Owes(b, adu, r)}

\* What b heard and what it may still hear was asked.
BooksInv ==
    /\ IsFiniteSet(Taken)
    /\ heard = [b \in Backends |-> heard[b]]
    /\ \A b \in Backends : IsATally(heard[b])
    /\ \A b \in Backends : \A adu :
          times(heard[b], adu) + Cardinality(OwedTo(b, adu)) <= Cardinality(AskedBy(b, adu))

\* The inductive invariant.
GatewayInv == StreamInv /\ FlightInv /\ TaskInv /\ BooksInv
-----------------------------------------------------------------------------
(* Counting: O, then P, may still be heard and A, then C, was asked. *)
LEMMA TallyKeeps ==
    ASSUME Counting, NEW O, NEW P, NEW A, NEW C, NEW n \in Nat, IsFiniteSet(O), IsFiniteSet(C),
           P \subseteq O, A \subseteq C, n + Cardinality(O) <= Cardinality(A)
    PROVE  n + Cardinality(P) <= Cardinality(C)
<1>1. IsFiniteSet(P) /\ IsFiniteSet(A) /\ Cardinality(P) <= Cardinality(O) /\ Cardinality(A) <= Cardinality(C)
  BY DEF Counting, SubsetCounts
<1>2. /\ Cardinality(P) \in Nat /\ Cardinality(O) \in Nat
      /\ Cardinality(A) \in Nat /\ Cardinality(C) \in Nat
  BY <1>1 DEF Counting, CountsAreNatural
<1> QED BY SMT, <1>1, <1>2

\* One of those owed is heard, and no longer owed.
LEMMA TallySends ==
    ASSUME Counting, NEW O, NEW P, NEW A, NEW C, NEW n \in Nat, IsFiniteSet(O), IsFiniteSet(C), NEW x \in O,
           P \subseteq O \ {x}, A \subseteq C, n + Cardinality(O) <= Cardinality(A)
    PROVE  (n + 1) + Cardinality(P) <= Cardinality(C)
<1>1. IsFiniteSet(O \ {x}) /\ Cardinality(O \ {x}) = Cardinality(O) - 1
  BY DEF Counting, RemoveCounts
<1>2. IsFiniteSet(P) /\ IsFiniteSet(A)
  BY <1>1 DEF Counting, SubsetCounts
<1>3. Cardinality(P) <= Cardinality(O \ {x}) /\ Cardinality(A) <= Cardinality(C)
  BY <1>1 DEF Counting, SubsetCounts
<1>4. /\ Cardinality(P) \in Nat /\ Cardinality(O) \in Nat
      /\ Cardinality(A) \in Nat /\ Cardinality(C) \in Nat
  BY <1>2 DEF Counting, CountsAreNatural
<1> QED BY SMT, <1>1, <1>3, <1>4

\* One more was asked, and is perhaps owed.
LEMMA TallyTakes ==
    ASSUME Counting, NEW O, NEW P, NEW A, NEW C, NEW n \in Nat, IsFiniteSet(O), IsFiniteSet(C), NEW x,
           x \notin A, A \subseteq C, P \subseteq O \union {x}, x \in P => x \in C,
           n + Cardinality(O) <= Cardinality(A)
    PROVE  n + Cardinality(P) <= Cardinality(C)
<1>1. CASE x \notin P
  <2>1. P \subseteq O
    BY <1>1
  <2> QED BY <2>1, TallyKeeps
<1>2. CASE x \in P
  <2>1. IsFiniteSet(A) /\ IsFiniteSet(O \union {x}) /\ A \union {x} \subseteq C
    BY <1>2 DEF Counting, SubsetCounts, AddCounts
  <2>2. IsFiniteSet(A \union {x}) /\ Cardinality(A \union {x}) = Cardinality(A) + 1
    BY <2>1 DEF Counting, AddCounts
  <2>3. Cardinality(A \union {x}) <= Cardinality(C)
    BY <2>1 DEF Counting, SubsetCounts
  <2>4. Cardinality(P) <= Cardinality(O) + 1 /\ IsFiniteSet(P)
    <3>1. Cardinality(P) <= Cardinality(O \union {x}) /\ IsFiniteSet(P)
      BY <2>1 DEF Counting, SubsetCounts
    <3>2. Cardinality(O \union {x}) = Cardinality(O) \/ Cardinality(O \union {x}) = Cardinality(O) + 1
      BY DEF Counting, AddCounts
    <3>3. Cardinality(P) \in Nat /\ Cardinality(O) \in Nat
      BY <3>1 DEF Counting, CountsAreNatural
    <3> QED BY SMT, <3>1, <3>2, <3>3
  <2>5. /\ Cardinality(P) \in Nat /\ Cardinality(O) \in Nat
        /\ Cardinality(A) \in Nat /\ Cardinality(C) \in Nat
    BY <2>1, <2>4 DEF Counting, CountsAreNatural
  <2> QED BY SMT, <2>2, <2>3, <2>4, <2>5
<1> QED BY <1>1, <1>2

\* One more ADU is written.
OneMore(more, tally, adu) ==
    /\ IsATally(more) /\ times(more, adu) = times(tally, adu) + 1
    /\ \A x : x # adu => times(more, x) = times(tally, x)

\* one_more counts one more of that ADU and leaves the others.
LEMMA Written ==
    ASSUME NEW tally, IsATally(tally), NEW adu
    PROVE  OneMore(one_more(tally, adu), tally, adu)
<1>0. PICK more : more = one_more(tally, adu)
  OBVIOUS
<1>1. tally \in [DOMAIN tally -> Nat \ {0}]
  BY DEF IsATally
<1>2. more = [e \in DOMAIN tally \union {adu} |-> times(tally, e) + IF e = adu THEN 1 ELSE 0]
  BY <1>0 DEF one_more
<1>3. \A x : times(tally, x) \in Nat /\ times(tally, x) = IF x \in DOMAIN tally THEN tally[x] ELSE 0
  BY <1>1 DEF times
<1>4. \A e \in DOMAIN tally \union {adu} : more[e] \in Nat \ {0}
  BY SMT, <1>1, <1>2, <1>3
<1>5. IsATally(more)
  BY <1>2, <1>4 DEF IsATally
<1>6. times(more, adu) = times(tally, adu) + 1
  BY <1>2 DEF times
<1>7. ASSUME NEW x, x # adu PROVE times(more, x) = times(tally, x)
  <2>1. CASE x \in DOMAIN tally
    <3>1. x \in DOMAIN more /\ more[x] = times(tally, x) + 0
      BY <1>2, <1>7, <2>1
    <3> QED BY SMT, <1>3, <3>1 DEF times
  <2>2. CASE x \notin DOMAIN tally
    BY <1>2, <1>7, <2>2 DEF times
  <2> QED BY <2>1, <2>2
<1> QED BY <1>0, <1>5, <1>6, <1>7 DEF OneMore
-----------------------------------------------------------------------------
\* The requests taken, by client and number.
LEMMA TakenIs ==
    \A r : r \in Taken <=> \E d \in Clients : \E k \in 1..connection[d].taken : r = <<d, k>>
BY SMT DEF Taken

\* What may still be written was asked, of that device: the route of a task
\* about to send is the one resolve_route finds for its request.
LEMMA SentIsAsked ==
    ASSUME StreamInv, FlightInv, TaskInv
    PROVE  \A b, adu : OwedTo(b, adu) \subseteq AskedBy(b, adu)
<1> SUFFICES ASSUME NEW b, NEW adu, NEW r \in OwedTo(b, adu) PROVE r \in AskedBy(b, adu)
  OBVIOUS
<1>1. r \in Taken /\ Owes(b, adu, r)
  BY DEF OwedTo
<1>2. PICK d \in Clients : \E k \in 1..connection[d].taken : r = <<d, k>>
  BY <1>1, TakenIs
<1>3. PICK k \in 1..connection[d].taken : r[1] = d /\ r[2] = k
  BY SMT, <1>2
<1>4. PICK q : q = requests(d)[k]
  OBVIOUS
<1>5. q \in Request
  <2>1. connection[d].taken \in 0..Len(requests(d)) /\ requests(d) \in Seq(Request)
    BY ScenesAssumption DEF StreamInv, requests
  <2>2. k \in 1..Len(requests(d))
    BY SMT, <2>1
  <2> QED BY SMT, <1>4, <2>1, <2>2
<1>6. adu = Sent(q)
  BY <1>1, <1>3, <1>4 DEF Owes
<1>7. <<q.unit>> \o q.pdu = SubSeq(adu, 1, Len(adu) - 2) /\ verify_crc(adu)
  BY <1>5, <1>6, SentIs
<1>8. q.unit # 0 => resolve_route(q.unit) # 0 /\ Routes[resolve_route(q.unit)].backend = b
  <2>1. CASE InFlight(d) /\ connection[d].taken = k /\ Routes[connection[d].route].backend = b
    BY <1>4, <2>1 DEF FlightInv
  <2>2. CASE \E t \in broadcasts : t.client = d /\ t.nth = k /\ t.backend = b
    BY <1>4, <2>2 DEF TaskInv, IsTask
  <2> QED BY <1>1, <1>3, <2>1, <2>2 DEF Owes
<1> QED BY <1>1, <1>3, <1>4, <1>7, <1>8 DEF AskedBy

\* A client's task goes on: what it may still send it might have sent before.
Follows(c, r) ==
    /\ connection' = [connection EXCEPT ![c] = r]
    /\ IsConnection(r) /\ r.taken = connection[c].taken
    /\ r.pc \in {"connect", "send"} =>
          InFlight(c) /\ r.frame = connection[c].frame /\ r.route = connection[c].route
    /\ scene' = scene

\* Nothing is taken, and nothing more is owed.
Settled ==
    /\ scene' = scene
    /\ connection' = [d \in Clients |-> connection'[d]]
    /\ \A d \in Clients : IsConnection(connection'[d]) /\ connection'[d].taken = connection[d].taken
    /\ \A d \in Clients : InFlight(d)' =>
          InFlight(d) /\ connection'[d].frame = connection[d].frame /\ connection'[d].route = connection[d].route
    /\ broadcasts' \subseteq broadcasts

\* A task that goes on takes nothing and owes nothing more.
LEMMA FollowsSettles ==
    ASSUME StreamInv, NEW c \in Clients, NEW r, Follows(c, r), broadcasts' \subseteq broadcasts
    PROVE  Settled /\ connection'[c] = r
<1>1. connection = [d \in Clients |-> connection[d]] /\ \A d \in Clients : IsConnection(connection[d])
  BY DEF StreamInv
<1>2. connection' = [d \in Clients |-> IF d = c THEN r ELSE connection[d]]
  BY <1>1 DEF Follows
<1>3. connection'[c] = r /\ \A d \in Clients : d # c => connection'[d] = connection[d]
  BY <1>2
<1>4. connection' = [d \in Clients |-> connection'[d]]
  BY <1>2
<1>5. ASSUME NEW d \in Clients
      PROVE  /\ IsConnection(connection'[d]) /\ connection'[d].taken = connection[d].taken
             /\ InFlight(d)' => /\ InFlight(d) /\ connection'[d].frame = connection[d].frame
                               /\ connection'[d].route = connection[d].route
  <2>1. CASE d = c
    BY <1>3, <2>1 DEF Follows, InFlight
  <2>2. CASE d # c
    BY <1>1, <1>3, <2>2 DEF InFlight
  <2> QED BY <2>1, <2>2
<1> QED BY <1>3, <1>4, <1>5 DEF Settled, Follows

\* What was asked stays, and what is owed was owed before.
LEMMA SettledKeeps ==
    ASSUME StreamInv, FlightInv, TaskInv, Settled
    PROVE  /\ FlightInv' /\ TaskInv' /\ Taken' = Taken
           /\ \A b, adu : AskedBy(b, adu)' = AskedBy(b, adu)
           /\ \A b, adu : OwedTo(b, adu)' \subseteq OwedTo(b, adu)
<1>1. /\ scene' = scene /\ broadcasts' \subseteq broadcasts
      /\ \A d \in Clients : connection'[d].taken = connection[d].taken
      /\ \A d \in Clients : InFlight(d)' => /\ InFlight(d) /\ connection'[d].frame = connection[d].frame
                                          /\ connection'[d].route = connection[d].route
  BY DEF Settled
<1>2. \A d : requests(d)' = requests(d)
  BY <1>1 DEF requests
<1>3. FlightInv'
  BY <1>1, <1>2 DEF FlightInv
<1>4. TaskInv'
  BY <1>1, <1>2 DEF TaskInv, IsTask
<1>5. Taken' = Taken
  BY SMT, <1>1 DEF Taken
<1>6. \A b, adu : AskedBy(b, adu)' = AskedBy(b, adu)
  <2>1. ASSUME NEW b, NEW adu, NEW r PROVE r \in AskedBy(b, adu)' <=> r \in AskedBy(b, adu)
    BY <1>2, <1>5 DEF AskedBy
  <2> QED BY SMT, <2>1
<1>7. ASSUME NEW b, NEW adu, NEW r \in OwedTo(b, adu)' PROVE r \in OwedTo(b, adu)
  <2>1. r \in Taken /\ Owes(b, adu, r)'
    BY <1>5, <1>7 DEF OwedTo
  <2>2. PICK d \in Clients : \E k \in 1..connection[d].taken : r = <<d, k>>
    BY <2>1, TakenIs
  <2>3. r[1] = d
    BY SMT, <2>2
  <2>4. Owes(b, adu, r)
    BY <1>1, <1>2, <2>1, <2>3 DEF Owes
  <2> QED BY <2>1, <2>4 DEF OwedTo
<1> QED BY <1>3, <1>4, <1>5, <1>6, <1>7

\* Both books are finite.
LEMMA BooksFinite ==
    ASSUME Counting, BooksInv
    PROVE  \A b, adu : IsFiniteSet(OwedTo(b, adu)) /\ IsFiniteSet(AskedBy(b, adu))
<1>1. \A b, adu : OwedTo(b, adu) \in SUBSET Taken /\ AskedBy(b, adu) \in SUBSET Taken
  BY DEF OwedTo, AskedBy
<1> QED BY <1>1 DEF Counting, SubsetCounts, BooksInv

\* The books balance after a step that writes nothing.
LEMMA BooksSettle ==
    ASSUME Counting, GatewayInv, Settled, heard' = heard
    PROVE  BooksInv'
<1>1. StreamInv /\ FlightInv /\ TaskInv /\ BooksInv
  BY DEF GatewayInv
<1>2. /\ Taken' = Taken
      /\ \A b, adu : AskedBy(b, adu)' = AskedBy(b, adu) /\ OwedTo(b, adu)' \subseteq OwedTo(b, adu)
  BY <1>1, SettledKeeps
<1>3. ASSUME NEW b \in Backends, NEW adu
      PROVE  times(heard[b], adu) + Cardinality(OwedTo(b, adu)') <= Cardinality(AskedBy(b, adu)')
  <2>1. PICK O, P, A : O = OwedTo(b, adu) /\ P = OwedTo(b, adu)' /\ A = AskedBy(b, adu)
    OBVIOUS
  <2>2. PICK n \in Nat : n = times(heard[b], adu)
    BY <1>1 DEF BooksInv, times, IsATally
  <2>3. n + Cardinality(O) <= Cardinality(A)
    BY <1>1, <2>1, <2>2 DEF BooksInv
  <2>4. IsFiniteSet(O) /\ IsFiniteSet(A) /\ P \subseteq O /\ A \subseteq A /\ AskedBy(b, adu)' = A
    BY <1>1, <1>2, <2>1, BooksFinite
  <2>5. n + Cardinality(P) <= Cardinality(A)
    BY <2>3, <2>4, TallyKeeps
  <2> QED BY <2>1, <2>2, <2>4, <2>5
<1>4. IsFiniteSet(Taken) /\ heard = [b \in Backends |-> heard[b]] /\ \A b \in Backends : IsATally(heard[b])
  BY <1>1 DEF BooksInv
<1> QED BY <1>2, <1>3, <1>4 DEF BooksInv

\* What is written was owed, and is owed no longer.
LEMMA BooksSend ==
    ASSUME Counting, GatewayInv, Settled, NEW b0 \in Backends, NEW adu0, NEW x \in OwedTo(b0, adu0),
           x \notin OwedTo(b0, adu0)', write_to(b0, adu0)
    PROVE  BooksInv'
<1>1. StreamInv /\ FlightInv /\ TaskInv /\ BooksInv
  BY DEF GatewayInv
<1>2. /\ Taken' = Taken
      /\ \A b, adu : AskedBy(b, adu)' = AskedBy(b, adu) /\ OwedTo(b, adu)' \subseteq OwedTo(b, adu)
  BY <1>1, SettledKeeps
<1>3. IsFiniteSet(Taken) /\ heard = [b \in Backends |-> heard[b]] /\ \A b \in Backends : IsATally(heard[b])
  BY <1>1 DEF BooksInv
<1>4. PICK more : more = one_more(heard[b0], adu0)
  OBVIOUS
<1>5. heard' = [b \in Backends |-> IF b = b0 THEN more ELSE heard[b]]
  BY <1>3, <1>4 DEF write_to
<1>6. heard'[b0] = more /\ \A b \in Backends : b # b0 => heard'[b] = heard[b]
  BY <1>5
<1>7. /\ IsATally(more) /\ times(more, adu0) = times(heard[b0], adu0) + 1
      /\ \A y : y # adu0 => times(more, y) = times(heard[b0], y)
  <2>1. OneMore(more, heard[b0], adu0)
    BY <1>3, <1>4, Written
  <2> QED BY <2>1 DEF OneMore
<1>8. heard' = [b \in Backends |-> heard'[b]] /\ \A b \in Backends : IsATally(heard'[b])
  BY <1>3, <1>5, <1>6, <1>7
<1>9. ASSUME NEW b \in Backends, NEW adu
      PROVE  times(heard'[b], adu) + Cardinality(OwedTo(b, adu)') <= Cardinality(AskedBy(b, adu)')
  <2>1. PICK O, P, A : O = OwedTo(b, adu) /\ P = OwedTo(b, adu)' /\ A = AskedBy(b, adu)
    OBVIOUS
  <2>2. PICK n \in Nat : n = times(heard[b], adu)
    BY <1>3 DEF times, IsATally
  <2>3. n + Cardinality(O) <= Cardinality(A)
    BY <1>1, <2>1, <2>2 DEF BooksInv
  <2>4. IsFiniteSet(O) /\ IsFiniteSet(A) /\ P \subseteq O /\ A \subseteq A /\ AskedBy(b, adu)' = A
    BY <1>1, <1>2, <2>1, BooksFinite
  <2>5. CASE b = b0 /\ adu = adu0
    <3>1. x \in O /\ P \subseteq O \ {x}
      BY <2>1, <2>4, <2>5
    <3>2. (n + 1) + Cardinality(P) <= Cardinality(A)
      BY <2>3, <2>4, <3>1, TallySends
    <3>3. times(heard'[b], adu) = n + 1
      BY <1>6, <1>7, <2>2, <2>5
    <3> QED BY <2>1, <2>4, <3>2, <3>3
  <2>6. CASE ~(b = b0 /\ adu = adu0)
    <3>1. times(heard'[b], adu) = n
      BY <1>6, <1>7, <2>2, <2>6
    <3>2. n + Cardinality(P) <= Cardinality(A)
      BY <2>3, <2>4, TallyKeeps
    <3> QED BY <2>1, <2>4, <3>1, <3>2
  <2> QED BY <2>5, <2>6
<1> QED BY <1>2, <1>3, <1>8, <1>9 DEF BooksInv

\* The streams after a step that reads nothing.
LEMMA StreamSettles ==
    ASSUME StreamInv, Settled, buffer' = buffer, arriving' = arriving
    PROVE  StreamInv'
<1>1. \A d : requests(d)' = requests(d)
  BY DEF Settled, requests
<1>2. \A d : Encodings(d)' = Encodings(d)
  BY <1>1 DEF Encodings
<1> QED BY <1>1, <1>2 DEF StreamInv, Settled
-----------------------------------------------------------------------------
\* A route that is found is an entry.
LEMMA RouteFound ==
    ASSUME Counting, NEW unit, resolve_route(unit) # 0
    PROVE  /\ resolve_route(unit) \in DOMAIN Routes
           /\ Routes[resolve_route(unit)].backend \in Backends
<1> DEFINE matching == {i \in DOMAIN Routes : unit \in Routes[i].low..Routes[i].high}
<1>1. DOMAIN Routes \subseteq Nat
  BY SMT, RoutesAssumption
<1>2. matching # {} /\ resolve_route(unit) = Min(matching)
  BY DEF resolve_route
<1>3. matching \subseteq DOMAIN Routes
  OBVIOUS
<1> HIDE DEF matching
<1>4. \E n \in matching : \A m \in matching : n <= m
  <2>1. matching \subseteq Nat
    BY <1>1, <1>3
  <2> QED BY <1>2, <2>1 DEF Counting, LeastNatural
<1>5. Min(matching) \in matching
  BY <1>4 DEF Min
<1> QED BY <1>2, <1>3, <1>5 DEF Backends

\* What is decoded is the first request not taken yet.
LEMMA Receives ==
    ASSUME Counting, StreamInv, NEW c \in Clients, MbapCodec_decode(buffer[c]).status = "frame"
    PROVE  /\ connection[c].taken + 1 \in 1..Len(requests(c))
           /\ requests(c)[connection[c].taken + 1] \in Request
           /\ MbapCodec_decode(buffer[c]).frame = requests(c)[connection[c].taken + 1]
           /\ MbapCodec_decode(buffer[c]).rest \in Seq(Byte)
           /\ MbapCodec_decode(buffer[c]).rest \o arriving[c]
                 = octets_from(Encodings(c))[(connection[c].taken + 1) + 1]
<1>1. PICK b, a, k, n, e : /\ b = buffer[c] /\ a = arriving[c] /\ k = connection[c].taken
                           /\ n = Len(requests(c)) /\ e = Encodings(c)
  OBVIOUS
<1>2. /\ requests(c) \in Seq(Request) /\ n \in Nat /\ k \in 0..n
      /\ b \in Seq(Byte) /\ a \in Seq(Byte) /\ b \o a = octets_from(e)[k + 1]
  <2>1. requests(c) \in Seq(Request)
    BY ScenesAssumption DEF StreamInv, requests
  <2>2. Len(requests(c)) \in Nat /\ connection[c].taken \in 0..Len(requests(c))
    BY SMT, <2>1 DEF StreamInv
  <2>3. /\ buffer[c] \in Seq(Byte) /\ arriving[c] \in Seq(Byte)
        /\ buffer[c] \o arriving[c] = octets_from(Encodings(c))[connection[c].taken + 1]
    BY DEF StreamInv
  <2> QED BY <1>1, <2>1, <2>2, <2>3
<1>3. /\ e \in Seq(Seq(Byte)) /\ Len(e) = n
      /\ \A i \in 1..n : requests(c)[i] \in Request /\ e[i] = Encoded(requests(c)[i])
  <2>1. e = [i \in 1..n |-> Encoded(requests(c)[i])]
    BY SMT, <1>1, <1>2 DEF Encodings
  <2>2. \A i \in 1..n : requests(c)[i] \in Request
    BY SMT, <1>1, <1>2
  <2>3. \A i \in 1..n : Encoded(requests(c)[i]) \in Seq(Byte)
    BY <2>2, EncodedIs DEF IsEncoded
  <2>4. e \in Seq(Seq(Byte)) /\ Len(e) = n
    BY SMT, <1>2, <2>1, <2>3
  <2> QED BY <2>1, <2>2, <2>4
<1>4. Len(b) \in Nat /\ Len(b) >= 7
  BY <1>1, <1>2, LongEnough
<1>5. k # n
  <2> SUFFICES ASSUME k = n PROVE FALSE
    OBVIOUS
  <2>1. b \o a = <<>>
    BY <1>2, <1>3, OctetsFrom
  <2>2. Joins(Byte, b, a, Len(b), Len(a)) /\ Len(a) \in Nat
    BY SMT, <1>2, Joined
  <2>3. Len(b \o a) = Len(b) + Len(a)
    BY <2>2 DEF Joins
  <2> QED BY SMT, <1>4, <2>1, <2>2, <2>3
<1>6. k + 1 \in 1..n /\ (k + 1) + 1 \in 1..n + 1
  BY SMT, <1>2, <1>5
<1>7. PICK q : q = requests(c)[k + 1]
  OBVIOUS
<1>8. q \in Request /\ e[k + 1] = Encoded(q)
  BY <1>3, <1>6, <1>7
<1>9. PICK r : r = octets_from(e)[(k + 1) + 1]
  OBVIOUS
<1>10. r \in Seq(Byte)
  BY <1>3, <1>6, <1>9, OctetsTyped
<1>11. b \o a = Encoded(q) \o r
  <2>1. octets_from(e)[k + 1] = e[k + 1] \o octets_from(e)[(k + 1) + 1]
    BY <1>3, <1>6, OctetsFrom
  <2> QED BY <1>2, <1>8, <1>9, <2>1
<1>12. /\ MbapCodec_decode(b).frame = q /\ MbapCodec_decode(b).rest \in Seq(Byte)
       /\ MbapCodec_decode(b).rest \o a = r
  <2>1. Comes(q, r, b, a)
    BY <1>2, <1>8, <1>10, <1>11 DEF Comes
  <2> QED BY <1>1, <2>1, Decodes
<1> QED BY <1>1, <1>6, <1>7, <1>8, <1>9, <1>12

\* The task of c takes the request q and may owe it, or new tasks may, for a broadcast.
Takes(c, r, k, tasks) ==
    LET q == requests(c)[k] IN
    /\ k = connection[c].taken + 1 /\ k \in 1..Len(requests(c))
    /\ connection' = [connection EXCEPT ![c] = r] /\ IsConnection(r)
    /\ r.taken = k
    /\ r.pc \in {"connect", "send"} =>
          r.frame = q /\ q.unit # 0 /\ r.route = resolve_route(q.unit) /\ r.route # 0
    /\ broadcasts' = broadcasts \union tasks
    /\ \A t \in tasks :
          /\ t = [client |-> c, nth |-> k, copy |-> t.copy, backend |-> Routes[t.copy].backend,
                  frame |-> mbap_to_rtu(q)]
          /\ t.copy \in all_backends /\ q.unit = 0
    /\ scene' = scene

\* What that does: the request is asked for from now on, and only it may be owed anew.
Took(c, r, k) ==
    /\ connection'[c] = r /\ \A d \in Clients : d # c => connection'[d] = connection[d]
    /\ connection' = [d \in Clients |-> connection'[d]]
    /\ FlightInv' /\ TaskInv'
    /\ \A x : x \in Taken' <=> x \in Taken \/ x = <<c, k>>
    /\ <<c, k>> \notin Taken
    /\ \A b, adu : AskedBy(b, adu) \subseteq AskedBy(b, adu)'
    /\ \A b, adu : OwedTo(b, adu)' \subseteq OwedTo(b, adu) \union {<<c, k>>}

\* Taking a request does that.
LEMMA TakesStep ==
    ASSUME GatewayInv, NEW c \in Clients, NEW r, NEW k, NEW tasks, Takes(c, r, k, tasks)
    PROVE  Took(c, r, k)
<1>1. StreamInv /\ FlightInv /\ TaskInv
  BY DEF GatewayInv
<1>2. PICK q : q = requests(c)[k]
  OBVIOUS
<1>3. /\ connection = [d \in Clients |-> connection[d]]
      /\ \A d \in Clients : connection[d].taken \in 0..Len(requests(d)) /\ requests(d) \in Seq(Request)
  BY <1>1, ScenesAssumption DEF StreamInv, requests
<1>4. connection' = [d \in Clients |-> IF d = c THEN r ELSE connection[d]]
  BY <1>3 DEF Takes
<1>5. connection'[c] = r /\ \A d \in Clients : d # c => connection'[d] = connection[d]
  BY <1>4
<1>6. /\ connection[c].taken \in Nat /\ k = connection[c].taken + 1 /\ k \in Nat
      /\ k \notin 1..connection[c].taken /\ r.taken = k
      /\ \A j : j \in 1..k <=> j \in 1..connection[c].taken \/ j = k
  <2>1. connection[c].taken \in Nat
    BY SMT, <1>3
  <2>2. r.taken = k /\ k = connection[c].taken + 1
    BY DEF Takes
  <2> QED BY SMT, <2>1, <2>2
<1>7. \A d : requests(d)' = requests(d)
  BY DEF Takes, requests
<1>8. /\ r.pc \in {"connect", "send"} =>
            r.frame = q /\ q.unit # 0 /\ r.route = resolve_route(q.unit) /\ r.route # 0
      /\ broadcasts' = broadcasts \union tasks
      /\ \A t \in tasks :
            /\ t = [client |-> c, nth |-> k, copy |-> t.copy, backend |-> Routes[t.copy].backend,
                    frame |-> mbap_to_rtu(q)]
            /\ t.copy \in all_backends /\ q.unit = 0
  BY <1>2, <1>6 DEF Takes
<1>9. FlightInv'
  <2> SUFFICES ASSUME NEW d \in Clients, InFlight(d)'
               PROVE  /\ connection'[d].taken \in 1..Len(requests(d))
                      /\ connection'[d].frame = requests(d)[connection'[d].taken]
                      /\ connection'[d].frame.unit # 0
                      /\ connection'[d].route = resolve_route(connection'[d].frame.unit)
                      /\ connection'[d].route # 0
    BY <1>7 DEF FlightInv
  <2>1. CASE d = c
    <3>1. r.pc \in {"connect", "send"}
      BY <1>5, <2>1 DEF InFlight
    <3>2. k \in 1..Len(requests(c))
      BY DEF Takes
    <3> QED BY <1>2, <1>5, <1>6, <1>8, <2>1, <3>1, <3>2
  <2>2. CASE d # c
    BY <1>1, <1>5, <2>2 DEF FlightInv, InFlight
  <2> QED BY <2>1, <2>2
<1>10. ASSUME NEW t \in tasks PROVE IsTask(t)' /\ t.client = c /\ t.nth = k
  <2>1. /\ t = [client |-> c, nth |-> k, copy |-> t.copy, backend |-> Routes[t.copy].backend,
                frame |-> mbap_to_rtu(q)]
        /\ t.copy \in all_backends /\ q.unit = 0
    BY <1>8
  <2>2. /\ t.client = c /\ t.nth = k /\ t.backend = Routes[t.copy].backend /\ t.frame = mbap_to_rtu(q)
        /\ t = [client |-> t.client, nth |-> t.nth, copy |-> t.copy, backend |-> t.backend, frame |-> t.frame]
    BY SMT, <2>1
  <2>3. t.nth \in 1..connection'[t.client].taken
    BY <1>5, <1>6, <2>2
  <2> QED BY <1>2, <1>7, <2>1, <2>2, <2>3 DEF IsTask
<1>11. TaskInv'
  <2> SUFFICES ASSUME NEW t \in broadcasts PROVE IsTask(t)'
    BY <1>8, <1>10 DEF TaskInv
  <2>1. IsTask(t)
    BY <1>1 DEF TaskInv
  <2>2. t.nth \in 1..connection'[t.client].taken
    BY <1>5, <1>6, <2>1 DEF IsTask
  <2> QED BY <1>7, <2>1, <2>2 DEF IsTask
<1>12. \A x : x \in Taken' <=> x \in Taken \/ x = <<c, k>>
  <2>1. \A x : x \in Taken' <=> \E d \in Clients : \E j \in 1..connection'[d].taken : x = <<d, j>>
    BY SMT DEF Taken
  <2> QED BY SMT, <1>5, <1>6, <2>1, TakenIs
<1>13. <<c, k>> \notin Taken
  <2> SUFFICES ASSUME <<c, k>> \in Taken PROVE FALSE
    OBVIOUS
  <2>1. PICK d \in Clients : \E j \in 1..connection[d].taken : <<c, k>> = <<d, j>>
    BY TakenIs
  <2> QED BY <1>6, <2>1
<1>14. \A b, adu : AskedBy(b, adu) \subseteq AskedBy(b, adu)'
  BY <1>7, <1>12 DEF AskedBy
<1>15. ASSUME NEW b, NEW adu, NEW x \in OwedTo(b, adu)', x # <<c, k>> PROVE x \in OwedTo(b, adu)
  <2>1. x \in Taken /\ Owes(b, adu, x)'
    BY <1>12, <1>15 DEF OwedTo
  <2>2. PICK d \in Clients : \E j \in 1..connection[d].taken : x = <<d, j>>
    BY <2>1, TakenIs
  <2>3. PICK j \in 1..connection[d].taken : x = <<d, j>> /\ x[1] = d /\ x[2] = j
    BY SMT, <2>2
  <2>4. ~(d = c /\ j = k)
    BY <1>15, <2>3
  <2>5. InFlight(d)' /\ connection'[d].taken = j => d # c
    BY <1>5, <1>6, <2>4
  <2>6. \A t \in tasks : ~(t.client = d /\ t.nth = j)
    BY <1>10, <2>4
  <2>7. Owes(b, adu, x)
    <3>1. Sent(requests(d)[j]) = adu
      BY <1>7, <2>1, <2>3 DEF Owes
    <3>2. \/ InFlight(d)' /\ connection'[d].taken = j /\ Routes[connection'[d].route].backend = b
          \/ \E t \in broadcasts' : t.client = d /\ t.nth = j /\ t.backend = b
      BY <2>1, <2>3 DEF Owes
    <3>3. CASE InFlight(d)' /\ connection'[d].taken = j /\ Routes[connection'[d].route].backend = b
      BY <1>5, <2>3, <2>5, <3>1, <3>3 DEF Owes, InFlight
    <3>4. CASE \E t \in broadcasts' : t.client = d /\ t.nth = j /\ t.backend = b
      BY <1>8, <2>3, <2>6, <3>1, <3>4 DEF Owes
    <3> QED BY <3>2, <3>3, <3>4
  <2> QED BY <2>1, <2>7 DEF OwedTo
<1>16. connection' = [d \in Clients |-> connection'[d]]
  BY <1>4
<1> QED BY <1>5, <1>9, <1>11, <1>12, <1>13, <1>14, <1>15, <1>16 DEF Took

\* The stream of the request taken and the books with it.
LEMMA TakesKeeps ==
    ASSUME Counting, GatewayInv, NEW c \in Clients, NEW r, NEW k, NEW tasks, Takes(c, r, k, tasks), NEW rest \in Seq(Byte),
           buffer' = [buffer EXCEPT ![c] = rest], arriving' = arriving, heard' = heard,
           rest \o arriving[c] = octets_from(Encodings(c))[k + 1]
    PROVE  GatewayInv'
<1>1. StreamInv /\ FlightInv /\ TaskInv /\ BooksInv
  BY DEF GatewayInv
<1>2. /\ connection'[c] = r /\ \A d \in Clients : d # c => connection'[d] = connection[d]
      /\ connection' = [d \in Clients |-> connection'[d]]
      /\ FlightInv' /\ TaskInv'
      /\ \A x : x \in Taken' <=> x \in Taken \/ x = <<c, k>>
      /\ <<c, k>> \notin Taken
      /\ \A b, adu : AskedBy(b, adu) \subseteq AskedBy(b, adu)'
      /\ \A b, adu : OwedTo(b, adu)' \subseteq OwedTo(b, adu) \union {<<c, k>>}
  <2>1. Took(c, r, k)
    BY TakesStep
  <2> QED BY <2>1 DEF Took
<1>3. scene' = scene /\ IsConnection(r) /\ r.taken = k
  BY DEF Takes
<1>4. \A d : requests(d)' = requests(d)
  BY <1>3 DEF requests
<1>5. \A d : Encodings(d)' = Encodings(d)
  BY <1>4 DEF Encodings
<1>6. StreamInv'
  <2>1. buffer' \in [Clients -> Seq(Byte)] /\ arriving' \in [Clients -> Seq(Byte)]
    BY <1>1 DEF StreamInv
  <2>2. buffer'[c] = rest /\ \A d \in Clients : d # c => buffer'[d] = buffer[d]
    BY <1>1 DEF StreamInv
  <2>3. ASSUME NEW d \in Clients
        PROVE  /\ IsConnection(connection'[d]) /\ connection'[d].taken \in 0..Len(requests(d))
               /\ buffer'[d] \o arriving'[d] = octets_from(Encodings(d))[connection'[d].taken + 1]
    <3>1. CASE d = c
      <4>1. k \in 0..Len(requests(c))
        BY SMT DEF Takes
      <4> QED BY <1>2, <1>3, <2>2, <3>1, <4>1
    <3>2. CASE d # c
      BY <1>1, <1>2, <2>2, <3>2 DEF StreamInv
    <3> QED BY <3>1, <3>2
  <2>4. scene' \in Scenes
    BY <1>1, <1>3 DEF StreamInv
  <2> QED BY <1>2, <1>4, <1>5, <2>1, <2>3, <2>4 DEF StreamInv
<1>7. \A b, adu : OwedTo(b, adu)' \subseteq AskedBy(b, adu)'
  <2>1. (StreamInv /\ FlightInv /\ TaskInv => \A b, adu : OwedTo(b, adu) \subseteq AskedBy(b, adu))'
    BY SentIsAsked, PTL
  <2> QED BY <1>2, <1>6, <2>1
<1>8. IsFiniteSet(Taken')
  <2>1. Taken' = Taken \union {<<c, k>>}
    BY <1>2
  <2> QED BY <1>1, <2>1 DEF Counting, AddCounts, BooksInv
<1>9. /\ heard' = [b \in Backends |-> heard'[b]] /\ \A b \in Backends : IsATally(heard'[b])
  BY <1>1 DEF BooksInv
<1>10. ASSUME NEW b \in Backends, NEW adu
       PROVE  times(heard'[b], adu) + Cardinality(OwedTo(b, adu)') <= Cardinality(AskedBy(b, adu)')
  <2>1. PICK n, O, P, A, C, x : /\ n = times(heard[b], adu) /\ O = OwedTo(b, adu) /\ P = OwedTo(b, adu)'
                                /\ A = AskedBy(b, adu) /\ C = AskedBy(b, adu)' /\ x = <<c, k>>
    OBVIOUS
  <2>2. n \in Nat
    BY <1>1, <2>1 DEF BooksInv, times, IsATally
  <2>3. n + Cardinality(O) <= Cardinality(A)
    BY <1>1, <2>1 DEF BooksInv
  <2>4. IsFiniteSet(O)
    BY <1>1, <2>1, BooksFinite
  <2>5. IsFiniteSet(C)
    <3>1. C \in SUBSET Taken'
      BY <2>1 DEF AskedBy
    <3> QED BY <1>8, <3>1 DEF Counting, SubsetCounts
  <2>6. x \notin A /\ A \subseteq C /\ P \subseteq O \union {x} /\ (x \in P => x \in C)
    <3>1. A \subseteq Taken
      BY <2>1 DEF AskedBy
    <3> QED BY <1>2, <1>7, <2>1, <3>1
  <2>7. n + Cardinality(P) <= Cardinality(C)
    BY SMT, <2>2, <2>3, <2>4, <2>5, <2>6, TallyTakes
  <2> QED BY <2>1, <2>7
<1>11. BooksInv'
  BY <1>8, <1>9, <1>10 DEF BooksInv
<1> QED BY <1>2, <1>6, <1>11 DEF GatewayInv

\* receive, of a broadcast, of a request without a route and of one with a route.
LEMMA ReceiveKeeps ==
    ASSUME Counting, GatewayInv, NEW c \in Clients, receive(c)
    PROVE  GatewayInv'
<1>1. StreamInv
  BY DEF GatewayInv
<1>2. PICK k, m : k = connection[c].taken + 1 /\ m = MbapCodec_decode(buffer[c])
  OBVIOUS
<1>3. /\ m.status = "frame" /\ buffer' = [buffer EXCEPT ![c] = m.rest]
      /\ handle_broadcast(c, m.frame) \/ handle_unrouted(c, m.frame) \/ handle_routed(c, m.frame)
      /\ scene' = scene /\ arriving' = arriving /\ heard' = heard
  BY <1>2 DEF receive, received
<1>4. /\ k \in 1..Len(requests(c)) /\ requests(c)[k] \in Request /\ m.frame = requests(c)[k]
      /\ m.rest \in Seq(Byte) /\ m.rest \o arriving[c] = octets_from(Encodings(c))[k + 1]
  <2>1. MbapCodec_decode(buffer[c]).status = "frame"
    BY <1>2, <1>3
  <2> QED BY <1>1, <1>2, <2>1, Receives
<1>5. PICK q : q = requests(c)[k]
  OBVIOUS
<1>6. \E r, tasks : Takes(c, r, k, tasks)
  <2>1. CASE handle_broadcast(c, q)
    <3>1. PICK r, tasks : /\ r = [pc |-> "receive", frame |-> NoFrame, route |-> 0, taken |-> k, reply |-> NoFrame]
                          /\ tasks = {[client |-> c, nth |-> k, copy |-> i, backend |-> Routes[i].backend,
                                       frame |-> mbap_to_rtu(q)] : i \in all_backends}
      OBVIOUS
    <3>2. /\ IsConnection(r) /\ r.taken = k /\ r.pc = "receive"
      BY <3>1 DEF IsConnection
    <3>3. /\ connection' = [connection EXCEPT ![c] = r] /\ broadcasts' = broadcasts \union tasks /\ q.unit = 0
      BY <1>2, <2>1, <3>1 DEF handle_broadcast, took
    <3>4. \A t \in tasks :
             /\ t = [client |-> c, nth |-> k, copy |-> t.copy, backend |-> Routes[t.copy].backend,
                     frame |-> mbap_to_rtu(q)]
             /\ t.copy \in all_backends
      BY SMT, <3>1
    <3>5. Takes(c, r, k, tasks)
      BY <1>2, <1>3, <1>4, <1>5, <3>2, <3>3, <3>4 DEF Takes
    <3> QED BY <3>5
  <2>2. CASE handle_unrouted(c, q)
    <3>0. PICK said, r :
             /\ took(c, "reply", q, 0, said)
             /\ r = [pc |-> "reply", frame |-> q, route |-> 0, taken |-> k, reply |-> said]
      BY <2>2 DEF handle_unrouted
    <3>1. connection' = [connection EXCEPT ![c] = r] /\ IsConnection(r) /\ r.taken = k /\ r.pc = "reply"
      BY <1>2, <3>0 DEF took, IsConnection
    <3>2. broadcasts' = broadcasts \union {}
      BY <2>2 DEF handle_unrouted
    <3>3. Takes(c, r, k, {})
      BY <1>2, <1>3, <1>4, <3>1, <3>2 DEF Takes
    <3> QED BY <3>3
  <2>3. CASE handle_routed(c, q)
    <3>0. PICK route, r :
             /\ took(c, "connect", q, route, NoFrame) /\ route = resolve_route(q.unit)
             /\ r = [pc |-> "connect", frame |-> q, route |-> route, taken |-> k, reply |-> NoFrame]
      BY <2>3 DEF handle_routed
    <3>1. /\ connection' = [connection EXCEPT ![c] = r] /\ IsConnection(r) /\ r.taken = k
          /\ r.frame = q /\ r.route = resolve_route(q.unit)
      BY <1>2, <3>0 DEF took, IsConnection
    <3>2. broadcasts' = broadcasts \union {} /\ q.unit # 0 /\ resolve_route(q.unit) # 0
      BY <2>3 DEF handle_routed
    <3>3. Takes(c, r, k, {})
      BY <1>2, <1>3, <1>4, <1>5, <3>1, <3>2 DEF Takes
    <3> QED BY <3>3
  <2> QED BY <1>3, <1>4, <1>5, <2>1, <2>2, <2>3
<1>7. PICK r, tasks : Takes(c, r, k, tasks)
  BY <1>6
<1> QED BY <1>3, <1>4, <1>7, TakesKeeps

\* Octets that arrive are those the client's stream still held.
LEMMA ArriveKeeps ==
    ASSUME Counting, GatewayInv, NEW c \in Clients, arrive(c)
    PROVE  GatewayInv'
<1>1. StreamInv
  BY DEF GatewayInv
<1>2. PICK n \in pieces(arriving[c]) :
         /\ buffer' = [buffer EXCEPT ![c] = @ \o SubSeq(arriving[c], 1, n)]
         /\ arriving' = [arriving EXCEPT ![c] = From(@, n + 1)]
  BY DEF arrive
<1>3. scene' = scene /\ connection' = connection /\ broadcasts' = broadcasts /\ heard' = heard
  BY DEF arrive
<1>4. PICK a, b : a = arriving[c] /\ b = buffer[c]
  OBVIOUS
<1>5. a \in Seq(Byte) /\ b \in Seq(Byte)
  BY <1>1, <1>4 DEF StreamInv
<1>6. n \in 0..Len(a)
  <2>1. scene.pieces \subseteq Nat
    BY <1>1, ScenesAssumption DEF StreamInv
  <2>2. Len(a) \in Nat /\ (n = Len(a) \/ (n \in scene.pieces /\ n <= Len(a)))
    BY SMT, <1>2, <1>4, <1>5 DEF pieces
  <2> QED BY SMT, <2>1, <2>2
<1>7. PICK h, t : h = SubSeq(a, 1, n) /\ t = From(a, n + 1)
  OBVIOUS
<1>8. h \in Seq(Byte) /\ t \in Seq(Byte) /\ h \o t = a
  <2>1. PICK m : m = Len(a)
    OBVIOUS
  <2>2. m \in Nat /\ 1 \in 1..m + 1 /\ n + 1 \in 1..m + 1 /\ n \in 1 - 1..m /\ m \in n..m
    BY SMT, <1>5, <1>6, <2>1
  <2>3. SubSeq(a, 1, n) \o SubSeq(a, n + 1, m) = SubSeq(a, 1, m) /\ SubSeq(a, 1, m) = a
    BY <1>5, <2>1, <2>2, ConcatAdjacentSubSeq, SubSeqFull
  <2>4. SubSeq(a, 1, n) \in Seq(Byte) /\ SubSeq(a, n + 1, m) \in Seq(Byte)
    <3>1. SubSeq(a, 1, n) \in Seq(Byte)
      BY SMT, <1>5, <1>6, SubSeqProperties
    <3>2. SubSeq(a, n + 1, m) \in Seq(Byte)
      BY SMT, <1>5, <1>6, <2>1, SubSeqProperties
    <3> QED BY <3>1, <3>2
  <2> QED BY <1>7, <2>1, <2>3, <2>4 DEF From
<1>9. (b \o h) \o t = b \o a /\ b \o h \in Seq(Byte)
  <2>0. b \in Seq(Byte) /\ h \in Seq(Byte) /\ t \in Seq(Byte)
    BY <1>5, <1>8
  <2>1. \A x, y, z \in Seq(Byte) : (x \o y) \o z = x \o (y \o z)
    BY SMT, ConcatAssociative
  <2>2. b \o h \in Seq(Byte)
    BY <1>5, <1>8, ConcatProperties
  <2>3. (b \o h) \o t = b \o (h \o t)
    BY <2>0, <2>1
  <2> QED BY <1>8, <2>2, <2>3
<1>10. Settled
  BY <1>1, <1>3 DEF Settled, StreamInv, InFlight
<1>11. StreamInv'
  <2>1. /\ buffer' = [d \in Clients |-> IF d = c THEN b \o h ELSE buffer[d]]
        /\ arriving' = [d \in Clients |-> IF d = c THEN t ELSE arriving[d]]
    BY <1>1, <1>2, <1>4, <1>7 DEF StreamInv
  <2>2. buffer' \in [Clients -> Seq(Byte)] /\ arriving' \in [Clients -> Seq(Byte)]
    BY <1>1, <1>8, <1>9, <2>1 DEF StreamInv
  <2>3. \A d \in Clients : buffer'[d] \o arriving'[d] = buffer[d] \o arriving[d]
    BY <1>4, <1>9, <2>1
  <2>4. \A d : requests(d)' = requests(d)
    BY <1>3 DEF requests
  <2>5. \A d : Encodings(d)' = Encodings(d)
    BY <2>4 DEF Encodings
  <2> QED BY <1>1, <1>3, <2>2, <2>3, <2>4, <2>5 DEF StreamInv
<1>12. BooksInv'
  BY <1>3, <1>10, BooksSettle
<1>13. FlightInv' /\ TaskInv'
  BY <1>1, <1>10, SettledKeeps DEF GatewayInv
<1> QED BY <1>11, <1>12, <1>13 DEF GatewayInv

\* The steps that neither take a request nor write to a device.
LEMMA SettledStep ==
    ASSUME Counting, GatewayInv, Settled, buffer' = buffer, arriving' = arriving, heard' = heard
    PROVE  GatewayInv'
<1>1. StreamInv' /\ FlightInv' /\ TaskInv'
  BY StreamSettles, SettledKeeps DEF GatewayInv
<1>2. BooksInv'
  BY BooksSettle
<1> QED BY <1>1, <1>2 DEF GatewayInv

\* A task that goes on without a read or a write.
LEMMA FollowsStep ==
    ASSUME Counting, GatewayInv, NEW c \in Clients, NEW r, Follows(c, r), broadcasts' = broadcasts,
           buffer' = buffer, arriving' = arriving, heard' = heard
    PROVE  GatewayInv'
<1>1. Settled
  BY FollowsSettles DEF GatewayInv
<1> QED BY <1>1, SettledStep

\* Only pc and reply of the task of c change.
Moves(c, pc, said) ==
    /\ connection' = [connection EXCEPT ![c].pc = pc, ![c].reply = said]
    /\ pc \in {"connect", "send"} => InFlight(c)
    /\ scene' = scene

\* A change of pc and reply is such a step.
LEMMA MovesFollow ==
    ASSUME StreamInv, NEW c \in Clients, NEW pc, NEW said, Moves(c, pc, said)
    PROVE  \E r : Follows(c, r) /\ r.pc = pc
<1>1. PICK old : old = connection[c]
  OBVIOUS
<1>2. connection = [d \in Clients |-> connection[d]] /\ IsConnection(old)
  BY <1>1 DEF StreamInv
<1>3. PICK r : r = [old EXCEPT !.pc = pc, !.reply = said]
  OBVIOUS
<1>4. r = [pc |-> pc, frame |-> old.frame, route |-> old.route, taken |-> old.taken, reply |-> said]
  BY <1>2, <1>3 DEF IsConnection
<1>5. /\ r.pc = pc /\ r.frame = old.frame /\ r.route = old.route /\ r.taken = old.taken /\ IsConnection(r)
  BY <1>4 DEF IsConnection
<1>6. connection' = [connection EXCEPT ![c] = r]
  BY <1>1, <1>2, <1>3 DEF Moves
<1>7. Follows(c, r)
  BY <1>1, <1>5, <1>6 DEF Follows, Moves
<1> QED BY <1>5, <1>7

\* So is an exception for the client,
LEMMA FailedMoves ==
    ASSUME NEW c, NEW code, failed(c, code), scene' = scene
    PROVE  \E said : Moves(c, "reply", said)
BY DEF failed, Moves

\* as well as a change of pc alone.
LEMMA AdvanceMoves ==
    ASSUME StreamInv, NEW c \in Clients, NEW pc, connection' = [connection EXCEPT ![c].pc = pc],
           pc \in {"connect", "send"} => InFlight(c), scene' = scene
    PROVE  Moves(c, pc, connection[c].reply)
<1>1. PICK old : old = connection[c]
  OBVIOUS
<1>2. connection = [d \in Clients |-> connection[d]] /\ IsConnection(old)
  BY <1>1 DEF StreamInv
<1>3. [old EXCEPT !.pc = pc] = [old EXCEPT !.pc = pc, !.reply = old.reply]
  BY <1>2 DEF IsConnection
<1> QED BY <1>1, <1>2, <1>3 DEF Moves

\* and so are the end of a connection and its return to receive.
LEMMA CloseFollows ==
    ASSUME NEW c \in Clients, NEW r, r \in {[Closed EXCEPT !.taken = connection[c].taken],
                                            [Closed EXCEPT !.pc = "receive", !.taken = connection[c].taken]},
           connection' = [connection EXCEPT ![c] = r], scene' = scene
    PROVE  Follows(c, r)
<1>1. r.pc \in {"closed", "receive"} /\ r.taken = connection[c].taken /\ IsConnection(r)
  BY DEF Closed, IsConnection
<1> QED BY <1>1 DEF Follows

\* A task that moves on without a write.
LEMMA MovesKeep ==
    ASSUME Counting, GatewayInv, NEW c \in Clients, NEW pc, NEW said, Moves(c, pc, said), broadcasts' = broadcasts,
           buffer' = buffer, arriving' = arriving, heard' = heard
    PROVE  GatewayInv'
<1>1. PICK r : Follows(c, r)
  BY MovesFollow DEF GatewayInv
<1> QED BY <1>1, FollowsStep

\* accept, below the limit and at it.
LEMMA AcceptKeeps ==
    ASSUME Counting, GatewayInv, NEW c \in Clients, accept(c)
    PROVE  GatewayInv'
<1>1. PICK pc \in {"receive", "closed"} : connection' = [connection EXCEPT ![c].pc = pc]
  BY DEF accept
<1>2. scene' = scene /\ buffer' = buffer /\ arriving' = arriving /\ heard' = heard /\ broadcasts' = broadcasts
  BY DEF accept
<1>3. Moves(c, pc, connection[c].reply)
  BY <1>1, <1>2, AdvanceMoves DEF GatewayInv
<1> QED BY <1>2, <1>3, MovesKeep

\* connect_with_framing_policy, whether or not it succeeds.
LEMMA ConnectKeeps ==
    ASSUME Counting, GatewayInv, NEW c \in Clients, connect_with_framing_policy(c)
    PROVE  GatewayInv'
<1>1. scene' = scene /\ buffer' = buffer /\ arriving' = arriving /\ heard' = heard /\ broadcasts' = broadcasts
  BY DEF connect_with_framing_policy
<1>2. \E pc, said : Moves(c, pc, said)
  <2>1. CASE connection' = [connection EXCEPT ![c].pc = "send"]
    <3>1. InFlight(c)
      BY DEF connect_with_framing_policy, at, InFlight
    <3>2. Moves(c, "send", connection[c].reply)
      BY <1>1, <2>1, <3>1, AdvanceMoves DEF GatewayInv
    <3> QED BY <3>2
  <2>2. CASE failed(c, GatewayPathUnavailable)
    BY <1>1, <2>2, FailedMoves
  <2> QED BY <2>1, <2>2 DEF connect_with_framing_policy
<1> QED BY <1>1, <1>2, MovesKeep

\* What the device says, or its silence, only fills in the reply.
LEMMA RecvKeeps ==
    ASSUME Counting, GatewayInv, NEW c \in Clients, rtu_recv(c) \/ rtu_recv_fails(c)
    PROVE  GatewayInv'
<1>1. /\ scene' = scene /\ buffer' = buffer /\ arriving' = arriving /\ heard' = heard /\ broadcasts' = broadcasts
      /\ failed(c, GatewayTargetDeviceFailedToRespond) \/ \E response : relay(c, response)
  BY DEF rtu_recv, responded, rtu_recv_fails
<1>2. \E said : Moves(c, "reply", said)
  <2>1. CASE failed(c, GatewayTargetDeviceFailedToRespond)
    BY <1>1, <2>1, FailedMoves
  <2>2. ASSUME NEW response, relay(c, response), ~failed(c, GatewayTargetDeviceFailedToRespond)
        PROVE  \E said : Moves(c, "reply", said)
    <3>1. PICK said : connection' = [connection EXCEPT ![c].pc = "reply", ![c].reply = said]
      BY <2>2 DEF relay
    <3> QED BY <1>1, <3>1 DEF Moves
  <2> QED BY <1>1, <2>1, <2>2
<1> QED BY <1>1, <1>2, MovesKeep

\* A stream that ends or breaks, and a reply, sent or not.
LEMMA CloseKeeps ==
    ASSUME Counting, GatewayInv, NEW c \in Clients, receive_fails(c) \/ reply(c) \/ reply_fails(c)
    PROVE  GatewayInv'
<1>1. scene' = scene /\ buffer' = buffer /\ arriving' = arriving /\ heard' = heard /\ broadcasts' = broadcasts
  BY DEF receive_fails, reply, reply_fails
<1>2. PICK r \in {[Closed EXCEPT !.taken = connection[c].taken],
                  [Closed EXCEPT !.pc = "receive", !.taken = connection[c].taken]} :
         connection' = [connection EXCEPT ![c] = r]
  BY DEF receive_fails, reply, reply_fails, close
<1>3. Follows(c, r)
  BY <1>1, <1>2, CloseFollows
<1> QED BY <1>1, <1>3, FollowsStep

\* The steps of no task: the octets of a device, the accept loop, and rest.
LEMMA IdleKeeps ==
    ASSUME Counting, GatewayInv, (\E c \in Clients : device_octets(c)) \/ accept_loop_ends \/ UNCHANGED vars
    PROVE  GatewayInv'
<1>1. /\ scene' = scene /\ buffer' = buffer /\ arriving' = arriving /\ heard' = heard
      /\ broadcasts' = broadcasts /\ connection' = connection
  BY DEF device_octets, accept_loop_ends, vars
<1>2. Settled
  BY <1>1 DEF GatewayInv, StreamInv, Settled, InFlight
<1> QED BY <1>1, <1>2, SettledStep

\* A send writes the request it owed once, and a send that fails at most once.
LEMMA SendKeeps ==
    ASSUME Counting, GatewayInv, NEW c \in Clients, rtu_send(c) \/ rtu_send_fails(c)
    PROVE  GatewayInv'
<1>1. StreamInv /\ FlightInv /\ TaskInv
  BY DEF GatewayInv
<1>2. scene' = scene /\ buffer' = buffer /\ arriving' = arriving /\ broadcasts' = broadcasts /\ InFlight(c)
  BY DEF rtu_send, rtu_send_fails, at, InFlight
<1>3. \E pc \in {"await", "reply"} : \E said : Moves(c, pc, said)
  <2>1. CASE rtu_send(c)
    <3>1. connection' = [connection EXCEPT ![c].pc = "await"]
      BY <2>1 DEF rtu_send
    <3>2. Moves(c, "await", connection[c].reply)
      BY <1>1, <1>2, <3>1, AdvanceMoves
    <3> QED BY <3>2
  <2>2. CASE rtu_send_fails(c)
    BY <1>2, <2>2, FailedMoves DEF rtu_send_fails
  <2> QED BY <2>1, <2>2
<1>4. PICK r : Follows(c, r) /\ r.pc \in {"await", "reply"}
  BY SMT, <1>1, <1>3, MovesFollow
<1>5. Settled /\ connection'[c] = r
  BY <1>1, <1>2, <1>4, FollowsSettles
<1>6. PICK q, k, b, adu : /\ q = connection[c].frame /\ k = connection[c].taken
                          /\ b = Routes[connection[c].route].backend /\ adu = Sent(q)
  OBVIOUS
<1>7. /\ k \in 1..Len(requests(c)) /\ q = requests(c)[k] /\ q.unit # 0
      /\ connection[c].route = resolve_route(q.unit) /\ connection[c].route # 0
  BY <1>1, <1>2, <1>6 DEF FlightInv
<1>8. b \in Backends
  BY <1>6, <1>7, RouteFound
<1>9. <<c, k>> \in OwedTo(b, adu)
  <2>1. <<c, k>> \in Taken
    <3>1. k \in 1..connection[c].taken
      BY SMT, <1>6, <1>7
    <3> QED BY <3>1, TakenIs
  <2>2. Owes(b, adu, <<c, k>>)
    BY <1>2, <1>6, <1>7 DEF Owes
  <2> QED BY <2>1, <2>2 DEF OwedTo
<1>10. <<c, k>> \notin OwedTo(b, adu)'
  <2> SUFFICES ASSUME Owes(b, adu, <<c, k>>)' PROVE FALSE
    BY DEF OwedTo
  <2>1. ~InFlight(c)'
    BY <1>4, <1>5 DEF InFlight
  <2>2. PICK t \in broadcasts : t.client = c /\ t.nth = k
    BY <1>2, <2>1 DEF Owes
  <2>3. requests(c)[k].unit = 0
    BY <1>1, <2>2 DEF TaskInv, IsTask
  <2> QED BY <1>7, <2>3
<1>11. heard' = heard \/ write_to(b, adu)
  BY <1>6 DEF rtu_send, rtu_send_fails, Sent
<1>12. CASE heard' = heard
  BY <1>2, <1>5, <1>12, SettledStep
<1>13. CASE write_to(b, adu)
  <2>1. BooksInv'
    BY <1>5, <1>8, <1>9, <1>10, <1>13, BooksSend
  <2>2. StreamInv' /\ FlightInv' /\ TaskInv'
    BY <1>1, <1>2, <1>5, StreamSettles, SettledKeeps
  <2> QED BY <2>1, <2>2 DEF GatewayInv
<1> QED BY <1>11, <1>12, <1>13

\* An address has one entry in all_backends, and that is an entry of the table.
LEMMA OneEntry ==
    /\ \A i \in all_backends : Routes[i].backend \in Backends
    /\ \A i, j \in all_backends : Routes[i].backend = Routes[j].backend => i = j
<1>1. \A i \in all_backends : i \in DOMAIN Routes /\ \A j \in 1..i - 1 : Routes[j].backend # Routes[i].backend
  BY DEF all_backends
<1>2. DOMAIN Routes = 1..Len(Routes) /\ Len(Routes) \in Nat
  BY SMT, RoutesAssumption
<1>3. \A i \in all_backends : Routes[i].backend \in Backends
  BY <1>1 DEF Backends
<1>4. ASSUME NEW i \in all_backends, NEW j \in all_backends, Routes[i].backend = Routes[j].backend, i # j
      PROVE  FALSE
  <2>1. i \in Nat /\ j \in Nat /\ 1 <= i /\ 1 <= j
    BY SMT, <1>1, <1>2
  <2>2. i \in 1..j - 1 \/ j \in 1..i - 1
    BY SMT, <1>4, <2>1
  <2> QED BY <1>1, <1>4, <2>2
<1> QED BY <1>3, <1>4

\* A broadcast task writes its copy at most once and is gone: no other task owes the
\* same broadcast to the same address.
LEMMA BroadcastKeeps ==
    ASSUME Counting, GatewayInv, NEW t \in broadcasts, broadcast_task(t)
    PROVE  GatewayInv'
<1>1. StreamInv /\ FlightInv /\ TaskInv
  BY DEF GatewayInv
<1>2. /\ scene' = scene /\ buffer' = buffer /\ arriving' = arriving /\ connection' = connection
      /\ broadcasts' = broadcasts \ {t}
  BY DEF broadcast_task
<1>3. Settled
  BY <1>1, <1>2 DEF StreamInv, Settled, InFlight
<1>4. PICK c, k, b, adu : c = t.client /\ k = t.nth /\ b = t.backend /\ adu = encode_frame(t.frame).val
  OBVIOUS
<1>5. /\ c \in Clients /\ k \in 1..connection[c].taken /\ requests(c)[k].unit = 0
      /\ t.copy \in all_backends /\ b = Routes[t.copy].backend /\ adu = Sent(requests(c)[k])
      /\ t = [client |-> c, nth |-> k, copy |-> t.copy, backend |-> b, frame |-> mbap_to_rtu(requests(c)[k])]
  BY <1>1, <1>4 DEF TaskInv, IsTask, Sent
<1>6. b \in Backends
  BY <1>5, OneEntry
<1>7. <<c, k>> \in OwedTo(b, adu)
  <2>1. <<c, k>> \in Taken
    BY <1>5, TakenIs
  <2>2. Owes(b, adu, <<c, k>>)
    BY <1>4, <1>5 DEF Owes
  <2> QED BY <2>1, <2>2 DEF OwedTo
<1>8. <<c, k>> \notin OwedTo(b, adu)'
  <2> SUFFICES ASSUME Owes(b, adu, <<c, k>>)' PROVE FALSE
    BY DEF OwedTo
  <2>1. CASE InFlight(c)' /\ connection'[c].taken = k
    <3>1. InFlight(c) /\ connection[c].taken = k
      BY <1>2, <2>1 DEF InFlight
    <3> QED BY <1>1, <1>5, <3>1 DEF FlightInv
  <2>2. CASE \E u \in broadcasts' : u.client = c /\ u.nth = k /\ u.backend = b
    <3>1. PICK u \in broadcasts : u # t /\ u.client = c /\ u.nth = k /\ u.backend = b
      BY <1>2, <2>2
    <3>2. /\ u.copy \in all_backends /\ b = Routes[u.copy].backend
          /\ u = [client |-> c, nth |-> k, copy |-> u.copy, backend |-> b, frame |-> mbap_to_rtu(requests(c)[k])]
      BY <1>1, <3>1 DEF TaskInv, IsTask
    <3>3. u.copy = t.copy
      BY <1>5, <3>2, OneEntry
    <3> QED BY <1>5, <3>1, <3>2, <3>3
  <2> QED BY <2>1, <2>2 DEF Owes
<1>9. heard' = heard \/ write_to(b, adu)
  BY <1>4 DEF broadcast_task
<1>10. CASE heard' = heard
  BY <1>2, <1>3, <1>10, SettledStep
<1>11. CASE write_to(b, adu)
  <2>1. BooksInv'
    BY <1>3, <1>6, <1>7, <1>8, <1>11, BooksSend
  <2>2. StreamInv' /\ FlightInv' /\ TaskInv'
    BY <1>1, <1>2, <1>3, StreamSettles, SettledKeeps
  <2> QED BY <2>1, <2>2 DEF GatewayInv
<1> QED BY <1>9, <1>10, <1>11

\* At first nothing is taken, nothing heard, and every stream is whole.
LEMMA InitHolds ==
    ASSUME Counting, Init
    PROVE  GatewayInv
<1>1. /\ scene \in Scenes /\ broadcasts = {} /\ heard = [b \in Backends |-> <<>>]
      /\ buffer = [c \in Clients |-> <<>>] /\ arriving = [c \in Clients |-> stream(c)]
      /\ connection = [c \in Clients |-> [Closed EXCEPT !.pc = "new"]]
  BY DEF Init
<1>2. PICK r : r = [Closed EXCEPT !.pc = "new"]
  OBVIOUS
<1>3. r.pc = "new" /\ r.taken = 0 /\ IsConnection(r)
  BY <1>2 DEF Closed, IsConnection
<1>4. \A c \in Clients : connection[c] = r
  BY <1>1, <1>2
<1>5. ASSUME NEW c \in Clients
      PROVE  /\ stream(c) \in Seq(Byte) /\ stream(c) = octets_from(Encodings(c))[0 + 1]
             /\ Len(requests(c)) \in Nat
  <2>1. requests(c) \in Seq(Request)
    BY <1>1, ScenesAssumption DEF requests
  <2>2. PICK e, n : e = Encodings(c) /\ n = Len(requests(c))
    OBVIOUS
  <2>3. \A i \in 1..n : requests(c)[i] \in Request
    BY SMT, <2>1, <2>2
  <2>4. \A i \in 1..n : Encoded(requests(c)[i]) \in Seq(Byte)
    BY <2>3, EncodedIs DEF IsEncoded
  <2>5. n \in Nat /\ DOMAIN requests(c) = 1..n
    BY SMT, <2>1, <2>2
  <2>6. e = [i \in 1..n |-> Encoded(requests(c)[i])]
    BY <2>2, <2>5 DEF Encodings
  <2>7. e \in Seq(Seq(Byte))
    BY SMT, <2>4, <2>5, <2>6, IsASeq
  <2>8. stream(c) = octets(e)
    BY <2>2 DEF stream, Encodings, Encoded
  <2>9. octets_from(e)[1] \in Seq(Byte)
    BY SMT, <2>7, OctetsTyped
  <2>10. 0 + 1 = 1
    BY SMT
  <2> QED BY <2>2, <2>5, <2>8, <2>9, <2>10 DEF octets
<1>6. StreamInv
  <2>1. connection = [c \in Clients |-> connection[c]]
    BY <1>1
  <2>2. \A c \in Clients : IsConnection(connection[c]) /\ connection[c].taken \in 0..Len(requests(c))
    BY SMT, <1>3, <1>4, <1>5
  <2>3. <<>> \in Seq(Byte) /\ \A s \in Seq(Byte) : <<>> \o s = s
    BY EmptySeq, ConcatEmptySeq
  <2>4. buffer \in [Clients -> Seq(Byte)] /\ arriving \in [Clients -> Seq(Byte)]
    BY <1>1, <1>5, <2>3
  <2>5. \A c \in Clients : buffer[c] \o arriving[c] = octets_from(Encodings(c))[connection[c].taken + 1]
    BY <1>1, <1>3, <1>4, <1>5, <2>3
  <2> QED BY <1>1, <2>1, <2>2, <2>4, <2>5 DEF StreamInv
<1>7. FlightInv /\ TaskInv
  BY <1>1, <1>3, <1>4 DEF FlightInv, InFlight, TaskInv
<1>8. Taken = {}
  BY SMT, <1>3, <1>4 DEF Taken
<1>9. BooksInv
  <2>1. \A b, adu : OwedTo(b, adu) = {} /\ AskedBy(b, adu) = {}
    BY <1>8 DEF OwedTo, AskedBy
  <2>2. Cardinality({}) = 0 /\ IsFiniteSet({})
    BY DEF Counting, EmptyCounts
  <2>3. DOMAIN <<>> = {} /\ IsATally(<<>>)
    BY SMT DEF IsATally
  <2>4. \A b \in Backends : heard[b] = <<>>
    BY <1>1
  <2>5. \A b \in Backends : \A adu : times(heard[b], adu) = 0
    BY <2>3, <2>4 DEF times
  <2>6. \A b \in Backends : \A adu :
           times(heard[b], adu) + Cardinality(OwedTo(b, adu)) <= Cardinality(AskedBy(b, adu))
    BY SMT, <2>1, <2>2, <2>5
  <2>7. heard = [b \in Backends |-> heard[b]]
    BY <1>1
  <2> QED BY <1>8, <2>2, <2>3, <2>4, <2>6, <2>7 DEF BooksInv
<1> QED BY <1>6, <1>7, <1>9 DEF GatewayInv

\* Every step keeps the invariant.
LEMMA NextKeeps ==
    ASSUME Counting, GatewayInv, [Next]_vars
    PROVE  GatewayInv'
<1>1. ASSUME NEW c \in Clients, accept(c) PROVE GatewayInv'
  BY <1>1, AcceptKeeps
<1>2. ASSUME NEW c \in Clients, arrive(c) PROVE GatewayInv'
  BY <1>2, ArriveKeeps
<1>3. ASSUME NEW c \in Clients, receive(c) PROVE GatewayInv'
  BY <1>3, ReceiveKeeps
<1>4. ASSUME NEW c \in Clients, connect_with_framing_policy(c) PROVE GatewayInv'
  BY <1>4, ConnectKeeps
<1>5. ASSUME NEW c \in Clients, rtu_send(c) \/ rtu_send_fails(c) PROVE GatewayInv'
  BY <1>5, SendKeeps
<1>6. ASSUME NEW c \in Clients, rtu_recv(c) \/ rtu_recv_fails(c) PROVE GatewayInv'
  BY <1>6, RecvKeeps
<1>7. ASSUME NEW c \in Clients, receive_fails(c) \/ reply(c) \/ reply_fails(c) PROVE GatewayInv'
  BY <1>7, CloseKeeps
<1>8. ASSUME NEW t \in broadcasts, broadcast_task(t) PROVE GatewayInv'
  BY <1>8, BroadcastKeeps
<1>9. ASSUME (\E c \in Clients : device_octets(c)) \/ accept_loop_ends \/ UNCHANGED vars PROVE GatewayInv'
  BY <1>9, IdleKeeps
<1> QED
  BY SMT, <1>1, <1>2, <1>3, <1>4, <1>5, <1>6, <1>7, <1>8, <1>9 DEF Next, task, Rest

\* Nobody is served whom the accept loop did not take.
LEMMA OpenStays ==
    ASSUME GatewayInv, [Next]_vars
    PROVE  \/ open' \subseteq open
           \/ \E c \in Clients : open' = open \union {c} /\ Cardinality(open) < scene.limit
<1>1. connection = [c \in Clients |-> connection[c]] /\ \A c \in Clients : IsConnection(connection[c])
  BY DEF GatewayInv, StreamInv
<1>2. ASSUME NEW c \in Clients, accept(c)
      PROVE  open' \subseteq open \/ (open' = open \union {c} /\ Cardinality(open) < scene.limit)
  <2>1. connection' = [d \in Clients |-> IF d = c THEN connection'[c] ELSE connection[d]]
    BY <1>1, <1>2 DEF accept
  <2>2. connection'[c].pc = IF Cardinality(open) < scene.limit THEN "receive" ELSE "closed"
    BY SMT, <1>1, <1>2 DEF accept, IsConnection
  <2>3. \A d \in Clients : d # c => connection'[d] = connection[d]
    BY <2>1
  <2>4. \A d \in Clients : d # c => (d \in open' <=> d \in open)
    BY <2>3 DEF open
  <2>5. c \notin open /\ open' \subseteq Clients /\ open \subseteq Clients
    BY <1>2 DEF accept, at, open
  <2>6. CASE Cardinality(open) < scene.limit
    <3>1. c \in open'
      BY <2>2, <2>6 DEF open
    <3> QED BY <2>4, <2>5, <2>6, <3>1
  <2>7. CASE ~(Cardinality(open) < scene.limit)
    <3>1. c \notin open'
      BY <2>2, <2>7 DEF open
    <3>2. open' \subseteq open
      BY <2>3, <3>1 DEF open
    <3> QED BY <3>2
  <2> QED BY <2>6, <2>7
<1>3. ASSUME NEW c \in Clients, c \in open, \A d \in Clients : d # c => connection'[d] = connection[d]
      PROVE  open' \subseteq open
  BY <1>3 DEF open
<1>4. ASSUME NEW c \in Clients, receive_fails(c) \/ task(c)
      PROVE  c \in open /\ \A d \in Clients : d # c => connection'[d] = connection[d]
  <2>1. at(c, "receive") \/ at(c, "connect") \/ at(c, "send") \/ at(c, "await") \/ at(c, "reply")
    BY <1>4 DEF receive_fails, task, receive, connect_with_framing_policy, rtu_send, rtu_send_fails,
                rtu_recv, rtu_recv_fails, reply, reply_fails
  <2>2. c \in open
    BY <2>1 DEF open, at
  <2>3. \A d \in Clients : d # c => connection'[d] = connection[d]
    <3>1. CASE receive(c)
      BY <1>1, <3>1 DEF receive, received, handle_broadcast, handle_unrouted, handle_routed, took
    <3>2. CASE receive_fails(c) \/ reply(c) \/ reply_fails(c)
      BY <1>1, <3>2 DEF receive_fails, reply, reply_fails, close
    <3>3. CASE connect_with_framing_policy(c) \/ rtu_send(c) \/ rtu_send_fails(c)
      BY <1>1, <3>3 DEF connect_with_framing_policy, rtu_send, rtu_send_fails, failed
    <3>4. CASE rtu_recv(c) \/ rtu_recv_fails(c)
      BY <1>1, <3>4 DEF rtu_recv, rtu_recv_fails, responded, relay, failed
    <3> QED BY <1>4, <3>1, <3>2, <3>3, <3>4 DEF task
  <2> QED BY <2>2, <2>3
<1>5. ASSUME connection' = connection PROVE open' \subseteq open
  BY <1>5 DEF open
<1>6. CASE \E c \in Clients : accept(c)
  BY <1>2, <1>6
<1>7. CASE \E c \in Clients : receive_fails(c) \/ task(c)
  BY <1>3, <1>4, <1>7
<1>8. CASE \/ \E c \in Clients : arrive(c) \/ device_octets(c)
           \/ accept_loop_ends \/ (\E t \in broadcasts : broadcast_task(t)) \/ UNCHANGED vars
  BY <1>5, <1>8 DEF arrive, device_octets, accept_loop_ends, broadcast_task, vars
<1> QED BY <1>6, <1>7, <1>8 DEF Next, Rest

\* The books bound what a device has heard.
LEMMA BooksBound ==
    ASSUME Counting, GatewayInv
    PROVE  HeardAtMostOnce
<1> SUFFICES ASSUME NEW b \in Backends, NEW adu \in DOMAIN heard[b]
             PROVE  heard[b][adu] <= Cardinality(AskedBy(b, adu))
  BY DEF HeardAtMostOnce
<1>1. BooksInv
  BY DEF GatewayInv
<1>2. PICK n, o, a : n = heard[b][adu] /\ o = Cardinality(OwedTo(b, adu)) /\ a = Cardinality(AskedBy(b, adu))
  OBVIOUS
<1>3. adu \in DOMAIN heard[b] /\ n \in Nat
  BY <1>1, <1>2 DEF BooksInv, IsATally
<1>4. n + o <= a
  BY <1>1, <1>2, <1>3 DEF BooksInv, times
<1>5. o \in Nat /\ a \in Nat
  <2>1. IsFiniteSet(OwedTo(b, adu)) /\ IsFiniteSet(AskedBy(b, adu))
    BY <1>1, BooksFinite
  <2> QED BY <1>2, <2>1 DEF Counting, CountsAreNatural
<1>6. n <= a
  BY SMT, <1>3, <1>4, <1>5
<1> QED BY <1>2, <1>6

\* At first nobody is served.
LEMMA BoundInit ==
    ASSUME Counting, Init
    PROVE  ConnectionsBounded
<1>1. open = {}
  BY DEF Init, open, Closed
<1>2. scene.limit \in Nat
  BY ScenesAssumption DEF Init
<1> QED BY SMT, <1>1, <1>2 DEF Counting, EmptyCounts, ConnectionsBounded

\* accept takes a client only below the limit, and nothing else opens a connection.
LEMMA BoundNext ==
    ASSUME Counting, GatewayInv, [Next]_vars, ConnectionsBounded
    PROVE  ConnectionsBounded'
<1>1. scene' = scene
  <2>1. ASSUME NEW c \in Clients, task(c) PROVE scene' = scene
    <3>1. CASE receive(c)
      BY <3>1 DEF receive, received, Rest
    <3>2. CASE connect_with_framing_policy(c) \/ rtu_send(c) \/ rtu_send_fails(c)
      BY <3>2 DEF connect_with_framing_policy, rtu_send, rtu_send_fails, Rest
    <3>3. CASE rtu_recv(c)
      BY <3>3 DEF rtu_recv, responded, Rest
    <3>4. CASE rtu_recv_fails(c) \/ reply(c) \/ reply_fails(c)
      BY <3>4 DEF rtu_recv_fails, reply, reply_fails, Rest
    <3> QED BY <2>1, <3>1, <3>2, <3>3, <3>4 DEF task
  <2>2. ASSUME NEW c \in Clients, accept(c) \/ arrive(c) \/ receive_fails(c) PROVE scene' = scene
    BY <2>2 DEF accept, arrive, receive_fails, Rest
  <2>3. ASSUME NEW c \in Clients, device_octets(c) PROVE scene' = scene
    BY <2>3 DEF device_octets, Rest
  <2>4. ASSUME NEW t \in broadcasts, broadcast_task(t) PROVE scene' = scene
    BY <2>4 DEF broadcast_task, Rest
  <2>5. CASE accept_loop_ends
    BY <2>5 DEF accept_loop_ends, Rest
  <2> QED BY <2>1, <2>2, <2>3, <2>4, <2>5 DEF Next, Rest, vars
<1>2. scene.limit \in Nat
  BY ScenesAssumption DEF GatewayInv, StreamInv
<1>3. IsFiniteSet(open) /\ Cardinality(open) \in Nat
  <2>1. open \subseteq Clients /\ IsFiniteSet(Clients)
    BY ScenesAssumption DEF open
  <2> QED BY <2>1 DEF Counting, SubsetCounts, CountsAreNatural
<1>4. CASE open' \subseteq open
  <2>1. IsFiniteSet(open') /\ Cardinality(open') <= Cardinality(open)
    BY <1>3, <1>4 DEF Counting, SubsetCounts
  <2>2. Cardinality(open') \in Nat
    BY <2>1 DEF Counting, CountsAreNatural
  <2> QED BY SMT, <1>1, <1>2, <1>3, <2>1, <2>2 DEF ConnectionsBounded
<1>5. ASSUME NEW c \in Clients, open' = open \union {c}, Cardinality(open) < scene.limit
      PROVE  ConnectionsBounded'
  <2>1. Cardinality(open') = Cardinality(open) \/ Cardinality(open') = Cardinality(open) + 1
    BY <1>3, <1>5 DEF Counting, AddCounts
  <2> QED BY SMT, <1>1, <1>2, <1>3, <1>5, <2>1 DEF ConnectionsBounded
<1> QED BY <1>4, <1>5, OpenStays

-----------------------------------------------------------------------------
(* The theorems *)

INSTANCE FiniteSetTheorems

\* What the lemmas assume about finite sets is true.
LEMMA CountingHolds == Counting
<1>1. EmptyCounts
  BY FS_EmptySet DEF EmptyCounts
<1>2. CountsAreNatural
  BY FS_CardinalityType DEF CountsAreNatural
<1>3. SingletonCounts
  BY FS_Singleton DEF SingletonCounts
<1>4. SubsetCounts
  BY FS_Subset DEF SubsetCounts
<1>5. AddCounts
  BY FS_AddElement DEF AddCounts
<1>6. RemoveCounts
  BY FS_RemoveElement DEF RemoveCounts
<1>7. UnionCounts
  BY FS_Union DEF UnionCounts
<1>8. DifferenceCounts
  BY FS_Difference DEF DifferenceCounts
<1>9. InjectionCounts
  <2> SUFFICES ASSUME NEW S, NEW T, NEW f, IsFiniteSet(T), f \in [S -> T],
                      \A x, y \in S : f[x] = f[y] => x = y
               PROVE  IsFiniteSet(S) /\ Cardinality(S) <= Cardinality(T)
    BY DEF InjectionCounts
  <2>1. f \in Injection(S, T)
    BY DEF Injection, IsInjective
  <2> QED BY <2>1, FS_Injection
<1>10. IntervalCounts
  BY FS_Interval DEF IntervalCounts
<1>11. LeastNatural
  <2> SUFFICES ASSUME NEW T, T \subseteq Nat, T # {} PROVE \E x \in T : \A y \in T : x <= y
    BY DEF LeastNatural
  <2>1. \E x \in T : \A y \in T : ~(<<y, x>> \in OpToRel(<, Nat))
    BY NatLessThanWellFounded, WFMin
  <2>2. PICK x \in T : \A y \in T : ~(<<y, x>> \in OpToRel(<, Nat))
    BY <2>1
  <2>3. \A y \in T : ~(y < x)
    BY <2>2 DEF OpToRel
  <2> QED BY SMT, <2>3
<1> QED BY SMT, <1>1, <1>2, <1>3, <1>4, <1>5, <1>6, <1>7, <1>8, <1>9, <1>10, <1>11 DEF Counting

\* The invariant holds in every reachable state.
THEOREM GatewayInvariant == Spec => []GatewayInv
<1>1. Init => GatewayInv
  BY InitHolds, CountingHolds
<1>2. GatewayInv /\ [Next]_vars => GatewayInv'
  BY NextKeeps, CountingHolds
<1> QED BY <1>1, <1>2, PTL DEF Spec

\* What a device hears was asked, at most once for every request: see
\* HeardAtMostOnce.  The octets of the clients may be cut anywhere, connections
\* and tasks interleave in any order and every send may fail before or after
\* it reached the device.
THEOREM GatewayHeardAtMostOnce == Spec => []HeardAtMostOnce
<1>1. GatewayInv => HeardAtMostOnce
  BY BooksBound, CountingHolds
<1> QED BY <1>1, GatewayInvariant, PTL

\* Never more clients are served at once than max_tcp_connections: see
\* ConnectionsBounded.  The permits of Gateway::start's semaphore bound the tasks.
THEOREM GatewayConnectionsBounded == Spec => []ConnectionsBounded
<1>1. Init => ConnectionsBounded
  BY BoundInit, CountingHolds
<1>2. GatewayInv /\ [Next]_vars /\ ConnectionsBounded => ConnectionsBounded'
  BY BoundNext, CountingHolds
<1> QED BY <1>1, <1>2, GatewayInvariant, PTL DEF Spec

=============================================================================
