------------------------- MODULE MessageReaderProofs -------------------------
(***************************************************************************)
(* Proofs about MessageReader: however the reads cut the messages, each is   *)
(* passed on once, whole and in order, and the buffer stays below the limit. *)
(***************************************************************************)
EXTENDS MessageReader, InductionTheorems

-----------------------------------------------------------------------------
(* What a buffer holds; the reader's never has a third chunk. *)

LEMMA FlattenOne ==
    ASSUME NEW S, NEW s \in Seq(Seq(S)), Len(s) = 1
    PROVE  FlattenSeq(s) = s[1]
<1> DEFINE x == s[1]
           r == <<>>
<1>1. x \in Seq(S) /\ s = Append(r, x) /\ r \in Seq(Seq(S))
  OBVIOUS
<1> HIDE DEF x, r
<1>2. FlattenSeq(Append(r, x)) = FlattenSeq(r) \o x
  BY <1>1, FlattenAppend
<1>3. FlattenSeq(r) \o x = x
  BY <1>1, FlattenNone DEF r
<1> QED BY <1>1, <1>2, <1>3 DEF x

LEMMA FlattenTwo ==
    ASSUME NEW S, NEW s \in Seq(Seq(S)), Len(s) = 2
    PROVE  FlattenSeq(s) = s[1] \o s[2]
<1> DEFINE n == 1
           r == SubSeq(s, 1, n)
           y == s[n + 1]
<1>1. r \in Seq(Seq(S)) /\ Len(r) = 1 /\ y \in Seq(S) /\ s = Append(r, y)
  <2> DEFINE E == Seq(S)
  <2>1. s \in Seq(E) /\ n \in Nat /\ Len(s) = n + 1
    OBVIOUS
  <2>2. n = 1
    OBVIOUS
  <2> HIDE DEF E, n
  <2>3. r \in Seq(E) /\ Len(r) = n /\ y \in E /\ s = Append(r, y)
    BY <2>1, FrontAndLast
  <2> QED BY <2>2, <2>3 DEF E
<1>2. r[1] = s[1] /\ y = s[2]
  OBVIOUS
<1> HIDE DEF r, y
<1>3. FlattenSeq(Append(r, y)) = FlattenSeq(r) \o y
  BY <1>1, FlattenAppend
<1>4. FlattenSeq(r) = r[1]
  BY <1>1, FlattenOne
<1> QED BY <1>1, <1>2, <1>3, <1>4

-----------------------------------------------------------------------------
LEMMA ByteType == \A s, k, i \in Nat : ByteAt(s, k, i) \in Byte
BY DEF Byte, ByteAt

-----------------------------------------------------------------------------
(***************************************************************************)
(* A read into a buffer of one or of two chunks.                             *)
(***************************************************************************)
Read1(b, bytes) == TrimLastChunk(Filled(b, bytes), Transferred(b, bytes))

LEMMA FirstChunks ==
    ASSUME NEW S, NEW b \in Seq(S)
    PROVE  /\ Len(b) = 1 => Last(b) = b[1] /\ Front(b) = <<>> /\ b[1] \in S
           /\ Len(b) = 2 => /\ Last(b) = b[2] /\ Front(b) = <<b[1]>>
                            /\ b[1] \in S /\ b[2] \in S
<1>1. CASE Len(b) = 1
  BY <1>1 DEF Last, Front
<1>2. CASE Len(b) = 2
  <2>1. /\ SubSeq(b, 1, 1) \in Seq(S) /\ Len(SubSeq(b, 1, 1)) = 1
        /\ SubSeq(b, 1, 1)[1] = b[1]
    BY <1>2
  <2>2. <<b[1]>> \in Seq(S) /\ Len(<<b[1]>>) = 1 /\ <<b[1]>>[1] = b[1]
    BY <1>2
  <2>3. SubSeq(b, 1, 1) = <<b[1]>>
    <3> DEFINE t == SubSeq(b, 1, 1)
               u == <<b[1]>>
    <3>2. t \in Seq(S) /\ Len(t) = 1 /\ t[1] = b[1]
      BY <2>1
    <3>3. u \in Seq(S) /\ Len(u) = 1 /\ u[1] = b[1]
      BY <2>2
    <3> HIDE DEF t, u
    <3>1. t = u
      BY <3>2, <3>3
    <3> QED BY <3>1 DEF t, u
  <2>4. Front(b) = SubSeq(b, 1, 1) /\ Last(b) = b[2]
    BY <1>2 DEF Last, Front
  <2>5. b[1] \in S /\ b[2] \in S /\ Len(b) # 1
    BY <1>2
  <2>6. Front(b) = <<b[1]>>
    BY <2>3, <2>4
  <2> QED BY <2>4, <2>5, <2>6
<1> QED BY <1>1, <1>2

LEMMA SecondChunk ==
    ASSUME NEW S, NEW x \in S, NEW y \in S PROVE Append(<<x>>, y) = <<x, y>>
<1> DEFINE a == Append(<<x>>, y)
           c == <<x, y>>
<1>1. a \in Seq(S) /\ Len(a) = 2 /\ a[1] = x /\ a[2] = y
  OBVIOUS
<1>2. c \in Seq(S) /\ Len(c) = 2 /\ c[1] = x /\ c[2] = y
  OBVIOUS
<1> HIDE DEF a, c
<1>3. a = c
  BY <1>1, <1>2
<1> QED BY <1>3 DEF a, c

LEMMA OneFilled ==
    ASSUME NEW b \in Seq(Seq(Byte)), Len(b) = 1, NEW bytes \in Seq(Byte)
    PROVE  /\ Filled(b, bytes) \in Seq(Seq(Byte)) /\ Len(Filled(b, bytes)) = 1
           /\ Len(Filled(b, bytes)[1]) = Len(b[1])
           /\ \A j \in 1 .. Len(b[1]) :
                 j \in 1 .. Len(bytes) => Filled(b, bytes)[1][j] = bytes[j]
           /\ Transferred(b, bytes) \in Nat
           /\ Transferred(b, bytes) = IF Len(bytes) < Len(b[1]) THEN Len(bytes)
                                                              ELSE Len(b[1])
<1> DEFINE c == [k \in DOMAIN b[1] |-> IF k \in DOMAIN bytes THEN bytes[k] ELSE b[1][k]]
<1>1. Last(b) = b[1] /\ Front(b) = <<>> /\ b[1] \in Seq(Byte)
  BY FirstChunks
<1>2. c \in Seq(Byte) /\ Len(c) = Len(b[1])
      /\ \A j \in 1 .. Len(b[1]) : j \in 1 .. Len(bytes) => c[j] = bytes[j]
  BY <1>1
<1> HIDE DEF c
<1>3. Filled(b, bytes) = <<c>>
  BY <1>1 DEF Filled, c
<1>4. <<c>> \in Seq(Seq(Byte)) /\ Len(<<c>>) = 1 /\ <<c>>[1] = c
  BY <1>2
<1>5. Transferred(b, bytes) = IF Len(bytes) < Len(b[1]) THEN Len(bytes) ELSE Len(b[1])
  BY <1>1 DEF Transferred
<1> QED BY <1>1, <1>2, <1>3, <1>4, <1>5

LEMMA OneTrimmed ==
    ASSUME NEW b \in Seq(Seq(Byte)), Len(b) = 1, NEW n \in 0 .. Len(b[1])
    PROVE  /\ TrimLastChunk(b, n) = IF n = 0 THEN <<>> ELSE <<SubSeq(b[1], 1, n)>>
           /\ TrimLastChunk(b, n) \in Seq(Seq(Byte))
           /\ Contents(TrimLastChunk(b, n)) = SubSeq(b[1], 1, n)
<1>1. Last(b) = b[1] /\ Front(b) = <<>> /\ b[1] \in Seq(Byte)
  BY FirstChunks
<1>2. SubSeq(b[1], 1, n) \in Seq(Byte) /\ (n = 0 => SubSeq(b[1], 1, n) = <<>>)
  BY <1>1
<1> DEFINE c == SubSeq(b[1], 1, n)
<1> HIDE DEF c
<1>3. TrimLastChunk(b, n) = IF n = 0 THEN <<>> ELSE <<c>>
  BY <1>1 DEF TrimLastChunk, c
<1>4. <<c>> \in Seq(Seq(Byte)) /\ Len(<<c>>) = 1 /\ <<c>>[1] = c /\ <<>> \in Seq(Seq(Byte))
  BY <1>2 DEF c
<1>5. Contents(<<c>>) = c /\ Contents(<<>>) = <<>>
  BY <1>4, FlattenNone, FlattenOne DEF Contents
<1> QED BY <1>2, <1>3, <1>4, <1>5 DEF c

\* The first chunk takes the message's beginning, whatever the order of the two.
LEMMA FilledThenTrimmed ==
    ASSUME NEW b \in Seq(Seq(Byte)), Len(b) = 1, NEW bytes \in Seq(Byte),
           NEW n \in 0 .. Len(b[1]), n <= Len(bytes)
    PROVE  SubSeq(Filled(b, bytes)[1], 1, n) = SubSeq(bytes, 1, n)
<1> DEFINE c == Filled(b, bytes)[1]
<1>1. /\ c \in Seq(Byte) /\ Len(c) = Len(b[1])
      /\ \A j \in 1 .. Len(b[1]) : j \in 1 .. Len(bytes) => c[j] = bytes[j]
  <2>1. Filled(b, bytes) \in Seq(Seq(Byte)) /\ Len(Filled(b, bytes)) = 1
    BY OneFilled
  <2>2. c \in Seq(Byte)
    BY <2>1, FirstChunks
  <2> QED BY <2>2, OneFilled
<1> HIDE DEF c
<1>2. \A j \in 1 .. n : c[j] = bytes[j]
  <2>1. Len(b[1]) \in Nat /\ Len(bytes) \in Nat
    BY <1>1
  <2>2. \A j \in 1 .. n : j \in 1 .. Len(b[1]) /\ j \in 1 .. Len(bytes)
    BY <2>1
  <2> QED BY <1>1, <2>2
<1>3. /\ SubSeq(c, 1, n) \in Seq(Byte) /\ Len(SubSeq(c, 1, n)) = n
      /\ \A j \in 1 .. n : SubSeq(c, 1, n)[j] = c[j]
  BY <1>1
<1>4. /\ SubSeq(bytes, 1, n) \in Seq(Byte) /\ Len(SubSeq(bytes, 1, n)) = n
      /\ \A j \in 1 .. n : SubSeq(bytes, 1, n)[j] = bytes[j]
  OBVIOUS
<1>5. SubSeq(c, 1, n) = SubSeq(bytes, 1, n)
  BY <1>2, <1>3, <1>4
<1> QED BY <1>5 DEF c

LEMMA OneRead ==
    ASSUME NEW b \in Seq(Seq(Byte)), Len(b) = 1, NEW bytes \in Seq(Byte)
    PROVE  LET n == Transferred(b, bytes) IN
           /\ Read1(b, bytes) = IF n = 0 THEN <<>> ELSE <<SubSeq(bytes, 1, n)>>
           /\ Read1(b, bytes) \in Seq(Seq(Byte))
           /\ Contents(Read1(b, bytes)) = SubSeq(bytes, 1, n)
           /\ n = Len(bytes) => Contents(Read1(b, bytes)) = bytes
<1> DEFINE n == Transferred(b, bytes)
           f == Filled(b, bytes)
<1>1. b[1] \in Seq(Byte) /\ Len(b[1]) \in Nat /\ Len(bytes) \in Nat
  <2>1. b[1] \in Seq(Byte)
    BY FirstChunks
  <2> QED BY <2>1
<1>2. /\ f \in Seq(Seq(Byte)) /\ Len(f) = 1 /\ Len(f[1]) = Len(b[1])
      /\ n \in 0 .. Len(b[1]) /\ n <= Len(bytes)
  <2>1. f \in Seq(Seq(Byte)) /\ Len(f) = 1 /\ Len(f[1]) = Len(b[1])
    BY OneFilled
  <2>2. n = IF Len(bytes) < Len(b[1]) THEN Len(bytes) ELSE Len(b[1])
    BY OneFilled
  <2> HIDE DEF n, f
  <2> QED BY <1>1, <2>1, <2>2
<1>3. SubSeq(f[1], 1, n) = SubSeq(bytes, 1, n)
  BY <1>2, FilledThenTrimmed
<1>4. n = Len(bytes) => SubSeq(bytes, 1, n) = bytes
  OBVIOUS
<1> HIDE DEF n, f
<1>5. /\ TrimLastChunk(f, n) = IF n = 0 THEN <<>> ELSE <<SubSeq(f[1], 1, n)>>
      /\ TrimLastChunk(f, n) \in Seq(Seq(Byte))
      /\ Contents(TrimLastChunk(f, n)) = SubSeq(f[1], 1, n)
  BY <1>2, OneTrimmed
<1>6. Read1(b, bytes) = TrimLastChunk(f, n)
  BY DEF Read1, f, n
<1>7. /\ Read1(b, bytes) = IF n = 0 THEN <<>> ELSE <<SubSeq(bytes, 1, n)>>
      /\ Read1(b, bytes) \in Seq(Seq(Byte))
      /\ Contents(Read1(b, bytes)) = SubSeq(bytes, 1, n)
      /\ n = Len(bytes) => Contents(Read1(b, bytes)) = bytes
  BY <1>3, <1>4, <1>5, <1>6
<1> QED BY <1>7 DEF n

LEMMA TwoRead ==
    ASSUME NEW b \in Seq(Seq(Byte)), Len(b) = 2, NEW bytes \in Seq(Byte),
           Len(b[2]) = Len(bytes), Len(bytes) > 0
    PROVE  /\ Transferred(b, bytes) = Len(bytes)
           /\ Contents(Read1(b, bytes)) = b[1] \o bytes
           /\ Read1(b, bytes) \in Seq(Seq(Byte))
<1>1. Last(b) = b[2] /\ Front(b) = <<b[1]>> /\ b[1] \in Seq(Byte) /\ b[2] \in Seq(Byte)
  BY FirstChunks
<1>2. Transferred(b, bytes) = Len(bytes)
  BY <1>1 DEF Transferred
<1> DEFINE c == [k \in DOMAIN b[2] |-> IF k \in DOMAIN bytes THEN bytes[k] ELSE b[2][k]]
<1>3. c = bytes
  BY <1>1
<1> HIDE DEF c
<1>4. Filled(b, bytes) = <<b[1], bytes>>
  <2>1. Filled(b, bytes) = Append(<<b[1]>>, c)
    BY <1>1 DEF Filled, c
  <2> QED BY <2>1, <1>1, <1>3, SecondChunk
<1> DEFINE f == <<b[1], bytes>>
<1>5. /\ f \in Seq(Seq(Byte)) /\ Len(f) = 2 /\ f[1] = b[1] /\ f[2] = bytes
  BY <1>1
<1>6. Last(f) = bytes /\ Front(f) = <<b[1]>>
  BY <1>5, FirstChunks
<1>7. SubSeq(bytes, 1, Len(bytes)) = bytes /\ Len(bytes) # 0
  OBVIOUS
<1> HIDE DEF f
<1>8. TrimLastChunk(f, Len(bytes)) = Append(<<b[1]>>, bytes)
  BY <1>6, <1>7 DEF TrimLastChunk
<1>9. Append(<<b[1]>>, bytes) = f
  BY <1>1, SecondChunk DEF f
<1>10. Read1(b, bytes) = f
  BY <1>2, <1>4, <1>8, <1>9 DEF Read1, f
<1>11. Contents(f) = b[1] \o bytes
  BY <1>5, FlattenTwo DEF Contents
<1> QED BY <1>2, <1>5, <1>10, <1>11

\* SetCount appends a chunk; the chunks before it stay as they are.
LEMMA ChunkAdded ==
    ASSUME NEW b \in Seq(Seq(Byte)), NEW size \in Nat
    PROVE  /\ AddBuffer(b, size) \in Seq(Seq(Byte))
           /\ Len(AddBuffer(b, size)) = Len(b) + 1
           /\ Len(b) = 0 => Len(AddBuffer(b, size)[1]) = size
           /\ Len(b) = 1 => /\ AddBuffer(b, size)[1] = b[1]
                            /\ Len(AddBuffer(b, size)[2]) = size
<1> DEFINE c == [k \in 1 .. size |-> Junk]
<1>1. c \in Seq(Byte) /\ Len(c) = size
  <2>1. Junk \in Byte
    BY DEF Junk, Byte
  <2> HIDE DEF Junk
  <2> QED BY <2>1
<1> HIDE DEF c
<1>2. AddBuffer(b, size) = Append(b, c)
  BY DEF AddBuffer, c
<1>3. /\ Append(b, c) \in Seq(Seq(Byte)) /\ Len(Append(b, c)) = Len(b) + 1
      /\ Append(b, c)[Len(b) + 1] = c
      /\ \A k \in 1 .. Len(b) : Append(b, c)[k] = b[k]
  BY <1>1
<1>4. Len(b) = 0 => Append(b, c)[1] = c
  BY <1>1
<1>5. Len(b) = 1 => Append(b, c)[1] = b[1] /\ Append(b, c)[2] = c
  <2>1. Len(b) = 1 => 1 \in 1 .. Len(b) /\ Len(b) + 1 = 2
    OBVIOUS
  <2>2. Len(b) = 1 => Append(b, c)[1] = b[1]
    BY <1>3, <2>1
  <2>3. Len(b) = 1 => Append(b, c)[2] = c
    BY <1>3, <2>1, Zenon
  <2> QED BY <2>2, <2>3
<1> QED BY <1>1, <1>2, <1>3, <1>4, <1>5

\* GetCount of the buffers there are.
LEMMA CountOf ==
    ASSUME NEW b \in Seq(Seq(Byte))
    PROVE  /\ b = <<>> => GetCount(b) = 0
           /\ Len(b) = 1 => GetCount(b) = Len(b[1]) /\ Len(b[1]) \in Nat
           /\ Len(b) = 2 => /\ GetCount(b) = Len(b[1]) + Len(b[2])
                            /\ Len(b[1]) \in Nat /\ Len(b[2]) \in Nat
<1>1. ASSUME b = <<>> PROVE GetCount(b) = 0
  BY <1>1, FlattenNone DEF GetCount, Contents
<1>2. ASSUME Len(b) = 1 PROVE GetCount(b) = Len(b[1]) /\ Len(b[1]) \in Nat
  <2>1. b[1] \in Seq(Byte)
    BY <1>2, FirstChunks
  <2> QED BY <1>2, <2>1, FlattenOne DEF GetCount, Contents
<1>3. ASSUME Len(b) = 2
      PROVE  /\ GetCount(b) = Len(b[1]) + Len(b[2])
             /\ Len(b[1]) \in Nat /\ Len(b[2]) \in Nat
  <2>1. b[1] \in Seq(Byte) /\ b[2] \in Seq(Byte)
    BY <1>3, FirstChunks
  <2>2. GetCount(b) = Len(b[1] \o b[2])
    BY <1>3, FlattenTwo DEF GetCount, Contents
  <2> QED BY <2>1, <2>2
<1> QED BY <1>1, <1>2, <1>3

LEMMA TailOfPipe ==
    ASSUME NEW S, NEW q \in Seq(S), q # <<>>
    PROVE  /\ Tail(q) \in Seq(S) /\ Len(Tail(q)) = Len(q) - 1
           /\ \A j \in 1 .. (Len(q) - 1) : Tail(q)[j] = q[j + 1]
           /\ Head(q) = q[1] /\ q[1] \in S /\ Len(q) \in Nat \ {0}
OBVIOUS

LEMMA HeadReplaced ==
    ASSUME NEW S, NEW q \in Seq(S), q # <<>>, NEW x \in S
    PROVE  /\ <<x>> \o Tail(q) \in Seq(S) /\ Len(<<x>> \o Tail(q)) = Len(q)
           /\ (<<x>> \o Tail(q))[1] = x
           /\ \A j \in 1 .. Len(q) : j > 1 => (<<x>> \o Tail(q))[j] = q[j]
<1> DEFINE t == Tail(q)
<1>1. /\ t \in Seq(S) /\ Len(t) = Len(q) - 1 /\ Len(q) \in Nat \ {0}
      /\ \A j \in 1 .. (Len(q) - 1) : t[j] = q[j + 1]
  BY TailOfPipe
<1> HIDE DEF t
<1>2. <<x>> \in Seq(S) /\ Len(<<x>>) = 1 /\ <<x>>[1] = x
  OBVIOUS
<1>3. /\ <<x>> \o t \in Seq(S) /\ Len(<<x>> \o t) = Len(q)
      /\ (<<x>> \o t)[1] = x
  BY <1>1, <1>2
<1>4. \A j \in 1 .. Len(q) : j > 1 => (<<x>> \o t)[j] = t[j - 1]
  BY <1>1, <1>2
<1>5. \A j \in 1 .. Len(q) : j > 1 => t[j - 1] = q[j]
  BY <1>1
<1>6. \A j \in 1 .. Len(q) : j > 1 => (<<x>> \o t)[j] = q[j]
  BY <1>4, <1>5
<1> QED BY <1>3, <1>6 DEF t

LEMMA OneMore ==
    ASSUME NEW S, NEW q \in Seq(S), NEW x \in S
    PROVE  /\ Append(q, x) \in Seq(S) /\ Len(Append(q, x)) = Len(q) + 1
           /\ Append(q, x)[Len(q) + 1] = x /\ Len(q) \in Nat
           /\ \A j \in 1 .. Len(q) : Append(q, x)[j] = q[j]
OBVIOUS

-----------------------------------------------------------------------------
(***************************************************************************)
(* What the invariant says of a state.                                       *)
(***************************************************************************)
LEMMA Numbers ==
    ASSUME TypeOK
    PROVE  /\ session \in Nat /\ Len(sent) \in Nat /\ Len(delivered) \in Nat
           /\ Len(m_inputBuffer) \in Nat
           /\ Current = Len(delivered) + 1 /\ Current \in Nat
           /\ DOMAIN sent = 1 .. Len(sent)
           /\ \A k \in 1 .. Len(sent) : sent[k] \in Nat
           /\ First \in Nat
<1>1. session \in Nat /\ sent \in Seq(Sizes)
  <2>1. session \in Nat
    BY ReaderBoundsAssumption DEF TypeOK
  <2>2. sent \in Seq(Sizes)
    BY DEF TypeOK
  <2> QED BY <2>1, <2>2
<1>2. Len(delivered) \in Nat /\ Len(m_inputBuffer) \in Nat
  BY DEF TypeOK
<1>3. Len(sent) \in Nat /\ DOMAIN sent = 1 .. Len(sent) /\ \A k \in 1 .. Len(sent) : sent[k] \in Nat
  <2>1. Len(sent) \in Nat /\ DOMAIN sent = 1 .. Len(sent) /\ \A k \in 1 .. Len(sent) : sent[k] \in Sizes
    BY <1>1
  <2> QED BY <2>1, SizesAssumption
<1> QED BY <1>1, <1>2, <1>3 DEF Current, First

\* The first message in the pipe.
LEMMA HeadOfPipe ==
    ASSUME MInv, ~gone, inbound # <<>>
    PROVE  /\ Head(inbound) = inbound[1] /\ inbound[1] \in Seq(Byte)
           /\ Len(inbound[1]) \in Nat /\ Len(inbound[1]) <= sent[First]
           /\ Len(inbound) \in Nat \ {0}
           /\ First \in 1 .. Len(sent) /\ sent[First] \in Nat
           /\ inbound[1] = Bytes(session, First, sent[First] - Len(inbound[1]),
                                 Len(inbound[1]))
           /\ HeadIs(Len(inbound[1]))
<1>1. TypeOK /\ PipeHolds
  BY DEF MInv
<1>2. inbound \in Seq(Seq(Byte))
  BY <1>1 DEF TypeOK
<1>3. /\ Head(inbound) = inbound[1] /\ inbound[1] \in Seq(Byte)
      /\ Len(inbound) \in Nat \ {0} /\ 1 \in DOMAIN inbound
  BY <1>2, TailOfPipe
<1>4. Len(inbound[1]) \in Nat
  BY <1>3
<1>5. Len(inbound) = Len(sent) + 1 - First
  BY <1>1 DEF PipeHolds
<1>6. First \in 1 .. Len(sent)
  <2>1. First \in Nat \ {0}
    BY <1>1, Numbers DEF First
  <2> QED BY <2>1, <1>1, <1>3, <1>5, Numbers
<1>7. inbound[1] = LastBytes(First, Len(inbound[1]))
  <2>1. First + 1 - 1 = First
    BY <1>6
  <2>2. inbound[1] = LastBytes(First + 1 - 1, Len(inbound[1]))
    BY <1>1, <1>3 DEF PipeHolds
  <2> QED BY <2>1, <2>2, Zenon
<1>8. Len(inbound[1]) <= sent[First] /\ HeadIs(Len(inbound[1]))
  BY <1>1 DEF PipeHolds
<1> QED BY <1>1, <1>3, <1>4, <1>6, <1>7, <1>8, Numbers DEF LastBytes

\* A chunk that is kept has its message in the pipe.
LEMMA KeptIsInPipe ==
    ASSUME MInv, ~gone, pc # "done", KeptChunk
    PROVE  inbound # <<>>
<1>1. TypeOK /\ PipeHolds
  BY DEF MInv
<1>2. First = Current /\ Current \in 1 .. Len(sent)
  BY <1>1, Numbers DEF First, KeptChunk
<1>3. Len(inbound) = Len(sent) + 1 - First
  BY <1>1 DEF PipeHolds
<1>4. Len(inbound) > 0
  BY <1>1, <1>2, <1>3, Numbers
<1> QED BY <1>4

\* First names the same message as before.
LEMMA SameFirst ==
    ASSUME pc # "done", pc' # "done", UNCHANGED delivered
    PROVE  First' = First /\ First = Current /\ Current' = Current
BY DEF First, Current

\* The messages passed on stay those of the session.
LEMMA SameArrivals ==
    ASSUME MessagesArriveWhole, UNCHANGED <<session, sent, delivered>>
    PROVE  MessagesArriveWhole'
BY DEF MessagesArriveWhole, Message

-----------------------------------------------------------------------------
(***************************************************************************)
(* The steps of the reader.                                                  *)
(***************************************************************************)
LEMMA PeekKeeps == ASSUME MInv, Peek PROVE MInv'
<1>1. TypeOK /\ ChunksHold /\ PipeHolds /\ MessagesArriveWhole
  BY DEF MInv
<1>2. /\ pc = "peek" /\ ~gone /\ pc' = "read"
      /\ UNCHANGED <<result, inbound, gone, session, sent, delivered>>
  BY DEF Peek, peerVars
<1>3. First' = First /\ First = Current /\ Current' = Current
  BY <1>2, SameFirst
<1>4. m_inputBuffer \in Seq(Seq(Byte))
  BY <1>1 DEF TypeOK
<1>5. m_inputBuffer = <<>> \/ (OneChunk(BUFSIZE) /\ KeptChunk)
  BY <1>1, <1>2 DEF ChunksHold
<1> DEFINE left == IF inbound = <<>> THEN 0 ELSE Len(Head(inbound))
<1>6. /\ fMsgTooLong' = TooLong(m_inputBuffer, left)
      /\ fMsgTooLong' => m_inputBuffer' = GetLastChunk(m_inputBuffer, BUFSIZE)
      /\ ~fMsgTooLong' => m_inputBuffer' = AddBuffer(m_inputBuffer, Wanted(left))
  BY DEF Peek
<1>7. BUFSIZE \in Nat \ {0} /\ MAX_INPUT_MESSAGE_SIZE \in Nat
      /\ MAX_INPUT_MESSAGE_SIZE > 2 * BUFSIZE
  BY LimitAssumption
<1>8. left \in Nat
  <2>1. CASE inbound = <<>>
    BY <2>1
  <2>2. CASE inbound # <<>>
    BY <2>2, <1>2, HeadOfPipe
  <2> QED BY <2>1, <2>2
<1> HIDE DEF left
<1>9. /\ fMsgTooLong' \in BOOLEAN
      /\ fMsgTooLong' <=> (GetCount(m_inputBuffer) + left >= MAX_INPUT_MESSAGE_SIZE)
      /\ Wanted(left) = (IF left > 0 THEN left ELSE BUFSIZE) /\ Wanted(left) \in Nat
  <2>1. /\ fMsgTooLong' \in BOOLEAN
        /\ fMsgTooLong' <=> (GetCount(m_inputBuffer) + left >= MAX_INPUT_MESSAGE_SIZE)
    <3>1. fMsgTooLong' = (GetCount(m_inputBuffer) + left >= MAX_INPUT_MESSAGE_SIZE)
      BY <1>6 DEF TooLong
    <3>2. (GetCount(m_inputBuffer) + left >= MAX_INPUT_MESSAGE_SIZE) \in BOOLEAN
      OBVIOUS
    <3> QED BY <3>1, <3>2, Zenon
  <2>2. Wanted(left) = (IF left > 0 THEN left ELSE BUFSIZE)
    BY DEF Wanted
  <2> QED BY <2>1, <2>2, <1>7, <1>8
<1> DEFINE Room == /\ m_inputBuffer' \in Seq(Seq(Byte))
                   /\ \/ Len(m_inputBuffer') = 1 /\ Len(m_inputBuffer'[1]) > 0
                      \/ Len(m_inputBuffer') = 2 /\ Len(m_inputBuffer'[2]) > 0
<1> HIDE DEF Room
\* Nothing is kept.
<1>10. ASSUME m_inputBuffer = <<>>
       PROVE  /\ Room /\ Len(m_inputBuffer') = 1
              /\ fMsgTooLong' <=> (left >= MAX_INPUT_MESSAGE_SIZE)
              /\ Len(m_inputBuffer'[1]) =
                    IF ~fMsgTooLong' /\ left > 0 THEN left ELSE BUFSIZE
  <2>1. GetCount(m_inputBuffer) = 0 /\ Len(m_inputBuffer) = 0
    BY <1>10, <1>4, CountOf
  <2> DEFINE size == IF ~fMsgTooLong' /\ left > 0 THEN left ELSE BUFSIZE
  <2>2. m_inputBuffer' = AddBuffer(m_inputBuffer, size)
    BY <1>6, <1>9, <1>10 DEF GetLastChunk
  <2>3. size \in Nat /\ size > 0
    BY <1>7, <1>8
  <2>4. fMsgTooLong' <=> (left >= MAX_INPUT_MESSAGE_SIZE)
    BY <2>1, <1>8, <1>9
  <2> HIDE DEF size
  <2>5. /\ m_inputBuffer' \in Seq(Seq(Byte)) /\ Len(m_inputBuffer') = 1
        /\ Len(m_inputBuffer'[1]) = size
    <3>1. /\ AddBuffer(m_inputBuffer, size) \in Seq(Seq(Byte))
          /\ Len(AddBuffer(m_inputBuffer, size)) = Len(m_inputBuffer) + 1
          /\ Len(m_inputBuffer) = 0 => Len(AddBuffer(m_inputBuffer, size)[1]) = size
      BY <1>4, <2>3, ChunkAdded
    <3> QED BY <2>1, <2>2, <3>1
  <2>6. Room
    BY <2>3, <2>5 DEF Room
  <2> QED BY <2>4, <2>5, <2>6 DEF size
\* The beginning of the message is kept.
<1>11. ASSUME OneChunk(BUFSIZE), KeptChunk
       PROVE  /\ inbound # <<>> /\ left = sent[Current] - BUFSIZE
              /\ sent[Current] \in Nat /\ sent[Current] > BUFSIZE
              /\ fMsgTooLong' <=> (sent[Current] >= MAX_INPUT_MESSAGE_SIZE)
              /\ Room
              /\ fMsgTooLong' => m_inputBuffer' = m_inputBuffer
              /\ ~fMsgTooLong' => /\ Len(m_inputBuffer') = 2
                                  /\ m_inputBuffer'[1] = m_inputBuffer[1]
                                  /\ Len(m_inputBuffer'[2]) = left
  <2>1. inbound # <<>>
    BY <1>2, <1>11, KeptIsInPipe
  <2>2. Len(m_inputBuffer) = 1 /\ Len(m_inputBuffer[1]) = BUFSIZE /\ m_inputBuffer # <<>>
    BY <1>11 DEF OneChunk
  <2>3. left = Len(inbound[1]) /\ HeadIs(Len(inbound[1])) /\ sent[First] \in Nat
    BY <2>1, <1>2, HeadOfPipe DEF left
  <2>4. left = sent[Current] - BUFSIZE /\ sent[Current] \in Nat
    BY <2>2, <2>3, <1>2, <1>3 DEF HeadIs
  <2>5. sent[Current] > BUFSIZE
    BY <1>11 DEF KeptChunk
  <2>6. GetCount(m_inputBuffer) = BUFSIZE
    BY <2>2, <1>4, CountOf
  <2>7. fMsgTooLong' <=> (sent[Current] >= MAX_INPUT_MESSAGE_SIZE)
    <3>1. BUFSIZE + left = sent[Current]
      BY <2>4, <1>7
    <3> QED BY <3>1, <2>6, <1>9
  <2>8. fMsgTooLong' => m_inputBuffer' = m_inputBuffer
    BY <1>6, <2>2 DEF GetLastChunk
  <2>9. left > 0 /\ Wanted(left) = left
    BY <2>4, <2>5, <1>7, <1>9
  <2>10. ASSUME ~fMsgTooLong'
         PROVE  /\ m_inputBuffer' \in Seq(Seq(Byte)) /\ Len(m_inputBuffer') = 2
                /\ m_inputBuffer'[1] = m_inputBuffer[1]
                /\ Len(m_inputBuffer'[2]) = left
    <3>1. m_inputBuffer' = AddBuffer(m_inputBuffer, left)
      BY <2>9, <2>10, <1>6
    <3>2. /\ AddBuffer(m_inputBuffer, left) \in Seq(Seq(Byte))
          /\ Len(AddBuffer(m_inputBuffer, left)) = Len(m_inputBuffer) + 1
          /\ Len(m_inputBuffer) = 1 =>
                /\ AddBuffer(m_inputBuffer, left)[1] = m_inputBuffer[1]
                /\ Len(AddBuffer(m_inputBuffer, left)[2]) = left
      BY <1>4, <1>8, ChunkAdded
    <3> QED BY <2>2, <3>1, <3>2
  <2>11. Room
    <3>1. CASE fMsgTooLong'
      BY <3>1, <2>2, <2>8, <1>4, <1>7 DEF Room
    <3>2. CASE ~fMsgTooLong'
      BY <3>2, <2>9, <2>10 DEF Room
    <3> QED BY <3>1, <3>2
  <2> QED BY <2>1, <2>4, <2>5, <2>7, <2>8, <2>10, <2>11
<1>12. Room
  BY <1>5, <1>10, <1>11, Zenon
<1>13. TypeOK'
  <2>1. m_inputBuffer' # <<>> /\ Last(m_inputBuffer') # <<>>
    <3>1. CASE Len(m_inputBuffer') = 1 /\ Len(m_inputBuffer'[1]) > 0
      BY <3>1, <1>12 DEF Last, Room
    <3>2. CASE Len(m_inputBuffer') = 2 /\ Len(m_inputBuffer'[2]) > 0
      BY <3>2, <1>12 DEF Last, Room
    <3> QED BY <3>1, <3>2, <1>12 DEF Room
  <2>2. fMsgTooLong' \in BOOLEAN
    BY <1>9
  <2>3. m_inputBuffer' \in Seq(Seq(Byte))
    BY <1>12 DEF Room
  <2> QED BY <1>1, <1>2, <2>1, <2>2, <2>3 DEF TypeOK
<1>14. inbound = <<>> => ~fMsgTooLong' /\ OneChunk(BUFSIZE)'
  <2>1. inbound = <<>> => m_inputBuffer = <<>> /\ left = 0
    BY <1>5, <1>11 DEF left
  <2>2. inbound = <<>> =>
          ~fMsgTooLong' /\ Len(m_inputBuffer') = 1 /\ Len(m_inputBuffer'[1]) = BUFSIZE
    BY <2>1, <1>7, <1>10
  <2> QED BY <2>2 DEF OneChunk
<1>15. ChunksHold'
  <2>1. fMsgTooLong' => OneChunk(BUFSIZE)'
    <3>1. CASE m_inputBuffer = <<>>
      BY <3>1, <1>10 DEF OneChunk
    <3>2. CASE OneChunk(BUFSIZE) /\ KeptChunk
      BY <3>2, <1>11 DEF OneChunk
    <3> QED BY <3>1, <3>2, <1>5
  <2>2. ~fMsgTooLong' =>
          LastOfTwo' \/ \E size \in 1 .. (MAX_INPUT_MESSAGE_SIZE - 1) : OneChunk(size)'
    <3>1. ASSUME m_inputBuffer = <<>>, ~fMsgTooLong'
          PROVE  \E size \in 1 .. (MAX_INPUT_MESSAGE_SIZE - 1) : OneChunk(size)'
      <4>1. /\ Len(m_inputBuffer') = 1 /\ ~(left >= MAX_INPUT_MESSAGE_SIZE)
            /\ Len(m_inputBuffer'[1]) = IF left > 0 THEN left ELSE BUFSIZE
        BY <3>1, <1>10
      <4>2. Len(m_inputBuffer'[1]) \in 1 .. (MAX_INPUT_MESSAGE_SIZE - 1)
        BY <4>1, <1>7, <1>8
      <4> QED BY <4>1, <4>2 DEF OneChunk
    <3>2. ASSUME OneChunk(BUFSIZE), KeptChunk, ~fMsgTooLong'
          PROVE  LastOfTwo'
      <4>1. KeptChunk'
        BY <3>2, <1>2, <1>3, <1>11 DEF KeptChunk, Beginning
      <4>2. /\ Len(m_inputBuffer') = 2 /\ Len(m_inputBuffer'[2]) = left
            /\ left = sent[Current] - BUFSIZE /\ sent[Current] > BUFSIZE
            /\ sent[Current] \in Nat /\ ~(sent[Current] >= MAX_INPUT_MESSAGE_SIZE)
        BY <3>2, <1>11
      <4>3. /\ Len(m_inputBuffer') = 2 /\ Len(m_inputBuffer'[2]) > 0
            /\ sent[Current] = BUFSIZE + Len(m_inputBuffer'[2])
            /\ sent[Current] < MAX_INPUT_MESSAGE_SIZE
        BY <4>2, <1>7
      <4> QED BY <4>1, <4>3, <1>2, <1>3 DEF LastOfTwo
    <3> QED BY <3>1, <3>2, <1>5
  <2> QED BY <2>1, <2>2, <1>2 DEF ChunksHold
<1>16. inbound # <<>> => HeadIs(Len(inbound[1]))'
  <2> SUFFICES ASSUME inbound # <<>> PROVE HeadIs(Len(inbound[1]))'
    OBVIOUS
  <2>1. left = Len(inbound[1]) /\ HeadIs(Len(inbound[1])) /\ left <= sent[First]
        /\ sent[First] \in Nat
    BY <1>2, HeadOfPipe DEF left
  <2>2. /\ fMsgTooLong' => sent[First] >= MAX_INPUT_MESSAGE_SIZE /\ left > BUFSIZE
        /\ ~fMsgTooLong' /\ Len(m_inputBuffer') = 1 =>
              /\ \/ left = sent[First]
                 \/ sent[First] >= MAX_INPUT_MESSAGE_SIZE /\ left > 0
              /\ Len(m_inputBuffer'[1]) = IF left > 0 THEN left ELSE BUFSIZE
        /\ ~fMsgTooLong' /\ Len(m_inputBuffer') = 2 => left = sent[First] - BUFSIZE
    <3>1. CASE m_inputBuffer = <<>>
      <4>1. left = sent[First] \/ (sent[First] >= MAX_INPUT_MESSAGE_SIZE /\ left > 0)
        BY <3>1, <2>1, <1>2 DEF HeadIs
      <4>2. fMsgTooLong' => sent[First] >= MAX_INPUT_MESSAGE_SIZE /\ left > BUFSIZE
        BY <3>1, <2>1, <1>7, <1>8, <1>10
      <4> QED BY <3>1, <4>1, <4>2, <1>10
    <3>2. CASE OneChunk(BUFSIZE) /\ KeptChunk
      <4>1. fMsgTooLong' => Len(m_inputBuffer') = 1
        BY <3>2, <1>11 DEF OneChunk
      <4>2. ~fMsgTooLong' => Len(m_inputBuffer') = 2
        BY <3>2, <1>11
      <4>3. left = sent[First] - BUFSIZE
        BY <3>2, <1>3, <1>11
      <4>4. fMsgTooLong' => sent[First] >= MAX_INPUT_MESSAGE_SIZE
        BY <3>2, <1>3, <1>11
      <4>5. fMsgTooLong' => left > BUFSIZE
        BY <4>3, <4>4, <2>1, <1>7
      <4>6. ~(~fMsgTooLong' /\ Len(m_inputBuffer') = 1)
        BY <4>2
      <4> QED BY <4>3, <4>4, <4>5, <4>6, Zenon
    <3> QED BY <3>1, <3>2, <1>5, Zenon
  <2>3. ~fMsgTooLong' /\ Len(m_inputBuffer') = 1 =>
          \/ left = sent[First] /\ (OneChunk(left)' \/ OneChunk(BUFSIZE)')
          \/ sent[First] >= MAX_INPUT_MESSAGE_SIZE /\ OneChunk(left)'
    <3>1. left' = left
      BY <1>2 DEF left
    <3> QED BY <3>1, <2>2, <1>8 DEF OneChunk
  <2>4. Len(inbound'[1]) = left /\ left' = left /\ sent' = sent /\ pc' = "read"
    BY <2>1, <1>2 DEF left
  <2> QED BY <2>2, <2>3, <2>4, <1>3 DEF HeadIs, OneChunk
<1>17. PipeHolds'
  <2>1. inbound' = <<>> /\ pc' = "read" => ~fMsgTooLong' /\ OneChunk(BUFSIZE)'
    BY <1>2, <1>14
  <2>2. inbound' # <<>> => HeadIs(Len(inbound[1]))' /\ Len(inbound'[1]) <= sent'[First']
    BY <1>1, <1>2, <1>3, <1>16 DEF PipeHolds
  <2>3. /\ Len(inbound') = Len(sent') + 1 - First'
        /\ \A j \in DOMAIN inbound' :
              /\ inbound'[j] = Bytes(session', First' + j - 1,
                                     sent'[First' + j - 1] - Len(inbound'[j]), Len(inbound'[j]))
              /\ j > 1 => Len(inbound'[j]) = sent'[First' + j - 1]
    BY <1>1, <1>2, <1>3 DEF PipeHolds, LastBytes
  <2> QED BY <1>2, <2>1, <2>2, <2>3 DEF PipeHolds, LastBytes
<1> QED BY <1>1, <1>2, <1>13, <1>15, <1>17, SameArrivals DEF MInv

\* A message more is passed on.
LEMMA Arrival ==
    ASSUME TypeOK, MessagesArriveWhole, Current \in 1 .. Len(sent),
           UNCHANGED <<session, sent>>,
           NEW c \in Seq(Byte), delivered' = Append(delivered, c),
           sent[Current] < MAX_INPUT_MESSAGE_SIZE => c = Message(Current, 1),
           sent[Current] >= MAX_INPUT_MESSAGE_SIZE =>
              \E b \in 1 .. sent[Current] : c = Message(Current, b)
    PROVE  /\ MessagesArriveWhole' /\ delivered' \in Seq(Seq(Byte))
           /\ Len(delivered') = Len(delivered) + 1
<1>1. /\ Append(delivered, c) \in Seq(Seq(Byte)) /\ Len(Append(delivered, c)) = Len(delivered) + 1
      /\ Append(delivered, c)[Len(delivered) + 1] = c /\ Len(delivered) \in Nat
      /\ \A k \in 1 .. Len(delivered) : Append(delivered, c)[k] = delivered[k]
  <2>1. delivered \in Seq(Seq(Byte))
    BY DEF TypeOK
  <2> QED BY <2>1, OneMore
<1>2. DOMAIN delivered = 1 .. Len(delivered) /\ DOMAIN delivered' = 1 .. (Len(delivered) + 1)
  <2>1. delivered \in Seq(Seq(Byte)) /\ delivered' \in Seq(Seq(Byte))
    BY <1>1 DEF TypeOK
  <2> QED BY <2>1, <1>1
<1>3. ASSUME NEW k \in DOMAIN delivered'
      PROVE  /\ k \in DOMAIN sent
             /\ sent[k] < MAX_INPUT_MESSAGE_SIZE => delivered'[k] = Message(k, 1)
             /\ sent[k] >= MAX_INPUT_MESSAGE_SIZE =>
                   \E b \in 1 .. sent[k] : delivered'[k] = Message(k, b)
  <2>1. CASE k \in DOMAIN delivered
    <3>1. delivered'[k] = delivered[k]
      BY <2>1, <1>1, <1>2
    <3> QED BY <2>1, <3>1 DEF MessagesArriveWhole
  <2>2. CASE k = Current
    <3>1. delivered'[k] = c
      BY <2>2, <1>1 DEF Current
    <3> QED BY <2>2, <3>1, Numbers
  <2>3. k \in DOMAIN delivered \/ k = Current
    BY <1>1, <1>2 DEF Current
  <2> QED BY <2>1, <2>2, <2>3
<1>4. \A k, b : Message(k, b)' = Message(k, b)
  BY DEF Message
<1> QED BY <1>1, <1>3, <1>4 DEF MessagesArriveWhole

\* The first message in the pipe has been read to its end.
LEMMA PipeAdvanced ==
    ASSUME MInv, ~gone, pc = "read", inbound # <<>>,
           inbound' = Tail(inbound), Len(delivered') = Len(delivered) + 1,
           m_inputBuffer' = <<>>, pc' = "peek", UNCHANGED <<gone, session, sent>>
    PROVE  PipeHolds' /\ inbound' \in Seq(Seq(Byte))
<1>1. TypeOK /\ PipeHolds
  BY DEF MInv
<1>2. First = Current /\ First' = Current' /\ Current' = Current + 1 /\ Current \in Nat
  BY <1>1, Numbers DEF First, Current
<1>3. /\ inbound' \in Seq(Seq(Byte)) /\ Len(inbound') = Len(inbound) - 1
      /\ \A j \in 1 .. (Len(inbound) - 1) : inbound'[j] = inbound[j + 1]
      /\ Len(inbound) \in Nat \ {0}
  <2>1. inbound \in Seq(Seq(Byte))
    BY <1>1 DEF TypeOK
  <2> QED BY <2>1, TailOfPipe
<1>4. DOMAIN inbound' = 1 .. (Len(inbound) - 1) /\ DOMAIN inbound = 1 .. Len(inbound)
  <2>1. inbound \in Seq(Seq(Byte))
    BY <1>1 DEF TypeOK
  <2>2. DOMAIN inbound' = 1 .. Len(inbound')
    BY <1>3
  <2> QED BY <2>1, <2>2, <1>3
<1>5. Len(inbound) = Len(sent) + 1 - First
  BY <1>1 DEF PipeHolds
<1>6. Len(inbound') = Len(sent') + 1 - First'
  BY <1>2, <1>3, <1>5, <1>1, Numbers
<1>7. ASSUME NEW j \in DOMAIN inbound'
      PROVE  /\ Len(inbound'[j]) = sent'[First' + j - 1] /\ First' + j - 1 \in 1 .. Len(sent)
             /\ inbound'[j] = LastBytes(First + j, Len(inbound[j + 1])) /\ inbound'[j] = inbound[j + 1]
             /\ First' + j - 1 = First + j
  <2>1. j + 1 \in DOMAIN inbound /\ j + 1 > 1 /\ inbound'[j] = inbound[j + 1] /\ j \in Nat
    BY <1>3, <1>4
  <2>2. First' + j - 1 = First + (j + 1) - 1 /\ First + j = First + (j + 1) - 1
    BY <2>1, <1>2
  <2>3. /\ inbound[j + 1] = LastBytes(First + (j + 1) - 1, Len(inbound[j + 1]))
        /\ Len(inbound[j + 1]) = sent[First + (j + 1) - 1]
    BY <2>1, <1>1 DEF PipeHolds
  <2>4. First' + j - 1 \in 1 .. Len(sent)
    <3>1. j <= Len(inbound) - 1 /\ j >= 1 /\ Len(sent) \in Nat
      BY <1>4, <1>1, Numbers
    <3>2. Len(inbound) - 1 = Len(sent) - Current
      BY <1>2, <1>3, <1>5, <1>1, Numbers
    <3>3. First' + j - 1 = Current + j
      BY <1>2, <2>1
    <3> QED BY <3>1, <3>2, <3>3, <1>2, <2>1
  <2>5. Len(inbound'[j]) = sent'[First' + j - 1]
    BY <2>1, <2>2, <2>3, Zenon
  <2>6. inbound'[j] = LastBytes(First + j, Len(inbound[j + 1]))
    BY <2>1, <2>2, <2>3, Zenon
  <2> QED BY <2>1, <2>2, <2>4, <2>5, <2>6
<1>8. \A j \in DOMAIN inbound' : inbound'[j] = LastBytes(First + j - 1, Len(inbound[j]))'
  <2> SUFFICES ASSUME NEW j \in DOMAIN inbound'
               PROVE  inbound'[j] = Bytes(session, First' + j - 1,
                        sent[First' + j - 1] - Len(inbound'[j]), Len(inbound'[j]))
    BY DEF LastBytes
  <2> QED BY <1>7, Zenon DEF LastBytes
<1>9. inbound' # <<>> => Len(inbound'[1]) <= sent'[First'] /\ HeadIs(Len(inbound[1]))'
  <2> SUFFICES ASSUME inbound' # <<>>
               PROVE  Len(inbound'[1]) <= sent'[First'] /\ HeadIs(Len(inbound[1]))'
    OBVIOUS
  <2>1. 1 \in DOMAIN inbound'
    BY <1>3, <1>4
  <2>2. First' + 1 - 1 = First' /\ First' \in Nat
    BY <1>2
  <2>3. Len(inbound'[1]) = sent'[First'] /\ First' \in 1 .. Len(sent)
    BY <1>7, <2>1, <2>2
  <2>4. sent[First'] \in Nat
    BY <2>3, <1>1, Numbers
  <2> QED BY <2>3, <2>4 DEF HeadIs
<1>10. pc' = "peek" /\ ~gone'
  OBVIOUS
<1> QED BY <1>3, <1>6, <1>7, <1>8, <1>9, <1>10 DEF PipeHolds

\* The first n bytes of the first message in the pipe have been read.
LEMMA PipeCut ==
    ASSUME MInv, ~gone, pc = "read", inbound # <<>>,
           NEW n \in 1 .. (Len(inbound[1]) - 1),
           inbound' = <<SubSeq(inbound[1], n + 1, Len(inbound[1]))>> \o Tail(inbound),
           pc' = "peek", UNCHANGED <<gone, session, sent, delivered>>,
           \/ m_inputBuffer' = <<>> /\ sent[Current] >= MAX_INPUT_MESSAGE_SIZE
           \/ m_inputBuffer' # <<>> /\ Len(inbound[1]) - n = sent[Current] - BUFSIZE
    PROVE  PipeHolds' /\ inbound' \in Seq(Seq(Byte))
<1> DEFINE u == Len(inbound[1])
           x == SubSeq(inbound[1], n + 1, u)
<1>1. TypeOK /\ PipeHolds
  BY DEF MInv
<1>2. First' = First /\ First = Current /\ Current' = Current
  BY SameFirst
<1>3. /\ u \in Nat /\ u <= sent[First] /\ sent[First] \in Nat /\ First \in 1 .. Len(sent)
      /\ inbound[1] = Bytes(session, First, sent[First] - u, u)
  BY HeadOfPipe
<1>4. x = Bytes(session, First, sent[First] - (u - n), u - n) /\ x \in Seq(Byte) /\ Len(x) = u - n
  <2> DEFINE m == sent[First] - u
  <2>1. m \in Nat /\ n \in 0 .. u /\ session \in Nat /\ First \in Nat
    BY <1>1, <1>3, Numbers
  <2>2. inbound[1] = Bytes(session, First, m, u)
    BY <1>3
  <2>3. m + n = sent[First] - (u - n)
    BY <1>3
  <2> HIDE DEF m, u
  <2>4. x = Bytes(session, First, m + n, u - n)
    <3>1. u \in Nat
      BY <1>3
    <3>2. SubSeq(Bytes(session, First, m, u), n + 1, u) = Bytes(session, First, m + n, u - n)
      BY <2>1, <3>1 DEF Bytes
    <3>3. x = SubSeq(Bytes(session, First, m, u), n + 1, u)
      BY <2>2 DEF x
    <3> QED BY <3>2, <3>3, Zenon
  <2> DEFINE q == m + n
             d == u - n
  <2>5. q \in Nat /\ d \in Nat
    BY <2>1, <1>3
  <2> HIDE DEF q, d
  <2>6. Bytes(session, First, q, d) \in Seq(Byte) /\ Len(Bytes(session, First, q, d)) = d
    BY <2>1, <2>5, ByteType DEF Bytes
  <2> QED BY <2>3, <2>4, <2>6, Zenon DEF q, d
<1> HIDE DEF x
<1>5. /\ inbound' \in Seq(Seq(Byte)) /\ Len(inbound') = Len(inbound)
      /\ inbound'[1] = x
      /\ \A j \in 1 .. Len(inbound) : j > 1 => inbound'[j] = inbound[j]
      /\ DOMAIN inbound = 1 .. Len(inbound) /\ DOMAIN inbound' = DOMAIN inbound
  <2>1. inbound \in Seq(Seq(Byte))
    BY <1>1 DEF TypeOK
  <2>2. inbound' = <<x>> \o Tail(inbound)
    BY DEF x
  <2>3. /\ inbound' \in Seq(Seq(Byte)) /\ Len(inbound') = Len(inbound)
        /\ inbound'[1] = x
        /\ \A j \in 1 .. Len(inbound) : j > 1 => inbound'[j] = inbound[j]
    BY <2>1, <2>2, <1>4, HeadReplaced
  <2> QED BY <2>1, <2>3
<1>6. Len(inbound') = Len(sent') + 1 - First'
  BY <1>1, <1>2, <1>5 DEF PipeHolds
<1>7. ASSUME NEW j \in DOMAIN inbound'
      PROVE  /\ inbound'[j] = Bytes(session, First + j - 1,
                        sent[First + j - 1] - Len(inbound'[j]), Len(inbound'[j]))
             /\ j > 1 => Len(inbound'[j]) = sent[First + j - 1]
  <2>1. CASE j = 1
    <3>1. First + 1 - 1 = First
      BY <1>3
    <3>2. inbound'[1] = Bytes(session, First, sent[First] - Len(inbound'[1]), Len(inbound'[1]))
      BY <1>4, <1>5, Zenon
    <3> QED BY <2>1, <3>1, <3>2
  <2>2. CASE j > 1
    BY <2>2, <1>1, <1>5 DEF PipeHolds, LastBytes
  <2>3. j = 1 \/ j > 1
    BY <1>1, <1>5 DEF TypeOK
  <2> QED BY <2>1, <2>2, <2>3, Zenon
<1>8. Len(inbound'[1]) <= sent'[First'] /\ HeadIs(Len(inbound[1]))'
  <2>1. Len(inbound'[1]) = u - n /\ u - n > 0 /\ u - n <= sent[First]
    BY <1>3, <1>4, <1>5
  <2>2. m_inputBuffer' = <<>> => sent[First] >= MAX_INPUT_MESSAGE_SIZE
    BY <1>2
  <2>3. m_inputBuffer' # <<>> => u - n = sent[First] - BUFSIZE
    BY <1>2
  <2> HIDE DEF u
  <2> QED BY <2>1, <2>2, <2>3, <1>2 DEF HeadIs
<1> QED BY <1>2, <1>5, <1>6, <1>7, <1>8 DEF PipeHolds, LastBytes

LEMMA ReadKeeps == ASSUME MInv, Read PROVE MInv'
<1>1. TypeOK /\ ChunksHold /\ PipeHolds /\ MessagesArriveWhole
  BY DEF MInv
<1>2. /\ pc = "read" /\ ~gone /\ inbound # <<>> /\ pc' = "peek"
      /\ UNCHANGED <<fMsgTooLong, result, gone, session, sent>>
  BY DEF Read, peerVars
<1> DEFINE bytes == Head(inbound)
           n == Transferred(m_inputBuffer, bytes)
           u == Len(bytes)
<1>3. /\ bytes = inbound[1] /\ bytes \in Seq(Byte) /\ u \in Nat /\ u <= sent[First]
      /\ sent[First] \in Nat /\ First \in 1 .. Len(sent)
      /\ bytes = Bytes(session, First, sent[First] - u, u) /\ HeadIs(u)
  <2>1. bytes = inbound[1]
    BY <1>2, HeadOfPipe
  <2> HIDE DEF bytes
  <2>2. u = Len(inbound[1])
    BY <2>1
  <2> HIDE DEF u
  <2> QED BY <2>1, <2>2, <1>2, HeadOfPipe
<1>4. inbound' = (IF n < u THEN <<SubSeq(bytes, n + 1, u)>> \o Tail(inbound) ELSE Tail(inbound))
  BY DEF Read, Rest
<1>5. \/ fMsgTooLong /\ m_inputBuffer' = <<>> /\ UNCHANGED delivered
      \/ /\ ~fMsgTooLong
         /\ \/ n < u /\ m_inputBuffer' = Read1(m_inputBuffer, bytes) /\ UNCHANGED delivered
            \/ /\ ~(n < u) /\ m_inputBuffer' = <<>>
               /\ delivered' = Append(delivered, Contents(Read1(m_inputBuffer, bytes)))
  BY DEF Read, MoreOrCompleted, Read1
<1> HIDE DEF bytes, n, u
<1>6. First = Current
  BY <1>2 DEF First
<1>7. BUFSIZE \in Nat \ {0} /\ MAX_INPUT_MESSAGE_SIZE \in Nat
      /\ MAX_INPUT_MESSAGE_SIZE > 2 * BUFSIZE
  BY LimitAssumption
<1>8. m_inputBuffer \in Seq(Seq(Byte)) /\ session \in Nat /\ First \in Nat
  BY <1>1, Numbers DEF TypeOK
\* The beginning of a message that is too long is dropped.
<1>9. ASSUME fMsgTooLong PROVE MInv'
  <2>1. OneChunk(BUFSIZE)
    BY <1>1, <1>2, <1>9 DEF ChunksHold
  <2>2. sent[First] >= MAX_INPUT_MESSAGE_SIZE /\ u > BUFSIZE
    BY <1>2, <1>3, <1>9 DEF HeadIs
  <2>3. n = BUFSIZE
    <3>1. n = IF u < Len(m_inputBuffer[1]) THEN u ELSE Len(m_inputBuffer[1])
      BY <2>1, <1>3, <1>8, OneFilled DEF OneChunk, n, u
    <3> QED BY <3>1, <2>1, <2>2, <1>3, <1>7 DEF OneChunk
  <2>4. m_inputBuffer' = <<>> /\ UNCHANGED delivered
    BY <1>5, <1>9
  <2>5. n \in 1 .. (Len(inbound[1]) - 1) /\ n < u
    BY <2>2, <2>3, <1>3, <1>7 DEF u
  <2>6. inbound' = <<SubSeq(inbound[1], n + 1, Len(inbound[1]))>> \o Tail(inbound)
    BY <1>3, <1>4, <2>5 DEF u
  <2>7. PipeHolds' /\ inbound' \in Seq(Seq(Byte))
    BY <1>2, <1>6, <2>2, <2>4, <2>5, <2>6, PipeCut
  <2>8. m_inputBuffer' \in Seq(Seq(Byte))
    BY <2>4
  <2>9. TypeOK'
    BY <1>1, <1>2, <2>4, <2>7, <2>8 DEF TypeOK
  <2>10. ChunksHold'
    BY <1>2, <2>4 DEF ChunksHold
  <2> QED BY <1>1, <1>2, <2>4, <2>7, <2>9, <2>10, SameArrivals DEF MInv
\* Of the message more is in the pipe: only where Peek had found none.
<1>10. ASSUME ~fMsgTooLong, n < u PROVE MInv'
  <2>1. ~LastOfTwo
    <3> SUFFICES ASSUME LastOfTwo PROVE FALSE
      OBVIOUS
    <3>1. Len(m_inputBuffer) = 2 /\ sent[Current] = BUFSIZE + Len(m_inputBuffer[2])
          /\ Len(m_inputBuffer[2]) > 0 /\ Len(m_inputBuffer[2]) \in Nat
      <4>1. m_inputBuffer[2] \in Seq(Byte)
        BY <1>8, FirstChunks DEF LastOfTwo
      <4> QED BY <4>1 DEF LastOfTwo
    <3>2. u = sent[First] - BUFSIZE
      BY <3>1, <1>2, <1>3, <1>10 DEF HeadIs
    <3>3. Len(m_inputBuffer[2]) = u
      BY <3>1, <3>2, <1>6, <1>7
    <3>4. n = u
      BY <3>1, <3>3, <1>3, <1>8, TwoRead DEF n, u
    <3> QED BY <3>4, <1>3, <1>10
  <2>2. Len(m_inputBuffer) = 1
    BY <2>1, <1>1, <1>2, <1>10 DEF ChunksHold, OneChunk
  <2>3. n = IF u < Len(m_inputBuffer[1]) THEN u ELSE Len(m_inputBuffer[1])
    BY <2>2, <1>3, <1>8, OneFilled DEF n, u
  <2>4. Len(m_inputBuffer[1]) \in Nat
    BY <2>2, <1>8, CountOf
  <2>5. n = Len(m_inputBuffer[1]) /\ Len(m_inputBuffer[1]) < u
    BY <2>3, <2>4, <1>3, <1>10
  <2>6. u = sent[First] /\ n = BUFSIZE
    BY <2>2, <2>5, <1>2, <1>3, <1>10 DEF HeadIs, OneChunk
  <2>7. m_inputBuffer' = Read1(m_inputBuffer, bytes) /\ UNCHANGED delivered
    BY <1>5, <1>10
  <2>8. m_inputBuffer' = <<SubSeq(bytes, 1, n)>> /\ m_inputBuffer' \in Seq(Seq(Byte))
    BY <2>2, <2>6, <2>7, <1>3, <1>7, <1>8, OneRead DEF n
  <2>9. SubSeq(bytes, 1, n) = Bytes(session, First, 0, BUFSIZE)
    <3>1. bytes = Bytes(session, First, 0, u) /\ n \in 0 .. u
      BY <1>3, <1>7, <1>10, <2>6
    <3>2. SubSeq(Bytes(session, First, 0, u), 1, n) = Bytes(session, First, 0, n)
      BY <3>1, <1>3, <1>8 DEF Bytes
    <3> QED BY <3>1, <3>2, <2>6, Zenon
  <2>10. Len(m_inputBuffer') = 1 /\ m_inputBuffer'[1] = Bytes(session, First, 0, BUFSIZE)
         /\ m_inputBuffer' # <<>>
    BY <2>8, <2>9
  <2>11. n \in 1 .. (Len(inbound[1]) - 1)
    BY <2>5, <2>6, <1>3, <1>7 DEF u
  <2>12. inbound' = <<SubSeq(inbound[1], n + 1, Len(inbound[1]))>> \o Tail(inbound)
    BY <1>3, <1>4, <1>10 DEF u
  <2>13. PipeHolds' /\ inbound' \in Seq(Seq(Byte))
    <3>1. Len(inbound[1]) - n = sent[Current] - BUFSIZE
      BY <2>6, <1>3, <1>6 DEF u
    <3> QED BY <1>2, <2>7, <2>10, <2>11, <2>12, <3>1, PipeCut
  <2>14. TypeOK'
    BY <1>1, <1>2, <2>7, <2>8, <2>13 DEF TypeOK
  <2>15. Current' = Current
    BY <2>7 DEF Current
  <2>16. KeptChunk'
    <3>1. Current \in DOMAIN sent /\ sent[Current] > BUFSIZE
      BY <2>5, <2>6, <1>1, <1>3, <1>6, Numbers
    <3> QED BY <3>1, <2>10, <2>15, <1>2, <1>6 DEF KeptChunk, Beginning
  <2>17. OneChunk(BUFSIZE)'
    <3>1. Len(Bytes(session, First, 0, BUFSIZE)) = BUFSIZE
      BY <1>7 DEF Bytes
    <3> QED BY <3>1, <2>10 DEF OneChunk
  <2>18. ChunksHold'
    BY <1>2, <2>16, <2>17 DEF ChunksHold
  <2> QED BY <1>1, <1>2, <2>7, <2>13, <2>14, <2>18, SameArrivals DEF MInv
\* The message is complete.
<1>11. ASSUME ~fMsgTooLong, ~(n < u) PROVE MInv'
  <2> DEFINE c == Contents(Read1(m_inputBuffer, bytes))
  <2>1. m_inputBuffer' = <<>> /\ delivered' = Append(delivered, c)
    BY <1>5, <1>11
  <2>2. /\ c \in Seq(Byte)
        /\ sent[Current] < MAX_INPUT_MESSAGE_SIZE => c = Message(Current, 1)
        /\ sent[Current] >= MAX_INPUT_MESSAGE_SIZE =>
              \E b \in 1 .. sent[Current] : c = Message(Current, b)
    <3>1. CASE LastOfTwo
      <4>1. Len(m_inputBuffer) = 2 /\ sent[Current] = BUFSIZE + Len(m_inputBuffer[2])
            /\ Len(m_inputBuffer[2]) > 0 /\ Len(m_inputBuffer[2]) \in Nat
            /\ m_inputBuffer[1] = Bytes(session, Current, 0, BUFSIZE)
            /\ sent[Current] < MAX_INPUT_MESSAGE_SIZE
        <5>1. m_inputBuffer[2] \in Seq(Byte)
          BY <3>1, <1>8, FirstChunks DEF LastOfTwo
        <5> QED BY <3>1, <5>1 DEF LastOfTwo, KeptChunk, Beginning
      <4>2. u = sent[First] - BUFSIZE
        BY <4>1, <1>2, <1>3, <1>11 DEF HeadIs
      <4>3. Len(m_inputBuffer[2]) = u /\ u > 0
        BY <4>1, <4>2, <1>6, <1>7
      <4>4. c = m_inputBuffer[1] \o bytes
        BY <4>1, <4>3, <1>3, <1>8, TwoRead DEF u
      <4>5. bytes = Bytes(session, Current, BUFSIZE, u) /\ sent[Current] = BUFSIZE + u
        <5>1. sent[First] - u = BUFSIZE /\ sent[First] = BUFSIZE + u
          BY <4>2, <1>3, <1>7
        <5> QED BY <5>1, <1>3, <1>6
      <4>6. Bytes(session, Current, 0, BUFSIZE) \o Bytes(session, Current, BUFSIZE, u)
              = Bytes(session, Current, 0, BUFSIZE + u)
        BY <1>3, <1>7, <1>8 DEF Bytes
      <4>8. c = Bytes(session, Current, 0, sent[Current])
        BY <4>1, <4>4, <4>5, <4>6, Zenon
      <4>9. c = Message(Current, 1)
        <5>1. 1 - 1 = 0 /\ sent[Current] + 1 - 1 = sent[Current]
          BY <1>3, <1>6
        <5> QED BY <4>8, <5>1 DEF Message
      <4>10. c \in Seq(Byte)
        <5>1. m_inputBuffer[1] \in Seq(Byte)
          BY <4>1, <1>8, FirstChunks
        <5> QED BY <5>1, <4>4, <1>3
      <4>11. ~(sent[Current] >= MAX_INPUT_MESSAGE_SIZE)
        BY <4>1, <1>3, <1>6, <1>7
      <4> QED BY <4>9, <4>10, <4>11, Zenon
    <3>2. CASE ~LastOfTwo
      <4>1. PICK size \in 1 .. (MAX_INPUT_MESSAGE_SIZE - 1) : OneChunk(size)
        BY <3>2, <1>1, <1>2, <1>11 DEF ChunksHold
      <4>2. Len(m_inputBuffer) = 1
        BY <4>1 DEF OneChunk
      <4>3. n = IF u < Len(m_inputBuffer[1]) THEN u ELSE Len(m_inputBuffer[1])
        BY <4>2, <1>3, <1>8, OneFilled DEF n, u
      <4>4. Len(m_inputBuffer[1]) \in Nat
        BY <4>2, <1>8, CountOf
      <4>5. n = u
        BY <4>3, <4>4, <1>3, <1>11
      <4>6. c = bytes
        BY <4>2, <4>5, <1>3, <1>8, OneRead DEF n, u
      <4>7. \/ u = sent[First]
            \/ sent[First] >= MAX_INPUT_MESSAGE_SIZE /\ u = size
        BY <4>1, <4>2, <1>2, <1>3, <1>11 DEF HeadIs, OneChunk
      <4>8. ASSUME u > 0 PROVE c = Message(Current, sent[Current] - u + 1)
        <5>1. sent[Current] - u + 1 - 1 = sent[Current] - u
              /\ sent[Current] + 1 - (sent[Current] - u + 1) = u
          BY <1>3, <1>6
        <5>2. Message(Current, sent[Current] - u + 1)
                = Bytes(session, Current, sent[Current] - u, u)
          BY <5>1, <1>3, <1>6 DEF Message, Bytes
        <5>3. c = Bytes(session, Current, sent[Current] - u, u)
          BY <4>6, <1>3, <1>6, Zenon
        <5> QED BY <5>2, <5>3, Zenon
      <4>9. ASSUME u = sent[First] PROVE c = Message(Current, 1)
        <5>1. 1 - 1 = 0 /\ sent[Current] + 1 - 1 = u /\ sent[First] - u = 0
          BY <4>9, <1>3, <1>6
        <5> QED BY <4>6, <5>1, <1>3, <1>6, Zenon DEF Message
      <4>10. ASSUME sent[Current] >= MAX_INPUT_MESSAGE_SIZE
             PROVE  \E b \in 1 .. sent[Current] : c = Message(Current, b)
        <5>1. u > 0
          BY <4>1, <4>7, <4>10, <1>3, <1>6, <1>7
        <5>2. sent[Current] - u + 1 \in 1 .. sent[Current]
          BY <5>1, <1>3, <1>6
        <5> QED BY <5>1, <5>2, <4>8
      <4>11. ASSUME sent[Current] < MAX_INPUT_MESSAGE_SIZE PROVE u = sent[First]
        BY <4>7, <4>11, <1>3, <1>6, <1>7
      <4> QED BY <4>6, <4>9, <4>10, <4>11, <1>3
    <3> QED BY <3>1, <3>2, Zenon
  <2> HIDE DEF c
  <2>3. Current \in 1 .. Len(sent)
    BY <1>3, <1>6
  <2>4. /\ MessagesArriveWhole' /\ delivered' \in Seq(Seq(Byte))
        /\ Len(delivered') = Len(delivered) + 1
    BY <1>1, <1>2, <2>1, <2>2, <2>3, Arrival
  <2>5. inbound' = Tail(inbound)
    BY <1>4, <1>11
  <2>6. PipeHolds' /\ inbound' \in Seq(Seq(Byte))
    BY <1>2, <2>1, <2>4, <2>5, PipeAdvanced
  <2>7. m_inputBuffer' \in Seq(Seq(Byte))
    BY <2>1
  <2>8. TypeOK'
    BY <1>1, <1>2, <2>4, <2>6, <2>7 DEF TypeOK
  <2>9. ChunksHold'
    BY <1>2, <2>1 DEF ChunksHold
  <2> QED BY <2>4, <2>6, <2>8, <2>9 DEF MInv
<1> QED BY <1>9, <1>10, <1>11

\* The pipe stays as it is.
LEMMA SamePipe ==
    ASSUME PipeHolds, UNCHANGED <<inbound, session, sent, gone>>, First' = First,
           ~gone /\ inbound # <<>> => HeadIs(Len(inbound[1]))',
           ~gone /\ inbound = <<>> /\ pc' = "read" => ~fMsgTooLong' /\ OneChunk(BUFSIZE)',
           ~gone /\ pc' = "pending" => inbound = <<>>
    PROVE  PipeHolds'
BY DEF PipeHolds, LastBytes

LEMMA ReadPendsKeeps == ASSUME MInv, ReadPends PROVE MInv'
<1>1. TypeOK /\ ChunksHold /\ PipeHolds /\ MessagesArriveWhole
  BY DEF MInv
<1>2. /\ pc = "read" /\ ~gone /\ inbound = <<>> /\ pc' = "pending"
      /\ UNCHANGED <<fMsgTooLong, m_inputBuffer, result, inbound, gone, session, sent,
                     delivered>>
  BY DEF ReadPends, peerVars
<1>3. OneChunk(BUFSIZE)'
  BY <1>1, <1>2 DEF PipeHolds, OneChunk
<1>4. TypeOK'
  BY <1>1, <1>2 DEF TypeOK
<1>5. ChunksHold'
  BY <1>2, <1>3 DEF ChunksHold
<1>6. First' = First
  BY <1>2, SameFirst
<1>7. PipeHolds'
  BY <1>1, <1>2, <1>6, SamePipe
<1> QED BY <1>1, <1>2, <1>4, <1>5, <1>7, SameArrivals DEF MInv

LEMMA BeginningOf ==
    ASSUME NEW s \in Nat, NEW k \in Nat, NEW c \in Seq(Byte), NEW n \in 0 .. Len(c),
           \A j \in 1 .. n : c[j] = ByteAt(s, k, j)
    PROVE  SubSeq(c, 1, n) = Bytes(s, k, 0, n)
BY DEF Bytes

LEMMA CompletedKeeps == ASSUME MInv, Completed PROVE MInv'
<1>1. TypeOK /\ ChunksHold /\ PipeHolds /\ MessagesArriveWhole
  BY DEF MInv
<1>2. /\ pc = "done" /\ pc' = "peek" /\ result' = NoResult
      /\ UNCHANGED <<fMsgTooLong, inbound, gone, session, sent>>
  BY DEF Completed, peerVars
<1> DEFINE n == result.n
           b == TrimLastChunk(m_inputBuffer, n)
<1>3. \/ result.more /\ m_inputBuffer' = b /\ UNCHANGED delivered
      \/ ~result.more /\ m_inputBuffer' = <<>> /\ delivered' = Append(delivered, Contents(b))
  BY DEF Completed, MoreOrCompleted
<1>4. BUFSIZE \in Nat \ {0} /\ MAX_INPUT_MESSAGE_SIZE \in Nat
      /\ MAX_INPUT_MESSAGE_SIZE > 2 * BUFSIZE
  BY LimitAssumption
<1>5. m_inputBuffer \in Seq(Seq(Byte)) /\ session \in Nat /\ Current \in Nat
  BY <1>1, Numbers DEF TypeOK
<1>6. /\ Len(m_inputBuffer) = 1 /\ Len(m_inputBuffer[1]) = BUFSIZE
      /\ m_inputBuffer[1] \in Seq(Byte)
  <2>1. OneChunk(BUFSIZE)
    BY <1>1, <1>2 DEF ChunksHold
  <2>2. Len(m_inputBuffer) = 1 /\ Len(m_inputBuffer[1]) = BUFSIZE
    BY <2>1 DEF OneChunk
  <2> QED BY <2>2, <1>5, FirstChunks
<1>7. /\ Current \in 1 .. Len(sent) /\ sent[Current] \in Nat
      /\ n = IF sent[Current] < BUFSIZE THEN sent[Current] ELSE BUFSIZE
      /\ result.more = (n < sent[Current])
      /\ \A j \in 1 .. n : m_inputBuffer[1][j] = ByteAt(session, Current, j)
  BY <1>1, <1>2, Numbers DEF ChunksHold
<1> HIDE DEF n, b
<1>8. n \in 0 .. BUFSIZE /\ n <= sent[Current]
  BY <1>4, <1>7
<1>14. result.more <=> n < sent[Current]
  BY <1>7, Zenon
<1>9. /\ b = IF n = 0 THEN <<>> ELSE <<SubSeq(m_inputBuffer[1], 1, n)>>
      /\ b \in Seq(Seq(Byte)) /\ Contents(b) = SubSeq(m_inputBuffer[1], 1, n)
  BY <1>5, <1>6, <1>8, OneTrimmed DEF b
<1>10. SubSeq(m_inputBuffer[1], 1, n) = Bytes(session, Current, 0, n)
  BY <1>5, <1>6, <1>7, <1>8, BeginningOf
<1>11. NoResult \in [n : Nat, more : BOOLEAN]
  BY DEF NoResult
<1>12. ASSUME result.more PROVE MInv'
  <2>1. m_inputBuffer' = b /\ UNCHANGED delivered
    BY <1>3, <1>12
  <2>2. n = BUFSIZE /\ sent[Current] > BUFSIZE
    BY <1>4, <1>7, <1>14, <1>12
  <2>3. m_inputBuffer' = <<Bytes(session, Current, 0, BUFSIZE)>>
    BY <2>1, <2>2, <1>4, <1>9, <1>10
  <2>4. /\ m_inputBuffer' \in Seq(Seq(Byte)) /\ m_inputBuffer' # <<>> /\ Len(m_inputBuffer') = 1
        /\ m_inputBuffer'[1] = Bytes(session, Current, 0, BUFSIZE)
    BY <2>1, <2>3, <1>9
  <2>5. Current' = Current /\ First = Current /\ First' = First
    BY <2>1, <1>2, <1>12 DEF Current, First
  <2>6. TypeOK'
    BY <2>1, <2>4, <1>1, <1>2, <1>11 DEF TypeOK
  <2>7. OneChunk(BUFSIZE)'
    <3>1. Len(m_inputBuffer'[1]) = BUFSIZE
      <4>1. Len(SubSeq(m_inputBuffer[1], 1, n)) = BUFSIZE
        BY <2>2, <1>4, <1>6
      <4> QED BY <4>1, <2>2, <2>4, <1>10
    <3> QED BY <3>1, <2>4 DEF OneChunk
  <2>8. KeptChunk'
    <3>1. Current \in DOMAIN sent
      BY <1>1, <1>7, Numbers
    <3> QED BY <3>1, <2>2, <2>4, <2>5, <1>2 DEF KeptChunk, Beginning
  <2>9. ChunksHold'
    BY <2>7, <2>8, <1>2 DEF ChunksHold
  <2>10. ~gone /\ inbound # <<>> => HeadIs(Len(inbound[1]))'
    <3> SUFFICES ASSUME ~gone, inbound # <<>> PROVE HeadIs(Len(inbound[1]))'
      OBVIOUS
    <3>1. HeadIs(Len(inbound[1]))
      BY HeadOfPipe
    <3>2. Len(inbound[1]) = sent[First] - BUFSIZE
      BY <3>1, <1>2, <1>12 DEF HeadIs
    <3> QED BY <3>2, <2>4, <2>5, <1>2 DEF HeadIs
  <2>11. PipeHolds'
    BY <2>5, <2>10, <1>1, <1>2, SamePipe
  <2> QED BY <2>1, <2>6, <2>9, <2>11, <1>1, <1>2, SameArrivals DEF MInv
<1>13. ASSUME ~result.more PROVE MInv'
  <2> DEFINE c == Contents(b)
  <2>1. m_inputBuffer' = <<>> /\ delivered' = Append(delivered, c)
    BY <1>3, <1>13
  <2>2. n = sent[Current] /\ sent[Current] < MAX_INPUT_MESSAGE_SIZE
        /\ ~(sent[Current] >= MAX_INPUT_MESSAGE_SIZE)
    BY <1>4, <1>7, <1>8, <1>14, <1>13
  <2>3. c = Bytes(session, Current, 0, sent[Current])
    BY <2>2, <1>9, <1>10
  <2>4. c \in Seq(Byte)
    BY <1>6, <1>8, <1>9
  <2>5. c = Message(Current, 1)
    <3>1. 1 - 1 = 0 /\ sent[Current] + 1 - 1 = sent[Current]
      BY <1>7
    <3> QED BY <2>3, <3>1 DEF Message
  <2> HIDE DEF c
  <2>6. /\ MessagesArriveWhole' /\ delivered' \in Seq(Seq(Byte))
        /\ Len(delivered') = Len(delivered) + 1
    BY <1>1, <1>2, <1>7, <2>1, <2>2, <2>4, <2>5, Arrival
  <2>7. First' = First /\ First = Current + 1
    BY <2>6, <1>1, <1>2, <1>13, Numbers DEF First, Current
  <2>8. m_inputBuffer' \in Seq(Seq(Byte))
    BY <2>1
  <2>9. TypeOK'
    BY <2>6, <2>8, <1>1, <1>2, <1>11 DEF TypeOK
  <2>10. ChunksHold'
    BY <2>1, <1>2 DEF ChunksHold
  <2>11. ~gone /\ inbound # <<>> => HeadIs(Len(inbound[1]))'
    <3> SUFFICES ASSUME ~gone, inbound # <<>> PROVE HeadIs(Len(inbound[1]))'
      OBVIOUS
    <3>1. HeadIs(Len(inbound[1]))
      BY HeadOfPipe
    <3>2. Len(inbound[1]) = sent[First]
      BY <3>1, <1>2, <1>13 DEF HeadIs
    <3> QED BY <3>2, <2>1, <2>7, <1>2 DEF HeadIs
  <2>12. PipeHolds'
    BY <2>7, <2>11, <1>1, <1>2, SamePipe
  <2> QED BY <2>6, <2>9, <2>10, <2>12 DEF MInv
<1> QED BY <1>12, <1>13

LEMMA FailsKeeps == ASSUME MInv, Fails PROVE MInv'
<1>1. TypeOK /\ ChunksHold /\ PipeHolds
  BY DEF MInv
<1>2. /\ gone /\ session < MaxSessions /\ m_inputBuffer' = <<>> /\ pc' = "peek"
      /\ gone' = FALSE /\ session' = session + 1 /\ sent' = <<>> /\ delivered' = <<>>
      /\ UNCHANGED <<fMsgTooLong, result, inbound>>
  BY DEF Fails, ClearedAtReset
<1>3. inbound' = <<>>
  BY <1>1, <1>2 DEF PipeHolds
<1>4. session' \in 1 .. MaxSessions
  BY <1>1, <1>2, ReaderBoundsAssumption DEF TypeOK
<1>5. m_inputBuffer' \in Seq(Seq(Byte)) /\ sent' \in Seq(Sizes) /\ delivered' \in Seq(Seq(Byte))
  BY <1>2
<1>6. TypeOK'
  BY <1>1, <1>2, <1>4, <1>5 DEF TypeOK
<1>7. ChunksHold'
  BY <1>2 DEF ChunksHold
<1>8. First' = 1
  BY <1>2 DEF First, Current
<1>9. PipeHolds'
  BY <1>2, <1>3, <1>8 DEF PipeHolds
<1>10. MessagesArriveWhole'
  BY <1>2 DEF MessagesArriveWhole
<1> QED BY <1>6, <1>7, <1>9, <1>10 DEF MInv

-----------------------------------------------------------------------------
(***************************************************************************)
(* The steps of the peer.                                                    *)
(***************************************************************************)
LEMMA DisconnectKeeps == ASSUME MInv, Disconnect PROVE MInv'
<1>1. TypeOK /\ ChunksHold /\ PipeHolds /\ MessagesArriveWhole
  BY DEF MInv
<1>2. /\ gone' = TRUE /\ inbound' = <<>>
      /\ UNCHANGED <<pc, fMsgTooLong, m_inputBuffer, result, session, sent, delivered>>
  BY DEF Disconnect, peerVars
<1>3. inbound' \in Seq(Seq(Byte))
  BY <1>2
<1>4. TypeOK'
  BY <1>1, <1>2, <1>3 DEF TypeOK
<1>5. ChunksHold'
  BY <1>1, <1>2 DEF ChunksHold, OneChunk, KeptChunk, LastOfTwo, Beginning, Current
<1>6. PipeHolds'
  BY <1>2 DEF PipeHolds
<1> QED BY <1>1, <1>2, <1>4, <1>5, <1>6, SameArrivals DEF MInv

\* The messages passed on before stay the same when another is sent.
LEMMA MoreSent ==
    ASSUME TypeOK, MessagesArriveWhole, NEW size \in Sizes, sent' = Append(sent, size),
           UNCHANGED <<session, delivered>>
    PROVE  /\ sent' \in Seq(Sizes) /\ Len(sent') = Len(sent) + 1
           /\ sent'[Len(sent) + 1] = size /\ size \in Nat
           /\ \A k \in 1 .. Len(sent) : sent'[k] = sent[k]
           /\ DOMAIN sent' = 1 .. (Len(sent) + 1)
           /\ MessagesArriveWhole'
<1>1. sent \in Seq(Sizes)
  BY DEF TypeOK
<1>2. /\ sent' \in Seq(Sizes) /\ Len(sent') = Len(sent) + 1
      /\ sent'[Len(sent) + 1] = size /\ Len(sent) \in Nat
      /\ \A k \in 1 .. Len(sent) : sent'[k] = sent[k]
  BY <1>1, OneMore
<1>3. DOMAIN sent' = 1 .. (Len(sent) + 1) /\ DOMAIN sent = 1 .. Len(sent)
  <2>1. DOMAIN sent' = 1 .. Len(sent')
    BY <1>2
  <2> QED BY <1>1, <1>2, <2>1
<1>4. ASSUME NEW k \in DOMAIN delivered
      PROVE  /\ k \in DOMAIN sent'
             /\ sent'[k] < MAX_INPUT_MESSAGE_SIZE => delivered[k] = Message(k, 1)'
             /\ sent'[k] >= MAX_INPUT_MESSAGE_SIZE =>
                   \E b \in 1 .. sent'[k] : delivered[k] = Message(k, b)'
  <2>1. k \in 1 .. Len(sent) /\ sent'[k] = sent[k]
    BY <1>2, <1>3 DEF MessagesArriveWhole
  <2>2. \A b : Message(k, b)' = Message(k, b)
    BY <2>1 DEF Message
  <2> QED BY <2>1, <2>2, <1>2, <1>3 DEF MessagesArriveWhole
<1> QED BY <1>2, <1>3, <1>4, SizesAssumption DEF MessagesArriveWhole

\* A message is put behind the others in the pipe.
LEMMA Queued ==
    ASSUME MInv, NEW size \in Sizes, pc # "pending", Send(size)
    PROVE  MInv'
<1> DEFINE bytes == Bytes(session, Len(sent) + 1, 0, size)
<1>1. TypeOK /\ ChunksHold /\ PipeHolds /\ MessagesArriveWhole
  BY DEF MInv
<1>2. /\ ~gone /\ sent' = Append(sent, size)
      /\ UNCHANGED <<pc, fMsgTooLong, m_inputBuffer, result, gone, session, delivered>>
  BY DEF Send
<1>3. /\ sent' \in Seq(Sizes) /\ Len(sent') = Len(sent) + 1
      /\ sent'[Len(sent) + 1] = size /\ size \in Nat
      /\ \A k \in 1 .. Len(sent) : sent'[k] = sent[k]
      /\ DOMAIN sent' = 1 .. (Len(sent) + 1)
      /\ MessagesArriveWhole'
  BY <1>1, <1>2, MoreSent
<1>4. inbound' = Append(inbound, bytes)
  BY <1>3 DEF Send
<1>5. session \in Nat /\ Len(sent) \in Nat /\ Current \in Nat \ {0} /\ First \in Nat \ {0}
      /\ DOMAIN sent = 1 .. Len(sent)
  <2>1. Current \in Nat \ {0} /\ First \in Nat \ {0}
    BY <1>1, Numbers DEF Current, First
  <2> QED BY <2>1, <1>1, Numbers
<1>6. bytes \in Seq(Byte) /\ Len(bytes) = size
  <2>1. Len(sent) + 1 \in Nat /\ session \in Nat /\ size \in Nat
    BY <1>3, <1>5
  <2> QED BY <2>1, ByteType DEF Bytes
<1>7. First' = First /\ Current' = Current
  BY <1>2 DEF First, Current
<1>8. /\ inbound' \in Seq(Seq(Byte)) /\ Len(inbound') = Len(inbound) + 1
      /\ inbound'[Len(inbound) + 1] = bytes /\ Len(inbound) \in Nat
      /\ \A j \in 1 .. Len(inbound) : inbound'[j] = inbound[j]
      /\ DOMAIN inbound = 1 .. Len(inbound) /\ DOMAIN inbound' = 1 .. (Len(inbound) + 1)
  <2>1. inbound \in Seq(Seq(Byte))
    BY <1>1 DEF TypeOK
  <2> HIDE DEF bytes
  <2>2. /\ inbound' \in Seq(Seq(Byte)) /\ Len(inbound') = Len(inbound) + 1
        /\ inbound'[Len(inbound) + 1] = bytes /\ Len(inbound) \in Nat
        /\ \A j \in 1 .. Len(inbound) : inbound'[j] = inbound[j]
    BY <2>1, <1>4, <1>6, OneMore
  <2>3. DOMAIN inbound' = 1 .. Len(inbound')
    BY <2>2
  <2> QED BY <2>1, <2>2, <2>3
<1>9. Len(inbound) = Len(sent) + 1 - First
  BY <1>1, <1>2 DEF PipeHolds
<1>10. TypeOK'
  BY <1>1, <1>2, <1>3, <1>8 DEF TypeOK
\* What the chunks hold is of messages sent before.
<1>11. KeptChunk => KeptChunk' /\ sent'[Current] = sent[Current] /\ Current \in 1 .. Len(sent)
  <2>1. KeptChunk => Current \in 1 .. Len(sent)
    BY <1>5 DEF KeptChunk
  <2>2. Current \in 1 .. Len(sent) => Current \in DOMAIN sent' /\ sent'[Current] = sent[Current]
    BY <1>3, <1>5
  <2>3. Beginning(BUFSIZE)' = Beginning(BUFSIZE)
    BY <1>2, <1>7 DEF Beginning
  <2> QED BY <2>1, <2>2, <2>3, <1>2, <1>7 DEF KeptChunk
<1>12. ChunksHold'
  <2>1. pc = "peek" => m_inputBuffer' = <<>> \/ (OneChunk(BUFSIZE)' /\ KeptChunk')
    BY <1>1, <1>2, <1>11 DEF ChunksHold, OneChunk
  <2>2. LastOfTwo => LastOfTwo'
    BY <1>2, <1>7, <1>11 DEF LastOfTwo
  <2>3. \A n : OneChunk(n)' <=> OneChunk(n)
    BY <1>2 DEF OneChunk
  <2>4. pc = "done" =>
          /\ Current \in 1 .. Len(sent)
          /\ Current \in DOMAIN sent' /\ sent'[Current] = sent[Current]
    BY <1>1, <1>3, <1>5 DEF ChunksHold
  <2>5. pc = "done" =>
          /\ Current \in DOMAIN sent'
          /\ result.n = IF sent'[Current] < BUFSIZE THEN sent'[Current] ELSE BUFSIZE
          /\ result.more = (result.n < sent'[Current])
          /\ \A j \in 1 .. result.n : m_inputBuffer[1][j] = ByteAt(session, Current, j)
    BY <2>4, <1>1 DEF ChunksHold
  <2>6. pc = "read" /\ ~fMsgTooLong =>
          LastOfTwo' \/ \E size_ \in 1 .. (MAX_INPUT_MESSAGE_SIZE - 1) : OneChunk(size_)'
    BY <2>2, <2>3, <1>1 DEF ChunksHold
  <2>7. /\ pc = "read" /\ fMsgTooLong => OneChunk(BUFSIZE)'
        /\ pc \in {"pending", "done"} => OneChunk(BUFSIZE)'
    BY <1>1, <1>2 DEF ChunksHold, OneChunk
  <2> QED BY <2>1, <2>5, <2>6, <2>7, <1>2, <1>7 DEF ChunksHold
<1>13. Len(inbound') = Len(sent') + 1 - First'
  BY <1>3, <1>5, <1>7, <1>8, <1>9
<1>14. ASSUME NEW j \in DOMAIN inbound'
       PROVE  /\ inbound'[j] = Bytes(session, First + j - 1,
                        sent'[First + j - 1] - Len(inbound'[j]), Len(inbound'[j]))
              /\ j > 1 => Len(inbound'[j]) = sent'[First + j - 1]
  <2>1. CASE j \in 1 .. Len(inbound)
    <3>1. First + j - 1 \in 1 .. Len(sent)
      <4>1. j \in Nat /\ j >= 1 /\ j <= Len(inbound)
        BY <2>1, <1>8
      <4> QED BY <4>1, <1>5, <1>9
    <3>2. sent'[First + j - 1] = sent[First + j - 1] /\ inbound'[j] = inbound[j]
          /\ j \in DOMAIN inbound
      BY <2>1, <3>1, <1>3, <1>8
    <3>3. /\ inbound[j] = LastBytes(First + j - 1, Len(inbound[j]))
          /\ j > 1 => Len(inbound[j]) = sent[First + j - 1]
      BY <3>2, <1>1, <1>2 DEF PipeHolds
    <3> QED BY <3>2, <3>3, Zenon DEF LastBytes
  <2>2. CASE j = Len(inbound) + 1
    <3>1. First + j - 1 = Len(sent) + 1 /\ size - size = 0
      BY <2>2, <1>3, <1>5, <1>8, <1>9
    <3>2. inbound'[j] = bytes /\ Len(inbound'[j]) = size
      BY <2>2, <1>6, <1>8
    <3>3. sent'[First + j - 1] = size
      BY <3>1, <1>3, Zenon
    <3> QED BY <3>1, <3>2, <3>3, Zenon
  <2>3. j \in 1 .. Len(inbound) \/ j = Len(inbound) + 1
    BY <1>8
  <2> QED BY <2>1, <2>2, <2>3, Zenon
\* The new message is the first: the chunks are as they are when Peek found none.
<1>15. ASSUME inbound = <<>>
       PROVE  Len(inbound'[1]) = sent'[First'] /\ sent'[First'] = size /\ HeadIs(Len(inbound[1]))'
  <2>1. Len(inbound) = 0 /\ First = Len(sent) + 1
    BY <1>5, <1>9, <1>15
  <2>2. inbound'[1] = bytes
    BY <2>1, <1>8
  <2>3. sent'[First'] = size /\ Len(inbound'[1]) = size
    BY <2>1, <2>2, <1>3, <1>6, <1>7
  <2>4. pc = "peek" => m_inputBuffer = <<>>
    <3>1. KeptChunk /\ pc = "peek" => FALSE
      BY <1>2, <1>15, KeptIsInPipe
    <3> QED BY <3>1, <1>1 DEF ChunksHold
  <2>5. pc = "read" => ~fMsgTooLong /\ OneChunk(BUFSIZE)
    BY <1>1, <1>2, <1>15 DEF PipeHolds
  <2>6. pc = "done" => ~result.more
    <3>1. pc = "done" /\ result.more => First = Current /\ Current \in 1 .. Len(sent)
      BY <1>1, <1>5 DEF First, ChunksHold
    <3> QED BY <2>1, <3>1, <1>5
  <2>7. OneChunk(BUFSIZE) => OneChunk(BUFSIZE)' /\ Len(m_inputBuffer) # 2
    BY <1>2 DEF OneChunk
  <2> HIDE DEF bytes
  <2> QED BY <2>3, <2>4, <2>5, <2>6, <2>7, <1>2 DEF HeadIs
<1>16. ASSUME inbound # <<>>
       PROVE  Len(inbound'[1]) <= sent'[First'] /\ HeadIs(Len(inbound[1]))'
  <2>1. HeadIs(Len(inbound[1])) /\ First \in 1 .. Len(sent) /\ Len(inbound[1]) <= sent[First]
    BY <1>2, <1>16, HeadOfPipe
  <2>2. inbound'[1] = inbound[1]
    BY <1>8, <1>16
  <2>3. sent'[First'] = sent[First]
    BY <2>1, <1>3, <1>7
  <2> HIDE DEF bytes
  <2> QED BY <2>1, <2>2, <2>3, <1>2, <1>7 DEF HeadIs, OneChunk
<1>17. Len(inbound'[1]) <= sent'[First'] /\ HeadIs(Len(inbound[1]))'
  BY <1>3, <1>15, <1>16
<1>18. inbound' # <<>>
  BY <1>8
<1>19. PipeHolds'
  BY <1>2, <1>7, <1>13, <1>14, <1>17, <1>18 DEF PipeHolds, LastBytes
<1> QED BY <1>3, <1>10, <1>12, <1>19 DEF MInv

\* A message completes the pending read, with all of it or its beginning.
LEMMA Taken ==
    ASSUME MInv, NEW size \in Sizes, pc = "pending", Send(size)
    PROVE  MInv'
<1> DEFINE bytes == Bytes(session, Len(sent) + 1, 0, size)
           n == Transferred(m_inputBuffer, bytes)
<1>1. TypeOK /\ ChunksHold /\ PipeHolds /\ MessagesArriveWhole
  BY DEF MInv
<1>2. /\ ~gone /\ sent' = Append(sent, size) /\ pc' = "done"
      /\ UNCHANGED <<fMsgTooLong, gone, session, delivered>>
  BY DEF Send
<1>3. /\ sent' \in Seq(Sizes) /\ Len(sent') = Len(sent) + 1
      /\ sent'[Len(sent) + 1] = size /\ size \in Nat
      /\ DOMAIN sent' = 1 .. (Len(sent) + 1)
      /\ MessagesArriveWhole'
  BY <1>1, <1>2, MoreSent
<1>4. /\ m_inputBuffer' = Filled(m_inputBuffer, bytes)
      /\ result' = [n |-> n, more |-> n < size]
      /\ inbound' = IF n < size THEN <<SubSeq(bytes, n + 1, size)>> ELSE <<>>
  BY <1>3 DEF Send
<1>5. BUFSIZE \in Nat \ {0}
  BY LimitAssumption
<1>6. inbound = <<>> /\ First = Current /\ Current = Len(sent) + 1 /\ Current \in Nat
      /\ session \in Nat /\ Len(sent) \in Nat
  <2>1. inbound = <<>> /\ Len(inbound) = Len(sent) + 1 - First
    BY <1>1, <1>2 DEF PipeHolds
  <2>2. First = Current
    BY DEF First
  <2> QED BY <2>1, <2>2, <1>1, Numbers
<1>7. Len(m_inputBuffer) = 1 /\ Len(m_inputBuffer[1]) = BUFSIZE /\ m_inputBuffer \in Seq(Seq(Byte))
  BY <1>1 DEF ChunksHold, OneChunk, TypeOK
<1>8. bytes \in Seq(Byte) /\ Len(bytes) = size
  <2>1. Len(sent) + 1 \in Nat /\ session \in Nat /\ size \in Nat
    BY <1>3, <1>6
  <2> QED BY <2>1, ByteType DEF Bytes
<1>9. bytes = Bytes(session, Current, 0, size)
  BY <1>6, Zenon
<1>10. \A j \in 1 .. size : bytes[j] = ByteAt(session, Current, j)
  <2> HIDE DEF bytes
  <2> QED BY <1>9 DEF Bytes
<1> HIDE DEF bytes, n
<1>11. /\ m_inputBuffer' \in Seq(Seq(Byte)) /\ Len(m_inputBuffer') = 1
       /\ Len(m_inputBuffer'[1]) = BUFSIZE
       /\ \A j \in 1 .. BUFSIZE : j \in 1 .. size => m_inputBuffer'[1][j] = bytes[j]
       /\ n = IF size < BUFSIZE THEN size ELSE BUFSIZE
  <2>1. /\ Filled(m_inputBuffer, bytes) \in Seq(Seq(Byte)) /\ Len(Filled(m_inputBuffer, bytes)) = 1
        /\ Len(Filled(m_inputBuffer, bytes)[1]) = Len(m_inputBuffer[1])
        /\ \A j \in 1 .. Len(m_inputBuffer[1]) :
              j \in 1 .. Len(bytes) => Filled(m_inputBuffer, bytes)[1][j] = bytes[j]
        /\ n = IF Len(bytes) < Len(m_inputBuffer[1]) THEN Len(bytes) ELSE Len(m_inputBuffer[1])
    BY <1>7, <1>8, OneFilled DEF n
  <2> QED BY <2>1, <1>4, <1>7, <1>8
<1>12. n \in 0 .. size /\ n <= BUFSIZE /\ (n < size => n = BUFSIZE /\ size > BUFSIZE)
       /\ (~(n < size) => n = size)
  BY <1>3, <1>5, <1>11
<1>13. result'.n = n /\ result'.more = (n < size) /\ result' \in [n : Nat, more : BOOLEAN]
  <2>1. n \in Nat /\ (n < size) \in BOOLEAN
    BY <1>3, <1>12
  <2> QED BY <2>1, <1>4
<1>14. result'.more <=> n < size
  BY <1>13, Zenon
<1>15. Current' = Current /\ sent'[Current] = size /\ Current \in DOMAIN sent'
  BY <1>2, <1>3, <1>6 DEF Current
\* What remains in the pipe.
<1>16. ASSUME n < size
       PROVE  /\ inbound' \in Seq(Seq(Byte)) /\ Len(inbound') = 1 /\ Len(inbound'[1]) = size - n
              /\ inbound'[1] = Bytes(session, Current, size - (size - n), size - n)
  <2> DEFINE x == SubSeq(bytes, n + 1, size)
             d == size - n
  <2>1. x \in Seq(Byte) /\ Len(x) = d
    BY <1>8, <1>12, <1>16
  <2>2. x = Bytes(session, Current, size - (size - n), d)
    BY <1>3, <1>9, <1>12 DEF Bytes
  <2> HIDE DEF x
  <2>3. inbound' = <<x>>
    BY <1>4, <1>16 DEF x
  <2>4. <<x>> \in Seq(Seq(Byte)) /\ Len(<<x>>) = 1 /\ <<x>>[1] = x
    BY <2>1
  <2> QED BY <2>1, <2>2, <2>3, <2>4
<1>17. ASSUME ~(n < size) PROVE inbound' = <<>>
  BY <1>4, <1>17
<1>18. TypeOK'
  <2>1. inbound' \in Seq(Seq(Byte))
    <3>1. <<>> \in Seq(Seq(Byte))
      OBVIOUS
    <3> QED BY <3>1, <1>16, <1>17, Zenon
  <2>2. m_inputBuffer' # <<>> /\ Last(m_inputBuffer') # <<>>
    BY <1>5, <1>11 DEF Last
  <2>3. m_inputBuffer' \in Seq(Seq(Byte))
    BY <1>11
  <2> QED BY <2>1, <2>2, <2>3, <1>1, <1>2, <1>3, <1>13 DEF TypeOK
<1>19. ChunksHold'
  <2>1. OneChunk(BUFSIZE)'
    BY <1>11 DEF OneChunk
  <2>2. \A j \in 1 .. n : m_inputBuffer'[1][j] = ByteAt(session, Current, j)
    <3> TAKE j \in 1 .. n
    <3>1. j \in 1 .. BUFSIZE /\ j \in 1 .. size
      BY <1>3, <1>5, <1>12
    <3> QED BY <3>1, <1>10, <1>11
  <2>3. result'.n = IF sent'[Current] < BUFSIZE THEN sent'[Current] ELSE BUFSIZE
    BY <1>11, <1>13, <1>15
  <2>4. result'.more = (result'.n < sent'[Current])
    BY <1>13, <1>15, Zenon
  <2>5. \A j \in 1 .. result'.n : m_inputBuffer'[1][j] = ByteAt(session, Current, j)
    BY <2>2, <1>13
  <2> QED BY <2>1, <2>3, <2>4, <2>5, <1>2, <1>15 DEF ChunksHold
<1>20. PipeHolds'
  <2>1. CASE n < size
    <3>1. First' = Current
      BY <2>1, <1>2, <1>14, <1>15 DEF First
    <3>2. /\ inbound' \in Seq(Seq(Byte)) /\ Len(inbound') = 1 /\ Len(inbound'[1]) = size - n
          /\ inbound'[1] = Bytes(session, Current, size - (size - n), size - n)
      BY <2>1, <1>16
    <3>3. DOMAIN inbound' = 1 .. 1 /\ inbound' # <<>>
      <4>1. inbound' \in Seq(Seq(Byte)) /\ Len(inbound') = 1
        BY <3>2
      <4> QED BY <4>1
    <3>4. Len(inbound') = Len(sent') + 1 - First'
      BY <3>1, <3>2, <1>3, <1>6
    <3>5. Current + 1 - 1 = Current
      BY <1>6
    <3>6. inbound'[1] = Bytes(session, Current + 1 - 1, sent'[Current + 1 - 1] - Len(inbound'[1]),
                              Len(inbound'[1]))
      BY <3>2, <3>5, <1>15, Zenon
    <3>7. ASSUME NEW j \in DOMAIN inbound'
          PROVE  /\ inbound'[j] = Bytes(session, Current + j - 1,
                            sent'[Current + j - 1] - Len(inbound'[j]), Len(inbound'[j]))
                 /\ ~(j > 1)
      <4>1. j = 1 /\ ~(1 > 1)
        BY <3>3
      <4> QED BY <4>1, <3>6, Zenon
    <3>8. Len(inbound'[1]) <= sent'[First'] /\ HeadIs(Len(inbound[1]))'
      <4>1. Len(inbound'[1]) = size - BUFSIZE /\ size - BUFSIZE <= size
        BY <2>1, <3>2, <1>3, <1>5, <1>12
      <4> QED BY <4>1, <2>1, <3>1, <1>2, <1>14, <1>15 DEF HeadIs
    <3> QED BY <3>1, <3>3, <3>4, <3>7, <3>8, <1>2 DEF PipeHolds, LastBytes
  <2>2. CASE ~(n < size)
    <3>1. First' = Current + 1
      BY <2>2, <1>2, <1>14, <1>15 DEF First
    <3>2. inbound' = <<>> /\ Len(inbound') = 0 /\ DOMAIN inbound' = {}
      BY <2>2, <1>17
    <3>3. Len(inbound') = Len(sent') + 1 - First'
      BY <3>1, <3>2, <1>3, <1>6
    <3> QED BY <3>2, <3>3, <1>2 DEF PipeHolds
  <2> QED BY <2>1, <2>2
<1> QED BY <1>3, <1>18, <1>19, <1>20 DEF MInv

-----------------------------------------------------------------------------
(***************************************************************************)
(* The theorems.                                                             *)
(***************************************************************************)
LEMMA InitHolds == Init => MInv
<1> SUFFICES ASSUME Init PROVE MInv
  OBVIOUS
<1>1. <<>> \in Seq(Seq(Byte)) /\ <<>> \in Seq(Sizes) /\ NoResult \in [n : Nat, more : BOOLEAN]
  BY DEF NoResult
<1>2. 1 \in 1 .. MaxSessions
  BY ReaderBoundsAssumption
<1>3. TypeOK
  BY <1>1, <1>2 DEF Init, TypeOK
<1>4. ChunksHold
  BY DEF Init, ChunksHold
<1>5. PipeHolds
  <2>1. First = 1
    BY DEF Init, First, Current
  <2> QED BY <2>1 DEF Init, PipeHolds
<1>6. MessagesArriveWhole
  BY DEF Init, MessagesArriveWhole
<1> QED BY <1>3, <1>4, <1>5, <1>6 DEF MInv

LEMMA StepKeeps == MInv /\ [Next]_vars => MInv'
<1> SUFFICES ASSUME MInv, [Next]_vars PROVE MInv'
  OBVIOUS
<1>1. CASE Peek
  BY <1>1, PeekKeeps
<1>2. CASE Read
  BY <1>2, ReadKeeps
<1>3. CASE ReadPends
  BY <1>3, ReadPendsKeeps
<1>4. CASE Completed
  BY <1>4, CompletedKeeps
<1>5. CASE Fails
  BY <1>5, FailsKeeps
<1>6. ASSUME NEW size \in Sizes, Send(size) PROVE MInv'
  BY <1>6, Queued, Taken
<1>7. CASE Disconnect
  BY <1>7, DisconnectKeeps
<1>8. CASE UNCHANGED vars
  <2>1. UNCHANGED <<pc, fMsgTooLong, m_inputBuffer, result, inbound, gone, session, sent, delivered>>
    BY <1>8 DEF vars, peerVars
  <2>2. TypeOK' /\ MessagesArriveWhole'
    BY <2>1, SameArrivals DEF MInv, TypeOK
  <2>3. ChunksHold'
    BY <2>1 DEF MInv, ChunksHold, OneChunk, KeptChunk, LastOfTwo, Beginning, Current
  <2>4. PipeHolds'
    <3>1. First' = First
      BY <2>1 DEF First, Current
    <3> QED BY <2>1, <3>1 DEF MInv, PipeHolds, HeadIs, OneChunk, LastBytes
  <2> QED BY <2>2, <2>3, <2>4 DEF MInv
<1> QED BY <1>1, <1>2, <1>3, <1>4, <1>5, <1>6, <1>7, <1>8 DEF Next, Reader, Peer, Finished

\* In every reachable state the chunks hold the beginning of the message that is
\* being put together, and the pipe its rest and the messages after it.
THEOREM ReaderInvariance == Spec => []MInv
<1>1. Init => MInv
  BY InitHolds
<1>2. MInv /\ [Next]_vars => MInv'
  BY StepKeeps
<1> QED BY <1>1, <1>2, PTL DEF Spec

\* The variables keep their types, and an operation always has a chunk to read
\* into: prepare_input_buffer never leaves an empty one last.
THEOREM ReaderTypes == Spec => []TypeOK
<1>1. MInv => TypeOK
  BY DEF MInv
<1> QED BY <1>1, ReaderInvariance, PTL

\* However the reads cut the messages, and whatever an earlier session left unread,
\* OnMessage gets message after message, each whole and in order (of one that is
\* too long: its last bytes).
THEOREM MessagesAreWhole == Spec => []MessagesArriveWhole
<1>1. MInv => MessagesArriveWhole
  BY DEF MInv
<1> QED BY <1>1, ReaderInvariance, PTL

\* While a read is pending every message the peer sent has been passed on.
THEOREM WaitsWithNothingLeft == Spec => []NothingIsLeft
<1>1. MInv => NothingIsLeft
  <2> SUFFICES ASSUME MInv, pc = "pending", ~gone PROVE Len(delivered) = Len(sent)
    BY DEF NothingIsLeft
  <2>1. inbound = <<>> /\ Len(inbound) = Len(sent) + 1 - First
    BY DEF MInv, PipeHolds
  <2>2. First = Current
    BY DEF First
  <2>3. TypeOK
    BY DEF MInv
  <2> QED BY <2>1, <2>2, <2>3, Numbers
<1> QED BY <1>1, ReaderInvariance, PTL

\* The chunks together never reach MAX_INPUT_MESSAGE_SIZE bytes.
THEOREM BufferStaysBounded == Spec => []BufferIsBounded
<1>1. MInv => BufferIsBounded
  <2> SUFFICES ASSUME MInv PROVE GetCount(m_inputBuffer) < MAX_INPUT_MESSAGE_SIZE
    BY DEF BufferIsBounded
  <2>1. TypeOK /\ ChunksHold
    BY DEF MInv
  <2>2. m_inputBuffer \in Seq(Seq(Byte))
    BY <2>1 DEF TypeOK
  <2>3. BUFSIZE \in Nat \ {0} /\ MAX_INPUT_MESSAGE_SIZE \in Nat
        /\ MAX_INPUT_MESSAGE_SIZE > 2 * BUFSIZE
    BY LimitAssumption
  <2>4. CASE m_inputBuffer = <<>>
    <3>1. GetCount(m_inputBuffer) = 0
      BY <2>2, <2>4, CountOf
    <3>2. 0 < MAX_INPUT_MESSAGE_SIZE
      BY <2>3
    <3> QED BY <3>1, <3>2, Zenon
  <2>5. ASSUME NEW size \in Nat, size < MAX_INPUT_MESSAGE_SIZE, OneChunk(size)
        PROVE  GetCount(m_inputBuffer) < MAX_INPUT_MESSAGE_SIZE
    <3>1. Len(m_inputBuffer) = 1 /\ Len(m_inputBuffer[1]) = size
      BY <2>5 DEF OneChunk
    <3> QED BY <3>1, <2>2, <2>5, CountOf
  <2>6. CASE LastOfTwo
    <3>1. /\ Len(m_inputBuffer) = 2 /\ m_inputBuffer[1] = Bytes(session, Current, 0, BUFSIZE)
          /\ sent[Current] = BUFSIZE + Len(m_inputBuffer[2])
          /\ sent[Current] < MAX_INPUT_MESSAGE_SIZE
      BY <2>6 DEF LastOfTwo, KeptChunk, Beginning
    <3>2. Len(m_inputBuffer[1]) = BUFSIZE
      <4>1. Len(Bytes(session, Current, 0, BUFSIZE)) = BUFSIZE
        BY <2>3 DEF Bytes
      <4> QED BY <4>1, <3>1, Zenon
    <3> QED BY <3>1, <3>2, <2>2, CountOf
  <2>7. \/ m_inputBuffer = <<>> \/ OneChunk(BUFSIZE) \/ LastOfTwo
        \/ \E size \in 1 .. (MAX_INPUT_MESSAGE_SIZE - 1) : OneChunk(size)
    BY <2>1 DEF TypeOK, ChunksHold
  <2>8. BUFSIZE \in Nat /\ BUFSIZE < MAX_INPUT_MESSAGE_SIZE
    BY <2>3
  <2>9. \A size \in 1 .. (MAX_INPUT_MESSAGE_SIZE - 1) : size \in Nat /\ size < MAX_INPUT_MESSAGE_SIZE
    BY <2>3
  <2> QED BY <2>4, <2>5, <2>6, <2>7, <2>8, <2>9
<1> QED BY <1>1, ReaderInvariance, PTL

=============================================================================
