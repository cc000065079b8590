--------------------------- MODULE RTSPServerProofs ---------------------------
(***************************************************************************)
(* Proofs about the RTSP server: what its connections, sessions and        *)
(* streams say of each other agrees, after any sequence of requests, with  *)
(* any number of clients, sessions and sockets; a connection goes on       *)
(* hearing its client; and a NAL unit of any size, in packets of any size, *)
(* arrives as it was.                                                      *)
(***************************************************************************)
EXTENDS RTSPServer, ListProofs

-----------------------------------------------------------------------------
(***************************************************************************)
(* The fragmenter, for units of any size.                                  *)
(***************************************************************************)

\* Bytes of a unit, of a fragment, or of its headers.
Bytes == [kind : {"data", "header", "FU"}, n : Nat, first : BOOLEAN, last : BOOLEAN]

\* The bytes of a unit from the first of these on, up to the second.
UnitBytes(from, to) == [i \in 1 .. to - from |-> Data(from + i - 1)]

\* What a fragment has after its headers.
Contents(payloads) == [i \in 1 .. Len(payloads) |->
                          SubSeq(payloads[i], 4, Len(payloads[i]))]

\* Its third header.
MarkedFU(first, last) ==
    [Data(1) EXCEPT !.kind = "FU", !.first = first, !.last = last]

\* A fragment is marked as the receiver expects, and fits.
GoodFragment(payload, isFirst, isLast) ==
    /\ payload \in Seq(Bytes) /\ Len(payload) \in 3 .. MaxPayload
    /\ payload[1] = WithTypeFU(Data(1)) /\ payload[2] = Data(2)
    /\ payload[3] = MarkedFU(isFirst, isLast)

\* The fragmenter between two fragments: bytes before at have been sent.
Sending(f, size, at) ==
    /\ f \in [buffer : [0 .. size -> Bytes], fNumValidDataBytes : Nat,
              fCurDataOffset : Nat]
    /\ f.fNumValidDataBytes = size + 1 /\ f.fCurDataOffset = at
    /\ f.buffer[0] = WithTypeFU(Data(1)) /\ f.buffer[1] = Data(2)
    /\ f.buffer[2] = FUHeader(Data(1))
    /\ \A i \in at .. size : f.buffer[i] = Data(i)

\* Fragments have been made of the bytes before at.
FragmentedUpTo(state, size, at) ==
    /\ at \in MaxPayload .. size + 1
    /\ IF at = size + 1 THEN state.fragmenter = Empty
       ELSE Sending(state.fragmenter, size, at)
    /\ state.payloads \in Seq(Seq(Bytes)) /\ state.payloads # <<>>
    /\ at = size + 1 => Len(state.payloads) > 1
    /\ \A i \in 1 .. Len(state.payloads) :
           GoodFragment(state.payloads[i], i = 1,
                        i = Len(state.payloads) /\ at = size + 1)
    /\ FlattenSeq(Contents(state.payloads)) = UnitBytes(3, at)

\* The recursive function that Fragments is defined with exists.
LEMMA FragmentsRecursion ==
    ASSUME NEW size \in Nat
    PROVE  \E f : /\ f[0] = [fragmenter |-> Loaded(size), payloads |-> <<>>]
                  /\ \A n \in 1 .. size :
                         f[n] = SendNextPayload(f[n - 1], MaxPayload)
                  /\ Fragments(size, MaxPayload) = f[size].payloads
<1> DEFINE start == [fragmenter |-> Loaded(size), payloads |-> <<>>]
           Steps(f, n) ==
               f = [k \in 0 .. n |-> IF k = 0 THEN start
                                     ELSE SendNextPayload(f[k - 1], MaxPayload)]
           T == {n \in Nat : \E f : Steps(f, n)}
<1>1. 0 \in T
  <2>1. Steps([k \in 0 .. 0 |-> start], 0)
    <3> HIDE DEF start
    <3> QED OBVIOUS
  <2> QED BY <2>1
<1>2. ASSUME NEW n \in 0 .. size - 1, n \in T
      PROVE  n + 1 \in T
  <2>1. PICK f : Steps(f, n)
    BY <1>2
  <2> DEFINE g == [k \in 0 .. n + 1 |-> IF k <= n THEN f[k]
                                        ELSE SendNextPayload(f[n], MaxPayload)]
  <2> HIDE DEF start
  <2>2. \A k \in 0 .. n : f[k] = IF k = 0 THEN start
                                 ELSE SendNextPayload(f[k - 1], MaxPayload)
    BY <2>1
  <2>3. \A k \in 0 .. n + 1 : g[k] = IF k = 0 THEN start
                                     ELSE SendNextPayload(g[k - 1], MaxPayload)
    BY <2>2
  <2>4. Steps(g, n + 1)
    BY <2>3
  <2> HIDE DEF Steps
  <2> QED BY <2>4
<1>3. \E f : Steps(f, size)
  <2> HIDE DEF Steps
  <2>1. 0 .. size \subseteq T
    <3> HIDE DEF T
    <3> QED BY <1>1, <1>2, NumberInduction
  <2> QED BY <2>1
<1> DEFINE After == CHOOSE f : Steps(f, size)
<1>4. Steps(After, size)
  BY <1>3
<1>5. \A k \in 0 .. size : After[k] = IF k = 0 THEN start
                                      ELSE SendNextPayload(After[k - 1], MaxPayload)
  <2> HIDE DEF After, start
  <2> QED BY <1>4
<1>6. Fragments(size, MaxPayload) = After[size].payloads
  BY DEF Fragments
<1> HIDE DEF After
<1>7. After[0] = start /\ \A k \in 1 .. size : After[k] = SendNextPayload(After[k - 1], MaxPayload)
  <2> HIDE DEF start
  <2>1. 0 \in 0 .. size /\ \A k \in 1 .. size : k \in 0 .. size /\ k # 0
    OBVIOUS
  <2> QED BY <1>5, <2>1
<1> QED BY <1>6, <1>7

\* A byte is known by its fields.
LEMMA SameByte ==
    ASSUME NEW a \in Bytes, NEW b \in Bytes, a.kind = b.kind, a.n = b.n,
           a.first = b.first, a.last = b.last
    PROVE  a = b
BY DEF Bytes

\* Bytes are records of that type.
LEMMA DataFacts == \A n \in Nat : Data(n) \in Bytes /\ Data(n).kind = "data" /\ Data(n).n = n
BY DEF Data, Bytes

\* The third header of a fragment, field by field.
LEMMA MarkFields ==
    ASSUME NEW first \in BOOLEAN, NEW last \in BOOLEAN
    PROVE  /\ MarkedFU(first, last) \in Bytes
           /\ MarkedFU(first, last).kind = "FU" /\ MarkedFU(first, last).n = 1
           /\ MarkedFU(first, last).first = first
           /\ MarkedFU(first, last).last = last
<1>1. Data(1) \in Bytes /\ Data(1).n = 1
  BY DataFacts
<1> QED BY <1>1 DEF Bytes, MarkedFU

\* A byte whose bits S and E are these.
Marked(b, first, last) == [b EXCEPT !.first = first, !.last = last]

\* It may be made of that of another fragment.
LEMMA MarkAnew ==
    ASSUME NEW first \in BOOLEAN, NEW last \in BOOLEAN
    PROVE  Marked(FUHeader(Data(1)), first, last) = MarkedFU(first, last)
<1> DEFINE b == [FUHeader(Data(1)) EXCEPT !.first = first, !.last = last]
<1>1. Data(1) \in Bytes /\ Data(1).n = 1
  BY DataFacts
<1>2. FUHeader(Data(1)) \in Bytes
  BY <1>1 DEF Bytes, FUHeader
<1>3. FUHeader(Data(1)).kind = "FU" /\ FUHeader(Data(1)).n = 1
  BY <1>1 DEF Bytes, FUHeader
<1>4. b \in Bytes /\ b.kind = "FU" /\ b.n = 1 /\ b.first = first /\ b.last = last
  BY <1>2, <1>3 DEF Bytes
<1> HIDE DEF b
<1>5. b = MarkedFU(first, last)
  BY <1>4, MarkFields, SameByte
<1> QED BY <1>5 DEF b, Marked

\* The headers of the first fragment.
LEMMA HeaderFacts ==
    /\ WithTypeFU(Data(1)) \in Bytes /\ WithTypeFU(Data(1)).kind = "header"
    /\ FUHeader(Data(1)) \in Bytes
    /\ FUHeader(Data(1)) = MarkedFU(TRUE, FALSE)
<1>1. Data(1) \in Bytes /\ Data(1).first = FALSE /\ Data(1).last = FALSE /\ Data(1).n = 1
  BY DEF Data, Bytes
<1>2. WithTypeFU(Data(1)) \in Bytes /\ WithTypeFU(Data(1)).kind = "header"
  BY <1>1 DEF Bytes, WithTypeFU
<1>3. /\ FUHeader(Data(1)) \in Bytes
      /\ FUHeader(Data(1)).kind = "FU" /\ FUHeader(Data(1)).n = 1
      /\ FUHeader(Data(1)).first = TRUE /\ FUHeader(Data(1)).last = FALSE
  BY <1>1 DEF Bytes, FUHeader
<1>4. FUHeader(Data(1)) = MarkedFU(TRUE, FALSE)
  BY <1>3, MarkFields, SameByte
<1> QED BY <1>2, <1>3, <1>4

\* Three bytes of a buffer are overwritten.
Overwritten(buffer, i, j, k, a, b, c) ==
    [buffer EXCEPT ![i] = a, ![j] = b, ![k] = c]

\* These, and no others.
IsOverwritten(new, size, buffer, i, j, k, a, b, c) ==
    /\ new \in [0 .. size -> Bytes]
    /\ new[i] = a /\ new[j] = b /\ new[k] = c
    /\ \A n \in 0 .. size : n \notin {i, j, k} => new[n] = buffer[n]

\* That is so if they are three.
LEMMA OverwrittenBuffer ==
    ASSUME NEW size \in Nat, NEW buffer \in [0 .. size -> Bytes],
           NEW i \in 0 .. size, NEW j \in 0 .. size, NEW k \in 0 .. size,
           i # j, i # k, j # k, NEW a \in Bytes, NEW b \in Bytes, NEW c \in Bytes
    PROVE  IsOverwritten(Overwritten(buffer, i, j, k, a, b, c), size, buffer,
                         i, j, k, a, b, c)
BY DEF Overwritten, IsOverwritten

\* The largest payload has room for the headers and more.
LEMMA PayloadFacts == MaxPayload \in Nat /\ MaxPayload >= 6
BY PayloadAssumption

\* One more fragment has one more part of the unit.
LEMMA ContentsAppend ==
    ASSUME NEW payloads \in Seq(Seq(Bytes)), NEW payload \in Seq(Bytes),
           \A i \in 1 .. Len(payloads) : Len(payloads[i]) >= 3, Len(payload) >= 3
    PROVE  /\ Contents(payloads) \in Seq(Seq(Bytes))
           /\ Contents(Append(payloads, payload))
                = Append(Contents(payloads), SubSeq(payload, 4, Len(payload)))
           /\ SubSeq(payload, 4, Len(payload)) \in Seq(Bytes)
<1> DEFINE N == Len(payloads)
           rest == SubSeq(payload, 4, Len(payload))
           more == Append(payloads, payload)
<1>1. /\ N \in Nat /\ more \in Seq(Seq(Bytes)) /\ Len(more) = N + 1
      /\ \A i \in 1 .. N : more[i] = payloads[i]
      /\ more[N + 1] = payload
  BY AppendProperties
<1>2. ASSUME NEW s \in Seq(Bytes), Len(s) >= 3
      PROVE  SubSeq(s, 4, Len(s)) \in Seq(Bytes)
  <2>1. \A i \in 4 .. Len(s) : s[i] \in Bytes
    OBVIOUS
  <2> QED BY <2>1, SubSeqProperties
<1>3. rest \in Seq(Bytes)
  BY <1>2
<1>4. \A i \in 1 .. N : SubSeq(payloads[i], 4, Len(payloads[i])) \in Seq(Bytes)
  <2> TAKE i \in 1 .. N
  <2>1. payloads[i] \in Seq(Bytes) /\ Len(payloads[i]) >= 3
    OBVIOUS
  <2> QED BY <1>2, <2>1
<1> HIDE DEF more, rest
<1> DEFINE a == Contents(payloads)
           b == Contents(more)
<1>5. a \in Seq(Seq(Bytes)) /\ Len(a) = N
      /\ \A i \in 1 .. N : a[i] = SubSeq(payloads[i], 4, Len(payloads[i]))
  <2>1. a = [i \in 1 .. N |-> SubSeq(payloads[i], 4, Len(payloads[i]))]
    BY DEF Contents
  <2> HIDE DEF a
  <2> QED BY <1>1, <1>4, <2>1
<1>6. /\ b = [i \in 1 .. N + 1 |-> SubSeq(more[i], 4, Len(more[i]))]
      /\ SubSeq(more[N + 1], 4, Len(more[N + 1])) = rest
  BY <1>1 DEF Contents, rest
<1> HIDE DEF a, b
<1>7. /\ b \in Seq(Seq(Bytes)) /\ Len(b) = N + 1
      /\ \A i \in 1 .. N : b[i] = a[i]
      /\ b[N + 1] = rest
  <2>1. \A i \in 1 .. N : SubSeq(more[i], 4, Len(more[i])) = a[i]
    BY <1>1, <1>5
  <2>2. \A i \in 1 .. N + 1 : i \in 1 .. N \/ i = N + 1
    BY <1>1
  <2>3. \A i \in 1 .. N : a[i] \in Seq(Bytes)
    BY <1>4, <1>5
  <2>4. \A i \in 1 .. N + 1 : SubSeq(more[i], 4, Len(more[i])) \in Seq(Bytes)
    BY <1>3, <1>6, <2>1, <2>2, <2>3
  <2>5. N + 1 \in Nat /\ N + 1 \in 1 .. N + 1 /\ \A i \in 1 .. N : i \in 1 .. N + 1
    BY <1>1
  <2>6. b \in [1 .. N + 1 -> Seq(Bytes)]
    BY <1>6, <2>4
  <2>7. b \in Seq(Seq(Bytes)) /\ Len(b) = N + 1
    BY <2>5, <2>6
  <2>8. \A i \in 1 .. N + 1 : b[i] = SubSeq(more[i], 4, Len(more[i]))
    BY <1>6
  <2>9. \A i \in 1 .. N : b[i] = a[i]
    BY <2>1, <2>5, <2>8
  <2>10. b[N + 1] = rest
    BY <1>6, <2>5, <2>8
  <2> QED BY <2>7, <2>9, <2>10
<1>8. /\ Append(a, rest) \in Seq(Seq(Bytes)) /\ Len(Append(a, rest)) = N + 1
      /\ \A i \in 1 .. N : Append(a, rest)[i] = a[i]
      /\ Append(a, rest)[N + 1] = rest
  BY <1>3, <1>5, AppendProperties
<1>9. b = Append(a, rest)
  <2>1. \A i \in 1 .. N + 1 : i \in 1 .. N \/ i = N + 1
    BY <1>1
  <2>2. \A i \in 1 .. N + 1 : b[i] = Append(a, rest)[i]
    BY <1>7, <1>8, <2>1
  <2> QED BY <1>7, <1>8, <2>2, SeqEqual
<1> QED BY <1>3, <1>5, <1>9 DEF a, b, more, rest

\* What is sent of a buffer, and what is left.
IsSent(sent, f, size, buffer, to, payload) ==
    /\ sent.payload = payload
    /\ to >= f.fNumValidDataBytes => sent.fragmenter = Empty
    /\ to < f.fNumValidDataBytes =>
           /\ sent.fragmenter \in [buffer : [0 .. size -> Bytes],
                                   fNumValidDataBytes : Nat,
                                   fCurDataOffset : Nat]
           /\ sent.fragmenter.buffer = buffer
           /\ sent.fragmenter.fNumValidDataBytes = f.fNumValidDataBytes
           /\ sent.fragmenter.fCurDataOffset = to

\* Sent, field by field.
LEMMA SentFields ==
    ASSUME NEW size \in Nat, NEW buffer \in [0 .. size -> Bytes],
           NEW f \in [buffer : [0 .. size -> Bytes], fNumValidDataBytes : Nat,
                      fCurDataOffset : Nat],
           NEW to \in Nat, NEW payload
    PROVE  IsSent(Sent(f, buffer, to, payload), f, size, buffer, to, payload)
<1> DEFINE g == [f EXCEPT !.buffer = buffer, !.fCurDataOffset = to]
<1>1. /\ g \in [buffer : [0 .. size -> Bytes], fNumValidDataBytes : Nat,
                fCurDataOffset : Nat]
      /\ g.buffer = buffer /\ g.fNumValidDataBytes = f.fNumValidDataBytes
      /\ g.fCurDataOffset = to
  OBVIOUS
<1>2. f.fNumValidDataBytes \in Nat
  OBVIOUS
<1> DEFINE left == IF to >= f.fNumValidDataBytes THEN Empty ELSE g
<1>3. Sent(f, buffer, to, payload) = [fragmenter |-> left, payload |-> payload]
  BY DEF Sent
<1>4. /\ to >= f.fNumValidDataBytes => left = Empty
      /\ to < f.fNumValidDataBytes => left = g
  BY <1>2
<1> HIDE DEF g, left
<1> QED BY <1>1, <1>3, <1>4 DEF IsSent

\* A piece of a buffer is a sequence.
LEMMA SliceElements ==
    ASSUME NEW size \in Nat, NEW buffer \in [0 .. size -> Bytes],
           NEW from \in Nat, NEW length \in Nat, from + length <= size + 1
    PROVE  /\ Slice(buffer, from, length) \in Seq(Bytes)
           /\ Len(Slice(buffer, from, length)) = length
           /\ \A i \in 1 .. length : Slice(buffer, from, length)[i] = buffer[from + i - 1]
<1>1. Slice(buffer, from, length) = [i \in 1 .. length |-> buffer[from + i - 1]]
  BY DEF Slice
<1>2. \A i \in 1 .. length : buffer[from + i - 1] \in Bytes
  <2> TAKE i \in 1 .. length
  <2>1. from + i - 1 \in 0 .. size
    OBVIOUS
  <2> QED BY <2>1
<1> QED BY <1>1, <1>2

\* What comes after the headers of a fragment, if it is the unit's.
LEMMA AfterHeaders ==
    ASSUME NEW payload \in Seq(Bytes), Len(payload) >= 3, NEW from \in Nat,
           \A i \in 4 .. Len(payload) : payload[i] = Data(from + i - 4)
    PROVE  SubSeq(payload, 4, Len(payload)) = UnitBytes(from, from + Len(payload) - 3)
<1> DEFINE s == SubSeq(payload, 4, Len(payload))
           N == Len(payload) - 3
           u == UnitBytes(from, from + Len(payload) - 3)
<1>1. /\ Len(payload) \in Nat /\ Len(payload) >= 3 /\ N \in Nat
      /\ \A i \in 4 .. Len(payload) : payload[i] \in Bytes
  OBVIOUS
<1>2. s \in Seq(Bytes) /\ Len(s) = N /\ \A i \in 1 .. N : s[i] = payload[i + 3]
  <2>1. /\ s \in Seq(Bytes)
        /\ Len(s) = IF 4 <= Len(payload) THEN Len(payload) - 4 + 1 ELSE 0
        /\ \A i \in 1 .. Len(payload) - 4 + 1 : s[i] = payload[4 + i - 1]
    BY <1>1, SubSeqProperties
  <2>2. Len(payload) - 4 + 1 = N /\ \A i \in 1 .. N : 4 + i - 1 = i + 3
    BY <1>1
  <2>3. (IF 4 <= Len(payload) THEN Len(payload) - 4 + 1 ELSE 0) = N
    <3> DEFINE n == Len(payload)
    <3>1. n \in Nat /\ n >= 3
      BY <1>1
    <3> HIDE DEF n, s, u
    <3>2. (IF 4 <= n THEN n - 4 + 1 ELSE 0) = n - 3
      BY <3>1
    <3> QED BY <3>2 DEF n
  <2>4. \A i \in 1 .. N : s[i] = payload[4 + i - 1]
    BY <2>1, <2>2
  <2> HIDE DEF s, N
  <2> QED BY <2>1, <2>2, <2>3, <2>4
<1>3. u = [i \in 1 .. N |-> Data(from + i - 1)]
  <2>1. (from + Len(payload) - 3) - from = N
    BY <1>1
  <2> QED BY <2>1 DEF UnitBytes
<1>4. \A i \in 1 .. N : Data(from + i - 1) \in Bytes
  <2> TAKE i \in 1 .. N
  <2>1. from + i - 1 \in Nat
    BY <1>1
  <2> QED BY <2>1, DataFacts
<1> HIDE DEF s, u
<1>5. u \in Seq(Bytes) /\ Len(u) = N /\ \A i \in 1 .. N : u[i] = Data(from + i - 1)
  <2> HIDE DEF N
  <2> QED BY <1>1, <1>3, <1>4
<1>6. ASSUME NEW i \in 1 .. N
      PROVE  s[i] = u[i]
  <2>1. i + 3 \in 4 .. Len(payload) /\ from + (i + 3) - 4 = from + i - 1
    BY <1>1
  <2>2. payload[i + 3] = Data(from + (i + 3) - 4)
    BY <2>1
  <2> QED BY <1>2, <1>5, <2>1, <2>2
<1>7. s = u
  BY <1>2, <1>5, <1>6, SeqEqual
<1> QED BY <1>7 DEF s, u

\* A unit that was delivered, field by field.
LEMMA LoadedFields ==
    ASSUME NEW size \in Nat
    PROVE  /\ Loaded(size) \in [buffer : [0 .. size -> Bytes],
                                fNumValidDataBytes : Nat, fCurDataOffset : Nat]
           /\ Loaded(size).buffer = [i \in 0 .. size |-> Data(i)]
           /\ Loaded(size).fNumValidDataBytes = size + 1
           /\ Loaded(size).fCurDataOffset = 1
<1> DEFINE f == Loaded(size)
           data == [i \in 0 .. size |-> Data(i)]
<1>1. data \in [0 .. size -> Bytes]
  BY DataFacts
<1>2. /\ Empty \in [buffer : {<<>>}, fNumValidDataBytes : Nat, fCurDataOffset : Nat]
      /\ Empty.fNumValidDataBytes = 1 /\ Empty.fCurDataOffset = 1
  BY DEF Empty
<1>3. f = [Empty EXCEPT !.buffer = data, !.fNumValidDataBytes = @ + size]
  BY DEF Loaded
<1> HIDE DEF f, data
<1>4. /\ f \in [buffer : [0 .. size -> Bytes], fNumValidDataBytes : Nat,
                fCurDataOffset : Nat]
      /\ f.buffer = data
      /\ f.fNumValidDataBytes = size + 1 /\ f.fCurDataOffset = 1
  BY <1>1, <1>2, <1>3
<1> QED BY <1>4 DEF f, data

\* H264or5Fragmenter, case 2: the first fragment of a unit that is too large.
LEMMA FirstFragment ==
    ASSUME NEW size \in Nat, size > MaxPayload
    PROVE  LET sent == First(Loaded(size), MaxPayload)
           IN  /\ GoodFragment(sent.payload, TRUE, FALSE)
               /\ SubSeq(sent.payload, 4, Len(sent.payload)) = UnitBytes(3, MaxPayload)
               /\ Sending(sent.fragmenter, size, MaxPayload)
<1> DEFINE f == Loaded(size)
           buffer == [f.buffer EXCEPT ![0] = WithTypeFU(f.buffer[1]),
                                      ![1] = f.buffer[2],
                                      ![2] = FUHeader(f.buffer[1])]
           payload == Slice(buffer, 0, MaxPayload)
           sent == Sent(f, buffer, MaxPayload, payload)
           data == [i \in 0 .. size |-> Data(i)]
<1>1. MaxPayload \in Nat /\ MaxPayload >= 6
  BY PayloadFacts
<1>2. data \in [0 .. size -> Bytes] /\ \A i \in 0 .. size : data[i] = Data(i)
  <2>1. \A i \in 0 .. size : Data(i) \in Bytes
    BY DataFacts
  <2> QED BY <2>1
<1>3. /\ f \in [buffer : [0 .. size -> Bytes], fNumValidDataBytes : Nat,
                fCurDataOffset : Nat]
      /\ f.buffer = data
      /\ f.fNumValidDataBytes = size + 1 /\ f.fCurDataOffset = 1
  BY LoadedFields
<1>4. First(f, MaxPayload) = sent
  <2>1. f.fCurDataOffset + MaxPayload - 1 = MaxPayload
    BY <1>1, <1>3
  <2> HIDE DEF f
  <2> QED BY <2>1 DEF First
<1> HIDE DEF f, data
<1>5. /\ buffer \in [0 .. size -> Bytes]
      /\ buffer[0] = WithTypeFU(Data(1)) /\ buffer[1] = Data(2)
      /\ buffer[2] = FUHeader(Data(1))
      /\ \A i \in 3 .. size : buffer[i] = Data(i)
  <2>1. 0 \in 0 .. size /\ 1 \in 0 .. size /\ 2 \in 0 .. size
    BY <1>1
  <2>2. f.buffer[1] = Data(1) /\ f.buffer[2] = Data(2)
    BY <1>2, <1>3, <2>1
  <2> DEFINE a == WithTypeFU(Data(1))
             b == Data(2)
             c == FUHeader(Data(1))
  <2>3. a \in Bytes /\ b \in Bytes /\ c \in Bytes
    BY DataFacts, HeaderFacts
  <2>4. buffer = Overwritten(data, 0, 1, 2, a, b, c)
    BY <1>3, <2>2 DEF Overwritten
  <2> HIDE DEF buffer, a, b, c
  <2>7. IsOverwritten(buffer, size, data, 0, 1, 2, a, b, c)
    <3>1. 0 # 1 /\ 0 # 2 /\ 1 # 2
      OBVIOUS
    <3>2. data \in [0 .. size -> Bytes]
      BY <1>2
    <3> QED BY <2>1, <2>3, <2>4, <3>1, <3>2, OverwrittenBuffer
  <2>5. /\ buffer \in [0 .. size -> Bytes]
        /\ buffer[0] = WithTypeFU(Data(1)) /\ buffer[1] = Data(2)
        /\ buffer[2] = FUHeader(Data(1))
        /\ \A i \in 0 .. size : i \notin {0, 1, 2} => buffer[i] = data[i]
    BY <2>7 DEF IsOverwritten, a, b, c
  <2>6. \A i \in 3 .. size : i \in 0 .. size /\ i \notin {0, 1, 2}
    OBVIOUS
  <2> QED BY <1>2, <2>5, <2>6
<1> HIDE DEF buffer
<1>6. /\ payload \in Seq(Bytes) /\ Len(payload) = MaxPayload
      /\ \A i \in 1 .. MaxPayload : payload[i] = buffer[0 + i - 1]
  <2>1. 0 \in Nat /\ 0 + MaxPayload <= size + 1
    BY <1>1
  <2> QED BY <1>1, <1>5, <2>1, SliceElements
<1>7. /\ sent.payload = payload
      /\ sent.fragmenter \in [buffer : [0 .. size -> Bytes], fNumValidDataBytes : Nat,
                              fCurDataOffset : Nat]
      /\ sent.fragmenter.buffer = buffer
      /\ sent.fragmenter.fNumValidDataBytes = size + 1
      /\ sent.fragmenter.fCurDataOffset = MaxPayload
  <2>1. IsSent(sent, f, size, buffer, MaxPayload, payload)
    BY <1>1, <1>3, <1>5, SentFields
  <2> HIDE DEF sent, payload
  <2> QED BY <1>1, <1>3, <2>1 DEF IsSent
<1> HIDE DEF payload, sent
<1>8. GoodFragment(payload, TRUE, FALSE)
  <2>1. /\ 1 \in 1 .. MaxPayload /\ 2 \in 1 .. MaxPayload /\ 3 \in 1 .. MaxPayload
        /\ 0 + 1 - 1 = 0 /\ 0 + 2 - 1 = 1 /\ 0 + 3 - 1 = 2
    BY <1>1
  <2>2. payload[1] = buffer[0] /\ payload[2] = buffer[1] /\ payload[3] = buffer[2]
    BY <1>6, <2>1
  <2>3. payload[3] = MarkedFU(TRUE, FALSE)
    BY <1>5, <2>2, HeaderFacts
  <2>4. Len(payload) \in 3 .. MaxPayload
    BY <1>1, <1>6
  <2> QED BY <1>5, <1>6, <2>2, <2>3, <2>4 DEF GoodFragment
<1>9. SubSeq(payload, 4, Len(payload)) = UnitBytes(3, MaxPayload)
  <2>1. \A i \in 4 .. Len(payload) : payload[i] = Data(3 + i - 4)
    <3> TAKE i \in 4 .. Len(payload)
    <3>1. i \in 1 .. MaxPayload /\ 0 + i - 1 \in 3 .. size /\ 3 + i - 4 = 0 + i - 1
      BY <1>1, <1>6
    <3> QED BY <1>5, <1>6, <3>1
  <2>2. 3 + Len(payload) - 3 = MaxPayload /\ Len(payload) >= 3 /\ 3 \in Nat
    BY <1>1, <1>6
  <2>3. SubSeq(payload, 4, Len(payload)) = UnitBytes(3, 3 + Len(payload) - 3)
    BY <1>6, <2>1, <2>2, AfterHeaders
  <2> QED BY <2>2, <2>3
<1>10. Sending(sent.fragmenter, size, MaxPayload)
  BY <1>1, <1>5, <1>7 DEF Sending
<1> QED BY <1>4, <1>7, <1>8, <1>9, <1>10 DEF f

\* Case 3: a further fragment, which is the last one if the rest fits.
LEMMA LaterFragment ==
    ASSUME NEW size \in Nat, NEW at \in MaxPayload .. size, NEW f, Sending(f, size, at)
    PROVE  LET sent == Later(f, MaxPayload)
           IN  \E to \in at + 1 .. size + 1 :
                   /\ GoodFragment(sent.payload, FALSE, to = size + 1)
                   /\ SubSeq(sent.payload, 4, Len(sent.payload)) = UnitBytes(at, to)
                   /\ IF to = size + 1 THEN sent.fragmenter = Empty
                      ELSE Sending(sent.fragmenter, size, to)
<1> DEFINE rest    == 3 + (f.fNumValidDataBytes - f.fCurDataOffset)
           isLast  == rest <= MaxPayload
           length  == IF isLast THEN rest ELSE MaxPayload
           mark    == Marked(f.buffer[2], FALSE, isLast)
           buffer  == Overwritten(f.buffer, f.fCurDataOffset - 3,
                                  f.fCurDataOffset - 2, f.fCurDataOffset - 1,
                                  f.buffer[0], f.buffer[1], mark)
           payload == Slice(buffer, f.fCurDataOffset - 3, length)
           sent    == Sent(f, buffer, f.fCurDataOffset + length - 3, payload)
           to      == IF 3 + (size + 1 - at) <= MaxPayload THEN size + 1
                      ELSE at + MaxPayload - 3
<1>1. /\ MaxPayload \in Nat /\ MaxPayload >= 6 /\ at \in Nat /\ at >= 6 /\ at <= size
  BY PayloadFacts
<1>2. /\ f \in [buffer : [0 .. size -> Bytes], fNumValidDataBytes : Nat,
                fCurDataOffset : Nat]
      /\ f.buffer \in [0 .. size -> Bytes]
      /\ f.fNumValidDataBytes = size + 1 /\ f.fCurDataOffset = at
      /\ f.buffer[0] = WithTypeFU(Data(1)) /\ f.buffer[1] = Data(2)
      /\ f.buffer[2] = FUHeader(Data(1))
      /\ \A i \in at .. size : f.buffer[i] = Data(i)
  BY DEF Sending
<1>3. Later(f, MaxPayload) = sent
  BY DEF Later, Overwritten, Marked
<1>4. /\ to \in Nat /\ length \in Nat /\ to = at + length - 3
      /\ length \in 4 .. MaxPayload /\ to \in at + 1 .. size + 1
      /\ isLast => to = size + 1
      /\ ~isLast => to < size + 1
      /\ isLast \in BOOLEAN /\ isLast = (to = size + 1)
  BY <1>1, <1>2
<1>5. mark = MarkedFU(FALSE, isLast) /\ mark \in Bytes
  <2>1. mark = Marked(FUHeader(Data(1)), FALSE, isLast)
    BY <1>2
  <2> HIDE DEF mark, isLast
  <2>2. isLast \in BOOLEAN
    BY <1>4
  <2>3. /\ Marked(FUHeader(Data(1)), FALSE, isLast) = MarkedFU(FALSE, isLast)
        /\ MarkedFU(FALSE, isLast) \in Bytes
    BY <2>2, MarkAnew, MarkFields
  <2> QED BY <2>1, <2>3
<1>6. buffer = Overwritten(f.buffer, at - 3, at - 2, at - 1, f.buffer[0],
                           f.buffer[1], mark)
  BY <1>2
<1>7. payload = Slice(buffer, at - 3, length)
  BY <1>2
<1>8. sent = Sent(f, buffer, to, payload)
  <2>1. to = f.fCurDataOffset + length - 3
    BY <1>2, <1>4
  <2> QED BY <2>1
<1> HIDE DEF mark, isLast, sent, payload, buffer, to, length
<1>9. /\ buffer \in [0 .. size -> Bytes]
      /\ buffer[0] = WithTypeFU(Data(1)) /\ buffer[1] = Data(2)
      /\ buffer[2] = FUHeader(Data(1))
      /\ buffer[at - 3] = WithTypeFU(Data(1)) /\ buffer[at - 2] = Data(2)
      /\ buffer[at - 1] = mark
      /\ \A i \in at .. size : buffer[i] = Data(i)
  <2> DEFINE x == at - 3
             y == at - 2
             z == at - 1
             a == f.buffer[0]
             b == f.buffer[1]
             old == f.buffer
  <2>1. x \in 0 .. size /\ y \in 0 .. size /\ z \in 0 .. size /\ x # y /\ x # z /\ y # z
    BY <1>1
  <2>2. a \in Bytes /\ b \in Bytes /\ old \in [0 .. size -> Bytes]
    BY <1>2, DataFacts, HeaderFacts
  <2>3. buffer = Overwritten(old, x, y, z, a, b, mark)
    BY <1>6
  <2>4. \A i \in at .. size : i \in 0 .. size /\ i \notin {x, y, z}
    BY <1>1
  <2>5. \A i \in 0 .. 2 : i \in 0 .. size /\ i \notin {x, y, z}
    BY <1>1
  <2> HIDE DEF x, y, z, a, b, old
  <2>6. IsOverwritten(buffer, size, old, x, y, z, a, b, mark)
    BY <1>5, <2>1, <2>2, <2>3, OverwrittenBuffer
  <2>7. /\ buffer \in [0 .. size -> Bytes]
        /\ buffer[x] = a /\ buffer[y] = b /\ buffer[z] = mark
        /\ \A i \in 0 .. size : i \notin {x, y, z} => buffer[i] = old[i]
    BY <2>6 DEF IsOverwritten
  <2>8. \A i \in 0 .. 2 : buffer[i] = old[i]
    BY <2>5, <2>7
  <2>9. buffer[0] = old[0] /\ buffer[1] = old[1] /\ buffer[2] = old[2]
    BY <2>8
  <2>10. \A i \in at .. size : buffer[i] = old[i]
    BY <2>4, <2>7
  <2> QED BY <1>2, <2>7, <2>9, <2>10 DEF x, y, z, a, b, old
<1>10. /\ payload \in Seq(Bytes) /\ Len(payload) = length
       /\ \A i \in 1 .. length : payload[i] = buffer[(at - 3) + i - 1]
  <2> DEFINE from == at - 3
  <2>1. from \in Nat /\ from + length <= size + 1 /\ length \in Nat
    BY <1>1, <1>4
  <2>2. payload = Slice(buffer, from, length)
    BY <1>7
  <2> HIDE DEF from
  <2>3. /\ payload \in Seq(Bytes) /\ Len(payload) = length
        /\ \A i \in 1 .. length : payload[i] = buffer[from + i - 1]
    BY <1>9, <2>1, <2>2, SliceElements
  <2> QED BY <2>3 DEF from
<1>11. /\ sent.payload = payload
       /\ isLast => sent.fragmenter = Empty
       /\ ~isLast => /\ sent.fragmenter \in [buffer : [0 .. size -> Bytes],
                                             fNumValidDataBytes : Nat,
                                             fCurDataOffset : Nat]
                     /\ sent.fragmenter.buffer = buffer
                     /\ sent.fragmenter.fNumValidDataBytes = size + 1
                     /\ sent.fragmenter.fCurDataOffset = to
  <2>1. IsSent(sent, f, size, buffer, to, payload)
    BY <1>2, <1>4, <1>8, <1>9, SentFields
  <2>2. to = size + 1 => to >= size + 1
    BY <1>4
  <2>3. /\ isLast => to >= size + 1
        /\ ~isLast => to < size + 1
    BY <1>4, <2>2, Zenon
  <2>4. f.fNumValidDataBytes = size + 1
    BY <1>2
  <2> QED BY <2>1, <2>3, <2>4, Zenon DEF IsSent
<1>12. GoodFragment(payload, FALSE, isLast)
  <2>1. /\ 1 \in 1 .. length /\ 2 \in 1 .. length /\ 3 \in 1 .. length
        /\ (at - 3) + 1 - 1 = at - 3 /\ (at - 3) + 2 - 1 = at - 2
        /\ (at - 3) + 3 - 1 = at - 1
    BY <1>1, <1>4
  <2>2. /\ payload[1] = buffer[at - 3] /\ payload[2] = buffer[at - 2]
        /\ payload[3] = buffer[at - 1]
    BY <1>10, <2>1
  <2>3. Len(payload) \in 3 .. MaxPayload
    BY <1>1, <1>4, <1>10
  <2> QED BY <1>5, <1>9, <1>10, <2>2, <2>3 DEF GoodFragment
<1>13. SubSeq(payload, 4, Len(payload)) = UnitBytes(at, to)
  <2>1. \A i \in 4 .. Len(payload) : payload[i] = Data(at + i - 4)
    <3> TAKE i \in 4 .. Len(payload)
    <3>1. /\ i \in 1 .. length /\ (at - 3) + i - 1 \in at .. size
          /\ at + i - 4 = (at - 3) + i - 1
      BY <1>1, <1>4, <1>10
    <3> QED BY <1>9, <1>10, <3>1
  <2>2. at + Len(payload) - 3 = to /\ Len(payload) >= 3
    BY <1>1, <1>4, <1>10
  <2>3. SubSeq(payload, 4, Len(payload)) = UnitBytes(at, at + Len(payload) - 3)
    BY <1>1, <1>10, <2>1, <2>2, AfterHeaders
  <2> QED BY <2>2, <2>3
<1>14. ~isLast => to # size + 1 /\ Sending(sent.fragmenter, size, to)
  <2> SUFFICES ASSUME ~isLast
               PROVE  to # size + 1 /\ Sending(sent.fragmenter, size, to)
    OBVIOUS
  <2>1. \A i \in to .. size : i \in at .. size
    BY <1>1, <1>4
  <2>2. \A i \in to .. size : buffer[i] = Data(i)
    BY <1>9, <2>1
  <2> QED BY <1>4, <1>9, <1>11, <2>2 DEF Sending
<1>15. GoodFragment(payload, FALSE, to = size + 1)
  BY <1>4, <1>12, Zenon
<1>16. /\ to \in at + 1 .. size + 1
       /\ IF to = size + 1 THEN sent.fragmenter = Empty
          ELSE Sending(sent.fragmenter, size, to)
  BY <1>4, <1>11, <1>14
<1>17. sent.payload = payload
  BY <1>11
<1> HIDE DEF isLast
<1> QED BY <1>3, <1>13, <1>15, <1>16, <1>17

\* The whole unit is one payload if it fits.
LEMMA WholeUnit ==
    ASSUME NEW size \in Nat \ {0}
    PROVE  /\ Whole(Loaded(size)).fragmenter = Empty
           /\ Whole(Loaded(size)).payload = UnitBytes(1, size + 1)
<1> DEFINE f == Loaded(size)
           data == [i \in 0 .. size |-> Data(i)]
<1>1. /\ f.buffer = data /\ f.fNumValidDataBytes = size + 1
      /\ \A i \in 0 .. size : data[i] = Data(i)
  BY LoadedFields
<1> HIDE DEF f, data
<1> DEFINE payload == Slice(f.buffer, 1, f.fNumValidDataBytes - 1)
<1>2. Whole(f) = [fragmenter |-> Empty, payload |-> payload]
  <2>1. f.fNumValidDataBytes >= f.fNumValidDataBytes
    BY <1>1
  <2> QED BY <2>1 DEF Whole, Sent
<1>3. payload = [i \in 1 .. size |-> f.buffer[1 + i - 1]]
  <2>1. f.fNumValidDataBytes - 1 = size
    BY <1>1
  <2> QED BY <2>1 DEF Slice
<1>4. UnitBytes(1, size + 1) = [i \in 1 .. size |-> Data(1 + i - 1)]
  <2>1. size + 1 - 1 = size
    OBVIOUS
  <2> QED BY <2>1 DEF UnitBytes
<1>5. ASSUME NEW i \in 1 .. size
      PROVE  f.buffer[1 + i - 1] = Data(1 + i - 1)
  <2>1. 1 + i - 1 \in 0 .. size
    OBVIOUS
  <2> QED BY <1>1, <2>1
<1> HIDE DEF payload
<1>6. payload = UnitBytes(1, size + 1)
  BY <1>3, <1>4, <1>5
<1>7. Whole(f).fragmenter = Empty /\ Whole(f).payload = payload
  BY <1>2
<1> QED BY <1>6, <1>7 DEF f

\* A fragment of what was sent is the next payload, unless nothing is left.
LEMMA NextPayload ==
    ASSUME NEW state, NEW sent, state.fragmenter # Empty,
           NextFragment(state.fragmenter, MaxPayload) = sent
    PROVE  /\ SendNextPayload(state, MaxPayload).fragmenter = sent.fragmenter
           /\ SendNextPayload(state, MaxPayload).payloads
                = Append(state.payloads, sent.payload)
<1>1. SendNextPayload(state, MaxPayload)
        = [fragmenter |-> sent.fragmenter,
           payloads   |-> Append(state.payloads, sent.payload)]
  BY DEF SendNextPayload
<1> QED BY <1>1

\* The first fragment.
LEMMA FragmentedFirst ==
    ASSUME NEW size \in Nat, size > MaxPayload,
           NEW start, start.fragmenter = Loaded(size), start.payloads = <<>>
    PROVE  FragmentedUpTo(SendNextPayload(start, MaxPayload), size, MaxPayload)
<1> DEFINE f     == Loaded(size)
           sent  == First(f, MaxPayload)
           next  == SendNextPayload(start, MaxPayload)
           p     == sent.payload
           rest  == SubSeq(p, 4, Len(p))
<1>1. /\ MaxPayload \in Nat /\ MaxPayload >= 6 /\ MaxPayload \in MaxPayload .. size + 1
      /\ MaxPayload # size + 1
  BY PayloadFacts
<1>2. /\ f.fNumValidDataBytes = size + 1 /\ f.fCurDataOffset = 1
  BY LoadedFields
<1>3. f # Empty
  BY <1>1, <1>2 DEF Empty
<1>4. NextFragment(f, MaxPayload) = sent
  <2>1. ~(f.fNumValidDataBytes - 1 <= MaxPayload)
    BY <1>1, <1>2
  <2> HIDE DEF f
  <2> QED BY <1>2, <2>1 DEF NextFragment
<1>5. /\ GoodFragment(p, TRUE, FALSE) /\ rest = UnitBytes(3, MaxPayload)
      /\ Sending(sent.fragmenter, size, MaxPayload)
  BY FirstFragment
<1> HIDE DEF f, sent
<1>6. next.fragmenter = sent.fragmenter /\ next.payloads = Append(<<>>, p)
  BY <1>3, <1>4, NextPayload DEF f
<1> HIDE DEF p, next
<1>7. p \in Seq(Bytes) /\ Len(p) >= 3
  BY <1>5 DEF GoodFragment
<1>8. /\ next.payloads = <<p>> /\ next.payloads \in Seq(Seq(Bytes))
      /\ Len(next.payloads) = 1 /\ next.payloads[1] = p /\ next.payloads # <<>>
  <2>1. Append(<<>>, p) = <<p>>
    OBVIOUS
  <2>2. <<p>> \in Seq(Seq(Bytes)) /\ Len(<<p>>) = 1 /\ <<p>>[1] = p /\ <<p>> # <<>>
    BY <1>7
  <2> QED BY <1>6, <2>1, <2>2
<1>9. rest \in Seq(Bytes) /\ Contents(Append(<<>>, p)) = Append(Contents(<<>>), rest)
  <2> DEFINE none == <<>>
  <2>1. none \in Seq(Seq(Bytes)) /\ \A i \in 1 .. Len(none) : Len(none[i]) >= 3
    OBVIOUS
  <2> HIDE DEF none, rest
  <2>2. /\ SubSeq(p, 4, Len(p)) \in Seq(Bytes)
        /\ Contents(Append(none, p)) = Append(Contents(none), SubSeq(p, 4, Len(p)))
    BY <1>7, <2>1, ContentsAppend
  <2> QED BY <2>2 DEF rest, none
<1>10. Contents(next.payloads) = <<rest>>
  <2>1. Contents(<<>>) = <<>>
    BY DEF Contents
  <2>2. Append(<<>>, rest) = <<rest>>
    BY <1>9
  <2> HIDE DEF rest
  <2> QED BY <1>6, <1>9, <2>1, <2>2
<1>11. FlattenSeq(Contents(next.payloads)) = UnitBytes(3, MaxPayload)
  <2> HIDE DEF rest
  <2>1. FlattenSeq(<<rest>>) = rest
    BY <1>9, FlattenOne
  <2> QED BY <1>5, <1>10, <2>1
<1>12. \A i \in 1 .. Len(next.payloads) :
           GoodFragment(next.payloads[i], i = 1,
                        i = Len(next.payloads) /\ MaxPayload = size + 1)
  <2> TAKE i \in 1 .. Len(next.payloads)
  <2>1. i = 1 /\ next.payloads[i] = p
    BY <1>8
  <2>2. (i = 1) = TRUE
    BY <2>1
  <2>3. (i = Len(next.payloads) /\ MaxPayload = size + 1) = FALSE
    BY <1>1
  <2> QED BY <1>5, <2>1, <2>2, <2>3, Zenon
<1>13. Sending(next.fragmenter, size, MaxPayload)
  BY <1>5, <1>6
<1> QED BY <1>1, <1>8, <1>11, <1>12, <1>13 DEF FragmentedUpTo, next

\* The bytes of two neighbouring parts are those of one.
LEMMA UnitBytesJoin ==
    ASSUME NEW from \in Nat, NEW at \in Nat, NEW to \in Nat, from <= at, at <= to
    PROVE  UnitBytes(from, at) \o UnitBytes(at, to) = UnitBytes(from, to)
<1> DEFINE a == UnitBytes(from, at)
           b == UnitBytes(at, to)
           c == UnitBytes(from, to)
<1>1. ASSUME NEW i \in Nat, NEW j \in Nat, i <= j
      PROVE  /\ UnitBytes(i, j) \in Seq(Bytes) /\ Len(UnitBytes(i, j)) = j - i
             /\ \A n \in 1 .. j - i : UnitBytes(i, j)[n] = Data(i + n - 1)
  <2>1. j - i \in Nat
    BY <1>1
  <2>2. \A n \in 1 .. j - i : Data(i + n - 1) \in Bytes
    <3> TAKE n \in 1 .. j - i
    <3>1. i + n - 1 \in Nat
      BY <1>1
    <3> QED BY <3>1, DataFacts
  <2> QED BY <2>1, <2>2 DEF UnitBytes
<1>2. /\ a \in Seq(Bytes) /\ Len(a) = at - from
      /\ \A n \in 1 .. at - from : a[n] = Data(from + n - 1)
  BY <1>1
<1>3. /\ b \in Seq(Bytes) /\ Len(b) = to - at
      /\ \A n \in 1 .. to - at : b[n] = Data(at + n - 1)
  BY <1>1
<1>4. /\ c \in Seq(Bytes) /\ Len(c) = to - from
      /\ \A n \in 1 .. to - from : c[n] = Data(from + n - 1)
  <2>1. from <= to
    OBVIOUS
  <2> QED BY <1>1, <2>1
<1> HIDE DEF a, b, c
<1>5. /\ a \o b \in Seq(Bytes) /\ Len(a \o b) = Len(a) + Len(b)
      /\ \A n \in 1 .. Len(a) + Len(b) :
             (a \o b)[n] = IF n <= Len(a) THEN a[n] ELSE b[n - Len(a)]
  BY <1>2, <1>3, ConcatProperties
<1>6. Len(a \o b) = Len(c)
  BY <1>2, <1>3, <1>4, <1>5
<1>7. ASSUME NEW n \in 1 .. to - from
      PROVE  (a \o b)[n] = c[n]
  <2>1. (a \o b)[n] = IF n <= at - from THEN a[n] ELSE b[n - (at - from)]
    <3>1. Len(a) = at - from /\ n \in 1 .. Len(a) + Len(b)
      BY <1>2, <1>3
    <3> QED BY <1>5, <3>1
  <2>2. CASE n <= at - from
    <3>1. n \in 1 .. at - from
      BY <2>2
    <3>2. a[n] = Data(from + n - 1)
      BY <1>2, <3>1
    <3> QED BY <1>4, <2>1, <2>2, <3>2
  <2>3. CASE ~(n <= at - from)
    <3>1. n - (at - from) \in 1 .. to - at /\ at + (n - (at - from)) - 1 = from + n - 1
      BY <2>3
    <3>2. b[n - (at - from)] = Data(at + (n - (at - from)) - 1)
      BY <1>3, <3>1
    <3> QED BY <1>4, <2>1, <2>3, <3>1, <3>2
  <2> QED BY <2>2, <2>3
<1>8. a \o b = c
  BY <1>4, <1>5, <1>6, <1>7, SeqEqual
<1> QED BY <1>8 DEF a, b, c

\* A further fragment, if there is something left.
LEMMA FragmentedFurther ==
    ASSUME NEW size \in Nat, NEW at, NEW state, FragmentedUpTo(state, size, at),
           at # size + 1
    PROVE  \E to \in at + 1 .. size + 1 :
               FragmentedUpTo(SendNextPayload(state, MaxPayload), size, to)
<1> DEFINE f    == state.fragmenter
           sent == Later(f, MaxPayload)
           next == SendNextPayload(state, MaxPayload)
           p    == sent.payload
           rest == SubSeq(p, 4, Len(p))
           old  == state.payloads
           N    == Len(old)
<1>1. /\ MaxPayload \in Nat /\ MaxPayload >= 6 /\ size \in Nat /\ at \in Nat
      /\ at \in MaxPayload .. size
  BY PayloadFacts DEF FragmentedUpTo
<1>2. /\ Sending(f, size, at)
      /\ old \in Seq(Seq(Bytes)) /\ old # <<>>
      /\ FlattenSeq(Contents(old)) = UnitBytes(3, at)
  BY DEF FragmentedUpTo
<1>3. ASSUME NEW i \in 1 .. N
      PROVE  GoodFragment(old[i], i = 1, FALSE)
  <2>1. GoodFragment(old[i], i = 1, i = N /\ at = size + 1)
    BY DEF FragmentedUpTo
  <2>2. (i = N /\ at = size + 1) = FALSE
    OBVIOUS
  <2> QED BY <2>1, <2>2, Zenon
<1>4. PICK to \in at + 1 .. size + 1 :
          /\ GoodFragment(p, FALSE, to = size + 1)
          /\ rest = UnitBytes(at, to)
          /\ IF to = size + 1 THEN sent.fragmenter = Empty
             ELSE Sending(sent.fragmenter, size, to)
  <2> HIDE DEF f
  <2> QED BY <1>1, <1>2, LaterFragment
<1>5. /\ f.fCurDataOffset = at /\ at # 1 /\ f # Empty
  <2>1. f.fCurDataOffset = at
    BY <1>2 DEF Sending
  <2>2. Empty.fCurDataOffset = 1
    BY DEF Empty
  <2> HIDE DEF f
  <2> QED BY <1>1, <2>1, <2>2
<1>6. next.fragmenter = sent.fragmenter /\ next.payloads = Append(old, p)
  <2>1. NextFragment(f, MaxPayload) = sent
    <3> HIDE DEF f
    <3> QED BY <1>5 DEF NextFragment
  <2> HIDE DEF sent
  <2> QED BY <1>5, <2>1, NextPayload
<1>7. p \in Seq(Bytes) /\ Len(p) >= 3
  BY <1>4 DEF GoodFragment
<1> HIDE DEF f, sent, next, p, old
<1>8. /\ N \in Nat /\ N >= 1
      /\ next.payloads \in Seq(Seq(Bytes)) /\ next.payloads # <<>>
      /\ Len(next.payloads) = N + 1 /\ next.payloads[N + 1] = p
      /\ \A i \in 1 .. N : next.payloads[i] = old[i]
  <2>1. old # <<>> => Len(old) # 0
    BY <1>2
  <2>2. /\ Append(old, p) \in Seq(Seq(Bytes)) /\ Append(old, p) # <<>>
        /\ Len(Append(old, p)) = Len(old) + 1 /\ Append(old, p)[Len(old) + 1] = p
        /\ \A i \in 1 .. Len(old) : Append(old, p)[i] = old[i]
    BY <1>2, <1>7, AppendProperties
  <2> QED BY <1>2, <1>6, <2>1, <2>2
<1>9. \A i \in 1 .. N : Len(old[i]) >= 3
  <2> TAKE i \in 1 .. N
  <2>1. Len(old[i]) \in 3 .. MaxPayload
    BY <1>3 DEF GoodFragment
  <2> QED BY <1>1, <2>1
<1>10. /\ Contents(old) \in Seq(Seq(Bytes)) /\ rest \in Seq(Bytes)
       /\ Contents(next.payloads) = Append(Contents(old), rest)
  BY <1>2, <1>6, <1>7, <1>9, ContentsAppend
<1>11. Contents(old) # <<>>
  <2>1. Len(Contents(old)) = N
    <3>1. Contents(old) = [i \in 1 .. N |-> SubSeq(old[i], 4, Len(old[i]))]
      BY DEF Contents
    <3> HIDE DEF N
    <3> QED BY <1>8, <1>10, <3>1
  <2>2. Len(<<>>) = 0
    OBVIOUS
  <2> QED BY <1>8, <2>1, <2>2
<1> HIDE DEF rest
<1>12. FlattenSeq(Contents(next.payloads)) = UnitBytes(3, to)
  <2>1. FlattenSeq(Append(Contents(old), rest)) = FlattenSeq(Contents(old)) \o rest
    BY <1>10, <1>11, FlattenAppend
  <2>2. UnitBytes(3, at) \o UnitBytes(at, to) = UnitBytes(3, to)
    <3>1. 3 \in Nat /\ 3 <= at /\ to \in Nat /\ at <= to
      BY <1>1
    <3> QED BY <1>1, <3>1, UnitBytesJoin
  <2> QED BY <1>2, <1>4, <1>10, <2>1, <2>2
<1>13. ASSUME NEW i \in 1 .. Len(next.payloads)
       PROVE  GoodFragment(next.payloads[i], i = 1,
                           i = Len(next.payloads) /\ to = size + 1)
  <2>1. Len(next.payloads) = N + 1
    BY <1>8
  <2> HIDE DEF N
  <2>2. CASE i \in 1 .. N
    <3>1. GoodFragment(old[i], i = 1, FALSE) /\ next.payloads[i] = old[i]
      BY <1>3, <1>8, <2>2
    <3>2. (i = Len(next.payloads) /\ to = size + 1) = FALSE
      BY <1>8, <2>1, <2>2
    <3> QED BY <3>1, <3>2, Zenon
  <2>3. CASE i = N + 1
    <3>1. next.payloads[i] = p
      BY <1>8, <2>3
    <3>2. (i = 1) = FALSE
      BY <1>8, <2>3
    <3>3. (i = Len(next.payloads) /\ to = size + 1) = (to = size + 1)
      BY <2>1, <2>3
    <3> QED BY <1>4, <3>1, <3>2, <3>3, Zenon
  <2> QED BY <1>8, <2>1, <2>2, <2>3
<1>14. IF to = size + 1 THEN next.fragmenter = Empty
       ELSE Sending(next.fragmenter, size, to)
  BY <1>4, <1>6
<1>15. to \in MaxPayload .. size + 1 /\ Len(next.payloads) > 1
  BY <1>1, <1>4, <1>8
<1>16. FragmentedUpTo(next, size, to)
  BY <1>8, <1>12, <1>13, <1>14, <1>15 DEF FragmentedUpTo
<1> QED BY <1>4, <1>16 DEF next

\* A unit of any size is sent whole, in payloads that fit and are well marked.
LEMMA FragmentsOfAnyUnit ==
    ASSUME NEW size \in Nat \ {0}
    PROVE  LET payloads == Fragments(size, MaxPayload)
           IN  /\ payloads \in Seq(Seq(Bytes)) /\ Len(payloads) >= 1
               /\ WellMarked(payloads)
               /\ \A i \in DOMAIN payloads : Len(payloads[i]) <= MaxPayload
               /\ Reassembled(payloads) = [n \in 1 .. size |-> Data(n)]
<1> DEFINE ps    == Fragments(size, MaxPayload)
           start == [fragmenter |-> Loaded(size), payloads |-> <<>>]
           unit  == [n \in 1 .. size |-> Data(n)]
<1>1. MaxPayload \in Nat /\ MaxPayload >= 6 /\ size \in Nat /\ size >= 1
  BY PayloadFacts
<1>2. PICK f : /\ f[0] = start
               /\ \A n \in 1 .. size : f[n] = SendNextPayload(f[n - 1], MaxPayload)
               /\ ps = f[size].payloads
  BY <1>1, FragmentsRecursion
<1>3. start.fragmenter = Loaded(size) /\ start.payloads = <<>>
  OBVIOUS
<1> HIDE DEF ps, start
<1>4. f[1] = SendNextPayload(start, MaxPayload)
  <2>1. 1 \in 1 .. size /\ 1 - 1 = 0
    BY <1>1
  <2> QED BY <1>2, <2>1
<1>5. UnitBytes(1, size + 1) = unit
  <2>1. size + 1 - 1 = size /\ \A i \in 1 .. size : 1 + i - 1 = i
    BY <1>1
  <2> QED BY <2>1 DEF UnitBytes
<1>6. CASE size <= MaxPayload
  <2>1. /\ Whole(Loaded(size)).fragmenter = Empty
        /\ Whole(Loaded(size)).payload = unit
    BY <1>5, WholeUnit
  <2>2. /\ Loaded(size).fNumValidDataBytes = size + 1
        /\ Loaded(size).fCurDataOffset = 1
    BY <1>1, LoadedFields
  <2>3. Loaded(size) # Empty
    BY <1>1, <2>2 DEF Empty
  <2>4. NextFragment(Loaded(size), MaxPayload) = Whole(Loaded(size))
    <3>1. Loaded(size).fNumValidDataBytes - 1 <= MaxPayload
      BY <1>1, <1>6, <2>2
    <3> QED BY <2>2, <3>1 DEF NextFragment
  <2> HIDE DEF unit
  <2>5. f[1].fragmenter = Empty /\ f[1].payloads = Append(<<>>, unit)
    BY <1>3, <1>4, <2>1, <2>3, <2>4, NextPayload
  <2> DEFINE T == {n \in 0 .. size : n >= 1 => f[n] = f[1]}
  <2>6. 0 \in T
    BY <1>1
  <2>7. ASSUME NEW n \in 0 .. size - 1, n \in T
        PROVE  n + 1 \in T
    <3>1. n + 1 \in 1 .. size /\ (n + 1) - 1 = n /\ n + 1 \in 0 .. size
      BY <1>1
    <3>2. f[n + 1] = SendNextPayload(f[n], MaxPayload)
      BY <1>2, <3>1
    <3>3. CASE n = 0
      BY <3>1, <3>3
    <3>4. CASE n # 0
      <4>1. f[n] = f[1]
        BY <2>7, <3>4
      <4>2. SendNextPayload(f[1], MaxPayload) = f[1]
        BY <2>5 DEF SendNextPayload
      <4> QED BY <3>1, <3>2, <4>1, <4>2
    <3> QED BY <3>3, <3>4
  <2>8. size \in T
    <3> HIDE DEF T
    <3>1. 0 .. size \subseteq T
      BY <1>1, <2>6, <2>7, NumberInduction
    <3> QED BY <1>1, <3>1
  <2>9. ps = Append(<<>>, unit)
    BY <1>1, <1>2, <2>5, <2>8
  <2>10. unit \in Seq(Bytes) /\ Len(unit) = size /\ unit[1] = Data(1)
    <3>1. \A n \in 1 .. size : Data(n) \in Bytes
      BY DataFacts
    <3> QED BY <1>1, <3>1 DEF unit
  <2>11. /\ ps = <<unit>> /\ Len(<<unit>>) = 1 /\ <<unit>>[1] = unit
         /\ <<unit>> \in Seq(Seq(Bytes)) /\ DOMAIN <<unit>> = 1 .. 1
    BY <2>9, <2>10
  <2>12. unit[1].kind = "data"
    BY <2>10, DataFacts
  <2>13. WellMarked(ps)
    BY <2>11, <2>12 DEF WellMarked
  <2>14. Reassembled(ps) = unit
    BY <2>11, <2>12 DEF Reassembled
  <2>15. /\ ps \in Seq(Seq(Bytes)) /\ Len(ps) >= 1
         /\ \A i \in DOMAIN ps : Len(ps[i]) <= MaxPayload
    BY <1>6, <2>10, <2>11
  <2> QED BY <2>13, <2>14, <2>15 DEF ps, unit
<1>7. CASE size > MaxPayload
  <2> DEFINE T == {n \in 0 .. size :
                      n >= 1 => \E at \in Nat :
                                    /\ FragmentedUpTo(f[n], size, at)
                                    /\ at = size + 1 \/ at >= n + 5}
  <2>1. 0 \in T
    BY <1>1
  <2>2. ASSUME NEW n \in 0 .. size - 1, n \in T
        PROVE  n + 1 \in T
    <3>1. n + 1 \in 1 .. size /\ (n + 1) - 1 = n /\ n + 1 \in 0 .. size
      BY <1>1
    <3>2. f[n + 1] = SendNextPayload(f[n], MaxPayload)
      BY <1>2, <3>1
    <3>3. CASE n = 0
      <4>1. FragmentedUpTo(f[n + 1], size, MaxPayload)
        BY <1>2, <1>3, <1>7, <3>2, <3>3, FragmentedFirst
      <4>2. MaxPayload >= (n + 1) + 5
        BY <1>1, <3>3
      <4> QED BY <1>1, <3>1, <4>1, <4>2
    <3>4. CASE n # 0
      <4>1. PICK at \in Nat : /\ FragmentedUpTo(f[n], size, at)
                              /\ at = size + 1 \/ at >= n + 5
        BY <2>2, <3>4
      <4>2. CASE at = size + 1
        <5>1. f[n].fragmenter = Empty
          BY <4>1, <4>2 DEF FragmentedUpTo
        <5>2. f[n + 1] = f[n]
          BY <3>2, <5>1 DEF SendNextPayload
        <5> QED BY <3>1, <4>1, <4>2, <5>2
      <4>3. CASE at # size + 1
        <5>1. PICK to \in at + 1 .. size + 1 : FragmentedUpTo(f[n + 1], size, to)
          BY <1>1, <3>2, <4>1, <4>3, FragmentedFurther
        <5>2. to \in Nat /\ to >= (n + 1) + 5
          BY <4>1, <4>3
        <5> QED BY <3>1, <5>1, <5>2
      <4> QED BY <4>2, <4>3
    <3> QED BY <3>3, <3>4
  <2>3. size \in T
    <3> HIDE DEF T
    <3>1. 0 .. size \subseteq T
      BY <1>1, <2>1, <2>2, NumberInduction
    <3> QED BY <1>1, <3>1
  <2>4. FragmentedUpTo(f[size], size, size + 1)
    <3>1. PICK at \in Nat : /\ FragmentedUpTo(f[size], size, at)
                            /\ at = size + 1 \/ at >= size + 5
      BY <1>1, <2>3
    <3>2. at \in MaxPayload .. size + 1
      BY <3>1 DEF FragmentedUpTo
    <3>3. at = size + 1
      BY <1>1, <3>1, <3>2
    <3> QED BY <3>1, <3>3
  <2>5. /\ ps \in Seq(Seq(Bytes)) /\ Len(ps) > 1
        /\ FlattenSeq(Contents(ps)) = UnitBytes(3, size + 1)
    BY <1>2, <2>4 DEF FragmentedUpTo
  <2>6. ASSUME NEW i \in 1 .. Len(ps)
        PROVE  GoodFragment(ps[i], i = 1, i = Len(ps))
    <3>1. GoodFragment(ps[i], i = 1, i = Len(ps) /\ size + 1 = size + 1)
      BY <1>2, <2>4, Zenon DEF FragmentedUpTo
    <3>2. (i = Len(ps) /\ size + 1 = size + 1) = (i = Len(ps))
      OBVIOUS
    <3> QED BY <3>1, <3>2, Zenon
  <2>7. WellMarked(ps)
    <3>1. \A i \in 1 .. Len(ps) :
              /\ ps[i][1] = WithTypeFU(Data(1)) /\ ps[i][2] = Data(2)
              /\ ps[i][3] = MarkedFU(i = 1, i = Len(ps))
      <4> TAKE i \in 1 .. Len(ps)
      <4>1. GoodFragment(ps[i], i = 1, i = Len(ps))
        BY <2>6, Zenon
      <4> QED BY <4>1, Zenon DEF GoodFragment
    <3>2. Len(ps) # 1
      <4> DEFINE n == Len(ps)
      <4>1. n \in Nat /\ n > 1
        BY <2>5
      <4> HIDE DEF n
      <4>2. n # 1
        BY <4>1
      <4> QED BY <4>2 DEF n
    <3> QED BY <3>1, <3>2, Zenon DEF WellMarked, MarkedFU
  <2>8. \A i \in DOMAIN ps : Len(ps[i]) <= MaxPayload
    <3>1. DOMAIN ps = 1 .. Len(ps)
      BY <2>5
    <3>2. \A i \in 1 .. Len(ps) : Len(ps[i]) \in 3 .. MaxPayload
      BY <2>6, Zenon DEF GoodFragment
    <3> QED BY <1>1, <3>1, <3>2
  <2>9. Reassembled(ps) = unit
    <3>1. 1 \in 1 .. Len(ps)
      BY <2>5
    <3>2. /\ ps[1][1] = WithTypeFU(Data(1)) /\ ps[1][2] = Data(2)
          /\ ps[1][3] = MarkedFU(1 = 1, 1 = Len(ps))
      BY <2>6, <3>1, Zenon DEF GoodFragment
    <3>3. ps[1][1].kind # "data"
      BY <3>2, HeaderFacts
    <3>4. Data(ps[1][3].n) = Data(1)
      BY <3>2, MarkFields
    <3>5. Reassembled(ps) = <<Data(ps[1][3].n), ps[1][2]>> \o FlattenSeq(Contents(ps))
      BY <3>3 DEF Reassembled, Contents
    <3>6. <<Data(1), Data(2)>> = UnitBytes(1, 3)
      <4> DEFINE a == <<Data(1), Data(2)>>
                 b == UnitBytes(1, 3)
      <4>1. Data(1) \in Bytes /\ Data(2) \in Bytes
        BY DataFacts
      <4>2. b = [i \in 1 .. 2 |-> Data(i)]
        <5>1. 3 - 1 = 2 /\ \A i \in 1 .. 2 : 1 + i - 1 = i
          OBVIOUS
        <5> QED BY <5>1 DEF UnitBytes
      <4>3. a \in Seq(Bytes) /\ Len(a) = 2 /\ a[1] = Data(1) /\ a[2] = Data(2)
        BY <4>1
      <4>4. \A i \in 1 .. 2 : i = 1 \/ i = 2
        OBVIOUS
      <4> HIDE DEF a, b
      <4>5. \A i \in 1 .. 2 : Data(i) \in Bytes
        BY <4>1, <4>4
      <4>6. b \in Seq(Bytes) /\ Len(b) = 2 /\ \A i \in 1 .. 2 : b[i] = Data(i)
        BY <4>2, <4>5
      <4>7. \A i \in 1 .. 2 : a[i] = b[i]
        BY <4>3, <4>4, <4>6
      <4>8. a = b
        BY <4>3, <4>6, <4>7, SeqEqual
      <4> QED BY <4>8 DEF a, b
    <3>7. UnitBytes(1, 3) \o UnitBytes(3, size + 1) = UnitBytes(1, size + 1)
      <4> DEFINE end == size + 1
      <4>1. 1 \in Nat /\ 3 \in Nat /\ end \in Nat /\ 1 <= 3 /\ 3 <= end
        BY <1>1, <1>7
      <4> HIDE DEF end
      <4>2. UnitBytes(1, 3) \o UnitBytes(3, end) = UnitBytes(1, end)
        BY <4>1, UnitBytesJoin
      <4> QED BY <4>2 DEF end
    <3> QED BY <1>5, <2>5, <3>2, <3>4, <3>5, <3>6, <3>7
  <2> QED BY <2>5, <2>7, <2>8, <2>9 DEF ps
<1> QED BY <1>1, <1>6, <1>7
-----------------------------------------------------------------------------
(***************************************************************************)
(* The invariant.                                                          *)
(***************************************************************************)

Readers == {"nobody", "connection", "descriptor"}
Sinks   == {"stopped", "waiting", "sending"}

\* What a descriptor's handler may be.
Handlers == Sockets \union {NoSocket, Deleted}

SessionFields ==
    [exists      : BOOLEAN,
     token       : BOOLEAN,
     socket      : Sockets \union {NoSocket},
     interleaved : BOOLEAN,
     rtcp        : BOOLEAN,
     playing     : BOOLEAN,
     sink        : Sinks,
     left        : Leftovers]

Fields ==
    [connections   : SUBSET Sockets,
     reader        : [Sockets -> Readers],
     channels      : [Sockets -> SUBSET Channels],
     handler       : [Sockets -> Handlers],
     awaiting      : [Sockets -> SUBSET Channels],
     readLoop      : Sockets \union {NoSocket},
     deleteNext    : BOOLEAN,
     interface     : [Channels -> Sockets \union {NoSocket}],
     streamingOn   : [Sockets -> Lists(Sessions)],
     session       : [Sessions -> SessionFields],
     replicas      : SUBSET Sessions,
     asked         : SUBSET Sessions,
     internalError : BOOLEAN,
     undefined     : BOOLEAN]

\* A descriptor's channels are interfaces that use its socket, and it has those
\* of the sessions set up over TCP.
Plugged(sv) ==
    \A s \in Sockets, c \in Channels :
        /\ c \in sv.channels[s] => sv.interface[c] = s
        /\ sv.interface[c] = s /\ sv.session[c[1]].interleaved =>
               c \in sv.channels[s]

\* Only a descriptor that exists reads its socket and has a handler, which is no
\* connection that has gone; and a closed socket is not watched.
Attached(sv, s) ==
    /\ sv.reader[s] = "descriptor" => HasDescriptor(sv, s)
    /\ sv.handler[s] # NoSocket => HasDescriptor(sv, s)
    /\ sv.handler[s] \in sv.connections \union {NoSocket, Deleted}
    /\ sv.reader[s] # "nobody" => s \in sv.connections \/ sv.undefined

Wired(sv) ==
    /\ sv.deleteNext => sv.readLoop \in Sockets
    /\ Plugged(sv)
    /\ \A s \in Sockets : Attached(sv, s)

\* What differs is only who reads the sockets, and whose packets use them.
SameSessions(sv, t) ==
    /\ t.connections = sv.connections /\ t.streamingOn = sv.streamingOn
    /\ t.session = sv.session /\ t.replicas = sv.replicas
    /\ t.asked = sv.asked /\ t.internalError = sv.internalError
    /\ sv.undefined => t.undefined

\* The connection on s hears its client by itself, or is its descriptor's handler.
Listens(sv, s) ==
    /\ s \in sv.connections /\ sv.reader[s] # "nobody"
    /\ HasDescriptor(sv, s) => sv.handler[s] = s

\* No connection that hears its client stops to, but for some.
HeardBut(sv, t, deaf) ==
    \A x \in Sockets \ deaf : Listens(sv, x) => Listens(t, x)

StillHeard(sv, t) == HeardBut(sv, t, {})

\* A stream exists with its replica, in a session, and a stream set up over TCP
\* only while there is the connection; its interfaces use no other socket.
StreamOK(sv, id) ==
    LET session == sv.session[id]
    IN  /\ session.token <=> id \in sv.replicas
        /\ session.token => session.exists
        /\ session.token /\ session.interleaved => session.socket \in sv.connections
        /\ session.playing => session.token
        /\ sv.interface[RTP(id)] # NoSocket =>
               session.token /\ sv.interface[RTP(id)] = session.socket
        /\ sv.interface[RTCP(id)] # NoSocket =>
               /\ session.token /\ session.rtcp
               /\ sv.interface[RTCP(id)] = session.socket

\* A sink waits for a unit or has its task exactly while its stream plays.
SinkOK(sv, id) ==
    LET session == sv.session[id]
    IN  /\ session.sink = "waiting" <=> id \in sv.asked
        /\ session.sink # "stopped" <=> session.playing
        /\ session.left > 0 => session.sink = "sending"

Sound(sv) ==
    /\ sv \in Fields /\ Wired(sv) /\ ~sv.internalError
    /\ \A id \in Sessions : StreamOK(sv, id) /\ SinkOK(sv, id)

\* The sessions that were set up over TCP and stream over s, and the table that
\* says so.
Over(sv, s) ==
    {id \in Sessions : /\ sv.session[id].token /\ sv.session[id].socket = s
                       /\ sv.session[id].interleaved}

Tabled(sv) == \A s \in Sockets : Range(sv.streamingOn[s]) = Over(sv, s)

\* Between two handlers no read loop runs.
Settled(sv) ==
    /\ Sound(sv) /\ Tabled(sv)
    /\ sv.readLoop = NoSocket /\ ~sv.deleteNext

\* Sessions without stream have no socket.
Unbound(sv) ==
    \A id \in Sessions : ~sv.session[id].token => sv.session[id].socket = NoSocket

Inv == there \subseteq Sockets /\ Settled(server) /\ Unbound(server)

\* Who reads the sockets, and whose packets use them, is as before.
SameWires(sv, t) ==
    /\ t.connections = sv.connections /\ t.reader = sv.reader
    /\ t.channels = sv.channels /\ t.handler = sv.handler
    /\ t.readLoop = sv.readLoop /\ t.deleteNext = sv.deleteNext
    /\ t.interface = sv.interface /\ t.undefined = sv.undefined

\* Session id is the same one, with or without its stream on the same socket.
SameStream(sv, t, id) ==
    /\ t.session[id].exists = sv.session[id].exists
    /\ t.session[id].token = sv.session[id].token
    /\ t.session[id].socket = sv.session[id].socket
    /\ t.session[id].interleaved = sv.session[id].interleaved

SameStreams(sv, t) == \A id \in Sessions : SameStream(sv, t, id)

\* No connection goes, and every read loop that runs still does.
SameLoop(sv, t) == t.connections = sv.connections /\ t.readLoop = sv.readLoop

-----------------------------------------------------------------------------
(***************************************************************************)
(* Sockets, their readers and their channels.                              *)
(***************************************************************************)

\* The fields are of their types.
LEMMA FieldTypes ==
    ASSUME NEW sv \in Fields
    PROVE  /\ sv.connections \subseteq Sockets
           /\ sv.reader \in [Sockets -> Readers]
           /\ sv.channels \in [Sockets -> SUBSET Channels]
           /\ sv.handler \in [Sockets -> Handlers]
           /\ sv.awaiting \in [Sockets -> SUBSET Channels]
           /\ sv.readLoop \in Sockets \union {NoSocket}
           /\ sv.deleteNext \in BOOLEAN
           /\ sv.interface \in [Channels -> Sockets \union {NoSocket}]
           /\ sv.streamingOn \in [Sockets -> Lists(Sessions)]
           /\ sv.session \in [Sessions -> SessionFields]
           /\ sv.replicas \subseteq Sessions /\ sv.asked \subseteq Sessions
           /\ sv.internalError \in BOOLEAN /\ sv.undefined \in BOOLEAN
BY DEF Fields

\* The special values are no sockets, and are not the same.
LEMMA NoSockets ==
    NoSocket \notin Sockets /\ Deleted \notin Sockets /\ Deleted # NoSocket
BY NoSocketAssumption, DeletedAssumption

\* Disposed, field by field.
LEMMA DisposedFields ==
    ASSUME NEW sv \in Fields, NEW s \in Sockets
    PROVE  LET t == Disposed(sv, s)
           IN  /\ t \in Fields /\ SameSessions(sv, t)
               /\ t.readLoop = sv.readLoop /\ t.deleteNext = sv.deleteNext
               /\ t.undefined = sv.undefined
               /\ t.reader = [sv.reader EXCEPT ![s] = "nobody"]
               /\ t.handler = [sv.handler EXCEPT ![s] = NoSocket]
               /\ t.channels = [sv.channels EXCEPT ![s] = {}]
               /\ \A c \in Channels : t.interface[c] = IF c \in sv.channels[s]
                                                       THEN NoSocket
                                                       ELSE sv.interface[c]
<1> DEFINE reader    == [sv.reader EXCEPT ![s] = "nobody"]
           handler   == [sv.handler EXCEPT ![s] = NoSocket]
           channels  == [sv.channels EXCEPT ![s] = {}]
           awaiting  == [sv.awaiting EXCEPT ![s] = {}]
           interface == [c \in Channels |-> IF c \in sv.channels[s] THEN NoSocket
                                            ELSE sv.interface[c]]
           t == [sv EXCEPT !.reader = reader, !.handler = handler,
                           !.channels = channels, !.awaiting = awaiting,
                           !.interface = interface]
<1>1. Disposed(sv, s) = t
  BY DEF Disposed, Fields
<1>2. reader \in [Sockets -> Readers]
  BY FieldTypes DEF Readers
<1>3. handler \in [Sockets -> Handlers]
  BY FieldTypes DEF Handlers
<1>4. /\ channels \in [Sockets -> SUBSET Channels]
      /\ awaiting \in [Sockets -> SUBSET Channels]
      /\ interface \in [Channels -> Sockets \union {NoSocket}]
      /\ \A c \in Channels : interface[c] = IF c \in sv.channels[s] THEN NoSocket
                                            ELSE sv.interface[c]
  BY FieldTypes
<1> HIDE DEF reader, handler, channels, awaiting, interface
<1>5. t \in Fields
  BY <1>2, <1>3, <1>4 DEF Fields
<1>6. /\ t.reader = reader /\ t.handler = handler /\ t.channels = channels
      /\ t.interface = interface /\ t.undefined = sv.undefined
      /\ t.readLoop = sv.readLoop /\ t.deleteNext = sv.deleteNext
  BY DEF Fields
<1>7. SameSessions(sv, t)
  BY DEF Fields, SameSessions
<1> QED BY <1>1, <1>4, <1>5, <1>6, <1>7 DEF reader, handler, channels

\* Who reads the sockets when the descriptor of s has gone.
AfterDispose(sv, s, x) ==
    IF x = sv.handler[s] THEN "connection"
    ELSE IF x = s THEN "nobody" ELSE sv.reader[x]

\* Dispose, field by field: the handler, if there is one, reads its own socket.
LEMMA DisposeFields ==
    ASSUME NEW sv \in Fields, NEW s \in Sockets
    PROVE  LET t == Dispose(sv, s)
           IN  /\ t \in Fields /\ SameSessions(sv, t)
               /\ t.readLoop = sv.readLoop /\ t.deleteNext = sv.deleteNext
               /\ \A x \in Sockets : t.reader[x] = AfterDispose(sv, s, x)
               /\ t.handler = [sv.handler EXCEPT ![s] = NoSocket]
               /\ t.channels = [sv.channels EXCEPT ![s] = {}]
               /\ \A c \in Channels : t.interface[c] = IF c \in sv.channels[s]
                                                       THEN NoSocket
                                                       ELSE sv.interface[c]
<1> DEFINE d      == Disposed(sv, s)
           h      == sv.handler[s]
           reader == [d.reader EXCEPT ![h] = "connection"]
           undefined == d.undefined \/ h = Deleted
           t      == [d EXCEPT !.reader = reader]
           u      == [d EXCEPT !.undefined = undefined]
<1>1. /\ d \in Fields /\ SameSessions(sv, d)
      /\ d.readLoop = sv.readLoop /\ d.deleteNext = sv.deleteNext
      /\ d.undefined = sv.undefined
      /\ d.reader = [sv.reader EXCEPT ![s] = "nobody"]
      /\ d.handler = [sv.handler EXCEPT ![s] = NoSocket]
      /\ d.channels = [sv.channels EXCEPT ![s] = {}]
      /\ \A c \in Channels : d.interface[c] = IF c \in sv.channels[s] THEN NoSocket
                                              ELSE sv.interface[c]
  BY DisposedFields
<1>2. Dispose(sv, s) = IF h \in Sockets THEN t ELSE u
  BY DEF Dispose
<1>3. sv.reader \in [Sockets -> Readers] /\ d.reader \in [Sockets -> Readers]
  BY <1>1, FieldTypes
<1> HIDE DEF d, h
<1>4. CASE h \in Sockets
  <2>1. reader \in [Sockets -> Readers]
    BY <1>3 DEF Readers
  <2>2. \A x \in Sockets : reader[x] = AfterDispose(sv, s, x)
    BY <1>1, <1>3, <1>4 DEF AfterDispose, h
  <2> HIDE DEF reader
  <2>3. t \in Fields
    BY <1>1, <2>1 DEF Fields
  <2>4. /\ t.reader = reader /\ t.handler = d.handler /\ t.channels = d.channels
        /\ t.interface = d.interface
        /\ t.readLoop = d.readLoop /\ t.deleteNext = d.deleteNext
    BY <1>1 DEF Fields
  <2>5. SameSessions(d, t)
    BY <1>1 DEF Fields, SameSessions
  <2> HIDE DEF t, u
  <2> QED BY <1>1, <1>2, <1>4, <2>2, <2>3, <2>4, <2>5 DEF SameSessions
<1>5. CASE h \notin Sockets
  <2>1. undefined \in BOOLEAN /\ (d.undefined => undefined)
    OBVIOUS
  <2>2. \A x \in Sockets : d.reader[x] = AfterDispose(sv, s, x)
    BY <1>1, <1>3, <1>5 DEF AfterDispose, h
  <2> HIDE DEF undefined
  <2>3. u \in Fields
    BY <1>1, <2>1 DEF Fields
  <2>4. /\ u.reader = d.reader /\ u.handler = d.handler /\ u.channels = d.channels
        /\ u.interface = d.interface
        /\ u.readLoop = d.readLoop /\ u.deleteNext = d.deleteNext
    BY <1>1 DEF Fields
  <2>5. SameSessions(d, u)
    BY <1>1, <2>1 DEF Fields, SameSessions
  <2>6. Dispose(sv, s) = u
    BY <1>2, <1>5
  <2> HIDE DEF t, u
  <2>7. SameSessions(sv, u)
    BY <1>1, <2>5 DEF SameSessions
  <2> QED BY <1>1, <2>2, <2>3, <2>4, <2>6, <2>7
<1> QED BY <1>4, <1>5

\* With a descriptor go its channels, and no other wire; what a connection
\* heard through it, it hears by itself.
LEMMA DisposeWired ==
    ASSUME NEW sv \in Fields, NEW s \in Sockets, Plugged(sv),
           sv.deleteNext => sv.readLoop \in Sockets \ {s},
           \A x \in Sockets \ {s} : Attached(sv, x),
           sv.handler[s] \in sv.connections \union {NoSocket, Deleted}
    PROVE  LET t == Dispose(sv, s)
           IN  /\ t \in Fields /\ Wired(t) /\ SameSessions(sv, t)
               /\ t.readLoop = sv.readLoop /\ t.deleteNext = sv.deleteNext
               /\ \A c \in Channels : t.interface[c] = IF c \in sv.channels[s]
                                                       THEN NoSocket
                                                       ELSE sv.interface[c]
               /\ HeardBut(sv, t, {s})
               /\ sv.handler[s] = s => Listens(t, s)
<1> DEFINE t == Dispose(sv, s)
<1>1. /\ t \in Fields /\ SameSessions(sv, t)
      /\ t.readLoop = sv.readLoop /\ t.deleteNext = sv.deleteNext
      /\ \A x \in Sockets : t.reader[x] = AfterDispose(sv, s, x)
      /\ t.handler = [sv.handler EXCEPT ![s] = NoSocket]
      /\ t.channels = [sv.channels EXCEPT ![s] = {}]
      /\ \A c \in Channels : t.interface[c] = IF c \in sv.channels[s] THEN NoSocket
                                              ELSE sv.interface[c]
  BY DisposeFields
<1> HIDE DEF t
<1>2. /\ sv.reader \in [Sockets -> Readers] /\ sv.handler \in [Sockets -> Handlers]
      /\ sv.channels \in [Sockets -> SUBSET Channels]
      /\ sv.connections \subseteq Sockets
      /\ t.connections = sv.connections /\ t.session = sv.session
      /\ sv.undefined => t.undefined
  BY <1>1, FieldTypes DEF SameSessions
<1>3. Plugged(t)
  BY <1>1, <1>2, NoSockets DEF Plugged
<1>4. ~HasDescriptor(t, s)
  BY <1>1, <1>2 DEF HasDescriptor
<1>5. Attached(t, s)
  BY <1>1, <1>2, NoSockets DEF Attached, AfterDispose
<1>6. \A x \in Sockets \ {s} : /\ HasDescriptor(t, x) <=> HasDescriptor(sv, x)
                               /\ t.handler[x] = sv.handler[x]
  BY <1>1, <1>2 DEF HasDescriptor
<1>7. \A x \in Sockets \ {s} : Attached(t, x)
  <2> SUFFICES ASSUME NEW x \in Sockets \ {s}
               PROVE  Attached(t, x)
    OBVIOUS
  <2>1. Attached(sv, x)
    OBVIOUS
  <2> QED BY <1>1, <1>2, <1>6, <2>1, NoSockets DEF Attached, AfterDispose
<1>8. Wired(t)
  BY <1>1, <1>3, <1>5, <1>7 DEF Wired
<1>9. HeardBut(sv, t, {s})
  BY <1>1, <1>2, <1>6 DEF HeardBut, Listens, AfterDispose
<1>10. ASSUME sv.handler[s] = s
       PROVE  Listens(t, s)
  BY <1>1, <1>2, <1>4, <1>10, NoSockets DEF Listens, AfterDispose
<1> QED BY <1>1, <1>8, <1>9, <1>10 DEF t

\* Other channels stay when one goes, unless they have the same number.
LEMMA SameChannelFacts ==
    ASSUME NEW sv \in Fields, NEW channel \in Channels
    PROVE  /\ SameChannel(sv, channel) \subseteq Channels
           /\ channel \in SameChannel(sv, channel)
           /\ \A c \in SameChannel(sv, channel) \ {channel} :
                  ~sv.session[c[1]].interleaved
           /\ sv.session[channel[1]].interleaved =>
                  SameChannel(sv, channel) = {channel}
BY DEF SameChannel

\* RemoveStreamSocket unplugs one channel, and with the last one of a socket the
\* descriptor goes, at once or at the end of its read loop.
LEMMA RemoveWired ==
    ASSUME NEW sv \in Fields, Wired(sv), NEW channel \in Channels, NEW s \in Sockets
    PROVE  LET t == RemoveStreamSocket(sv, channel, s)
           IN  /\ t \in Fields /\ Wired(t) /\ SameSessions(sv, t)
               /\ t.readLoop = sv.readLoop
               /\ \A c \in Channels : t.interface[c] =
                      IF c = channel /\ sv.interface[c] = s THEN NoSocket
                      ELSE sv.interface[c]
               /\ StillHeard(sv, t)
<1> DEFINE t == RemoveStreamSocket(sv, channel, s)
           same == SameChannel(sv, channel)
           interface == [sv.interface EXCEPT ![channel] = NoSocket]
           channels  == [sv.channels EXCEPT ![s] = @ \ same]
           a == [sv EXCEPT !.interface = interface]
           b == [sv EXCEPT !.interface = interface, !.channels = channels]
           c == [b EXCEPT !.deleteNext = TRUE]
<1>1. /\ sv.reader \in [Sockets -> Readers] /\ sv.handler \in [Sockets -> Handlers]
      /\ sv.channels \in [Sockets -> SUBSET Channels]
      /\ sv.interface \in [Channels -> Sockets \union {NoSocket}]
      /\ sv.readLoop \in Sockets \union {NoSocket} /\ sv.deleteNext \in BOOLEAN
  BY FieldTypes
<1>2. CASE sv.interface[channel] # s
  BY <1>2 DEF RemoveStreamSocket, SameSessions, StillHeard, HeardBut
<1>3. CASE sv.interface[channel] = s
  <2>1. /\ interface \in [Channels -> Sockets \union {NoSocket}]
        /\ channels \in [Sockets -> SUBSET Channels]
        /\ \A e \in Channels : interface[e] = IF e = channel THEN NoSocket
                                              ELSE sv.interface[e]
        /\ \A x \in Sockets : channels[x] = IF x = s THEN sv.channels[s] \ same
                                            ELSE sv.channels[x]
    BY <1>1
  <2>2. /\ channel \in same
        /\ \A e \in Channels : e \in same /\ e # channel =>
               ~sv.session[e[1]].interleaved
    BY SameChannelFacts
  <2>3. t = Deregister(a, s, channel)
    BY <1>3 DEF RemoveStreamSocket, Fields
  <2>4. /\ a.channels = sv.channels /\ a.readLoop = sv.readLoop
        /\ SameChannel(a, channel) = same
    BY DEF Fields, SameChannel
  <2>5. [a EXCEPT !.channels[s] = @ \ same] = b
    BY DEF Fields
  <2> HIDE DEF interface, t, same
  <2>6. t = IF sv.channels[s] = {} \/ b.channels[s] # {} THEN b
            ELSE IF sv.readLoop = s THEN c ELSE Dispose(b, s)
    BY <2>3, <2>4, <2>5 DEF Deregister
  <2> HIDE DEF a, channels
  <2>7. /\ b \in Fields /\ b.interface = interface /\ b.channels = channels
        /\ b.reader = sv.reader /\ b.handler = sv.handler
        /\ b.readLoop = sv.readLoop /\ b.deleteNext = sv.deleteNext
        /\ SameSessions(sv, b) /\ b.undefined = sv.undefined
    BY <2>1 DEF Fields, SameSessions
  <2> HIDE DEF b
  <2>8. Plugged(b)
    BY <1>1, <1>3, <2>1, <2>2, <2>7, NoSockets DEF Wired, Plugged, SameSessions
  <2>9. \A x \in Sockets \ {s} : /\ HasDescriptor(b, x) <=> HasDescriptor(sv, x)
                                 /\ Attached(b, x)
    <3> SUFFICES ASSUME NEW x \in Sockets \ {s}
                 PROVE  /\ HasDescriptor(b, x) <=> HasDescriptor(sv, x)
                        /\ Attached(b, x)
      OBVIOUS
    <3>1. Attached(sv, x)
      BY DEF Wired
    <3>2. HasDescriptor(b, x) <=> HasDescriptor(sv, x)
      BY <2>1, <2>7 DEF HasDescriptor
    <3> QED BY <2>7, <3>1, <3>2 DEF Attached, SameSessions
  <2>10. Attached(sv, s)
    BY DEF Wired
  <2>11. CASE sv.channels[s] = {} \/ b.channels[s] # {}
    <3>1. HasDescriptor(b, s) <=> HasDescriptor(sv, s)
      BY <2>1, <2>7, <2>11 DEF HasDescriptor
    <3>2. Attached(b, s)
      BY <2>7, <2>10, <3>1 DEF Attached, SameSessions
    <3>3. Wired(b)
      BY <1>1, <2>7, <2>8, <2>9, <3>2 DEF Wired
    <3>4. StillHeard(sv, b)
      BY <2>7, <2>9, <3>1 DEF StillHeard, HeardBut, Listens, SameSessions
    <3>5. t = b
      BY <2>6, <2>11
    <3> QED BY <1>1, <1>3, <2>1, <2>7, <3>3, <3>4, <3>5 DEF t
  <2>12. CASE sv.channels[s] # {} /\ b.channels[s] = {} /\ sv.readLoop = s
    <3>1. /\ c \in Fields /\ c.interface = interface /\ c.channels = channels
          /\ c.reader = sv.reader /\ c.handler = sv.handler
          /\ c.readLoop = sv.readLoop /\ c.deleteNext
          /\ SameSessions(sv, c) /\ c.undefined = sv.undefined
      BY <2>7 DEF Fields, SameSessions
    <3> HIDE DEF c
    <3>2. Plugged(c)
      BY <2>7, <2>8, <3>1 DEF Plugged, SameSessions
    <3>3. \A x \in Sockets : HasDescriptor(c, x) <=> HasDescriptor(sv, x)
      BY <2>1, <2>12, <3>1 DEF HasDescriptor
    <3>4. \A x \in Sockets : Attached(c, x)
      BY <3>1, <3>3 DEF Wired, Attached, SameSessions
    <3>5. Wired(c)
      BY <2>12, <3>1, <3>2, <3>4 DEF Wired
    <3>6. StillHeard(sv, c)
      BY <3>1, <3>3 DEF StillHeard, HeardBut, Listens, SameSessions
    <3>7. t = c
      BY <2>6, <2>12
    <3> QED BY <1>1, <1>3, <2>1, <3>1, <3>5, <3>6, <3>7 DEF t
  <2>13. CASE sv.channels[s] # {} /\ b.channels[s] = {} /\ sv.readLoop # s
    <3> DEFINE d == Dispose(b, s)
    <3>1. b.deleteNext => b.readLoop \in Sockets \ {s}
      BY <2>7, <2>13 DEF Wired
    <3>2. b.handler[s] \in b.connections \union {NoSocket, Deleted}
      BY <2>7, <2>10 DEF SameSessions, Attached
    <3>3. /\ d \in Fields /\ Wired(d) /\ SameSessions(b, d)
          /\ d.readLoop = b.readLoop
          /\ \A e \in Channels : d.interface[e] = IF e \in b.channels[s] THEN NoSocket
                                                  ELSE b.interface[e]
          /\ HeardBut(b, d, {s})
          /\ b.handler[s] = s => Listens(d, s)
      BY <2>7, <2>8, <2>9, <3>1, <3>2, DisposeWired
    <3>4. t = d
      BY <2>6, <2>13
    <3> HIDE DEF d
    <3>5. \A x \in Sockets : Listens(sv, x) => Listens(d, x)
      <4>1. ASSUME NEW x \in Sockets \ {s}, Listens(sv, x)
            PROVE  Listens(d, x)
        <5>1. Listens(b, x)
          BY <2>7, <2>9, <4>1 DEF Listens, SameSessions
        <5> QED BY <3>3, <5>1 DEF HeardBut
      <4>2. ASSUME Listens(sv, s)
            PROVE  Listens(d, s)
        <5>1. HasDescriptor(sv, s)
          BY <2>13 DEF HasDescriptor
        <5> QED BY <2>7, <3>3, <4>2, <5>1 DEF Listens
      <4> QED BY <4>1, <4>2
    <3>6. SameSessions(sv, d)
      BY <2>7, <3>3 DEF SameSessions
    <3> QED BY <1>1, <1>3, <2>1, <2>7, <2>13, <3>3, <3>4, <3>5, <3>6
            DEF t, StillHeard, HeardBut
  <2> QED BY <2>11, <2>12, <2>13
<1> QED BY <1>2, <1>3 DEF t

\* A packet that fails unplugs its channel at most.
LEMMA SendWired ==
    ASSUME NEW sv \in Fields, Wired(sv), NEW channel \in Channels, NEW fails
    PROVE  LET t == SendPacket(sv, channel, fails)
           IN  /\ t \in Fields /\ Wired(t) /\ SameSessions(sv, t)
               /\ t.readLoop = sv.readLoop
               /\ \A c \in Channels : t.interface[c] \in {sv.interface[c], NoSocket}
               /\ StillHeard(sv, t)
<1> DEFINE s == sv.interface[channel]
<1>1. CASE fails /\ s # NoSocket
  <2>1. s \in Sockets
    BY <1>1, FieldTypes
  <2>2. SendPacket(sv, channel, fails) = RemoveStreamSocket(sv, channel, s)
    BY <1>1 DEF SendPacket
  <2> HIDE DEF s
  <2> QED BY <2>1, <2>2, RemoveWired
<1>2. CASE ~(fails /\ s # NoSocket)
  <2>1. SendPacket(sv, channel, fails) = sv
    BY <1>2 DEF SendPacket
  <2> QED BY <2>1 DEF SameSessions, StillHeard, HeardBut
<1> QED BY <1>1, <1>2

\* A channel is plugged into a socket: if there is no descriptor, a new one
\* reads the socket, but has no handler yet.
PluggedInto(sv, t, channel, s) ==
    /\ t \in Fields /\ Wired(t) /\ SameSessions(sv, t)
    /\ t.readLoop = sv.readLoop
    /\ t.interface = [sv.interface EXCEPT ![channel] = s]
    /\ t.handler = sv.handler
    /\ sv.session[channel[1]].interleaved => HasDescriptor(t, s)
    /\ IF sv.channels[s] = {} THEN t.reader[s] \in {sv.reader[s], "descriptor"}
       ELSE t.reader[s] = sv.reader[s]
    /\ HasDescriptor(sv, s) => HasDescriptor(t, s)
    /\ HeardBut(sv, t, {s})
    /\ sv.channels[s] # {} => t.channels[s] # {}
    /\ sv.session[channel[1]].interleaved => t.channels[s] # {}

\* RTCPInstance::addStreamSocket does so.
LEMMA AddRTCPWired ==
    ASSUME NEW sv \in Fields, Wired(sv), NEW channel \in Channels,
           NEW s \in Sockets, sv.interface[channel] \in {NoSocket, s}
    PROVE  PluggedInto(sv, AddRTCPSocket(sv, channel, s), channel, s)
<1> DEFINE t == AddRTCPSocket(sv, channel, s)
           same == SameChannel(sv, channel)
           interface == [sv.interface EXCEPT ![channel] = s]
           channels  == [sv.channels EXCEPT ![s] = (@ \ same) \union {channel}]
           reader    == IF sv.channels[s] = {}
                        THEN [sv.reader EXCEPT ![s] = "descriptor"]
                        ELSE sv.reader
           undefined == sv.undefined \/ (sv.channels[s] = {} /\ s \notin sv.connections)
           a == [sv EXCEPT !.interface = interface, !.channels = channels,
                           !.reader = reader, !.undefined = undefined]
<1>1. /\ sv.reader \in [Sockets -> Readers] /\ sv.handler \in [Sockets -> Handlers]
      /\ sv.channels \in [Sockets -> SUBSET Channels]
      /\ sv.interface \in [Channels -> Sockets \union {NoSocket}]
      /\ sv.undefined \in BOOLEAN
      /\ Attached(sv, s)
  BY FieldTypes DEF Wired
<1>2. /\ channel \in same
      /\ \A e \in Channels : e \in same /\ e # channel =>
             ~sv.session[e[1]].interleaved
  BY SameChannelFacts
<1>3. t = a
  <2>1. SameChannel([sv EXCEPT !.interface[channel] = s], channel) = same
    BY DEF SameChannel, Fields
  <2> HIDE DEF same
  <2>2. CASE sv.channels[s] = {}
    BY <1>1, <2>1, <2>2 DEF AddRTCPSocket, Register, Fields
  <2>3. CASE sv.channels[s] # {}
    BY <1>1, <2>1, <2>3 DEF AddRTCPSocket, Register, Fields
  <2> QED BY <2>2, <2>3
<1> HIDE DEF same
<1>4. /\ interface \in [Channels -> Sockets \union {NoSocket}]
      /\ channels \in [Sockets -> SUBSET Channels]
      /\ undefined \in BOOLEAN /\ (sv.undefined => undefined)
      /\ sv.channels[s] = {} => s \in sv.connections \/ undefined
      /\ \A x \in Sockets : channels[x] =
             IF x = s THEN (sv.channels[s] \ same) \union {channel}
             ELSE sv.channels[x]
  BY <1>1
<1>5. /\ reader \in [Sockets -> Readers]
      /\ \A x \in Sockets \ {s} : reader[x] = sv.reader[x]
      /\ sv.channels[s] = {} => reader[s] = "descriptor"
      /\ sv.channels[s] # {} => reader[s] = sv.reader[s]
  BY <1>1 DEF Readers
<1>6. \A c \in Channels : interface[c] = IF c = channel THEN s ELSE sv.interface[c]
  BY <1>1
<1>7. interface = [sv.interface EXCEPT ![channel] = s]
  OBVIOUS
<1> HIDE DEF interface, channels, reader, undefined, t
<1>8. /\ a \in Fields /\ a.interface = interface /\ a.channels = channels
      /\ a.reader = reader /\ a.handler = sv.handler
      /\ a.readLoop = sv.readLoop /\ a.deleteNext = sv.deleteNext
      /\ a.undefined = undefined
  BY <1>4, <1>5 DEF Fields
<1>9. SameSessions(sv, a)
  BY <1>4 DEF Fields, SameSessions
<1> HIDE DEF a
<1>10. Plugged(a)
  BY <1>1, <1>2, <1>4, <1>6, <1>8, <1>9, NoSockets DEF Wired, Plugged, SameSessions
<1>11. HasDescriptor(a, s) /\ a.channels[s] # {}
  BY <1>4, <1>8 DEF HasDescriptor
<1>12. \A x \in Sockets \ {s} : HasDescriptor(a, x) <=> HasDescriptor(sv, x)
  BY <1>4, <1>8 DEF HasDescriptor
<1>13. Attached(a, s)
  BY <1>1, <1>4, <1>5, <1>8, <1>9, <1>11 DEF Attached, SameSessions
<1>14. ASSUME NEW x \in Sockets \ {s}
       PROVE  Attached(a, x)
  <2>1. Attached(sv, x)
    BY DEF Wired
  <2> QED BY <1>4, <1>5, <1>8, <1>9, <1>12, <2>1 DEF Attached, SameSessions
<1>15. Wired(a)
  BY <1>8, <1>10, <1>13, <1>14 DEF Wired
<1>16. HeardBut(sv, a, {s})
  BY <1>5, <1>8, <1>9, <1>12 DEF HeardBut, Listens, SameSessions
<1> QED BY <1>3, <1>5, <1>7, <1>8, <1>9, <1>11, <1>15, <1>16 DEF PluggedInto, t

\* And so does RTPInterface::addStreamSocket; that it does nothing when the
\* interface has the socket already makes no difference to sessions over TCP.
LEMMA AddWired ==
    ASSUME NEW sv \in Fields, Wired(sv), NEW channel \in Channels,
           NEW s \in Sockets, sv.interface[channel] \in {NoSocket, s}
    PROVE  PluggedInto(sv, AddStreamSocket(sv, channel, s), channel, s)
<1>1. CASE sv.interface[channel] = s
  <2>1. AddStreamSocket(sv, channel, s) = sv
    BY <1>1 DEF AddStreamSocket
  <2>2. sv.interface = [sv.interface EXCEPT ![channel] = s]
    BY <1>1, FieldTypes
  <2>3. sv.session[channel[1]].interleaved => sv.channels[s] # {}
    BY <1>1 DEF Wired, Plugged
  <2>4. HeardBut(sv, sv, {s})
    BY DEF HeardBut
  <2> QED BY <2>1, <2>2, <2>3, <2>4 DEF PluggedInto, SameSessions, HasDescriptor
<1>2. CASE sv.interface[channel] # s
  <2>1. AddStreamSocket(sv, channel, s) = AddRTCPSocket(sv, channel, s)
    BY <1>2 DEF AddStreamSocket, AddRTCPSocket
  <2> QED BY <2>1, AddRTCPWired
<1> QED BY <1>1, <1>2

\* The handler of a descriptor is set, or cleared.
LEMMA HandlerWired ==
    ASSUME NEW sv \in Fields, Wired(sv), NEW s \in Sockets,
           NEW h \in sv.connections \union {NoSocket}
    PROVE  LET t == SetHandler(sv, s, h)
           IN  /\ t \in Fields /\ Wired(t) /\ SameSessions(sv, t)
               /\ t.readLoop = sv.readLoop /\ t.interface = sv.interface
               /\ t.reader = sv.reader /\ t.channels = sv.channels
               /\ HeardBut(sv, t, {s})
               /\ HasDescriptor(t, s) <=> HasDescriptor(sv, s)
               /\ HasDescriptor(sv, s) => t.handler[s] = h
<1> DEFINE handler == [sv.handler EXCEPT ![s] = h]
           t == [sv EXCEPT !.handler = handler]
<1>1. SetHandler(sv, s, h) = IF HasDescriptor(sv, s) THEN t ELSE sv
  BY DEF SetHandler
<1>2. CASE ~HasDescriptor(sv, s)
  BY <1>1, <1>2 DEF SameSessions, HeardBut
<1>3. CASE HasDescriptor(sv, s)
  <2>1. /\ handler \in [Sockets -> Handlers] /\ handler[s] = h
        /\ \A x \in Sockets \ {s} : handler[x] = sv.handler[x]
    BY FieldTypes DEF Handlers
  <2> HIDE DEF handler
  <2>2. /\ t \in Fields /\ t.handler = handler /\ t.interface = sv.interface
        /\ t.channels = sv.channels /\ t.reader = sv.reader
        /\ t.readLoop = sv.readLoop /\ t.deleteNext = sv.deleteNext
        /\ SameSessions(sv, t) /\ t.undefined = sv.undefined
    BY <2>1 DEF Fields, SameSessions
  <2> HIDE DEF t
  <2>3. Plugged(t)
    BY <2>2 DEF Wired, Plugged, SameSessions
  <2>4. \A x \in Sockets : HasDescriptor(t, x) <=> HasDescriptor(sv, x)
    BY <2>2 DEF HasDescriptor
  <2>5. ASSUME NEW x \in Sockets
        PROVE  Attached(t, x)
    <3>1. Attached(sv, x)
      BY DEF Wired
    <3> QED BY <1>3, <2>1, <2>2, <2>4, <3>1 DEF Attached, SameSessions
  <2>6. Wired(t)
    BY <2>2, <2>3, <2>5 DEF Wired
  <2>7. HeardBut(sv, t, {s})
    BY <2>1, <2>2, <2>4 DEF HeardBut, Listens, SameSessions
  <2>8. SetHandler(sv, s, h) = t
    BY <1>1, <1>3
  <2> QED BY <2>1, <2>2, <2>4, <2>6, <2>7, <2>8
<1> QED BY <1>2, <1>3

\* The read loop begins, at a time when none runs.
LEMMA EnterWired ==
    ASSUME NEW sv \in Fields, Wired(sv), NEW s \in Sockets, ~sv.deleteNext
    PROVE  LET t == EnterReadLoop(sv, s)
           IN  /\ t \in Fields /\ Wired(t) /\ SameSessions(sv, t)
               /\ ~t.deleteNext /\ t.interface = sv.interface
               /\ StillHeard(sv, t)
<1> DEFINE t == [sv EXCEPT !.readLoop = s]
<1>1. /\ t \in Fields /\ t.handler = sv.handler /\ t.interface = sv.interface
      /\ t.channels = sv.channels /\ t.reader = sv.reader
      /\ t.deleteNext = sv.deleteNext /\ SameSessions(sv, t)
      /\ t.undefined = sv.undefined
  BY DEF Fields, SameSessions
<1> HIDE DEF t
<1>2. \A x \in Sockets : HasDescriptor(t, x) <=> HasDescriptor(sv, x)
  BY <1>1 DEF HasDescriptor
<1>3. Wired(t)
  BY <1>1, <1>2 DEF Wired, Plugged, Attached, SameSessions
<1>4. SameSessions(sv, sv) /\ StillHeard(sv, sv)
  BY DEF SameSessions, StillHeard, HeardBut
<1>5. StillHeard(sv, t)
  BY <1>1, <1>2 DEF StillHeard, HeardBut, Listens, SameSessions
<1> QED BY <1>1, <1>3, <1>4, <1>5 DEF EnterReadLoop, t

\* It ends, and with it a descriptor that has lost its last channel meanwhile.
LEMMA LeaveWired ==
    ASSUME NEW sv \in Fields, Wired(sv)
    PROVE  LET t == LeaveReadLoop(sv)
           IN  /\ t \in Fields /\ Wired(t) /\ SameSessions(sv, t)
               /\ t.readLoop = NoSocket /\ ~t.deleteNext
               /\ \A c \in Channels : t.interface[c] \in {sv.interface[c], NoSocket}
               /\ StillHeard(sv, t)
<1> DEFINE a == [sv EXCEPT !.readLoop = NoSocket, !.deleteNext = FALSE]
<1>1. /\ a \in Fields /\ a.handler = sv.handler /\ a.interface = sv.interface
      /\ a.channels = sv.channels /\ a.reader = sv.reader
      /\ a.readLoop = NoSocket /\ ~a.deleteNext /\ SameSessions(sv, a)
      /\ a.undefined = sv.undefined
  BY DEF Fields, SameSessions
<1>2. LeaveReadLoop(sv) = IF sv.deleteNext THEN Dispose(a, sv.readLoop) ELSE a
  BY DEF LeaveReadLoop
<1> HIDE DEF a
<1>3. Plugged(a)
  BY <1>1 DEF Wired, Plugged, SameSessions
<1>4. \A x \in Sockets : x # sv.readLoop \/ ~sv.deleteNext =>
          /\ HasDescriptor(a, x) <=> HasDescriptor(sv, x)
          /\ Attached(a, x)
  <2> SUFFICES ASSUME NEW x \in Sockets, x # sv.readLoop \/ ~sv.deleteNext
               PROVE  /\ HasDescriptor(a, x) <=> HasDescriptor(sv, x)
                      /\ Attached(a, x)
    OBVIOUS
  <2>1. Attached(sv, x)
    BY DEF Wired
  <2>2. HasDescriptor(a, x) <=> HasDescriptor(sv, x)
    BY <1>1 DEF HasDescriptor
  <2> QED BY <1>1, <2>1, <2>2 DEF Attached, SameSessions
<1>5. CASE ~sv.deleteNext
  <2>1. Wired(a)
    BY <1>1, <1>3, <1>4, <1>5 DEF Wired
  <2>2. StillHeard(sv, a)
    BY <1>1, <1>4, <1>5 DEF StillHeard, HeardBut, Listens, SameSessions
  <2> QED BY <1>1, <1>2, <1>5, <2>1, <2>2
<1>6. CASE sv.deleteNext
  <2> DEFINE s == sv.readLoop
             d == Dispose(a, s)
  <2>1. s \in Sockets /\ Attached(sv, s)
    BY <1>6 DEF Wired
  <2>2. a.handler[s] \in a.connections \union {NoSocket, Deleted}
    BY <1>1, <2>1 DEF Attached, SameSessions
  <2>3. \A x \in Sockets \ {s} : Attached(a, x)
    BY <1>4
  <2>4. \A x \in Sockets \ {s} : Listens(sv, x) => Listens(a, x)
    BY <1>1, <1>4 DEF Listens, SameSessions
  <2>5. Listens(sv, s) => a.handler[s] = s
    BY <1>1, <1>6 DEF Listens, HasDescriptor
  <2> HIDE DEF s
  <2>6. /\ d \in Fields /\ Wired(d) /\ SameSessions(a, d)
        /\ d.readLoop = NoSocket /\ ~d.deleteNext
        /\ \A c \in Channels : d.interface[c] = IF c \in a.channels[s] THEN NoSocket
                                                ELSE a.interface[c]
        /\ HeardBut(a, d, {s})
        /\ a.handler[s] = s => Listens(d, s)
    BY <1>1, <1>3, <2>1, <2>2, <2>3, DisposeWired
  <2>7. LeaveReadLoop(sv) = d
    BY <1>2, <1>6 DEF s
  <2> HIDE DEF d
  <2>8. SameSessions(sv, d)
    BY <1>1, <2>6 DEF SameSessions
  <2>9. StillHeard(sv, d)
    BY <2>4, <2>5, <2>6 DEF StillHeard, HeardBut
  <2> QED BY <1>1, <2>6, <2>7, <2>8, <2>9
<1> QED BY <1>5, <1>6


-----------------------------------------------------------------------------
(***************************************************************************)
(* One session.                                                            *)
(***************************************************************************)

\* The two channels of a session, and no other, are its own.
LEMMA ChannelFacts ==
    ASSUME NEW id \in Sessions
    PROVE  /\ RTP(id) \in Channels /\ RTCP(id) \in Channels
           /\ RTP(id) # RTCP(id)
           /\ \A x \in Sessions : x # id =>
                  /\ RTP(x) # RTP(id) /\ RTP(x) # RTCP(id)
                  /\ RTCP(x) # RTP(id) /\ RTCP(x) # RTCP(id)
           /\ \A c \in Channels : \E x \in Sessions : c = RTP(x) \/ c = RTCP(x)
BY DEF Channels, Kinds, RTP, RTCP

\* A session's fields are of their types.
LEMMA SessionTypes ==
    ASSUME NEW sv \in Fields, NEW id \in Sessions
    PROVE  LET session == sv.session[id]
           IN  /\ session \in SessionFields
               /\ session.exists \in BOOLEAN /\ session.token \in BOOLEAN
               /\ session.socket \in Sockets \union {NoSocket}
               /\ session.interleaved \in BOOLEAN
               /\ session.rtcp \in BOOLEAN /\ session.playing \in BOOLEAN
               /\ session.sink \in Sinks /\ session.left \in Leftovers
<1>1. sv.session[id] \in SessionFields
  BY FieldTypes
<1> QED BY <1>1 DEF SessionFields

\* A new state for one session, and for what is asked of the replicator.
Updated(sv, id, new, replicas, asked, error) ==
    [sv EXCEPT !.session = [sv.session EXCEPT ![id] = new],
               !.replicas = replicas, !.asked = asked, !.internalError = error]

\* What is done to a session leaves the wires alone.
IsUpdated(sv, t, id, new, replicas, asked, error) ==
    /\ t \in Fields /\ Wired(t) /\ SameWires(sv, t)
    /\ t.streamingOn = sv.streamingOn
    /\ t.session[id] = new
    /\ \A x \in Sessions \ {id} : t.session[x] = sv.session[x]
    /\ t.replicas = replicas /\ t.asked = asked /\ t.internalError = error

\* Session id sends over no socket.
Unplugged(sv, id) ==
    sv.interface[RTP(id)] = NoSocket /\ sv.interface[RTCP(id)] = NoSocket

\* That holds for the new state.
LEMMA UpdateSession ==
    ASSUME NEW sv \in Fields, Wired(sv), NEW id \in Sessions,
           NEW new \in SessionFields, NEW replicas \in SUBSET Sessions,
           NEW asked \in SUBSET Sessions, NEW error \in BOOLEAN,
           new.interleaved = sv.session[id].interleaved \/ Unplugged(sv, id)
    PROVE  IsUpdated(sv, Updated(sv, id, new, replicas, asked, error),
                     id, new, replicas, asked, error)
<1> DEFINE session == [sv.session EXCEPT ![id] = new]
           t == [sv EXCEPT !.session = session, !.replicas = replicas,
                           !.asked = asked, !.internalError = error]
<1>1. /\ session \in [Sessions -> SessionFields] /\ session[id] = new
      /\ \A x \in Sessions \ {id} : session[x] = sv.session[x]
  BY FieldTypes
<1> HIDE DEF session
<1>2. /\ t \in Fields /\ SameWires(sv, t) /\ t.streamingOn = sv.streamingOn
      /\ t.session = session /\ t.replicas = replicas /\ t.asked = asked
      /\ t.internalError = error
  BY <1>1 DEF Fields, SameWires
<1> HIDE DEF t
<1>3. Plugged(t)
  <2> SUFFICES ASSUME NEW s \in Sockets, NEW c \in Channels
               PROVE  /\ c \in t.channels[s] => t.interface[c] = s
                      /\ t.interface[c] = s /\ t.session[c[1]].interleaved =>
                             c \in t.channels[s]
    BY DEF Plugged
  <2>1. /\ c \in sv.channels[s] => sv.interface[c] = s
        /\ sv.interface[c] = s /\ sv.session[c[1]].interleaved =>
               c \in sv.channels[s]
    BY DEF Wired, Plugged
  <2>2. t.channels[s] = sv.channels[s] /\ t.interface[c] = sv.interface[c]
    BY <1>2 DEF SameWires
  <2>3. c[1] \in Sessions
    BY DEF Channels
  <2>4. CASE c[1] # id
    BY <1>1, <1>2, <2>1, <2>2, <2>3, <2>4
  <2>5. CASE c[1] = id
    <3>1. c = RTP(id) \/ c = RTCP(id)
      BY <2>5 DEF Channels, Kinds, RTP, RTCP
    <3>2. CASE Unplugged(sv, id)
      BY <2>1, <2>2, <3>1, <3>2, NoSockets DEF Unplugged
    <3>3. CASE new.interleaved = sv.session[id].interleaved
      BY <1>1, <1>2, <2>1, <2>2, <2>5, <3>3
    <3> QED BY <3>2, <3>3
  <2> QED BY <2>4, <2>5
<1>4. Updated(sv, id, new, replicas, asked, error) = t
  BY DEF Updated, t, session
<1>5. Wired(t)
  <2>1. \A x \in Sockets : HasDescriptor(t, x) <=> HasDescriptor(sv, x)
    BY <1>2 DEF SameWires, HasDescriptor
  <2> QED BY <1>2, <1>3, <2>1 DEF Wired, Attached, SameWires
<1> QED BY <1>1, <1>2, <1>4, <1>5 DEF IsUpdated

\* With the same wires every connection hears what it heard.
LEMMA SameWiresHear ==
    ASSUME NEW sv, NEW t, SameWires(sv, t)
    PROVE  /\ StillHeard(sv, t) /\ SameLoop(sv, t)
           /\ \A id : Unplugged(sv, id) => Unplugged(t, id)
BY DEF SameWires, StillHeard, HeardBut, Listens, HasDescriptor, SameLoop, Unplugged

\* One step after another silences whom one of them does.
LEMMA HeardThrough ==
    ASSUME NEW sv, NEW t, NEW u, NEW first, NEW second,
           HeardBut(sv, t, first), HeardBut(t, u, second)
    PROVE  HeardBut(sv, u, first \union second)
BY DEF HeardBut

\* The socket of a session's stream.
SocketOf(sv, id) ==
    IF sv.session[id].token THEN {sv.session[id].socket} ELSE {}

\* What happens to one session leaves the others sound, also if it costs them
\* interfaces.
LEMMA OthersSound ==
    ASSUME NEW sv \in Fields, NEW t \in Fields, Wired(t), ~t.internalError,
           NEW id \in Sessions,
           \A x \in Sessions \ {id} : StreamOK(sv, x) /\ SinkOK(sv, x),
           t.connections = sv.connections,
           \A x \in Sessions \ {id} : /\ t.session[x] = sv.session[x]
                                      /\ x \in t.replicas <=> x \in sv.replicas
                                      /\ x \in t.asked <=> x \in sv.asked
                                      /\ t.interface[RTP(x)] \in {sv.interface[RTP(x)], NoSocket}
                                      /\ t.interface[RTCP(x)] \in {sv.interface[RTCP(x)], NoSocket},
           StreamOK(t, id), SinkOK(t, id)
    PROVE  Sound(t)
<1>1. ASSUME NEW x \in Sessions \ {id}
      PROVE  StreamOK(t, x) /\ SinkOK(t, x)
  <2>1. StreamOK(sv, x) /\ SinkOK(sv, x)
    OBVIOUS
  <2>2. StreamOK(t, x)
    BY <2>1 DEF StreamOK
  <2>3. SinkOK(t, x)
    BY <2>1 DEF SinkOK
  <2> QED BY <2>2, <2>3
<1> QED BY <1>1 DEF Sound

\* Losing interfaces does no harm.
LEMMA UnpluggedSound ==
    ASSUME NEW sv, Sound(sv), NEW t \in Fields, Wired(t), SameSessions(sv, t),
           \A c \in Channels : t.interface[c] \in {sv.interface[c], NoSocket}
    PROVE  Sound(t) /\ SameStreams(sv, t)
<1>1. ASSUME NEW x \in Sessions
      PROVE  StreamOK(t, x) /\ SinkOK(t, x)
  <2>1. StreamOK(sv, x) /\ SinkOK(sv, x)
    BY DEF Sound
  <2>2. RTP(x) \in Channels /\ RTCP(x) \in Channels
    BY ChannelFacts
  <2>3. StreamOK(t, x)
    BY <2>1, <2>2 DEF StreamOK, SameSessions
  <2>4. SinkOK(t, x)
    BY <2>1 DEF SinkOK, SameSessions
  <2> QED BY <2>3, <2>4
<1> QED BY <1>1 DEF Sound, SameSessions, SameStreams, SameStream

\* StreamState::pause: nothing is sent, nothing is waited for.
LEMMA PauseSound ==
    ASSUME NEW sv, Sound(sv), NEW id \in Sessions
    PROVE  LET t == Pause(sv, id)
           IN  /\ Sound(t) /\ SameWires(sv, t) /\ SameStreams(sv, t)
               /\ t.streamingOn = sv.streamingOn
<1> DEFINE old == sv.session[id]
           new == [old EXCEPT !.sink = "stopped", !.left = 0, !.playing = FALSE]
           asked == sv.asked \ {id}
           replicas == sv.replicas
           t == Updated(sv, id, new, replicas, asked, sv.internalError)
<1>1. sv \in Fields /\ Wired(sv) /\ StreamOK(sv, id) /\ ~sv.internalError
  BY DEF Sound
<1>2. old \in SessionFields /\ sv.session \in [Sessions -> SessionFields]
  BY <1>1, FieldTypes
<1>3. 0 \in Leftovers
  BY DEF Leftovers
<1>4. Pause(sv, id) = t
  BY <1>1, <1>2 DEF Pause, StopPlaying, Updated, Fields
<1> HIDE DEF old
<1>5. /\ new \in SessionFields /\ new.sink = "stopped" /\ new.left = 0 /\ ~new.playing
      /\ new.exists = old.exists /\ new.token = old.token
      /\ new.socket = old.socket /\ new.interleaved = old.interleaved
      /\ new.rtcp = old.rtcp
  BY <1>2, <1>3 DEF SessionFields, Sinks
<1>6. /\ replicas \in SUBSET Sessions /\ asked \in SUBSET Sessions
      /\ sv.internalError \in BOOLEAN
  BY <1>1, FieldTypes
<1> HIDE DEF new, asked, replicas
<1>7. /\ t \in Fields /\ Wired(t) /\ SameWires(sv, t)
      /\ t.streamingOn = sv.streamingOn /\ t.session[id] = new
      /\ \A x \in Sessions \ {id} : t.session[x] = sv.session[x]
      /\ t.replicas = replicas /\ t.asked = asked
      /\ t.internalError = sv.internalError
  <2>1. IsUpdated(sv, t, id, new, replicas, asked, sv.internalError)
    BY <1>1, <1>5, <1>6, UpdateSession DEF old
  <2> HIDE DEF t
  <2> QED BY <2>1 DEF IsUpdated
<1> HIDE DEF t
<1>8. StreamOK(t, id) /\ SinkOK(t, id)
  <2>1. StreamOK(t, id)
    BY <1>1, <1>5, <1>7 DEF StreamOK, SameWires, old, replicas
  <2>2. SinkOK(t, id)
    BY <1>5, <1>7 DEF SinkOK, asked
  <2> QED BY <2>1, <2>2
<1>9. Sound(t)
  BY <1>1, <1>7, <1>8, OthersSound DEF Sound, SameWires, asked, replicas
<1>10. SameStreams(sv, t)
  BY <1>5, <1>7 DEF SameStreams, SameStream, old
<1> QED BY <1>4, <1>7, <1>9, <1>10

\* StreamState::endPlaying: no interface uses the socket any more; only what
\* the connection on that socket hears may change.
LEMMA EndPlayingSound ==
    ASSUME NEW sv, Sound(sv), NEW id \in Sessions
    PROVE  LET t == EndPlaying(sv, id)
           IN  /\ Sound(t) /\ SameSessions(sv, t) /\ SameLoop(sv, t)
               /\ Unplugged(t, id)
               /\ HeardBut(sv, t, {sv.session[id].socket})
<1> DEFINE t == EndPlaying(sv, id)
           s == sv.session[id].socket
           a == SetHandler(sv, s, NoSocket)
           b == RemoveStreamSocket(a, RTP(id), s)
           c == RemoveStreamSocket(b, RTCP(id), s)
<1>1. sv \in Fields /\ Wired(sv) /\ StreamOK(sv, id)
  BY DEF Sound
<1>2. s \in Sockets \union {NoSocket}
  BY <1>1, SessionTypes
<1>3. RTP(id) \in Channels /\ RTCP(id) \in Channels /\ RTP(id) # RTCP(id)
  BY ChannelFacts
<1>4. CASE s = NoSocket
  <2>1. t = sv
    BY <1>4 DEF EndPlaying
  <2>2. Unplugged(sv, id)
    BY <1>1, <1>4 DEF StreamOK, Unplugged
  <2> HIDE DEF t, s
  <2>3. SameSessions(sv, sv) /\ SameLoop(sv, sv) /\ HeardBut(sv, sv, {s})
    BY DEF SameSessions, SameLoop, HeardBut
  <2> QED BY <2>1, <2>2, <2>3 DEF t, s
<1>5. CASE s # NoSocket
  <2>1. t = IF sv.session[id].rtcp THEN c ELSE b
    BY <1>5 DEF EndPlaying, ClearHandler
  <2>2. /\ sv.interface[RTP(id)] \in {NoSocket, s}
        /\ sv.interface[RTCP(id)] \in {NoSocket, s}
        /\ sv.interface[RTCP(id)] # NoSocket => sv.session[id].rtcp
    BY <1>1 DEF StreamOK
  <2> HIDE DEF s, t
  <2>3. s \in Sockets
    BY <1>2, <1>5
  <2>4. /\ a \in Fields /\ Wired(a) /\ SameSessions(sv, a)
        /\ a.readLoop = sv.readLoop /\ a.interface = sv.interface
        /\ HeardBut(sv, a, {s})
    BY <1>1, <2>3, HandlerWired
  <2> HIDE DEF a
  <2>5. /\ b \in Fields /\ Wired(b) /\ SameSessions(a, b)
        /\ b.readLoop = a.readLoop
        /\ \A e \in Channels : b.interface[e] =
               IF e = RTP(id) /\ a.interface[e] = s THEN NoSocket ELSE a.interface[e]
        /\ StillHeard(a, b)
    BY <1>3, <2>3, <2>4, RemoveWired
  <2> HIDE DEF b
  <2>6. /\ c \in Fields /\ Wired(c) /\ SameSessions(b, c)
        /\ c.readLoop = b.readLoop
        /\ \A e \in Channels : c.interface[e] =
               IF e = RTCP(id) /\ b.interface[e] = s THEN NoSocket ELSE b.interface[e]
        /\ StillHeard(b, c)
    BY <1>3, <2>3, <2>5, RemoveWired
  <2> HIDE DEF c
  <2>7. t \in Fields /\ Wired(t) /\ SameSessions(sv, t) /\ SameLoop(sv, t)
    BY <2>1, <2>4, <2>5, <2>6 DEF SameSessions, SameLoop
  <2>8. \A e \in Channels : t.interface[e] \in {sv.interface[e], NoSocket}
    BY <2>1, <2>4, <2>5, <2>6
  <2>9. Unplugged(t, id)
    BY <1>3, <2>1, <2>2, <2>4, <2>5, <2>6 DEF Unplugged
  <2>10. HeardBut(sv, t, {s})
    BY <2>1, <2>4, <2>5, <2>6 DEF StillHeard, HeardBut
  <2>11. Sound(t)
    BY <2>7, <2>8, UnpluggedSound
  <2> QED BY <2>7, <2>9, <2>10, <2>11 DEF t, s
<1> QED BY <1>4, <1>5

\* What a descriptor waits for is no wire.
LEMMA AwaitingSound ==
    ASSUME NEW sv, Sound(sv), NEW awaiting \in [Sockets -> SUBSET Channels]
    PROVE  LET t == [sv EXCEPT !.awaiting = awaiting]
           IN  /\ Sound(t) /\ SameWires(sv, t) /\ t.streamingOn = sv.streamingOn
               /\ t.session = sv.session
<1> DEFINE t == [sv EXCEPT !.awaiting = awaiting]
<1>1. sv \in Fields /\ Wired(sv) /\ ~sv.internalError
  BY DEF Sound
<1>2. /\ t \in Fields /\ SameWires(sv, t) /\ t.streamingOn = sv.streamingOn
      /\ t.session = sv.session /\ t.replicas = sv.replicas /\ t.asked = sv.asked
      /\ t.internalError = sv.internalError
  BY <1>1 DEF Fields, SameWires
<1> HIDE DEF t
<1>3. Wired(t)
  <2>1. \A x \in Sockets : HasDescriptor(t, x) <=> HasDescriptor(sv, x)
    BY <1>2 DEF SameWires, HasDescriptor
  <2> QED BY <1>1, <1>2, <2>1 DEF Wired, Plugged, Attached, SameWires
<1>4. \A x \in Sessions : StreamOK(t, x) /\ SinkOK(t, x)
  BY <1>2 DEF Sound, StreamOK, SinkOK, SameWires
<1> QED BY <1>1, <1>2, <1>3, <1>4 DEF Sound, t

\* ~StreamState, once its interfaces use no socket.
LEMMA ReclaimSound ==
    ASSUME NEW sv, Sound(sv), NEW id \in Sessions,
           Unplugged(sv, id)
    PROVE  LET t == Reclaim(sv, id)
           IN  /\ Sound(t) /\ SameWires(sv, t) /\ t.streamingOn = sv.streamingOn
               /\ \A x \in Sessions \ {id} : SameStream(sv, t, x)
               /\ ~t.session[id].token
               /\ t.session[id].exists = sv.session[id].exists
               /\ t.session[id].socket = sv.session[id].socket
<1> DEFINE old == sv.session[id]
           new == [old EXCEPT !.sink = "stopped", !.left = 0, !.token = FALSE,
                              !.rtcp = FALSE, !.playing = FALSE]
           asked == sv.asked \ {id}
           replicas == sv.replicas \ {id}
           awaiting == [s \in Sockets |-> sv.awaiting[s] \ {RTCP(id)}]
           t == Updated(sv, id, new, replicas, asked, sv.internalError)
           u == [t EXCEPT !.awaiting = awaiting]
<1>1. sv \in Fields /\ Wired(sv) /\ StreamOK(sv, id) /\ ~sv.internalError
  BY DEF Sound
<1>2. old \in SessionFields /\ sv.session \in [Sessions -> SessionFields]
  BY <1>1, FieldTypes
<1>3. 0 \in Leftovers
  BY DEF Leftovers
<1>4. Reclaim(sv, id) = u
  BY <1>1, <1>2 DEF Reclaim, StopPlaying, Updated, Fields
<1> HIDE DEF old
<1>5. /\ new \in SessionFields /\ new.sink = "stopped" /\ new.left = 0 /\ ~new.playing
      /\ new.exists = old.exists /\ ~new.token /\ new.socket = old.socket
      /\ new.interleaved = old.interleaved
  BY <1>2, <1>3 DEF SessionFields, Sinks
<1>6. /\ replicas \in SUBSET Sessions /\ asked \in SUBSET Sessions
      /\ awaiting \in [Sockets -> SUBSET Channels]
      /\ sv.internalError \in BOOLEAN
  BY <1>1, FieldTypes
<1> HIDE DEF new, asked, replicas, awaiting
<1>7. /\ t \in Fields /\ Wired(t) /\ SameWires(sv, t)
      /\ t.streamingOn = sv.streamingOn /\ t.session[id] = new
      /\ \A x \in Sessions \ {id} : t.session[x] = sv.session[x]
      /\ t.replicas = replicas /\ t.asked = asked
      /\ t.internalError = sv.internalError
  <2>1. IsUpdated(sv, t, id, new, replicas, asked, sv.internalError)
    BY <1>1, <1>5, <1>6, UpdateSession DEF old
  <2> HIDE DEF t
  <2> QED BY <2>1 DEF IsUpdated
<1> HIDE DEF t
<1>8. StreamOK(t, id) /\ SinkOK(t, id)
  <2>1. StreamOK(t, id)
    BY <1>5, <1>7 DEF StreamOK, SameWires, Unplugged, replicas
  <2>2. SinkOK(t, id)
    BY <1>5, <1>7 DEF SinkOK, asked
  <2> QED BY <2>1, <2>2
<1>9. Sound(t)
  BY <1>1, <1>7, <1>8, OthersSound DEF Sound, SameWires, asked, replicas
<1>10. Sound(u) /\ SameWires(t, u) /\ u.streamingOn = t.streamingOn
       /\ u.session = t.session
  BY <1>6, <1>9, AwaitingSound
<1> HIDE DEF u
<1>11. SameWires(sv, u)
  BY <1>7, <1>10 DEF SameWires
<1> QED BY <1>4, <1>5, <1>7, <1>10, <1>11 DEF SameStream, old

\* OnDemandServerMediaSubsession::deleteStream: there is no stream any more, and
\* what costs a connection its hearing is only a stream over its socket.
LEMMA DeleteStreamSound ==
    ASSUME NEW sv, Sound(sv), NEW id \in Sessions
    PROVE  LET t == DeleteStream(sv, id)
           IN  /\ Sound(t) /\ SameLoop(sv, t) /\ t.streamingOn = sv.streamingOn
               /\ \A x \in Sessions \ {id} : SameStream(sv, t, x)
               /\ ~t.session[id].token /\ Unplugged(t, id)
               /\ t.session[id].exists = sv.session[id].exists
               /\ t.session[id].socket = sv.session[id].socket
               /\ HeardBut(sv, t, SocketOf(sv, id))
<1> DEFINE t == DeleteStream(sv, id)
           a == EndPlaying(sv, id)
           b == Reclaim(a, id)
<1>1. CASE ~sv.session[id].token
  <2>1. t = sv
    BY <1>1 DEF DeleteStream
  <2>2. Unplugged(sv, id)
    BY <1>1 DEF Sound, StreamOK, Unplugged
  <2> HIDE DEF t
  <2> QED BY <1>1, <2>1, <2>2 DEF SameLoop, SameStream, HeardBut, t
<1>2. CASE sv.session[id].token
  <2>1. /\ Sound(a) /\ SameSessions(sv, a) /\ SameLoop(sv, a)
        /\ Unplugged(a, id) /\ HeardBut(sv, a, SocketOf(sv, id))
    BY <1>2, EndPlayingSound DEF SocketOf
  <2> HIDE DEF a
  <2>2. /\ Sound(b) /\ SameWires(a, b) /\ b.streamingOn = a.streamingOn
        /\ \A x \in Sessions \ {id} : SameStream(a, b, x)
        /\ ~b.session[id].token
        /\ b.session[id].exists = a.session[id].exists
        /\ b.session[id].socket = a.session[id].socket
    BY <2>1, ReclaimSound
  <2>3. t = b
    BY <1>2 DEF DeleteStream, a
  <2> HIDE DEF b, t
  <2>4. HeardBut(sv, b, SocketOf(sv, id)) /\ Unplugged(b, id)
    BY <2>1, <2>2, SameWiresHear DEF StillHeard, HeardBut
  <2>5. SameLoop(sv, b) /\ b.streamingOn = sv.streamingOn
    BY <2>1, <2>2 DEF SameLoop, SameSessions, SameWires
  <2>6. /\ \A x \in Sessions \ {id} : SameStream(sv, b, x)
        /\ b.session[id].exists = sv.session[id].exists
        /\ b.session[id].socket = sv.session[id].socket
    BY <2>1, <2>2 DEF SameStream, SameSessions
  <2> QED BY <2>2, <2>3, <2>4, <2>5, <2>6 DEF t
<1> QED BY <1>1, <1>2

\* A session that has no stream is deleted.
LEMMA ForgetSession ==
    ASSUME NEW sv, Sound(sv), NEW id \in Sessions, ~sv.session[id].token
    PROVE  LET t == [sv EXCEPT !.session[id] = NoSession]
           IN  /\ Sound(t) /\ SameWires(sv, t) /\ t.streamingOn = sv.streamingOn
               /\ \A x \in Sessions \ {id} : SameStream(sv, t, x)
               /\ t.session[id] = NoSession
<1> DEFINE new == NoSession
           replicas == sv.replicas
           asked == sv.asked
           t == Updated(sv, id, new, replicas, asked, sv.internalError)
<1>1. /\ sv \in Fields /\ Wired(sv) /\ StreamOK(sv, id) /\ SinkOK(sv, id)
      /\ ~sv.internalError
  BY DEF Sound
<1>2. [sv EXCEPT !.session[id] = NoSession] = t
  BY <1>1 DEF Updated, Fields
<1> USE DEF Unplugged
<1>3. /\ new \in SessionFields /\ ~new.token /\ ~new.playing
      /\ new.sink = "stopped" /\ new.left = 0
  BY DEF NoSession, SessionFields, Sinks, Leftovers
<1>4. /\ replicas \in SUBSET Sessions /\ asked \in SUBSET Sessions
      /\ sv.internalError \in BOOLEAN
  BY <1>1, FieldTypes
<1> HIDE DEF new, replicas, asked
<1>5. /\ t \in Fields /\ Wired(t) /\ SameWires(sv, t)
      /\ t.streamingOn = sv.streamingOn /\ t.session[id] = new
      /\ \A x \in Sessions \ {id} : t.session[x] = sv.session[x]
      /\ t.replicas = replicas /\ t.asked = asked /\ t.internalError = sv.internalError
  <2>1. IsUpdated(sv, t, id, new, replicas, asked, sv.internalError)
    BY <1>1, <1>3, <1>4, UpdateSession DEF StreamOK
  <2> HIDE DEF t
  <2> QED BY <2>1 DEF IsUpdated
<1> HIDE DEF t
<1>6. StreamOK(t, id)
  BY <1>1, <1>3, <1>5 DEF StreamOK, SameWires, replicas
<1>7. SinkOK(t, id)
  BY <1>1, <1>3, <1>5 DEF StreamOK, SinkOK, asked
<1>8. Sound(t)
  BY <1>1, <1>5, <1>6, <1>7, OthersSound DEF Sound, SameWires, asked, replicas
<1> QED BY <1>2, <1>5, <1>8 DEF SameStream, new

\* deleteStreamByTrack.
LEMMA DeleteStreamByTrackSound ==
    ASSUME NEW sv, Sound(sv), NEW id \in Sessions
    PROVE  LET t == DeleteStreamByTrack(sv, id)
           IN  /\ Sound(t) /\ SameLoop(sv, t) /\ t.streamingOn = sv.streamingOn
               /\ \A x \in Sessions \ {id} : SameStream(sv, t, x)
               /\ t.session[id] = NoSession
               /\ HeardBut(sv, t, SocketOf(sv, id))
<1> DEFINE a == DeleteStream(sv, id)
           t == [a EXCEPT !.session[id] = NoSession]
<1>1. /\ Sound(a) /\ SameLoop(sv, a) /\ a.streamingOn = sv.streamingOn
      /\ \A x \in Sessions \ {id} : SameStream(sv, a, x)
      /\ ~a.session[id].token
      /\ HeardBut(sv, a, SocketOf(sv, id))
  BY DeleteStreamSound
<1> HIDE DEF a
<1>2. /\ Sound(t) /\ SameWires(a, t) /\ t.streamingOn = a.streamingOn
      /\ \A x \in Sessions \ {id} : SameStream(a, t, x)
      /\ t.session[id] = NoSession
  BY <1>1, ForgetSession
<1>3. DeleteStreamByTrack(sv, id) = t
  BY DEF DeleteStreamByTrack, a
<1> HIDE DEF t
<1>4. HeardBut(sv, t, SocketOf(sv, id))
  BY <1>1, <1>2, SameWiresHear DEF StillHeard, HeardBut
<1>5. SameLoop(sv, t)
  BY <1>1, <1>2 DEF SameLoop, SameWires
<1>6. \A x \in Sessions \ {id} : SameStream(sv, t, x)
  BY <1>1, <1>2 DEF SameStream
<1> QED BY <1>1, <1>2, <1>3, <1>4, <1>5, <1>6

\* The table is no wire.
LEMMA TableSound ==
    ASSUME NEW sv, Sound(sv), NEW table \in [Sockets -> Lists(Sessions)]
    PROVE  LET t == [sv EXCEPT !.streamingOn = table]
           IN  /\ Sound(t) /\ SameWires(sv, t) /\ t.streamingOn = table
               /\ t.session = sv.session
<1> DEFINE t == [sv EXCEPT !.streamingOn = table]
<1>1. sv \in Fields /\ Wired(sv) /\ ~sv.internalError
  BY DEF Sound
<1>2. /\ t \in Fields /\ SameWires(sv, t) /\ t.streamingOn = table
      /\ t.session = sv.session /\ t.replicas = sv.replicas /\ t.asked = sv.asked
      /\ t.internalError = sv.internalError
  BY <1>1 DEF Fields, SameWires
<1> HIDE DEF t
<1>3. Wired(t)
  <2>1. \A x \in Sockets : HasDescriptor(t, x) <=> HasDescriptor(sv, x)
    BY <1>2 DEF SameWires, HasDescriptor
  <2> QED BY <1>1, <1>2, <2>1 DEF Wired, Plugged, Attached, SameWires
<1>4. \A x \in Sessions : StreamOK(t, x)
  BY <1>2 DEF Sound, StreamOK, SameWires
<1>5. \A x \in Sessions : SinkOK(t, x)
  BY <1>2 DEF Sound, SinkOK
<1> QED BY <1>1, <1>2, <1>3, <1>4, <1>5 DEF Sound, t

\* unnoteTCPStreamingOnSocket takes a session out of one list.
LEMMA UnnoteSound ==
    ASSUME NEW sv, Sound(sv), NEW s \in Sockets \union {NoSocket}, NEW id \in Sessions
    PROVE  LET t == Unnote(sv, s, id)
           IN  /\ Sound(t) /\ SameWires(sv, t) /\ t.session = sv.session
               /\ \A x \in Sockets :
                      Range(t.streamingOn[x]) =
                          IF x = s THEN Range(sv.streamingOn[x]) \ {id}
                          ELSE Range(sv.streamingOn[x])
<1>1. NoSocket \notin Sockets /\ sv.streamingOn \in [Sockets -> Lists(Sessions)]
  BY FieldTypes, NoSocketAssumption DEF Sound
<1>2. CASE s = NoSocket
  BY <1>1, <1>2 DEF Unnote, SameWires
<1>3. CASE s # NoSocket
  <2> DEFINE list == RemoveFirst(sv.streamingOn[s], id)
             table == [sv.streamingOn EXCEPT ![s] = list]
             t == [sv EXCEPT !.streamingOn = table]
  <2>1. s \in Sockets
    BY <1>3
  <2>2. sv.streamingOn[s] \in Lists(Sessions)
    BY <1>1, <2>1
  <2>3. list \in Lists(Sessions) /\ Range(list) = Range(sv.streamingOn[s]) \ {id}
    BY <2>2, RemoveFromList
  <2>4. Unnote(sv, s, id) = t
    BY <1>3 DEF Unnote
  <2> HIDE DEF list
  <2>5. /\ table \in [Sockets -> Lists(Sessions)] /\ table[s] = list
        /\ \A x \in Sockets : x # s => table[x] = sv.streamingOn[x]
    BY <1>1, <2>1, <2>3
  <2> HIDE DEF table
  <2>6. /\ Sound(t) /\ SameWires(sv, t) /\ t.streamingOn = table
        /\ t.session = sv.session
    BY <2>5, TableSound
  <2> HIDE DEF t
  <2> QED BY <2>3, <2>4, <2>5, <2>6
<1> QED BY <1>2, <1>3

\* A stream that was taken out of the table and deleted: the table is right
\* without it.
LEMMA UntableStream ==
    ASSUME NEW sv, Tabled(sv), NEW id \in Sessions, NEW t, ~t.session[id].token,
           \A x \in Sessions \ {id} : SameStream(sv, t, x),
           \A x \in Sockets :
               Range(t.streamingOn[x]) = IF x = sv.session[id].socket
                                         THEN Range(sv.streamingOn[x]) \ {id}
                                         ELSE Range(sv.streamingOn[x])
    PROVE  Tabled(t)
<1> SUFFICES ASSUME NEW s \in Sockets
             PROVE  Range(t.streamingOn[s]) = Over(t, s)
  BY DEF Tabled
<1>1. Range(sv.streamingOn[s]) = Over(sv, s)
  BY DEF Tabled
<1>2. Over(t, s) = Over(sv, s) \ {id}
  BY DEF Over, SameStream
<1>3. s # sv.session[id].socket => id \notin Over(sv, s)
  BY DEF Over
<1> QED BY <1>1, <1>2, <1>3

\* ~RTSPClientSession.
LEMMA DeleteSessionSound ==
    ASSUME NEW sv, Sound(sv), Tabled(sv), NEW id \in Sessions
    PROVE  LET t == DeleteSession(sv, id)
           IN  /\ Sound(t) /\ Tabled(t) /\ SameLoop(sv, t)
               /\ \A x \in Sessions \ {id} : SameStream(sv, t, x)
               /\ t.session[id] = NoSession
               /\ HeardBut(sv, t, SocketOf(sv, id))
<1> DEFINE s == sv.session[id].socket
           a == Unnote(sv, s, id)
           b == DeleteStream(a, id)
           t == [b EXCEPT !.session[id] = NoSession]
<1>1. s \in Sockets \union {NoSocket}
  BY SessionTypes DEF Sound
<1> HIDE DEF s
<1>2. /\ Sound(a) /\ SameWires(sv, a) /\ a.session = sv.session
      /\ \A x \in Sockets : Range(a.streamingOn[x]) =
                                IF x = s THEN Range(sv.streamingOn[x]) \ {id}
                                ELSE Range(sv.streamingOn[x])
  BY <1>1, UnnoteSound
<1> HIDE DEF a
<1>3. /\ Sound(b) /\ SameLoop(a, b) /\ b.streamingOn = a.streamingOn
      /\ \A x \in Sessions \ {id} : SameStream(a, b, x)
      /\ ~b.session[id].token
      /\ HeardBut(a, b, SocketOf(a, id))
  BY <1>2, DeleteStreamSound
<1> HIDE DEF b
<1>4. /\ Sound(t) /\ SameWires(b, t) /\ t.streamingOn = b.streamingOn
      /\ \A x \in Sessions \ {id} : SameStream(b, t, x)
      /\ t.session[id] = NoSession
  BY <1>3, ForgetSession
<1>5. DeleteSession(sv, id) = t
  BY DEF DeleteSession, a, b, s
<1> HIDE DEF t
<1>6. SameLoop(sv, t)
  BY <1>2, <1>3, <1>4 DEF SameLoop, SameWires
<1>7. HeardBut(sv, t, SocketOf(sv, id))
  <2>1. SocketOf(a, id) = SocketOf(sv, id)
    BY <1>2 DEF SocketOf
  <2> QED BY <1>2, <1>3, <1>4, <2>1, SameWiresHear DEF StillHeard, HeardBut
<1>8. \A x \in Sessions \ {id} : SameStream(sv, t, x)
  BY <1>2, <1>3, <1>4 DEF SameStream
<1>9. Tabled(t)
  <2>2. ~t.session[id].token
    BY <1>4 DEF NoSession
  <2>3. t.streamingOn = a.streamingOn
    BY <1>3, <1>4
  <2> QED BY <1>2, <1>8, <2>2, <2>3, UntableStream DEF s
<1> QED BY <1>4, <1>5, <1>6, <1>7, <1>8, <1>9

\* handleCmd_SETUP for a stream that has been set up before.
LEMMA StopOldStreamSound ==
    ASSUME NEW sv, Sound(sv), Tabled(sv), NEW id \in Sessions
    PROVE  LET t == StopOldStream(sv, id)
           IN  /\ Sound(t) /\ Tabled(t) /\ SameLoop(sv, t)
               /\ ~t.session[id].token /\ Unplugged(t, id)
               /\ \A x \in Sessions \ {id} : SameStream(sv, t, x)
               /\ t.session[id].exists = sv.session[id].exists
               /\ t.session[id].socket = sv.session[id].socket
               /\ HeardBut(sv, t, SocketOf(sv, id))
<1>1. CASE ~sv.session[id].token
  <2>1. StopOldStream(sv, id) = sv
    BY <1>1 DEF StopOldStream
  <2>2. Unplugged(sv, id)
    BY <1>1 DEF Sound, StreamOK, Unplugged
  <2> QED BY <1>1, <2>1, <2>2 DEF SameLoop, SameStream, HeardBut
<1>2. CASE sv.session[id].token
  <2> DEFINE s == sv.session[id].socket
             p == Pause(sv, id)
             a == Unnote(p, s, id)
             t == DeleteStream(a, id)
  <2>1. s \in Sockets \union {NoSocket}
    BY SessionTypes DEF Sound
  <2>2. StopOldStream(sv, id) = t
    BY <1>2 DEF StopOldStream
  <2> HIDE DEF s
  <2>3. /\ Sound(p) /\ SameWires(sv, p) /\ SameStreams(sv, p)
        /\ p.streamingOn = sv.streamingOn
    BY PauseSound
  <2> HIDE DEF p
  <2>4. /\ Sound(a) /\ SameWires(p, a) /\ a.session = p.session
        /\ \A x \in Sockets : Range(a.streamingOn[x]) =
                                  IF x = s THEN Range(p.streamingOn[x]) \ {id}
                                  ELSE Range(p.streamingOn[x])
    BY <2>1, <2>3, UnnoteSound
  <2> HIDE DEF a
  <2>5. /\ Sound(t) /\ SameLoop(a, t) /\ t.streamingOn = a.streamingOn
        /\ \A x \in Sessions \ {id} : SameStream(a, t, x)
        /\ ~t.session[id].token /\ Unplugged(t, id)
        /\ t.session[id].exists = a.session[id].exists
        /\ t.session[id].socket = a.session[id].socket
        /\ HeardBut(a, t, SocketOf(a, id))
    BY <2>4, DeleteStreamSound
  <2> HIDE DEF t
  <2>6. SameLoop(sv, t)
    BY <2>3, <2>4, <2>5 DEF SameLoop, SameWires
  <2>7. /\ \A x \in Sessions \ {id} : SameStream(sv, t, x)
        /\ t.session[id].exists = sv.session[id].exists
        /\ t.session[id].socket = sv.session[id].socket
    BY <2>3, <2>4, <2>5 DEF SameStream, SameStreams
  <2>8. Tabled(t)
    BY <2>3, <2>4, <2>5, <2>7, UntableStream DEF s
  <2>9. HeardBut(sv, t, SocketOf(sv, id))
    <3>1. SocketOf(a, id) = SocketOf(sv, id)
      BY <2>3, <2>4 DEF SocketOf, SameStreams, SameStream
    <3> QED BY <2>3, <2>4, <2>5, <3>1, SameWiresHear DEF StillHeard, HeardBut
  <2> QED BY <2>2, <2>5, <2>6, <2>7, <2>8, <2>9
<1> QED BY <1>1, <1>2

\* createNewClientSessionWithId.
LEMMA CreateSessionSound ==
    ASSUME NEW sv, Sound(sv), NEW id \in Sessions
    PROVE  LET t == CreateSession(sv, id)
           IN  /\ Sound(t) /\ SameWires(sv, t) /\ t.streamingOn = sv.streamingOn
               /\ t.session[id].exists
               /\ \A x \in Sessions :
                      /\ t.session[x].token = sv.session[x].token
                      /\ t.session[x].socket = sv.session[x].socket
                      /\ t.session[x].interleaved = sv.session[x].interleaved
<1> DEFINE old == sv.session[id]
           new == [old EXCEPT !.exists = TRUE]
           replicas == sv.replicas
           asked == sv.asked
           t == Updated(sv, id, new, replicas, asked, sv.internalError)
<1>1. /\ sv \in Fields /\ Wired(sv) /\ StreamOK(sv, id) /\ SinkOK(sv, id)
      /\ ~sv.internalError
  BY DEF Sound
<1>2. old \in SessionFields /\ sv.session \in [Sessions -> SessionFields]
  BY <1>1, FieldTypes
<1>3. CreateSession(sv, id) = t
  BY <1>1, <1>2 DEF CreateSession, Updated, Fields
<1> HIDE DEF old
<1>4. /\ new \in SessionFields /\ new.exists /\ new.token = old.token
      /\ new.socket = old.socket /\ new.interleaved = old.interleaved
      /\ new.rtcp = old.rtcp
      /\ new.playing = old.playing /\ new.sink = old.sink /\ new.left = old.left
  BY <1>2 DEF SessionFields
<1>5. /\ replicas \in SUBSET Sessions /\ asked \in SUBSET Sessions
      /\ sv.internalError \in BOOLEAN
  BY <1>1, FieldTypes
<1> HIDE DEF new, asked, replicas
<1>6. IsUpdated(sv, t, id, new, replicas, asked, sv.internalError)
  BY <1>1, <1>4, <1>5, UpdateSession DEF old
<1> HIDE DEF t
<1>7. StreamOK(t, id)
  BY <1>1, <1>4, <1>6 DEF StreamOK, IsUpdated, SameWires, old, replicas
<1>8. SinkOK(t, id)
  BY <1>1, <1>4, <1>6 DEF SinkOK, IsUpdated, old, asked
<1>9. Sound(t)
  BY <1>1, <1>6, <1>7, <1>8, OthersSound DEF Sound, IsUpdated, SameWires, asked, replicas
<1> QED BY <1>3, <1>4, <1>6, <1>9 DEF IsUpdated, old

\* How packets are to go, and tcpSocketNum, are set.
WithTransport(sv, id, overTCP, s) ==
    [sv EXCEPT !.session = [sv.session EXCEPT ![id] =
                               [sv.session[id] EXCEPT !.interleaved = overTCP,
                                                      !.socket = s]]]

\* That may be done to a session without stream.
LEMMA TransportSound ==
    ASSUME NEW sv, Sound(sv), NEW id \in Sessions, NEW overTCP \in BOOLEAN,
           NEW s \in Sockets \union {NoSocket}, ~sv.session[id].token
    PROVE  LET t == WithTransport(sv, id, overTCP, s)
           IN  /\ Sound(t) /\ SameWires(sv, t) /\ t.streamingOn = sv.streamingOn
               /\ \A x \in Sessions \ {id} : SameStream(sv, t, x)
               /\ ~t.session[id].token /\ t.session[id].socket = s
               /\ t.session[id].interleaved = overTCP
               /\ t.session[id].exists = sv.session[id].exists
<1> DEFINE old == sv.session[id]
           new == [old EXCEPT !.interleaved = overTCP, !.socket = s]
           replicas == sv.replicas
           asked == sv.asked
           t == Updated(sv, id, new, replicas, asked, sv.internalError)
<1>1. /\ sv \in Fields /\ Wired(sv) /\ StreamOK(sv, id) /\ SinkOK(sv, id)
      /\ ~sv.internalError
  BY DEF Sound
<1>2. old \in SessionFields /\ sv.session \in [Sessions -> SessionFields]
  BY <1>1, FieldTypes
<1>3. WithTransport(sv, id, overTCP, s) = t
  BY <1>1, <1>2 DEF WithTransport, Updated, Fields
<1> HIDE DEF old
<1>4. /\ new \in SessionFields /\ new.exists = old.exists /\ new.token = old.token
      /\ new.socket = s /\ new.interleaved = overTCP /\ new.rtcp = old.rtcp
      /\ new.playing = old.playing /\ new.sink = old.sink /\ new.left = old.left
  BY <1>2 DEF SessionFields
<1>5. /\ replicas \in SUBSET Sessions /\ asked \in SUBSET Sessions
      /\ sv.internalError \in BOOLEAN
  BY <1>1, FieldTypes
<1>6. Unplugged(sv, id)
  BY <1>1 DEF StreamOK, Unplugged
<1> HIDE DEF new, asked, replicas
<1>7. IsUpdated(sv, t, id, new, replicas, asked, sv.internalError)
  BY <1>1, <1>4, <1>5, <1>6, UpdateSession
<1> HIDE DEF t
<1>8. StreamOK(t, id)
  BY <1>1, <1>4, <1>7 DEF StreamOK, IsUpdated, SameWires, old, replicas
<1>9. SinkOK(t, id)
  BY <1>1, <1>4, <1>7 DEF SinkOK, IsUpdated, old, asked
<1>10. Sound(t)
  BY <1>1, <1>7, <1>8, <1>9, OthersSound DEF Sound, IsUpdated, SameWires, asked, replicas
<1> QED BY <1>3, <1>4, <1>7, <1>10 DEF IsUpdated, SameStream, old

\* OnDemandServerMediaSubsession::getStreamParameters: the stream exists.
LEMMA GetStreamParametersSound ==
    ASSUME NEW sv, Sound(sv), NEW id \in Sessions, ~sv.session[id].token,
           sv.session[id].exists,
           sv.session[id].interleaved => sv.session[id].socket \in sv.connections
    PROVE  LET t == GetStreamParameters(sv, id)
           IN  /\ Sound(t) /\ SameWires(sv, t) /\ t.streamingOn = sv.streamingOn
               /\ \A x \in Sessions \ {id} : SameStream(sv, t, x)
               /\ t.session[id].token
               /\ t.session[id].socket = sv.session[id].socket
               /\ t.session[id].interleaved = sv.session[id].interleaved
<1> DEFINE old == sv.session[id]
           new == [old EXCEPT !.token = TRUE]
           replicas == sv.replicas \union {id}
           asked == sv.asked
           t == Updated(sv, id, new, replicas, asked, sv.internalError)
<1>1. /\ sv \in Fields /\ Wired(sv) /\ StreamOK(sv, id) /\ SinkOK(sv, id)
      /\ ~sv.internalError
  BY DEF Sound
<1>2. old \in SessionFields /\ sv.session \in [Sessions -> SessionFields]
  BY <1>1, FieldTypes
<1>3. GetStreamParameters(sv, id) = t
  BY <1>1, <1>2 DEF GetStreamParameters, Updated, Fields
<1> HIDE DEF old
<1>4. /\ new \in SessionFields /\ new.exists = old.exists /\ new.token
      /\ new.socket = old.socket /\ new.interleaved = old.interleaved
      /\ new.rtcp = old.rtcp
      /\ new.playing = old.playing /\ new.sink = old.sink /\ new.left = old.left
  BY <1>2 DEF SessionFields
<1>5. /\ replicas \in SUBSET Sessions /\ asked \in SUBSET Sessions
      /\ sv.internalError \in BOOLEAN
  BY <1>1, FieldTypes
<1> HIDE DEF new, asked, replicas
<1>6. IsUpdated(sv, t, id, new, replicas, asked, sv.internalError)
  BY <1>1, <1>4, <1>5, UpdateSession DEF old
<1> HIDE DEF t
<1>7. StreamOK(t, id)
  BY <1>1, <1>4, <1>6 DEF StreamOK, IsUpdated, SameWires, old, replicas
<1>8. SinkOK(t, id)
  BY <1>1, <1>4, <1>6 DEF SinkOK, IsUpdated, old, asked
<1>9. Sound(t)
  BY <1>1, <1>6, <1>7, <1>8, OthersSound DEF Sound, IsUpdated, SameWires, asked, replicas
<1> QED BY <1>3, <1>4, <1>6, <1>9 DEF IsUpdated, SameStream, old

\* handleCmd_SETUP: the old stream goes, the new one is in the table if it is
\* over TCP; otherwise it has the old one's socket.
LEMMA HandleSETUPSound ==
    ASSUME NEW sv, Sound(sv), Tabled(sv), NEW s \in Sockets, s \in sv.connections,
           NEW id \in Sessions, sv.session[id].exists, NEW overTCP \in BOOLEAN
    PROVE  LET t == HandleSETUP(sv, s, id, overTCP)
           IN  /\ Sound(t) /\ Tabled(t) /\ SameLoop(sv, t)
               /\ \A x \in Sessions \ {id} : SameStream(sv, t, x)
               /\ t.session[id].token /\ t.session[id].interleaved = overTCP
               /\ t.session[id].socket = IF overTCP THEN s ELSE sv.session[id].socket
               /\ HeardBut(sv, t, SocketOf(sv, id))
<1> DEFINE st == StopOldStream(sv, id)
           kept == st.session[id].socket
           old == WithTransport(st, id, overTCP, kept)
           a == WithTransport(st, id, overTCP, s)
           table == [a.streamingOn EXCEPT ![s] = <<id>> \o @]
           b == [a EXCEPT !.streamingOn = table]
           c == IF overTCP THEN b ELSE old
           t == GetStreamParameters(c, id)
<1>1. /\ Sound(st) /\ Tabled(st) /\ SameLoop(sv, st)
      /\ ~st.session[id].token
      /\ \A x \in Sessions \ {id} : SameStream(sv, st, x)
      /\ st.session[id].exists = sv.session[id].exists
      /\ st.session[id].socket = sv.session[id].socket
      /\ HeardBut(sv, st, SocketOf(sv, id))
  BY StopOldStreamSound
<1> HIDE DEF st
<1>2. st \in Fields /\ NoSocket \notin Sockets /\ s \in st.connections
  BY <1>1, NoSocketAssumption DEF Sound, SameLoop
<1>3. /\ st.session \in [Sessions -> SessionFields]
      /\ st.session[id] \in SessionFields
      /\ kept \in Sockets \union {NoSocket} /\ s \in Sockets \union {NoSocket}
  BY <1>2, FieldTypes, SessionTypes
<1>4. /\ Sound(old) /\ SameWires(st, old) /\ old.streamingOn = st.streamingOn
      /\ \A x \in Sessions \ {id} : SameStream(st, old, x)
      /\ ~old.session[id].token /\ old.session[id].socket = kept
      /\ old.session[id].interleaved = overTCP
      /\ old.session[id].exists = st.session[id].exists
  <2>1. Sound(st) /\ ~st.session[id].token
    BY <1>1
  <2> HIDE DEF kept
  <2> QED BY <1>3, <2>1, TransportSound
<1>5. /\ Sound(a) /\ SameWires(st, a) /\ a.streamingOn = st.streamingOn
      /\ \A x \in Sessions \ {id} : SameStream(st, a, x)
      /\ ~a.session[id].token /\ a.session[id].socket = s
      /\ a.session[id].interleaved = overTCP
      /\ a.session[id].exists = st.session[id].exists
  <2>1. Sound(st) /\ ~st.session[id].token
    BY <1>1
  <2> QED BY <1>3, <2>1, TransportSound
<1>6. [st EXCEPT !.session[id].interleaved = overTCP] = old
  BY <1>2, <1>3 DEF WithTransport, Fields, SessionFields
<1>7. [[st EXCEPT !.session[id].interleaved = overTCP]
          EXCEPT !.session[id].socket = s] = a
  BY <1>2, <1>3 DEF WithTransport, Fields, SessionFields
<1>8. HandleSETUP(sv, s, id, overTCP) = t
  <2>1. Note(a, s, id) = b
    BY DEF Note
  <2> HIDE DEF a, b, old
  <2> QED BY <1>6, <1>7, <2>1 DEF HandleSETUP, st
<1> HIDE DEF a, old
<1>9. \A x \in Sockets : id \notin Over(st, x)
  BY <1>1 DEF Over
<1>10. /\ table \in [Sockets -> Lists(Sessions)]
       /\ \A x \in Sockets : Range(table[x]) = IF x = s THEN Over(st, x) \union {id}
                                               ELSE Over(st, x)
  <2> DEFINE list == <<id>> \o st.streamingOn[s]
  <2>1. /\ st.streamingOn \in [Sockets -> Lists(Sessions)]
        /\ \A x \in Sockets : Range(st.streamingOn[x]) = Over(st, x)
    BY <1>1, <1>2, FieldTypes DEF Tabled
  <2>2. st.streamingOn[s] \in Lists(Sessions) /\ id \notin Range(st.streamingOn[s])
    BY <1>9, <2>1
  <2>3. list \in Lists(Sessions) /\ Range(list) = Range(st.streamingOn[s]) \union {id}
    BY <2>2, PrependToList
  <2>4. table = [st.streamingOn EXCEPT ![s] = list]
    BY <1>5
  <2> HIDE DEF list, table
  <2> QED BY <2>1, <2>3, <2>4
<1> HIDE DEF table
<1>11. /\ Sound(b) /\ SameWires(a, b) /\ b.streamingOn = table
       /\ b.session = a.session
  BY <1>5, <1>10, TableSound
<1> HIDE DEF b
<1>12. /\ Sound(c) /\ SameWires(st, c) /\ ~c.session[id].token
       /\ c.session[id].exists /\ c.session[id].interleaved = overTCP
       /\ c.session[id].socket = IF overTCP THEN s ELSE sv.session[id].socket
       /\ \A x \in Sessions \ {id} : SameStream(st, c, x)
       /\ c.streamingOn = IF overTCP THEN table ELSE st.streamingOn
  <2>1. CASE overTCP
    <3>1. c = b
      BY <2>1
    <3>2. SameWires(st, b)
      BY <1>5, <1>11 DEF SameWires
    <3>3. \A x \in Sessions \ {id} : SameStream(st, b, x)
      BY <1>5, <1>11 DEF SameStream
    <3> HIDE DEF c
    <3> QED BY <1>1, <1>5, <1>11, <2>1, <3>1, <3>2, <3>3
  <2>2. CASE ~overTCP
    <3>1. c = old
      BY <2>2
    <3> HIDE DEF c
    <3> QED BY <1>1, <1>4, <2>2, <3>1
  <2> QED BY <2>1, <2>2
<1> HIDE DEF c
<1>13. c.session[id].interleaved => c.session[id].socket \in c.connections
  BY <1>2, <1>12 DEF SameWires
<1>14. /\ Sound(t) /\ SameWires(c, t) /\ t.streamingOn = c.streamingOn
       /\ \A x \in Sessions \ {id} : SameStream(c, t, x)
       /\ t.session[id].token
       /\ t.session[id].socket = c.session[id].socket
       /\ t.session[id].interleaved = c.session[id].interleaved
  BY <1>12, <1>13, GetStreamParametersSound
<1> HIDE DEF t
<1>15. SameLoop(sv, t)
  BY <1>1, <1>12, <1>14 DEF SameLoop, SameWires
<1>16. HeardBut(sv, t, SocketOf(sv, id))
  <2>1. StillHeard(st, c) /\ StillHeard(c, t)
    BY <1>12, <1>14, SameWiresHear
  <2> QED BY <1>1, <2>1 DEF StillHeard, HeardBut
<1>17. \A y \in Sessions \ {id} : SameStream(st, t, y)
  BY <1>12, <1>14 DEF SameStream
<1>18. Tabled(t)
  <2> SUFFICES ASSUME NEW x \in Sockets
               PROVE  Range(t.streamingOn[x]) = Over(t, x)
    BY DEF Tabled
  <2>1. Range(st.streamingOn[x]) = Over(st, x)
    BY <1>1 DEF Tabled
  <2>2. Over(t, x) = IF overTCP /\ x = s THEN Over(st, x) \union {id} ELSE Over(st, x)
    <3>1. id \in Over(t, x) <=> overTCP /\ x = s
      BY <1>12, <1>14 DEF Over
    <3>2. \A y \in Sessions \ {id} : y \in Over(t, x) <=> y \in Over(st, x)
      BY <1>17 DEF Over, SameStream
    <3>3. Over(t, x) \subseteq Sessions /\ Over(st, x) \subseteq Sessions
      BY DEF Over
    <3>4. \A y \in Sessions : y \in Over(t, x) <=>
                                 y \in Over(st, x) \/ (y = id /\ overTCP /\ x = s)
      BY <1>9, <3>1, <3>2
    <3>5. CASE overTCP /\ x = s
      BY <3>3, <3>4, <3>5
    <3>6. CASE ~(overTCP /\ x = s)
      BY <3>3, <3>4, <3>6
    <3> QED BY <3>5, <3>6
  <2> QED BY <1>10, <1>12, <1>14, <2>1, <2>2
<1>19. \A x \in Sessions \ {id} : SameStream(sv, t, x)
  BY <1>1, <1>17 DEF SameStream
<1> QED BY <1>8, <1>12, <1>14, <1>15, <1>16, <1>18, <1>19


-----------------------------------------------------------------------------
(***************************************************************************)
(* A stream that plays.                                                    *)
(***************************************************************************)

\* Everything is sound except perhaps the sink of session id, which is about to
\* be served: its stream plays, and the replica has not been asked for it.
ToServe(sv, id) ==
    /\ sv \in Fields /\ Wired(sv) /\ ~sv.internalError
    /\ \A x \in Sessions : StreamOK(sv, x)
    /\ \A x \in Sessions \ {id} : SinkOK(sv, x)
    /\ sv.session[id].playing /\ id \notin sv.asked

\* Streams go on: none comes or goes, and no connection loses its hearing,
\* but for some.
GoesOnBut(sv, t, deaf) ==
    /\ Sound(t) /\ SameStreams(sv, t) /\ HeardBut(sv, t, deaf) /\ SameLoop(sv, t)
    /\ t.streamingOn = sv.streamingOn

GoesOn(sv, t) == GoesOnBut(sv, t, {})

\* What may be left of a unit is counted down to nothing.
LEMMA LeftoverFacts ==
    /\ 0 \in Leftovers /\ Leftovers \subseteq Nat
    /\ \A n \in Leftovers : n > 0 => n - 1 \in Leftovers
    /\ \A size \in NalSizes : Packets[size] - 1 \in Leftovers
<1>1. ASSUME NEW size \in NalSizes
      PROVE  Packets[size] \in Nat /\ Packets[size] >= 1
  <2> DEFINE payloads == Fragments(size, MaxPayload)
  <2>1. payloads \in Seq(Seq(Bytes)) /\ Len(payloads) >= 1
    BY SizesAssumption, FragmentsOfAnyUnit
  <2>2. Packets[size] = Len(payloads)
    BY DEF Packets
  <2> HIDE DEF payloads
  <2> QED BY <2>1, <2>2
<1>2. ASSUME NEW n \in Leftovers
      PROVE  n \in Nat /\ (n > 0 => n - 1 \in Leftovers)
  <2>1. CASE n = 0
    BY <2>1
  <2>2. CASE n # 0
    <3>1. PICK size \in NalSizes : n \in 0 .. Packets[size] - 1
      BY <2>2 DEF Leftovers
    <3>2. n \in Nat /\ n - 1 \in 0 .. Packets[size] - 1
      BY <1>1, <2>2, <3>1
    <3> QED BY <3>2 DEF Leftovers
  <2> QED BY <2>1, <2>2
<1>3. ASSUME NEW size \in NalSizes
      PROVE  Packets[size] - 1 \in Leftovers
  <2>1. Packets[size] - 1 \in 0 .. Packets[size] - 1
    BY <1>1
  <2> QED BY <2>1 DEF Leftovers
<1>4. 0 \in Leftovers
  BY DEF Leftovers
<1> QED BY <1>2, <1>3, <1>4

\* Steps after which streams go on, one after another.
LEMMA GoesOnAndOn ==
    ASSUME NEW sv, NEW t, NEW u, NEW deaf,
           \/ GoesOnBut(sv, t, deaf) /\ GoesOn(t, u)
           \/ GoesOn(sv, t) /\ GoesOnBut(t, u, deaf)
    PROVE  GoesOnBut(sv, u, deaf)
<1> USE DEF GoesOn, GoesOnBut
<1>1. SameStreams(sv, u)
  BY DEF SameStreams, SameStream
<1>2. HeardBut(sv, u, deaf)
  BY DEF HeardBut
<1>3. SameLoop(sv, u) /\ u.streamingOn = sv.streamingOn
  BY DEF SameLoop
<1> QED BY <1>1, <1>2, <1>3

\* A packet is sent by RTP, and the task for the next one is there.
LEMMA SendPacketOfSinkSound ==
    ASSUME NEW sv, NEW id \in Sessions, ToServe(sv, id),
           NEW left \in Leftovers, NEW fails
    PROVE  GoesOn(sv, SendPacketOfSink(sv, id, left, fails))
<1> DEFINE failed == "rtp" \in fails
           sent == SendPacket(sv, RTP(id), failed)
           old == sent.session[id]
           new == [old EXCEPT !.sink = "sending", !.left = left]
           replicas == sent.replicas
           asked == sent.asked
           t == Updated(sent, id, new, replicas, asked, sent.internalError)
<1>1. /\ sv \in Fields /\ Wired(sv) /\ ~sv.internalError /\ StreamOK(sv, id)
      /\ sv.session[id].playing /\ id \notin sv.asked
  BY DEF ToServe
<1>2. /\ sent \in Fields /\ Wired(sent) /\ SameSessions(sv, sent)
      /\ sent.readLoop = sv.readLoop
      /\ \A c \in Channels : sent.interface[c] \in {sv.interface[c], NoSocket}
      /\ StillHeard(sv, sent)
  <2>1. RTP(id) \in Channels
    BY ChannelFacts
  <2> HIDE DEF failed
  <2> QED BY <1>1, <2>1, SendWired
<1>3. SendPacketOfSink(sv, id, left, fails)
        = [sent EXCEPT !.session[id].sink = "sending", !.session[id].left = left]
  BY DEF SendPacketOfSink
<1> HIDE DEF sent
<1>4. old \in SessionFields /\ sent.session \in [Sessions -> SessionFields]
  BY <1>2, FieldTypes
<1>5. SendPacketOfSink(sv, id, left, fails) = t
  BY <1>2, <1>3, <1>4 DEF Updated, Fields
<1> HIDE DEF old
<1>6. /\ new \in SessionFields /\ new.exists = old.exists /\ new.token = old.token
      /\ new.socket = old.socket /\ new.interleaved = old.interleaved
      /\ new.rtcp = old.rtcp
      /\ new.playing = old.playing /\ new.sink = "sending"
  BY <1>4 DEF SessionFields, Sinks
<1>7. /\ replicas \in SUBSET Sessions /\ asked \in SUBSET Sessions
      /\ sent.internalError \in BOOLEAN
  BY <1>2, FieldTypes
<1> HIDE DEF new, asked, replicas
<1>8. IsUpdated(sent, t, id, new, replicas, asked, sent.internalError)
  BY <1>2, <1>6, <1>7, UpdateSession DEF old
<1> HIDE DEF t
<1>9. /\ old = sv.session[id] /\ asked = sv.asked /\ replicas = sv.replicas
      /\ sent.internalError = sv.internalError /\ sent.session = sv.session
      /\ sent.connections = sv.connections /\ sent.streamingOn = sv.streamingOn
  BY <1>2 DEF SameSessions, old, asked, replicas
<1>10. /\ t.session[id] = new /\ t.asked = sv.asked /\ t.replicas = sv.replicas
       /\ ~t.internalError /\ t.interface = sent.interface
       /\ t.connections = sv.connections /\ t.readLoop = sv.readLoop
       /\ t.streamingOn = sv.streamingOn /\ t \in Fields /\ Wired(t)
       /\ \A x \in Sessions \ {id} : t.session[x] = sv.session[x]
  BY <1>1, <1>2, <1>8, <1>9 DEF IsUpdated, SameWires
<1>11. \A c \in Channels : t.interface[c] \in {sv.interface[c], NoSocket}
  BY <1>2, <1>10
<1>12. \A x \in Sessions : /\ t.interface[RTP(x)] \in {sv.interface[RTP(x)], NoSocket}
                           /\ t.interface[RTCP(x)] \in {sv.interface[RTCP(x)], NoSocket}
  BY <1>11, ChannelFacts
<1>13. StreamOK(t, id)
  BY <1>1, <1>6, <1>9, <1>10, <1>12 DEF StreamOK
<1>14. SinkOK(t, id)
  BY <1>1, <1>6, <1>9, <1>10 DEF SinkOK
<1>15. Sound(t)
  <2>1. \A x \in Sessions \ {id} : StreamOK(sv, x) /\ SinkOK(sv, x)
    BY DEF ToServe
  <2> QED BY <1>1, <1>10, <1>12, <1>13, <1>14, <2>1, OthersSound
<1>16. SameStreams(sv, t)
  BY <1>6, <1>9, <1>10 DEF SameStreams, SameStream
<1>17. StillHeard(sv, t)
  BY <1>2, <1>8, SameWiresHear DEF StillHeard, HeardBut, IsUpdated
<1> QED BY <1>5, <1>10, <1>15, <1>16, <1>17 DEF GoesOn, GoesOnBut, StillHeard, SameLoop

\* The unit that a sink waits for comes.
LEMMA AfterGettingFrameSound ==
    ASSUME NEW sv, Sound(sv), NEW id \in Sessions, id \in sv.asked,
           NEW size \in NalSizes, NEW fails
    PROVE  GoesOn(sv, AfterGettingFrame(sv, id, size, fails))
<1> DEFINE old == sv.session[id]
           replicas == sv.replicas
           asked == sv.asked \ {id}
           a == Updated(sv, id, old, replicas, asked, sv.internalError)
           t == SendPacketOfSink(a, id, Packets[size] - 1, fails)
<1>1. /\ sv \in Fields /\ Wired(sv) /\ StreamOK(sv, id) /\ SinkOK(sv, id)
      /\ ~sv.internalError
  BY DEF Sound
<1>2. old \in SessionFields /\ sv.session \in [Sessions -> SessionFields]
  BY <1>1, FieldTypes
<1>3. AfterGettingFrame(sv, id, size, fails) = t
  <2>1. a = [sv EXCEPT !.asked = @ \ {id}]
    BY <1>1, <1>2 DEF Updated, Fields
  <2> QED BY <2>1 DEF AfterGettingFrame
<1>4. old.playing
  BY <1>1 DEF SinkOK
<1>5. /\ replicas \in SUBSET Sessions /\ asked \in SUBSET Sessions
      /\ sv.internalError \in BOOLEAN
  BY <1>1, FieldTypes
<1> HIDE DEF old, asked, replicas
<1>6. IsUpdated(sv, a, id, old, replicas, asked, sv.internalError)
  BY <1>1, <1>2, <1>5, UpdateSession DEF old
<1> HIDE DEF a
<1>7. /\ a \in Fields /\ Wired(a) /\ SameWires(sv, a)
      /\ a.streamingOn = sv.streamingOn /\ a.replicas = sv.replicas
      /\ a.asked = asked /\ ~a.internalError
      /\ \A x \in Sessions : a.session[x] = sv.session[x]
  BY <1>1, <1>6 DEF IsUpdated, old, replicas
<1>8. \A x \in Sessions : StreamOK(a, x)
  BY <1>7 DEF Sound, StreamOK, SameWires
<1>9. \A x \in Sessions \ {id} : SinkOK(a, x)
  BY <1>7 DEF Sound, SinkOK, asked
<1>10. ToServe(a, id)
  BY <1>4, <1>7, <1>8, <1>9 DEF ToServe, asked, old
<1>11. GoesOn(a, t)
  BY <1>10, LeftoverFacts, SendPacketOfSinkSound
<1> HIDE DEF t
<1>12. SameStreams(sv, t) /\ StillHeard(sv, t) /\ SameLoop(sv, t)
  <2>1. SameStreams(sv, t)
    BY <1>7, <1>11 DEF GoesOn, GoesOnBut, SameStreams, SameStream
  <2>2. StillHeard(sv, t)
    BY <1>7, <1>11, SameWiresHear DEF GoesOn, GoesOnBut, StillHeard, HeardBut
  <2>3. SameLoop(sv, t)
    BY <1>7, <1>11 DEF GoesOn, GoesOnBut, SameLoop, SameWires
  <2> QED BY <2>1, <2>2, <2>3
<1> QED BY <1>3, <1>7, <1>11, <1>12 DEF GoesOn, GoesOnBut, StillHeard

\* The replica is asked for a unit, once.
LEMMA GetNextFrameSound ==
    ASSUME NEW sv, NEW id \in Sessions, ToServe(sv, id), sv.session[id].left = 0
    PROVE  /\ GoesOn(sv, GetNextFrame(sv, id))
           /\ id \in GetNextFrame(sv, id).asked
<1> DEFINE old == sv.session[id]
           new == [old EXCEPT !.sink = "waiting"]
           replicas == sv.replicas
           asked == sv.asked \union {id}
           error == FALSE
           t == Updated(sv, id, new, replicas, asked, error)
<1>1. /\ sv \in Fields /\ Wired(sv) /\ StreamOK(sv, id) /\ ~sv.internalError
      /\ old.playing /\ id \notin sv.asked /\ old.left = 0
  BY DEF ToServe
<1>2. /\ old \in SessionFields /\ sv.session \in [Sessions -> SessionFields]
      /\ sv.internalError \in BOOLEAN
  BY <1>1, FieldTypes
<1>3. GetNextFrame(sv, id) = t
  <2>1. (sv.internalError \/ id \in sv.asked) = FALSE
    BY <1>1
  <2> QED BY <1>1, <1>2, <2>1 DEF GetNextFrame, Updated, Fields
<1> HIDE DEF old
<1>4. /\ new \in SessionFields /\ new.exists = old.exists /\ new.token = old.token
      /\ new.socket = old.socket /\ new.interleaved = old.interleaved
      /\ new.rtcp = old.rtcp
      /\ new.playing = old.playing /\ new.sink = "waiting" /\ new.left = old.left
  BY <1>2 DEF SessionFields, Sinks
<1>5. replicas \in SUBSET Sessions /\ asked \in SUBSET Sessions
  BY <1>1, FieldTypes
<1> HIDE DEF new, asked, replicas
<1>6. IsUpdated(sv, t, id, new, replicas, asked, FALSE)
  BY <1>1, <1>4, <1>5, UpdateSession DEF old
<1> HIDE DEF t
<1>7. StreamOK(t, id)
  <2>1. /\ t.session[id] = new /\ t.replicas = sv.replicas
        /\ t.interface = sv.interface /\ t.connections = sv.connections
    BY <1>6 DEF IsUpdated, SameWires, replicas
  <2> QED BY <1>1, <1>4, <2>1 DEF StreamOK, old
<1>8. SinkOK(t, id)
  <2>1. t.session[id] = new /\ id \in t.asked
    BY <1>6 DEF IsUpdated, asked
  <2>2. new.playing /\ new.sink = "waiting" /\ new.left = 0
    BY <1>1, <1>4
  <2>3. ~(new.left > 0)
    BY <2>2
  <2> QED BY <2>1, <2>2, <2>3 DEF SinkOK
<1>9. Sound(t)
  <2>1. \A x \in Sessions \ {id} : StreamOK(sv, x) /\ SinkOK(sv, x)
    BY DEF ToServe
  <2>2. /\ t \in Fields /\ Wired(t) /\ ~t.internalError /\ t.interface = sv.interface
        /\ t.connections = sv.connections
        /\ \A x \in Sessions \ {id} : /\ t.session[x] = sv.session[x]
                                      /\ x \in t.replicas <=> x \in sv.replicas
                                      /\ x \in t.asked <=> x \in sv.asked
    BY <1>6 DEF IsUpdated, SameWires, asked, replicas
  <2> QED BY <1>1, <1>7, <1>8, <2>1, <2>2, OthersSound
<1>10. SameStreams(sv, t)
  BY <1>4, <1>6 DEF IsUpdated, SameStreams, SameStream, old
<1>11. StillHeard(sv, t) /\ SameLoop(sv, t) /\ t.streamingOn = sv.streamingOn
  BY <1>6, SameWiresHear DEF IsUpdated
<1>12. id \in t.asked
  BY <1>6 DEF IsUpdated, asked
<1> QED BY <1>3, <1>9, <1>10, <1>11, <1>12 DEF GoesOn, GoesOnBut, StillHeard

\* buildAndSendPacket: with what is left, or with a unit that is there at once
\* or is waited for.
LEMMA BuildAndSendPacketSound ==
    ASSUME NEW sv, NEW id \in Sessions, ToServe(sv, id), NEW atHand \in AtHand,
           NEW fails
    PROVE  GoesOn(sv, BuildAndSendPacket(sv, id, atHand, fails))
<1> DEFINE t == BuildAndSendPacket(sv, id, atHand, fails)
           left == sv.session[id].left
           asked == GetNextFrame(sv, id)
           size == CHOOSE n \in atHand : TRUE
<1>1. left \in Leftovers /\ left \in Nat
  BY SessionTypes, LeftoverFacts DEF ToServe
<1>2. t = IF left > 0 THEN SendPacketOfSink(sv, id, left - 1, fails)
          ELSE IF atHand = {} THEN asked
          ELSE AfterGettingFrame(asked, id, size, fails)
  BY DEF BuildAndSendPacket
<1> HIDE DEF t
<1>3. CASE left > 0
  <2>1. left - 1 \in Leftovers
    BY <1>1, <1>3, LeftoverFacts
  <2> HIDE DEF left
  <2>2. GoesOn(sv, SendPacketOfSink(sv, id, left - 1, fails))
    BY <2>1, SendPacketOfSinkSound
  <2> QED BY <1>2, <1>3, <2>2 DEF t
<1>4. CASE ~(left > 0)
  <2>1. left = 0
    BY <1>1, <1>4
  <2>2. GoesOn(sv, asked) /\ id \in asked.asked
    BY <2>1, GetNextFrameSound
  <2> HIDE DEF asked, left
  <2>3. CASE atHand = {}
    BY <1>2, <1>4, <2>2, <2>3 DEF t
  <2>4. CASE atHand # {}
    <3>1. size \in NalSizes
      BY <2>4 DEF AtHand
    <3> HIDE DEF size
    <3>2. Sound(asked)
      BY <2>2 DEF GoesOn, GoesOnBut
    <3>3. GoesOn(asked, AfterGettingFrame(asked, id, size, fails))
      BY <2>2, <3>1, <3>2, AfterGettingFrameSound
    <3>4. GoesOn(sv, AfterGettingFrame(asked, id, size, fails))
      BY <2>2, <3>3, GoesOnAndOn DEF GoesOn
    <3> QED BY <1>2, <1>4, <2>4, <3>4 DEF t
  <2> QED BY <2>3, <2>4
<1> QED BY <1>3, <1>4

\* A stream that starts and has a socket plugs its channels in, and requests on
\* the socket are for the connection that has asked for it.
PluggedIn(sv, h, id, s) ==
    AddRTCPSocket(SetHandler(AddStreamSocket(sv, RTP(id), s), s, h), RTCP(id), s)

\* Whose packets do not use this socket, or who listens to it all the same.
Unmoved(sv, h, id) ==
    IF sv.session[id].interleaved /\ h = sv.session[id].socket THEN {}
    ELSE {sv.session[id].socket}

\* That does no harm, except to a connection on the socket that had its requests,
\* and goes on hearing if it asks itself for a stream over TCP.
LEMMA PluggedInSound ==
    ASSUME NEW sv, Sound(sv), NEW id \in Sessions, NEW s \in Sockets,
           NEW h \in sv.connections,
           sv.session[id].token, sv.session[id].rtcp, sv.session[id].socket = s
    PROVE  /\ GoesOnBut(sv, PluggedIn(sv, h, id, s), Unmoved(sv, h, id))
           /\ SameSessions(sv, PluggedIn(sv, h, id, s))
<1> DEFINE a == AddStreamSocket(sv, RTP(id), s)
           b == SetHandler(a, s, h)
           t == AddRTCPSocket(b, RTCP(id), s)
<1>1. /\ sv \in Fields /\ Wired(sv) /\ StreamOK(sv, id)
      /\ RTP(id) \in Channels /\ RTCP(id) \in Channels /\ RTP(id) # RTCP(id)
  BY ChannelFacts DEF Sound
<1>2. /\ sv.interface[RTP(id)] \in {NoSocket, s}
      /\ sv.interface[RTCP(id)] \in {NoSocket, s}
      /\ sv.interface \in [Channels -> Sockets \union {NoSocket}]
  BY <1>1, FieldTypes DEF StreamOK
<1>3. PluggedInto(sv, a, RTP(id), s)
  BY <1>1, <1>2, AddWired
<1> HIDE DEF a
<1>4. /\ a \in Fields /\ Wired(a) /\ SameSessions(sv, a)
      /\ a.readLoop = sv.readLoop
      /\ a.interface = [sv.interface EXCEPT ![RTP(id)] = s]
      /\ HeardBut(sv, a, {s})
      /\ sv.session[id].interleaved => HasDescriptor(a, s)
      /\ a.reader[s] \in {sv.reader[s], "descriptor"}
  BY <1>3 DEF PluggedInto, RTP
<1>5. /\ b \in Fields /\ Wired(b) /\ SameSessions(a, b)
      /\ b.readLoop = a.readLoop /\ b.interface = a.interface
      /\ b.reader = a.reader /\ HeardBut(a, b, {s})
      /\ HasDescriptor(a, s) => b.handler[s] = h
  <2> HIDE DEF b, t
  <2>1. h \in a.connections \union {NoSocket}
    BY <1>4 DEF SameSessions
  <2>2. a \in Fields /\ Wired(a)
    BY <1>4
  <2>3. b = SetHandler(a, s, h)
    BY DEF b
  <2>4. LET u == SetHandler(a, s, h)
        IN  /\ u \in Fields /\ Wired(u) /\ SameSessions(a, u)
            /\ u.readLoop = a.readLoop /\ u.interface = a.interface
            /\ u.reader = a.reader /\ HeardBut(a, u, {s})
            /\ HasDescriptor(a, s) => u.handler[s] = h
    BY <2>1, <2>2, HandlerWired
  <2> QED BY <2>3, <2>4
<1> HIDE DEF b
<1>6. b.interface[RTCP(id)] \in {NoSocket, s}
  BY <1>1, <1>2, <1>4, <1>5
<1>7. PluggedInto(b, t, RTCP(id), s)
  BY <1>1, <1>5, <1>6, AddRTCPWired
<1> HIDE DEF t
<1>8. /\ t \in Fields /\ Wired(t) /\ SameSessions(b, t)
      /\ t.readLoop = b.readLoop
      /\ t.interface = [b.interface EXCEPT ![RTCP(id)] = s]
      /\ HeardBut(b, t, {s}) /\ t.handler = b.handler
      /\ t.reader[s] \in {b.reader[s], "descriptor"}
  BY <1>7 DEF PluggedInto, RTCP
<1>9. SameSessions(sv, t) /\ t.readLoop = sv.readLoop
  BY <1>4, <1>5, <1>8 DEF SameSessions
<1>10. /\ t.interface[RTP(id)] = s /\ t.interface[RTCP(id)] = s
       /\ \A c \in Channels : c # RTP(id) /\ c # RTCP(id) =>
                                  t.interface[c] = sv.interface[c]
  BY <1>1, <1>2, <1>4, <1>5, <1>8
<1>11. HeardBut(sv, t, Unmoved(sv, h, id))
  <2>1. HeardBut(sv, t, {s})
    BY <1>4, <1>5, <1>8 DEF HeardBut
  <2>2. CASE ~(sv.session[id].interleaved /\ h = s)
    BY <2>1, <2>2 DEF Unmoved
  <2>3. CASE sv.session[id].interleaved /\ h = s
    <3>1. Listens(sv, s) => Listens(t, s)
      BY <1>4, <1>5, <1>8, <1>9, <2>3 DEF Listens, SameSessions
    <3> QED BY <2>1, <2>3, <3>1 DEF Unmoved, HeardBut
  <2> QED BY <2>2, <2>3
<1>12. ~t.internalError /\ SinkOK(t, id)
  <2>1. SinkOK(sv, id) /\ ~sv.internalError
    BY DEF Sound
  <2> QED BY <1>9, <2>1 DEF SinkOK, SameSessions
<1>13. StreamOK(t, id)
  BY <1>1, <1>9, <1>10 DEF StreamOK, SameSessions
<1>14. Sound(t)
  <2>1. \A x \in Sessions \ {id} : StreamOK(sv, x) /\ SinkOK(sv, x)
    BY DEF Sound
  <2>2. \A x \in Sessions \ {id} :
            /\ t.interface[RTP(x)] \in {sv.interface[RTP(x)], NoSocket}
            /\ t.interface[RTCP(x)] \in {sv.interface[RTCP(x)], NoSocket}
    BY <1>10, ChannelFacts
  <2>3. /\ t.connections = sv.connections
        /\ \A x \in Sessions \ {id} : /\ t.session[x] = sv.session[x]
                                      /\ x \in t.replicas <=> x \in sv.replicas
                                      /\ x \in t.asked <=> x \in sv.asked
    BY <1>9 DEF SameSessions
  <2> QED BY <1>1, <1>8, <1>12, <1>13, <2>1, <2>2, <2>3, OthersSound
<1>15. PluggedIn(sv, h, id, s) = t
  BY DEF PluggedIn, a, b, t
<1> QED BY <1>9, <1>11, <1>14, <1>15
        DEF GoesOnBut, SameStreams, SameStream, SameLoop, SameSessions

\* sendReport of the RTCP instance.
LEMMA SendReportSound ==
    ASSUME NEW sv, Sound(sv), NEW id \in Sessions, NEW fails
    PROVE  GoesOn(sv, SendReport(sv, id, fails)) /\ SameSessions(sv, SendReport(sv, id, fails))
<1> DEFINE failed == "rtcp" \in fails
           t == SendPacket(sv, RTCP(id), failed)
<1>1. sv \in Fields /\ Wired(sv) /\ RTCP(id) \in Channels
  BY ChannelFacts DEF Sound
<1>2. SendReport(sv, id, fails) = t
  BY DEF SendReport
<1> HIDE DEF failed
<1>3. /\ t \in Fields /\ Wired(t) /\ SameSessions(sv, t)
      /\ t.readLoop = sv.readLoop
      /\ \A c \in Channels : t.interface[c] \in {sv.interface[c], NoSocket}
      /\ StillHeard(sv, t)
  BY <1>1, SendWired
<1> HIDE DEF t
<1>4. Sound(t) /\ SameStreams(sv, t)
  BY <1>3, UnpluggedSound
<1> QED BY <1>2, <1>3, <1>4 DEF GoesOn, GoesOnBut, StillHeard, SameLoop, SameSessions

\* The RTCP instance exists.
WithRTCP(sv, id) == [sv EXCEPT !.session[id].rtcp = TRUE]

\* It comes with the stream's first PLAY.
LEMMA WithRTCPSound ==
    ASSUME NEW sv, Sound(sv), NEW id \in Sessions
    PROVE  LET t == WithRTCP(sv, id)
           IN  /\ GoesOn(sv, t) /\ t.session[id].rtcp
               /\ t.session[id].playing = sv.session[id].playing
<1> DEFINE old == sv.session[id]
           new == [old EXCEPT !.rtcp = TRUE]
           replicas == sv.replicas
           asked == sv.asked
           t == Updated(sv, id, new, replicas, asked, sv.internalError)
<1>1. /\ sv \in Fields /\ Wired(sv) /\ StreamOK(sv, id) /\ SinkOK(sv, id)
      /\ ~sv.internalError
  BY DEF Sound
<1>2. old \in SessionFields /\ sv.session \in [Sessions -> SessionFields]
  BY <1>1, FieldTypes
<1>3. WithRTCP(sv, id) = t
  BY <1>1, <1>2 DEF WithRTCP, Updated, Fields
<1> HIDE DEF old
<1>4. /\ new \in SessionFields /\ new.exists = old.exists /\ new.token = old.token
      /\ new.socket = old.socket /\ new.interleaved = old.interleaved
      /\ new.rtcp /\ new.playing = old.playing /\ new.sink = old.sink /\ new.left = old.left
  BY <1>2 DEF SessionFields
<1>5. /\ replicas \in SUBSET Sessions /\ asked \in SUBSET Sessions
      /\ sv.internalError \in BOOLEAN
  BY <1>1, FieldTypes
<1> HIDE DEF new, asked, replicas
<1>6. IsUpdated(sv, t, id, new, replicas, asked, sv.internalError)
  BY <1>1, <1>4, <1>5, UpdateSession DEF old
<1> HIDE DEF t
<1>7. StreamOK(t, id)
  BY <1>1, <1>4, <1>6 DEF StreamOK, IsUpdated, SameWires, old, replicas
<1>8. SinkOK(t, id)
  BY <1>1, <1>4, <1>6 DEF SinkOK, IsUpdated, old, asked
<1>9. Sound(t)
  BY <1>1, <1>6, <1>7, <1>8, OthersSound DEF Sound, IsUpdated, SameWires, asked, replicas
<1>10. SameStreams(sv, t)
  BY <1>4, <1>6 DEF IsUpdated, SameStreams, SameStream, old
<1>11. StillHeard(sv, t) /\ SameLoop(sv, t) /\ t.streamingOn = sv.streamingOn
  BY <1>6, SameWiresHear DEF IsUpdated
<1> QED BY <1>3, <1>4, <1>6, <1>9, <1>10, <1>11 DEF GoesOn, GoesOnBut, StillHeard, IsUpdated, old

\* fAreCurrentlyPlaying is set.
WithPlaying(sv, id) == [sv EXCEPT !.session[id].playing = TRUE]

\* Then the sink is to be served.
LEMMA WithPlayingToServe ==
    ASSUME NEW sv, Sound(sv), NEW id \in Sessions, sv.session[id].token,
           ~sv.session[id].playing
    PROVE  LET t == WithPlaying(sv, id)
           IN  /\ ToServe(t, id) /\ SameStreams(sv, t) /\ StillHeard(sv, t)
               /\ SameLoop(sv, t) /\ t.streamingOn = sv.streamingOn
<1> DEFINE old == sv.session[id]
           new == [old EXCEPT !.playing = TRUE]
           replicas == sv.replicas
           asked == sv.asked
           t == Updated(sv, id, new, replicas, asked, sv.internalError)
<1>1. /\ sv \in Fields /\ Wired(sv) /\ StreamOK(sv, id) /\ SinkOK(sv, id)
      /\ ~sv.internalError
  BY DEF Sound
<1>2. old \in SessionFields /\ sv.session \in [Sessions -> SessionFields]
  BY <1>1, FieldTypes
<1>3. WithPlaying(sv, id) = t
  BY <1>1, <1>2 DEF WithPlaying, Updated, Fields
<1> HIDE DEF old
<1>4. /\ new \in SessionFields /\ new.exists = old.exists /\ new.token = old.token
      /\ new.socket = old.socket /\ new.interleaved = old.interleaved
      /\ new.rtcp = old.rtcp
      /\ new.playing /\ new.sink = old.sink /\ new.left = old.left
  BY <1>2 DEF SessionFields
<1>5. /\ replicas \in SUBSET Sessions /\ asked \in SUBSET Sessions
      /\ sv.internalError \in BOOLEAN
  BY <1>1, FieldTypes
<1> HIDE DEF new, asked, replicas
<1>6. IsUpdated(sv, t, id, new, replicas, asked, sv.internalError)
  BY <1>1, <1>4, <1>5, UpdateSession DEF old
<1> HIDE DEF t
<1>7. StreamOK(t, id)
  BY <1>1, <1>4, <1>6 DEF StreamOK, IsUpdated, SameWires, old, replicas
<1>8. ASSUME NEW x \in Sessions \ {id}
      PROVE  StreamOK(t, x) /\ SinkOK(t, x)
  <2>1. StreamOK(sv, x) /\ SinkOK(sv, x)
    BY DEF Sound
  <2>2. t.session[x] = sv.session[x]
    BY <1>6 DEF IsUpdated
  <2>3. StreamOK(t, x)
    BY <1>6, <2>1, <2>2 DEF StreamOK, IsUpdated, SameWires, replicas
  <2>4. SinkOK(t, x)
    BY <1>6, <2>1, <2>2 DEF SinkOK, IsUpdated, asked
  <2> QED BY <2>3, <2>4
<1>9. id \notin t.asked
  <2>1. sv.session[id].sink = "stopped"
    BY <1>1 DEF SinkOK
  <2>2. id \notin sv.asked
    BY <1>1, <2>1 DEF SinkOK
  <2> QED BY <1>6, <2>2 DEF IsUpdated, asked
<1>10. ToServe(t, id)
  <2>1. /\ t \in Fields /\ Wired(t) /\ ~t.internalError /\ t.session[id].playing
    BY <1>1, <1>4, <1>6 DEF IsUpdated
  <2> QED BY <1>7, <1>8, <1>9, <2>1 DEF ToServe
<1>11. SameStreams(sv, t)
  BY <1>4, <1>6 DEF IsUpdated, SameStreams, SameStream, old
<1>12. StillHeard(sv, t) /\ SameLoop(sv, t) /\ t.streamingOn = sv.streamingOn
  BY <1>6, SameWiresHear DEF IsUpdated
<1> QED BY <1>3, <1>10, <1>11, <1>12

\* StreamState::startPlaying: whoever has a socket is unmoved.
LEMMA StartPlayingSound ==
    ASSUME NEW sv, Sound(sv), NEW id \in Sessions, NEW h \in sv.connections,
           sv.session[id].token, NEW atHand \in AtHand, NEW fails
    PROVE  LET t == StartPlaying(sv, h, id, atHand, fails)
           IN  /\ GoesOnBut(sv, t, Unmoved(sv, h, id))
               /\ sv.session[id].socket = NoSocket => GoesOn(sv, t)
<1> DEFINE s       == sv.session[id].socket
           deaf    == IF s = NoSocket THEN {} ELSE Unmoved(sv, h, id)
           created == WithRTCP(sv, id)
           added   == IF s = NoSocket THEN created ELSE PluggedIn(created, h, id, s)
           told    == SendReport(added, id, fails)
           played  == WithPlaying(told, id)
           t       == IF sv.session[id].playing THEN told
                      ELSE BuildAndSendPacket(played, id, atHand, fails)
<1>1. StartPlaying(sv, h, id, atHand, fails) = t
  BY DEF StartPlaying, WithRTCP, PluggedIn, WithPlaying
<1>2. /\ GoesOn(sv, created) /\ created.session[id].rtcp
      /\ created.session[id].playing = sv.session[id].playing
  BY WithRTCPSound
<1> HIDE DEF created
<1>3. /\ created.session[id].token /\ created.session[id].socket = s
      /\ h \in created.connections /\ Unmoved(created, h, id) = Unmoved(sv, h, id)
  BY <1>2 DEF GoesOn, GoesOnBut, SameStreams, SameStream, SameLoop, Unmoved
<1>4. s \in Sockets \union {NoSocket}
  BY SessionTypes DEF Sound
<1> HIDE DEF s
<1>5. /\ GoesOnBut(created, added, deaf)
      /\ added.session[id].playing = sv.session[id].playing
  <2>1. CASE s = NoSocket
    <3>1. added = created /\ deaf = {}
      BY <2>1
    <3>2. GoesOn(created, created)
      BY <1>2 DEF GoesOn, GoesOnBut, SameStreams, SameStream, HeardBut, SameLoop
    <3> HIDE DEF added, deaf
    <3> QED BY <1>2, <3>1, <3>2 DEF GoesOn
  <2>2. CASE s # NoSocket
    <3>1. /\ added = PluggedIn(created, h, id, s) /\ s \in Sockets
          /\ deaf = Unmoved(created, h, id)
      BY <1>3, <1>4, <2>2
    <3>2. Sound(created)
      BY <1>2 DEF GoesOn, GoesOnBut
    <3> HIDE DEF added, deaf
    <3>3. GoesOnBut(created, added, deaf) /\ SameSessions(created, added)
      BY <1>2, <1>3, <3>1, <3>2, PluggedInSound
    <3> QED BY <1>2, <3>3 DEF SameSessions
  <2> QED BY <2>1, <2>2
<1> HIDE DEF added, deaf
<1>6. GoesOnBut(sv, added, deaf)
  BY <1>2, <1>5, GoesOnAndOn
<1>7. GoesOn(added, told) /\ SameSessions(added, told)
  <2>1. Sound(added)
    BY <1>5 DEF GoesOnBut
  <2> QED BY <2>1, SendReportSound
<1> HIDE DEF told
<1>8. GoesOnBut(sv, told, deaf)
  BY <1>6, <1>7, GoesOnAndOn
<1>9. GoesOnBut(sv, t, deaf)
  <2>1. CASE sv.session[id].playing
    BY <1>8, <2>1
  <2>2. CASE ~sv.session[id].playing
    <3>1. Sound(told) /\ ~told.session[id].playing /\ told.session[id].token
      BY <1>5, <1>7, <1>8, <2>2 DEF GoesOnBut, SameSessions, SameStreams, SameStream
    <3>2. /\ ToServe(played, id) /\ SameStreams(told, played)
          /\ StillHeard(told, played) /\ SameLoop(told, played)
          /\ played.streamingOn = told.streamingOn
      BY <3>1, WithPlayingToServe
    <3> HIDE DEF played
    <3> DEFINE built == BuildAndSendPacket(played, id, atHand, fails)
    <3>3. GoesOn(played, built)
      BY <3>2, BuildAndSendPacketSound
    <3>4. t = built
      BY <2>2
    <3> HIDE DEF built, t
    <3>5. GoesOn(told, built)
      <4>1. SameStreams(told, built)
        BY <3>2, <3>3 DEF GoesOn, GoesOnBut, SameStreams, SameStream
      <4>2. HeardBut(told, built, {})
        BY <3>2, <3>3 DEF GoesOn, GoesOnBut, StillHeard, HeardBut
      <4>3. SameLoop(told, built) /\ built.streamingOn = told.streamingOn
        BY <3>2, <3>3 DEF GoesOn, GoesOnBut, SameLoop
      <4> QED BY <3>3, <4>1, <4>2, <4>3 DEF GoesOn, GoesOnBut
    <3> QED BY <1>8, <3>4, <3>5, GoesOnAndOn
  <2> QED BY <2>1, <2>2
<1> HIDE DEF t
<1>10. s = NoSocket => deaf = {}
  BY DEF deaf
<1>11. deaf \subseteq Unmoved(sv, h, id)
  BY DEF deaf
<1>12. GoesOnBut(sv, t, Unmoved(sv, h, id))
  BY <1>9, <1>11 DEF GoesOnBut, HeardBut
<1> QED BY <1>1, <1>9, <1>10, <1>12 DEF GoesOn, s

\* The table agrees with streams that go on.
LEMMA GoesOnTabled ==
    ASSUME NEW sv, NEW t, NEW deaf, GoesOnBut(sv, t, deaf)
    PROVE  /\ Tabled(sv) => Tabled(t)
           /\ Unbound(sv) => Unbound(t)
<1>1. \A s \in Sockets : Over(t, s) = Over(sv, s)
  BY DEF GoesOnBut, Over, SameStreams, SameStream
<1>2. Unbound(sv) => Unbound(t)
  BY DEF GoesOnBut, Unbound, SameStreams, SameStream
<1> QED BY <1>1, <1>2 DEF GoesOnBut, Tabled

-----------------------------------------------------------------------------
(***************************************************************************)
(* Connections that close.                                                 *)
(***************************************************************************)

\* The recursive function that StopTCPStreaming is defined with exists.
LEMMA StoppedRecursion ==
    ASSUME NEW sv, NEW s, Len(sv.streamingOn[s]) \in Nat
    PROVE  LET list == sv.streamingOn[s]
           IN  \E f : /\ f[0] = sv
                      /\ \A n \in 1 .. Len(list) :
                             f[n] = StopStreamingOver(f[n - 1], list[n])
                      /\ StopTCPStreaming(sv, s) = [f[Len(list)] EXCEPT !.streamingOn[s] = <<>>]
<1> DEFINE list == sv.streamingOn[s]
           N == Len(list)
           Steps(f, n) ==
               f = [k \in 0 .. n |-> IF k = 0 THEN sv
                                     ELSE StopStreamingOver(f[k - 1], list[k])]
           T == {n \in Nat : \E f : Steps(f, n)}
<1>1. N \in Nat
  OBVIOUS
<1>2. 0 \in T
  <2>1. Steps([k \in 0 .. 0 |-> sv], 0)
    OBVIOUS
  <2> QED BY <2>1
<1>3. ASSUME NEW n \in 0 .. N - 1, n \in T
      PROVE  n + 1 \in T
  <2>1. PICK f : Steps(f, n)
    BY <1>3
  <2> DEFINE g == [k \in 0 .. n + 1 |-> IF k <= n THEN f[k]
                                        ELSE StopStreamingOver(f[n], list[n + 1])]
  <2> HIDE DEF list, N
  <2>2. \A k \in 0 .. n : f[k] = IF k = 0 THEN sv
                                 ELSE StopStreamingOver(f[k - 1], list[k])
    BY <2>1
  <2>3. n \in Nat
    BY <1>1
  <2>4. ASSUME NEW k \in 0 .. n + 1
        PROVE  g[k] = IF k = 0 THEN sv ELSE StopStreamingOver(g[k - 1], list[k])
    <3>1. CASE k <= n
      <4>1. k \in 0 .. n /\ (k # 0 => k - 1 \in 0 .. n /\ k - 1 \in 0 .. n + 1 /\ k - 1 <= n)
        BY <2>3, <3>1
      <4> QED BY <2>2, <3>1, <4>1
    <3>2. CASE k = n + 1
      <4>1. /\ ~(k <= n) /\ k # 0 /\ k - 1 = n /\ n \in 0 .. n + 1 /\ n <= n
        BY <2>3, <3>2
      <4> QED BY <3>2, <4>1
    <3> QED BY <2>3, <3>1, <3>2
  <2>5. Steps(g, n + 1)
    BY <2>4
  <2> HIDE DEF Steps
  <2> QED BY <2>3, <2>5
<1>4. \E f : Steps(f, N)
  <2> HIDE DEF Steps
  <2>1. 0 .. N \subseteq T
    <3> HIDE DEF T, N
    <3> QED BY <1>1, <1>2, <1>3, NumberInduction
  <2> QED BY <1>1, <2>1
<1> DEFINE Stopped == CHOOSE f : Steps(f, N)
<1>5. Steps(Stopped, N)
  BY <1>4
<1>6. \A k \in 0 .. N : Stopped[k] = IF k = 0 THEN sv
                                     ELSE StopStreamingOver(Stopped[k - 1], list[k])
  <2> HIDE DEF Stopped, list, N
  <2> QED BY <1>5
<1>7. StopTCPStreaming(sv, s) = [Stopped[N] EXCEPT !.streamingOn[s] = <<>>]
  BY DEF StopTCPStreaming
<1> HIDE DEF Stopped
<1>8. /\ Stopped[0] = sv
      /\ \A k \in 1 .. N : Stopped[k] = StopStreamingOver(Stopped[k - 1], list[k])
  <2> HIDE DEF list, N
  <2>1. 0 \in 0 .. N /\ \A k \in 1 .. N : k \in 0 .. N /\ k # 0
    BY <1>1
  <2> QED BY <1>6, <2>1
<1> QED BY <1>7, <1>8

\* A session has no stream, nor a socket for one.
IsUnset(sv, id) == ~sv.session[id].token /\ sv.session[id].socket = NoSocket

\* The first n records of a list of the table have been dealt with.
StoppedUpTo(sv, t, s, n) ==
    LET list == sv.streamingOn[s]
    IN  /\ Sound(t) /\ SameLoop(sv, t) /\ t.streamingOn = sv.streamingOn
        /\ \A id \in Sessions : (\A i \in 1 .. n : list[i] # id) => SameStream(sv, t, id)
        /\ \A i \in 1 .. n : IsUnset(t, list[i])
        /\ HeardBut(sv, t, {s})

\* One more record is dealt with.
LEMMA StopNextStream ==
    ASSUME NEW sv, Sound(sv), Tabled(sv), NEW s \in Sockets,
           NEW n \in Nat, n + 1 \in 1 .. Len(sv.streamingOn[s]),
           NEW t, StoppedUpTo(sv, t, s, n)
    PROVE  StoppedUpTo(sv, StopStreamingOver(t, sv.streamingOn[s][n + 1]), s, n + 1)
<1> DEFINE list == sv.streamingOn[s]
           id   == list[n + 1]
           u    == DeleteStreamByTrack(t, id)
<1>1. list \in Lists(Sessions) /\ Range(list) = Over(sv, s)
  BY FieldTypes DEF Sound, Tabled
<1>2. /\ Sound(t) /\ SameLoop(sv, t) /\ t.streamingOn = sv.streamingOn
      /\ \A x \in Sessions : (\A i \in 1 .. n : list[i] # x) => SameStream(sv, t, x)
      /\ \A i \in 1 .. n : IsUnset(t, list[i])
      /\ HeardBut(sv, t, {s})
  BY DEF StoppedUpTo
<1> HIDE DEF list
<1>3. n + 1 \in 1 .. Len(list) /\ Len(list) \in Nat /\ DOMAIN list = 1 .. Len(list)
  BY <1>1 DEF Lists, list
<1>4. id \in Sessions /\ id \in Range(list)
  BY <1>1, <1>3 DEF Lists, Range
<1>5. \A i \in 1 .. n : list[i] # id /\ i \in 1 .. Len(list)
  BY <1>1, <1>3 DEF Lists, IsInjective
<1>6. SameStream(sv, t, id)
  BY <1>2, <1>4, <1>5
<1>7. id \in Over(t, s) /\ t.session[id].exists
  <2>1. id \in Over(sv, s)
    BY <1>1, <1>4
  <2>2. id \in Over(t, s)
    BY <1>6, <2>1 DEF Over, SameStream
  <2> QED BY <1>2, <1>4, <2>2 DEF Over, Sound, StreamOK
<1>8. StopStreamingOver(t, id) = u
  BY <1>7 DEF StopStreamingOver
<1> HIDE DEF id
<1>9. /\ Sound(u) /\ SameLoop(t, u) /\ u.streamingOn = t.streamingOn
      /\ \A x \in Sessions \ {id} : SameStream(t, u, x)
      /\ u.session[id] = NoSession
      /\ HeardBut(t, u, SocketOf(t, id))
  BY <1>2, <1>4, DeleteStreamByTrackSound
<1> HIDE DEF u
<1>10. SameLoop(sv, u) /\ u.streamingOn = sv.streamingOn
  BY <1>2, <1>9 DEF SameLoop
<1>11. ASSUME NEW x \in Sessions, \A i \in 1 .. n + 1 : list[i] # x
       PROVE  SameStream(sv, u, x)
  <2>1. x # id
    BY <1>3, <1>11 DEF id
  <2>2. \A i \in 1 .. n : list[i] # x
    BY <1>11
  <2>3. SameStream(sv, t, x)
    BY <1>2, <2>2
  <2> QED BY <1>9, <2>1, <2>3 DEF SameStream
<1>12. ASSUME NEW i \in 1 .. n + 1
       PROVE  IsUnset(u, list[i])
  <2>1. CASE i = n + 1
    BY <1>9, <2>1 DEF id, NoSession, IsUnset
  <2>2. CASE i # n + 1
    <3>1. i \in 1 .. n
      BY <2>2
    <3>2. IsUnset(t, list[i]) /\ list[i] \in Sessions \ {id}
      BY <1>1, <1>2, <1>3, <1>5, <3>1 DEF Lists
    <3> QED BY <1>9, <3>2 DEF SameStream, IsUnset
  <2> QED BY <2>1, <2>2
<1>13. HeardBut(sv, u, {s})
  <2>1. SocketOf(t, id) = {s}
    BY <1>7 DEF Over, SocketOf
  <2> QED BY <1>2, <1>9, <2>1 DEF HeardBut
<1>14. StoppedUpTo(sv, u, s, n + 1)
  BY <1>9, <1>10, <1>11, <1>12, <1>13 DEF StoppedUpTo, list
<1> QED BY <1>8, <1>14 DEF id, list

\* stopTCPStreamingOnSocket: no stream that was set up over the socket uses it
\* any more.
LEMMA StopTCPStreamingSound ==
    ASSUME NEW sv, Sound(sv), Tabled(sv), NEW s \in Sockets
    PROVE  LET t == StopTCPStreaming(sv, s)
           IN  /\ Sound(t) /\ Tabled(t) /\ SameLoop(sv, t)
               /\ Over(t, s) = {} /\ HeardBut(sv, t, {s})
               /\ Unbound(sv) => Unbound(t)
<1> DEFINE list == sv.streamingOn[s]
           N == Len(list)
<1>1. /\ list \in Lists(Sessions) /\ N \in Nat
      /\ list \in [1 .. N -> Sessions]
      /\ \A x \in Sockets : Range(sv.streamingOn[x]) = Over(sv, x)
      /\ sv.streamingOn \in [Sockets -> Lists(Sessions)]
  <2>1. sv.streamingOn \in [Sockets -> Lists(Sessions)]
    BY FieldTypes DEF Sound
  <2>2. list \in Seq(Sessions)
    BY <2>1 DEF Lists
  <2> QED BY <2>1, <2>2 DEF Tabled
<1>2. PICK f : /\ f[0] = sv
               /\ \A n \in 1 .. N : f[n] = StopStreamingOver(f[n - 1], list[n])
               /\ StopTCPStreaming(sv, s) = [f[N] EXCEPT !.streamingOn[s] = <<>>]
  BY <1>1, StoppedRecursion
<1> HIDE DEF N
<1> DEFINE T == {n \in 0 .. N : StoppedUpTo(sv, f[n], s, n)}
<1>3. 0 \in T
  <2>1. StoppedUpTo(sv, sv, s, 0)
    BY DEF StoppedUpTo, SameLoop, SameStream, HeardBut
  <2> QED BY <1>1, <1>2, <2>1
<1>4. ASSUME NEW n \in 0 .. N - 1, n \in T
      PROVE  n + 1 \in T
  <2>1. /\ n \in Nat /\ n + 1 \in 1 .. N /\ (n + 1) - 1 = n /\ n + 1 \in 0 .. N
    BY <1>1
  <2>2. f[n + 1] = StopStreamingOver(f[n], list[n + 1])
    BY <1>2, <2>1
  <2>3. StoppedUpTo(sv, f[n], s, n)
    BY <1>4
  <2>4. StoppedUpTo(sv, StopStreamingOver(f[n], list[n + 1]), s, n + 1)
    BY <2>1, <2>3, StopNextStream DEF N
  <2> QED BY <2>1, <2>2, <2>4
<1> DEFINE u == f[N]
<1>5. StoppedUpTo(sv, u, s, N)
  <2> HIDE DEF T
  <2>1. 0 .. N \subseteq T
    BY <1>1, <1>3, <1>4, NumberInduction
  <2> QED BY <1>1, <2>1 DEF T
<1> HIDE DEF u, list
<1>6. /\ Sound(u) /\ SameLoop(sv, u) /\ u.streamingOn = sv.streamingOn
      /\ \A x \in Sessions : (\A i \in 1 .. N : list[i] # x) => SameStream(sv, u, x)
      /\ \A i \in 1 .. N : IsUnset(u, list[i])
      /\ HeardBut(sv, u, {s})
  BY <1>5 DEF StoppedUpTo, list
<1>7. \A x \in Sockets : Over(u, x) = IF x = s THEN {} ELSE Over(sv, x)
  <2> SUFFICES ASSUME NEW x \in Sockets, NEW id \in Sessions
               PROVE  id \in Over(u, x) <=> x # s /\ id \in Over(sv, x)
    BY DEF Over
  <2>1. CASE id \in Range(list)
    <3>1. PICK i \in 1 .. N : list[i] = id
      BY <1>1, <2>1 DEF Range
    <3>2. id \notin Over(u, x)
      BY <1>6, <3>1 DEF Over, IsUnset
    <3>3. id \in Over(sv, s)
      BY <1>1, <2>1 DEF list
    <3>4. x # s => id \notin Over(sv, x)
      BY <3>3 DEF Over
    <3> QED BY <3>2, <3>4
  <2>2. CASE id \notin Range(list)
    <3>1. SameStream(sv, u, id)
      BY <1>1, <1>6, <2>2 DEF Range
    <3>2. id \notin Over(sv, s)
      BY <1>1, <2>2 DEF list
    <3> QED BY <3>1, <3>2 DEF Over, SameStream
  <2> QED BY <2>1, <2>2
<1>8. ASSUME Unbound(sv), NEW id \in Sessions, ~u.session[id].token
      PROVE  u.session[id].socket = NoSocket
  <2>1. CASE id \in Range(list)
    BY <1>1, <1>6, <2>1 DEF Range, IsUnset
  <2>2. CASE id \notin Range(list)
    <3>1. SameStream(sv, u, id)
      BY <1>1, <1>6, <2>2 DEF Range
    <3> QED BY <1>8, <3>1 DEF Unbound, SameStream
  <2> QED BY <2>1, <2>2
<1> DEFINE table == [u.streamingOn EXCEPT ![s] = <<>>]
           t == [u EXCEPT !.streamingOn = table]
<1>10. StopTCPStreaming(sv, s) = t
  BY <1>2 DEF u
<1>11. /\ table \in [Sockets -> Lists(Sessions)] /\ table[s] = <<>>
       /\ \A x \in Sockets \ {s} : table[x] = sv.streamingOn[x]
  <2>1. <<>> \in Lists(Sessions)
    BY EmptyList
  <2> QED BY <1>1, <1>6, <2>1
<1> HIDE DEF table
<1>12. /\ Sound(t) /\ SameWires(u, t) /\ t.streamingOn = table /\ t.session = u.session
  BY <1>6, <1>11, TableSound
<1> HIDE DEF t
<1>13. \A x \in Sockets : Over(t, x) = Over(u, x)
  BY <1>12 DEF Over
<1>14. Tabled(t)
  <2>1. Range(<<>>) = {}
    BY EmptyList
  <2> QED BY <1>1, <1>7, <1>11, <1>12, <1>13, <2>1 DEF Tabled
<1>15. SameLoop(sv, t) /\ HeardBut(sv, t, {s})
  BY <1>6, <1>12, SameWiresHear DEF SameLoop, StillHeard, HeardBut
<1>16. Unbound(sv) => Unbound(t)
  BY <1>8, <1>12 DEF Unbound
<1> QED BY <1>7, <1>10, <1>12, <1>13, <1>14, <1>15, <1>16

\* ~RTSPClientConnection but for the streams.
Closed(sv, s) ==
    [sv EXCEPT
        !.reader[s] = "nobody",
        !.connections = @ \ {s},
        !.handler = [x \in Sockets |-> IF sv.handler[x] = s THEN Deleted
                                       ELSE sv.handler[x]]]

\* A connection over whose socket nothing was set up can be closed.
LEMMA ClosedSound ==
    ASSUME NEW sv, Sound(sv), Tabled(sv), NEW s \in Sockets, Over(sv, s) = {}
    PROVE  LET t == Closed(sv, s)
           IN  /\ Sound(t) /\ Tabled(t) /\ HeardBut(sv, t, {s})
               /\ t.connections = sv.connections \ {s}
               /\ t.readLoop = sv.readLoop /\ t.deleteNext = sv.deleteNext
               /\ t.session = sv.session
<1> DEFINE reader == [sv.reader EXCEPT ![s] = "nobody"]
           connections == sv.connections \ {s}
           handler == [x \in Sockets |-> IF sv.handler[x] = s THEN Deleted
                                         ELSE sv.handler[x]]
           t == [sv EXCEPT !.reader = reader, !.connections = connections,
                           !.handler = handler]
<1>1. sv \in Fields /\ Wired(sv) /\ ~sv.internalError
  BY DEF Sound
<1>2. /\ reader \in [Sockets -> Readers] /\ connections \subseteq Sockets
      /\ reader[s] = "nobody"
      /\ \A x \in Sockets \ {s} : reader[x] = sv.reader[x]
  BY <1>1, FieldTypes DEF Readers
<1>3. /\ handler \in [Sockets -> Handlers]
      /\ \A x \in Sockets : handler[x] = IF sv.handler[x] = s THEN Deleted
                                         ELSE sv.handler[x]
  BY <1>1, FieldTypes DEF Handlers
<1>4. Closed(sv, s) = t
  BY <1>1 DEF Closed, Fields
<1>5. connections = sv.connections \ {s}
  OBVIOUS
<1> HIDE DEF reader, connections, handler
<1>6. /\ t \in Fields /\ t.connections = connections /\ t.reader = reader
      /\ t.handler = handler /\ t.channels = sv.channels
      /\ t.readLoop = sv.readLoop /\ t.deleteNext = sv.deleteNext
      /\ t.interface = sv.interface /\ t.streamingOn = sv.streamingOn
      /\ t.session = sv.session /\ t.replicas = sv.replicas
      /\ t.asked = sv.asked /\ t.internalError = sv.internalError
      /\ t.undefined = sv.undefined
  BY <1>1, <1>2, <1>3 DEF Fields
<1> HIDE DEF t
<1>7. \A x \in Sockets : HasDescriptor(t, x) <=> HasDescriptor(sv, x)
  BY <1>6 DEF HasDescriptor
<1>8. Plugged(t)
  BY <1>1, <1>6 DEF Wired, Plugged
<1>9. ASSUME NEW x \in Sockets
      PROVE  Attached(t, x)
  <2>1. Attached(sv, x)
    BY <1>1 DEF Wired
  <2> QED BY <1>2, <1>3, <1>5, <1>6, <1>7, <2>1, NoSockets DEF Attached
<1>10. Wired(t)
  BY <1>1, <1>6, <1>8, <1>9 DEF Wired
<1>11. ASSUME NEW x \in Sessions
       PROVE  StreamOK(t, x) /\ SinkOK(t, x)
  <2>1. StreamOK(sv, x) /\ SinkOK(sv, x)
    BY DEF Sound
  <2>2. sv.session[x].token /\ sv.session[x].interleaved => sv.session[x].socket # s
    BY DEF Over
  <2>3. StreamOK(t, x)
    BY <1>5, <1>6, <2>1, <2>2 DEF StreamOK
  <2>4. SinkOK(t, x)
    BY <1>6, <2>1 DEF SinkOK
  <2> QED BY <2>3, <2>4
<1>12. Sound(t)
  BY <1>1, <1>6, <1>10, <1>11 DEF Sound
<1>13. Tabled(t)
  BY <1>6 DEF Tabled, Over
<1>14. HeardBut(sv, t, {s})
  BY <1>2, <1>3, <1>5, <1>6, <1>7 DEF HeardBut, Listens
<1> QED BY <1>4, <1>5, <1>6, <1>12, <1>13, <1>14

\* ~RTSPClientConnection, perhaps while its socket is being read.
LEMMA CloseConnectionSound ==
    ASSUME NEW sv, Sound(sv), Tabled(sv), NEW s \in Sockets
    PROVE  LET t == CloseConnection(sv, s)
           IN  /\ Sound(t) /\ Tabled(t) /\ HeardBut(sv, t, {s})
               /\ t.connections = sv.connections \ {s}
               /\ t.readLoop = sv.readLoop
               /\ Unbound(sv) => Unbound(t)
<1> DEFINE u == StopTCPStreaming(sv, s)
           t == Closed(u, s)
<1>1. CloseConnection(sv, s) = t
  BY DEF CloseConnection, Closed
<1>2. /\ Sound(u) /\ Tabled(u) /\ SameLoop(sv, u)
      /\ Over(u, s) = {} /\ HeardBut(sv, u, {s})
      /\ Unbound(sv) => Unbound(u)
  BY StopTCPStreamingSound
<1> HIDE DEF u
<1>3. /\ Sound(t) /\ Tabled(t) /\ HeardBut(u, t, {s})
      /\ t.connections = u.connections \ {s}
      /\ t.readLoop = u.readLoop /\ t.session = u.session
  BY <1>2, ClosedSound
<1> HIDE DEF t
<1>4. HeardBut(sv, t, {s})
  BY <1>2, <1>3 DEF HeardBut
<1>5. Unbound(sv) => Unbound(t)
  BY <1>2, <1>3 DEF Unbound
<1> QED BY <1>1, <1>2, <1>3, <1>4, <1>5 DEF SameLoop

\* A descriptor that is not in its read loop goes, with its channels.
LEMMA DisposedSound ==
    ASSUME NEW sv, Sound(sv), NEW s \in Sockets, ~sv.deleteNext
    PROVE  LET t == Disposed(sv, s)
           IN  /\ Sound(t) /\ SameSessions(sv, t) /\ SameLoop(sv, t)
               /\ ~t.deleteNext /\ HeardBut(sv, t, {s})
               /\ t.handler = [sv.handler EXCEPT ![s] = NoSocket]
<1> DEFINE t == Disposed(sv, s)
<1>1. sv \in Fields /\ Wired(sv)
  BY DEF Sound
<1>2. /\ t \in Fields /\ SameSessions(sv, t)
      /\ t.readLoop = sv.readLoop /\ t.deleteNext = sv.deleteNext
      /\ t.undefined = sv.undefined
      /\ t.reader = [sv.reader EXCEPT ![s] = "nobody"]
      /\ t.handler = [sv.handler EXCEPT ![s] = NoSocket]
      /\ t.channels = [sv.channels EXCEPT ![s] = {}]
      /\ \A c \in Channels : t.interface[c] = IF c \in sv.channels[s] THEN NoSocket
                                              ELSE sv.interface[c]
  BY <1>1, DisposedFields
<1> HIDE DEF t
<1>3. /\ sv.reader \in [Sockets -> Readers] /\ sv.handler \in [Sockets -> Handlers]
      /\ sv.channels \in [Sockets -> SUBSET Channels]
      /\ t.connections = sv.connections /\ t.session = sv.session
  BY <1>1, <1>2, FieldTypes DEF SameSessions
<1>4. Plugged(t)
  BY <1>1, <1>2, <1>3, NoSockets DEF Wired, Plugged
<1>5. \A x \in Sockets \ {s} : HasDescriptor(t, x) <=> HasDescriptor(sv, x)
  BY <1>2, <1>3 DEF HasDescriptor
<1>6. Attached(t, s)
  BY <1>2, <1>3 DEF Attached
<1>7. ASSUME NEW x \in Sockets \ {s}
      PROVE  Attached(t, x)
  <2>1. Attached(sv, x)
    BY <1>1 DEF Wired
  <2> QED BY <1>2, <1>3, <1>5, <2>1 DEF Attached
<1>8. Wired(t)
  BY <1>2, <1>4, <1>6, <1>7 DEF Wired
<1>9. HeardBut(sv, t, {s})
  BY <1>2, <1>3, <1>5 DEF HeardBut, Listens
<1>10. \A c \in Channels : t.interface[c] \in {sv.interface[c], NoSocket}
  BY <1>2
<1>11. Sound(t)
  BY <1>2, <1>8, <1>10, UnpluggedSound
<1> QED BY <1>2, <1>3, <1>9, <1>11 DEF t, SameLoop

\* A descriptor that has met the end of the stream goes, and the connection on
\* its socket, if it is the one that is told.
LEMMA ReadErrorSound ==
    ASSUME NEW sv, Sound(sv), Tabled(sv), NEW s \in Sockets, ~sv.deleteNext,
           sv.readLoop = NoSocket, HasDescriptor(sv, s)
    PROVE  LET t == ReadError(sv, s)
           IN  /\ Settled(t) /\ t.connections \subseteq sv.connections
               /\ HeardBut(sv, t, Sockets \ t.connections)
               /\ Unbound(sv) => Unbound(t)
<1> DEFINE h == sv.handler[s]
           d == Disposed(sv, s)
           c == CloseConnection(d, h)
           undefined == d.undefined \/ h = Deleted
           u == [d EXCEPT !.undefined = undefined]
<1>1. /\ Sound(d) /\ SameSessions(sv, d) /\ SameLoop(sv, d)
      /\ ~d.deleteNext /\ HeardBut(sv, d, {s})
  BY DisposedSound
<1>2. Tabled(d) /\ (Unbound(sv) => Unbound(d))
  BY <1>1 DEF Tabled, Over, Unbound, SameSessions
<1>3. ReadError(sv, s) = IF h \in Sockets THEN c ELSE u
  BY DEF ReadError
<1>4. Listens(sv, s) => h = s
  BY DEF Listens
<1> HIDE DEF d, h
<1>5. CASE h \in Sockets
  <2>1. /\ Sound(c) /\ Tabled(c) /\ HeardBut(d, c, {h})
        /\ c.connections = d.connections \ {h}
        /\ c.readLoop = d.readLoop
        /\ Unbound(d) => Unbound(c)
    BY <1>1, <1>2, <1>5, CloseConnectionSound
  <2>2. ReadError(sv, s) = c
    BY <1>3, <1>5
  <2> HIDE DEF c
  <2>3. c.readLoop = NoSocket /\ ~c.deleteNext
    BY <1>1, <2>1, NoSockets DEF SameLoop, Sound, Wired
  <2>4. HeardBut(sv, c, Sockets \ c.connections)
    <3> SUFFICES ASSUME NEW x \in c.connections, x \in Sockets, Listens(sv, x)
                 PROVE  Listens(c, x)
      BY DEF HeardBut
    <3>1. x # h
      BY <2>1
    <3>2. x # s
      BY <1>4, <3>1
    <3>3. Listens(d, x)
      BY <1>1, <3>2 DEF HeardBut
    <3> QED BY <2>1, <3>1, <3>3 DEF HeardBut
  <2>5. c.connections \subseteq sv.connections
    BY <1>1, <2>1 DEF SameLoop
  <2> QED BY <1>2, <2>1, <2>2, <2>3, <2>4, <2>5 DEF Settled
<1>6. CASE h \notin Sockets
  <2>1. ReadError(sv, s) = u
    BY <1>3, <1>6
  <2>2. undefined \in BOOLEAN /\ (d.undefined => undefined)
    OBVIOUS
  <2>3. d \in Fields /\ Wired(d) /\ ~d.internalError
    BY <1>1 DEF Sound
  <2> HIDE DEF undefined
  <2>4. /\ u \in Fields /\ u.connections = d.connections /\ u.reader = d.reader
        /\ u.channels = d.channels /\ u.handler = d.handler
        /\ u.readLoop = d.readLoop /\ u.deleteNext = d.deleteNext
        /\ u.interface = d.interface /\ SameSessions(d, u)
        /\ d.undefined => u.undefined
    BY <2>2, <2>3 DEF Fields, SameSessions
  <2> HIDE DEF u
  <2>5. \A x \in Sockets : HasDescriptor(u, x) <=> HasDescriptor(d, x)
    BY <2>4 DEF HasDescriptor
  <2>6. Wired(u)
    BY <2>3, <2>4, <2>5 DEF Wired, Plugged, Attached, SameSessions
  <2>7. Sound(u)
    BY <1>1, <2>4, <2>6, UnpluggedSound
  <2>8. Tabled(u) /\ (Unbound(d) => Unbound(u))
    BY <1>2, <2>4 DEF Tabled, Over, Unbound, SameSessions
  <2>9. \A x \in Sockets : Listens(d, x) => Listens(u, x)
    BY <2>4, <2>5 DEF Listens
  <2>10. HeardBut(sv, u, Sockets \ u.connections)
    BY <1>1, <1>4, <1>6, <2>9 DEF HeardBut
  <2>11. u.readLoop = NoSocket /\ ~u.deleteNext
    BY <1>1, <2>4 DEF SameLoop
  <2>12. u.connections = sv.connections
    BY <1>1, <2>4 DEF SameLoop
  <2> QED BY <1>2, <2>1, <2>7, <2>8, <2>10, <2>11, <2>12 DEF Settled
<1> QED BY <1>5, <1>6


-----------------------------------------------------------------------------
(***************************************************************************)
(* Requests.                                                               *)
(***************************************************************************)

\* Who hears a client is a connection, and a connection listens exactly if it
\* hears its client itself.
LEMMA Hearing ==
    ASSUME NEW sv, Sound(sv), NEW s \in Sockets
    PROVE  /\ Hears(sv, s) => Listener(sv, s) \in sv.connections
           /\ HearsItself(sv, s) <=> Listens(sv, s)
<1>1. Attached(sv, s)
  BY DEF Sound, Wired
<1> QED BY <1>1, NoSockets DEF Attached, Hears, HearsItself, Listens, Listener

\* A read loop may begin.
LEMMA EnterSound ==
    ASSUME NEW sv, Settled(sv), NEW s \in Sockets
    PROVE  LET t == EnterReadLoop(sv, s)
           IN  /\ Sound(t) /\ Tabled(t) /\ ~t.deleteNext
               /\ SameSessions(sv, t) /\ StillHeard(sv, t)
               /\ Unbound(sv) => Unbound(t)
<1> DEFINE t == EnterReadLoop(sv, s)
<1>1. Sound(sv) /\ Tabled(sv) /\ ~sv.deleteNext
  BY DEF Settled
<1>2. sv \in Fields /\ Wired(sv)
  BY <1>1 DEF Sound
<1>3. /\ t \in Fields /\ Wired(t) /\ SameSessions(sv, t)
      /\ ~t.deleteNext /\ t.interface = sv.interface
      /\ StillHeard(sv, t)
  BY <1>1, <1>2, EnterWired
<1> HIDE DEF t
<1>4. Sound(t)
  <2>1. \A c \in Channels : t.interface[c] \in {sv.interface[c], NoSocket}
    BY <1>3
  <2> QED BY <1>1, <1>3, <2>1, UnpluggedSound
<1>5. Tabled(t) /\ (Unbound(sv) => Unbound(t))
  BY <1>1, <1>3 DEF Tabled, Over, Unbound, SameSessions
<1> QED BY <1>3, <1>4, <1>5 DEF t

\* And end, whatever the request has changed.
LEMMA LeaveSound ==
    ASSUME NEW sv, Sound(sv), Tabled(sv)
    PROVE  LET t == LeaveReadLoop(sv)
           IN  /\ Settled(t) /\ SameSessions(sv, t) /\ StillHeard(sv, t)
               /\ Unbound(sv) => Unbound(t)
<1> DEFINE t == LeaveReadLoop(sv)
<1>1. sv \in Fields /\ Wired(sv)
  BY DEF Sound
<1>2. /\ t \in Fields /\ Wired(t) /\ SameSessions(sv, t)
      /\ t.readLoop = NoSocket /\ ~t.deleteNext
      /\ \A c \in Channels : t.interface[c] \in {sv.interface[c], NoSocket}
      /\ StillHeard(sv, t)
  BY <1>1, LeaveWired
<1> HIDE DEF t
<1>3. Sound(t)
  BY <1>2, UnpluggedSound
<1>4. Tabled(t) /\ (Unbound(sv) => Unbound(t))
  BY <1>2 DEF Tabled, Over, Unbound, SameSessions
<1> QED BY <1>2, <1>3, <1>4 DEF Settled, t

\* A request is handled between the two.
LEMMA RequestSettled ==
    ASSUME NEW sv, Settled(sv), NEW s \in Sockets,
           NEW t, Sound(t), Tabled(t), Unbound(t), NEW deaf,
           HeardBut(EnterReadLoop(sv, s), t, deaf)
    PROVE  LET u == LeaveReadLoop(t)
           IN  Settled(u) /\ Unbound(u) /\ HeardBut(sv, u, deaf)
<1>1. StillHeard(sv, EnterReadLoop(sv, s))
  BY EnterSound
<1>2. /\ Settled(LeaveReadLoop(t)) /\ Unbound(LeaveReadLoop(t))
      /\ StillHeard(t, LeaveReadLoop(t))
  BY LeaveSound
<1>3. HeardBut(sv, LeaveReadLoop(t), deaf)
  BY <1>1, <1>2 DEF HeardBut, StillHeard
<1> QED BY <1>2, <1>3

\* SETUP, also in a read loop: only the connection of the old stream may lose
\* its hearing, and the new stream is over the socket of the request, or over
\* that of the old one.
LEMMA SetupSound ==
    ASSUME NEW sv, Settled(sv), Unbound(sv), NEW s \in Sockets,
           NEW h \in sv.connections, NEW id \in Sessions, NEW overTCP \in BOOLEAN
    PROVE  LET t == HandleSETUP(CreateSession(EnterReadLoop(sv, s), id), h, id, overTCP)
           IN  /\ Sound(t) /\ Tabled(t) /\ Unbound(t)
               /\ t.session[id].token /\ t.session[id].interleaved = overTCP
               /\ t.session[id].socket = IF overTCP THEN h ELSE sv.session[id].socket
               /\ h \in t.connections
               /\ HeardBut(EnterReadLoop(sv, s), t, SocketOf(sv, id))
<1> DEFINE e == EnterReadLoop(sv, s)
           c == CreateSession(e, id)
           t == HandleSETUP(c, h, id, overTCP)
<1>1. Sound(e) /\ Tabled(e) /\ SameSessions(sv, e) /\ Unbound(e)
  BY EnterSound
<1> HIDE DEF e
<1>2. /\ Sound(c) /\ SameWires(e, c) /\ c.streamingOn = e.streamingOn
      /\ c.session[id].exists
      /\ \A x \in Sessions : /\ c.session[x].token = e.session[x].token
                             /\ c.session[x].socket = e.session[x].socket
                             /\ c.session[x].interleaved = e.session[x].interleaved
  BY <1>1, CreateSessionSound
<1> HIDE DEF c
<1>3. Tabled(c) /\ Unbound(c)
  BY <1>1, <1>2 DEF Tabled, Over, Unbound
<1>4. h \in c.connections /\ h \in Sockets
  <2>1. sv \in Fields
    BY DEF Settled, Sound
  <2>2. sv.connections \subseteq Sockets
    BY <2>1, FieldTypes
  <2> QED BY <1>1, <1>2, <2>2 DEF SameWires, SameSessions
<1>5. /\ Sound(t) /\ Tabled(t) /\ SameLoop(c, t)
      /\ \A x \in Sessions \ {id} : SameStream(c, t, x)
      /\ t.session[id].token /\ t.session[id].interleaved = overTCP
      /\ t.session[id].socket = IF overTCP THEN h ELSE c.session[id].socket
      /\ HeardBut(c, t, SocketOf(c, id))
  BY <1>2, <1>3, <1>4, HandleSETUPSound
<1> HIDE DEF t
<1>6. Unbound(t)
  BY <1>3, <1>5 DEF Unbound, SameStream
<1>7. SocketOf(c, id) = SocketOf(sv, id) /\ c.session[id].socket = sv.session[id].socket
  BY <1>1, <1>2 DEF SocketOf, SameSessions
<1>8. StillHeard(e, c)
  BY <1>2, SameWiresHear
<1>9. HeardBut(e, t, SocketOf(sv, id))
  BY <1>5, <1>7, <1>8 DEF HeardBut, StillHeard
<1>10. h \in t.connections
  BY <1>4, <1>5 DEF SameLoop
<1> QED BY <1>5, <1>6, <1>7, <1>9, <1>10 DEF t, c, e

\* Who may lose its hearing by PLAY.
Played(sv, h, id) ==
    IF sv.session[id].token /\ sv.session[id].socket # NoSocket
    THEN Unmoved(sv, h, id) ELSE {}

\* PLAY
LEMMA HandlePLAYSound ==
    ASSUME NEW sv, Sound(sv), Tabled(sv), Unbound(sv), NEW id \in Sessions,
           NEW h \in sv.connections, NEW atHand \in AtHand, NEW fails
    PROVE  LET t == HandlePLAY(sv, h, id, atHand, fails)
           IN  /\ Sound(t) /\ Tabled(t) /\ Unbound(t)
               /\ HeardBut(sv, t, Played(sv, h, id))
<1>1. CASE sv.session[id].token
  <2> DEFINE t == StartPlaying(sv, h, id, atHand, fails)
  <2>1. /\ GoesOnBut(sv, t, Unmoved(sv, h, id))
        /\ sv.session[id].socket = NoSocket => GoesOn(sv, t)
    BY <1>1, StartPlayingSound
  <2>2. HandlePLAY(sv, h, id, atHand, fails) = t
    BY <1>1 DEF HandlePLAY
  <2> HIDE DEF t
  <2>3. Tabled(t) /\ Unbound(t)
    BY <2>1, GoesOnTabled
  <2>4. Sound(t) /\ HeardBut(sv, t, Played(sv, h, id))
    BY <1>1, <2>1 DEF GoesOn, GoesOnBut, Played
  <2> QED BY <2>2, <2>3, <2>4
<1>2. CASE ~sv.session[id].token
  BY <1>2 DEF HandlePLAY, HeardBut
<1> QED BY <1>1, <1>2

\* PAUSE
LEMMA HandlePAUSESound ==
    ASSUME NEW sv, Sound(sv), Tabled(sv), Unbound(sv), NEW id \in Sessions
    PROVE  LET t == HandlePAUSE(sv, id)
           IN  Sound(t) /\ Tabled(t) /\ Unbound(t) /\ StillHeard(sv, t)
<1>1. CASE sv.session[id].token
  <2> DEFINE t == Pause(sv, id)
  <2>1. /\ Sound(t) /\ SameWires(sv, t) /\ SameStreams(sv, t)
        /\ t.streamingOn = sv.streamingOn
    BY <1>1, PauseSound
  <2>2. HandlePAUSE(sv, id) = t
    BY <1>1 DEF HandlePAUSE
  <2> HIDE DEF t
  <2>3. Tabled(t) /\ Unbound(t)
    BY <2>1 DEF Tabled, Over, Unbound, SameStreams, SameStream
  <2>4. StillHeard(sv, t)
    BY <2>1, SameWiresHear
  <2> QED BY <2>1, <2>2, <2>3, <2>4
<1>2. CASE ~sv.session[id].token
  BY <1>2 DEF HandlePAUSE, StillHeard, HeardBut
<1> QED BY <1>1, <1>2

\* The end of a session leaves no socket to it.
LEMMA DeletedUnbound ==
    ASSUME NEW sv, NEW t, NEW id \in Sessions, Unbound(sv),
           \A x \in Sessions \ {id} : SameStream(sv, t, x),
           t.session[id] = NoSession
    PROVE  Unbound(t)
BY DEF Unbound, SameStream, NoSession

\* TEARDOWN
LEMMA HandleTEARDOWNSound ==
    ASSUME NEW sv, Sound(sv), Tabled(sv), Unbound(sv), NEW id \in Sessions
    PROVE  LET t == HandleTEARDOWN(sv, id)
           IN  /\ Sound(t) /\ Tabled(t) /\ Unbound(t)
               /\ HeardBut(sv, t, SocketOf(sv, id))
<1>1. CASE sv.session[id].token
  <2> DEFINE t == DeleteSession(sv, id)
  <2>1. /\ Sound(t) /\ Tabled(t)
        /\ \A x \in Sessions \ {id} : SameStream(sv, t, x)
        /\ t.session[id] = NoSession
        /\ HeardBut(sv, t, SocketOf(sv, id))
    BY <1>1, DeleteSessionSound
  <2>2. HandleTEARDOWN(sv, id) = t
    BY <1>1 DEF HandleTEARDOWN
  <2> HIDE DEF t
  <2>3. Unbound(t)
    BY <2>1, DeletedUnbound
  <2> QED BY <2>1, <2>2, <2>3
<1>2. CASE ~sv.session[id].token
  BY <1>2 DEF HandleTEARDOWN, HeardBut
<1> QED BY <1>1, <1>2

-----------------------------------------------------------------------------
(***************************************************************************)
(* The steps, each with the connections whose hearing it may take away.    *)
(***************************************************************************)

\* The invariant is kept, and so is the hearing of all but some connections.
Passes(deaf) == Inv' /\ HeardBut(server, server', deaf)

\* The connections that close.
Gone == Sockets \ server'.connections

\* A request comes in for a connection.
LEMMA IncomingFacts ==
    ASSUME Inv, NEW s \in Sockets, Incoming(s)
    PROVE  /\ Settled(server) /\ Unbound(server) /\ there \subseteq Sockets
           /\ Listener(server, s) \in server.connections
           /\ server.connections \subseteq Sockets
<1>1. Settled(server) /\ Unbound(server) /\ there \subseteq Sockets /\ Sound(server)
  BY DEF Inv, Settled
<1>2. Listener(server, s) \in server.connections
  BY <1>1, Hearing DEF Incoming
<1>3. server \in Fields
  BY <1>1 DEF Sound
<1>4. server.connections \subseteq Sockets
  BY <1>3, FieldTypes
<1> QED BY <1>1, <1>2, <1>4

\* With the old stream of session id its connection may lose its hearing.
LEMMA SetupPasses ==
    ASSUME Inv, NEW s \in Sockets, NEW id \in Sessions, NEW overTCP \in BOOLEAN,
           Setup(s, id, overTCP)
    PROVE  Passes(SocketOf(server, id))
<1> DEFINE deaf == SocketOf(server, id)
           h    == Listener(server, s)
           t    == HandleSETUP(CreateSession(EnterReadLoop(server, s), id),
                               h, id, overTCP)
<1>1. /\ Settled(server) /\ Unbound(server) /\ there \subseteq Sockets
      /\ h \in server.connections /\ there' = there /\ server' = LeaveReadLoop(t)
  BY IncomingFacts DEF Setup
<1> HIDE DEF h
<1>2. /\ Sound(t) /\ Tabled(t) /\ Unbound(t)
      /\ HeardBut(EnterReadLoop(server, s), t, deaf)
  BY <1>1, SetupSound
<1> HIDE DEF t, deaf
<1>3. /\ Settled(LeaveReadLoop(t)) /\ Unbound(LeaveReadLoop(t))
      /\ HeardBut(server, LeaveReadLoop(t), deaf)
  BY <1>1, <1>2, RequestSettled
<1> QED BY <1>1, <1>3 DEF Passes, Inv, deaf

\* Playing the new one takes no other hearing away.
LEMMA SetupAndPlayPasses ==
    ASSUME Inv, NEW s \in Sockets, NEW id \in Sessions, NEW overTCP \in BOOLEAN,
           NEW atHand \in AtHand, NEW fails,
           SetupAndPlay(s, id, overTCP, atHand, fails)
    PROVE  Passes(SocketOf(server, id))
<1> DEFINE deaf == SocketOf(server, id)
           h    == Listener(server, s)
           t    == HandleSETUP(CreateSession(EnterReadLoop(server, s), id),
                               h, id, overTCP)
           u    == HandlePLAY(t, h, id, atHand, fails)
<1>1. /\ Settled(server) /\ Unbound(server) /\ there \subseteq Sockets
      /\ h \in server.connections /\ there' = there /\ server' = LeaveReadLoop(u)
  BY IncomingFacts DEF SetupAndPlay
<1> HIDE DEF h
<1>2. /\ Sound(t) /\ Tabled(t) /\ Unbound(t)
      /\ t.session[id].token /\ t.session[id].interleaved = overTCP
      /\ t.session[id].socket = IF overTCP THEN h ELSE server.session[id].socket
      /\ h \in t.connections
      /\ HeardBut(EnterReadLoop(server, s), t, deaf)
  BY <1>1, SetupSound
<1> HIDE DEF t
<1>3. Played(t, h, id) \subseteq deaf
  BY <1>1, <1>2 DEF Played, Unmoved, SocketOf, Unbound
<1> HIDE DEF deaf
<1>4. /\ Sound(u) /\ Tabled(u) /\ Unbound(u)
      /\ HeardBut(t, u, Played(t, h, id))
  BY <1>2, HandlePLAYSound
<1> HIDE DEF u
<1>5. HeardBut(EnterReadLoop(server, s), u, deaf)
  BY <1>2, <1>3, <1>4 DEF HeardBut
<1>6. /\ Settled(LeaveReadLoop(u)) /\ Unbound(LeaveReadLoop(u))
      /\ HeardBut(server, LeaveReadLoop(u), deaf)
  BY <1>1, <1>4, <1>5, RequestSettled
<1> QED BY <1>1, <1>6 DEF Passes, Inv, deaf

\* A session that stays without a stream disturbs none.
LEMMA SetupNotFoundPasses ==
    ASSUME Inv, NEW s \in Sockets, NEW id \in Sessions, SetupNotFound(s, id)
    PROVE  Passes({})
<1> DEFINE t == CreateSession(server, id)
<1>1. /\ Settled(server) /\ Unbound(server) /\ there \subseteq Sockets
      /\ there' = there /\ server' = t
  BY DEF Inv, SetupNotFound
<1>2. /\ Sound(t) /\ SameWires(server, t) /\ t.streamingOn = server.streamingOn
      /\ \A x \in Sessions :
             /\ t.session[x].token = server.session[x].token
             /\ t.session[x].socket = server.session[x].socket
             /\ t.session[x].interleaved = server.session[x].interleaved
  BY <1>1, CreateSessionSound DEF Settled
<1> HIDE DEF t
<1>3. Settled(t) /\ Unbound(t)
  BY <1>1, <1>2 DEF Settled, Tabled, Over, Unbound, SameWires
<1>4. StillHeard(server, t)
  BY <1>2, SameWiresHear
<1> QED BY <1>1, <1>3, <1>4 DEF Passes, Inv, StillHeard

\* Playing one may silence the connection of its socket.
LEMMA PlayPasses ==
    ASSUME Inv, NEW s \in Sockets, NEW id \in Sessions, NEW atHand \in AtHand,
           NEW fails, Play(s, id, atHand, fails)
    PROVE  Passes(Played(server, Listener(server, s), id))
<1> DEFINE e    == EnterReadLoop(server, s)
           h    == Listener(server, s)
           deaf == Played(server, h, id)
           t    == HandlePLAY(e, h, id, atHand, fails)
<1>1. /\ Settled(server) /\ Unbound(server) /\ there \subseteq Sockets
      /\ h \in server.connections /\ there' = there /\ server' = LeaveReadLoop(t)
  BY IncomingFacts DEF Play
<1> HIDE DEF h
<1>2. Sound(e) /\ Tabled(e) /\ Unbound(e) /\ SameSessions(server, e)
  BY <1>1, EnterSound
<1>3. h \in e.connections /\ deaf = Played(e, h, id)
  BY <1>1, <1>2 DEF SameSessions, Played, Unmoved
<1> HIDE DEF deaf
<1>4. Sound(t) /\ Tabled(t) /\ Unbound(t) /\ HeardBut(e, t, deaf)
  BY <1>2, <1>3, HandlePLAYSound
<1> HIDE DEF t
<1>5. /\ Settled(LeaveReadLoop(t)) /\ Unbound(LeaveReadLoop(t))
      /\ HeardBut(server, LeaveReadLoop(t), deaf)
  BY <1>1, <1>4, RequestSettled
<1> QED BY <1>1, <1>5 DEF Passes, Inv, deaf, h

\* Pausing one does not.
LEMMA PauseRequestPasses ==
    ASSUME Inv, NEW s \in Sockets, NEW id \in Sessions, PauseRequest(s, id)
    PROVE  Passes({})
<1> DEFINE e == EnterReadLoop(server, s)
           t == HandlePAUSE(e, id)
<1>1. /\ Settled(server) /\ Unbound(server) /\ there \subseteq Sockets
      /\ there' = there /\ server' = LeaveReadLoop(t)
  BY DEF Inv, PauseRequest
<1>2. Sound(e) /\ Tabled(e) /\ Unbound(e)
  BY <1>1, EnterSound
<1>3. Sound(t) /\ Tabled(t) /\ Unbound(t) /\ StillHeard(e, t)
  BY <1>2, HandlePAUSESound
<1> HIDE DEF t
<1>4. HeardBut(EnterReadLoop(server, s), t, {})
  BY <1>3 DEF StillHeard
<1>5. /\ Settled(LeaveReadLoop(t)) /\ Unbound(LeaveReadLoop(t))
      /\ HeardBut(server, LeaveReadLoop(t), {})
  BY <1>1, <1>3, <1>4, RequestSettled
<1> QED BY <1>1, <1>5 DEF Passes, Inv

\* Ending one may.
LEMMA TeardownPasses ==
    ASSUME Inv, NEW s \in Sockets, NEW id \in Sessions, Teardown(s, id)
    PROVE  Passes(SocketOf(server, id))
<1> DEFINE e    == EnterReadLoop(server, s)
           deaf == SocketOf(server, id)
           t    == HandleTEARDOWN(e, id)
<1>1. /\ Settled(server) /\ Unbound(server) /\ there \subseteq Sockets
      /\ there' = there /\ server' = LeaveReadLoop(t)
  BY DEF Inv, Teardown
<1>2. Sound(e) /\ Tabled(e) /\ Unbound(e) /\ SameSessions(server, e)
  BY <1>1, EnterSound
<1>3. SocketOf(e, id) = deaf
  BY <1>2 DEF SocketOf, SameSessions
<1>4. Sound(t) /\ Tabled(t) /\ Unbound(t) /\ HeardBut(e, t, SocketOf(e, id))
  BY <1>2, HandleTEARDOWNSound
<1> HIDE DEF t, deaf
<1>5. /\ Settled(LeaveReadLoop(t)) /\ Unbound(LeaveReadLoop(t))
      /\ HeardBut(server, LeaveReadLoop(t), deaf)
  BY <1>1, <1>3, <1>4, RequestSettled
<1> QED BY <1>1, <1>5 DEF Passes, Inv, deaf

\* A connection that closes in a read loop takes no other's hearing away, and if
\* the descriptor reads on, only those lose theirs that close as well.
LEMMA RequestTooLongPasses ==
    ASSUME Inv, NEW s \in Sockets, RequestTooLong(s)
    PROVE  Passes(Gone)
<1> DEFINE e == EnterReadLoop(server, s)
           h == Listener(server, s)
           u == CloseConnection(e, h)
           t == LeaveReadLoop(u)
           r == ReadError(t, s)
<1>1. /\ Settled(server) /\ Unbound(server) /\ there \subseteq Sockets
      /\ h \in Sockets /\ there' = there
      /\ server' = IF t.channels[s] # {} /\ s \notin t.connections THEN r ELSE t
  BY IncomingFacts DEF RequestTooLong
<1> HIDE DEF h
<1>2. Sound(e) /\ Tabled(e) /\ Unbound(e)
  BY <1>1, EnterSound
<1>3. /\ Sound(u) /\ Tabled(u) /\ Unbound(u) /\ HeardBut(e, u, {h})
      /\ u.connections = e.connections \ {h}
  BY <1>1, <1>2, CloseConnectionSound
<1> HIDE DEF u
<1>4. Settled(t) /\ Unbound(t) /\ HeardBut(server, t, {h})
  BY <1>1, <1>3, RequestSettled
<1>5. SameSessions(u, t)
  BY <1>3, LeaveSound
<1> HIDE DEF t
<1>6. h \notin t.connections
  BY <1>3, <1>5 DEF SameSessions
<1>7. CASE t.channels[s] # {} /\ s \notin t.connections
  <2>1. Sound(t) /\ Tabled(t) /\ ~t.deleteNext /\ t.readLoop = NoSocket
    BY <1>4 DEF Settled
  <2>2. HasDescriptor(t, s)
    BY <1>7 DEF HasDescriptor
  <2>3. /\ Settled(r) /\ r.connections \subseteq t.connections
        /\ HeardBut(t, r, Sockets \ r.connections)
        /\ Unbound(r)
    BY <1>4, <2>1, <2>2, ReadErrorSound
  <2>4. server' = r
    BY <1>1, <1>7
  <2> HIDE DEF r
  <2>5. HeardBut(server, r, Sockets \ r.connections)
    BY <1>1, <1>4, <1>6, <2>3 DEF HeardBut
  <2> QED BY <1>1, <2>3, <2>4, <2>5 DEF Passes, Inv, Gone
<1>8. CASE ~(t.channels[s] # {} /\ s \notin t.connections)
  <2>1. server' = t
    BY <1>1, <1>8
  <2>2. HeardBut(server, t, Sockets \ t.connections)
    BY <1>1, <1>4, <1>6 DEF HeardBut
  <2> QED BY <1>1, <1>4, <2>1, <2>2 DEF Passes, Inv, Gone
<1> QED BY <1>7, <1>8

\* A new connection reads its socket.
LEMMA AcceptPasses ==
    ASSUME Inv, NEW s \in Sockets, Accept(s)
    PROVE  Passes({})
<1> DEFINE t == [server EXCEPT !.connections = @ \union {s},
                               !.reader[s] = "connection"]
<1>1. /\ Settled(server) /\ Unbound(server)
      /\ there \subseteq Sockets /\ there' = there \union {s}
      /\ s \notin server.connections /\ server' = t
  BY DEF Inv, Accept
<1>2. Sound(server) /\ server \in Fields /\ Wired(server) /\ ~server.deleteNext
  BY <1>1 DEF Settled, Sound
<1>3. server.reader \in [Sockets -> Readers] /\ server.connections \subseteq Sockets
  BY <1>2, FieldTypes
<1>4. [server.reader EXCEPT ![s] = "connection"] \in [Sockets -> Readers]
  BY <1>3 DEF Readers
<1>5. /\ t \in Fields
      /\ t.connections = server.connections \union {s}
      /\ t.reader = [server.reader EXCEPT ![s] = "connection"]
      /\ t.channels = server.channels /\ t.handler = server.handler
      /\ t.readLoop = server.readLoop /\ t.deleteNext = server.deleteNext
      /\ t.interface = server.interface /\ t.streamingOn = server.streamingOn
      /\ t.session = server.session /\ t.replicas = server.replicas
      /\ t.asked = server.asked /\ t.internalError = server.internalError
      /\ t.undefined = server.undefined
  BY <1>2, <1>3, <1>4 DEF Fields
<1> HIDE DEF t
<1>6. /\ t.reader[s] = "connection"
      /\ \A x \in Sockets \ {s} : t.reader[x] = server.reader[x]
      /\ \A x \in Sockets : HasDescriptor(t, x) <=> HasDescriptor(server, x)
  BY <1>3, <1>5 DEF HasDescriptor
<1>7. ASSUME NEW x \in Sockets
      PROVE  Attached(t, x)
  <2>1. Attached(server, x)
    BY <1>2 DEF Wired
  <2> QED BY <1>5, <1>6, <2>1 DEF Attached
<1>8. Wired(t)
  BY <1>2, <1>5, <1>7 DEF Wired, Plugged
<1>9. ASSUME NEW x \in Sessions
      PROVE  StreamOK(t, x) /\ SinkOK(t, x)
  <2>1. StreamOK(server, x) /\ SinkOK(server, x)
    BY <1>2 DEF Sound
  <2>2. StreamOK(t, x)
    BY <1>5, <2>1 DEF StreamOK
  <2>3. SinkOK(t, x)
    BY <1>5, <2>1 DEF SinkOK
  <2> QED BY <2>2, <2>3
<1>10. Sound(t)
  BY <1>2, <1>5, <1>8, <1>9 DEF Sound
<1>11. Settled(t) /\ Unbound(t)
  BY <1>1, <1>5, <1>10 DEF Settled, Tabled, Over, Unbound
<1>12. HeardBut(server, t, {})
  BY <1>1, <1>5, <1>6 DEF HeardBut, Listens
<1> QED BY <1>1, <1>11, <1>12 DEF Passes, Inv

\* The end of a connection takes no other's hearing away.
LEMMA ConnectionReadsEndPasses ==
    ASSUME Inv, NEW s \in Sockets, ConnectionReadsEnd(s)
    PROVE  Passes(Gone)
<1> DEFINE t == CloseConnection(server, s)
<1>1. /\ Settled(server) /\ Unbound(server) /\ there \subseteq Sockets
      /\ there' = there /\ server' = t
  BY DEF Inv, ConnectionReadsEnd
<1>2. /\ Sound(t) /\ Tabled(t) /\ Unbound(t) /\ HeardBut(server, t, {s})
      /\ t.connections = server.connections \ {s}
      /\ t.readLoop = NoSocket
  BY <1>1, CloseConnectionSound DEF Settled
<1> HIDE DEF t
<1>3. ~t.deleteNext
  BY <1>2, NoSockets DEF Sound, Wired
<1> QED BY <1>1, <1>2, <1>3 DEF Passes, Inv, Settled, HeardBut, Gone

\* Nor does that of a descriptor, but of the connection it tells.
LEMMA DescriptorReadsEndPasses ==
    ASSUME Inv, NEW s \in Sockets, DescriptorReadsEnd(s)
    PROVE  Passes(Gone)
<1> DEFINE t == ReadError(server, s)
<1>1. /\ Settled(server) /\ Unbound(server) /\ there \subseteq Sockets
      /\ there' = there /\ server' = t /\ server.reader[s] = "descriptor"
  BY DEF Inv, DescriptorReadsEnd
<1>2. /\ Sound(server) /\ Tabled(server) /\ ~server.deleteNext
      /\ server.readLoop = NoSocket
  BY <1>1 DEF Settled
<1>3. HasDescriptor(server, s)
  BY <1>1, <1>2 DEF Sound, Wired, Attached
<1>4. /\ Settled(t) /\ Unbound(t)
      /\ HeardBut(server, t, Sockets \ t.connections)
  BY <1>1, <1>2, <1>3, ReadErrorSound
<1> HIDE DEF t
<1> QED BY <1>1, <1>4 DEF Passes, Inv, Gone

\* A call of a deleted connection is the last step.
LEMMA RequestToDeletedPasses ==
    ASSUME Inv, NEW s \in Sockets, RequestToDeleted(s)
    PROVE  Passes({})
<1> DEFINE t == [server EXCEPT !.undefined = TRUE]
<1>1. /\ Settled(server) /\ Unbound(server) /\ there \subseteq Sockets
      /\ there' = there /\ server' = t
  BY DEF Inv, RequestToDeleted
<1>2. Sound(server) /\ server \in Fields /\ Wired(server)
  BY <1>1 DEF Settled, Sound
<1>3. /\ t \in Fields /\ SameSessions(server, t)
      /\ t.reader = server.reader
      /\ t.channels = server.channels /\ t.handler = server.handler
      /\ t.readLoop = server.readLoop /\ t.deleteNext = server.deleteNext
      /\ t.interface = server.interface /\ t.undefined = TRUE
  BY <1>2 DEF Fields, SameSessions
<1> HIDE DEF t
<1>4. \A x \in Sockets : HasDescriptor(t, x) <=> HasDescriptor(server, x)
  BY <1>3 DEF HasDescriptor
<1>5. Wired(t)
  BY <1>2, <1>3, <1>4 DEF Wired, Plugged, Attached, SameSessions
<1>6. \A c \in Channels : t.interface[c] \in {server.interface[c], NoSocket}
  BY <1>3
<1>7. Sound(t)
  BY <1>2, <1>3, <1>5, <1>6, UnpluggedSound
<1>8. Settled(t) /\ Unbound(t)
  BY <1>1, <1>3, <1>7 DEF Settled, Tabled, Over, Unbound, SameSessions
<1>9. HeardBut(server, t, {})
  BY <1>3, <1>4 DEF HeardBut, Listens, SameSessions
<1> QED BY <1>1, <1>8, <1>9 DEF Passes, Inv

\* Clients that leave change nothing yet, not even within a packet.
LEMMA ClientPasses ==
    ASSUME Inv, NEW s \in Sockets, Client(s)
    PROVE  Passes({})
<1>1. /\ Settled(server) /\ Unbound(server) /\ there \subseteq Sockets
      /\ Sound(server) /\ server \in Fields
  BY DEF Inv, Settled, Sound
<1>2. CASE ClientLeaves(s)
  <2>1. server' = server /\ there' \subseteq there
    BY <1>2 DEF ClientLeaves
  <2> QED BY <1>1, <2>1 DEF Passes, Inv, HeardBut
<1>3. ASSUME NEW id \in Sessions, ClientLeavesWithinPacket(s, id)
      PROVE  Passes({})
  <2> DEFINE awaiting == [server.awaiting EXCEPT ![s] = {RTCP(id)}]
             t        == [server EXCEPT !.awaiting = awaiting]
  <2>1. server' = t /\ there' \subseteq there
    BY <1>1, <1>3 DEF ClientLeavesWithinPacket, Fields
  <2>2. awaiting \in [Sockets -> SUBSET Channels]
    BY <1>1, FieldTypes, ChannelFacts
  <2> HIDE DEF awaiting
  <2>3. /\ Sound(t) /\ SameWires(server, t) /\ t.streamingOn = server.streamingOn
        /\ t.session = server.session
    BY <1>1, <2>2, AwaitingSound
  <2> HIDE DEF t
  <2>4. Settled(t) /\ Unbound(t)
    BY <1>1, <2>3 DEF Settled, Tabled, Over, Unbound, SameWires
  <2>5. StillHeard(server, t)
    BY <2>3, SameWiresHear
  <2> QED BY <1>1, <2>1, <2>4, <2>5 DEF Passes, Inv, StillHeard
<1> QED BY <1>2, <1>3 DEF Client

\* Streams that go on leave everything settled.
LEMMA GoesOnPasses ==
    ASSUME Inv, there' = there, GoesOn(server, server')
    PROVE  Passes({})
<1>1. Settled(server) /\ Unbound(server) /\ there \subseteq Sockets
  BY DEF Inv
<1>2. GoesOnBut(server, server', {})
  BY DEF GoesOn
<1>3. Sound(server') /\ Wired(server') /\ server'.readLoop = NoSocket
  BY <1>1, <1>2 DEF GoesOnBut, SameLoop, Settled, Sound
<1>4. ~server'.deleteNext
  BY <1>3, NoSockets DEF Wired
<1>5. Tabled(server') /\ Unbound(server')
  BY <1>1, <1>2, GoesOnTabled DEF Settled
<1> QED BY <1>1, <1>2, <1>3, <1>4, <1>5 DEF Passes, Inv, Settled, GoesOnBut

\* So do a unit that arrives,
LEMMA FrameArrivesPasses ==
    ASSUME Inv, NEW id \in Sessions, NEW size \in NalSizes, NEW fails,
           FrameArrives(id, size, fails)
    PROVE  Passes({})
<1>1. Sound(server)
  BY DEF Inv, Settled
<1>2. GoesOn(server, server')
  BY <1>1, AfterGettingFrameSound DEF FrameArrives
<1> QED BY <1>2, GoesOnPasses DEF FrameArrives

\* the next packet of a sink,
LEMMA SendNextPasses ==
    ASSUME Inv, NEW id \in Sessions, NEW atHand \in AtHand, NEW fails,
           SendNext(id, atHand, fails)
    PROVE  Passes({})
<1>1. Sound(server)
  BY DEF Inv, Settled
<1>2. SinkOK(server, id) /\ server.session[id].sink = "sending"
  BY <1>1 DEF Sound, SendNext
<1>3. ToServe(server, id)
  BY <1>1, <1>2 DEF Sound, ToServe, SinkOK
<1>4. GoesOn(server, server')
  BY <1>3, BuildAndSendPacketSound DEF SendNext
<1> QED BY <1>4, GoesOnPasses DEF SendNext

\* and a report.
LEMMA ReportIsDuePasses ==
    ASSUME Inv, NEW id \in Sessions, NEW fails, ReportIsDue(id, fails)
    PROVE  Passes({})
<1>1. Sound(server)
  BY DEF Inv, Settled
<1>2. GoesOn(server, server')
  BY <1>1, SendReportSound DEF ReportIsDue
<1> QED BY <1>2, GoesOnPasses DEF ReportIsDue

\* A session that times out may take the hearing of its connection with it.
LEMMA LivenessTimeoutPasses ==
    ASSUME Inv, NEW id \in Sessions, LivenessTimeout(id)
    PROVE  Passes(SocketOf(server, id))
<1> DEFINE t == DeleteSession(server, id)
<1>1. /\ Settled(server) /\ Unbound(server) /\ there \subseteq Sockets
      /\ there' = there /\ server' = t
  BY DEF Inv, LivenessTimeout
<1>2. /\ Sound(t) /\ Tabled(t) /\ SameLoop(server, t)
      /\ \A x \in Sessions \ {id} : SameStream(server, t, x)
      /\ t.session[id] = NoSession
      /\ HeardBut(server, t, SocketOf(server, id))
  BY <1>1, DeleteSessionSound DEF Settled
<1> HIDE DEF t
<1>3. Wired(t) /\ t.readLoop = NoSocket
  BY <1>1, <1>2 DEF Sound, SameLoop, Settled
<1>4. Settled(t)
  BY <1>2, <1>3, NoSockets DEF Settled, Wired
<1>5. Unbound(t)
  BY <1>1, <1>2, DeletedUnbound
<1> QED BY <1>1, <1>2, <1>4, <1>5 DEF Passes, Inv

-----------------------------------------------------------------------------
(***************************************************************************)
(* The theorems.                                                           *)
(***************************************************************************)

\* At the start nobody streams, and there is no connection.
LEMMA InvInit == Init => Inv
<1> SUFFICES ASSUME Init PROVE Inv
  OBVIOUS
<1>1. /\ server.connections = {} /\ server.reader = [s \in Sockets |-> "nobody"]
      /\ server.channels = [s \in Sockets |-> {}]
      /\ server.handler = [s \in Sockets |-> NoSocket]
      /\ server.awaiting = [s \in Sockets |-> {}]
      /\ server.readLoop = NoSocket /\ server.deleteNext = FALSE
      /\ server.interface = [c \in Channels |-> NoSocket]
      /\ server.streamingOn = [s \in Sockets |-> <<>>]
      /\ server.session = [id \in Sessions |-> NoSession]
      /\ server.replicas = {} /\ server.asked = {}
      /\ server.internalError = FALSE /\ server.undefined = FALSE
  BY DEF Init
<1>2. NoSession \in SessionFields
  BY DEF NoSession, SessionFields, Sinks, Leftovers
<1>3. server \in Fields
  <2>1. <<>> \in Lists(Sessions) /\ Range(<<>>) = {}
    BY EmptyList
  <2>2. server.reader \in [Sockets -> Readers]
    BY <1>1 DEF Readers
  <2>3. server.streamingOn \in [Sockets -> Lists(Sessions)]
    BY <1>1, <2>1
  <2>4. server.session \in [Sessions -> SessionFields]
    BY <1>1, <1>2
  <2>5. server.handler \in [Sockets -> Handlers]
    BY <1>1 DEF Handlers
  <2> QED BY <2>2, <2>3, <2>4, <2>5 DEF Init, Fields
<1>4. Wired(server)
  BY <1>1, NoSockets DEF Wired, Plugged, Attached
<1>5. ASSUME NEW id \in Sessions
      PROVE  StreamOK(server, id) /\ SinkOK(server, id)
  <2>1. RTP(id) \in Channels /\ RTCP(id) \in Channels
    BY ChannelFacts
  <2>2. server.session[id] = NoSession
    BY <1>1
  <2> QED BY <1>1, <2>1, <2>2 DEF StreamOK, SinkOK, NoSession
<1>6. Sound(server)
  BY <1>1, <1>3, <1>4, <1>5 DEF Sound
<1>7. Tabled(server)
  <2>1. Range(<<>>) = {}
    BY EmptyList
  <2> QED BY <1>1, <2>1 DEF Tabled, Over, NoSession
<1>8. Unbound(server)
  BY <1>1 DEF Unbound, NoSession
<1> QED BY <1>1, <1>6, <1>7, <1>8 DEF Init, Inv, Settled

\* What is allowed to silence the connection on s.
Excused(s) ==
    \/ s \notin server.connections'
    \/ StreamsOver(s) # Interleaved(s)
    \/ EndsStreamOver(s)
    \/ PlaysFromElsewhere(s)

\* A connection that a step silences is excused.
Heeds ==
    \A s \in Sockets :
        HearsItself(server, s) /\ ~HearsItself(server, s)' => Excused(s)

\* It is enough that those which may lose their hearing are.
LEMMA Silenced ==
    ASSUME Inv, NEW deaf, Passes(deaf),
           \A s \in Sockets \intersect deaf : Excused(s)
    PROVE  Inv' /\ Heeds
<1>1. Inv' /\ HeardBut(server, server', deaf)
  BY DEF Passes
<1>2. Sound(server) /\ Sound(server')
  BY <1>1 DEF Inv, Settled
<1>3. ASSUME NEW s \in Sockets \ deaf, HearsItself(server, s)
      PROVE  HearsItself(server', s)
  BY <1>1, <1>2, <1>3, Hearing DEF HeardBut
<1>4. \A s \in Sockets \ deaf :
          ~(HearsItself(server, s) /\ ~HearsItself(server', s))
  BY <1>3
<1>5. Heeds
  BY <1>4 DEF Heeds, HearsItself
<1> QED BY <1>1, <1>5

\* The connections that close are.
LEMMA GoneExcused ==
    ASSUME Inv, Passes(Gone)
    PROVE  Inv' /\ Heeds
<1>1. \A s \in Sockets \intersect Gone : Excused(s)
  BY DEF Gone, Excused
<1> QED BY <1>1, Silenced

\* And the one of a stream that ends.
LEMMA EndsExcused ==
    ASSUME Inv, NEW id \in Sessions, Passes(SocketOf(server, id)),
           \A s \in Sockets : id \in StreamsOver(s) => EndsStreamOver(s)
    PROVE  Inv' /\ Heeds
<1>1. ASSUME NEW s \in Sockets, s \in SocketOf(server, id)
      PROVE  id \in StreamsOver(s)
  BY <1>1 DEF SocketOf, StreamsOver
<1>2. \A s \in Sockets \intersect SocketOf(server, id) : Excused(s)
  BY <1>1 DEF Excused
<1> QED BY <1>2, Silenced

\* Every step keeps the invariant, and silences no connection without reason.
LEMMA InvStep ==
    ASSUME Inv, Next
    PROVE  Inv' /\ Heeds
<1>1. ASSUME NEW r \in Sockets, NEW id \in Sessions, NEW overTCP \in BOOLEAN,
             Setup(r, id, overTCP)
      PROVE  Inv' /\ Heeds
  <2>1. Passes(SocketOf(server, id))
    BY <1>1, SetupPasses
  <2>2. ASSUME NEW s \in Sockets, id \in StreamsOver(s)
        PROVE  EndsStreamOver(s)
    BY <1>1, <2>2 DEF EndsStreamOver
  <2> QED BY <2>1, <2>2, EndsExcused
<1>2. ASSUME NEW r \in Sockets, NEW id \in Sessions, NEW overTCP \in BOOLEAN,
             NEW atHand \in AtHand, NEW fails \in SUBSET Kinds,
             SetupAndPlay(r, id, overTCP, atHand, fails)
      PROVE  Inv' /\ Heeds
  <2>1. Passes(SocketOf(server, id))
    BY <1>2, SetupAndPlayPasses
  <2>2. ASSUME NEW s \in Sockets, id \in StreamsOver(s)
        PROVE  EndsStreamOver(s)
    BY <1>2, <2>2 DEF EndsStreamOver
  <2> QED BY <2>1, <2>2, EndsExcused
<1>3. ASSUME NEW r \in Sockets, NEW id \in Sessions, Teardown(r, id)
      PROVE  Inv' /\ Heeds
  <2>1. Passes(SocketOf(server, id))
    BY <1>3, TeardownPasses
  <2>2. ASSUME NEW s \in Sockets, id \in StreamsOver(s)
        PROVE  EndsStreamOver(s)
    BY <1>3, <2>2 DEF EndsStreamOver
  <2> QED BY <2>1, <2>2, EndsExcused
<1>4. ASSUME NEW id \in Sessions, LivenessTimeout(id)
      PROVE  Inv' /\ Heeds
  <2>1. Passes(SocketOf(server, id))
    BY <1>4, LivenessTimeoutPasses
  <2>2. ASSUME NEW s \in Sockets, id \in StreamsOver(s)
        PROVE  EndsStreamOver(s)
    BY <1>4, <2>2 DEF EndsStreamOver
  <2> QED BY <2>1, <2>2, EndsExcused
<1>5. ASSUME NEW r \in Sockets, NEW id \in Sessions, NEW atHand \in AtHand,
             NEW fails \in SUBSET Kinds, Play(r, id, atHand, fails)
      PROVE  Inv' /\ Heeds
  <2> DEFINE h == Listener(server, r)
  <2>1. Passes(Played(server, h, id))
    BY <1>5, PlayPasses
  <2>2. ASSUME NEW s \in Sockets, s \in Played(server, h, id)
        PROVE  Excused(s)
    <3>1. /\ id \in StreamsOver(s)
          /\ ~server.session[id].interleaved \/ h # s
      BY <2>2 DEF Played, Unmoved, StreamsOver
    <3>2. CASE ~server.session[id].interleaved
      BY <3>1, <3>2 DEF Interleaved, Excused
    <3>3. CASE h # s
      <4>1. PlaysFromElsewhere(s)
        BY <1>5, <3>1, <3>3 DEF PlaysFromElsewhere
      <4> QED BY <4>1 DEF Excused
    <3> QED BY <3>1, <3>2, <3>3
  <2> HIDE DEF h
  <2> QED BY <2>1, <2>2, Silenced
<1>6. ASSUME Passes({})
      PROVE  Inv' /\ Heeds
  BY <1>6, Silenced
<1>7. ASSUME NEW s \in Sockets, NEW id \in Sessions,
             SetupNotFound(s, id) \/ PauseRequest(s, id)
      PROVE  Inv' /\ Heeds
  BY <1>6, <1>7, SetupNotFoundPasses, PauseRequestPasses
<1>8. ASSUME NEW s \in Sockets,
             Accept(s) \/ RequestToDeleted(s) \/ Client(s)
      PROVE  Inv' /\ Heeds
  BY <1>6, <1>8, AcceptPasses, RequestToDeletedPasses, ClientPasses
<1>9. ASSUME NEW s \in Sockets,
             RequestTooLong(s) \/ ConnectionReadsEnd(s) \/ DescriptorReadsEnd(s)
      PROVE  Inv' /\ Heeds
  BY <1>9, RequestTooLongPasses, ConnectionReadsEndPasses,
     DescriptorReadsEndPasses, GoneExcused
<1>10. ASSUME NEW id \in Sessions,
              \/ \E size \in NalSizes, fails \in SUBSET {"rtp"} :
                     FrameArrives(id, size, fails)
              \/ \E atHand \in AtHand, fails \in SUBSET {"rtp"} :
                     SendNext(id, atHand, fails)
              \/ \E fails \in SUBSET {"rtcp"} : ReportIsDue(id, fails)
       PROVE  Inv' /\ Heeds
  BY <1>6, <1>10, FrameArrivesPasses, SendNextPasses, ReportIsDuePasses
<1>11. ASSUME NEW s \in Sockets, NEW id \in Sessions, Request(s, id)
       PROVE  Inv' /\ Heeds
  BY <1>1, <1>2, <1>3, <1>5, <1>7, <1>11 DEF Request
<1>12. ASSUME NEW s \in Sockets, SocketHandler(s)
       PROVE  Inv' /\ Heeds
  BY <1>8, <1>9, <1>12 DEF SocketHandler
<1>13. ASSUME NEW id \in Sessions, Task(id)
       PROVE  Inv' /\ Heeds
  BY <1>4, <1>10, <1>13 DEF Task
<1> QED BY <1>8, <1>11, <1>12, <1>13 DEF Next

\* It holds throughout.
LEMMA AlwaysInv == Spec => []Inv
<1>1. Inv /\ [Next]_vars => Inv'
  <2>1. ASSUME Inv, UNCHANGED vars
        PROVE  Inv'
    BY <2>1 DEF vars, Inv, Settled, Sound, Tabled, Unbound
  <2> QED BY <2>1, InvStep
<1> QED BY <1>1, InvInit, PTL DEF Spec

\* The variables are of their types: between two handlers, in particular, no
\* read loop runs, and the table of streaming over TCP has no session twice.
THEOREM TypeCorrect == Spec => []TypeOK
<1>1. ASSUME NEW list \in Lists(Sessions)
      PROVE  list \in SeqOf(Sessions, Cardinality(Sessions))
  <2>1. IsFiniteSet(Sessions)
    BY SessionsAssumption
  <2>2. Len(list) <= Cardinality(Sessions) /\ Cardinality(Sessions) \in Nat
    <3>1. Range(list) \subseteq Sessions
      BY DEF Lists, Range
    <3>2. Cardinality(Range(list)) <= Cardinality(Sessions)
      BY <2>1, <3>1, FS_Subset
    <3> QED BY <2>1, <3>2, LengthOfList, FS_CardinalityType
  <2>3. list \in Seq(Sessions)
    BY DEF Lists
  <2>4. Len(list) \in 0 .. Cardinality(Sessions) /\ list \in [1 .. Len(list) -> Sessions]
    BY <2>2, <2>3
  <2> QED BY <2>4 DEF SeqOf
<1>2. Inv => TypeOK
  <2> SUFFICES ASSUME Inv PROVE TypeOK
    OBVIOUS
  <2>1. /\ server \in Fields /\ there \subseteq Sockets
        /\ server.readLoop = NoSocket /\ server.deleteNext = FALSE
    BY DEF Inv, Settled, Sound, Fields
  <2>2. server.streamingOn \in [Sockets -> SeqOf(Sessions, Cardinality(Sessions))]
    <3>1. server.streamingOn \in [Sockets -> Lists(Sessions)]
      BY <2>1, FieldTypes
    <3> QED BY <1>1, <3>1
  <2>3. server.handler \in [Sockets -> Sockets \union {NoSocket, Deleted}]
    BY <2>1, FieldTypes DEF Handlers
  <2> QED BY <2>1, <2>2, <2>3 DEF TypeOK, Fields, SessionFields, Readers, Sinks
<1> QED BY <1>2, AlwaysInv, PTL

\* The table of streaming over TCP has, for each socket, exactly the sessions
\* that stream over it since a SETUP over TCP, each once.
THEOREM TablesAgree == Spec => []TableAgrees
<1>1. Inv => TableAgrees
  <2> SUFFICES ASSUME Inv, NEW s \in Sockets
               PROVE  /\ ToSet(server.streamingOn[s]) = Interleaved(s)
                      /\ IsInjective(server.streamingOn[s])
    BY DEF TableAgrees
  <2>1. server \in Fields /\ Range(server.streamingOn[s]) = Over(server, s)
    BY DEF Inv, Settled, Sound, Tabled
  <2>2. server.streamingOn[s] \in Lists(Sessions)
    BY <2>1, FieldTypes
  <2>3. ToSet(server.streamingOn[s]) = Range(server.streamingOn[s])
    BY DEF ToSet, Range
  <2>4. Over(server, s) = Interleaved(s)
    BY DEF Over, Interleaved, StreamsOver
  <2> QED BY <2>1, <2>2, <2>3, <2>4 DEF Lists
<1> QED BY <1>1, AlwaysInv, PTL

\* Channels, interfaces, handlers and connections agree.
THEOREM DescriptorsAlwaysAgree == Spec => []DescriptorsAgree
<1>1. Inv => DescriptorsAgree
  <2> SUFFICES ASSUME Inv, NEW s \in Sockets
               PROVE  /\ \A c \in server.channels[s] :
                             server.interface[c] = s /\ c[1] \in StreamsOver(s)
                      /\ \A c \in Interleaved(s) \X Kinds :
                             server.interface[c] = s => c \in server.channels[s]
                      /\ server.reader[s] = "descriptor" => server.channels[s] # {}
                      /\ server.handler[s] # NoSocket => server.channels[s] # {}
                      /\ server.handler[s] \in
                             server.connections \union {NoSocket, Deleted}
                      /\ server.reader[s] # "nobody" =>
                             s \in server.connections \/ server.undefined
    BY DEF DescriptorsAgree
  <2>1. /\ server \in Fields /\ Plugged(server) /\ Attached(server, s)
        /\ ~server.deleteNext
        /\ \A id \in Sessions : StreamOK(server, id)
    BY DEF Inv, Settled, Sound, Wired
  <2>2. server.channels[s] \subseteq Channels
    BY <2>1, FieldTypes
  <2>3. ASSUME NEW c \in server.channels[s]
        PROVE  server.interface[c] = s /\ c[1] \in StreamsOver(s)
    <3>1. PICK id \in Sessions : c = RTP(id) \/ c = RTCP(id)
      BY <2>2 DEF Channels, Kinds, RTP, RTCP
    <3>2. c[1] = id
      BY <3>1 DEF RTP, RTCP
    <3>3. server.interface[c] = s /\ s # NoSocket
      BY <2>1, <2>2, NoSockets DEF Plugged
    <3>4. server.session[id].token /\ server.session[id].socket = s
      BY <2>1, <3>1, <3>3 DEF StreamOK
    <3> QED BY <3>2, <3>3, <3>4 DEF StreamsOver
  <2>4. ASSUME NEW c \in Interleaved(s) \X Kinds, server.interface[c] = s
        PROVE  c \in server.channels[s]
    <3>1. c \in Channels /\ server.session[c[1]].interleaved
      BY <2>4 DEF Interleaved, StreamsOver, Channels
    <3> QED BY <2>1, <2>4, <3>1 DEF Plugged
  <2> QED BY <2>1, <2>3, <2>4 DEF Attached, HasDescriptor
<1> QED BY <1>1, AlwaysInv, PTL

\* When a connection goes, so have the streams that were set up over it, unless
\* they have been set up for UDP again.
THEOREM StreamsEndWithConnections == Spec => []StreamsHaveConnections
<1>1. Inv => StreamsHaveConnections
  BY DEF Inv, Settled, Sound, StreamOK, StreamsHaveConnections, Interleaved, StreamsOver
<1> QED BY <1>1, AlwaysInv, PTL

\* Replicas, sinks and fragmenters are those of the streams that play, and no
\* replica is asked twice.
THEOREM PlayersAlwaysAgree == Spec => []PlayersAgree
<1>1. Inv => PlayersAgree
  BY DEF Inv, Settled, Sound, StreamOK, SinkOK, PlayersAgree
<1> QED BY <1>1, AlwaysInv, PTL

\* A connection stops hearing its client only by closing, or when a stream over
\* it is ended, or played from elsewhere, or has been set up for UDP again.
THEOREM HeardAlwaysUntilEnded == Spec => HeardUntilEnded
<1>1. Inv /\ [Next]_vars => [Heeds]_vars
  BY InvStep
<1> QED BY <1>1, AlwaysInv, PTL DEF Spec, HeardUntilEnded, Heeds, Excused

\* The packets of every unit that a sink can be given are the whole unit.
THEOREM FragmentsAlwaysWhole == Spec => []FragmentsAreWhole
<1>1. EveryUnitIsWhole
  <2>1. ASSUME NEW size \in UNION {1 .. largest : largest \in NalSizes}
        PROVE  size \in Nat \ {0}
    BY SizesAssumption
  <2> QED BY <2>1, FragmentsOfAnyUnit DEF EveryUnitIsWhole
<1>2. FragmentsAreWhole
  BY <1>1 DEF FragmentsAreWhole
<1> QED BY <1>2, PTL
=============================================================================
