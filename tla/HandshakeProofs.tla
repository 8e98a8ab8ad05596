--------------------------- MODULE HandshakeProofs ---------------------------
(***************************************************************************)
(* Link's client and server stay in step, for every value of the           *)
(* constants: the reassembly of records, and what a login or a call and    *)
(* its server know of each other at every position.                        *)
(***************************************************************************)
EXTENDS LinkProofs, SequenceTheorems

-----------------------------------------------------------------------------
(* Records in pieces *)

Words == {"CH", "SH", "CV", "NST", "Fin", "Alert", "ManualAuth", "Other", "hsS", "hsC", "appC", "appS"}
Transcript == Seq(Words)
Records == [key : Transcript, seq : Nat, type : Words, data : Transcript]
Chunks  == [rec : Records, part : 0..1]

\* What a concatenation is.
LEMMA Joined ==
  ASSUME NEW S, NEW u \in Seq(S), NEW v \in Seq(S)
  PROVE  /\ u \o v \in Seq(S) /\ Len(u \o v) = Len(u) + Len(v)
         /\ Len(u) \in Nat /\ Len(v) \in Nat
         /\ \A i \in 1..Len(u) : (u \o v)[i] = u[i]
         /\ \A i \in 1..Len(v) : (u \o v)[Len(u) + i] = v[i]
<1>1. /\ u \o v \in Seq(S) /\ Len(u \o v) = Len(u) + Len(v)
      /\ \A i \in 1..Len(u) + Len(v) : (u \o v)[i] = IF i <= Len(u) THEN u[i] ELSE v[i - Len(u)]
  BY ConcatProperties
<1>2. Len(u) \in Nat /\ Len(v) \in Nat
  BY LenProperties
<1>3. ASSUME NEW i \in 1..Len(u) PROVE (u \o v)[i] = u[i]
  <2>1. i \in 1..Len(u) + Len(v) /\ i <= Len(u)
    BY <1>2
  <2> QED BY <1>1, <2>1
<1>4. ASSUME NEW i \in 1..Len(v) PROVE (u \o v)[Len(u) + i] = v[i]
  <2>1. /\ Len(u) + i \in 1..Len(u) + Len(v) /\ ~(Len(u) + i <= Len(u))
        /\ (Len(u) + i) - Len(u) = i
    BY <1>2
  <2>2. (u \o v)[Len(u) + i] = v[(Len(u) + i) - Len(u)]
    BY <1>1, <2>1
  <2> QED BY <2>1, <2>2
<1> QED BY <1>1, <1>2, <1>3, <1>4

\* A sequence is cut in two.
LEMMA SplitAt ==
  ASSUME NEW S, NEW u \in Seq(S), NEW m \in 0..Len(u)
  PROVE  /\ SubSeq(u, 1, m) \in Seq(S) /\ Len(SubSeq(u, 1, m)) = m
         /\ SubSeq(u, m + 1, Len(u)) \in Seq(S) /\ Len(SubSeq(u, m + 1, Len(u))) = Len(u) - m
         /\ u = SubSeq(u, 1, m) \o SubSeq(u, m + 1, Len(u))
<1> DEFINE x == SubSeq(u, 1, m)
           y == SubSeq(u, m + 1, Len(u))
<1>1. x \in Seq(S) /\ Len(x) = m /\ \A i \in 1..m : x[i] = u[i]
  BY SubSeqProperties
<1>2. y \in Seq(S) /\ Len(y) = Len(u) - m /\ \A i \in 1..Len(u) - m : y[i] = u[m + i]
  <2>1. /\ Len(y) = IF m + 1 <= Len(u) THEN Len(u) - (m + 1) + 1 ELSE 0
        /\ y \in Seq(S) /\ \A i \in 1..Len(u) - (m + 1) + 1 : y[i] = u[m + 1 + i - 1]
    BY SubSeqProperties
  <2> HIDE DEF y
  <2> QED BY <2>1
<1> HIDE DEF x, y
<1>3. /\ x \o y \in Seq(S) /\ Len(x \o y) = m + (Len(u) - m)
      /\ \A i \in 1..m : (x \o y)[i] = x[i]
      /\ \A i \in 1..Len(u) - m : (x \o y)[m + i] = y[i]
  <2>1. /\ x \o y \in Seq(S) /\ Len(x \o y) = Len(x) + Len(y)
        /\ \A i \in 1..Len(x) : (x \o y)[i] = x[i]
        /\ \A i \in 1..Len(y) : (x \o y)[Len(x) + i] = y[i]
    BY <1>1, <1>2, Joined
  <2> QED BY <1>1, <1>2, <2>1
<1>4. ASSUME NEW i \in 1..Len(u) PROVE (x \o y)[i] = u[i]
  <2>1. CASE i <= m
    BY <1>1, <1>3, <2>1
  <2>2. CASE i > m
    <3>1. i - m \in 1..Len(u) - m /\ m + (i - m) = i
      BY <2>2
    <3> QED BY <1>2, <1>3, <3>1
  <2>3. i <= m \/ i > m
    <3>1. Len(u) \in Nat
      BY LenProperties
    <3> QED BY <3>1
  <2> QED BY <2>1, <2>2, <2>3
<1>5. u = x \o y
  <2>1. Len(x \o y) = Len(u)
    BY <1>3
  <2> QED BY <1>3, <1>4, <2>1, SeqEqual
<1> QED BY <1>1, <1>2, <1>5 DEF x, y

\* The same of pieces and of records.
LEMMA ChunksJoined ==
  \A u, v \in Seq(Chunks) :
    /\ u \o v \in Seq(Chunks) /\ Len(u \o v) = Len(u) + Len(v)
    /\ Len(u) \in Nat /\ Len(v) \in Nat
    /\ \A i \in 1..Len(u) : (u \o v)[i] = u[i]
    /\ \A i \in 1..Len(v) : (u \o v)[Len(u) + i] = v[i]
BY Joined

\* The same of records.
LEMMA RecordsJoined ==
  \A u, v \in Seq(Records) :
    /\ u \o v \in Seq(Records) /\ Len(u \o v) = Len(u) + Len(v)
    /\ Len(u) \in Nat /\ Len(v) \in Nat
    /\ \A i \in 1..Len(u) : (u \o v)[i] = u[i]
    /\ \A i \in 1..Len(v) : (u \o v)[Len(u) + i] = v[i]
BY Joined

\* Joining pieces is associative.
LEMMA ChunksAssociate == \A u, v, z \in Seq(Chunks) : (u \o v) \o z = u \o (v \o z)
BY ConcatAssociative

\* Two beginnings of one length leave the same end.
LEMMA SameTail ==
  ASSUME NEW u \in Seq(Chunks), NEW v \in Seq(Chunks), NEW x \in Seq(Chunks),
         NEW y \in Seq(Chunks), Len(u) = Len(v), u \o x = v \o y
  PROVE  x = y
<1>1. /\ Len(u \o x) = Len(u) + Len(x) /\ Len(u) \in Nat /\ Len(x) \in Nat
      /\ \A i \in 1..Len(x) : (u \o x)[Len(u) + i] = x[i]
  BY ChunksJoined
<1>2. /\ Len(v \o y) = Len(v) + Len(y) /\ Len(y) \in Nat
      /\ \A i \in 1..Len(y) : (v \o y)[Len(v) + i] = y[i]
  BY ChunksJoined
<1>3. Len(x) = Len(y)
  BY <1>1, <1>2
<1>4. \A i \in 1..Len(x) : x[i] = y[i]
  BY <1>1, <1>2, <1>3
<1> QED BY <1>3, <1>4, SeqEqual

\* A record is two pieces, the header and the payload.
LEMMA PiecesShape ==
  ASSUME NEW s \in Seq(Records)
  PROVE  /\ Pieces(s) \in Seq(Chunks) /\ Len(Pieces(s)) = 2 * Len(s)
         /\ \A i \in 1..2 * Len(s) : Pieces(s)[i] = [rec |-> s[(i + 1) \div 2], part |-> (i + 1) % 2]
<1>1. Len(s) \in Nat
  OBVIOUS
<1>2. \A i \in 1..2 * Len(s) : (i + 1) \div 2 \in 1..Len(s) /\ (i + 1) % 2 \in 0..1
  BY <1>1
<1>3. \A i \in 1..2 * Len(s) : s[(i + 1) \div 2] \in Records
  BY <1>2
<1> QED BY <1>1, <1>2, <1>3 DEF Pieces, Chunks

\* The pieces of two streams, one after the other.
LEMMA PiecesConcat ==
  ASSUME NEW s \in Seq(Records), NEW t \in Seq(Records)
  PROVE  Pieces(s \o t) = Pieces(s) \o Pieces(t)
<1>1. /\ s \o t \in Seq(Records) /\ Len(s \o t) = Len(s) + Len(t)
      /\ Len(s) \in Nat /\ Len(t) \in Nat
  BY RecordsJoined
<1>2. /\ Len(Pieces(s \o t)) = 2 * Len(s) + 2 * Len(t)
      /\ Len(Pieces(s) \o Pieces(t)) = 2 * Len(s) + 2 * Len(t)
      /\ Pieces(s \o t) \in Seq(Chunks) /\ Pieces(s) \o Pieces(t) \in Seq(Chunks)
  <2>1. \A u \in Seq(Records) : Pieces(u) \in Seq(Chunks) /\ Len(Pieces(u)) = 2 * Len(u)
    BY PiecesShape
  <2>2. /\ Pieces(s) \in Seq(Chunks) /\ Len(Pieces(s)) = 2 * Len(s)
        /\ Pieces(t) \in Seq(Chunks) /\ Len(Pieces(t)) = 2 * Len(t)
    BY <2>1
  <2>3. Pieces(s \o t) \in Seq(Chunks) /\ Len(Pieces(s \o t)) = 2 * (Len(s) + Len(t))
    BY <1>1, <2>1
  <2>4. /\ Pieces(s) \o Pieces(t) \in Seq(Chunks)
        /\ Len(Pieces(s) \o Pieces(t)) = Len(Pieces(s)) + Len(Pieces(t))
    BY <2>2, ChunksJoined
  <2> QED BY <1>1, <2>2, <2>3, <2>4
<1>3. ASSUME NEW i \in 1..2 * Len(s) + 2 * Len(t)
      PROVE  Pieces(s \o t)[i] = (Pieces(s) \o Pieces(t))[i]
  <2> DEFINE st == s \o t
  <2>1. Pieces(s \o t)[i] = [rec |-> (s \o t)[(i + 1) \div 2], part |-> (i + 1) % 2]
    <3>1. st \in Seq(Records) /\ i \in 1..2 * Len(st)
      BY <1>1
    <3> HIDE DEF st
    <3>2. Pieces(st)[i] = [rec |-> st[(i + 1) \div 2], part |-> (i + 1) % 2]
      BY <3>1, PiecesShape
    <3> QED BY <3>2 DEF st
  <2>2. CASE i <= 2 * Len(s)
    <3>1. (i + 1) \div 2 \in 1..Len(s) /\ i \in 1..2 * Len(s)
      BY <1>1, <2>2
    <3> HIDE DEF st
    <3>2. (Pieces(s) \o Pieces(t))[i] = Pieces(s)[i]
      <4> DEFINE u == Pieces(s)
                 v == Pieces(t)
      <4>1. u \in Seq(Chunks) /\ Len(u) = 2 * Len(s) /\ v \in Seq(Chunks)
        BY PiecesShape
      <4> HIDE DEF u, v
      <4>2. \A k \in 1..Len(u) : (u \o v)[k] = u[k]
        BY <4>1, ChunksJoined
      <4>3. (u \o v)[i] = u[i]
        BY <3>1, <4>1, <4>2
      <4> QED BY <4>3 DEF u, v
    <3>3. (s \o t)[(i + 1) \div 2] = s[(i + 1) \div 2]
      <4>1. \A k \in 1..Len(s) : (s \o t)[k] = s[k]
        BY RecordsJoined
      <4> QED BY <3>1, <4>1
    <3>4. Pieces(s)[i] = [rec |-> s[(i + 1) \div 2], part |-> (i + 1) % 2]
      BY <3>1, PiecesShape
    <3> QED BY <2>1, <3>2, <3>3, <3>4
  <2>3. CASE i > 2 * Len(s)
    <3> DEFINE j == i - 2 * Len(s)
    <3>1. /\ j \in 1..2 * Len(t) /\ (j + 1) \div 2 \in 1..Len(t)
          /\ (i + 1) \div 2 = Len(s) + ((j + 1) \div 2) /\ (i + 1) % 2 = (j + 1) % 2
      BY <1>1, <2>3
    <3>2. i = 2 * Len(s) + j
      BY <1>1
    <3> HIDE DEF j, st
    <3>3. (Pieces(s) \o Pieces(t))[i] = Pieces(t)[j]
      <4> DEFINE u == Pieces(s)
                 v == Pieces(t)
      <4>1. u \in Seq(Chunks) /\ Len(u) = 2 * Len(s) /\ v \in Seq(Chunks) /\ Len(v) = 2 * Len(t)
        BY PiecesShape
      <4> HIDE DEF u, v
      <4>2. \A k \in 1..Len(v) : (u \o v)[Len(u) + k] = v[k]
        BY <4>1, ChunksJoined
      <4>3. (u \o v)[2 * Len(s) + j] = v[j]
        BY <3>1, <4>1, <4>2
      <4> QED BY <3>2, <4>3 DEF u, v
    <3>4. (s \o t)[(i + 1) \div 2] = t[(j + 1) \div 2]
      <4> DEFINE m == (j + 1) \div 2
      <4>1. m \in 1..Len(t) /\ (i + 1) \div 2 = Len(s) + m
        BY <3>1
      <4> HIDE DEF m
      <4>2. (s \o t)[Len(s) + m] = t[m]
        BY <4>1, RecordsJoined
      <4>3. (s \o t)[(i + 1) \div 2] = t[m]
        BY <4>1, <4>2, Zenon
      <4> QED BY <4>3 DEF m
    <3>5. Pieces(t)[j] = [rec |-> t[(j + 1) \div 2], part |-> (j + 1) % 2]
      BY <3>1, PiecesShape
    <3> QED BY <2>1, <3>1, <3>3, <3>4, <3>5
  <2>4. i <= 2 * Len(s) \/ i > 2 * Len(s)
    BY <1>1
  <2> QED BY <2>2, <2>3, <2>4
<1> QED BY <1>1, <1>2, <1>3, SeqEqual

\* What is parsed of the pieces read so far: every whole record; a header alone stays.
LEMMA Reassembly ==
  ASSUME NEW b \in Seq(Chunks), NEW w \in Seq(Chunks), NEW s \in Seq(Records),
         b \o w = Pieces(s)
  PROVE  /\ Complete(b) = Len(b) \div 2 /\ Complete(b) \in 0..Len(s)
         /\ ParseRecords(b) = SubSeq(s, 1, Complete(b))
         /\ Rest(b) \in Seq(Chunks)
         /\ Rest(b) \o w = Pieces(SubSeq(s, Complete(b) + 1, Len(s)))
<1> DEFINE k == Len(b) \div 2
<1>1. Len(b) \in Nat /\ Len(w) \in Nat /\ Len(s) \in Nat /\ Len(b) + Len(w) = 2 * Len(s)
  <2>1. Len(b \o w) = Len(b) + Len(w) /\ Len(b) \in Nat /\ Len(w) \in Nat
    BY ChunksJoined
  <2>2. Len(Pieces(s)) = 2 * Len(s) /\ Len(s) \in Nat
    <3>1. \A u \in Seq(Records) : Len(Pieces(u)) = 2 * Len(u) /\ Len(u) \in Nat
      BY PiecesShape, LenProperties
    <3> QED BY <3>1
  <2>3. Len(b \o w) = Len(Pieces(s))
    OBVIOUS
  <2> QED BY <2>1, <2>2, <2>3
<1>2. k \in 0..Len(s) /\ 2 * k <= Len(b)
  BY <1>1
<1>3. ASSUME NEW i \in 1..Len(b)
      PROVE  b[i].rec = s[(i + 1) \div 2] /\ b[i].part = (i + 1) % 2
  <2>1. i \in 1..2 * Len(s)
    BY <1>1
  <2>2. b[i] = (b \o w)[i]
    BY ChunksJoined
  <2>3. Pieces(s)[i] = [rec |-> s[(i + 1) \div 2], part |-> (i + 1) % 2]
    BY <2>1, PiecesShape
  <2> QED BY <2>2, <2>3
<1>4. ASSUME NEW j \in 0..k PROVE Whole(b, j)
  <2>1. \A i \in 1..2 * j : i \in 1..Len(b)
    BY <1>1, <1>2
  <2> QED BY <1>3, <2>1 DEF Whole
<1>5. Complete(b) = k
  <2>1. k \in Nat /\ Len(b) \div 2 = k
    BY <1>2
  <2> HIDE DEF k
  <2>2. k \in 0..k /\ Whole(b, k) /\ \A j \in 0..k : Whole(b, j) => j <= k
    BY <1>4, <2>1
  <2>3. ASSUME NEW m \in 0..k, Whole(b, m) /\ \A j \in 0..k : Whole(b, j) => j <= m
        PROVE  m = k
    <3>1. k <= m /\ m <= k
      BY <2>1, <2>2, <2>3
    <3> QED BY <2>1, <3>1
  <2> QED BY <2>1, <2>2, <2>3 DEF Complete
<1>10. k \in Nat
  BY <1>2
<1> HIDE DEF k
<1>6. ParseRecords(b) = SubSeq(s, 1, k)
  <2>1. ASSUME NEW i \in 1..k PROVE b[2 * i].rec = s[i]
    <3>1. 2 * i \in 1..Len(b) /\ (2 * i + 1) \div 2 = i
      BY <1>1, <1>2, <1>10
    <3>2. b[2 * i].rec = s[(2 * i + 1) \div 2]
      BY <1>3, <3>1
    <3> QED BY <3>1, <3>2
  <2>2. SubSeq(s, 1, k) = [i \in 1..k |-> s[i]]
    BY <1>1, <1>2
  <2> QED BY <1>5, <2>1, <2>2 DEF ParseRecords
<1> DEFINE t == SubSeq(s, k + 1, Len(s))
           r == SubSeq(b, 2 * k + 1, Len(b))
<1>7. t \in Seq(Records) /\ Len(t) = Len(s) - k /\ s = SubSeq(s, 1, k) \o t
  BY <1>1, <1>2, SplitAt
<1>8. 2 * k \in 0..Len(b) /\ r \in Seq(Chunks) /\ Len(r) = Len(b) - 2 * k
  <2>1. 2 * k \in 0..Len(b)
    BY <1>1, <1>2, <1>10
  <2> QED BY <2>1, SplitAt
<1>9. r \o w = Pieces(t)
  <2> DEFINE x == SubSeq(s, 1, k)
             y == SubSeq(b, 1, 2 * k)
  <2>1. x \in Seq(Records) /\ Len(x) = k
    BY <1>2, SplitAt
  <2>2. y \in Seq(Chunks) /\ Len(y) = 2 * k /\ b = y \o r
    BY <1>8, SplitAt
  <2>3. Pieces(x) \in Seq(Chunks) /\ Len(Pieces(x)) = 2 * k /\ Pieces(t) \in Seq(Chunks)
    <3>1. \A u \in Seq(Records) : Pieces(u) \in Seq(Chunks) /\ Len(Pieces(u)) = 2 * Len(u)
      BY PiecesShape
    <3> HIDE DEF x, t
    <3> QED BY <2>1, <1>7, <3>1
  <2>4. Pieces(s) = Pieces(x) \o Pieces(t)
    <3>1. \A u, v \in Seq(Records) : Pieces(u \o v) = Pieces(u) \o Pieces(v)
      BY PiecesConcat
    <3>2. s = x \o t
      BY <1>7
    <3> HIDE DEF x, t
    <3> QED BY <2>1, <1>7, <3>1, <3>2
  <2>5. b \o w = y \o (r \o w)
    <3> HIDE DEF y, r
    <3>1. (y \o r) \o w = y \o (r \o w)
      BY <1>8, <2>2, ChunksAssociate
    <3> QED BY <2>2, <3>1
  <2>6. r \o w \in Seq(Chunks)
    <3> HIDE DEF r
    <3> QED BY <1>8, ChunksJoined
  <2> HIDE DEF r, t, x, y
  <2> QED BY <2>2, <2>3, <2>4, <2>5, <2>6, SameTail
<1>11. Complete(b) = Len(b) \div 2 /\ Complete(b) \in 0..Len(s)
  BY <1>2, <1>5 DEF k
<1>12. Rest(b) = r
  BY <1>5 DEF Rest
<1> HIDE DEF r
<1> QED BY <1>5, <1>6, <1>8, <1>9, <1>11, <1>12

\* The records parsed, the pieces read and the pieces on their way are the records expected, in
\* order, each once.
Stream(q, b, w, expected) ==
  /\ q \in Seq(Records) /\ b \in Seq(Chunks) /\ w \in Seq(Chunks)
  /\ \E s \in Seq(Records) : b \o w = Pieces(s) /\ q \o s = expected

\* Parsing keeps the stream.
LEMMA StreamParse ==
  ASSUME NEW b, NEW w, NEW expected, Stream(<<>>, b, w, expected)
  PROVE  Stream(ParseRecords(b), Rest(b), w, expected)
<1>1. b \in Seq(Chunks) /\ w \in Seq(Chunks)
  BY DEF Stream
<1>2. PICK s \in Seq(Records) : b \o w = Pieces(s) /\ <<>> \o s = expected
  BY DEF Stream
<1>3. s = expected
  BY <1>2, ConcatEmptySeq
<1> DEFINE k == Complete(b)
           x == SubSeq(s, 1, k)
           y == SubSeq(s, k + 1, Len(s))
<1>4. /\ k \in 0..Len(s) /\ ParseRecords(b) = x
      /\ Rest(b) \in Seq(Chunks) /\ Rest(b) \o w = Pieces(y)
  BY <1>1, <1>2, Reassembly
<1>5. x \in Seq(Records) /\ y \in Seq(Records) /\ s = x \o y
  BY <1>4, SplitAt
<1> HIDE DEF x, y
<1> QED BY <1>1, <1>3, <1>4, <1>5 DEF Stream

\* Reading keeps it, however many pieces arrive at once.
LEMMA StreamRead ==
  ASSUME NEW q, NEW b, NEW w, NEW expected, Stream(q, b, w, expected), NEW n \in 1..Len(w)
  PROVE  Stream(q, b \o SubSeq(w, 1, n), SubSeq(w, n + 1, Len(w)), expected)
<1> DEFINE x == SubSeq(w, 1, n)
           y == SubSeq(w, n + 1, Len(w))
<1>1. q \in Seq(Records) /\ b \in Seq(Chunks) /\ w \in Seq(Chunks)
  BY DEF Stream
<1>2. n \in 0..Len(w)
  OBVIOUS
<1>3. x \in Seq(Chunks) /\ y \in Seq(Chunks) /\ w = x \o y
  BY <1>1, <1>2, SplitAt
<1> HIDE DEF x, y
<1>4. b \o x \in Seq(Chunks) /\ (b \o x) \o y = b \o w
  <2>1. b \in Seq(Chunks) /\ x \in Seq(Chunks) /\ y \in Seq(Chunks)
    BY <1>1, <1>3
  <2>2. b \o x \in Seq(Chunks)
    BY <2>1, ChunksJoined
  <2>3. (b \o x) \o y = b \o (x \o y)
    BY <2>1, ChunksAssociate, Zenon
  <2> QED BY <1>3, <2>2, <2>3
<1> QED BY <1>1, <1>3, <1>4 DEF Stream, x, y

\* The first record parsed is the first expected.
LEMMA StreamHead ==
  ASSUME NEW q, NEW b, NEW w, NEW expected, Stream(q, b, w, expected), q # <<>>
  PROVE  /\ expected \in Seq(Records) /\ expected # <<>> /\ Head(q) = expected[1]
         /\ Stream(Tail(q), b, w, SubSeq(expected, 2, Len(expected)))
<1>1. q \in Seq(Records) /\ b \in Seq(Chunks) /\ w \in Seq(Chunks)
  BY DEF Stream
<1>2. PICK s \in Seq(Records) : b \o w = Pieces(s) /\ q \o s = expected
  BY DEF Stream
<1>3. /\ expected \in Seq(Records) /\ Len(expected) = Len(q) + Len(s) /\ Len(s) \in Nat
      /\ Len(q) \in Nat \ {0} /\ \A i \in 1..Len(q) : expected[i] = q[i]
      /\ \A i \in 1..Len(s) : expected[Len(q) + i] = s[i]
  <2>1. Len(q) \in Nat \ {0}
    BY <1>1, EmptySeq
  <2> QED BY <1>1, <1>2, <2>1, RecordsJoined
<1>4. expected # <<>> /\ Head(q) = expected[1]
  BY <1>1, <1>3
<1> DEFINE t == SubSeq(expected, 2, Len(expected))
<1>5. /\ Tail(q) \in Seq(Records) /\ Len(Tail(q)) = Len(q) - 1
      /\ \A i \in 1..Len(q) - 1 : Tail(q)[i] = q[i + 1]
  BY <1>1, HeadTailProperties
<1>6. /\ Tail(q) \o s \in Seq(Records) /\ Len(Tail(q) \o s) = Len(q) - 1 + Len(s)
      /\ \A i \in 1..Len(q) - 1 : (Tail(q) \o s)[i] = q[i + 1]
      /\ \A i \in 1..Len(s) : (Tail(q) \o s)[Len(q) - 1 + i] = s[i]
  <2> DEFINE u == Tail(q)
  <2>1. u \in Seq(Records) /\ Len(u) = Len(q) - 1 /\ \A i \in 1..Len(q) - 1 : u[i] = q[i + 1]
    BY <1>5
  <2> HIDE DEF u
  <2>2. /\ u \o s \in Seq(Records) /\ Len(u \o s) = Len(u) + Len(s)
        /\ \A i \in 1..Len(u) : (u \o s)[i] = u[i]
        /\ \A i \in 1..Len(s) : (u \o s)[Len(u) + i] = s[i]
    BY <2>1, RecordsJoined
  <2>3. /\ u \o s \in Seq(Records) /\ Len(u \o s) = Len(q) - 1 + Len(s)
        /\ \A i \in 1..Len(q) - 1 : (u \o s)[i] = q[i + 1]
        /\ \A i \in 1..Len(s) : (u \o s)[Len(q) - 1 + i] = s[i]
    BY <2>1, <2>2
  <2> QED BY <2>3 DEF u
<1>7. /\ t \in Seq(Records) /\ Len(t) = Len(expected) - 1
      /\ \A i \in 1..Len(expected) - 1 : t[i] = expected[1 + i]
  <2>1. \A i \in 2..Len(expected) : expected[i] \in Records
    BY <1>3
  <2>2. /\ t \in Seq(Records)
        /\ Len(t) = IF 2 <= Len(expected) THEN Len(expected) - 2 + 1 ELSE 0
        /\ \A i \in 1..Len(expected) - 2 + 1 : t[i] = expected[2 + i - 1]
    BY <1>3, <2>1, SubSeqProperties
  <2> HIDE DEF t
  <2> QED BY <1>3, <2>2
<1> HIDE DEF t
<1>8. ASSUME NEW i \in 1..Len(t) PROVE (Tail(q) \o s)[i] = t[i]
  <2>1. CASE i <= Len(q) - 1
    <3>1. i \in 1..Len(q) - 1 /\ i + 1 \in 1..Len(q) /\ i \in 1..Len(expected) - 1
      BY <1>3, <1>7, <2>1
    <3> QED BY <1>3, <1>6, <1>7, <3>1
  <2>2. CASE i > Len(q) - 1
    <3> DEFINE j == i - (Len(q) - 1)
    <3>1. /\ j \in 1..Len(s) /\ Len(q) - 1 + j = i /\ Len(q) + j = 1 + i
          /\ i \in 1..Len(expected) - 1
      BY <1>3, <1>7, <2>2
    <3> HIDE DEF j
    <3>2. (Tail(q) \o s)[Len(q) - 1 + j] = s[j]
      BY <1>6, <3>1
    <3>3. expected[Len(q) + j] = s[j]
      BY <1>3, <3>1
    <3>4. t[i] = expected[1 + i]
      BY <1>7, <3>1
    <3> QED BY <3>1, <3>2, <3>3, <3>4
  <2>3. i <= Len(q) - 1 \/ i > Len(q) - 1
    BY <1>3
  <2> QED BY <2>1, <2>2, <2>3
<1>9. Tail(q) \o s = t
  <2>1. Len(Tail(q) \o s) = Len(t)
    BY <1>3, <1>6, <1>7
  <2> HIDE DEF t
  <2>2. \A u, v \in Seq(Records) : Len(u) = Len(v) /\ (\A i \in 1..Len(v) : u[i] = v[i]) => u = v
    BY SeqEqual
  <2> QED BY <1>6, <1>7, <1>8, <2>1, <2>2
<1> QED BY <1>1, <1>2, <1>3, <1>4, <1>5, <1>9 DEF Stream, t

\* With nothing parsed, no whole record read and nothing on its way, nothing is expected.
LEMMA StreamEnd ==
  ASSUME NEW b, NEW expected, Stream(<<>>, b, <<>>, expected), Complete(b) = 0
  PROVE  expected = <<>>
<1>1. b \in Seq(Chunks) /\ <<>> \in Seq(Chunks)
  BY DEF Stream
<1>2. PICK s \in Seq(Records) : b \o <<>> = Pieces(s) /\ <<>> \o s = expected
  BY DEF Stream
<1>3. s = expected
  BY <1>2, ConcatEmptySeq
<1>4. Len(b) \in Nat /\ Len(b) \div 2 = 0
  <2>1. Len(b) \in Nat
    BY <1>1, LenProperties
  <2>2. Complete(b) = Len(b) \div 2
    BY <1>1, <1>2, Reassembly
  <2> QED BY <2>1, <2>2
<1>5. Len(b) = 2 * Len(s) /\ Len(s) \in Nat
  <2>1. \A u \in Seq(Records) : Len(Pieces(u)) = 2 * Len(u) /\ Len(u) \in Nat
    BY PiecesShape, LenProperties
  <2>2. b \o <<>> = b
    BY <1>1, ConcatEmptySeq
  <2> QED BY <1>2, <2>1, <2>2
<1>6. Len(s) = 0
  BY <1>4, <1>5
<1> QED BY <1>3, <1>6, EmptySeq

\* With nothing expected, nothing is there.
LEMMA StreamNone ==
  ASSUME NEW q, NEW b, NEW w, Stream(q, b, w, <<>>)
  PROVE  q = <<>> /\ b = <<>> /\ w = <<>>
<1>1. q \in Seq(Records) /\ b \in Seq(Chunks) /\ w \in Seq(Chunks)
  BY DEF Stream
<1>2. PICK s \in Seq(Records) : b \o w = Pieces(s) /\ q \o s = <<>>
  BY DEF Stream
<1>3. q = <<>> /\ s = <<>>
  BY <1>1, <1>2, ConcatEqualIffEmpty
<1>4. Pieces(s) = <<>>
  <2>1. Len(s) = 0
    BY <1>3
  <2>2. Pieces(s) \in Seq(Chunks) /\ Len(Pieces(s)) = 2 * Len(s)
    BY PiecesShape
  <2> QED BY <2>1, <2>2, EmptySeq
<1> QED BY <1>1, <1>2, <1>3, <1>4, ConcatEqualIffEmpty

\* A flight that is sent.
LEMMA StreamStart ==
  ASSUME NEW expected \in Seq(Records)
  PROVE  Stream(<<>>, <<>>, Pieces(expected), expected)
<1>1. Pieces(expected) \in Seq(Chunks)
  BY PiecesShape
<1>2. <<>> \o Pieces(expected) = Pieces(expected) /\ <<>> \o expected = expected
  BY <1>1, ConcatEmptySeq
<1>3. <<>> \in Seq(Chunks) /\ <<>> \in Seq(Records)
  BY EmptySeq
<1> QED BY <1>1, <1>2, <1>3 DEF Stream

\* An answer that is sent when nothing else is on its way.
LEMMA StreamAnswer ==
  ASSUME NEW q, NEW b, NEW w, Stream(q, b, w, <<>>), NEW r \in Records
  PROVE  Stream(q, b, w \o Pieces(<<r>>), <<r>>)
<1> DEFINE a == <<r>>
<1>1. q \in Seq(Records) /\ b \in Seq(Chunks) /\ w \in Seq(Chunks)
  BY DEF Stream
<1>2. PICK s \in Seq(Records) : b \o w = Pieces(s) /\ q \o s = <<>>
  BY DEF Stream
<1>3. a \in Seq(Records)
  OBVIOUS
<1>4. q = <<>> /\ s = <<>>
  BY <1>1, <1>2, ConcatEqualIffEmpty
<1> HIDE DEF a
<1>5. Pieces(s \o a) = Pieces(s) \o Pieces(a) /\ Pieces(a) \in Seq(Chunks)
  BY <1>3, PiecesConcat, PiecesShape
<1>6. b \o (w \o Pieces(a)) = Pieces(s \o a) /\ w \o Pieces(a) \in Seq(Chunks)
  BY <1>1, <1>2, <1>5, ChunksJoined, ChunksAssociate
<1>7. s \o a = a /\ q \o a = a
  BY <1>3, <1>4, ConcatEmptySeq
<1>8. Stream(q, b, w \o Pieces(a), a)
  BY <1>1, <1>3, <1>6, <1>7 DEF Stream
<1> QED BY <1>8 DEF a

-----------------------------------------------------------------------------
(* What the server sends *)

USE DEF Goto, Set

Hello == <<"CH", "SH">>
Refusal == <<"Alert">>

\* The records of a flight, and the server's side when it is sent.
FlightRecs(f) ==
  IF f = Refusal THEN <<Rec(<<>>, 0, "Alert", <<>>)>>
  ELSE <<Rec(<<>>, 0, "SH", <<>>)>>
         \o [i \in 1..Len(f) |-> Rec(Key("hsS", Hello), i, f[i], <<>>)]
         \o <<Rec(Key("hsS", Hello), Len(f) + 1, "Fin", Hello \o f)>>
CertV(f, n) == IF \E i \in 1..n : f[i] = "CV"
               THEN Hello \o SubSeq(f, 1, CHOOSE i \in 1..n : f[i] = "CV") ELSE <<>>
Ticket(f, n) == \E i \in 1..n : f[i] = "NST"
ServerSide(f) == [tx |-> Len(f) + 2, final |-> Hello \o f, certV |-> CertV(f, Len(f))]

\* What the client sends, and the server answers, after a handshake with the flight f.
Finish(f) == Rec(Key("hsC", Hello), 1, "Fin", Hello \o f)
Request(f) == Rec(Key("appC", Hello \o f), 2, "ManualAuth", <<>>)
Outcome(f, type) == Rec(Key("appS", Hello \o f), Len(f) + 2, type, <<>>)

\* Sequences of one and of two.
LEMMA OneLong == \A S : \A d \in S : <<d>> \in Seq(S) /\ Len(<<d>>) = 1 /\ <<d>>[1] = d
OBVIOUS

\* The same of two.
LEMMA TwoLong ==
  \A S : \A d, e \in S : /\ <<d, e>> \in Seq(S) /\ Len(<<d, e>>) = 2
                        /\ <<d, e>>[1] = d /\ <<d, e>>[2] = e
OBVIOUS

\* Neither is empty.
LEMMA NotEmpty == (\A d : <<d>> # <<>>) /\ (\A d, e : <<d, e>> # <<>>)
<1>1. ASSUME NEW d PROVE <<d>> # <<>>
  <2>1. <<d>> \in Seq({d}) /\ Len(<<d>>) = 1
    BY OneLong
  <2> QED BY <2>1, EmptySeq
<1>2. ASSUME NEW d, NEW e PROVE <<d, e>> # <<>>
  <2>1. <<d, e>> \in Seq({d, e}) /\ Len(<<d, e>>) = 2
    BY TwoLong
  <2> QED BY <2>1, EmptySeq
<1> QED BY <1>1, <1>2

\* One after one is two, joined
LEMMA PairConcat == \A d, e : <<d>> \o <<e>> = <<d, e>>
<1>1. SUFFICES ASSUME NEW d, NEW e PROVE <<d>> \o <<e>> = <<d, e>>
  OBVIOUS
<1> DEFINE S == {d, e}
           x == <<d>>
           y == <<e>>
           z == <<d, e>>
<1>2. /\ x \in Seq(S) /\ Len(x) = 1 /\ x[1] = d /\ y \in Seq(S) /\ Len(y) = 1 /\ y[1] = e
      /\ z \in Seq(S) /\ Len(z) = 2 /\ z[1] = d /\ z[2] = e
  BY OneLong, TwoLong
<1> HIDE DEF S, x, y, z
<1>3. /\ x \o y \in Seq(S) /\ Len(x \o y) = Len(x) + Len(y)
      /\ \A i \in 1..Len(x) : (x \o y)[i] = x[i]
      /\ \A i \in 1..Len(y) : (x \o y)[Len(x) + i] = y[i]
  BY <1>2, Joined
<1>4. Len(x \o y) = 2 /\ (x \o y)[1] = d /\ (x \o y)[2] = e
  BY <1>2, <1>3
<1>5. \A i \in 1..2 : (x \o y)[i] = z[i]
  <2>1. \A i \in 1..2 : i = 1 \/ i = 2
    OBVIOUS
  <2> QED BY <1>2, <1>4, <2>1
<1>6. x \o y = z
  BY <1>2, <1>3, <1>4, <1>5, SeqEqual
<1> QED BY <1>6 DEF x, y, z

\* or appended.
LEMMA PairAppend == \A d, e : Append(<<d>>, e) = <<d, e>>
<1>1. ASSUME NEW d, NEW e PROVE Append(<<d>>, e) = <<d, e>>
  <2>1. <<d>> \in Seq({d, e})
    BY OneLong
  <2>2. Append(<<d>>, e) = <<d>> \o <<e>>
    BY <2>1, AppendIsConcat
  <2> QED BY <2>2, PairConcat
<1> QED BY <1>1

\* Transcripts one after the other.
LEMMA WordsJoined ==
  \A u, v \in Seq(Words) :
    /\ u \o v \in Seq(Words) /\ Len(u \o v) = Len(u) + Len(v)
    /\ Len(u) \in Nat /\ Len(v) \in Nat
    /\ \A i \in 1..Len(u) : (u \o v)[i] = u[i]
BY Joined

\* Joining transcripts is associative.
LEMMA WordsAssociate == \A u, v, z \in Seq(Words) : (u \o v) \o z = u \o (v \o z)
BY ConcatAssociative

\* A flight is a transcript of one or two words; no word comes twice, and the hellos before it can be
\* told from it.
LEMMA FlightTypes ==
  ASSUME NEW f \in Flights
  PROVE  /\ f \in Transcript /\ Len(f) \in {1, 2} /\ f # <<>>
         /\ Hello \in Transcript /\ Hello \o f \in Transcript /\ Len(Hello \o f) = 2 + Len(f)
         /\ SubSeq(Hello \o f, 1, 2) = Hello
         /\ f # Refusal => \A i \in 1..Len(f) : f[i] \in {"CV", "NST"}
         /\ \A i, j \in 1..Len(f) : f[i] = f[j] => i = j
<1>1. Hello \in Seq(Words) /\ Len(Hello) = 2 /\ Hello[1] = "CH" /\ Hello[2] = "SH"
  BY TwoLong DEF Hello, Words
<1>2. /\ f \in Seq(Words) /\ Len(f) \in {1, 2} /\ f # <<>>
      /\ f # Refusal => \A i \in 1..Len(f) : f[i] \in {"CV", "NST"}
      /\ \A i, j \in 1..Len(f) : f[i] = f[j] => i = j
  <2>1. ASSUME NEW a \in {"CV", "NST"}, NEW b \in {"CV", "NST"}, a # b, f = <<a, b>> PROVE <1>2
    <3>1. f \in Seq(Words) /\ Len(f) = 2 /\ f[1] = a /\ f[2] = b
      BY <2>1, TwoLong DEF Words
    <3>2. \A i \in 1..2 : i = 1 \/ i = 2
      OBVIOUS
    <3> QED BY <2>1, <3>1, <3>2, EmptySeq
  <2>2. ASSUME NEW a \in {"CV", "NST"}, f = <<a>> PROVE <1>2
    <3>1. f \in Seq(Words) /\ Len(f) = 1 /\ f[1] = a
      BY <2>2, OneLong DEF Words
    <3> QED BY <2>2, <3>1, EmptySeq
  <2>3. ASSUME f = Refusal PROVE <1>2
    <3>1. f \in Seq(Words) /\ Len(f) = 1
      BY <2>3, OneLong DEF Words, Refusal
    <3> QED BY <2>3, <3>1, EmptySeq
  <2> QED BY <2>1, <2>2, <2>3 DEF Flights, Refusal
<1>3. /\ Hello \o f \in Seq(Words) /\ Len(Hello \o f) = 2 + Len(f)
      /\ (Hello \o f)[1] = "CH" /\ (Hello \o f)[2] = "SH"
  <2>1. /\ Hello \o f \in Seq(Words) /\ Len(Hello \o f) = Len(Hello) + Len(f)
        /\ \A i \in 1..Len(Hello) : (Hello \o f)[i] = Hello[i]
    BY <1>1, <1>2, WordsJoined
  <2> QED BY <1>1, <2>1
<1>4. SubSeq(Hello \o f, 1, 2) = Hello
  <2> DEFINE t == Hello \o f
  <2>1. t \in Seq(Words) /\ 2 \in 0..Len(t) /\ t[1] = "CH" /\ t[2] = "SH"
    BY <1>2, <1>3
  <2> HIDE DEF t
  <2>2. \A i \in 1..2 : t[i] \in Words /\ (i = 1 \/ i = 2)
    BY <2>1 DEF Words
  <2>3. /\ SubSeq(t, 1, 2) \in Seq(Words) /\ Len(SubSeq(t, 1, 2)) = 2
        /\ \A i \in 1..2 : SubSeq(t, 1, 2)[i] = t[i]
    BY <2>2, SubSeqProperties
  <2>4. \A i \in 1..2 : SubSeq(t, 1, 2)[i] = Hello[i]
    BY <1>1, <2>1, <2>2, <2>3
  <2>5. SubSeq(t, 1, 2) = Hello
    BY <1>1, <2>3, <2>4, SeqEqual
  <2> QED BY <2>5 DEF t
<1> QED BY <1>1, <1>2, <1>3, <1>4 DEF Transcript

\* A key is a word before a transcript.
LEMMA KeyType == ASSUME NEW label \in Words, NEW t \in Transcript PROVE Key(label, t) \in Transcript
<1>1. <<label>> \in Seq(Words)
  BY OneLong
<1> QED BY <1>1, ConcatProperties DEF Key, Transcript

\* The records of a flight, one by one.
LEMMA FlightShape ==
  ASSUME NEW f \in Flights, f # Refusal
  PROVE  /\ FlightRecs(f) \in Seq(Records) /\ Len(FlightRecs(f)) = Len(f) + 2
         /\ FlightRecs(f)[1] = Rec(<<>>, 0, "SH", <<>>)
         /\ \A i \in 1..Len(f) : FlightRecs(f)[i + 1] = Rec(Key("hsS", Hello), i, f[i], <<>>)
         /\ FlightRecs(f)[Len(f) + 2] = Rec(Key("hsS", Hello), Len(f) + 1, "Fin", Hello \o f)
<1> DEFINE x == <<Rec(<<>>, 0, "SH", <<>>)>>
           y == [i \in 1..Len(f) |-> Rec(Key("hsS", Hello), i, f[i], <<>>)]
           z == <<Rec(Key("hsS", Hello), Len(f) + 1, "Fin", Hello \o f)>>
<1>1. /\ Key("hsS", Hello) \in Transcript /\ <<>> \in Transcript /\ Hello \o f \in Transcript
      /\ Len(f) \in Nat
  <2>1. "hsS" \in Words
    BY DEF Words
  <2> QED BY <2>1, FlightTypes, KeyType, EmptySeq DEF Transcript
<1>2. x \in Seq(Records) /\ Len(x) = 1 /\ x[1] = Rec(<<>>, 0, "SH", <<>>)
  <2>1. Rec(<<>>, 0, "SH", <<>>) \in Records
    BY <1>1 DEF Rec, Records, Words
  <2> QED BY <2>1, OneLong
<1>3. /\ y \in Seq(Records) /\ Len(y) = Len(f)
      /\ \A i \in 1..Len(f) : y[i] = Rec(Key("hsS", Hello), i, f[i], <<>>)
  <2>1. \A i \in 1..Len(f) : Rec(Key("hsS", Hello), i, f[i], <<>>) \in Records
    BY <1>1, FlightTypes DEF Rec, Records, Words
  <2> QED BY <1>1, <2>1
<1>4. /\ z \in Seq(Records) /\ Len(z) = 1
      /\ z[1] = Rec(Key("hsS", Hello), Len(f) + 1, "Fin", Hello \o f)
  <2>1. Rec(Key("hsS", Hello), Len(f) + 1, "Fin", Hello \o f) \in Records
    BY <1>1 DEF Rec, Records, Words
  <2> QED BY <2>1, OneLong
<1>5. FlightRecs(f) = (x \o y) \o z
  BY DEF FlightRecs
<1> HIDE DEF x, y, z
<1>6. /\ x \o y \in Seq(Records) /\ Len(x \o y) = 1 + Len(f)
      /\ (x \o y)[1] = x[1] /\ \A i \in 1..Len(f) : (x \o y)[1 + i] = y[i]
  <2>1. /\ x \o y \in Seq(Records) /\ Len(x \o y) = Len(x) + Len(y)
        /\ \A i \in 1..Len(x) : (x \o y)[i] = x[i]
        /\ \A i \in 1..Len(y) : (x \o y)[Len(x) + i] = y[i]
    BY <1>2, <1>3, RecordsJoined
  <2> QED BY <1>2, <1>3, <2>1
<1>7. /\ (x \o y) \o z \in Seq(Records) /\ Len((x \o y) \o z) = 1 + Len(f) + 1
      /\ \A i \in 1..1 + Len(f) : ((x \o y) \o z)[i] = (x \o y)[i]
      /\ ((x \o y) \o z)[1 + Len(f) + 1] = z[1]
  <2> DEFINE v == x \o y
  <2>1. v \in Seq(Records) /\ Len(v) = 1 + Len(f)
    BY <1>6
  <2> HIDE DEF v
  <2>2. /\ v \o z \in Seq(Records) /\ Len(v \o z) = Len(v) + Len(z)
        /\ \A i \in 1..Len(v) : (v \o z)[i] = v[i]
        /\ \A i \in 1..Len(z) : (v \o z)[Len(v) + i] = z[i]
    BY <1>4, <2>1, RecordsJoined
  <2>3. /\ v \o z \in Seq(Records) /\ Len(v \o z) = 1 + Len(f) + 1
        /\ \A i \in 1..1 + Len(f) : (v \o z)[i] = v[i]
        /\ (v \o z)[1 + Len(f) + 1] = z[1]
    BY <1>4, <2>1, <2>2
  <2> QED BY <2>3 DEF v
<1>8. FlightRecs(f)[1] = Rec(<<>>, 0, "SH", <<>>)
  BY <1>1, <1>2, <1>5, <1>6, <1>7
<1>9. ASSUME NEW i \in 1..Len(f)
      PROVE  FlightRecs(f)[i + 1] = Rec(Key("hsS", Hello), i, f[i], <<>>)
  <2>1. i + 1 \in 1..1 + Len(f) /\ i + 1 = 1 + i
    BY <1>1
  <2> QED BY <1>3, <1>5, <1>6, <1>7, <2>1
<1>10. FlightRecs(f)[Len(f) + 2] = Rec(Key("hsS", Hello), Len(f) + 1, "Fin", Hello \o f)
  <2>1. 1 + Len(f) + 1 = Len(f) + 2
    BY <1>1
  <2> QED BY <1>4, <1>5, <1>7, <2>1
<1>11. FlightRecs(f) \in Seq(Records) /\ Len(FlightRecs(f)) = Len(f) + 2
  BY <1>1, <1>5, <1>7
<1> QED BY <1>8, <1>9, <1>10, <1>11

\* How many they are, for an alert as well, and that they are records.
LEMMA RecsLength ==
  ASSUME NEW f \in Flights
  PROVE  Len(<<Rec(<<>>, 0, "SH", <<>>)>>
               \o [i \in 1..Len(f) |-> Rec(Key("hsS", Hello), i, f[i], <<>>)]
               \o <<Rec(Key("hsS", Hello), Len(f) + 1, "Fin", Hello \o f)>>) = Len(f) + 2
<1> DEFINE R(i) == Rec(Key("hsS", Hello), i, f[i], <<>>)
           r == Rec(<<>>, 0, "SH", <<>>)
           e == Rec(Key("hsS", Hello), Len(f) + 1, "Fin", Hello \o f)
           S == {R(i) : i \in 1..Len(f)} \cup {r, e}
<1>1. Len(f) \in Nat
  BY FlightTypes
<1> HIDE DEF R, r, e
<1> DEFINE y == [i \in 1..Len(f) |-> R(i)]
<1>2. y \in Seq(S) /\ Len(y) = Len(f)
  BY <1>1
<1>3. <<r>> \in Seq(S) /\ Len(<<r>>) = 1 /\ <<e>> \in Seq(S) /\ Len(<<e>>) = 1
  <2>1. r \in S /\ e \in S
    OBVIOUS
  <2> HIDE DEF S
  <2> QED BY <2>1, OneLong
<1> HIDE DEF y, S
<1>4. <<r>> \o y \in Seq(S) /\ Len(<<r>> \o y) = 1 + Len(f)
  BY <1>2, <1>3, ConcatProperties
<1>5. Len((<<r>> \o y) \o <<e>>) = 1 + Len(f) + 1
  BY <1>3, <1>4, ConcatProperties
<1> QED BY <1>1, <1>5 DEF y, R, r, e

\* What the server sends are records, also when it refuses.
LEMMA FlightRecords == ASSUME NEW f \in Flights PROVE FlightRecs(f) \in Seq(Records)
<1>1. CASE f = Refusal
  <2>1. Rec(<<>>, 0, "Alert", <<>>) \in Records
    BY EmptySeq DEF Rec, Records, Words, Transcript
  <2> QED BY <1>1, <2>1, OneLong DEF FlightRecs
<1> QED BY <1>1, FlightShape

\* What is left of it.
LEMMA FlightRest ==
  ASSUME NEW f \in Flights, f # Refusal, NEW n \in 0..Len(f)
  PROVE  LET left == SubSeq(FlightRecs(f), n + 2, Len(f) + 2)
         IN /\ left # <<>> /\ left[1] = FlightRecs(f)[n + 2]
            /\ SubSeq(left, 2, Len(left)) = SubSeq(FlightRecs(f), n + 3, Len(f) + 2)
<1> DEFINE r == FlightRecs(f)
           m == Len(f) + 2
           left == SubSeq(r, n + 2, m)
<1>1. r \in Seq(Records) /\ Len(r) = m /\ n + 2 \in 1..m /\ m \in Nat /\ n \in Nat
      /\ m \in n + 2..m
  BY FlightShape, FlightTypes
<1> HIDE DEF r, m
<1>2. Head(left) = r[n + 2] /\ Tail(left) = SubSeq(r, n + 2 + 1, m)
  BY <1>1, HeadTailOfSubSeq
<1>3. left \in Seq(Records) /\ left # <<>>
  <2>1. \A i \in n + 2..m : r[i] \in Records
    BY <1>1
  <2>2. left \in Seq(Records) /\ Len(left) = IF n + 2 <= m THEN m - (n + 2) + 1 ELSE 0
    BY <1>1, <2>1, SubSeqProperties
  <2> HIDE DEF left
  <2> QED BY <1>1, <2>2, EmptySeq
<1>4. n + 2 + 1 = n + 3
  BY <1>1
<1> HIDE DEF left
<1>5. left[1] = Head(left) /\ SubSeq(left, 2, Len(left)) = Tail(left)
  BY <1>3, TailIsSubSeq
<1> QED BY <1>2, <1>3, <1>4, <1>5 DEF left, r, m

\* What is noted of the next record of a flight.
LEMMA NextNoted ==
  ASSUME NEW f \in Flights, f # Refusal, NEW n \in 0..Len(f) - 1
  PROVE  /\ (Hello \o SubSeq(f, 1, n)) \o <<f[n + 1]>> = Hello \o SubSeq(f, 1, n + 1)
         /\ CertV(f, n + 1) = IF f[n + 1] = "CV" THEN Hello \o SubSeq(f, 1, n + 1) ELSE CertV(f, n)
         /\ Ticket(f, n + 1) <=> (Ticket(f, n) \/ f[n + 1] = "NST")
         /\ Hello \o SubSeq(f, 1, n + 1) \in Transcript
<1>1. /\ f \in Seq(Words) /\ Len(f) \in Nat /\ n + 1 \in 1..Len(f) /\ n \in Nat /\ n \in 0..Len(f)
      /\ Hello \in Seq(Words)
  BY FlightTypes DEF Transcript
<1>2. SubSeq(f, 1, n + 1) = SubSeq(f, 1, n) \o <<f[n + 1]>>
  <2>1. SubSeq(f, 1, n + 1) = SubSeq(f, 1, (n + 1) - 1) \o <<f[n + 1]>>
    BY <1>1, SubSeqRecursiveSecond
  <2>2. (n + 1) - 1 = n
    BY <1>1
  <2> QED BY <2>1, <2>2
<1>3. SubSeq(f, 1, n) \in Seq(Words) /\ <<f[n + 1]>> \in Seq(Words)
  BY <1>1, SplitAt
<1>4. (Hello \o SubSeq(f, 1, n)) \o <<f[n + 1]>> = Hello \o SubSeq(f, 1, n + 1)
  <2> DEFINE t == SubSeq(f, 1, n)
             e == <<f[n + 1]>>
  <2>1. t \in Seq(Words) /\ e \in Seq(Words) /\ SubSeq(f, 1, n + 1) = t \o e
    BY <1>2, <1>3
  <2> HIDE DEF t, e
  <2>2. (Hello \o t) \o e = Hello \o (t \o e)
    BY <1>1, <2>1, WordsAssociate
  <2> QED BY <2>1, <2>2 DEF t, e
<1>5. Hello \o SubSeq(f, 1, n + 1) \in Transcript
  <2>1. SubSeq(f, 1, n + 1) \in Seq(Words)
    BY <1>2, <1>3, ConcatProperties
  <2> QED BY <1>1, <2>1, ConcatProperties DEF Transcript
<1>6. \A i, j \in 1..Len(f) : f[i] = f[j] => i = j
  BY FlightTypes
<1>7. CertV(f, n + 1) = IF f[n + 1] = "CV" THEN Hello \o SubSeq(f, 1, n + 1) ELSE CertV(f, n)
  <2>1. CASE f[n + 1] = "CV"
    <3>1. \A i \in 1..n + 1 : f[i] = "CV" <=> i = n + 1
      BY <1>1, <1>6, <2>1
    <3>2. (CHOOSE i \in 1..n + 1 : f[i] = "CV") = n + 1 /\ \E i \in 1..n + 1 : f[i] = "CV"
      BY <1>1, <3>1
    <3> QED BY <2>1, <3>2 DEF CertV
  <2>2. CASE f[n + 1] # "CV"
    <3>1. \A i : (i \in 1..n + 1 /\ f[i] = "CV") <=> (i \in 1..n /\ f[i] = "CV")
      BY <1>1, <2>2
    <3>2. (CHOOSE i \in 1..n + 1 : f[i] = "CV") = (CHOOSE i \in 1..n : f[i] = "CV")
      BY <3>1
    <3> QED BY <2>2, <3>1, <3>2 DEF CertV
  <2> QED BY <2>1, <2>2
<1>8. Ticket(f, n + 1) <=> (Ticket(f, n) \/ f[n + 1] = "NST")
  <2>1. 1..n + 1 = (1..n) \cup {n + 1}
    BY <1>1
  <2> QED BY <2>1 DEF Ticket
<1> QED BY <1>4, <1>5, <1>7, <1>8

\* A flight that has what the login needs.
LEMMA UsualComplete ==
  ASSUME NEW f \in Usual
  PROVE  f \in Flights /\ f # Refusal /\ CertV(f, Len(f)) # <<>> /\ Ticket(f, Len(f))
<1>1. f \in Flights /\ f # Refusal
  <2>1. Len(f) = 2 /\ Len(Refusal) = 1
    BY TwoLong, OneLong DEF Usual, Refusal
  <2> QED BY <2>1 DEF Usual, Flights
<1>2. Len(f) = 2 /\ \/ f[1] = "CV" /\ f[2] = "NST"
                    \/ f[1] = "NST" /\ f[2] = "CV"
  BY TwoLong DEF Usual
<1>3. (\E i \in 1..Len(f) : f[i] = "CV") /\ Ticket(f, Len(f))
  BY <1>2 DEF Ticket
<1>4. CertV(f, Len(f)) # <<>>
  <2> DEFINE m == CHOOSE i \in 1..Len(f) : f[i] = "CV"
  <2>1. m \in 0..Len(f)
    BY <1>3, <1>2
  <2> HIDE DEF m
  <2>2. SubSeq(f, 1, m) \in Seq(Words) /\ Hello \in Seq(Words) /\ Len(Hello) = 2
    <3>1. f \in Seq(Words)
      BY <1>1, FlightTypes DEF Transcript
    <3>2. Hello \in Seq(Words) /\ Len(Hello) = 2
      BY TwoLong DEF Hello, Words
    <3> QED BY <2>1, <3>1, <3>2, SplitAt
  <2>3. Hello \o SubSeq(f, 1, m) # <<>>
    BY <2>2, EmptySeq, ConcatEqualIffEmpty
  <2> QED BY <1>3, <2>3 DEF CertV, m
<1> QED BY <1>1, <1>3, <1>4

-----------------------------------------------------------------------------
(* What client and server know of each other *)

Clients == [tx : Nat, rx : Nat, hash : Transcript, hs : Transcript, certV : Transcript,
            final : Transcript, ticket : BOOLEAN]

\* Of the flight f the client has received nothing; ServerHello and n records; everything. x: the
\* target is excused.
AwaitsHello(c, u, s, q, b, w, x) ==
  /\ c.rx = 0 /\ c.hash = <<"CH">> /\ c.certV = <<>> /\ c.ticket = FALSE
  /\ \/ u = <<Rec(<<>>, 0, "CH", <<>>)>> /\ Stream(q, b, w, <<>>)
     \/ /\ u = <<>>
        /\ \E f \in Flights : /\ s = ServerSide(f) /\ Stream(q, b, w, FlightRecs(f))
                              /\ (f \in Usual \/ x)
Heard(c, f, n) ==
  /\ c.rx = n + 1 /\ c.hs = Hello /\ c.hash = Hello \o SubSeq(f, 1, n)
  /\ c.certV = CertV(f, n) /\ c.ticket = Ticket(f, n)
AwaitsFinished(c, u, s, q, b, w, x) ==
  /\ u = <<>>
  /\ \E f \in Flights \ {Refusal} : \E n \in 0..Len(f) :
       /\ Heard(c, f, n) /\ s = ServerSide(f) /\ (f \in Usual \/ x)
       /\ Stream(q, b, w, SubSeq(FlightRecs(f), n + 2, Len(f) + 2))
Greeted(c, s, f) ==
  /\ c.rx = Len(f) + 2 /\ c.hs = Hello /\ c.final = Hello \o f
  /\ c.certV = CertV(f, Len(f)) /\ c.ticket = Ticket(f, Len(f)) /\ s = ServerSide(f)

\* It has not sent Finished yet, has sent it, and has sent the request as well.
Finishes(c, u, s, q, b, w, x) ==
  /\ u = <<>> /\ Stream(q, b, w, <<>>)
  /\ \E f \in Flights \ {Refusal} : Greeted(c, s, f) /\ (f \in Usual \/ x)
LogsIn(c, u, s, q, b, w, x) ==
  /\ Stream(q, b, w, <<>>)
  /\ \E f \in Flights \ {Refusal} : Greeted(c, s, f) /\ (f \in Usual \/ x) /\ u = <<Finish(f)>>
AwaitsAnswer(c, u, s, q, b, w, x, ticket, given) ==
  \E f \in Flights \ {Refusal} :
    /\ Greeted(c, s, f) /\ (f \in Usual \/ x)
    /\ \/ u = <<Finish(f), Request(f)>> /\ Stream(q, b, w, <<>>)
       \/ /\ u = <<>> /\ [conn |-> ticket, certV |-> CertV(f, Len(f))] \in given
          /\ \E type \in {"ManualAuth", "Other"} : /\ Stream(q, b, w, <<Outcome(f, type)>>)
                                                   /\ (type = "ManualAuth" \/ x)

\* A call goes with a PSK of the login, and the answer is for it.
Early(p) == [i \in 1..3 |-> Rec(Key("early", p.certV), i, <<"T8", "Data", "Alert">>[i], <<p.conn>>)]
AwaitsResult(u, w, known) ==
  \E p \in known : \/ u = Early(p)
                   \/ u = <<>> /\ \E t \in Transcripts, n \in 1..3 :
                                    w = <<Rec(Key("psk", t), n, "Data", <<p.conn>>)>>

Talking == {"serverHello", "flight", "finish", "login", "answer", "result"}

Progress(l) ==
  /\ psk[l] \subseteq issued[l] /\ \A p \in psk[l] : p.certV # <<>>
  /\ pc[l] = "missed" => excused[l]
  /\ pc[l] = "serverHello" =>
       AwaitsHello(client[l], up[l], server[l], recq[l], rxbuf[l], wire[l], excused[l])
  /\ pc[l] = "flight" =>
       AwaitsFinished(client[l], up[l], server[l], recq[l], rxbuf[l], wire[l], excused[l])
  /\ pc[l] = "finish" =>
       Finishes(client[l], up[l], server[l], recq[l], rxbuf[l], wire[l], excused[l])
  /\ pc[l] = "login" =>
       LogsIn(client[l], up[l], server[l], recq[l], rxbuf[l], wire[l], excused[l])
  /\ pc[l] = "answer" =>
       AwaitsAnswer(client[l], up[l], server[l], recq[l], rxbuf[l], wire[l], excused[l], conn[l],
                    issued[l])
  /\ pc[l] = "result" => AwaitsResult(up[l], wire[l], psk[l])

Formed ==
  /\ client \in [Logins -> Clients] /\ excused \in [Logins -> BOOLEAN]
  /\ DOMAIN up = Logins /\ DOMAIN server = Logins /\ DOMAIN wire = Logins
  /\ DOMAIN rxbuf = Logins /\ DOMAIN recq = Logins /\ DOMAIN issued = Logins
  /\ DOMAIN psk = Logins

StepInv == Formed /\ \A l \in Logins : Progress(l)

\* A client that has sent nothing.
LEMMA FreshType == Fresh \in Clients
<1>1. <<>> \in Transcript
  BY EmptySeq DEF Transcript
<1> QED BY <1>1 DEF Fresh, Clients

\* Before a login begins nothing is expected.
LEMMA InitStep == ASSUME Init PROVE StepInv
<1>1. Fresh \in Clients
  BY FreshType
<1>2. Formed
  BY <1>1 DEF Init, Formed
<1>3. \A l \in Logins : pc[l] \in {"idle", "off"} /\ psk[l] = {}
  BY DEF Init
<1> QED BY <1>2, <1>3 DEF StepInv, Progress

\* Whoever does not move keeps its state.
Still(k) ==
  /\ pc'[k] = pc[k] /\ client'[k] = client[k] /\ up'[k] = up[k] /\ server'[k] = server[k]
  /\ recq'[k] = recq[k] /\ rxbuf'[k] = rxbuf[k] /\ wire'[k] = wire[k] /\ issued'[k] = issued[k]
  /\ psk'[k] = psk[k] /\ excused'[k] = excused[k] /\ conn'[k] = conn[k]

\* It is enough to look at the login that moves.
LEMMA OneMoves ==
  ASSUME StepInv, NEW l \in Logins, Formed', Progress(l)', \A k \in Logins \ {l} : Still(k)
  PROVE  StepInv'
<1>1. ASSUME NEW k \in Logins \ {l} PROVE Progress(k)'
  BY DEF StepInv, Progress, Still
<1> QED BY <1>1 DEF StepInv

\* A login or call that does not talk to a server, or gives up for a good reason.
LEMMA QuietStep ==
  ASSUME StepInv, StageInv, NEW l \in Logins, NEW p, p \notin Talking, Goto(l, p),
         UNCHANGED <<mmtls, psk>>, NEW x \in BOOLEAN, excused' = Set(excused, l, x),
         p = "missed" => x = TRUE,
         \A k \in Logins \ {l} : conn'[k] = conn[k]
  PROVE  StepInv'
<1>1. UNCHANGED <<client, up, server, wire, rxbuf, recq, issued, psk>>
  BY DEF mmtls
<1>2. Formed'
  BY <1>1 DEF StepInv, Formed
<1>3. pc'[l] = p /\ excused'[l] = x /\ \A k \in Logins \ {l} : Still(k)
  BY <1>1 DEF StepInv, Formed, StageInv, Shapes, Still
<1>4. Progress(l)'
  BY <1>1, <1>3 DEF StepInv, Progress, Talking
<1> QED BY <1>2, <1>3, <1>4, OneMoves

\* The same when nothing is said of the excuse.
LEMMA QuietMove ==
  ASSUME StepInv, StageInv, NEW l \in Logins, NEW p, p \notin Talking, Goto(l, p),
         UNCHANGED <<mmtls, psk, excused>>, p = "missed" => excused[l] = TRUE,
         \A k \in Logins \ {l} : conn'[k] = conn[k]
  PROVE  StepInv'
<1>1. excused[l] \in BOOLEAN /\ excused' = Set(excused, l, excused[l])
  BY DEF StepInv, Formed
<1>2. UNCHANGED <<mmtls, psk>> /\ (p = "missed" => excused[l] = TRUE)
  OBVIOUS
<1> DEFINE x == excused[l]
<1>3. x \in BOOLEAN /\ excused' = Set(excused, l, x) /\ (p = "missed" => x = TRUE)
  BY <1>1, <1>2
<1> HIDE DEF x
<1> QED BY <1>2, <1>3, QuietStep

\* The look-up leaves the connection alone.
LEMMA LookUpStep ==
  ASSUME StepInv, StageInv, NEW l \in Logins,
         LookUp(l) \/ AskCache(l) \/ RequestNewDNS(l) \/ KeepAnswer(l)
  PROVE  StepInv'
<1>1. UNCHANGED <<mmtls, psk, excused>> /\ \A k \in Logins \ {l} : conn'[k] = conn[k]
  BY DEF LookUp, AskCache, RequestNewDNS, KeepAnswer, conns
<1>2. \E p : Goto(l, p) /\ p \notin Talking /\ p # "missed"
  <2>1. UNCHANGED pc => Goto(l, pc[l])
    BY DEF StageInv, Shapes
  <2>2. CASE LookUp(l)
    BY <2>2 DEF LookUp, Talking
  <2>3. CASE AskCache(l)
    BY <2>3 DEF AskCache, Resolved, Talking
  <2>4. CASE RequestNewDNS(l)
    BY <2>1, <2>4 DEF RequestNewDNS, Resolved, Talking
  <2>5. CASE KeepAnswer(l)
    BY <2>5 DEF KeepAnswer, Resolved, Talking
  <2> QED BY <2>2, <2>3, <2>4, <2>5
<1> QED BY <1>1, <1>2, QuietMove

\* A target is left while dialling, and when a connection breaks, for a reason outside the code.
LEMMA DialStep ==
  ASSUME StepInv, StageInv, NEW l \in Logins,
         \/ NextTarget(l) \/ DialProxy(l) \/ Tunnel(l) \/ DialDirect(l) \/ Missed(l) \/ Break(l)
  PROVE  StepInv'
<1>1. UNCHANGED <<mmtls, psk>>
  BY DEF NextTarget, DialProxy, Tunnel, DialDirect, Missed, Break
<1>2. \A k \in Logins \ {l} : conn'[k] = conn[k]
  BY DEF NextTarget, DialProxy, Tunnel, DialDirect, Missed, Break, GiveUp, Connected, conns,
         StageInv, Shapes
<1>4. ASSUME NEW p, p \notin Talking, Goto(l, p), excused' = Set(excused, l, TRUE) PROVE StepInv'
  BY <1>1, <1>2, <1>4, QuietStep
<1>5. ASSUME NEW p, p \notin Talking, p # "missed", Goto(l, p), UNCHANGED excused PROVE StepInv'
  BY <1>1, <1>2, <1>5, QuietMove
<1>6. NextStage(l) \notin Talking \cup {"missed"}
  BY DEF NextStage, Talking
<1>7. NoProxy(l) => \E p : Goto(l, p) /\ p \notin Talking
  BY DEF NoProxy, Talking
<1>8. CASE NextTarget(l)
  <2>1. \E p : Goto(l, p) /\ p \notin Talking /\ p # "missed"
    BY <1>8 DEF NextTarget, Talking
  <2>2. excused' = Set(excused, l, FALSE)
    BY <1>8 DEF NextTarget
  <2> QED BY <1>1, <1>2, <2>1, <2>2, QuietStep
<1>9. CASE DialProxy(l)
  <2>1. \/ Goto(l, "tunnel") /\ UNCHANGED excused
        \/ NoProxy(l) /\ excused' = Set(excused, l, TRUE)
    BY <1>9 DEF DialProxy
  <2> QED BY <1>4, <1>5, <1>7, <2>1 DEF Talking
<1>10. CASE Tunnel(l)
  <2>1. \/ Goto(l, NextStage(l)) /\ UNCHANGED excused
        \/ NoProxy(l) /\ excused' = Set(excused, l, TRUE)
    BY <1>10 DEF Tunnel
  <2> QED BY <1>4, <1>5, <1>6, <1>7, <2>1
<1>11. CASE DialDirect(l)
  <2>1. \/ Goto(l, NextStage(l)) /\ UNCHANGED excused
        \/ Goto(l, "missed") /\ excused' = Set(excused, l, TRUE)
    BY <1>11 DEF DialDirect
  <2> QED BY <1>4, <1>5, <1>6, <2>1 DEF Talking
<1>12. CASE Missed(l)
  BY <1>5, <1>12 DEF Missed, Talking
<1>13. CASE Break(l)
  <2>1. Goto(l, "missed") /\ excused' = Set(excused, l, TRUE)
    BY <1>13 DEF Break, GiveUp
  <2> QED BY <1>4, <2>1 DEF Talking
<1> QED BY <1>8, <1>9, <1>10, <1>11, <1>12, <1>13

\* So does whatever ends a login or call in good order.
LEMMA LeaveStep ==
  ASSUME StepInv, StageInv, NEW l \in Logins,
         Return(l) \/ BadBuffer(l) \/ Acquire(l) \/ CallFails(l)
  PROVE  StepInv'
<1>1. UNCHANGED <<mmtls, psk, excused>> /\ \A k \in Logins \ {l} : conn'[k] = conn[k]
  BY DEF Return, BadBuffer, Leave, Acquire, CallFails, conns
<1>2. \E p : Goto(l, p) /\ p \notin Talking /\ p # "missed"
  BY DEF Return, BadBuffer, Leave, Acquire, CallFails, Talking
<1> QED BY <1>1, <1>2, QuietMove

\* A target that is given up with an excuse, by whoever talks to it.
LEMMA GiveUpStep ==
  ASSUME StepInv, StageInv, NEW l \in Logins, GiveUp(l), excused[l],
         UNCHANGED <<mmtls, psk, excused>>
  PROVE  StepInv'
<1>1. Goto(l, "missed") /\ \A k \in Logins \ {l} : conn'[k] = conn[k]
  BY DEF GiveUp
<1>2. excused[l] = TRUE
  BY DEF StepInv, Formed
<1> QED BY <1>1, <1>2, QuietMove DEF Talking

\* The deadline does not pass while something is expected.
LEMMA DeadlineStep ==
  ASSUME StepInv, StageInv, NEW l \in Logins, Deadline(l)
  PROVE  StepInv'
<1> DEFINE c == client[l]
           b == rxbuf[l]
<1>1. /\ pc[l] \in {"serverHello", "flight", "answer"} /\ recq[l] = <<>> /\ Complete(b) = 0
      /\ wire[l] = <<>> /\ up[l] = <<>> /\ Progress(l)
  BY DEF Deadline, StepInv
<1>2. ASSUME NEW e, Stream(<<>>, b, <<>>, e) PROVE e = <<>>
  BY <1>1, <1>2, StreamEnd
<1>3. CASE pc[l] = "serverHello"
  <2>1. \E f \in Flights : Stream(<<>>, b, <<>>, FlightRecs(f))
    BY <1>1, <1>3 DEF Progress, AwaitsHello
  <2>2. ASSUME NEW f \in Flights PROVE FlightRecs(f) # <<>>
    <3>1. CASE f = Refusal
      BY <3>1 DEF FlightRecs
    <3>2. CASE f # Refusal
      BY <3>2, FlightShape, FlightTypes, EmptySeq
    <3> QED BY <3>1, <3>2
  <2> QED BY <1>2, <2>1, <2>2
<1>4. CASE pc[l] = "flight"
  <2>1. PICK f \in Flights \ {Refusal} : \E n \in 0..Len(f) :
          Stream(<<>>, b, <<>>, SubSeq(FlightRecs(f), n + 2, Len(f) + 2))
    BY <1>1, <1>4 DEF Progress, AwaitsFinished
  <2>2. ASSUME NEW n \in 0..Len(f) PROVE SubSeq(FlightRecs(f), n + 2, Len(f) + 2) # <<>>
    BY FlightRest
  <2> QED BY <1>2, <2>1, <2>2
<1>5. CASE pc[l] = "answer"
  <2>1. PICK f \in Flights \ {Refusal}, type \in {"ManualAuth", "Other"} :
          Stream(<<>>, b, <<>>, <<Outcome(f, type)>>)
    <3>1. AwaitsAnswer(c, up[l], server[l], recq[l], b, wire[l], excused[l], conn[l], issued[l])
      BY <1>1, <1>5 DEF Progress
    <3>2. \A d, e : up[l] # <<d, e>>
      BY <1>1, NotEmpty
    <3> QED BY <1>1, <3>1, <3>2 DEF AwaitsAnswer
  <2> QED BY <1>2, <2>1, NotEmpty
<1> QED BY <1>1, <1>3, <1>4, <1>5

\* Reading and parsing lose nothing of what is expected.
LEMMA NextRecordStep ==
  ASSUME StepInv, StageInv, NEW l \in Logins, NextRecord(l)
  PROVE  StepInv'
<1> DEFINE q == recq[l]
           b == rxbuf[l]
           w == wire[l]
<1>1. /\ pc[l] \in {"serverHello", "flight", "answer"} /\ q = <<>>
      /\ UNCHANGED <<pc, conn, client, up, server, issued, psk, excused>>
  BY DEF NextRecord, conns
<1>2. /\ Formed' /\ \A k \in Logins \ {l} : Still(k)
  BY <1>1 DEF NextRecord, StepInv, Formed, Still
<1>3. ASSUME NEW e, Stream(q, b, w, e) PROVE Stream(recq'[l], rxbuf'[l], wire'[l], e)
  <2>1. CASE /\ recq' = Set(recq, l, ParseRecords(b)) /\ rxbuf' = Set(rxbuf, l, Rest(b))
             /\ UNCHANGED wire
    <3>1. Stream(ParseRecords(b), Rest(b), w, e)
      BY <1>1, <1>3, StreamParse
    <3>2. recq'[l] = ParseRecords(b) /\ rxbuf'[l] = Rest(b) /\ wire'[l] = w
      BY <2>1 DEF StepInv, Formed
    <3> QED BY <3>1, <3>2
  <2>2. CASE /\ UNCHANGED recq
             /\ \E n \in 1..Len(w) : /\ rxbuf' = Set(rxbuf, l, b \o SubSeq(w, 1, n))
                                     /\ wire' = Set(wire, l, SubSeq(w, n + 1, Len(w)))
    <3>1. PICK n \in 1..Len(w) : /\ rxbuf' = Set(rxbuf, l, b \o SubSeq(w, 1, n))
                                 /\ wire' = Set(wire, l, SubSeq(w, n + 1, Len(w)))
      BY <2>2
    <3>2. Stream(q, b \o SubSeq(w, 1, n), SubSeq(w, n + 1, Len(w)), e)
      BY <1>3, StreamRead
    <3>3. /\ recq'[l] = q /\ rxbuf'[l] = b \o SubSeq(w, 1, n)
          /\ wire'[l] = SubSeq(w, n + 1, Len(w))
      BY <2>2, <3>1 DEF StepInv, Formed
    <3> QED BY <3>2, <3>3
  <2> QED BY <2>1, <2>2 DEF NextRecord
<1> HIDE DEF q, b, w
<1>4. Progress(l)'
  <2>1. Progress(l)
    BY DEF StepInv
  <2>2. pc[l] = "serverHello" =>
          AwaitsHello(client[l], up[l], server[l], recq'[l], rxbuf'[l], wire'[l], excused[l])
    BY <1>3, <2>1 DEF Progress, AwaitsHello, q, b, w
  <2>3. pc[l] = "flight" =>
          AwaitsFinished(client[l], up[l], server[l], recq'[l], rxbuf'[l], wire'[l], excused[l])
    BY <1>3, <2>1 DEF Progress, AwaitsFinished, q, b, w
  <2>4. pc[l] = "answer" =>
          AwaitsAnswer(client[l], up[l], server[l], recq'[l], rxbuf'[l], wire'[l], excused[l],
                       conn[l], issued[l])
    BY <1>3, <2>1 DEF Progress, AwaitsAnswer, q, b, w
  <2> QED BY <1>1, <2>1, <2>2, <2>3, <2>4 DEF Progress
<1> QED BY <1>2, <1>4, OneMoves

\* A new connection begins with nothing on its way.
LEMMA SendClientHelloStep ==
  ASSUME StepInv, StageInv, NEW l \in Logins, SendClientHello(l)
  PROVE  StepInv'
<1> DEFINE c == [[NewClient(l) EXCEPT !.hash = <<"CH">>] EXCEPT !.tx = @ + Len(<<Rec(<<>>, 0, "CH", <<>>)>>)]
           u == <<Rec(<<>>, 0, "CH", <<>>)>>
<1>1. /\ client' = Set(client, l, c) /\ up' = Set(up, l, u) /\ server' = Set(server, l, Away)
      /\ wire' = Set(wire, l, <<>>) /\ rxbuf' = Set(rxbuf, l, <<>>) /\ recq' = Set(recq, l, <<>>)
      /\ Goto(l, "serverHello") /\ UNCHANGED <<conn, issued, psk, excused>>
  BY DEF SendClientHello, Send, conns
<1>2. c \in Clients /\ c.rx = 0 /\ c.hash = <<"CH">> /\ c.certV = <<>> /\ c.ticket = FALSE
  <2> DEFINE h == <<"CH">>
             n == Len(<<Rec(<<>>, 0, "CH", <<>>)>>)
             d == [Fresh EXCEPT !.hash = h]
  <2>1. n \in Nat /\ h \in Transcript
    BY OneLong DEF Transcript, Words
  <2>2. Fresh \in Clients /\ Fresh.rx = 0 /\ Fresh.certV = <<>> /\ Fresh.ticket = FALSE
    BY FreshType DEF Fresh
  <2> HIDE DEF h, n
  <2>3. /\ d \in Clients /\ d.rx = 0 /\ d.hash = h /\ d.certV = <<>> /\ d.ticket = FALSE
    BY <2>1, <2>2 DEF Clients
  <2>4. c = [d EXCEPT !.tx = d.tx + n]
    BY DEF NewClient, h, n
  <2> HIDE DEF c, d
  <2>5. /\ c \in Clients /\ c.rx = 0 /\ c.hash = h /\ c.certV = <<>> /\ c.ticket = FALSE
    BY <2>1, <2>3, <2>4 DEF Clients
  <2> QED BY <2>5 DEF h
<1>3. Stream(<<>>, <<>>, <<>>, <<>>)
  <2>1. <<>> \in Seq(Records) /\ Pieces(<<>>) = <<>>
    <3>1. <<>> \in Seq(Records) /\ Len(<<>>) = 0
      BY EmptySeq
    <3>2. Pieces(<<>>) \in Seq(Chunks) /\ Len(Pieces(<<>>)) = 2 * Len(<<>>)
      BY <3>1, PiecesShape
    <3> QED BY <3>1, <3>2, EmptySeq
  <2> QED BY <2>1, StreamStart
<1> HIDE DEF c
<1>4. Formed' /\ \A k \in Logins \ {l} : Still(k)
  BY <1>1, <1>2 DEF StepInv, Formed, Still
<1>5. /\ pc'[l] = "serverHello" /\ client'[l] = c /\ up'[l] = u
      /\ recq'[l] = <<>> /\ rxbuf'[l] = <<>> /\ wire'[l] = <<>>
      /\ psk'[l] = psk[l] /\ issued'[l] = issued[l]
  BY <1>1 DEF StepInv, Formed, StageInv, Shapes
<1>6. AwaitsHello(client'[l], up'[l], server'[l], recq'[l], rxbuf'[l], wire'[l], excused'[l])
  BY <1>2, <1>3, <1>5 DEF AwaitsHello
<1>7. Progress(l)'
  BY <1>5, <1>6 DEF StepInv, Progress
<1> QED BY <1>4, <1>7, OneMoves

\* The flight of the server is the one its side goes by.
LEMMA ServerFlightStep ==
  ASSUME StepInv, StageInv, NEW l \in Logins, ServerFlight(l)
  PROVE  StepInv'
<1>1. /\ up[l] # <<>> /\ Head(up[l]).type = "CH" /\ up' = Set(up, l, <<>>)
      /\ UNCHANGED <<pc, conn, client, rxbuf, recq, issued, psk>>
  BY DEF ServerFlight, conns
<1>2. PICK f \in Flights :
        /\ wire' = Set(wire, l, Pieces(FlightRecs(f)))
        /\ server' = Set(server, l, ServerSide(f))
        /\ excused' = Set(excused, l, excused[l] \/ f \notin Usual)
  <2> DEFINE recs(f) == <<Rec(<<>>, 0, "SH", <<>>)>>
                          \o [i \in 1..Len(f) |-> Rec(Key("hsS", Hello), i, f[i], <<>>)]
                          \o <<Rec(Key("hsS", Hello), Len(f) + 1, "Fin", Hello \o f)>>
  <2>1. PICK f \in Flights :
          /\ wire' = Set(wire, l, Pieces(IF f = Refusal THEN <<Rec(<<>>, 0, "Alert", <<>>)>>
                                         ELSE recs(f)))
          /\ server' = Set(server, l, [tx |-> Len(recs(f)), final |-> Hello \o f,
                                       certV |-> CertV(f, Len(f))])
          /\ excused' = Set(excused, l, excused[l] \/ f \notin Usual)
    BY DEF ServerFlight, CertV, Hello, Refusal
  <2>2. Len(recs(f)) = Len(f) + 2
    BY RecsLength
  <2> QED BY <2>1, <2>2 DEF FlightRecs, ServerSide
<1>3. Formed' /\ \A k \in Logins \ {l} : Still(k)
  BY <1>1, <1>2 DEF StepInv, Formed, Still
<1>4. /\ wire'[l] = Pieces(FlightRecs(f)) /\ server'[l] = ServerSide(f) /\ up'[l] = <<>>
      /\ excused'[l] = (excused[l] \/ f \notin Usual)
  BY <1>1, <1>2 DEF StepInv, Formed
<1>5. Progress(l)
  BY DEF StepInv
<1>6. CASE pc[l] = "serverHello"
  <2>1. /\ client[l].rx = 0 /\ client[l].hash = <<"CH">> /\ client[l].certV = <<>>
        /\ client[l].ticket = FALSE /\ Stream(recq[l], rxbuf[l], wire[l], <<>>)
    BY <1>1, <1>5, <1>6 DEF Progress, AwaitsHello
  <2>2. recq[l] = <<>> /\ rxbuf[l] = <<>>
    BY <2>1, StreamNone
  <2>3. FlightRecs(f) \in Seq(Records)
    BY FlightRecords
  <2>4. Stream(<<>>, <<>>, Pieces(FlightRecs(f)), FlightRecs(f))
    BY <2>3, StreamStart
  <2>5. AwaitsHello(client'[l], up'[l], server'[l], recq'[l], rxbuf'[l], wire'[l], excused'[l])
    BY <1>1, <1>4, <2>1, <2>2, <2>4 DEF AwaitsHello
  <2>6. Progress(l)'
    BY <1>1, <1>5, <1>6, <2>5 DEF Progress
  <2> QED BY <1>3, <2>6, OneMoves
<1>7. CASE pc[l] \in {"flight", "finish", "login", "answer", "result"}
  <2>1. pc[l] \notin {"flight", "finish"}
    BY <1>1, <1>5 DEF Progress, AwaitsFinished, Finishes
  <2>2. ASSUME pc[l] = "login" PROVE FALSE
    <3>1. \E f1 \in Flights \ {Refusal} : up[l] = <<Finish(f1)>>
      BY <1>5, <2>2 DEF Progress, LogsIn
    <3> QED BY <1>1, <3>1 DEF Finish, Rec
  <2>3. ASSUME pc[l] = "answer" PROVE FALSE
    <3>1. \E f1 \in Flights \ {Refusal} : up[l] = <<Finish(f1), Request(f1)>>
      BY <1>1, <1>5, <2>3 DEF Progress, AwaitsAnswer
    <3> QED BY <1>1, <3>1 DEF Finish, Rec
  <2>4. ASSUME pc[l] = "result" PROVE FALSE
    <3>1. \E p \in psk[l] : up[l] = Early(p)
      BY <1>1, <1>5, <2>4 DEF Progress, AwaitsResult
    <3> QED BY <1>1, <3>1 DEF Early, Rec
  <2> QED BY <1>7, <2>1, <2>2, <2>3, <2>4
<1>8. CASE pc[l] \notin Talking
  <2>1. Progress(l)'
    BY <1>1, <1>4, <1>5, <1>8 DEF Progress, Talking
  <2> QED BY <1>3, <2>1, OneMoves
<1> QED BY <1>6, <1>7, <1>8 DEF Talking

\* A record received, but for its number, and the rest of its stream.
LEMMA ReceivedIs ==
  ASSUME StepInv, NEW l \in Logins, NEW c \in Clients, Received(l, c)
  PROVE  /\ client' \in [Logins -> Clients] /\ client'[l] = [c EXCEPT !.rx = c.rx + 1]
         /\ recq'[l] = Tail(recq[l]) /\ DOMAIN recq' = Logins
         /\ \A k \in Logins \ {l} : client'[k] = client[k] /\ recq'[k] = recq[k]
<1>1. [c EXCEPT !.rx = c.rx + 1] \in Clients
  BY DEF Clients
<1> QED BY <1>1 DEF Received, StepInv, Formed

\* Nothing but ServerHello comes first, unless the server refuses.
LEMMA RecvServerHelloStep ==
  ASSUME StepInv, StageInv, NEW l \in Logins, RecvServerHello(l)
  PROVE  StepInv'
<1> DEFINE c == client[l]
           hash == c.hash \o <<"SH">>
           d == [c EXCEPT !.hash = hash, !.hs = hash]
<1>1. /\ pc[l] = "serverHello" /\ recq[l] # <<>> /\ Progress(l) /\ c \in Clients
      /\ UNCHANGED <<up, server, wire, rxbuf, issued, psk, excused>>
  BY DEF RecvServerHello, StepInv, Formed
<1>2. PICK f \in Flights : /\ up[l] = <<>> /\ server[l] = ServerSide(f)
                           /\ Stream(recq[l], rxbuf[l], wire[l], FlightRecs(f))
                           /\ (f \in Usual \/ excused[l])
                           /\ c.rx = 0 /\ c.hash = <<"CH">> /\ c.certV = <<>> /\ c.ticket = FALSE
  <2>1. AwaitsHello(c, up[l], server[l], recq[l], rxbuf[l], wire[l], excused[l])
    BY <1>1 DEF Progress
  <2>2. ~Stream(recq[l], rxbuf[l], wire[l], <<>>)
    BY <1>1, StreamNone
  <2> QED BY <2>1, <2>2 DEF AwaitsHello
<1>3. /\ Head(recq[l]) = FlightRecs(f)[1]
      /\ Stream(Tail(recq[l]), rxbuf[l], wire[l], SubSeq(FlightRecs(f), 2, Len(FlightRecs(f))))
  BY <1>1, <1>2, StreamHead
<1>4. CASE f = Refusal
  <2>1. Head(recq[l]) = Rec(<<>>, 0, "Alert", <<>>)
    BY <1>3, <1>4, OneLong DEF FlightRecs
  <2>2. Head(recq[l]).type # "SH"
    BY <2>1 DEF Rec
  <2>3. GiveUp(l) /\ UNCHANGED <<mmtls, psk, excused>>
    BY <2>2 DEF RecvServerHello, mmtls
  <2>4. excused[l]
    BY <1>2, <1>4, UsualComplete
  <2> QED BY <2>3, <2>4, GiveUpStep
<1>5. CASE f # Refusal
  <2>1. Head(recq[l]).type = "SH"
    <3>1. Head(recq[l]) = Rec(<<>>, 0, "SH", <<>>)
      BY <1>3, <1>5, FlightShape
    <3> QED BY <3>1 DEF Rec
  <2>2. Received(l, d) /\ Goto(l, "flight") /\ UNCHANGED conns
    BY <2>1 DEF RecvServerHello
  <2>3. hash = Hello /\ Hello \in Transcript
    <3>1. <<"CH">> \o <<"SH">> = Hello
      BY PairConcat DEF Hello
    <3> QED BY <1>2, <3>1, FlightTypes
  <2>4. d \in Clients /\ d.rx = 0 /\ d.hash = Hello /\ d.hs = Hello /\ d.certV = <<>>
        /\ d.ticket = FALSE
    <3> HIDE DEF hash
    <3> QED BY <1>1, <1>2, <2>3 DEF Clients
  <2> HIDE DEF d
  <2>5. /\ client' \in [Logins -> Clients] /\ client'[l] = [d EXCEPT !.rx = d.rx + 1]
        /\ recq'[l] = Tail(recq[l]) /\ DOMAIN recq' = Logins
        /\ \A k \in Logins \ {l} : client'[k] = client[k] /\ recq'[k] = recq[k]
    BY <2>2, <2>4, ReceivedIs
  <2>6. Formed' /\ \A k \in Logins \ {l} : Still(k)
    BY <1>1, <2>2, <2>5 DEF StepInv, Formed, Still, conns
  <2>7. Heard(client'[l], f, 0)
    <3>1. /\ client'[l].rx = 1 /\ client'[l].hs = Hello /\ client'[l].hash = Hello
          /\ client'[l].certV = <<>> /\ client'[l].ticket = FALSE
      BY <2>4, <2>5 DEF Clients
    <3>2. Hello \o SubSeq(f, 1, 0) = Hello
      BY SubSeqEmpty, ConcatEmptySeq, FlightTypes DEF Transcript
    <3>3. CertV(f, 0) = <<>> /\ Ticket(f, 0) = FALSE
      BY DEF CertV, Ticket
    <3> DEFINE e == client'[l]
    <3>4. e.rx = 0 + 1 /\ e.hs = Hello /\ e.hash = Hello \o SubSeq(f, 1, 0)
          /\ e.certV = CertV(f, 0) /\ e.ticket = Ticket(f, 0)
      <4>1. e.rx = 0 + 1
        BY <3>1
      <4>2. e.hash = Hello \o SubSeq(f, 1, 0)
        BY <3>1, <3>2, Zenon
      <4>3. e.certV = CertV(f, 0) /\ e.ticket = Ticket(f, 0)
        BY <3>1, <3>3, Zenon
      <4> QED BY <3>1, <4>1, <4>2, <4>3
    <3> HIDE DEF e
    <3>5. Heard(e, f, 0)
      BY <3>4 DEF Heard
    <3> QED BY <3>5 DEF e
  <2>8. Stream(recq'[l], rxbuf'[l], wire'[l], SubSeq(FlightRecs(f), 0 + 2, Len(f) + 2))
    <3>1. Len(FlightRecs(f)) = Len(f) + 2
      BY <1>5, FlightShape
    <3> QED BY <1>1, <1>3, <2>5, <3>1
  <2>9. AwaitsFinished(client'[l], up'[l], server'[l], recq'[l], rxbuf'[l], wire'[l], excused'[l])
    <3>1. 0 \in 0..Len(f)
      BY FlightTypes
    <3> QED BY <1>1, <1>2, <1>5, <2>7, <2>8, <3>1 DEF AwaitsFinished
  <2>10. Progress(l)'
    <3>1. pc'[l] = "flight"
      BY <2>2 DEF StageInv, Shapes
    <3> QED BY <1>1, <2>9, <3>1 DEF Progress
  <2> QED BY <2>6, <2>10, OneMoves
<1> QED BY <1>4, <1>5

\* What Noted makes of it.
LEMMA NotedHeard ==
  ASSUME NEW f \in Flights, f # Refusal, NEW n \in 0..Len(f) - 1, NEW c \in Clients, Heard(c, f, n),
         f[n + 1] \in {"CV", "NST"}
  PROVE  LET d == Noted(c, f[n + 1])
         IN /\ d \in Clients /\ d.rx = n + 1 /\ d.hs = Hello
            /\ d.hash = Hello \o SubSeq(f, 1, n + 1)
            /\ d.certV = CertV(f, n + 1) /\ d.ticket = Ticket(f, n + 1)
<1> DEFINE t == f[n + 1]
           h == c.hash \o <<t>>
           v == IF t = "CV" THEN h ELSE c.certV
           b == (c.ticket \/ t = "NST")
           d == [c EXCEPT !.hash = h, !.certV = v, !.ticket = b]
<1>1. h = Hello \o SubSeq(f, 1, n + 1) /\ h \in Transcript
  BY NextNoted DEF Heard
<1>2. v = CertV(f, n + 1) /\ v \in Transcript
  <2>1. CertV(f, n + 1) = IF t = "CV" THEN Hello \o SubSeq(f, 1, n + 1) ELSE CertV(f, n)
    BY NextNoted
  <2>2. c.certV = CertV(f, n) /\ c.certV \in Transcript
    BY DEF Heard, Clients
  <2> QED BY <1>1, <2>1, <2>2
<1>3. b = Ticket(f, n + 1) /\ b \in BOOLEAN
  <2>1. Ticket(f, n + 1) <=> (Ticket(f, n) \/ t = "NST")
    BY NextNoted
  <2>2. c.ticket = Ticket(f, n)
    BY DEF Heard
  <2>3. Ticket(f, n + 1) \in BOOLEAN /\ Ticket(f, n) \in BOOLEAN
    BY DEF Ticket
  <2> QED BY <2>1, <2>2, <2>3, Zenon
<1>4. c.rx = n + 1 /\ c.hs = Hello
  BY DEF Heard
<1> HIDE DEF h, v, b
<1>5. d \in Clients /\ d.rx = c.rx /\ d.hs = c.hs /\ d.hash = h /\ d.certV = v /\ d.ticket = b
  BY <1>1, <1>2, <1>3 DEF Clients
<1>6. d = Noted(c, t)
  BY DEF Noted, h, v, b
<1> HIDE DEF d
<1>7. /\ d \in Clients /\ d.rx = n + 1 /\ d.hs = Hello
      /\ d.hash = Hello \o SubSeq(f, 1, n + 1)
      /\ d.certV = CertV(f, n + 1) /\ d.ticket = Ticket(f, n + 1)
  BY <1>1, <1>2, <1>3, <1>4, <1>5, Zenon
<1> QED BY <1>6, <1>7

\* The records after ServerHello open one after the other, and Finished is the expected one.
LEMMA RecvFlightStep ==
  ASSUME StepInv, StageInv, NEW l \in Logins, RecvFlight(l)
  PROVE  StepInv'
<1> DEFINE c == client[l]
           r == Head(recq[l])
<1>1. /\ pc[l] = "flight" /\ recq[l] # <<>> /\ Progress(l) /\ c \in Clients
      /\ UNCHANGED <<up, server, wire, rxbuf, issued, psk, excused>>
  BY DEF RecvFlight, StepInv, Formed
<1>2. PICK f \in Flights \ {Refusal} : \E n \in 0..Len(f) :
        /\ up[l] = <<>> /\ Heard(c, f, n) /\ server[l] = ServerSide(f)
        /\ (f \in Usual \/ excused[l])
        /\ Stream(recq[l], rxbuf[l], wire[l], SubSeq(FlightRecs(f), n + 2, Len(f) + 2))
  BY <1>1 DEF Progress, AwaitsFinished
<1>3. PICK n \in 0..Len(f) :
        /\ up[l] = <<>> /\ Heard(c, f, n) /\ server[l] = ServerSide(f)
        /\ (f \in Usual \/ excused[l])
        /\ Stream(recq[l], rxbuf[l], wire[l], SubSeq(FlightRecs(f), n + 2, Len(f) + 2))
  BY <1>2
<1>4. f \in Flights /\ f # Refusal /\ Len(f) \in Nat /\ n \in Nat
  BY FlightTypes
<1>5. /\ r = FlightRecs(f)[n + 2]
      /\ Stream(Tail(recq[l]), rxbuf[l], wire[l], SubSeq(FlightRecs(f), n + 3, Len(f) + 2))
  <2> DEFINE left == SubSeq(FlightRecs(f), n + 2, Len(f) + 2)
  <2>1. /\ left[1] = FlightRecs(f)[n + 2]
        /\ SubSeq(left, 2, Len(left)) = SubSeq(FlightRecs(f), n + 3, Len(f) + 2)
    BY <1>4, FlightRest
  <2>2. Stream(recq[l], rxbuf[l], wire[l], left)
    BY <1>3
  <2> HIDE DEF left
  <2>3. /\ r = left[1]
        /\ Stream(Tail(recq[l]), rxbuf[l], wire[l], SubSeq(left, 2, Len(left)))
    BY <1>1, <2>2, StreamHead
  <2> QED BY <2>1, <2>3
<1>6. c.rx = n + 1 /\ c.hs = Hello /\ c.hash = Hello \o SubSeq(f, 1, n)
  BY <1>3 DEF Heard
<1>7. CASE n < Len(f)
  <2>1. n + 1 \in 1..Len(f) /\ (n + 1) + 1 = n + 2 /\ n \in 0..Len(f) - 1 /\ n + 1 \in 0..Len(f)
    BY <1>4, <1>7
  <2>2. r = Rec(Key("hsS", Hello), n + 1, f[n + 1], <<>>)
    BY <1>4, <1>5, <2>1, FlightShape
  <2>3. f[n + 1] \in {"CV", "NST"}
    BY <1>4, <2>1, FlightTypes
  <2>4. /\ r.key = Key("hsS", c.hs) /\ r.seq = c.rx /\ r.type = f[n + 1] /\ r.type # "Fin"
    BY <1>6, <2>2, <2>3 DEF Rec
  <2> DEFINE d == Noted(c, f[n + 1])
  <2>5. Received(l, d) /\ UNCHANGED <<pc, conns>>
    BY <2>4 DEF RecvFlight, Opens
  <2>6. /\ d \in Clients /\ d.rx = n + 1 /\ d.hs = Hello
        /\ d.hash = Hello \o SubSeq(f, 1, n + 1)
        /\ d.certV = CertV(f, n + 1) /\ d.ticket = Ticket(f, n + 1)
    BY <1>1, <1>3, <1>4, <2>1, <2>3, NotedHeard
  <2> HIDE DEF d
  <2>7. /\ client' \in [Logins -> Clients] /\ client'[l] = [d EXCEPT !.rx = d.rx + 1]
        /\ recq'[l] = Tail(recq[l]) /\ DOMAIN recq' = Logins
        /\ \A k \in Logins \ {l} : client'[k] = client[k] /\ recq'[k] = recq[k]
    BY <2>5, <2>6, ReceivedIs
  <2>8. Formed' /\ \A k \in Logins \ {l} : Still(k)
    BY <1>1, <2>5, <2>7 DEF StepInv, Formed, Still, conns
  <2>9. Heard(client'[l], f, n + 1)
    <3> DEFINE e == client'[l]
    <3>1. /\ e.rx = d.rx + 1 /\ e.hs = d.hs /\ e.hash = d.hash /\ e.certV = d.certV
          /\ e.ticket = d.ticket
      BY <2>6, <2>7 DEF Clients
    <3>2. e.rx = (n + 1) + 1
      BY <2>6, <3>1
    <3> HIDE DEF e
    <3>3. Heard(e, f, n + 1)
      BY <2>6, <3>1, <3>2, Zenon DEF Heard
    <3> QED BY <3>3 DEF e
  <2>10. Stream(recq'[l], rxbuf'[l], wire'[l], SubSeq(FlightRecs(f), (n + 1) + 2, Len(f) + 2))
    <3>1. (n + 1) + 2 = n + 3
      BY <1>4
    <3> QED BY <1>1, <1>5, <2>7, <3>1
  <2>11. AwaitsFinished(client'[l], up'[l], server'[l], recq'[l], rxbuf'[l], wire'[l], excused'[l])
    BY <1>1, <1>3, <2>1, <2>9, <2>10 DEF AwaitsFinished
  <2>12. Progress(l)'
    BY <1>1, <2>5, <2>11 DEF Progress
  <2> QED BY <2>8, <2>12, OneMoves
<1>8. CASE n = Len(f)
  <2>1. r = Rec(Key("hsS", Hello), Len(f) + 1, "Fin", Hello \o f)
    BY <1>4, <1>5, <1>8, FlightShape
  <2>2. c.hash = Hello \o f /\ Hello \o f \in Transcript
    BY <1>4, <1>6, <1>8, FlightTypes, SubSeqFull DEF Transcript
  <2>3. /\ r.key = Key("hsS", c.hs) /\ r.seq = c.rx /\ r.type = "Fin" /\ r.data = c.hash
    BY <1>6, <1>8, <2>1, <2>2 DEF Rec
  <2> DEFINE d == [c EXCEPT !.final = c.hash]
  <2>4. Received(l, d) /\ Goto(l, "finish") /\ UNCHANGED conns
    BY <2>3 DEF RecvFlight, Opens
  <2>5. /\ d \in Clients /\ d.rx = c.rx /\ d.hs = c.hs /\ d.final = c.hash
        /\ d.certV = c.certV /\ d.ticket = c.ticket
    BY <1>1 DEF Clients
  <2> HIDE DEF d
  <2>6. /\ client' \in [Logins -> Clients] /\ client'[l] = [d EXCEPT !.rx = d.rx + 1]
        /\ recq'[l] = Tail(recq[l]) /\ DOMAIN recq' = Logins
        /\ \A k \in Logins \ {l} : client'[k] = client[k] /\ recq'[k] = recq[k]
    BY <2>4, <2>5, ReceivedIs
  <2>7. Formed' /\ \A k \in Logins \ {l} : Still(k)
    BY <1>1, <2>4, <2>6 DEF StepInv, Formed, Still, conns
  <2>8. Greeted(client'[l], server'[l], f)
    <3> DEFINE e == client'[l]
    <3>1. /\ e.rx = d.rx + 1 /\ e.hs = d.hs /\ e.final = d.final /\ e.certV = d.certV
          /\ e.ticket = d.ticket
      BY <2>5, <2>6 DEF Clients
    <3>2. e.rx = Len(f) + 2
      BY <1>4, <1>6, <1>8, <2>5, <3>1
    <3>3. c.certV = CertV(f, Len(f)) /\ c.ticket = Ticket(f, Len(f))
      BY <1>3, <1>8, Zenon DEF Heard
    <3>4. server'[l] = ServerSide(f)
      BY <1>1, <1>3
    <3> HIDE DEF e
    <3>5. Greeted(e, server'[l], f)
      BY <1>6, <2>2, <2>5, <3>1, <3>2, <3>3, <3>4, Zenon DEF Greeted
    <3> QED BY <3>5 DEF e
  <2>9. Stream(recq'[l], rxbuf'[l], wire'[l], <<>>)
    <3>1. SubSeq(FlightRecs(f), n + 3, Len(f) + 2) = <<>>
      <4>1. Len(f) + 2 < n + 3 /\ n + 3 \in Int /\ Len(f) + 2 \in Int
        BY <1>4, <1>8
      <4> QED BY <4>1, SubSeqEmpty
    <3> QED BY <1>1, <1>5, <2>6, <3>1
  <2>10. Finishes(client'[l], up'[l], server'[l], recq'[l], rxbuf'[l], wire'[l], excused'[l])
    BY <1>1, <1>3, <2>8, <2>9 DEF Finishes
  <2>11. Progress(l)'
    <3>1. pc'[l] = "finish"
      BY <2>4 DEF StageInv, Shapes
    <3> QED BY <1>1, <2>10, <3>1 DEF Progress
  <2> QED BY <2>7, <2>11, OneMoves
<1>9. n < Len(f) \/ n = Len(f)
  BY <1>4
<1> QED BY <1>7, <1>8, <1>9

\* Finished goes under the keys, and with the transcript, the server goes by.
LEMMA SendClientFinishedStep ==
  ASSUME StepInv, StageInv, NEW l \in Logins, SendClientFinished(l)
  PROVE  StepInv'
<1> DEFINE c == client[l]
           u == <<Rec(Key("hsC", c.hs), c.tx, "Fin", c.final)>>
           d == [c EXCEPT !.tx = c.tx + Len(u)]
<1>1. /\ pc[l] = "finish" /\ Progress(l) /\ c \in Clients /\ c.tx = 1
      /\ client' = Set(client, l, d) /\ up' = Set(up, l, u) /\ Goto(l, "login")
      /\ UNCHANGED <<conn, server, wire, rxbuf, recq, issued, psk, excused>>
  BY DEF SendClientFinished, Send, StepInv, Formed, StageInv, Stages
<1>2. PICK f \in Flights \ {Refusal} : Greeted(c, server[l], f) /\ (f \in Usual \/ excused[l])
  BY <1>1 DEF Progress, Finishes
<1>3. Stream(recq[l], rxbuf[l], wire[l], <<>>)
  BY <1>1 DEF Progress, Finishes
<1>4. u = <<Finish(f)>>
  BY <1>1, <1>2 DEF Greeted, Finish
<1>5. Len(u) \in Nat
  BY OneLong
<1> HIDE DEF u
<1>6. /\ d \in Clients /\ d.rx = c.rx /\ d.hs = c.hs /\ d.final = c.final /\ d.certV = c.certV
      /\ d.ticket = c.ticket
  BY <1>1, <1>5 DEF Clients
<1> HIDE DEF d
<1>7. Formed' /\ \A k \in Logins \ {l} : Still(k)
  BY <1>1, <1>6 DEF StepInv, Formed, Still
<1>8. /\ client'[l] = d /\ up'[l] = u /\ pc'[l] = "login"
  BY <1>1 DEF StepInv, Formed, StageInv, Shapes
<1>9. Greeted(d, server[l], f)
  BY <1>2, <1>6, Zenon DEF Greeted
<1>10. LogsIn(client'[l], up'[l], server'[l], recq'[l], rxbuf'[l], wire'[l], excused'[l])
  BY <1>1, <1>2, <1>3, <1>4, <1>8, <1>9 DEF LogsIn
<1>11. Progress(l)'
  BY <1>1, <1>8, <1>10 DEF Progress
<1> QED BY <1>7, <1>11, OneMoves

\* The request follows it.
LEMMA SendAppStep ==
  ASSUME StepInv, StageInv, NEW l \in Logins, SendApp(l)
  PROVE  StepInv'
<1> DEFINE c == client[l]
           r == Rec(Key("appC", c.final), c.tx, "ManualAuth", <<>>)
           d == [c EXCEPT !.tx = c.tx + 1]
<1>1. /\ pc[l] = "login" /\ Progress(l) /\ c \in Clients /\ c.tx = 2
      /\ client' = Set(client, l, d) /\ up' = Set(up, l, Append(up[l], r)) /\ Goto(l, "answer")
      /\ UNCHANGED <<conn, server, wire, rxbuf, recq, issued, psk, excused>>
  BY DEF SendApp, StepInv, Formed, StageInv, Stages, conns
<1>2. PICK f \in Flights \ {Refusal} : /\ Greeted(c, server[l], f) /\ (f \in Usual \/ excused[l])
                                       /\ up[l] = <<Finish(f)>>
  BY <1>1 DEF Progress, LogsIn
<1>3. Stream(recq[l], rxbuf[l], wire[l], <<>>)
  BY <1>1 DEF Progress, LogsIn
<1>4. Append(up[l], r) = <<Finish(f), Request(f)>>
  <2>1. r = Request(f)
    BY <1>1, <1>2 DEF Greeted, Request
  <2>2. \A x, y : Append(<<x>>, y) = <<x, y>>
    BY PairAppend
  <2> QED BY <1>2, <2>1, <2>2
<1> HIDE DEF r
<1>6. /\ d \in Clients /\ d.rx = c.rx /\ d.hs = c.hs /\ d.final = c.final /\ d.certV = c.certV
      /\ d.ticket = c.ticket
  BY <1>1 DEF Clients
<1> HIDE DEF d
<1>7. Formed' /\ \A k \in Logins \ {l} : Still(k)
  BY <1>1, <1>6 DEF StepInv, Formed, Still
<1>8. /\ client'[l] = d /\ up'[l] = <<Finish(f), Request(f)>> /\ pc'[l] = "answer"
  BY <1>1, <1>4 DEF StepInv, Formed, StageInv, Shapes
<1>9. Greeted(d, server[l], f)
  BY <1>2, <1>6, Zenon DEF Greeted
<1>10. AwaitsAnswer(client'[l], up'[l], server'[l], recq'[l], rxbuf'[l], wire'[l], excused'[l],
                    conn'[l], issued'[l])
  BY <1>1, <1>2, <1>3, <1>8, <1>9 DEF AwaitsAnswer
<1>11. Progress(l)'
  BY <1>1, <1>8, <1>10 DEF Progress
<1> QED BY <1>7, <1>11, OneMoves

\* The server opens what it is sent: it answers, and it knows the ticket's PSK.
LEMMA ServerLoginStep ==
  ASSUME StepInv, StageInv, NEW l \in Logins, ServerLogin(l)
  PROVE  StepInv'
<1> DEFINE s == server[l]
           ok == up[l] = <<Rec(Key("hsC", SubSeq(s.final, 1, 2)), 1, "Fin", s.final),
                           Rec(Key("appC", s.final), 2, "ManualAuth", <<>>)>>
           given(t) == [conn |-> conn[l], certV |-> t]
<1>1. /\ pc[l] = "answer" /\ up[l] # <<>> /\ Progress(l) /\ up' = Set(up, l, <<>>)
      /\ UNCHANGED <<pc, conn, client, server, rxbuf, recq, psk>>
  BY DEF ServerLogin, StepInv, conns
<1>2. PICK f \in Flights \ {Refusal} :
        /\ Greeted(client[l], s, f) /\ (f \in Usual \/ excused[l])
        /\ up[l] = <<Finish(f), Request(f)>> /\ Stream(recq[l], rxbuf[l], wire[l], <<>>)
  <2>1. AwaitsAnswer(client[l], up[l], s, recq[l], rxbuf[l], wire[l], excused[l], conn[l],
                     issued[l])
    BY <1>1 DEF Progress
  <2> QED BY <1>1, <2>1 DEF AwaitsAnswer
<1>3. /\ s.final = Hello \o f /\ s.tx = Len(f) + 2 /\ s.certV = CertV(f, Len(f))
      /\ SubSeq(s.final, 1, 2) = Hello
  BY <1>2, FlightTypes DEF Greeted, ServerSide
<1>4. ok
  BY <1>2, <1>3 DEF Finish, Request
<1>5. PICK type \in {"ManualAuth", "Other"} :
        /\ wire' = Set(wire, l, wire[l] \o Pieces(<<Rec(Key("appS", s.final), s.tx, type, <<>>)>>))
        /\ excused' = Set(excused, l, excused[l] \/ (ok /\ type = "Other"))
        /\ issued' = Set(issued, l, issued[l] \cup {given(s.certV)})
  BY <1>4 DEF ServerLogin
<1>6. wire'[l] = wire[l] \o Pieces(<<Outcome(f, type)>>)
  BY <1>3, <1>5 DEF Outcome, StepInv, Formed
<1>7. /\ up'[l] = <<>> /\ excused'[l] \in BOOLEAN
      /\ (excused[l] => excused'[l]) /\ (type = "Other" => excused'[l])
      /\ issued'[l] = issued[l] \cup {given(CertV(f, Len(f)))}
  <2>1. up'[l] = <<>> /\ issued'[l] = issued[l] \cup {given(CertV(f, Len(f)))}
    BY <1>1, <1>3, <1>5 DEF StepInv, Formed
  <2>2. excused'[l] = (excused[l] \/ (ok /\ type = "Other")) /\ excused[l] \in BOOLEAN
    BY <1>5 DEF StepInv, Formed
  <2>3. excused'[l] \in BOOLEAN /\ (excused[l] => excused'[l]) /\ (type = "Other" => excused'[l])
    <3> HIDE DEF ok
    <3> QED BY <1>4, <2>2
  <2> QED BY <2>1, <2>3
<1>8. Formed' /\ \A k \in Logins \ {l} : Still(k)
  <2>1. \A k \in Logins \ {l} : excused'[k] = excused[k]
    BY <1>5 DEF StepInv, Formed
  <2>2. excused' \in [Logins -> BOOLEAN]
    BY <1>5 DEF StepInv, Formed
  <2> HIDE DEF ok
  <2> QED BY <1>1, <1>5, <2>1, <2>2 DEF StepInv, Formed, Still
<1>9. Outcome(f, type) \in Records
  <2>1. "appS" \in Words /\ type \in Words
    BY DEF Words
  <2>2. Hello \o f \in Transcript /\ Len(f) + 2 \in Nat /\ <<>> \in Transcript
    BY FlightTypes, EmptySeq DEF Transcript
  <2>3. Key("appS", Hello \o f) \in Transcript
    BY <2>1, <2>2, KeyType
  <2> QED BY <2>1, <2>2, <2>3 DEF Outcome, Rec, Records
<1>10. Stream(recq'[l], rxbuf'[l], wire'[l], <<Outcome(f, type)>>)
  BY <1>1, <1>2, <1>6, <1>9, StreamAnswer
<1>11. AwaitsAnswer(client'[l], up'[l], server'[l], recq'[l], rxbuf'[l], wire'[l], excused'[l],
                    conn'[l], issued'[l])
  <2>1. Greeted(client'[l], server'[l], f) /\ (f \in Usual \/ excused'[l])
    BY <1>1, <1>2, <1>7
  <2>2. [conn |-> conn'[l], certV |-> CertV(f, Len(f))] \in issued'[l]
    BY <1>1, <1>7
  <2>3. type = "ManualAuth" \/ excused'[l]
    BY <1>7
  <2> QED BY <1>7, <1>10, <2>1, <2>2, <2>3 DEF AwaitsAnswer
<1>12. psk'[l] \subseteq issued'[l] /\ \A p \in psk'[l] : p.certV # <<>>
  BY <1>1, <1>7 DEF Progress
<1>13. Progress(l)'
  BY <1>1, <1>11, <1>12 DEF Progress
<1> QED BY <1>8, <1>13, OneMoves

\* Its answer opens under the client's keys and number: what fails is what the server left out
\* or refused.
LEMMA RecvAppStep ==
  ASSUME StepInv, StageInv, NEW l \in Logins, RecvApp(l)
  PROVE  StepInv'
<1> DEFINE c == client[l]
           r == Head(recq[l])
           ok == /\ Opens(l, Key("appS", c.final)) /\ r.type = "ManualAuth"
                 /\ c.certV # <<>> /\ c.ticket
           new == [conn |-> conn[l], certV |-> c.certV]
<1>1. /\ pc[l] = "answer" /\ recq[l] # <<>> /\ Progress(l) /\ c \in Clients
      /\ UNCHANGED <<up, server, wire, rxbuf, issued, excused>>
  BY DEF RecvApp, StepInv, Formed
<1>2. PICK f \in Flights \ {Refusal} : \E type \in {"ManualAuth", "Other"} :
        /\ Greeted(c, server[l], f) /\ (f \in Usual \/ excused[l])
        /\ [conn |-> conn[l], certV |-> CertV(f, Len(f))] \in issued[l]
        /\ Stream(recq[l], rxbuf[l], wire[l], <<Outcome(f, type)>>)
        /\ (type = "ManualAuth" \/ excused[l])
  <2>1. AwaitsAnswer(client[l], up[l], server[l], recq[l], rxbuf[l], wire[l], excused[l], conn[l],
                     issued[l])
    BY <1>1 DEF Progress
  <2>2. ~Stream(recq[l], rxbuf[l], wire[l], <<>>)
    BY <1>1, StreamNone
  <2> QED BY <2>1, <2>2 DEF AwaitsAnswer
<1>3. PICK type \in {"ManualAuth", "Other"} :
        /\ Greeted(c, server[l], f) /\ (f \in Usual \/ excused[l])
        /\ [conn |-> conn[l], certV |-> CertV(f, Len(f))] \in issued[l]
        /\ Stream(recq[l], rxbuf[l], wire[l], <<Outcome(f, type)>>)
        /\ (type = "ManualAuth" \/ excused[l])
  BY <1>2
<1>4. r = Outcome(f, type)
  <2> DEFINE e == <<Outcome(f, type)>>
  <2>1. Stream(recq[l], rxbuf[l], wire[l], e) /\ e[1] = Outcome(f, type)
    BY <1>3
  <2> HIDE DEF e
  <2>2. r = e[1]
    BY <1>1, <2>1, StreamHead
  <2> QED BY <2>1, <2>2
<1>5. /\ c.rx = Len(f) + 2 /\ c.final = Hello \o f /\ c.certV = CertV(f, Len(f))
      /\ c.ticket = Ticket(f, Len(f))
  BY <1>3, Zenon DEF Greeted
<1>6. Opens(l, Key("appS", c.final)) /\ r.type = type
  BY <1>4, <1>5 DEF Opens, Outcome, Rec
<1>7. ok \/ excused[l]
  <2>1. CASE f \in Usual /\ type = "ManualAuth"
    <3>1. CertV(f, Len(f)) # <<>> /\ Ticket(f, Len(f))
      BY <2>1, UsualComplete
    <3>2. c.ticket
      BY <1>5, <3>1, Zenon
    <3> QED BY <1>5, <1>6, <2>1, <3>1, <3>2
  <2> QED BY <1>3, <2>1
<1>8. CASE ok
  <2>1. Received(l, c) /\ psk' = Set(psk, l, {new}) /\ Goto(l, "short") /\ UNCHANGED conns
    BY <1>8 DEF RecvApp
  <2>2. /\ client' \in [Logins -> Clients] /\ DOMAIN recq' = Logins
        /\ \A k \in Logins \ {l} : client'[k] = client[k] /\ recq'[k] = recq[k]
    BY <1>1, <2>1, ReceivedIs
  <2>3. Formed' /\ \A k \in Logins \ {l} : Still(k)
    <3> DEFINE given == {new}
    <3>1. psk' = Set(psk, l, given)
      BY <2>1
    <3> HIDE DEF given, ok
    <3>2. /\ DOMAIN psk' = Logins /\ \A k \in Logins \ {l} : psk'[k] = psk[k]
          /\ pc' = [pc EXCEPT ![l] = "short"]
      BY <2>1, <3>1 DEF StepInv, Formed
    <3> QED BY <1>1, <2>1, <2>2, <3>2 DEF StepInv, Formed, Still, conns
  <2>4. psk'[l] = {new} /\ new \in issued'[l] /\ new.certV # <<>>
    BY <1>1, <1>3, <1>5, <1>8, <2>1 DEF StepInv, Formed
  <2>5. pc'[l] = "short"
    BY <2>1 DEF StageInv, Shapes
  <2>6. Progress(l)'
    BY <2>4, <2>5 DEF Progress
  <2> QED BY <2>3, <2>6, OneMoves
<1>9. CASE ~ok
  <2>1. GiveUp(l) /\ UNCHANGED <<client, recq, psk>>
    BY <1>9 DEF RecvApp
  <2>2. UNCHANGED <<mmtls, psk, excused>>
    BY <1>1, <2>1 DEF mmtls
  <2> HIDE DEF ok
  <2> QED BY <1>7, <1>9, <2>1, <2>2, GiveUpStep
<1> QED BY <1>8, <1>9

\* A call starts from what the login left: a PSK of its own, with its transcript.
LEMMA PostStep ==
  ASSUME StepInv, StageInv, NEW l \in Logins, Post(l)
  PROVE  StepInv'
<1>1. PICK p \in psk[l] : up' = Set(up, l, Early(p))
  BY DEF Post, Early
<1>2. /\ wire' = Set(wire, l, <<>>) /\ Goto(l, "result") /\ Progress(l)
      /\ UNCHANGED <<conns, client, server, rxbuf, recq, issued, psk, excused>>
  BY DEF Post, StepInv
<1>3. Formed' /\ \A k \in Logins \ {l} : Still(k)
  BY <1>1, <1>2 DEF StepInv, Formed, Still, conns
<1>4. up'[l] = Early(p) /\ pc'[l] = "result"
  BY <1>1, <1>2 DEF StepInv, Formed, StageInv, Shapes
<1>5. AwaitsResult(up'[l], wire'[l], psk'[l])
  BY <1>2, <1>4 DEF AwaitsResult
<1>6. Progress(l)'
  BY <1>2, <1>4, <1>5 DEF Progress
<1> QED BY <1>3, <1>6, OneMoves

\* The server knows that PSK, and answers in a way the client tries.
LEMMA ServerCallStep ==
  ASSUME StepInv, StageInv, NEW l \in Logins, ServerCall(l)
  PROVE  StepInv'
<1>1. /\ pc[l] = "result" /\ up[l] # <<>> /\ Progress(l) /\ up' = Set(up, l, <<>>)
      /\ UNCHANGED <<pc, conns, client, server, rxbuf, recq, issued, psk, excused>>
  BY DEF ServerCall, StepInv
<1>2. PICK p \in psk[l] : up[l] = Early(p)
  BY <1>1 DEF Progress, AwaitsResult
<1>3. p \in issued[l] /\ p.certV # <<>>
  BY <1>1 DEF Progress
<1>4. up[l][2].key = Key("early", p.certV) /\ up[l][2].data = <<p.conn>>
  BY <1>2 DEF Early, Rec
<1>5. PICK t \in Transcripts, n \in 1..3 :
        wire' = Set(wire, l, <<Rec(Key("psk", t), n, "Data", up[l][2].data)>>)
  BY <1>3, <1>4 DEF ServerCall
<1>6. Formed' /\ \A k \in Logins \ {l} : Still(k)
  BY <1>1, <1>5 DEF StepInv, Formed, Still, conns
<1>7. up'[l] = <<>> /\ wire'[l] = <<Rec(Key("psk", t), n, "Data", <<p.conn>>)>>
  BY <1>1, <1>4, <1>5 DEF StepInv, Formed
<1>8. AwaitsResult(up'[l], wire'[l], psk'[l])
  BY <1>1, <1>7 DEF AwaitsResult
<1>9. Progress(l)'
  BY <1>1, <1>8 DEF Progress
<1> QED BY <1>6, <1>9, OneMoves

\* So the answer always opens.
LEMMA RecvResultStep ==
  ASSUME StepInv, StageInv, NEW l \in Logins, RecvResult(l)
  PROVE  StepInv'
<1>1. /\ pc[l] = "result" /\ up[l] = <<>> /\ Progress(l)
      /\ UNCHANGED <<mmtls, psk, excused>>
  BY DEF RecvResult, StepInv
<1>2. \E p \in psk[l], t \in Transcripts, n \in 1..3 :
        wire[l] = <<Rec(Key("psk", t), n, "Data", <<p.conn>>)>>
  <2>1. \A p : up[l] # Early(p)
    BY <1>1 DEF Early
  <2> QED BY <1>1, <2>1 DEF Progress, AwaitsResult
<1>3. Goto(l, "done") /\ UNCHANGED conn
  BY <1>2 DEF RecvResult
<1> QED BY <1>1, <1>3, QuietMove DEF Talking

\* Every step keeps client and server in step.
LEMMA StepStep == ASSUME StageInv, StepInv, [Next]_vars PROVE StepInv'
<1>1. CASE Tick \/ UNCHANGED vars
  <2>1. UNCHANGED <<pc, conn, client, up, server, wire, rxbuf, recq, issued, psk, excused>>
    BY <1>1 DEF Tick, vars, conns, mmtls
  <2>2. Formed' /\ \A k \in Logins : Still(k)
    BY <2>1 DEF StepInv, Formed, Still
  <2>3. ASSUME NEW k \in Logins PROVE Progress(k)'
    BY <2>1 DEF StepInv, Progress
  <2> QED BY <2>2, <2>3 DEF StepInv
<1>2. ASSUME NEW l \in Logins, Step(l) PROVE StepInv'
  <2>1. CASE LookUp(l) \/ AskCache(l) \/ RequestNewDNS(l) \/ KeepAnswer(l)
    BY <2>1, LookUpStep
  <2>2. CASE \/ NextTarget(l) \/ DialProxy(l) \/ Tunnel(l) \/ DialDirect(l) \/ Missed(l)
             \/ Break(l)
    BY <2>2, DialStep
  <2>3. CASE Return(l) \/ BadBuffer(l) \/ Acquire(l) \/ CallFails(l)
    BY <2>3, LeaveStep
  <2>4. CASE NextRecord(l) \/ Deadline(l)
    BY <2>4, NextRecordStep, DeadlineStep
  <2>5. CASE SendClientHello(l) \/ ServerFlight(l) \/ RecvServerHello(l) \/ RecvFlight(l)
    BY <2>5, SendClientHelloStep, ServerFlightStep, RecvServerHelloStep, RecvFlightStep
  <2>6. CASE SendClientFinished(l) \/ SendApp(l) \/ ServerLogin(l) \/ RecvApp(l)
    BY <2>6, SendClientFinishedStep, SendAppStep, ServerLoginStep, RecvAppStep
  <2>7. CASE Post(l) \/ ServerCall(l) \/ RecvResult(l)
    BY <2>7, PostStep, ServerCallStep, RecvResultStep
  <2> QED BY <1>2, <2>1, <2>2, <2>3, <2>4, <2>5, <2>6, <2>7 DEF Step
<1> QED BY <1>1, <1>2 DEF Next

\* Record numbers, transcripts, keys and the reassembly of records never fail a login or a call by
\* themselves: a target is given up (connectMmtls, loginAndSession and sendEnvelope going on to the
\* next) only when a dial or a connection failed, or the server left out what the login needs or
\* refused it.
THEOREM StaysInStep == Spec => []InStep
<1>1. Init => StageInv /\ StepInv
  BY InitStages, InitStep
<1>2. StageInv /\ StepInv /\ [Next]_vars => StageInv' /\ StepInv'
  BY StepStages, StepStep
<1>3. StepInv => InStep
  BY DEF StepInv, Progress, InStep
<1> QED BY <1>1, <1>2, <1>3, PTL DEF Spec
=============================================================================
