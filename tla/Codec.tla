-------------------------------- MODULE Codec --------------------------------
(***************************************************************************)
(* Message coding: internal/protocol/bytes.go, the packet heads and the    *)
(* login answer of ilink.go, the framing of mmtls_protocol.go, the stored  *)
(* form of a session (pool.go), and the splitting of a script's arguments  *)
(* (scriptrunner/runner.go), as operators on sequences. A decoder that     *)
(* fails returns Error, one that Go would stop with a panic returns Panic. *)
(***************************************************************************)
EXTENDS Integers, Sequences, FiniteSets, TLC, SequencesExt, Targets

CONSTANT Width \* bits of an integer: 64 in the code; like 64 one more than a multiple of 7

ASSUME WidthAssumption == Width \in Nat /\ Width % 7 = 1 /\ Width <= 29

Error == <<-1>>
Panic == <<-2>>

\* Big-endian numbers; n is small.
BE(n, bytes) == [i \in 1..bytes |-> (n \div 256 ^ (bytes - i)) % 256]
FromBE(s) == FoldLeft(LAMBDA n, b : n * 256 + b, 0, s)

-----------------------------------------------------------------------------
(* bytes.go: varints and protobuf fields *)

RECURSIVE Varint(_)
Varint(n) == IF n < 128 THEN <<n>> ELSE <<128 + (n % 128)>> \o Varint(n \div 128)

\* readVarint from position i: the number, the next position, ok. The bits that do not fit get
\* lost in the shift.
RECURSIVE ReadOn(_, _, _, _)
ReadOn(data, i, shift, n) ==
  IF i > Len(data) THEN [ok |-> FALSE, n |-> 0, i |-> i]
  ELSE LET sum == n + ((data[i] % 128) % (2 ^ (Width - shift))) * 2 ^ shift
       IN IF data[i] < 128 THEN [ok |-> TRUE, n |-> sum, i |-> i + 1]
          ELSE IF shift + 7 > Width - 1 THEN [ok |-> FALSE, n |-> 0, i |-> i + 1]
          ELSE ReadOn(data, i + 1, shift + 7, sum)
\* (Mutant: the last group of bits is one too many.)
ReadShort(data, i) == LET r == ReadOn(data, i, 0, 0)
                      IN IF r.i - i > Width \div 7 THEN [r EXCEPT !.ok = FALSE] ELSE r
ReadVarint(data, i) == ReadOn(data, i, 0, 0)

\* int(n) of an unsigned number.
Signed(n) == IF n >= 2 ^ (Width - 1) THEN n - 2 ^ Width ELSE n

\* The n bytes at position i, as Go slices them: n comes from the message.
Slice(data, i, n) ==
  IF i - 1 + Signed(n) > Len(data) THEN Error
  ELSE IF Signed(n) < 0 THEN Panic
  ELSE SubSeq(data, i, i - 1 + Signed(n))

PbLen(field, data) == <<(field * 8 + 2) % 256>> \o Varint(Len(data)) \o data
PbVar(field, n) == <<(field * 8) % 256>> \o Varint(n)

\* pbParse: the fields read before the message ends or cannot be read any further.
RECURSIVE PbOn(_, _, _)
PbOn(data, i, out) ==
  LET tag == ReadVarint(data, i)
      v   == ReadVarint(data, tag.i)
      raw == Slice(data, v.i, v.n)
      fn  == tag.n \div 8
  IN IF i > Len(data) \/ ~tag.ok \/ (tag.n % 8) \notin {0, 2} \/ ~v.ok THEN out
     ELSE IF tag.n % 8 = 0 THEN PbOn(data, v.i, (fn :> <<"int", v.n>>) @@ out)
     ELSE IF raw = Error THEN out
     ELSE IF raw = Panic THEN Panic
     ELSE PbOn(data, v.i + v.n, (fn :> <<"bytes", raw>>) @@ out)
PbParse(data) == PbOn(data, 1, <<>>)

-----------------------------------------------------------------------------
(* bytes.go: LZ4 blocks *)

\* A length of 15 and more goes on in bytes, the last of them below 255.
RECURSIVE Extra(_)
Extra(rem) == IF rem >= 255 THEN <<255>> \o Extra(rem - 255) ELSE <<rem>>
Lz4AllLiteral(data) ==
  IF Len(data) < 15 THEN <<Len(data) * 16>> \o data ELSE <<240>> \o Extra(Len(data) - 15) \o data

RECURSIVE LengthAt(_, _, _)
LengthAt(data, i, n) ==
  IF i > Len(data) THEN [ok |-> FALSE, n |-> 0, i |-> i]
  ELSE IF data[i] = 255 THEN LengthAt(data, i + 1, n + 255)
  ELSE [ok |-> TRUE, n |-> n + data[i], i |-> i + 1]
Length(data, i, nibble) ==
  IF nibble = 15 THEN LengthAt(data, i, 15) ELSE [ok |-> TRUE, n |-> nibble, i |-> i]

\* The copy is made byte by byte: it may read what it has just written.
Copy(out, off, n) ==
  LET byte[k \in 1..Len(out) + n] == IF k <= Len(out) THEN out[k] ELSE byte[k - off]
  IN [k \in 1..Len(out) + n |-> byte[k]]

RECURSIVE Lz4On(_, _, _)
Lz4On(data, i, out) ==
  LET lit == Length(data, i + 1, data[i] \div 16)
      at  == lit.i + lit.n
      got == out \o SubSeq(data, lit.i, at - 1)
      off == data[at] + 256 * data[at + 1]
      len == Length(data, at + 2, data[i] % 16)
  IN IF i > Len(data) THEN out
     ELSE IF ~lit.ok \/ at - 1 > Len(data) THEN Error
     ELSE IF at > Len(data) THEN got
     ELSE IF at + 1 > Len(data) THEN Error
     ELSE IF off = 0 \/ off > Len(got) \/ ~len.ok THEN Error
     ELSE Lz4On(data, len.i, Copy(got, off, len.n + 4))
Lz4Decompress(data) == Lz4On(data, 1, <<>>)

-----------------------------------------------------------------------------
(* ilink.go: packet heads *)

Sorted(S) == SetToSortSeq(S, <)

\* Numbers, a zero, byte strings, a zero, and the length up to there.
WpkgHead(ints, byts) ==
  LET front == Varint(1)
        \o FlattenSeq([k \in DOMAIN Sorted(DOMAIN ints) |->
             LET f == Sorted(DOMAIN ints)[k] IN Varint(f) \o Varint(ints[f])])
        \o Varint(0)
        \o FlattenSeq([k \in DOMAIN Sorted(DOMAIN byts) |->
             LET f == Sorted(DOMAIN byts)[k] IN Varint(f) \o Varint(Len(byts[f])) \o byts[f]])
  IN front \o <<0>> \o Varint(Len(front) + 1)

RECURSIVE HeadInts(_, _, _)
HeadInts(data, i, out) ==
  LET f == ReadVarint(data, i)
      v == ReadVarint(data, f.i)
  IN IF ~f.ok THEN Error
     ELSE IF f.n = 0 THEN <<out, f.i>>
     ELSE IF ~v.ok THEN Error
     ELSE HeadInts(data, v.i, (f.n :> v.n) @@ out)
RECURSIVE HeadBytes(_, _, _)
HeadBytes(data, i, out) ==
  LET f == ReadVarint(data, i)
      v == ReadVarint(data, f.i)
      raw == Slice(data, v.i, v.n)
  IN IF ~f.ok THEN Error
     ELSE IF f.n = 0 THEN <<out, f.i>>
     ELSE IF ~v.ok THEN Error
     ELSE IF raw = Error \/ raw = Panic THEN raw
     ELSE HeadBytes(data, v.i + v.n, (f.n :> raw) @@ out)
DecodeWpkgHead(data) ==
  LET start == ReadVarint(data, 1)
      ints  == HeadInts(data, start.i, <<>>)
      byts  == HeadBytes(data, ints[2], <<>>)
      end   == ReadVarint(data, byts[2])
  IN IF ~start.ok \/ Len(ints) = 1 THEN Error
     ELSE IF Len(byts) = 1 THEN byts
     ELSE IF ~end.ok THEN Error
     ELSE <<ints[1], byts[1], end.i - 1>>

-----------------------------------------------------------------------------
(* mmtls_protocol.go: framing *)

ContentTypes == {20, 21, 22, 23, 25}
BuildRecord(type, payload) == <<type, 241, 3>> \o BE(Len(payload), 2) \o payload

\* parseRecords: the whole records at the front, and the number of bytes they take.
RECURSIVE RecordsOn(_, _, _)
RecordsOn(data, off, recs) ==
  LET end == off + 5 + FromBE(SubSeq(data, off + 4, off + 5))
  IN IF /\ off + 5 <= Len(data) /\ end <= Len(data)
        /\ data[off + 1] \in ContentTypes /\ data[off + 2] = 241 /\ data[off + 3] = 3
     THEN RecordsOn(data, end, Append(recs, <<data[off + 1], SubSeq(data, off + 6, end)>>))
     ELSE <<recs, off>>
ParseRecordBytes(data) == RecordsOn(data, 0, <<>>)

BuildHandshake(type, body) == BE(1 + Len(body), 4) \o <<type>> \o body
SplitHandshake(payload) ==
  LET total == FromBE(SubSeq(payload, 1, 4))
  IN IF Len(payload) < 5 \/ total = 0 \/ 4 + total > Len(payload) THEN Error
     ELSE <<payload[5], SubSeq(payload, 6, 4 + total)>>

\* parseNewSessionTicket: whole entries, as many as announced at most. (Entry: type, lifetime.)
RECURSIVE TicketsOn(_, _, _, _)
TicketsOn(body, count, o, out) ==
  LET len == FromBE(SubSeq(body, o + 1, o + 4))
      entry == SubSeq(body, o + 5, o + 4 + len)
  IN IF count = 0 \/ o + 4 > Len(body) THEN out
     ELSE IF o + 4 + len > Len(body) \/ len < 5 THEN out
     ELSE TicketsOn(body, count - 1, o + 4 + len,
                    Append(out, <<entry[1], FromBE(SubSeq(entry, 2, 5)), entry>>))
ParseNewSessionTicket(body) == IF body = <<>> THEN <<>> ELSE TicketsOn(body, body[1], 1, <<>>)

BuildShortlink(cmd, seq, body) ==
  BE(16 + Len(body), 4) \o <<17, 16, 7, 109>> \o BE(cmd, 4) \o BE(seq, 4) \o body
ParseShortlink(pkt) ==
  LET total == FromBE(SubSeq(pkt, 1, 4))
  IN IF Len(pkt) < 16 \/ total > Len(pkt) THEN Error
     ELSE IF total < 16 THEN Panic
     ELSE <<FromBE(SubSeq(pkt, 9, 12)), FromBE(SubSeq(pkt, 13, 16)), SubSeq(pkt, 17, total)>>

-----------------------------------------------------------------------------
(* ilink.go, pool.go: the session in a login's answer, and its stored form *)

\* A field of bytes; anything else counts as missing.
BytesAt(f, n) == IF n \in DOMAIN f /\ f[n][1] = "bytes" THEN f[n][2] ELSE Error
SafeBytes(f, n) == IF BytesAt(f, n) = Error THEN <<>> ELSE BytesAt(f, n)
Usable(send, recv, uin) == send # <<>> /\ recv # <<>> /\ uin # 0
ExtractSession(mar) ==
  LET f3   == BytesAt(PbParse(mar), 3)
      body == PbParse(f3)
      sess == PbParse(BytesAt(body, 2))
      id   == PbParse(BytesAt(body, 3))
      uin  == IF 1 \in DOMAIN id /\ id[1][1] = "int" THEN id[1][2] ELSE 0
  IN IF f3 = Error THEN Error
     ELSE IF BytesAt(body, 2) = Error \/ BytesAt(body, 3) = Error THEN Error
     ELSE IF ~Usable(SafeBytes(sess, 1), SafeBytes(sess, 2), uin) THEN Error
     ELSE [send |-> SafeBytes(sess, 1), recv |-> SafeBytes(sess, 2), f9 |-> SafeBytes(sess, 9),
           uin |-> uin, ticket |-> SafeBytes(sess, 12), device |-> <<105>>, host |-> <<>>]

\* encBytes and decBytes: hexadecimal digits.
EncBytes(b) == [i \in 1..2 * Len(b) |-> IF i % 2 = 1 THEN b[(i + 1) \div 2] \div 16
                                         ELSE b[i \div 2] % 16]
DecBytes(h) == [i \in 1..Len(h) \div 2 |-> 16 * h[2 * i - 1] + h[2 * i]]

\* The JSON of the row; a whole number below 2^53 is the same when it is read as a float64.
ByteFields == {"send", "recv", "f9", "ticket", "device", "host"}
ToBlob(st) ==
  [session |-> [f \in DOMAIN st.session |->
                  IF f \in ByteFields THEN EncBytes(st.session[f]) ELSE st.session[f]],
   psk_entry |-> st.psk, shortlink_targets |-> st.targets, tcp_proxy |-> st.proxy]
SessionFromBlob(blob) ==
  LET sess == [f \in DOMAIN blob.session |->
                 IF f \in ByteFields THEN DecBytes(blob.session[f]) ELSE blob.session[f]]
      ts   == blob.shortlink_targets
  IN IF ~Usable(sess.send, sess.recv, sess.uin) THEN Error
     ELSE [session |-> sess, psk |-> blob.psk_entry,
           targets |-> IF ts = <<>> THEN <<KnownServer>> ELSE ts, proxy |-> blob.tcp_proxy]

-----------------------------------------------------------------------------
(* runner.go: a script's arguments. Of characters only their class counts. *)

TrimSpace(raw) ==
  LET solid == {i \in DOMAIN raw : raw[i] # "blank"}
  IN IF solid = {} THEN <<>>
     ELSE SubSeq(raw, CHOOSE i \in solid : \A j \in solid : i <= j,
                      CHOOSE i \in solid : \A j \in solid : i >= j)

Written(st, ch) == [st EXCEPT !.current = Append(@, ch), !.escaped = FALSE]
Flush(st) == IF st.current = <<>> THEN st
             ELSE [st EXCEPT !.args = Append(@, st.current), !.current = <<>>]
NextChar(st, ch) ==
  CASE st.escaped -> Written(st, ch)
    [] ~st.escaped /\ ch = "backslash" /\ ~st.inSingle -> [st EXCEPT !.escaped = TRUE]
    [] ~st.escaped /\ ch = "single" /\ ~st.inDouble -> [st EXCEPT !.inSingle = ~@]
    [] ~st.escaped /\ ch = "double" /\ ~st.inSingle -> [st EXCEPT !.inDouble = ~@]
    [] ~st.escaped /\ ch = "blank" /\ ~st.inSingle /\ ~st.inDouble -> Flush(st)
    [] OTHER -> Written(st, ch)
SplitArgs(raw) ==
  LET start == [args |-> <<>>, current |-> <<>>, inSingle |-> FALSE, inDouble |-> FALSE,
                escaped |-> FALSE]
      end   == FoldLeft(NextChar, start, TrimSpace(raw))
  IN Flush(IF end.escaped THEN Written(end, "backslash") ELSE end).args
=============================================================================
