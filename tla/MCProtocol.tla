----------------------------- MODULE MCProtocol -----------------------------
(***************************************************************************)
(* For TLC: an instance of Link, and inputs for the operators of Codec,    *)
(* Targets and Cron, one input for each initial state of a third kind.     *)
(***************************************************************************)
EXTENDS Link, Codec, Cron

CONSTANTS l1, l2, l3

Offline == reachable = FALSE /\ proxied = [l \in Logins |-> FALSE]

\* Either one login goes all the way, its look-ups in no time; or three logins look up while
\* time passes, and reach no server; or there is an input for the operators.
LinkInit ==
  /\ probe = <<"none">>
  /\ \/ /\ reachable /\ clock = MaxTime
        /\ pc = [l \in Logins |-> IF l = l1 THEN "idle" ELSE "off"]
        /\ \A l \in Logins \ {l1} : ~proxied[l]
     \/ Offline /\ clock = 0 /\ pc = [l \in Logins |-> "idle"]

\* Months of three and two days, the second year with a leap day.
TwoYears == <<3, 2, 3, 3>>
Alike == Permutations({l2, l3})

-----------------------------------------------------------------------------
(* Inputs, at the limits of the encodings *)

Numbers == {0, 1, 127, 128, 16383, 16384, 2 ^ 28 - 1, 2 ^ 28, 2 ^ 29 - 1}
Data(n) == [i \in 1..n |-> (i * 7) % 256]
PbFields == {<<1, "int", 300>>, <<15, "int", 0>>, <<2, "bytes", <<>>>>, <<1, "bytes", <<8, 200>>>>}
Streams == {<<0>>, <<3, 0>>, <<1, 2, 1>>}
Parts(S) == {<<p>> : p \in S} \cup {<<p, q>> : p, q \in {r \in S : ~r.all}}
Part(lo, hi, step) == [all |-> FALSE, start |-> lo, end |-> hi, step |-> step]
Star(step) == [all |-> TRUE, start |-> 0, end |-> 0, step |-> step]
Expressions ==
  {<<Star(1)>>, <<Part(1, 1, 1)>>} \X {<<Star(1)>>, <<Part(0, 0, 1)>>}
    \X Parts({Star(1), Star(2), Part(3, 3, 1), Part(1, 2, 1), Part(1, 3, 1)})
    \X {<<Star(1)>>, <<Part(2, 2, 1)>>, <<Part(2, 3, 1)>>}
    \X Parts({Star(1), Part(0, 0, 1), Part(1, 2, 1)})

Instants == 0..11
TargetLists == SeqOf({1, 2} \X {80, 8080, 443, 5000, 9}, 3)
              \cup {ServersFor(ips, ports) : ips \in SeqOf(1..2, 2), ports \in SeqOf({80, 443, 9}, 2)}

\* The inputs are among those the theorems of OperatorProofs speak of.
ASSUME InputsAsked ==
  /\ \A e \in Expressions, after \in Instants : CronAsked(e, after)
  /\ \A ts \in TargetLists, max \in 0..2 : TargetsAsked(ts, max)

Words == SeqOf({"a", "single", "double", "backslash", "blank"}, 2) \ {<<>>}

ProbeInit ==
  /\ Offline /\ clock = MaxTime /\ pc = [l \in Logins |-> "off"]
  /\ \/ \E n \in Numbers, rest \in {<<>>, <<5>>, <<200>>} : probe = <<"varint", n, rest>>
     \/ \E f, g \in PbFields : probe = <<"pb", <<f, g>>>>
     \/ \E K \in SUBSET {1, 5, 130}, B \in SUBSET {14, 27}, n \in {0, 128} :
          probe = <<"head", [k \in K |-> n + k], [k \in B |-> Data(n + k - 14)]>>
     \/ \E n \in {0, 1, 14, 15, 16, 269, 270, 271, 525} : probe = <<"literals", n>>
     \/ \E off \in 1..3, n \in {4, 5, 18, 19, 20, 273, 274} : probe = <<"match", off, n>>
     \/ \E n \in {0, 1, 255, 256}, rest \in {0, 3} : probe = <<"frame", Data(n), Data(rest)>>
     \/ \E s \in Streams, cut \in 0..25 : probe = <<"stream", s, cut>>
     \/ \E send, recv, rest \in {<<>>, <<200>>, Data(17)}, uin \in {0, 1, 2 ^ 28 - 1},
          ts \in {<<>>, <<<<1, 80>>>>} : probe = <<"session", send, recv, rest, uin, ts>>
     \/ \E s \in SeqOf(Words, 2), q \in {"single", "double"} : probe = <<"args", s, q>>
     \/ \E ts \in TargetLists, max \in 0..2 : probe = <<"targets", ts, max>>
     \/ \E e \in Expressions, after \in Instants : probe = <<"cron", e, after>>

ProtocolInit == Init /\ (LinkInit \/ ProbeInit)
ProtocolSpec == ProtocolInit /\ [][Next /\ UNCHANGED probe]_<<vars, probe>>

-----------------------------------------------------------------------------
(* Properties of the operators *)

VarintDecoded(n, rest) ==
  ReadVarint(Varint(n) \o rest, 1) = [ok |-> TRUE, n |-> n, i |-> Len(Varint(n)) + 1]

\* The later of two fields with one number counts.
PbDecoded(m) ==
  LET Enc(f) == IF f[2] = "int" THEN PbVar(f[1], f[3]) ELSE PbLen(f[1], f[3])
      out == PbParse(Enc(m[1]) \o Enc(m[2]))
  IN /\ DOMAIN out = {m[1][1], m[2][1]}
     /\ out[m[2][1]] = Tail(m[2])
     /\ m[1][1] # m[2][1] => out[m[1][1]] = Tail(m[1])

HeadDecoded(ints, byts) ==
  LET head == WpkgHead(ints, byts)
      r == DecodeWpkgHead(head \o <<10, 200>>)
  IN r[1] = ints /\ r[2] = byts /\ r[3] = Len(head)

LiteralsDecoded(n) == Lz4Decompress(Lz4AllLiteral(Data(n))) = Data(n)

\* A match repeats the last off bytes as often as it needs.
MatchDecoded(off, n) ==
  LET len == IF n - 4 < 15 THEN <<>> ELSE Extra(n - 19)
      tok == 48 + (IF n - 4 < 15 THEN n - 4 ELSE 15)
  IN Lz4Decompress(<<tok>> \o Data(3) \o <<off, 0>> \o len)
       = Data(3) \o [j \in 1..n |-> Data(3)[4 - off + ((j - 1) % off)]]

FrameDecoded(body, rest) ==
  /\ SplitHandshake(BuildHandshake(20, body) \o rest) = <<20, body>>
  /\ ParseShortlink(BuildShortlink(3453, 1, body) \o rest) = <<3453, 1, body>>

\* Of a stream that is cut off anywhere the whole records, and the whole tickets, are read.
StreamDecoded(lens, cut) ==
  LET Upto(parts, n) == FlattenSeq(SubSeq(parts, 1, n))
      recs == [i \in DOMAIN lens |-> BuildRecord(22, Data(lens[i]))]
      entries == [i \in DOMAIN lens |-> <<1, 0, 0, 0, i>> \o Data(lens[i])]
      framed == [i \in DOMAIN lens |-> BE(Len(entries[i]), 4) \o entries[i]]
      Whole1(parts, c) == CHOOSE k \in 0..Len(parts) :
        /\ Len(Upto(parts, k)) <= c
        /\ k = Len(parts) \/ Len(Upto(parts, k + 1)) > c
      Cut(parts, c) == SubSeq(Upto(parts, Len(parts)), 1, IF c < Len(Upto(parts, Len(parts))) THEN c
                                                          ELSE Len(Upto(parts, Len(parts))))
      k == Whole1(recs, cut)
      j == Whole1(framed, cut)
  IN /\ ParseRecordBytes(Cut(recs, cut)) =
          <<[i \in 1..k |-> <<22, Data(lens[i])>>], Len(Upto(recs, k))>>
     /\ ParseNewSessionTicket(<<Len(lens)>> \o Cut(framed, cut)) =
          [i \in 1..j |-> <<1, i, entries[i]>>]

\* A session is refused when it is read from the answer or not at all: what was stored is read
\* back, so that state never stumbles over a row it has written.
SessionDecoded(send, recv, rest, uin, ts) ==
  LET sess == PbLen(1, send) \o PbLen(2, recv) \o PbLen(9, rest) \o PbLen(12, rest)
      mar  == PbLen(3, PbLen(2, sess) \o PbLen(3, PbVar(1, uin)))
      read == ExtractSession(mar)
      st   == [session |-> [read EXCEPT !.device = rest, !.host = rest], psk |-> <<1, rest>>,
               targets |-> ts, proxy |-> "p"]
  IN IF ~Usable(send, recv, uin) THEN read = Error
     ELSE /\ read.send = send /\ read.recv = recv /\ read.uin = uin /\ read.f9 = rest
          /\ read.ticket = rest
          /\ SessionFromBlob(ToBlob(st)) =
               IF ts = <<>> THEN [st EXCEPT !.targets = <<KnownServer>>] ELSE st

\* Arguments in quotes, as a shell has them: the quote itself, and between double quotes the
\* backslash, needs a way out.
ArgsDecoded(args, q) ==
  LET Out(ch) == IF q = "single"
                 THEN IF ch = q THEN <<q, "backslash", q, q>> ELSE <<ch>>
                 ELSE IF ch \in {q, "backslash"} THEN <<"backslash", ch>> ELSE <<ch>>
      Quote(a) == <<q>> \o FlattenSeq([i \in DOMAIN a |-> Out(a[i])]) \o <<q, "blank">>
  IN SplitArgs(FlattenSeq([i \in DOMAIN args |-> Quote(args[i])])) = args

\* Whatever varint, protobuf field, packet head, LZ4 block, handshake frame, ShortLink packet,
\* record stream, ticket list, session or list of arguments one end writes, the decoder reads
\* back, at the limits of the lengths and whatever follows or is still to come.
Decoded ==
  CASE probe[1] = "varint" -> VarintDecoded(probe[2], probe[3])
    [] probe[1] = "pb" -> PbDecoded(probe[2])
    [] probe[1] = "head" -> HeadDecoded(probe[2], probe[3])
    [] probe[1] = "literals" -> LiteralsDecoded(probe[2])
    [] probe[1] = "match" -> MatchDecoded(probe[2], probe[3])
    [] probe[1] = "frame" -> FrameDecoded(probe[2], probe[3])
    [] probe[1] = "session" -> SessionDecoded(probe[2], probe[3], probe[4], probe[5], probe[6])
    [] probe[1] = "args" -> ArgsDecoded(probe[2], probe[3])
    [] probe[1] = "stream" -> StreamDecoded(probe[2], probe[3])
    [] OTHER -> TRUE
=============================================================================
