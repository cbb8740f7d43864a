------------------------------- MODULE Streams -------------------------------
(***************************************************************************)
(* What the transports make of a stream of bytes that arrives in pieces:   *)
(* lines over telnet (transport/telnet.py, TelnetReader) and over AX.25    *)
(* (ax25/stream.py, AX25Reader), frames of a KISS TNC (transport/kiss.py   *)
(* and its links), of a PACTOR modem in host mode (transport/pactor.py)    *)
(* and of HDLC on the air (ax25/hdlc.py, a stream of bits).                *)
(*                                                                         *)
(* Each decoder keeps a buffer from one read to the next.  A read may end  *)
(* anywhere, so a line, an escape or a frame may be cut at any byte.       *)
(***************************************************************************)
EXTENDS Integers, Sequences, FiniteSetsExt, SequencesExt

CONSTANTS
  Decoders,  \* those that are checked: of AllDecoders
  MaxUnits   \* bound: what the other end sends on one connection

AllDecoders == {"telnet", "ax25 CR", "ax25 LF", "ax25 CRLF", "kiss", "host", "hdlc"}

VARIABLES
  decoder, \* the one at work
  wire,    \* what is sent and not yet read
  buf,     \* _buf, buf, _raw_bits
  got,     \* history: the lines or frames handed on
  sent,    \* history: what the other end has sent
  cut      \* history: a read has ended inside an escape or a frame

streamVars == <<decoder, wire, buf, got, sent, cut>>

CR == 13
LF == 10
IAC == 255
WILL == 251
WONT == 252
DO == 253
DONT == 254
SB == 250
SE == 240
NOP == 241
FEND == 192
FESC == 219
TFEND == 220
TFESC == 221
MARK == 170
FLAG == <<0, 1, 1, 1, 1, 1, 1, 0>>

First(s, S) == CHOOSE i \in 1 .. Len(s) : s[i] \in S /\ \A j \in 1 .. i - 1 : s[j] \notin S
Has(s, S) == \E i \in 1 .. Len(s) : s[i] \in S
From(s, i) == SubSeq(s, i, Len(s))
Bytes == Seq(0 .. 255)

(***************************************************************************)
(* Lines.                                                                  *)
(***************************************************************************)

\* A faulty variant: the option of a command is taken for text.
Process_NoOption(data) ==
  LET text[d \in Bytes] ==
        IF d = <<>> THEN <<>>
        ELSE IF d[1] # IAC THEN <<d[1]>> \o text[Tail(d)]
        ELSE IF Len(d) = 1 THEN <<>>
        ELSE (IF d[2] = IAC THEN <<IAC>> ELSE <<>>) \o text[From(d, 3)]
  IN text[data]

\* _process and _handle_iac: commands are taken out of one chunk.  One that
\* the chunk cuts short is skipped as far as it goes; a subnegotiation without
\* its end is skipped up to the last byte.
Process(data) ==
  LET text[d \in Bytes] ==
        IF d = <<>> THEN <<>>
        ELSE IF d[1] # IAC THEN <<d[1]>> \o text[Tail(d)]
        ELSE IF Len(d) = 1 THEN <<>>
        ELSE CASE d[2] = IAC -> <<IAC>> \o text[From(d, 3)]
               [] d[2] \in {WILL, WONT, DO, DONT} -> text[From(d, 4)]
               [] d[2] = SB ->
                    LET ends == {i \in 3 .. Len(d) - 1 : d[i] = IAC /\ d[i + 1] = SE}
                    IN text[From(d, IF ends # {} THEN Min(ends) + 2
                                    ELSE IF Len(d) > 3 THEN Len(d) ELSE 3)]
               [] OTHER -> text[From(d, 3)]
  IN text[data]

\* _extract_line: up to CR, LF or CR LF, and what is left.
ExtractLine(b) ==
  LET i == First(b, {CR, LF})
      skip == IF b[i] = CR /\ i < Len(b) /\ b[i + 1] = LF THEN 2 ELSE 1
  IN <<SubSeq(b, 1, i - 1), From(b, i + skip)>>

\* AX25Reader.readline looks for CR LF first, then CR, then LF.
AX25Line(b) ==
  LET pairs == {i \in 1 .. Len(b) - 1 : b[i] = CR /\ b[i + 1] = LF}
      i == IF pairs # {} THEN Min(pairs)
           ELSE IF Has(b, {CR}) THEN First(b, {CR}) ELSE First(b, {LF})
  IN <<SubSeq(b, 1, i - 1), From(b, i + IF pairs # {} THEN 2 ELSE 1)>>

\* readline, called until the buffer holds no whole line.
Lines(d, data) ==
  LET read[b \in Bytes] ==
        IF ~Has(b, {CR, LF}) THEN [buf |-> b, out |-> <<>>]
        ELSE LET l == IF d = "telnet" THEN ExtractLine(b) ELSE AX25Line(b)
             IN [read[l[2]] EXCEPT !.out = <<l[1]>> \o @]
  IN read[data]

(***************************************************************************)
(* Frames.                                                                 *)
(***************************************************************************)

\* kiss.encode and _unescape.
Escaped(data) ==
  FlattenSeq([i \in 1 .. Len(data) |-> CASE data[i] = FEND -> <<FESC, TFEND>>
                                        [] data[i] = FESC -> <<FESC, TFESC>>
                                        [] OTHER -> <<data[i]>>])
KissEncode(data, port, cmd) == <<FEND, 16 * port + cmd>> \o Escaped(data) \o <<FEND>>

\* A faulty variant: the escaped bytes are swapped.
Unescape_Swapped(raw) ==
  LET plain[r \in Bytes] ==
        IF r = <<>> THEN <<>>
        ELSE IF r[1] # FESC THEN <<r[1]>> \o plain[Tail(r)]
        ELSE <<IF r[2] = TFEND THEN FESC ELSE FEND>> \o plain[From(r, 3)]
  IN plain[raw]

\* None for all of it is a mark in it here.
BAD == 256
Unescape(raw) ==
  LET plain[r \in Bytes] ==
        IF r = <<>> THEN <<>>
        ELSE IF r[1] \notin {FEND, FESC} THEN <<r[1]>> \o plain[Tail(r)]
        ELSE IF r[1] = FEND \/ Len(r) = 1 \/ r[2] \notin {TFEND, TFESC} THEN <<BAD>>
        ELSE <<IF r[2] = TFEND THEN FEND ELSE FESC>> \o plain[From(r, 3)]
  IN plain[raw]

\* kiss.decode_stream, as its links call it: only data frames that are not
\* empty are handed on.  A frame that is not complete loses its leading FEND.
DecodeStream(data) ==
  LET read[b \in Bytes] ==
        LET start == IF Has(b, {FEND}) THEN First(b, {FEND}) ELSE Len(b) + 1
            first == {j \in start .. Len(b) : b[j] # FEND}
            frame == From(b, Min(first))
            end == First(frame, {FEND})
            plain == Unescape(SubSeq(frame, 2, end - 1))
            keep == frame[1] % 16 = 0 /\ plain # <<>> /\ ~Has(plain, {BAD})
        IN IF start > Len(b) THEN [buf |-> b, out |-> <<>>]
           ELSE IF first = {} THEN [buf |-> <<>>, out |-> <<>>]
           ELSE IF ~Has(frame, {FEND}) THEN [buf |-> frame, out |-> <<>>]
           ELSE [read[From(frame, end + 1)] EXCEPT !.out = (IF keep THEN <<plain>> ELSE <<>>) \o @]
  IN read[data]

\* pactor.encode_host_frame and decode_host_stream.
HostEncode(data) == <<MARK, 1, 2, Len(data)>> \o data
DecodeHost(data) ==
  LET read[b \in Bytes] ==
        IF ~Has(b, {MARK}) THEN [buf |-> <<>>, out |-> <<>>]
        ELSE LET f == From(b, First(b, {MARK}))
             IN IF Len(f) < 4 \/ Len(f) < 4 + f[4] THEN [buf |-> f, out |-> <<>>]
                ELSE [read[From(f, 5 + f[4])] EXCEPT !.out = <<SubSeq(f, 5, 4 + f[4])>> \o @]
  IN read[data]

\* bit_stuff and bit_unstuff: a zero after every five ones.
Stuff(bits) ==
  LET air[a \in Bytes \X (0 .. 4)] ==
        LET s == a[1]  ones == a[2]
        IN IF s = <<>> THEN <<>>
           ELSE IF s[1] = 0 THEN <<0>> \o air[<<Tail(s), 0>>]
           ELSE IF ones = 4 THEN <<1, 0>> \o air[<<Tail(s), 0>>]
           ELSE <<1>> \o air[<<Tail(s), ones + 1>>]
  IN air[<<bits, 0>>]
Unstuff(bits) ==
  LET data[a \in Bytes \X (0 .. 5)] ==
        LET s == a[1]  ones == a[2]
        IN IF ones = 5
           THEN IF s = <<>> \/ s[1] # 0 THEN <<2>> ELSE data[<<Tail(s), 0>>]
           ELSE IF s = <<>> THEN <<>>
           ELSE <<s[1]>> \o data[<<Tail(s), IF s[1] = 1 THEN ones + 1 ELSE 0>>]
  IN data[<<bits, 0>>]

\* bits_to_bytes_lsb fills the last byte up with zeros.
Octets(bits) == bits \o [i \in 1 .. ((8 - (Len(bits) % 8)) % 8) |-> 0]
HdlcEncode(bits) == FLAG \o Octets(Stuff(bits)) \o FLAG
HdlcOnAir(bits) == FLAG \o Stuff(bits) \o FLAG
Frames == {<<0, 1, 1, 0, 1, 0, 0, 1>>, <<1, 1, 1, 1, 1, 1, 1, 1>>}

\* extract_hdlc_frames: what lies between successive flags, when its FCS, here
\* ideal, is right; the last flag stays in the buffer.
FlagsOf(bits) ==
  LET from[i \in 1 .. Len(bits) + 8] ==
        IF i + 7 > Len(bits) THEN <<>>
        ELSE IF SubSeq(bits, i, i + 7) = FLAG THEN <<i>> \o from[i + 8]
        ELSE from[i + 1]
  IN from[1]
ExtractHdlc(bits) ==
  LET flags == FlagsOf(bits)
      between(k) == Octets(Unstuff(SubSeq(bits, flags[k] + 8, flags[k + 1] - 1)))
      found == [k \in 1 .. Len(flags) - 1 |-> between(k)]
  IN [buf |-> IF flags = <<>> THEN bits ELSE From(bits, flags[Len(flags)]),
      out |-> SelectSeq(found, LAMBDA f : f \in Frames)]

Decode(d, b, chunk) ==
  CASE d = "telnet" -> Lines(d, b \o Process(chunk))
    [] d = "kiss"   -> DecodeStream(b \o chunk)
    [] d = "host"   -> DecodeHost(b \o chunk)
    [] d = "hdlc"   -> ExtractHdlc(b \o chunk)
    [] OTHER        -> Lines(d, b \o chunk)

(***************************************************************************)
(* What the other end sends: units, each with its bytes, what it stands    *)
(* for, and its kind.  A terminal on AX.25 ends its lines in one way.      *)
(***************************************************************************)
Unit(kind, bytes, means) == [kind |-> kind, bytes |-> bytes, means |-> means]
Ends(S) == {Unit("end", e, <<>>) : e \in S}
Typed == {Unit("text", <<97>>, <<97>>)}
Units(d) ==
  CASE d = "telnet" ->
         Typed \cup Ends({<<CR>>, <<LF>>, <<CR, LF>>})
         \cup {Unit("none", o, <<>>) : o \in {<<IAC, WILL, 24>>, <<IAC, WONT, 31>>, <<IAC, DO, 3>>, <<IAC, DONT, 1>>}}
         \cup {Unit("text", <<IAC, IAC>>, <<IAC>>), Unit("none", <<IAC, NOP>>, <<>>),
               Unit("none", <<IAC, SB, 31, 0, CR, IAC, SE>>, <<>>)}
    [] d = "ax25 CR"   -> Typed \cup Ends({<<CR>>})
    [] d = "ax25 LF"   -> Typed \cup Ends({<<LF>>})
    [] d = "ax25 CRLF" -> Typed \cup Ends({<<CR, LF>>})
    [] d = "kiss" ->
         {Unit("frame", KissEncode(f, 1, 0), f) : f \in {<<1>>, <<FEND>>, <<FESC, TFEND>>}}
         \cup {Unit("none", KissEncode(<<3>>, 0, 1), <<>>), Unit("none", <<FEND>>, <<>>),
               Unit("none", <<FEND, 16, 1, FESC, 7, FEND>>, <<>>)}
    [] d = "host" ->
         {Unit("frame", HostEncode(f), f) : f \in {<<>>, <<MARK>>, <<MARK, 1, 2>>}}
         \cup {Unit("none", <<7>>, <<>>)}
    [] d = "hdlc" ->
         {Unit("frame", HdlcOnAir(f), f) : f \in Frames} \cup {Unit("own", HdlcEncode(f), f) : f \in Frames}
         \cup {Unit("none", FLAG, <<>>)}

Init ==
  /\ decoder \in Decoders
  /\ wire = <<>> /\ buf = <<>> /\ got = <<>> /\ sent = <<>> /\ cut = FALSE

\* A byte on the wire knows whether a unit ends with it; an end of line may be
\* cut after its CR.
Send(u) ==
  /\ Len(sent) < MaxUnits
  /\ sent' = Append(sent, u)
  /\ wire' = wire \o [i \in 1 .. Len(u.bytes) |-> <<u.bytes[i], u.kind = "end" \/ i = Len(u.bytes)>>]
  /\ UNCHANGED <<decoder, buf, got, cut>>

\* A read returns the next n bytes, and the decoder takes them in.
Read(n) ==
  /\ n <= Len(wire)
  /\ LET d == Decode(decoder, buf, [i \in 1 .. n |-> wire[i][1]])
     IN buf' = d.buf /\ got' = got \o d.out
  /\ wire' = From(wire, n + 1)
  /\ cut' = (cut \/ ~wire[n][2])
  /\ UNCHANGED <<decoder, sent>>

\* The connection to a modem breaks; KissTcpLink and PactorLink open another,
\* with a new buffer, and what was under way is lost.
Reopen ==
  /\ decoder \in {"kiss", "host"} /\ sent # <<>>
  /\ wire' = <<>> /\ buf' = <<>> /\ got' = <<>> /\ sent' = <<>> /\ cut' = FALSE
  /\ UNCHANGED decoder

Next ==
  \/ \E u \in Units(decoder) : Send(u)
  \/ \E n \in 1 .. Len(wire) : Read(n)
  \/ Reopen
Spec == Init /\ [][Next]_streamVars

-----------------------------------------------------------------------------
TypeOK ==
  /\ decoder \in Decoders /\ Len(sent) <= MaxUnits /\ cut \in BOOLEAN
  /\ \A i \in 1 .. Len(wire) : wire[i][1] \in 0 .. 255 /\ wire[i][2] \in BOOLEAN
  /\ \A i \in 1 .. Len(buf) : buf[i] \in 0 .. 255

(***************************************************************************)
(* What the stream was meant to say, told from the units alone.            *)
(***************************************************************************)
EndsAt == {i \in 1 .. Len(sent) : sent[i].kind = "end"}
TextOf(a, b) == FlattenSeq([i \in 1 .. b - a + 1 |-> sent[a + i - 1].means])
MeantLines ==
  LET start(e) == LET before == {i \in EndsAt : i < e} IN IF before = {} THEN 1 ELSE Max(before) + 1
      ends == SetToSortSeq(EndsAt, <)
  IN SelectSeq([k \in 1 .. Len(ends) |-> TextOf(start(ends[k]), ends[k] - 1)], LAMBDA l : l # <<>>)
Framed(kinds) == LET fs == SelectSeq(sent, LAMBDA u : u.kind \in kinds)
                 IN [i \in 1 .. Len(fs) |-> fs[i].means]

\* str.strip, of the ends of line that may stay on a line.
Strip(l) == LET in == {i \in 1 .. Len(l) : l[i] \notin {CR, LF}}
            IN IF in = {} THEN <<>> ELSE SubSeq(l, Min(in), Max(in))
ReadLines == SelectSeq([i \in 1 .. Len(got) |-> Strip(got[i])], LAMBDA l : l # <<>>)

\* However the stream is cut, the lines read are those typed, blank ones apart:
\* no byte of a command is taken for text and no text for a command, unless a
\* read ends inside a command (TelnetReader.readline, AX25Reader.readline).
LinesAsTyped ==
  decoder \notin {"kiss", "host", "hdlc"} /\ ~cut =>
    /\ IsPrefix(ReadLines, MeantLines)
    /\ wire = <<>> => ReadLines = MeantLines

\* However the stream is cut, no frame is handed on that was not sent, none
\* twice and none out of order; in host mode and on the air none is missing
\* either, nor over KISS unless a read ends inside a frame.  Of its own frames
\* on the air a decoder finds those that need no filling up to octets
\* (decode_stream, decode_host_stream, extract_hdlc_frames).
Embedded(s, t) == \E S \in SUBSET (1 .. Len(t)) :
                    s = [k \in 1 .. Cardinality(S) |-> t[SetToSortSeq(S, <)[k]]]
FramesAsSent ==
  decoder \in {"kiss", "host", "hdlc"} =>
    LET whole == SelectSeq(sent, LAMBDA u : u.kind = "frame" \/ (u.kind = "own" /\ Len(u.bytes) = 24))
    IN /\ Embedded(got, Framed({"frame", "own"}))
       /\ wire = <<>> /\ ~(decoder = "kiss" /\ cut) => got = [i \in 1 .. Len(whole) |-> whole[i].means]
=============================================================================
