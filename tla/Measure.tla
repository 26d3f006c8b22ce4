------------------------------ MODULE Measure ------------------------------
(***************************************************************************)
(* One measurement session: the websocket task of                          *)
(* crates/quicmix/src/metrics_ws.rs (handle, run_measure,                  *)
(* fetch_over_quicmix) and the gateway's task for each of its streams      *)
(* (gateway_stream of node.rs), with the browser before it and the origin  *)
(* behind it.  Sessions share nothing that changes.                        *)
(*                                                                         *)
(* A stream is a fixed sequence of tokens in each direction, so positions  *)
(* in it say what was written, copied and read.  The stream of a page      *)
(* carries a target line, a request and a response; that of the probe a    *)
(* target line, and units of throwaway data.                               *)
(***************************************************************************)
EXTENDS Integers, Sequences, SequencesExt, FiniteSetsExt

CONSTANTS
  Plain,       \* the page of an origin that sends it as it is
  Chunks,      \* the page of one that sends it in chunks
  PageCap,     \* tokens of a response that slurp reads
  ProbeSizes,  \* what probe_size may be, in units
  ProbeCap, MeasureMax, ChunkLen,  \* PROBE_CAP_BYTES, MEASURE_MAX, 64 KiB
  Window,      \* units of flow control of a stream
  MaxSamples   \* bound of the model: samples of a session

VARIABLES
  ws,        \* the browser: open, stalled (the socket to it is full) or gone
  stage,     \* of the session: see the actions
  frames,    \* frames sent to the browser
  conn,      \* the link: none, up or lost
  depth,     \* redirects followed
  probe,     \* probe_bytes, once it is sent
  page,      \* the page: how reading it ended and its data, with the stream it came from; or <<>>
  w, fin,    \* the session's stream: tokens written, and finished
  u, got,    \* tokens the gateway has read, and what the origin has got of them
  kind,      \* what the stream is for: an answer of some kind, or the measurement
  gw,        \* the gateway's task: none, line, dial, splice, measure or end
  up, down,  \* its two copies: TRUE while they run
  left,      \* of a probe: units still to send
  origin, o, \* the origin's connection: open, closed or reset; tokens it has sent
  g, r,      \* response tokens or units the gateway has written, the session has read
  probed     \* how the probe ended, and with how many units; <<>> before

upstream == <<w, fin, u, got>>
gateway == <<gw, up, down, left>>
downstream == <<kind, origin, o, g, r>>
session == <<ws, stage, frames, depth, probe, page, probed>>
vars == <<session, conn, upstream, gateway, downstream>>

-----------------------------------------------------------------------------
\* A line end is one token.
EOL == 10
\* External: the answers of an origin.  Sizes of chunks have one digit.
Kinds == {"plain", "chunked", "redirect"}
Joined(seqs) == FoldLeft(LAMBDA s, c : s \o c, <<>>, seqs)
Coded(c) == <<Len(c), EOL>> \o c \o <<EOL>>
Content == [plain |-> Plain, chunked |-> Joined(Chunks)]
Body == [plain |-> Plain, redirect |-> <<>>,
         chunked |-> Joined([i \in DOMAIN Chunks |-> Coded(Chunks[i])]) \o Coded(<<>>)]
HeadLen == 2  \* a header, and the empty line that ends it
ResponseLen == [k \in Kinds |-> HeadLen + Len(Body[k])]
Least(a, b) == IF a <= b THEN a ELSE b

\* dechunk: size line, data, the line end after it, and so on; it stops without a
\* line end, at a size that is zero or none, and at the end (the bug: the data
\* takes the line end along).
LineEnd(b, i) == LET ends == {j \in i..Len(b) : b[j] = EOL} IN IF ends = {} THEN 0 ELSE Min(ends)
DataEndPast(b, start, size) == Least(start + size + 1, Len(b) + 1)
DataEnd(b, start, size) == Least(start + size, Len(b) + 1)
dechunk(b) ==
  LET Size(i) == IF LineEnd(b, i) = i + 1 THEN b[i] ELSE 0
      from[i \in 1..(Len(b) + 2)] ==
        IF i > Len(b) \/ LineEnd(b, i) = 0 \/ Size(i) = 0 THEN <<>>
        ELSE LET start == LineEnd(b, i) + 1
                 end == DataEnd(b, start, Size(i))
             IN SubSeq(b, start, end - 1) \o from[end + 1]
  IN from[1]

Init ==
  /\ ws = "open" /\ stage = "hello" /\ frames = <<>> /\ conn = "none" /\ depth = 0
  /\ probe = 0 /\ page = <<>> /\ probed = <<>>
  /\ w = 0 /\ fin = FALSE /\ u = 0 /\ got = <<>>
  /\ gw = "none" /\ up = FALSE /\ down = FALSE /\ left = 0
  /\ kind = "none" /\ origin = "open" /\ o = 0 /\ g = 0 /\ r = 0

-----------------------------------------------------------------------------
\* handle: the first message; an unfit one ends the session without a word.
Hello ==
  /\ stage = "hello"
  /\ stage' \in {"dial", "over"}
  /\ UNCHANGED <<ws, frames, depth, probe, page, probed, conn, upstream, gateway, downstream>>

\* The certificate, the front (direct, or over Tor) and the connection; each of
\* them may fail.
Dial ==
  /\ stage = "dial"
  /\ \/ stage' = "error" /\ UNCHANGED conn
     \/ stage' = "connected" /\ conn' = "up"
  /\ UNCHANGED <<ws, frames, depth, probe, page, probed, upstream, gateway, downstream>>

\* send_json: an error ends run_measure, and then handle tells the browser of it
\* and closes, whatever becomes of either message (the bug: it also does so after the
\* result).  Nothing limits how long a frame waits for a browser that does not read.
AfterBoth == [connected |-> "egress", egress |-> "fetch", page |-> "open", sample |-> "check", done |-> "error",
              error |-> "close", close |-> "over"]
After == [connected |-> "egress", egress |-> "fetch", page |-> "open", sample |-> "check", done |-> "close",
          error |-> "close", close |-> "over"]
AfterError(f) == IF f \in {"error", "close"} THEN After[f] ELSE "error"
SendFrame ==
  /\ stage \in DOMAIN After /\ ws # "stalled"
  /\ IF ws = "open"
     THEN frames' = Append(frames, stage) /\ stage' = After[stage] /\ ws' \in {"open", "stalled"}
     ELSE UNCHANGED <<frames, ws>> /\ stage' = AfterError(stage)
  /\ conn' = IF conn = "up" /\ stage' \in {"error", "close"} THEN "lost" ELSE conn
  /\ page' = IF stage = "page" THEN <<>> ELSE page
  /\ UNCHANGED <<depth, probe, probed, upstream, gateway, downstream>>
\* External: the browser reads what has filled the socket, or goes away.
BrowserReads ==
  /\ ws = "stalled" /\ ws' = "open"
  /\ UNCHANGED <<stage, frames, depth, probe, page, probed, conn, upstream, gateway, downstream>>
BrowserLeaves ==
  /\ ws # "gone" /\ ws' = "gone"
  /\ UNCHANGED <<stage, frames, depth, probe, page, probed, conn, upstream, gateway, downstream>>
\* The link's idle timeout, or its end.
ConnLost ==
  /\ conn = "up" /\ conn' = "lost"
  /\ UNCHANGED <<session, upstream, gateway, downstream>>

-----------------------------------------------------------------------------
\* A new stream: its line is written, and the gateway's task starts.
Open(k) ==
  /\ kind' = k /\ origin' = "open" /\ w' = 1 /\ fin' = (k = "measure")
  /\ u' = 0 /\ got' = <<>> /\ o' = 0 /\ g' = 0 /\ r' = 0
  /\ gw' = "line" /\ up' = FALSE /\ down' = FALSE /\ left' = 0

\* The session drops the stream of a fetch; the gateway's task is followed no further.
Drop ==
  /\ w' = 0 /\ fin' = FALSE /\ u' = 0 /\ got' = <<>> /\ gw' = "none" /\ up' = FALSE /\ down' = FALSE
  /\ kind' = "none" /\ origin' = "open" /\ o' = 0 /\ g' = 0 /\ r' = 0 /\ UNCHANGED left

\* fetch_over_quicmix: the target line ...
FetchLine ==
  /\ stage = "fetch"
  /\ IF conn = "up"
     THEN (\E k \in Kinds : Open(k)) /\ stage' \in {"request", "tls"}
     ELSE stage' = "page" /\ UNCHANGED <<upstream, gateway, downstream>>
  /\ UNCHANGED <<ws, frames, depth, probe, page, probed, conn>>
\* ... the request, in the clear with the end of the stream ...
FetchRequest ==
  /\ stage = "request" /\ conn = "up"
  /\ w' = 3 /\ fin' = TRUE /\ stage' = "slurp"
  /\ UNCHANGED <<ws, frames, depth, probe, page, probed, conn, u, got, gateway, downstream>>
\* ... or without it once TLS is up, which takes an answer of the origin.
TlsRequest ==
  /\ stage = "tls" /\ conn = "up" /\ gw = "splice" /\ origin = "open"
  /\ w' = 3 /\ fin' = FALSE /\ stage' = "slurp"
  /\ UNCHANGED <<ws, frames, depth, probe, page, probed, conn, u, got, gateway, downstream>>
Ended == gw = "end" \/ (gw = "splice" /\ ~down)
FetchFails ==
  /\ \/ stage \in {"request", "tls"} /\ conn = "lost"
     \/ stage = "tls" /\ Ended
  /\ Drop /\ stage' = "page"
  /\ UNCHANGED <<ws, frames, depth, probe, page, probed, conn>>

\* The response has been read up to n: a redirect is followed three times at most,
\* a response without the end of its header is an error.
TooMany(d) == d > 3
Decoded(n) ==
  LET body == SubSeq(Body[kind], 1, n - HeadLen)
  IN IF kind = "chunked" THEN dechunk(body) ELSE body
Fetched(how, n) ==
  /\ Drop
  /\ IF n >= HeadLen /\ kind = "redirect"
     THEN depth' = depth + 1 /\ stage' = (IF TooMany(depth + 1) THEN "page" ELSE "fetch")
     ELSE stage' = "page" /\ UNCHANGED depth
  /\ page' = IF n >= HeadLen /\ kind # "redirect"
             THEN [how |-> how, data |-> Decoded(n), kind |-> kind, origin |-> origin]
             ELSE page

\* slurp: up to the cap, the end, an error, or ten seconds without data.  A read
\* takes what there is, which the gateway's copy leaves open.
SlurpRead ==
  /\ stage = "slurp" /\ conn = "up" /\ r < g
  /\ IF g >= PageCap
     THEN Fetched("cap", g)
     ELSE r' = g /\ UNCHANGED <<stage, depth, page, upstream, gateway, kind, origin, o, g>>
  /\ UNCHANGED <<ws, frames, probe, probed, conn>>
\* How a read without data ends (the bug: without a timeout).
QuietNever == IF conn = "lost" THEN {"error"} ELSE IF Ended THEN {"eof"} ELSE {}
Quiet == {IF conn = "lost" THEN "error" ELSE IF Ended THEN "eof" ELSE "timeout"}
SlurpEnds ==
  /\ stage = "slurp" /\ (r = g \/ conn = "lost")
  /\ \E how \in Quiet : Fetched(how, r)
  /\ UNCHANGED <<ws, frames, probe, probed, conn>>

-----------------------------------------------------------------------------
\* gateway_stream: the line is read through a buffer, which may take more than it.
GwLine ==
  /\ gw = "line"
  /\ IF conn = "up"
     THEN /\ u' \in 1..w
          /\ gw' = IF kind = "measure" THEN "measure" ELSE "dial"
          /\ left' = IF kind = "measure" THEN Least(probe, MeasureMax) ELSE 0
     ELSE gw' = "end" /\ UNCHANGED <<u, left>>
  /\ UNCHANGED <<session, conn, w, fin, got, up, down, downstream>>
GwDial ==
  /\ gw = "dial"
  /\ \/ gw' = "end" /\ UNCHANGED <<up, down>>
     \/ gw' = "splice" /\ up' = TRUE /\ down' = TRUE
  /\ UNCHANGED <<session, conn, upstream, left, downstream>>

\* The request's copy goes on from the buffer (the bug: from the stream).
FirstRaw(buffered) == buffered + 1
First(buffered) == 2
NextUp == IF got = <<>> THEN First(u) ELSE Last(got) + 1
GwUp ==
  /\ up /\ gw = "splice" /\ NextUp <= w /\ origin = "open"
  /\ got' = Append(got, NextUp)
  /\ UNCHANGED <<session, conn, w, fin, u, gateway, downstream>>
GwUpEnds ==
  /\ up /\ gw = "splice"
  /\ (fin /\ NextUp > w) \/ conn = "lost" \/ (NextUp <= w /\ origin # "open")
  /\ up' = FALSE
  /\ UNCHANGED <<session, conn, upstream, gw, down, left, downstream>>
GwDown ==
  /\ down /\ gw = "splice" /\ g < o /\ conn = "up"
  /\ g' \in (g + 1)..o
  /\ UNCHANGED <<session, conn, upstream, gateway, kind, origin, o, r>>
\* The end of the response, a reset or a failed write end the copy, and the stream
\* to the session is finished in each case.
GwDownEnds ==
  /\ down /\ gw = "splice"
  /\ (g = o /\ origin = "closed") \/ origin = "reset" \/ conn = "lost"
  /\ down' = FALSE
  /\ UNCHANGED <<session, conn, upstream, gw, up, left, downstream>>
\* The task ends with both copies (the bug: with either).
SpliceOverEither == ~up \/ ~down
SpliceOver == ~up /\ ~down
GwSpliceEnds ==
  /\ gw = "splice" /\ SpliceOver
  /\ gw' = "end" /\ up' = FALSE /\ down' = FALSE
  /\ UNCHANGED <<session, conn, upstream, left, downstream>>

\* External: the origin answers a whole request, closes after it, or resets.  Its
\* answer is sent in one step: the gateway copies it, and may lose it, piecemeal.
Responds ==
  /\ gw = "splice" /\ origin = "open" /\ got # <<>> /\ Last(got) = 3 /\ o = 0
  /\ o' = ResponseLen[kind]
  /\ UNCHANGED <<session, conn, upstream, gateway, kind, origin, g, r>>
OriginEnds ==
  /\ gw = "splice" /\ origin = "open"
  /\ origin' \in {"reset"} \cup (IF o = ResponseLen[kind] THEN {"closed"} ELSE {})
  /\ UNCHANGED <<session, conn, upstream, gateway, kind, o, g, r>>

-----------------------------------------------------------------------------
\* run_measure: the stream of the probe, whose size only matters from here on.
OpenProbe ==
  /\ stage = "open"
  /\ IF conn = "up"
     THEN Open("measure") /\ stage' = "probe" /\ probe' \in ProbeSizes
     ELSE stage' = "error" /\ UNCHANGED <<probe, upstream, gateway, downstream>>
  /\ UNCHANGED <<ws, frames, depth, page, probed, conn>>
\* gateway_stream sends what was asked, up to its own limit, in chunks (the bug:
\* whole chunks), until a write fails.
ChunkWhole(n) == ChunkLen
Chunk(n) == Least(n, ChunkLen)
GwMeasure ==
  /\ gw = "measure" /\ left > 0 /\ conn = "up" /\ g - r + Chunk(left) <= Window
  /\ g' = g + Chunk(left) /\ left' = left - Least(left, Chunk(left))
  /\ UNCHANGED <<session, conn, upstream, gw, up, down, kind, origin, o, r>>
MeasureOver == left = 0 \/ conn = "lost"
\* It is left at the end (the bug: the loop goes round with nothing to write).
GwMeasureSpins == gw = "measure" /\ MeasureOver /\ UNCHANGED vars
GwMeasureEnds ==
  /\ gw = "measure" /\ MeasureOver
  /\ gw' = "end"
  /\ UNCHANGED <<session, conn, upstream, up, down, left, downstream>>
\* A read of the probe, and perhaps a sample ...
ProbeRead ==
  /\ stage = "probe" /\ conn = "up" /\ r < g
  /\ r' = g
  /\ stage' \in {"check"} \cup (IF Len(frames) < 3 + MaxSamples THEN {"sample"} ELSE {})
  /\ UNCHANGED <<ws, frames, depth, probe, page, probed, conn, upstream, gateway, kind, origin, o, g>>
\* ... and the end at the cap or after PROBE_CAP_TIME.
ProbeCheck ==
  /\ stage = "check"
  /\ \/ stage' = "done" /\ probed' = <<"cap", r>>
     \/ r < ProbeCap /\ stage' = "probe" /\ UNCHANGED probed
  /\ UNCHANGED <<ws, frames, depth, probe, page, conn, upstream, gateway, downstream>>
ProbeEnds ==
  /\ stage = "probe" /\ (r = g \/ conn = "lost")
  /\ \E how \in Quiet : probed' = <<how, r>>
  /\ stage' = "done"
  /\ UNCHANGED <<ws, frames, depth, probe, page, conn, upstream, gateway, downstream>>

\* A session that is over stays so.
Over == stage = "over" /\ gw \in {"none", "end"} /\ UNCHANGED vars

Session ==
  \/ SendFrame \/ FetchLine \/ FetchRequest \/ FetchFails
  \/ SlurpRead \/ SlurpEnds \/ OpenProbe \/ ProbeRead \/ ProbeCheck \/ ProbeEnds
Gateway ==
  \/ GwLine \/ GwDial \/ GwUp \/ GwUpEnds \/ GwDown \/ GwDownEnds \/ GwSpliceEnds
  \/ GwMeasure \/ GwMeasureEnds
Next ==
  \/ Hello \/ Dial \/ TlsRequest \/ Session \/ Gateway
  \/ BrowserReads \/ BrowserLeaves \/ ConnLost \/ Responds \/ OriginEnds \/ Over

\* The two tasks go on; a link without traffic reaches its idle timeout, which is
\* what ends a TLS handshake that gets no answer.
Spec ==
  /\ Init /\ [][Next]_vars
  /\ WF_vars(Session) /\ WF_vars(Gateway) /\ WF_vars(stage = "tls" /\ ConnLost)

-----------------------------------------------------------------------------
\* Every variable has its type; the session never reads what was not written.
TypeOK ==
  /\ ws \in {"open", "stalled", "gone"} /\ conn \in {"none", "up", "lost"}
  /\ stage \in DOMAIN After \cup {"hello", "dial", "fetch", "request", "tls", "slurp",
                                 "open", "probe", "check", "over"}
  /\ depth \in 0..4 /\ probe \in ProbeSizes \cup {0}
  /\ w \in {0, 1, 3} /\ fin \in BOOLEAN /\ u \in 0..w
  /\ kind \in Kinds \cup {"none", "measure"}
  /\ gw \in {"none", "line", "dial", "splice", "measure", "end"}
  /\ up \in BOOLEAN /\ down \in BOOLEAN /\ left \in 0..MeasureMax
  /\ origin \in {"open", "closed", "reset"}
  /\ r \in 0..g /\ (kind \in Kinds => g <= o /\ o <= ResponseLen[kind])

\* The origin gets the request from its first byte on and without a gap, also when
\* part of it came to the gateway together with the target line (gateway_stream
\* reads the line through the reader it copies from).
RequestWhole == \A i \in DOMAIN got : got[i] = i + 1

\* A page shown after the end of the stream is the origin's whole page when the
\* origin closed its connection in order, whatever order the two directions ended
\* in: the end of the request does not cut the answer short.
PageWhole == page # <<>> /\ page.how = "eof" /\ page.origin # "reset" => page.data = Content[page.kind]

\* A page cut short by the cap, a timeout, an error or a reset is a prefix of the
\* origin's page, also when it was cut inside a chunk or its size line.
PagePrefix == page # <<>> => IsPrefix(page.data, Content[page.kind])

\* The spliced stream carries both directions unchanged, in states of the right
\* types: the request to the origin, the page back to the browser.
SpliceWhole == TypeOK /\ RequestWhole /\ PagePrefix /\ PageWhole

\* What the probe reports: never more than was asked and than the gateway's limit,
\* and exactly that when the stream ended before the session's cap and timeouts.
ProbeExact ==
  probed # <<>> =>
    /\ probed[2] <= Least(probe, MeasureMax)
    /\ probed[1] = "eof" => probed[2] = Least(probe, MeasureMax)

\* The browser sees the frames of a measurement in order, a page (also a failed one)
\* before the samples and the result, a result or an error but not both, and
\* nothing after the close.
Place == [connected |-> 1, egress |-> 2, page |-> 3, sample |-> 4, done |-> 5, error |-> 5, close |-> 6]
FrameOrder ==
  \A i \in DOMAIN frames :
    /\ i > 1 => \/ Place[frames[i - 1]] < Place[frames[i]]
                \/ frames[i] = "sample" /\ frames[i - 1] = "sample"
    /\ frames[i] \in {"sample", "done"} => \A k \in 1..3 : Place[frames[k]] = k
    /\ frames[i] = "close" => i > 1 /\ Place[frames[i - 1]] = 5

\* What the browser is told is in order, and its numbers are right.
ToldRight == ProbeExact /\ FrameOrder

\* Once connected a session comes to its end, whatever the gateway and the origin
\* leave undone.
SessionEnds == stage = "connected" ~> stage = "over"

\* A measurement stream of the gateway comes to its end, also when its session
\* stopped reading it at the cap.
GatewayEnds == gw = "measure" ~> gw = "end"

\* Both ends of a measurement finish, the session and the gateway's stream, as long
\* as the browser goes on reading or goes away: send_json waits without a limit, so a
\* browser that stays and stops reading holds both, and nothing else does.
ReadsOn == []<>(ws # "stalled")
BothEnd == ReadsOn => SessionEnds /\ GatewayEnds

=============================================================================
