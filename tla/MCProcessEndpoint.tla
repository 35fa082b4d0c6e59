------------------------- MODULE MCProcessEndpoint -------------------------
(* Small instances of ProcessEndpoint for TLC, and Framing against a       *)
(* description of its units over all short streams.                        *)
EXTENDS ProcessEndpoint, Framing

SE == INSTANCE SequencesExt

CONSTANTS MaxOut, MaxErr

MCMaxUnits == [stdout |-> MaxOut, stderr |-> MaxErr]

-----------------------------------------------------------------------------
(* Bounds: streams of at most MaxStream bytes, of which all but "\n" and   *)
(* "\r" are alike, and buffers of at most MaxBuffer.                       *)
MaxStream == 6
MaxBuffer == 4
ShortSeqs(S, n) == UNION {[1..k -> S] : k \in 0..n}
ShortStreams == ShortSeqs({LF, CR, "x"}, MaxStream)

(* The pieces of s that end at the places in E, without their ends of line. *)
Pieces(s, E) ==
  LET ends == SE!SetToSortSeq(E, <)
      starts == <<0>> \o ends
  IN [k \in 1..Len(ends) |->
        CHOOSE t \in ShortStreams :
          LET b == SubSeq(s, starts[k] + 1, ends[k])
          IN IF Len(b) > 0 /\ b[Len(b)] = LF
               THEN \/ b = t \o <<CR, LF>>
                    \/ b = t \o <<LF>> /\ (t = <<>> \/ t[Len(t)] # CR)
               ELSE b = t]

LineStart(s, o) == SE!Max({i \in 0..(o - 1) : i = 0 \/ s[i] = LF})

(* Every line of stdout is a message, and nothing else.                    *)
ASSUME StdoutIsLines ==
  \A s \in ShortStreams :
    relayStdout(s, FALSE) = Pieces(s, {i \in 1..Len(s) : s[i] = LF})

(* On stderr a line is cut every size bytes, and the rest counts.          *)
ASSUME StderrIsChunks ==
  \A s \in ShortStreams, size \in 1..MaxBuffer :
    relayStderr(s, FALSE, size) =
      Pieces(s, {o \in 1..Len(s) : \/ o = Len(s)
                                   \/ s[o] = LF
                                   \/ (o - LineStart(s, o)) % size = 0})

(* With --raw's setting every byte of either stream is one.                *)
ASSUME RawIsBytes ==
  \A s \in ShortStreams :
    /\ relayStdout(s, TRUE) = [i \in 1..Len(s) |-> <<s[i]>>]
    /\ relayStderr(s, TRUE, 1) = relayStdout(s, TRUE)

(* A program that copies its stdin to its stdout sends every message back, *)
(* if it is one line and does not end in a carriage return.                *)
ASSUME CopyComesBack ==
  \A ms \in ShortSeqs({t \in ShortSeqs({CR, "x", "y"}, 2) :
                         t = <<>> \/ t[Len(t)] # CR}, 3) :
    relayStdout(SE!FlattenSeq([i \in DOMAIN ms |-> Posted(ms[i], FALSE, FALSE)]),
                FALSE) = ms
=============================================================================
