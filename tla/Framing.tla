------------------------------ MODULE Framing ------------------------------
(***************************************************************************)
(* Where one message ends and the next begins: the units of output that    *)
(* ProcessEndpoint passes on, as functions of the bytes the program wrote  *)
(* (libwebsocketd/process_endpoint.go), and the bytes a client's message   *)
(* becomes on its stdin (websocket_endpoint.go).                           *)
(*                                                                         *)
(* A stream is the sequence of all bytes written to it before end of file. *)
(* A read starts after the first p bytes; it is described by where it ends *)
(* and by its error.  When the bytes come is ProcessEndpoint's matter: a   *)
(* read waits for what it needs, so its result depends on the bytes alone. *)
(***************************************************************************)
EXTENDS Naturals, Sequences

LF == "LF"
CR == "CR"

NewlinesAfter(s, p) == {i \in (p + 1)..Len(s) : s[i] = LF}

Earliest(S) == CHOOSE i \in S : \A j \in S : i <= j

-----------------------------------------------------------------------------
(* The reads of bufio.Reader.                                              *)

ReadByte(s, p) ==
  IF p < Len(s) THEN [to |-> p + 1, err |-> "nil"]
                ELSE [to |-> p, err |-> "EOF"]

ReadBytes(s, p) ==
  IF NewlinesAfter(s, p) # {}
    THEN [to |-> Earliest(NewlinesAfter(s, p)), err |-> "nil"]
    ELSE [to |-> Len(s), err |-> "EOF"]

(* Unlike ReadBytes it returns no more than the reader's buffer holds.     *)
ReadSlice(s, p, size) ==
  LET buffered == {i \in NewlinesAfter(s, p) : i <= p + size}
  IN IF buffered # {} THEN [to |-> Earliest(buffered), err |-> "nil"]
     ELSE IF p + size <= Len(s) THEN [to |-> p + size, err |-> "ErrBufferFull"]
     ELSE [to |-> Len(s), err |-> "EOF"]

-----------------------------------------------------------------------------

trimEOL(b) ==
  LET lns == Len(b)
  IN IF lns = 0 \/ b[lns] # LF THEN b
     ELSE IF lns > 1 /\ b[lns - 1] = CR THEN SubSeq(b, 1, lns - 2)
     ELSE SubSeq(b, 1, lns - 1)

trimEOLifNotRaw(b, raw) == IF raw THEN b ELSE trimEOL(b)

(* What goes to the output channel for the stream s: the rest at end of    *)
(* file is dropped.                                                        *)
relayStdout(s, raw) ==
  LET From[p \in 0..Len(s)] ==
        LET r == IF raw THEN ReadByte(s, p) ELSE ReadBytes(s, p)
        IN IF r.err # "nil" THEN <<>>
           ELSE <<trimEOLifNotRaw(SubSeq(s, p + 1, r.to), raw)>> \o From[r.to]
  IN From[0]

(* What is logged of stderr, and with --passstderr relayed: long lines in  *)
(* chunks, and the rest at end of file.                                    *)
relayStderr(s, raw, size) ==
  LET From[p \in 0..Len(s)] ==
        LET r == IF raw THEN ReadByte(s, p) ELSE ReadSlice(s, p, size)
            buf == SubSeq(s, p + 1, r.to)
        IN (IF buf = <<>> THEN <<>> ELSE <<trimEOLifNotRaw(buf, raw)>>)
             \o (IF r.err \in {"nil", "ErrBufferFull"} THEN From[r.to] ELSE <<>>)
  IN From[0]

(* What a message of the client is on the program's stdin.                 *)
Posted(m, bin, raw) == IF bin \/ raw THEN m ELSE Append(m, LF)
=============================================================================
