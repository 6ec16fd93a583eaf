----------------------------- MODULE SaleStream -----------------------------
(***************************************************************************)
(* What the cloud promises about one device stream (tenant, device, flow), *)
(* independently of requests, retries and staging: the stream is a log     *)
(* indexed by source sequence.  It only ever grows at its end, a document  *)
(* lands exactly at the position of its own source sequence and at most    *)
(* once, and a position may instead be declared lost, for good.            *)
(***************************************************************************)
EXTENDS Naturals, Sequences

CONSTANTS
  Records,  \* the documents a device may send, with fields seq and key
  GapFill,  \* the mark of a position declared lost
  MaxSeq    \* highest source sequence considered

VARIABLE log  \* log[n] is what position n holds

Init == log = << >>

(* A document takes the next position of the stream, the one it was issued *)
(* for, unless its key already holds a position.                           *)
Accept(r) ==
  /\ r.seq = Len(log) + 1
  /\ \A n \in DOMAIN log : log[n] # GapFill => log[n].key # r.key
  /\ log' = Append(log, r)

(* The positions up to upTo are given up.                                  *)
DeclareLost(upTo) ==
  /\ upTo > Len(log)
  /\ log' = [n \in 1..upTo |-> IF n <= Len(log) THEN log[n] ELSE GapFill]

Next ==
  \/ \E r \in Records : Accept(r)
  \/ \E upTo \in 1..MaxSeq : DeclareLost(upTo)

Spec == Init /\ [][Next]_log
=============================================================================
