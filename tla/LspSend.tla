------------------------------ MODULE LspSend ------------------------------
(***************************************************************************)
(* lsp::send_message (src/src/lsp/comms.cpp): every message for the        *)
(* language server goes through ONE function-local static asio::streambuf. *)
(* A send appends its frame to that buffer, hands the WHOLE buffer to      *)
(* asio::async_write and suspends; when the write has finished, asio       *)
(* consumes from the front of the buffer as many bytes as it wrote.        *)
(* Sends of different coroutines may overlap.                              *)
(*                                                                         *)
(* Bytes are abstracted to cells.  All cells ever appended form a stream   *)
(* 1, 2, 3, ...: the buffer only grows at its end and shrinks at its front *)
(* so it is always the window consumed+1 .. appended of that stream, and   *)
(* the pipe ("wire") carries stream positions, or Garbage.                 *)
(***************************************************************************)
EXTENDS Integers, Sequences

CONSTANTS
  Writers,   \* the coroutines that send; each has one send outstanding at most
  Lengths,   \* the sizes, in cells, a frame may have
  MaxCells   \* bound: cells appended in one behaviour

ASSUME LengthsAssumption == Lengths \subseteq Nat \ {0}
ASSUME MaxCellsAssumption == MaxCells \in Nat

VARIABLES
  appended,   \* cells ever written to the streambuf
  consumed,   \* cells ever consumed from it
  op,         \* op[w]: the async_write of w; op[w].n = 0 when there is none
  queue,      \* writers whose write_some waits for the pipe, oldest first
  wire,       \* what the pipe has carried
  overlapped  \* history: some send started while another was outstanding

sendVars == <<appended, consumed, op, queue, wire, overlapped>>

(* What a write reads once its memory has been moved or freed under it. *)
Garbage == 0

(* n: cells of the buffer handed to async_write; next: the stream position *)
(* to transfer next; left: how many remain; stale: the buffer's storage    *)
(* was moved by a later send, so the remaining bytes are not the frame's.  *)
Idle == [n |-> 0, next |-> 1, left |-> 0, stale |-> FALSE]

Outstanding == {w \in Writers : op[w].n > 0}

SendInit ==
  /\ appended = 0
  /\ consumed = 0
  /\ op = [w \in Writers |-> Idle]
  /\ queue = <<>>
  /\ wire = <<>>
  /\ overlapped = FALSE

(* The cells the next k bytes of operation o put on the pipe. *)
Cells(o, k) == [i \in 1..k |-> IF o.stale THEN Garbage ELSE o.next + i - 1]

Advanced(o, k) ==
  [n |-> o.n, next |-> o.next + k, left |-> o.left - k, stale |-> o.stale]

(* Starting a write_some: asio tries the pipe at once when nobody waits   *)
(* for it (k cells go out), otherwise, or when the pipe is full (k = 0),   *)
(* the operation joins the descriptor's queue.                             *)
StartWriteSome(w, k) ==
  /\ k > 0 => queue = <<>>
  /\ queue' = IF k > 0 THEN queue ELSE Append(queue, w)

(* The streambuf grew: when it had no room left, prepare()/overflow() moved *)
(* or reallocated its storage and every unfinished write points at memory   *)
(* that no longer holds its bytes.                                          *)
Moved(o) ==
  [n |-> o.n, next |-> o.next, left |-> o.left,
   stale |-> (o.stale \/ o.left > 0)]

(* Mutant: only as many bytes as the new frame has are written. *)
SendFrameOnly(w, len, k, moved) ==
  LET o == [n |-> len, next |-> consumed + 1, left |-> len, stale |-> FALSE]
  IN  /\ op[w].n = 0
      /\ appended + len <= MaxCells
      /\ k \in 0..len
      /\ StartWriteSome(w, k)
      /\ appended' = appended + len
      /\ op' = [v \in Writers |->
                  IF v = w THEN Advanced(o, k)
                  ELSE IF moved THEN Moved(op[v]) ELSE op[v]]
      /\ wire' = wire \o Cells(o, k)
      /\ overlapped' = (overlapped \/ Outstanding # {})
      /\ UNCHANGED consumed

(* send_message up to its suspension in async_write. *)
Send(w, len, k, moved) ==
  LET n == appended + len - consumed
      o == [n |-> n, next |-> consumed + 1, left |-> n, stale |-> FALSE]
  IN  /\ op[w].n = 0
      /\ appended + len <= MaxCells
      /\ k \in 0..n
      /\ StartWriteSome(w, k)
      /\ appended' = appended + len
      /\ op' = [v \in Writers |->
                  IF v = w THEN Advanced(o, k)
                  ELSE IF moved THEN Moved(op[v]) ELSE op[v]]
      /\ wire' = wire \o Cells(o, k)
      /\ overlapped' = (overlapped \/ Outstanding # {})
      /\ UNCHANGED consumed

(* The usual case: the pipe is empty enough to take the whole buffer.       *)
SendAtOnce(w, len) == Send(w, len, appended + len - consumed, FALSE)

(* The reactor: the pipe takes k cells of the oldest waiting operation. *)
Transfer(k) ==
  /\ queue # <<>>
  /\ LET w == Head(queue)
     IN  /\ k \in 1..op[w].left
         /\ wire' = wire \o Cells(op[w], k)
         /\ op' = [op EXCEPT ![w] = Advanced(op[w], k)]
  /\ queue' = Tail(queue)
  /\ UNCHANGED <<appended, consumed, overlapped>>

Waiting(w) == \E i \in DOMAIN queue : queue[i] = w

(* async_write's own handler after a short transfer: write the rest. *)
WriteRest(w, k) ==
  /\ op[w].left > 0
  /\ ~Waiting(w)
  /\ k \in 0..op[w].left
  /\ StartWriteSome(w, k)
  /\ wire' = wire \o Cells(op[w], k)
  /\ op' = [op EXCEPT ![w] = Advanced(op[w], k)]
  /\ UNCHANGED <<appended, consumed, overlapped>>

(* streambuf::consume(n): never more than the buffer holds. *)
AfterConsume(n) == IF consumed + n > appended THEN appended ELSE consumed + n

Written(w) == op[w].n > 0 /\ op[w].left = 0 /\ ~Waiting(w)

(* Mutants: the write is given data() instead of the streambuf, so nothing  *)
(* is consumed; the sender insists that the buffer still holds what it      *)
(* wrote.                                                                   *)
CompleteKeeps(w) ==
  /\ Written(w)
  /\ op' = [op EXCEPT ![w] = Idle]
  /\ UNCHANGED <<appended, consumed, queue, wire, overlapped>>

CompleteStrict(w) ==
  /\ Written(w)
  /\ consumed + op[w].n <= appended
  /\ consumed' = consumed + op[w].n
  /\ op' = [op EXCEPT ![w] = Idle]
  /\ UNCHANGED <<appended, queue, wire, overlapped>>

(* The write is complete: consume what it wrote, resume the sender. *)
Complete(w) ==
  /\ Written(w)
  /\ consumed' = AfterConsume(op[w].n)
  /\ op' = [op EXCEPT ![w] = Idle]
  /\ UNCHANGED <<appended, queue, wire, overlapped>>

SendNext ==
  \/ \E w \in Writers, len \in Lengths, k \in 0..MaxCells, moved \in BOOLEAN :
        Send(w, len, k, moved)
  \/ \E k \in 1..MaxCells : Transfer(k)
  \/ \E w \in Writers : \/ \E k \in 0..MaxCells : WriteRest(w, k)
                        \/ Complete(w)

SendSpec == SendInit /\ [][SendNext]_sendVars

(* Fairness: the language server keeps reading its stdin, so the pipe      *)
(* always takes the oldest operation again, and the io_context runs every  *)
(* handler that is ready.                                                  *)
SendFairness ==
  /\ WF_sendVars(\E k \in 1..MaxCells : Transfer(k))
  /\ \A w \in Writers :
        WF_sendVars((\E k \in 0..MaxCells : WriteRest(w, k)) \/ Complete(w))

SendFairSpec == SendSpec /\ SendFairness
----------------------------------------------------------------------------
Ops == [n : Nat, next : Nat \ {0}, left : Nat, stale : BOOLEAN]

(* The shapes of the sender's state (the buffer is a window of the stream). *)
SendTypeOK ==
  /\ appended \in Nat
  /\ consumed \in 0..appended
  /\ op \in [Writers -> Ops]
  /\ queue \in Seq(Writers)
  /\ wire \in Seq(Nat)
  /\ overlapped \in BOOLEAN

(* The static streambuf does not leak: however the sends overlapped, and   *)
(* in whichever order their writes finished, once none is outstanding the  *)
(* buffer is empty, so the next message is not preceded by old bytes       *)
(* (send_message's buffer after async_write consumed from it).             *)
DrainedWhenIdle == Outstanding = {} => consumed = appended

(* While sends never overlap, the pipe carries exactly the frames in the   *)
(* order of the calls of send_message, each once, whatever the sizes of    *)
(* the partial writes; and once the sender is idle it has carried them all.*)
ExclusiveExact ==
  ~overlapped => /\ \A i \in DOMAIN wire : wire[i] = i
                 /\ Outstanding = {} => Len(wire) = appended

Remaining(w) == op[w].next .. (op[w].next + op[w].left - 1)

OnWire(c) == \E i \in DOMAIN wire : wire[i] = c

(* Overlapping sends may repeat bytes but lose none: unless the buffer was *)
(* moved under an unfinished write, every byte appended is on the pipe or  *)
(* still to be transferred by some outstanding async_write.                *)
NothingLost ==
  (~OnWire(Garbage) /\ \A w \in Writers : ~op[w].stale) =>
    \A c \in 1..appended :
      OnWire(c) \/ \E w \in Outstanding : c \in Remaining(w)

(* Every async_write finishes: the sender is idle again and again while    *)
(* the peer keeps reading (a short transfer must be continued).            *)
EventuallyDrained == []<>(Outstanding = {})
============================================================================
