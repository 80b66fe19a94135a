--------------------------- MODULE LspSendProofs ---------------------------
(* Proofs about send_message's shared buffer, for every set of writers,     *)
(* every set of frame sizes and every bound.                                *)
EXTENDS LspSend, SequenceTheorems, TLAPS

(* Growing the pipe's history by a block of cells. *)
LEMMA CellsType ==
  ASSUME NEW o \in Ops, NEW k \in Nat
  PROVE  /\ Cells(o, k) \in Seq(Nat)
         /\ Len(Cells(o, k)) = k
         /\ \A i \in 1..k : Cells(o, k)[i] = IF o.stale THEN 0 ELSE o.next + i - 1
  BY DEF Cells, Garbage, Ops

LEMMA WireGrows ==
  ASSUME NEW s \in Seq(Nat), NEW o \in Ops, NEW k \in Nat
  PROVE  /\ s \o Cells(o, k) \in Seq(Nat)
         /\ Len(s \o Cells(o, k)) = Len(s) + k
         /\ \A i \in 1..(Len(s) + k) :
              (s \o Cells(o, k))[i] =
                 IF i <= Len(s) THEN s[i]
                 ELSE IF o.stale THEN 0 ELSE o.next + (i - Len(s)) - 1
<1> DEFINE c == Cells(o, k)
<1>1. c \in Seq(Nat) /\ Len(c) = k
  BY CellsType
<1>2. \A i \in 1..k : c[i] = IF o.stale THEN 0 ELSE o.next + i - 1
  BY CellsType
<1> HIDE DEF c
<1>3. /\ s \o c \in Seq(Nat)
      /\ Len(s \o c) = Len(s) + k
      /\ \A i \in 1..(Len(s) + k) :
           (s \o c)[i] = IF i <= Len(s) THEN s[i] ELSE c[i - Len(s)]
  BY <1>1
<1>4. \A i \in 1..(Len(s) + k) : i <= Len(s) \/ i - Len(s) \in 1..k
  OBVIOUS
<1> QED BY <1>2, <1>3, <1>4 DEF c

LEMMA AdvancedType ==
  ASSUME NEW o \in Ops, NEW k \in 0..o.left
  PROVE  /\ Advanced(o, k) \in Ops
         /\ Advanced(o, k).n = o.n
         /\ Advanced(o, k).next = o.next + k
         /\ Advanced(o, k).left = o.left - k
         /\ Advanced(o, k).stale = o.stale
  BY DEF Advanced, Ops

LEMMA MovedType ==
  ASSUME NEW o \in Ops
  PROVE  /\ Moved(o) \in Ops
         /\ Moved(o).n = o.n
         /\ Moved(o).next = o.next
         /\ Moved(o).left = o.left
         /\ o.stale => Moved(o).stale
  BY DEF Moved, Ops

LEMMA IdleType == Idle \in Ops /\ Idle.n = 0 /\ Idle.left = 0 /\ Idle.next = 1
  BY DEF Idle, Ops

(* The sender's state keeps its shape; in particular no write transfers    *)
(* more than it was given and consume never passes the end of the buffer.  *)
LEMMA SendTypeStep == SendTypeOK /\ [SendNext]_sendVars => SendTypeOK'
<1> SUFFICES ASSUME SendTypeOK, [SendNext]_sendVars PROVE SendTypeOK'
  OBVIOUS
<1> USE LengthsAssumption, MaxCellsAssumption DEF SendTypeOK
<1>1. ASSUME NEW w \in Writers, NEW len \in Lengths, NEW k \in 0..MaxCells,
             NEW moved \in BOOLEAN, Send(w, len, k, moved)
      PROVE  SendTypeOK'
  <2> DEFINE n == appended + len - consumed
             o == [n |-> n, next |-> consumed + 1, left |-> n, stale |-> FALSE]
  <2>1. n \in Nat /\ o \in Ops /\ k \in 0..o.left
    <3>1. k \in 0..n
      BY <1>1 DEF Send
    <3>2. len \in Nat /\ consumed \in Nat /\ appended \in Nat /\ consumed <= appended
      OBVIOUS
    <3>3. n \in Nat
      BY <3>2
    <3> HIDE DEF n
    <3>4. o \in Ops /\ o.left = n
      BY <3>2, <3>3 DEF Ops
    <3> QED BY <3>1, <3>3, <3>4
  <2> HIDE DEF n, o
  <2>2. /\ wire' = wire \o Cells(o, k)
        /\ op' = [v \in Writers |-> IF v = w THEN Advanced(o, k)
                     ELSE IF moved THEN Moved(op[v]) ELSE op[v]]
    BY <1>1 DEF Send, n, o
  <2>3. wire' \in Seq(Nat)
    <3>1. k \in Nat
      OBVIOUS
    <3> QED BY <2>1, <2>2, <3>1, WireGrows
  <2>4. op' \in [Writers -> Ops]
    BY <2>1, <2>2, AdvancedType, MovedType
  <2>5. queue' \in Seq(Writers)
    BY <1>1 DEF Send, StartWriteSome
  <2>6. overlapped' \in BOOLEAN
    BY <1>1, Zenon DEF Send
  <2>7. appended' \in Nat /\ consumed' \in 0..appended'
    BY <1>1 DEF Send
  <2> QED BY <2>3, <2>4, <2>5, <2>6, <2>7
<1>2. ASSUME NEW k \in 1..MaxCells, Transfer(k) PROVE SendTypeOK'
  <2>1. Head(queue) \in Writers /\ Tail(queue) \in Seq(Writers)
    BY <1>2, HeadTailProperties DEF Transfer
  <2> DEFINE w == Head(queue)
  <2>2. k \in 0..op[w].left /\ op[w] \in Ops
    BY <1>2, <2>1 DEF Transfer, Ops
  <2>3. wire' \in Seq(Nat)
    <3>1. wire' = wire \o Cells(op[w], k)
      BY <1>2 DEF Transfer
    <3>2. k \in Nat
      OBVIOUS
    <3> QED BY <2>2, <3>1, <3>2, WireGrows
  <2>4. op' \in [Writers -> Ops]
    BY <1>2, <2>1, <2>2, AdvancedType DEF Transfer
  <2> QED BY <1>2, <2>1, <2>3, <2>4 DEF Transfer
<1>3. ASSUME NEW w \in Writers, NEW k \in 0..MaxCells, WriteRest(w, k)
      PROVE  SendTypeOK'
  <2>1. k \in 0..op[w].left /\ op[w] \in Ops
    BY <1>3 DEF WriteRest
  <2>2. wire' \in Seq(Nat)
    BY <1>3, <2>1, WireGrows DEF WriteRest
  <2>3. op' \in [Writers -> Ops]
    BY <1>3, <2>1, AdvancedType DEF WriteRest
  <2>4. queue' \in Seq(Writers)
    BY <1>3 DEF WriteRest, StartWriteSome
  <2> QED BY <1>3, <2>2, <2>3, <2>4 DEF WriteRest
<1>4. ASSUME NEW w \in Writers, Complete(w) PROVE SendTypeOK'
  BY <1>4, IdleType DEF Complete, Written, AfterConsume, Ops
<1>5. CASE UNCHANGED sendVars
  BY <1>5 DEF sendVars
<1> QED BY <1>1, <1>2, <1>3, <1>4, <1>5 DEF SendNext

(* Type correctness of the sender. *)
THEOREM SendTypeCorrect == SendSpec => []SendTypeOK
<1>1. SendInit => SendTypeOK
  <2> SUFFICES ASSUME SendInit PROVE SendTypeOK
    OBVIOUS
  <2>1. op \in [Writers -> Ops]
    BY IdleType DEF SendInit
  <2>2. queue \in Seq(Writers) /\ wire \in Seq(Nat)
    BY DEF SendInit
  <2>3. overlapped \in BOOLEAN
    BY Zenon DEF SendInit
  <2>4. appended \in Nat /\ consumed \in 0..appended
    BY DEF SendInit
  <2> QED BY <2>1, <2>2, <2>3, <2>4 DEF SendTypeOK
<1> QED BY <1>1, SendTypeStep, PTL DEF SendSpec
----------------------------------------------------------------------------
(* Why the buffer drains: whenever it holds anything, some outstanding      *)
(* write will consume all of it (the newest send covered the whole window). *)
IDrain ==
  \/ consumed = appended
  \/ \E w \in Writers : op[w].n > 0 /\ appended - consumed <= op[w].n

LEMMA IDrainStep == SendTypeOK /\ IDrain /\ [SendNext]_sendVars => IDrain'
<1> SUFFICES ASSUME SendTypeOK, IDrain, [SendNext]_sendVars PROVE IDrain'
  OBVIOUS
<1> USE LengthsAssumption, MaxCellsAssumption
<1>1. ASSUME NEW w \in Writers, NEW len \in Lengths, NEW k \in 0..MaxCells,
             NEW moved \in BOOLEAN, Send(w, len, k, moved)
      PROVE  IDrain'
  (* the new operation covers the whole buffer *)
  <2>1. op'[w].n = appended + len - consumed
    BY <1>1 DEF Send, Advanced, SendTypeOK
  <2>2. appended' = appended + len /\ consumed' = consumed
    BY <1>1 DEF Send
  <2>5. len \in Nat \ {0} /\ appended \in Nat /\ consumed \in 0..appended
    BY DEF SendTypeOK
  <2>3. op'[w].n > 0
    BY <2>1, <2>5
  <2>4. appended' - consumed' <= op'[w].n
    BY <2>1, <2>2, <2>5
  <2> QED BY <2>3, <2>4 DEF IDrain
<1>2. ASSUME NEW k \in 1..MaxCells, Transfer(k) PROVE IDrain'
  <2>1. \A v \in Writers : op'[v].n = op[v].n
    BY <1>2 DEF Transfer, Advanced, SendTypeOK, Ops
  <2> QED BY <1>2, <2>1 DEF Transfer, IDrain
<1>3. ASSUME NEW w \in Writers, NEW k \in 0..MaxCells, WriteRest(w, k)
      PROVE  IDrain'
  <2>1. \A v \in Writers : op'[v].n = op[v].n
    BY <1>3 DEF WriteRest, Advanced, SendTypeOK, Ops
  <2> QED BY <1>3, <2>1 DEF WriteRest, IDrain
<1>4. ASSUME NEW w \in Writers, Complete(w) PROVE IDrain'
  <2>1. consumed' = AfterConsume(op[w].n) /\ appended' = appended
    BY <1>4 DEF Complete, Written
  <2>2. \A v \in Writers \ {w} : op'[v] = op[v]
    BY <1>4 DEF Complete, Written, SendTypeOK
  <2>3. op[w].n \in Nat
    BY DEF SendTypeOK, Ops
  <2>4. CASE consumed + op[w].n > appended
    BY <2>1, <2>4 DEF AfterConsume, IDrain
  <2>5. CASE ~(consumed + op[w].n > appended)
    <3>1. consumed' = consumed + op[w].n
      BY <2>1, <2>5 DEF AfterConsume
    <3>2. CASE consumed = appended
      BY <2>1, <2>3, <2>5, <3>1, <3>2 DEF IDrain, SendTypeOK
    <3>3. CASE consumed # appended
      <4>1. PICK v \in Writers : op[v].n > 0 /\ appended - consumed <= op[v].n
        BY <3>3 DEF IDrain
      <4>2. CASE v = w
        BY <2>1, <2>3, <2>5, <3>1, <4>1, <4>2 DEF IDrain, SendTypeOK
      <4>3. CASE v # w
        <5>1. op'[v].n = op[v].n /\ op[v].n \in Nat
          BY <2>2, <4>3 DEF SendTypeOK, Ops
        <5> QED BY <2>1, <2>3, <3>1, <4>1, <5>1 DEF IDrain, SendTypeOK
      <4> QED BY <4>2, <4>3
    <3> QED BY <3>2, <3>3
  <2> QED BY <2>4, <2>5
<1>5. CASE UNCHANGED sendVars
  BY <1>5 DEF sendVars, IDrain
<1> QED BY <1>1, <1>2, <1>3, <1>4, <1>5 DEF SendNext

(* Once no write is outstanding the shared buffer is empty. *)
THEOREM Drains == SendSpec => []DrainedWhenIdle
<1>1. SendInit => IDrain
  BY DEF SendInit, IDrain
<1>2. IDrain /\ SendTypeOK => DrainedWhenIdle
  BY DEF IDrain, DrainedWhenIdle, Outstanding
<1>3. SendSpec => []IDrain
  BY <1>1, SendTypeCorrect, IDrainStep, PTL DEF SendSpec
<1> QED BY <1>2, <1>3, SendTypeCorrect, PTL
----------------------------------------------------------------------------
IdleLeft == \A w \in Writers : op[w].n = 0 => op[w].left = 0

(* Without overlap the only outstanding write continues exactly where the   *)
(* pipe stands and reaches to the end of the stream.                        *)
IExcl ==
  ~overlapped =>
    /\ \A i \in 1..Len(wire) : wire[i] = i
    /\ Outstanding = {} => Len(wire) = appended
    /\ \A w \in Outstanding :
         /\ \A v \in Outstanding : v = w
         /\ ~op[w].stale
         /\ op[w].next = Len(wire) + 1
         /\ op[w].next + op[w].left = appended + 1

LEMMA IdleLeftStep == SendTypeOK /\ IdleLeft /\ [SendNext]_sendVars => IdleLeft'
<1> SUFFICES ASSUME SendTypeOK, IdleLeft, [SendNext]_sendVars PROVE IdleLeft'
  OBVIOUS
<1> USE LengthsAssumption, MaxCellsAssumption
<1>1. ASSUME NEW w \in Writers, NEW len \in Lengths, NEW k \in 0..MaxCells,
             NEW moved \in BOOLEAN, Send(w, len, k, moved)
      PROVE  IdleLeft'
  <2>1. op'[w].n = appended + len - consumed /\ appended + len - consumed > 0
    BY <1>1 DEF Send, Advanced, SendTypeOK
  <2>2. \A v \in Writers \ {w} : op'[v].n = op[v].n /\ op'[v].left = op[v].left
    <3>1. \A v \in Writers \ {w} : op'[v] = Moved(op[v]) \/ op'[v] = op[v]
      BY <1>1 DEF Send
    <3> QED BY <3>1, MovedType DEF SendTypeOK
  <2> QED BY <2>1, <2>2 DEF IdleLeft
<1>2. ASSUME NEW k \in 1..MaxCells, Transfer(k) PROVE IdleLeft'
  <2>1. PICK w \in Writers : k \in 1..op[w].left /\ op' = [op EXCEPT ![w] = Advanced(op[w], k)]
    BY <1>2, HeadTailProperties DEF Transfer, SendTypeOK
  <2> QED BY <2>1 DEF IdleLeft, SendTypeOK, Advanced, Ops
<1>3. ASSUME NEW w \in Writers, NEW k \in 0..MaxCells, WriteRest(w, k)
      PROVE  IdleLeft'
  BY <1>3 DEF WriteRest, IdleLeft, SendTypeOK, Advanced, Ops
<1>4. ASSUME NEW w \in Writers, Complete(w) PROVE IdleLeft'
  BY <1>4, IdleType DEF Complete, Written, IdleLeft, SendTypeOK
<1>5. CASE UNCHANGED sendVars
  BY <1>5 DEF sendVars, IdleLeft
<1> QED BY <1>1, <1>2, <1>3, <1>4, <1>5 DEF SendNext

(* A write moving on by k cells keeps IExcl: Transfer and WriteRest.        *)
LEMMA AdvanceKeepsIExcl ==
  ASSUME SendTypeOK, IExcl, IdleLeft, NEW w \in Writers, NEW k \in 0..op[w].left,
         op[w].n > 0,
         op' = [op EXCEPT ![w] = Advanced(op[w], k)],
         wire' = wire \o Cells(op[w], k),
         UNCHANGED <<appended, consumed, overlapped>>
  PROVE  IExcl'
<1> SUFFICES ASSUME ~overlapped' PROVE IExcl'
  BY DEF IExcl
<1>1. ~overlapped
  OBVIOUS
<1>2. op[w] \in Ops /\ wire \in Seq(Nat) /\ k \in Nat
  BY DEF SendTypeOK, Ops
<1>3. /\ \A i \in 1..Len(wire) : wire[i] = i
      /\ \A v \in Outstanding : v = w
      /\ ~op[w].stale
      /\ op[w].next = Len(wire) + 1
      /\ op[w].next + op[w].left = appended + 1
  BY <1>1 DEF IExcl, Outstanding
<1>4. /\ Len(wire') = Len(wire) + k
      /\ \A i \in 1..(Len(wire) + k) : wire'[i] = i
  <2>1. /\ wire' \in Seq(Nat)
        /\ Len(wire') = Len(wire) + k
        /\ \A i \in 1..(Len(wire) + k) :
             wire'[i] = IF i <= Len(wire) THEN wire[i]
                        ELSE IF op[w].stale THEN 0 ELSE op[w].next + (i - Len(wire)) - 1
    BY <1>2, WireGrows
  <2>2. \A i \in 1..(Len(wire) + k) :
             wire'[i] = IF i <= Len(wire) THEN wire[i]
                        ELSE op[w].next + (i - Len(wire)) - 1
    BY <2>1, <1>3
  <2>3. Len(wire) \in Nat
    BY <1>2
  <2> QED BY <2>1, <2>2, <2>3, <1>3
<1>5. /\ op'[w].n = op[w].n
      /\ op'[w].next = op[w].next + k
      /\ op'[w].left = op[w].left - k
      /\ op'[w].stale = op[w].stale
      /\ \A v \in Writers : op'[v].n = op[v].n
  BY <1>2, AdvancedType DEF SendTypeOK
<1>6. Outstanding' = Outstanding /\ w \in Outstanding
  BY <1>5 DEF Outstanding
<1>7. \A v \in Outstanding' : v = w
  BY <1>3, <1>6
<1>8. op'[w].next = Len(wire') + 1 /\ op'[w].next + op'[w].left = appended' + 1
  BY <1>2, <1>3, <1>4, <1>5 DEF Ops, SendTypeOK
<1> QED BY <1>3, <1>4, <1>5, <1>6, <1>7, <1>8 DEF IExcl

LEMMA IExclStep ==
  SendTypeOK /\ IDrain /\ IdleLeft /\ IExcl /\ [SendNext]_sendVars => IExcl'
<1> SUFFICES ASSUME SendTypeOK, IDrain, IdleLeft, IExcl, [SendNext]_sendVars
             PROVE  IExcl'
  OBVIOUS
<1> USE LengthsAssumption, MaxCellsAssumption
<1>1. ASSUME NEW w \in Writers, NEW len \in Lengths, NEW k \in 0..MaxCells,
             NEW moved \in BOOLEAN, Send(w, len, k, moved)
      PROVE  IExcl'
  <2> SUFFICES ASSUME ~overlapped' PROVE IExcl'
    BY DEF IExcl
  <2>1. ~overlapped /\ Outstanding = {}
    BY <1>1, Zenon DEF Send
  <2>2. consumed = appended
    BY <2>1 DEF IDrain, Outstanding, SendTypeOK
  <2>3. Len(wire) = appended /\ \A i \in 1..Len(wire) : wire[i] = i
    BY <2>1 DEF IExcl
  <2> DEFINE o == [n |-> len, next |-> consumed + 1, left |-> len, stale |-> FALSE]
  <2>4. appended + len - consumed = len /\ len \in Nat \ {0}
    BY <2>2 DEF SendTypeOK
  <2>5. /\ wire' = wire \o Cells(o, k)
        /\ op'[w] = Advanced(o, k)
        /\ appended' = appended + len
        /\ k \in 0..len
    BY <1>1, <2>4 DEF Send
  <2>6. o \in Ops /\ o.next = consumed + 1 /\ o.left = len /\ ~o.stale /\ o.n = len
    BY <2>4 DEF Ops, SendTypeOK
  <2>7. \A v \in Writers \ {w} : op'[v].n = 0
    <3>1. \A v \in Writers \ {w} : op'[v] = Moved(op[v]) \/ op'[v] = op[v]
      BY <1>1 DEF Send
    <3>2. \A v \in Writers : op[v].n = 0 /\ op[v] \in Ops
      BY <2>1 DEF Outstanding, SendTypeOK, Ops
    <3> QED BY <3>1, <3>2, MovedType
  <2> HIDE DEF o
  <2>8. /\ op'[w].n = len /\ ~op'[w].stale
        /\ op'[w].next = consumed + 1 + k /\ op'[w].left = len - k
    BY <2>5, <2>6, AdvancedType
  <2>9. /\ Len(wire') = Len(wire) + k
        /\ \A i \in 1..(Len(wire) + k) : wire'[i] = i
    <3>1. wire \in Seq(Nat) /\ k \in Nat /\ Len(wire) \in Nat
      BY DEF SendTypeOK
    <3>2. /\ Len(wire') = Len(wire) + k
          /\ \A i \in 1..(Len(wire) + k) :
               wire'[i] = IF i <= Len(wire) THEN wire[i]
                          ELSE IF o.stale THEN 0 ELSE o.next + (i - Len(wire)) - 1
      <4>1. wire' = wire \o Cells(o, k) /\ o \in Ops
        BY <2>5, <2>6
      <4>2. /\ Len(wire \o Cells(o, k)) = Len(wire) + k
            /\ \A i \in 1..(Len(wire) + k) :
                 (wire \o Cells(o, k))[i] =
                    IF i <= Len(wire) THEN wire[i]
                    ELSE IF o.stale THEN 0 ELSE o.next + (i - Len(wire)) - 1
        BY <3>1, <4>1, WireGrows, Zenon
      <4> QED BY <4>1, <4>2, Zenon
    <3>3. \A i \in 1..(Len(wire) + k) :
               wire'[i] = IF i <= Len(wire) THEN wire[i]
                          ELSE o.next + (i - Len(wire)) - 1
      BY <3>2, <2>6
    <3>4. consumed \in Nat
      BY DEF SendTypeOK
    <3>5. ASSUME NEW i \in 1..(Len(wire) + k) PROVE wire'[i] = i
      <4>1. CASE i <= Len(wire)
        BY <3>1, <3>3, <4>1, <2>2, <2>3
      <4>2. CASE ~(i <= Len(wire))
        BY <3>1, <3>3, <3>4, <4>2, <2>2, <2>3, <2>6
      <4> QED BY <4>1, <4>2
    <3> QED BY <3>2, <3>5
  <2>10. Outstanding' = {w}
    BY <2>4, <2>7, <2>8 DEF Outstanding
  <2>11. op'[w].next = Len(wire') + 1 /\ op'[w].next + op'[w].left = appended' + 1
    BY <2>2, <2>3, <2>4, <2>5, <2>8, <2>9 DEF SendTypeOK
  <2> QED BY <2>8, <2>9, <2>10, <2>11 DEF IExcl
<1>2. ASSUME NEW k \in 1..MaxCells, Transfer(k) PROVE IExcl'
  <2>1. PICK w \in Writers : /\ k \in 1..op[w].left
                             /\ wire' = wire \o Cells(op[w], k)
                             /\ op' = [op EXCEPT ![w] = Advanced(op[w], k)]
    BY <1>2, HeadTailProperties DEF Transfer, SendTypeOK
  <2>2. op[w].n > 0 /\ k \in 0..op[w].left
    BY <2>1 DEF IdleLeft, SendTypeOK, Ops
  <2> QED BY <1>2, <2>1, <2>2, AdvanceKeepsIExcl DEF Transfer
<1>3. ASSUME NEW w \in Writers, NEW k \in 0..MaxCells, WriteRest(w, k)
      PROVE  IExcl'
  <2>1. op[w].n > 0 /\ k \in 0..op[w].left
    BY <1>3 DEF IdleLeft, SendTypeOK, Ops, WriteRest
  <2> QED BY <1>3, <2>1, AdvanceKeepsIExcl DEF WriteRest
<1>4. ASSUME NEW w \in Writers, Complete(w) PROVE IExcl'
  <2> SUFFICES ASSUME ~overlapped' PROVE IExcl'
    BY DEF IExcl
  <2>1. ~overlapped /\ wire' = wire /\ appended' = appended
    BY <1>4 DEF Complete, Written
  <2>2. w \in Outstanding
    BY <1>4 DEF Complete, Written, Outstanding
  <2>3. Outstanding' = {}
    <3>1. op' = [op EXCEPT ![w] = Idle]
      BY <1>4 DEF Complete, Written
    <3>2. \A v \in Writers : op'[v].n > 0 => v # w /\ op[v].n > 0
      BY <3>1, IdleType DEF SendTypeOK
    <3>3. \A v \in Outstanding : v = w
      BY <2>1, <2>2 DEF IExcl
    <3> QED BY <3>2, <3>3 DEF Outstanding
  <2>4. Len(wire) = appended
    <3>1. /\ op[w].next = Len(wire) + 1 /\ op[w].next + op[w].left = appended + 1
          /\ op[w].left = 0
      BY <1>4, <2>1, <2>2 DEF IExcl, Complete, Written
    <3> QED BY <3>1 DEF SendTypeOK
  <2> QED BY <2>1, <2>3, <2>4 DEF IExcl
<1>5. CASE UNCHANGED sendVars
  BY <1>5 DEF sendVars, IExcl, Outstanding
<1> QED BY <1>1, <1>2, <1>3, <1>4, <1>5 DEF SendNext

(* Without overlap the pipe carries the frames exactly, in order.           *)
THEOREM ExclusiveIsExact == SendSpec => []ExclusiveExact
<1>1. SendInit => IDrain /\ IdleLeft /\ IExcl
  <2> SUFFICES ASSUME SendInit PROVE IDrain /\ IdleLeft /\ IExcl
    OBVIOUS
  <2>1. \A w \in Writers : op[w].n = 0 /\ op[w].left = 0
    BY IdleType DEF SendInit
  <2>2. Outstanding = {}
    BY <2>1 DEF Outstanding
  <2>3. Len(wire) = 0 /\ appended = 0 /\ consumed = 0
    BY DEF SendInit
  <2> QED BY <2>1, <2>2, <2>3 DEF IDrain, IdleLeft, IExcl
<1>2. SendTypeOK /\ IExcl => ExclusiveExact
  BY DEF IExcl, ExclusiveExact, SendTypeOK
<1>3. SendSpec => [](SendTypeOK /\ IDrain /\ IdleLeft /\ IExcl)
  BY <1>1, SendTypeCorrect, IDrainStep, IdleLeftStep, IExclStep, PTL DEF SendSpec
<1> QED BY <1>2, <1>3, PTL
----------------------------------------------------------------------------
(* A write whose memory was moved puts garbage on the pipe before it ends.  *)
IStale == \A w \in Writers : op[w].stale /\ op[w].left = 0 => OnWire(Garbage)

INothing == IStale /\ NothingLost

(* What is on the pipe stays there.                                         *)
LEMMA OnWireGrows ==
  ASSUME SendTypeOK, NEW o \in Ops, NEW k \in Nat, wire' = wire \o Cells(o, k)
  PROVE  /\ \A c \in Nat : OnWire(c) => OnWire(c)'
         /\ ~o.stale => \A c \in o.next .. (o.next + k - 1) : OnWire(c)'
         /\ o.stale /\ k > 0 => OnWire(Garbage)'
<1>1. wire \in Seq(Nat) /\ Len(wire) \in Nat
  BY DEF SendTypeOK
<1>2. /\ wire' \in Seq(Nat)
      /\ Len(wire') = Len(wire) + k
      /\ \A i \in 1..(Len(wire) + k) :
           wire'[i] = IF i <= Len(wire) THEN wire[i]
                      ELSE IF o.stale THEN 0 ELSE o.next + (i - Len(wire)) - 1
  BY <1>1, WireGrows
<1>3. DOMAIN wire = 1..Len(wire) /\ DOMAIN wire' = 1..(Len(wire) + k)
  BY <1>1, <1>2
<1>4. ASSUME NEW c \in Nat, OnWire(c) PROVE OnWire(c)'
  <2>1. PICK i \in 1..Len(wire) : wire[i] = c
    BY <1>3, <1>4 DEF OnWire
  <2>2. i \in DOMAIN wire' /\ wire'[i] = c
    BY <1>1, <1>2, <1>3, <2>1
  <2> QED BY <2>2 DEF OnWire
<1>5. ASSUME ~o.stale, NEW c \in o.next .. (o.next + k - 1) PROVE OnWire(c)'
  <2> DEFINE i == Len(wire) + (c - o.next) + 1
  <2>1. i \in 1..(Len(wire) + k) /\ ~(i <= Len(wire)) /\ i - Len(wire) = c - o.next + 1
    BY <1>1, SMTT(40) DEF Ops
  <2>2. wire'[i] = IF i <= Len(wire) THEN wire[i]
                      ELSE IF o.stale THEN 0 ELSE o.next + (i - Len(wire)) - 1
    BY <1>2, <2>1
  <2>3. wire'[i] = o.next + (i - Len(wire)) - 1
    BY <2>1, <2>2, <1>5
  <2>4. wire'[i] = c
    BY <2>1, <2>3, SMTT(40) DEF Ops
  <2> QED BY <1>3, <2>1, <2>4 DEF OnWire
<1>6. ASSUME o.stale, k > 0 PROVE OnWire(Garbage)'
  <2> DEFINE i == Len(wire) + 1
  <2>1. i \in 1..(Len(wire) + k) /\ ~(i <= Len(wire))
    BY <1>1, <1>6
  <2>2. wire'[i] = 0
    BY <1>2, <1>6, <2>1
  <2> QED BY <1>3, <2>1, <2>2 DEF OnWire, Garbage
<1> QED BY <1>4, <1>5, <1>6

LEMMA AdvanceKeepsINothing ==
  ASSUME SendTypeOK, IdleLeft, INothing, NEW w \in Writers, NEW k \in 0..op[w].left,
         op' = [op EXCEPT ![w] = Advanced(op[w], k)],
         wire' = wire \o Cells(op[w], k),
         UNCHANGED <<appended, consumed, overlapped>>
  PROVE  INothing'
<1>1. op[w] \in Ops /\ k \in Nat
  BY DEF SendTypeOK, Ops
<1>2. /\ \A c \in Nat : OnWire(c) => OnWire(c)'
      /\ ~op[w].stale => \A c \in op[w].next .. (op[w].next + k - 1) : OnWire(c)'
      /\ op[w].stale /\ k > 0 => OnWire(Garbage)'
  BY <1>1, OnWireGrows
<1>3. /\ op'[w].n = op[w].n
      /\ op'[w].next = op[w].next + k
      /\ op'[w].left = op[w].left - k
      /\ op'[w].stale = op[w].stale
  BY <1>1, AdvancedType DEF SendTypeOK
<1>4. \A v \in Writers \ {w} : op'[v] = op[v]
  OBVIOUS
<1>5. IStale'
  <2> SUFFICES ASSUME NEW v \in Writers, op'[v].stale, op'[v].left = 0
               PROVE  OnWire(Garbage)'
    BY DEF IStale
  <2>1. CASE v = w
    <3>1. op[w].stale /\ op[w].left - k = 0
      BY <1>3, <2>1
    <3>2. CASE k > 0
      BY <1>2, <3>1, <3>2
    <3>3. CASE k = 0
      <4>1. op[w].left = 0
        BY <1>1, <3>1, <3>3 DEF Ops
      <4>2. OnWire(Garbage)
        BY <3>1, <4>1 DEF INothing, IStale
      <4> QED BY <1>2, <4>2 DEF Garbage
    <3> QED BY <1>1, <3>2, <3>3
  <2>2. CASE v # w
    <3>1. OnWire(Garbage)
      BY <1>4, <2>2 DEF INothing, IStale
    <3> QED BY <1>2, <3>1 DEF Garbage
  <2> QED BY <2>1, <2>2
<1>6. NothingLost'
  <2> SUFFICES ASSUME ~OnWire(Garbage)', \A v \in Writers : ~op'[v].stale,
                      NEW c \in 1..appended
               PROVE  OnWire(c)' \/ \E v \in Outstanding' : c \in Remaining(v)'
    BY DEF NothingLost
  <2>1. \A v \in Writers : ~op[v].stale
    BY <1>3, <1>4
  <2>2. ~OnWire(Garbage)
    BY <1>2 DEF Garbage
  <2>3. c \in Nat
    BY DEF SendTypeOK
  <2>4. CASE OnWire(c)
    BY <1>2, <2>3, <2>4
  <2>5. CASE \E v \in Outstanding : c \in Remaining(v)
    <3>1. PICK v \in Outstanding : c \in Remaining(v)
      BY <2>5
    <3>2. CASE v # w
      <4>1. v \in Outstanding' /\ c \in Remaining(v)'
        BY <1>4, <3>1, <3>2 DEF Outstanding, Remaining
      <4> QED BY <4>1
    <3>3. CASE v = w
      <4>1. c \in op[w].next .. (op[w].next + op[w].left - 1)
        BY <3>1, <3>3 DEF Remaining
      <4>2. CASE c < op[w].next + k
        <5>1. c \in op[w].next .. (op[w].next + k - 1)
          BY <1>1, <4>1, <4>2 DEF Ops
        <5> QED BY <1>2, <2>1, <5>1
      <4>3. CASE ~(c < op[w].next + k)
        <5>1. c \in (op[w].next + k) .. ((op[w].next + k) + (op[w].left - k) - 1)
          BY <1>1, <4>1, <4>3 DEF Ops
        <5>2. c \in Remaining(w)'
          BY <1>3, <5>1 DEF Remaining
        <5>3. w \in Outstanding'
          BY <1>3, <3>1, <3>3 DEF Outstanding
        <5> QED BY <5>2, <5>3
      <4> QED BY <4>2, <4>3
    <3> QED BY <3>2, <3>3
  <2> QED BY <2>1, <2>2, <2>4, <2>5 DEF INothing, NothingLost
<1> QED BY <1>5, <1>6 DEF INothing

LEMMA INothingStep ==
  SendTypeOK /\ IdleLeft /\ INothing /\ [SendNext]_sendVars => INothing'
<1> SUFFICES ASSUME SendTypeOK, IdleLeft, INothing, [SendNext]_sendVars
             PROVE  INothing'
  OBVIOUS
<1> USE LengthsAssumption, MaxCellsAssumption
<1>1. ASSUME NEW w \in Writers, NEW len \in Lengths, NEW k \in 0..MaxCells,
             NEW moved \in BOOLEAN, Send(w, len, k, moved)
      PROVE  INothing'
  <2> DEFINE n == appended + len - consumed
             o == [n |-> n, next |-> consumed + 1, left |-> n, stale |-> FALSE]
  <2>1. len \in Nat \ {0} /\ appended \in Nat /\ consumed \in 0..appended /\ k \in Nat
    BY DEF SendTypeOK
  <2>2. n \in Nat \ {0} /\ k \in 0..n
    BY <1>1, <2>1 DEF Send
  <2>3. /\ wire' = wire \o Cells(o, k)
        /\ op'[w] = Advanced(o, k)
        /\ appended' = appended + len
    BY <1>1 DEF Send, SendTypeOK
  <2>4. o \in Ops /\ o.n = n /\ o.next = consumed + 1 /\ o.left = n /\ ~o.stale
    BY <2>1, <2>2 DEF Ops
  <2>5. \A v \in Writers \ {w} : op'[v] = Moved(op[v]) \/ op'[v] = op[v]
    BY <1>1 DEF Send
  <2>6. n = appended + len - consumed
    OBVIOUS
  <2> HIDE DEF n, o
  <2>7. /\ op'[w].n = n /\ op'[w].next = consumed + 1 + k
        /\ op'[w].left = n - k /\ ~op'[w].stale
    BY <2>2, <2>3, <2>4, AdvancedType, SMTT(40)
  <2>8. /\ \A c \in Nat : OnWire(c) => OnWire(c)'
        /\ \A c \in (consumed + 1) .. (consumed + 1 + k - 1) : OnWire(c)'
    BY <2>1, <2>3, <2>4, OnWireGrows
  <2>9. \A v \in Writers \ {w} :
          /\ op'[v].n = op[v].n /\ op'[v].next = op[v].next
          /\ op'[v].left = op[v].left
          /\ op[v].stale => op'[v].stale
          /\ op'[v].stale => op[v].stale \/ op[v].left > 0
    <3>1. ASSUME NEW v \in Writers \ {w} PROVE Moved(op[v]).stale => op[v].stale \/ op[v].left > 0
      BY DEF Moved
    <3> QED BY <2>5, <3>1, MovedType DEF SendTypeOK
  <2>10. IStale'
    <3> SUFFICES ASSUME NEW v \in Writers, op'[v].stale, op'[v].left = 0
                 PROVE  OnWire(Garbage)'
      BY DEF IStale
    <3>1. v # w
      BY <2>7
    <3>2. op[v].left = 0
      BY <2>9, <3>1
    <3>3. op[v].stale
      BY <2>9, <3>1, <3>2
    <3>4. OnWire(Garbage)
      BY <3>2, <3>3 DEF INothing, IStale
    <3> QED BY <2>8, <3>4 DEF Garbage
  <2>11. NothingLost'
    <3> SUFFICES ASSUME ~OnWire(Garbage)', \A v \in Writers : ~op'[v].stale,
                        NEW c \in 1..appended'
                 PROVE  OnWire(c)' \/ \E v \in Outstanding' : c \in Remaining(v)'
      BY DEF NothingLost
    <3>1. c \in Nat /\ c >= 1 /\ c <= appended + len
      BY <2>1, <2>3
    <3>2. CASE c > consumed
      <4>1. CASE c <= consumed + k
        <5>1. c \in (consumed + 1) .. (consumed + 1 + k - 1)
          BY <2>1, <3>1, <3>2, <4>1
        <5> QED BY <2>8, <5>1
      <4>2. CASE ~(c <= consumed + k)
        <5>1. c \in (consumed + 1 + k) .. ((consumed + 1 + k) + (n - k) - 1)
          BY <2>1, <2>2, <2>6, <3>1, <4>2
        <5>2. c \in Remaining(w)'
          BY <2>7, <5>1 DEF Remaining
        <5>3. w \in Outstanding'
          BY <2>2, <2>7 DEF Outstanding
        <5> QED BY <5>2, <5>3
      <4> QED BY <4>1, <4>2
    <3>3. CASE ~(c > consumed)
      <4>1. c \in 1..appended
        BY <2>1, <3>1, <3>3
      <4>2. op[w].n = 0
        BY <1>1 DEF Send
      <4>3. ~OnWire(Garbage)
        BY <2>8 DEF Garbage
      <4>4. \A v \in Writers \ {w} : ~op[v].stale
        BY <2>9
      <4>5. CASE op[w].stale
        BY <4>2, <4>3, <4>5 DEF INothing, IStale, IdleLeft
      <4>6. CASE ~op[w].stale
        <5>1. OnWire(c) \/ \E v \in Outstanding : c \in Remaining(v)
          BY <4>1, <4>3, <4>4, <4>6 DEF INothing, NothingLost
        <5>2. CASE OnWire(c)
          BY <2>8, <3>1, <5>2
        <5>3. CASE \E v \in Outstanding : c \in Remaining(v)
          <6>1. PICK v \in Outstanding : c \in Remaining(v)
            BY <5>3
          <6>2. v # w /\ v \in Writers
            BY <4>2, <6>1 DEF Outstanding
          <6>3. v \in Outstanding' /\ c \in Remaining(v)'
            BY <2>9, <6>1, <6>2 DEF Outstanding, Remaining
          <6> QED BY <6>3
        <5> QED BY <5>1, <5>2, <5>3
      <4> QED BY <4>5, <4>6
    <3> QED BY <3>2, <3>3
  <2> QED BY <2>10, <2>11 DEF INothing
<1>2. ASSUME NEW k \in 1..MaxCells, Transfer(k) PROVE INothing'
  <2>1. PICK w \in Writers : /\ k \in 1..op[w].left
                             /\ wire' = wire \o Cells(op[w], k)
                             /\ op' = [op EXCEPT ![w] = Advanced(op[w], k)]
    BY <1>2, HeadTailProperties DEF Transfer, SendTypeOK
  <2>2. k \in 0..op[w].left
    BY <2>1 DEF SendTypeOK, Ops
  <2> QED BY <1>2, <2>1, <2>2, AdvanceKeepsINothing DEF Transfer
<1>3. ASSUME NEW w \in Writers, NEW k \in 0..MaxCells, WriteRest(w, k)
      PROVE  INothing'
  BY <1>3, AdvanceKeepsINothing DEF WriteRest
<1>4. ASSUME NEW w \in Writers, Complete(w) PROVE INothing'
  <2>1. /\ op' = [op EXCEPT ![w] = Idle] /\ wire' = wire /\ appended' = appended
        /\ op[w].left = 0
    BY <1>4 DEF Complete, Written
  <2>2. \A c : OnWire(c)' <=> OnWire(c)
    BY <2>1 DEF OnWire
  <2>3. op'[w] = Idle /\ \A v \in Writers \ {w} : op'[v] = op[v]
    BY <2>1 DEF SendTypeOK
  <2>4. ~Idle.stale
    BY DEF Idle
  <2>5. IStale'
    BY <2>2, <2>3, <2>4 DEF INothing, IStale
  <2>6. NothingLost'
    <3> SUFFICES ASSUME ~OnWire(Garbage)', \A v \in Writers : ~op'[v].stale,
                        NEW c \in 1..appended
                 PROVE  OnWire(c)' \/ \E v \in Outstanding' : c \in Remaining(v)'
      BY <2>1 DEF NothingLost
    <3>1. ~op[w].stale
      BY <2>1, <2>2 DEF INothing, IStale
    <3>2. \A v \in Writers : ~op[v].stale
      BY <2>3, <3>1
    <3>3. CASE OnWire(c)
      BY <2>2, <3>3
    <3>4. CASE \E v \in Outstanding : c \in Remaining(v)
      <4>1. PICK v \in Outstanding : c \in Remaining(v)
        BY <3>4
      <4>2. v # w
        <5>1. op[w].next \in Nat /\ c \in Nat
          BY DEF SendTypeOK, Ops
        <5> QED BY <2>1, <4>1, <5>1 DEF Remaining
      <4>3. v \in Outstanding' /\ c \in Remaining(v)'
        BY <2>3, <4>1, <4>2 DEF Outstanding, Remaining
      <4> QED BY <4>3
    <3> QED BY <2>2, <3>2, <3>3, <3>4 DEF INothing, NothingLost
  <2> QED BY <2>5, <2>6 DEF INothing
<1>5. CASE UNCHANGED sendVars
  BY <1>5 DEF sendVars, INothing, IStale, NothingLost, OnWire, Outstanding, Remaining
<1> QED BY <1>1, <1>2, <1>3, <1>4, <1>5 DEF SendNext

(* Overlapping sends repeat bytes but lose none.                            *)
THEOREM NothingIsLost == SendSpec => []NothingLost
<1>1. SendInit => IdleLeft /\ INothing
  <2> SUFFICES ASSUME SendInit PROVE IdleLeft /\ INothing
    OBVIOUS
  <2>1. \A w \in Writers : op[w] = Idle
    BY DEF SendInit
  <2>2. ~Idle.stale /\ Idle.left = 0
    BY DEF Idle
  <2>3. 1..appended = {}
    BY DEF SendInit
  <2> QED BY <2>1, <2>2, <2>3 DEF IdleLeft, INothing, IStale, NothingLost
<1>2. SendSpec => [](SendTypeOK /\ IdleLeft /\ INothing)
  BY <1>1, SendTypeCorrect, IdleLeftStep, INothingStep, PTL DEF SendSpec
<1> QED BY <1>2, PTL DEF INothing
============================================================================
