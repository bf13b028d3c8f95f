------------------------------ MODULE VirtioTx ------------------------------
(***************************************************************************)
(* The transmit queue of the VirtIO console of the bare-metal runtime      *)
(* (core/virtio_console.c, core/inc/virtio_queue.h,                        *)
(* core/inc/virtio_memory_pool.h).                                         *)
(* A core that sends a message takes a descriptor off the free list and    *)
(* memory out of a pool, and hands both to the backend.  The interrupt     *)
(* handler gives them back when the backend has used them.  The lock       *)
(* tx_lock is held by those who send, and not taken by the handler, which  *)
(* may run on the core that sends, between any two of its steps, or on     *)
(* another one.                                                            *)
(*                                                                         *)
(* A message is a number m: its text is m bytes of value m.  The two rings *)
(* are the sequences of what one end has written and the other has not     *)
(* read.                                                                   *)
(* An operator marked Fault is a slip the checks must notice: it stands    *)
(* next to the operator it may replace, and no action uses it.             *)
(***************************************************************************)
EXTENDS Integers, Sequences, Functions

CONSTANTS
  Cores,         (* The cores that send.                                   *)
  IrqCore,       (* The core that takes the interrupt of the console.      *)
  QSize,         (* VIRTQ_SIZE                                             *)
  PoolSize,      (* VIRTQ_MEMORY_POOL_SIZE                                 *)
  Messages,      (* The messages, which are the lengths of their texts.    *)
  EarlyReturns   (* What may make receive return before it gets here.      *)

Descs  == 0..(QSize - 1)
Addrs  == 0..(PoolSize - 1)
NoCore == -1

ASSUME ConstantsAssumption ==
  /\ NoCore \notin Cores
  /\ QSize \in Nat \ {0}
  /\ PoolSize \in Nat \ {0}
  /\ Messages \subseteq Nat \ {0}
  /\ EarlyReturns \subseteq {"config", "overflow"}

VARIABLES
  lock,          (* tx_lock: who holds it.                                 *)
  pc, msg, id, addr, count,   (* Where that core is, and its locals.       *)
  nextFree,      (* desc_next_free                                         *)
  numFree,       (* desc_num_free                                          *)
  next,          (* desc[d].next                                           *)
  buf,           (* desc[d].addr and desc[d].len                           *)
  avail, used,   (* What is in the two rings.                              *)
  taken,         (* What the backend is working on, at most one message.   *)
  pool, offset,  (* The memory pool: a byte that is not zero is taken.     *)
  out,           (* The text the backend has read last.                    *)
  status,        (* InterruptStatus                                        *)
  hpc, hid, hcount,           (* The locals of virtio_console_receive.     *)
  cut,           (* History: its last call has returned early.             *)
  leaked,        (* History: descriptors given to nobody.                  *)
  raced,         (* History: the handler and a sender got in each other's  *)
                 (* way.                                                   *)
  erased,        (* History: a byte in use has been overwritten.           *)
  longest        (* History: the longest message there was.                *)

coreVars  == << lock, pc, msg, id, addr, count >>
listVars  == << nextFree, numFree, next >>
poolVars  == << pool, offset >>
otherEnd  == << taken, out, status >>
irqVars   == << hpc, hid, hcount, cut >>
histVars  == << leaked, raced, erased, longest >>
vars == << coreVars, listVars, buf, avail, used, poolVars, otherEnd,
           irqVars, histVars >>

Text(d) == [i \in 1..buf[d].len |-> pool[buf[d].addr + i - 1]]

Init ==
  /\ lock = NoCore
  /\ pc = "idle"
  /\ msg = 0
  /\ id = 0
  /\ addr = 0
  /\ count = 0
  /\ nextFree = 0
  /\ numFree = QSize
  /\ next = [d \in Descs |-> IF d = QSize - 1 THEN 0 ELSE d + 1]
  /\ buf = [d \in Descs |-> [addr |-> 0, len |-> 0]]
  /\ avail = << >>
  /\ used = << >>
  /\ taken = << >>
  /\ pool = [a \in Addrs |-> 0]
  /\ offset = 0
  /\ out = << >>
  /\ status = {}
  /\ hpc = "idle"
  /\ hid = 0
  /\ hcount = 0
  /\ cut = FALSE
  /\ leaked = {}
  /\ raced = FALSE
  /\ erased = FALSE
  /\ longest = 0

-----------------------------------------------------------------------------
(* virtio_console_transmit.  The handler preempts the core it runs on.     *)
(* A store to what the other side has loaded, and is about to store or to  *)
(* use, sets raced: SetHead and Unlink for the head of the list, CountUp   *)
(* and CountDown for its counter, Copy for the descriptor (l.336, l.356).  *)

Preempted(c) == c = IrqCore /\ hpc # "idle"
Step(from)   == pc = from /\ ~ Preempted(lock)

(* The bound of the model.  What a list that is broken hands out, and the  *)
(* entries of a ring that holds more than its size, are not modelled: once *)
(* they have raced the messages under way are finished and none is sent.   *)
SendsUntilRaced == ~ raced

Enter(c) ==
  /\ ~ Preempted(c)
  /\ lock = NoCore
  /\ SendsUntilRaced
  /\ lock' = c
  /\ \E m \in Messages :
       /\ msg' = m
       /\ longest' = IF m > longest THEN m ELSE longest
  /\ pc' = "get"
  /\ UNCHANGED << id, addr, count, listVars, buf, avail, used, poolVars,
                  otherEnd, irqVars, leaked, raced, erased >>

(* virtq_get_free_desc_id in three steps: a core can lose the processor,   *)
(* or another can come in, between the loads and the stores.  A core whose *)
(* assertion fails ends in _exit, with the lock.                           *)
NoCheck     == TRUE                      (* Fault: the assertion is gone.  *)
HasFreeSlot == numFree # 0

GetFree ==
  /\ Step("get")
  /\ IF HasFreeSlot
     THEN pc' = "unlink" /\ id' = nextFree
     ELSE pc' = "halted" /\ UNCHANGED id
  /\ UNCHANGED << lock, msg, addr, count, listVars, buf, avail, used,
                  poolVars, otherEnd, irqVars, histVars >>

Successor(d) == next[d]

Uncounted == count                       (* Fault: the decrement is gone.  *)
OneLess   == count - 1

Unlink ==
  /\ Step("unlink")
  /\ nextFree' = Successor(id)
  /\ count' = numFree
  /\ pc' = "count"
  /\ raced' = (raced \/ hpc = "head")
  /\ UNCHANGED << lock, msg, id, addr, numFree, next, buf, avail, used,
                  poolVars, otherEnd, irqVars, leaked, erased, longest >>

CountDown ==
  /\ Step("count")
  /\ numFree' = OneLess
  /\ pc' = "alloc"
  /\ raced' = (raced \/ hpc = "add")
  /\ UNCHANGED << lock, msg, id, addr, count, nextFree, next, buf, avail,
                  used, poolVars, otherEnd, irqVars, leaked, erased, longest >>

(* virtio_memory_pool_alloc: behind what was allocated last, or at the     *)
(* start of the pool when that does not fit, and nowhere else.             *)
Nowhere == -1
FreeAt(a, size) == \A i \in a..(a + size - 1) : pool[i] = 0

Place(size) ==
  IF offset + size <= PoolSize
  THEN IF FreeAt(offset, size) THEN offset ELSE Nowhere
  ELSE IF size <= offset /\ FreeAt(0, size) THEN 0 ELSE Nowhere

Unlock == lock' = NoCore /\ pc' = "idle"

KeptOffset == offset                     (* Fault: the offset stays.       *)
NextOffset == Place(msg) + msg

(* A message that finds no memory is dropped, and its descriptor with it.  *)
Alloc ==
  /\ Step("alloc")
  /\ IF Place(msg) # Nowhere
     THEN /\ addr' = Place(msg)
          /\ offset' = NextOffset
          /\ pc' = "copy"
          /\ UNCHANGED << lock, leaked >>
     ELSE /\ leaked' = leaked \union {id}
          /\ Unlock
          /\ UNCHANGED << addr, offset >>
  /\ UNCHANGED << msg, id, count, listVars, buf, avail, used, pool,
                  otherEnd, irqVars, raced, erased, longest >>

(* strcpy writes the byte zero behind the text; virtq_desc_init.           *)
Copied ==
  [a \in Addrs |->
     IF a \in addr..(addr + msg - 1) THEN msg
     ELSE IF a = addr + msg THEN 0
     ELSE pool[a]]

Erases == addr + msg \in Addrs /\ pool[addr + msg] # 0

Copy ==
  /\ Step("copy")
  /\ pool' = Copied
  /\ erased' = (erased \/ Erases)
  /\ buf' = [buf EXCEPT ![id] = [addr |-> addr, len |-> msg]]
  /\ next' = [next EXCEPT ![id] = 0]
  /\ pc' = "publish"
  /\ raced' = (raced \/ (hpc \in {"add", "free"} /\ hid = id))
  /\ UNCHANGED << lock, msg, id, addr, count, nextFree, numFree, avail, used,
                  offset, otherEnd, irqVars, leaked, longest >>

InFront(seq, d) == << d >> \o seq        (* Fault: the newest goes first.  *)
Behind(seq, d)  == Append(seq, d)

Publish ==
  /\ Step("publish")
  /\ avail' = Behind(avail, id)
  /\ Unlock
  /\ UNCHANGED << msg, id, addr, count, listVars, buf, used, poolVars,
                  otherEnd, irqVars, histVars >>

Transmit ==
  GetFree \/ Unlink \/ CountDown \/ Alloc \/ Copy \/ Publish

-----------------------------------------------------------------------------
(* The backend takes the messages in order.                                *)

Take ==
  /\ taken = << >>
  /\ avail # << >>
  /\ taken' = << Head(avail) >>
  /\ avail' = Tail(avail)
  /\ out' = Text(Head(avail))
  /\ UNCHANGED << coreVars, listVars, buf, used, poolVars, status, irqVars,
                  histVars >>

Complete ==
  /\ taken # << >>
  /\ used' = Append(used, Head(taken))
  /\ taken' = << >>
  /\ status' = status \union {"vring"}
  /\ UNCHANGED << coreVars, listVars, buf, avail, poolVars, out, irqVars,
                  histVars >>

ConfigChange ==
  /\ "config" \in EarlyReturns
  /\ status' = status \union {"config"}
  /\ UNCHANGED << coreVars, listVars, buf, avail, used, poolVars, taken, out,
                  irqVars, histVars >>

-----------------------------------------------------------------------------
(* virtio_console_receive.  It acknowledges all there is, and returns when *)
(* the configuration has changed, or when the messages received, which it  *)
(* goes through first, do not fit the receive buffer (module VirtioRx).    *)

Interrupt ==
  /\ hpc = "idle"
  /\ status # {}
  /\ status' = {}
  /\ \/ "config" \notin status /\ hpc' = "scan"
     \/ "config" \in status /\ UNCHANGED hpc
     \/ "overflow" \in EarlyReturns /\ UNCHANGED hpc
  /\ cut' = (hpc' = "idle")
  /\ UNCHANGED << coreVars, listVars, buf, avail, used, poolVars, taken, out,
                  hid, hcount, histVars >>

(* virtq_get_used_buf_id; virtq_put_free_desc begins with an assertion.    *)
GetUsed ==
  /\ hpc = "scan"
  /\ IF used = << >>
     THEN hpc' = "idle" /\ UNCHANGED << used, hid >>
     ELSE /\ hid' = Head(used)
          /\ used' = Tail(used)
          /\ hpc' = IF numFree < QSize THEN "link" ELSE "halted"
  /\ UNCHANGED << coreVars, listVars, buf, avail, poolVars, otherEnd, hcount,
                  cut, histVars >>

Link ==
  /\ hpc = "link"
  /\ next' = [next EXCEPT ![hid] = nextFree]
  /\ hpc' = "head"
  /\ UNCHANGED << coreVars, nextFree, numFree, buf, avail, used, poolVars,
                  otherEnd, hid, hcount, cut, histVars >>

SetHead ==
  /\ hpc = "head"
  /\ nextFree' = hid
  /\ hcount' = numFree
  /\ hpc' = "add"
  /\ raced' = (raced \/ pc = "unlink")
  /\ UNCHANGED << coreVars, numFree, next, buf, avail, used, poolVars,
                  otherEnd, hid, cut, leaked, erased, longest >>

CountUp ==
  /\ hpc = "add"
  /\ numFree' = hcount + 1
  /\ hpc' = "free"
  /\ raced' = (raced \/ pc = "count")
  /\ UNCHANGED << coreVars, nextFree, next, buf, avail, used, poolVars,
                  otherEnd, hid, hcount, cut, leaked, erased, longest >>

OneEach    == "idle"                     (* Fault: an if for the while.    *)
NextBuffer == "scan"

(* virtio_memory_pool_free, of what the descriptor says now.               *)
Freed(d) == buf[d].addr..(buf[d].addr + buf[d].len - 1)

Free ==
  /\ hpc = "free"
  /\ pool' = [a \in Addrs |-> IF a \in Freed(hid) THEN 0 ELSE pool[a]]
  /\ hpc' = NextBuffer
  /\ UNCHANGED << coreVars, listVars, buf, avail, used, offset, otherEnd,
                  hid, hcount, cut, histVars >>

Receive == GetUsed \/ Link \/ SetHead \/ CountUp \/ Free

-----------------------------------------------------------------------------
Next ==
  \/ \E c \in Cores : Enter(c)
  \/ Transmit
  \/ Take \/ Complete \/ ConfigChange
  \/ Interrupt \/ Receive

(* A core goes on with what it has begun, the backend serves its queue,    *)
(* and an interrupt is taken.                                              *)
Fairness ==
  /\ WF_vars(Transmit)
  /\ WF_vars(Take)
  /\ WF_vars(Complete)
  /\ WF_vars(Interrupt)
  /\ WF_vars(Receive)

Spec == Init /\ [][Next]_vars /\ Fairness

-----------------------------------------------------------------------------
TypeOK ==
  /\ lock \in Cores \union {NoCore}
  /\ pc \in {"idle", "get", "unlink", "count", "alloc", "copy", "publish",
             "halted"}
  /\ msg \in Messages \union {0}
  /\ id \in Descs
  /\ addr \in Addrs
  /\ count \in 0..QSize
  /\ nextFree \in Descs
  /\ numFree \in 0..QSize
  /\ next \in [Descs -> Descs]
  /\ buf \in [Descs -> [addr : Addrs, len : Messages \union {0}]]
  /\ avail \in Seq(Descs)
  /\ used \in Seq(Descs)
  /\ taken \in {<< >>} \union {<< d >> : d \in Descs}
  /\ pool \in [Addrs -> Messages \union {0}]
  /\ offset \in 0..PoolSize
  /\ status \in SUBSET {"vring", "config"}
  /\ hpc \in {"idle", "scan", "link", "head", "add", "free", "halted"}
  /\ hid \in Descs
  /\ hcount \in 0..QSize
  /\ cut \in BOOLEAN
  /\ leaked \in SUBSET Descs
  /\ raced \in BOOLEAN
  /\ erased \in BOOLEAN
  /\ longest \in Messages \union {0}

(* Who has a descriptor that is not on the free list.                      *)
Held        == IF pc \in {"count", "alloc", "copy", "publish"} THEN {id} ELSE {}
Returning   == IF hpc \in {"link", "head"} THEN {hid} ELSE {}
Outstanding == Range(avail) \union Range(taken) \union Range(used)
               \union Held \union Returning \union leaked

(* The length of the list, while the counter is about to follow it.        *)
ListLength ==
  numFree + (IF hpc = "add" THEN 1 ELSE 0) - (IF pc = "count" THEN 1 ELSE 0)

(* The list of the n descriptors S that begins with head, linked by links. *)
IsList(f, n, S, head, links) ==
  /\ \A d \in S : \E k \in 0..(n - 1) : f[k] = d
  /\ \A j, k \in 0..(n - 1) : f[j] = f[k] => j = k
  /\ n > 0 => head = f[0]
  /\ \A k \in 0..(n - 2) : links[f[k]] = f[k + 1]

Listed(n, S, head, links) ==
  \E f \in [0..(n - 1) -> S] : IsList(f, n, S, head, links)

(* The free list holds exactly the descriptors that are not in flight,     *)
(* each of them once, and the counter that guards it is its length, until  *)
(* the handler and a sender have got in each other's way (get and put of   *)
(* virtio_queue.h, which nothing synchronises): no other step of the two   *)
(* spoils the list, in whatever order they come.                           *)
FreeListExact ==
  raced \/ Listed(ListLength, Descs \ Outstanding, nextFree, next)

(* "assert(vq->desc_num_free < VIRTQ_SIZE)" when a descriptor comes back.  *)
RoomWhenPut == hpc # "halted"

(* As long as what was sent would fit the pool twice more than there are   *)
(* descriptors, no message fails to find memory, so that no descriptor is  *)
(* lost, and none overwrites another with the zero byte behind its text,   *)
(* although the pool is searched for zeros (virtio_memory_pool_alloc).     *)
TooLong == (QSize + 2) * longest > PoolSize

PoolServes == leaked # {} \/ erased => raced \/ TooLong

(* The console keeps the promise of ConsoleChannel: what the backend reads *)
(* are the texts that were sent, whole, once each and in their order, and  *)
(* nothing that happens in the pool while they wait changes them; unless a *)
(* zero byte was written over one, or the race has come about.             *)
Channel == INSTANCE ConsoleChannel WITH
  Texts <- {[i \in 1..m |-> m] : m \in Messages},
  queue <- [k \in DOMAIN avail |-> Text(avail[k])],
  broken <- raced \/ erased

KeepsPromise == Channel!Spec

(* Every descriptor the backend has used is given back, unless the last    *)
(* call of virtio_console_receive returned early or failed in its          *)
(* assertion: an interrupt that was acknowledged is not raised again.      *)
UsedAreReclaimed ==
  \A d \in Descs :
    (d \in Range(used)) ~> (d \notin Range(used) \/ cut \/ hpc = "halted")
=============================================================================
