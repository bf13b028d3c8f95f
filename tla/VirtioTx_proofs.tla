--------------------------- MODULE VirtioTx_proofs ---------------------------
(***************************************************************************)
(* For any number of cores and descriptors, any pool and any messages, and *)
(* for every order of the steps of senders, handler and backend: the       *)
(* variables keep their types, and the free list of the transmit queue     *)
(* holds exactly the descriptors nobody else has, until a store has met    *)
(* one of the five loads that raced records.                               *)
(***************************************************************************)
EXTENDS VirtioTx, TLAPS, FiniteSetTheorems

-----------------------------------------------------------------------------
(* Sequences and the sets of their elements                                *)

Once(s) == \A i, j \in DOMAIN s : s[i] = s[j] => i = j

(* Appending adds one element, and no second copy of a new one             *)
(* (virtq_add_avail_buf, and the used ring of the backend).                *)
LEMMA RangeOfAppend ==
  ASSUME NEW S, NEW s \in Seq(S), NEW d \in S
  PROVE  /\ Append(s, d) \in Seq(S)
         /\ Range(Append(s, d)) = Range(s) \union {d}
         /\ Once(s) /\ d \notin Range(s) => Once(Append(s, d))
<1> DEFINE t == Append(s, d)
<1>1. /\ t \in Seq(S)
      /\ DOMAIN t = 1..(Len(s) + 1)
      /\ DOMAIN s = 1..Len(s)
      /\ Len(s) \in Nat
      /\ t[Len(s) + 1] = d
      /\ \A i \in 1..Len(s) : t[i] = s[i]
  OBVIOUS
<1>2. Range(t) = Range(s) \union {d}
  <2>1. \A x : x \in Range(t) => x \in Range(s) \union {d}
    BY <1>1 DEF Range
  <2>2. \A x : x \in Range(s) => x \in Range(t)
    BY <1>1 DEF Range
  <2>3. d \in Range(t)
    BY <1>1 DEF Range
  <2> QED
    BY <2>1, <2>2, <2>3
<1>3. Once(s) /\ d \notin Range(s) => Once(t)
  <2> HIDE DEF t
  <2> QED
    BY <1>1 DEF Range, Once
<1> QED
  BY <1>1, <1>2, <1>3

(* Taking the first element leaves the others                              *)
(* (virtq_get_used_buf_id, and the available ring of the backend).         *)
LEMMA RangeOfTail ==
  ASSUME NEW S, NEW s \in Seq(S), s # << >>
  PROVE  /\ Tail(s) \in Seq(S)
         /\ Head(s) \in S
         /\ Range(s) = Range(Tail(s)) \union {Head(s)}
         /\ Once(s) => Once(Tail(s)) /\ Head(s) \notin Range(Tail(s))
<1> DEFINE t == Tail(s)
<1>1. /\ t \in Seq(S)
      /\ Len(s) \in Nat /\ Len(s) > 0
      /\ DOMAIN s = 1..Len(s)
      /\ DOMAIN t = 1..(Len(s) - 1)
      /\ \A i \in 1..(Len(s) - 1) : t[i] = s[i + 1]
      /\ Head(s) = s[1] /\ s[1] \in S
  OBVIOUS
<1>2. \A i \in 2..Len(s) : i - 1 \in DOMAIN t /\ t[i - 1] = s[i]
  BY <1>1
<1>3. Range(s) = Range(t) \union {Head(s)}
  <2> HIDE DEF t
  <2>1. \A x : x \in Range(s) => x \in Range(t) \union {s[1]}
    <3> SUFFICES ASSUME NEW i \in DOMAIN s, i # 1  PROVE s[i] \in Range(t)
      BY DEF Range
    <3>1. i \in 2..Len(s)
      BY <1>1
    <3> QED
      BY <3>1, <1>2 DEF Range
  <2>2. \A x : x \in Range(t) => x \in Range(s)
    BY <1>1 DEF Range
  <2>3. s[1] \in Range(s)
    BY <1>1 DEF Range
  <2> QED
    BY <1>1, <2>1, <2>2, <2>3
<1>4. ASSUME Once(s)  PROVE Once(t) /\ Head(s) \notin Range(t)
  <2> HIDE DEF t
  <2> QED
    BY <1>1, <1>4 DEF Once, Range
<1> QED
  BY <1>1, <1>3, <1>4

-----------------------------------------------------------------------------
(* Lists                                                                   *)

(* Without its first element a list is the list of the others, and begins  *)
(* with the second (virtq_get_free_desc_id).                               *)
LEMMA ListWithoutHead ==
  ASSUME NEW n \in Nat, n > 0, NEW S, NEW head, NEW links,
         Listed(n, S, head, links)
  PROVE  head \in S /\ Listed(n - 1, S \ {head}, links[head], links)
<1>1. PICK f \in [0..(n - 1) -> S] : IsList(f, n, S, head, links)
  BY DEF Listed
<1> DEFINE g == [k \in 0..(n - 2) |-> f[k + 1]]
<1>2. 0 \in 0..(n - 1) /\ head = f[0] /\ head \in S
  BY <1>1 DEF IsList
<1>3. \A k \in 0..(n - 2) : k + 1 \in 0..(n - 1) /\ f[k + 1] \in S \ {head}
  BY <1>1, <1>2 DEF IsList
<1>4. g \in [0..((n - 1) - 1) -> S \ {head}]
  BY <1>3
<1>5. IsList(g, n - 1, S \ {head}, links[head], links)
  <2>1. \A d \in S \ {head} : \E k \in 0..((n - 1) - 1) : g[k] = d
    <3> SUFFICES ASSUME NEW d \in S \ {head}
                 PROVE  \E k \in 0..(n - 2) : g[k] = d
      OBVIOUS
    <3>1. PICK j \in 0..(n - 1) : f[j] = d
      BY <1>1 DEF IsList
    <3>2. j - 1 \in 0..(n - 2) /\ (j - 1) + 1 = j
      BY <3>1, <1>2
    <3> QED
      BY <3>1, <3>2
  <2>2. \A j, k \in 0..((n - 1) - 1) : g[j] = g[k] => j = k
    <3> SUFFICES ASSUME NEW j \in 0..(n - 2), NEW k \in 0..(n - 2),
                        f[j + 1] = f[k + 1]
                 PROVE  j = k
      OBVIOUS
    <3>1. j + 1 = k + 1
      BY <1>1, <1>3 DEF IsList
    <3> QED
      BY <3>1
  <2>3. n - 1 > 0 => links[head] = g[0]
    <3> SUFFICES ASSUME n > 1  PROVE links[head] = f[1]
      OBVIOUS
    <3>1. 0 \in 0..(n - 2)
      OBVIOUS
    <3>2. links[f[0]] = f[0 + 1]
      BY <3>1, <1>1 DEF IsList
    <3> QED
      BY <3>2, <1>2
  <2>4. \A k \in 0..((n - 1) - 2) : links[g[k]] = g[k + 1]
    <3> SUFFICES ASSUME NEW k \in 0..(n - 3)
                 PROVE  links[f[k + 1]] = f[(k + 1) + 1]
      OBVIOUS
    <3>1. k + 1 \in 0..(n - 2)
      OBVIOUS
    <3> QED
      BY <3>1, <1>1 DEF IsList
  <2> HIDE DEF g
  <2> QED
    BY <2>1, <2>2, <2>3, <2>4 DEF IsList
<1> QED
  BY <1>2, <1>4, <1>5 DEF Listed

(* A new element linked to the head makes a longer list                    *)
(* (virtq_put_free_desc).                                                  *)
LEMMA ListWithHead ==
  ASSUME NEW n \in Nat, NEW S, NEW head, NEW links, NEW d,
         d \notin S, n > 0 => links[d] = head,
         Listed(n, S, head, links)
  PROVE  Listed(n + 1, S \union {d}, d, links)
<1>1. PICK f \in [0..(n - 1) -> S] : IsList(f, n, S, head, links)
  BY DEF Listed
<1> DEFINE g == [k \in 0..n |-> IF k = 0 THEN d ELSE f[k - 1]]
<1>2. \A k \in 1..n : k - 1 \in 0..(n - 1) /\ f[k - 1] \in S
  OBVIOUS
<1>3. g \in [0..((n + 1) - 1) -> S \union {d}]
  BY <1>2
<1>4. IsList(g, n + 1, S \union {d}, d, links)
  <2>0. 0 \in 0..n /\ g[0] = d
    OBVIOUS
  <2>1. \A e \in S \union {d} : \E k \in 0..((n + 1) - 1) : g[k] = e
    <3> SUFFICES ASSUME NEW e \in S  PROVE \E k \in 0..n : g[k] = e
      BY <2>0
    <3>1. PICK j \in 0..(n - 1) : f[j] = e
      BY <1>1 DEF IsList
    <3>2. j + 1 \in 0..n /\ j + 1 # 0 /\ (j + 1) - 1 = j
      BY <3>1
    <3> QED
      BY <3>1, <3>2
  <2>2. \A j, k \in 0..((n + 1) - 1) : g[j] = g[k] => j = k
    <3> SUFFICES ASSUME NEW j \in 0..n, NEW k \in 0..n, g[j] = g[k]
                 PROVE  j = k
      OBVIOUS
    <3>1. CASE j = 0 \/ k = 0
      BY <3>1, <1>2
    <3>2. CASE j # 0 /\ k # 0
      <4>1. j - 1 \in 0..(n - 1) /\ k - 1 \in 0..(n - 1)
        BY <3>2
      <4>2. f[j - 1] = f[k - 1]
        BY <3>2
      <4>3. j - 1 = k - 1
        BY <4>1, <4>2, <1>1 DEF IsList
      <4> QED
        BY <4>3
    <3> QED
      BY <3>1, <3>2
  <2>3. n + 1 > 0 => d = g[0]
    BY <2>0
  <2>4. \A k \in 0..((n + 1) - 2) : links[g[k]] = g[k + 1]
    <3> SUFFICES ASSUME NEW k \in 0..(n - 1)  PROVE links[g[k]] = g[k + 1]
      BY (n + 1) - 2 = n - 1
    <3>1. k + 1 \in 1..n /\ (k + 1) - 1 = k
      OBVIOUS
    <3>2. g[k + 1] = f[k]
      BY <3>1
    <3>3. CASE k = 0
      <4>1. n > 0 /\ links[d] = head /\ head = f[0]
        BY <3>3, <1>1 DEF IsList
      <4> QED
        BY <4>1, <3>2, <3>3, <2>0
    <3>4. CASE k # 0
      <4>1. k - 1 \in 0..(n - 2) /\ (k - 1) + 1 = k
        BY <3>4
      <4>2. links[f[k - 1]] = f[k]
        BY <4>1, <1>1 DEF IsList
      <4>3. g[k] = f[k - 1]
        BY <3>4
      <4> QED
        BY <4>2, <4>3, <3>2
    <3> QED
      BY <3>3, <3>4
  <2> HIDE DEF g
  <2> QED
    BY <2>1, <2>2, <2>3, <2>4 DEF IsList
<1> QED
  BY <1>3, <1>4 DEF Listed

(* A link outside the list does not matter to it                           *)
(* (virtq_desc_init clears the link of a descriptor in flight).            *)
LEMMA ListElsewhere ==
  ASSUME NEW n \in Nat, NEW S, NEW head, NEW links, NEW newLinks,
         \A d \in S : newLinks[d] = links[d],
         Listed(n, S, head, links)
  PROVE  Listed(n, S, head, newLinks)
<1>1. PICK f \in [0..(n - 1) -> S] : IsList(f, n, S, head, links)
  BY DEF Listed
<1>2. \A k \in 0..(n - 2) : k \in 0..(n - 1) /\ f[k] \in S
  OBVIOUS
<1>3. IsList(f, n, S, head, newLinks)
  BY <1>1, <1>2 DEF IsList
<1> QED
  BY <1>3 DEF Listed

(* A list of all descriptors leaves none out.                              *)
LEMMA LongListIsComplete ==
  ASSUME ConstantsAssumption, NEW S \in SUBSET Descs, NEW head, NEW links,
         Listed(QSize, S, head, links)
  PROVE  S = Descs
<1>1. PICK f \in [0..(QSize - 1) -> S] : IsList(f, QSize, S, head, links)
  BY DEF Listed
<1>2. QSize \in Nat
  BY DEF ConstantsAssumption
<1>3. IsFiniteSet(Descs) /\ Cardinality(Descs) = QSize
  BY <1>2, FS_Interval DEF Descs
<1>4. f \in Injection(Descs, S)
  BY <1>1 DEF IsList, Descs, Injection, IsInjective
<1>5. IsFiniteSet(S) /\ Cardinality(S) <= Cardinality(Descs)
      /\ (Cardinality(S) = Cardinality(Descs) => S = Descs)
  BY <1>3, FS_Subset
<1>6. Cardinality(Descs) <= Cardinality(S)
  BY <1>3, <1>4, <1>5, FS_Injection
<1>7. Cardinality(S) \in Nat
  BY <1>5, FS_CardinalityType
<1> QED
  BY <1>2, <1>3, <1>5, <1>6, <1>7

-----------------------------------------------------------------------------
(* The invariant                                                           *)

(* What holds whatever the two sides do to each other: the counters stay   *)
(* between their bounds from one load of them to the store that follows.   *)
Bounded ==
  /\ pc = "idle" <=> lock = NoCore
  /\ pc \notin {"idle", "halted"} => msg \in Messages
  /\ pc = "unlink" => numFree > 0
  /\ pc = "count" => count > 0
  /\ hpc \in {"link", "head"} => numFree < QSize
  /\ hpc = "add" => hcount < QSize

(* Until they have raced, what either side has read of the counter and of  *)
(* the list still holds when it uses it.                                   *)
Loaded ==
  /\ pc = "unlink" => id = nextFree
  /\ pc = "count" => count = numFree
  /\ hpc = "head" => next[hid] = nextFree
  /\ hpc = "add" => hcount = numFree
  /\ hpc # "halted"

(* A descriptor that is not free has one holder.                           *)
Others == Held \union Returning \union leaked

OneHolder ==
  /\ Once(avail) /\ Once(used)
  /\ Range(avail) \intersect Range(taken) = {}
  /\ Range(avail) \intersect Range(used) = {}
  /\ Range(taken) \intersect Range(used) = {}
  /\ Others \intersect (Range(avail) \union Range(taken) \union Range(used)) = {}
  /\ Held \intersect Returning = {}
  /\ (Held \union Returning) \intersect leaked = {}

Exact == Listed(ListLength, Descs \ Outstanding, nextFree, next)

Sound == Loaded /\ OneHolder /\ Exact

IInv == TypeOK /\ Bounded /\ (raced \/ Sound)

(* The console begins with all descriptors free (virtq_init).              *)
LEMMA InitIInv ==
  ASSUME ConstantsAssumption, Init
  PROVE  IInv
<1>1. TypeOK
  <2>1. QSize \in Nat /\ QSize > 0 /\ PoolSize \in Nat /\ PoolSize > 0
    BY DEF ConstantsAssumption
  <2>2. /\ 0 \in Descs /\ 0 \in Addrs /\ 0 \in 0..QSize /\ QSize \in 0..QSize
        /\ 0 \in 0..PoolSize
    BY <2>1 DEF Descs, Addrs
  <2>3. next \in [Descs -> Descs]
    <3>1. \A d \in Descs : (IF d = QSize - 1 THEN 0 ELSE d + 1) \in Descs
      BY <2>1 DEF Descs
    <3> QED
      BY <3>1 DEF Init
  <2>4. buf \in [Descs -> [addr : Addrs, len : Messages \union {0}]]
    BY <2>2 DEF Init
  <2>5. pool \in [Addrs -> Messages \union {0}]
    BY DEF Init
  <2>6. /\ lock \in Cores \union {NoCore} /\ id \in Descs /\ addr \in Addrs
        /\ count \in 0..QSize /\ nextFree \in Descs /\ numFree \in 0..QSize
        /\ offset \in 0..PoolSize /\ hid \in Descs /\ hcount \in 0..QSize
    BY <2>2 DEF Init
  <2>7. /\ pc = "idle" /\ msg = 0 /\ hpc = "idle" /\ cut = FALSE
        /\ avail = << >> /\ used = << >> /\ taken = << >>
        /\ status = {} /\ leaked = {}
        /\ raced = FALSE /\ erased = FALSE /\ longest = 0
    BY DEF Init
  <2>8. avail \in Seq(Descs) /\ used \in Seq(Descs)
    BY <2>7
  <2> QED
    BY <2>3, <2>4, <2>5, <2>6, <2>7, <2>8 DEF TypeOK
<1>2. Bounded /\ Loaded
  BY DEF Init, Bounded, Loaded
<1>3. /\ Range(avail) = {} /\ Range(taken) = {} /\ Range(used) = {}
      /\ Held = {} /\ Returning = {} /\ leaked = {}
  BY DEF Init, Range, Held, Returning
<1>4. OneHolder
  BY <1>3 DEF OneHolder, Others, Once, Init
<1>5. Exact
  <2>1. Outstanding = {} /\ ListLength = QSize /\ QSize \in Nat \ {0}
    BY <1>3 DEF Outstanding, ListLength, Init, ConstantsAssumption
  <2> DEFINE f == [k \in 0..(QSize - 1) |-> k]
  <2>2. f \in [0..(QSize - 1) -> Descs]
    BY DEF Descs
  <2>3. 0 \in 0..(QSize - 1)
    BY <2>1
  <2>4. \A k \in 0..(QSize - 2) : next[k] = k + 1
    BY <2>1 DEF Init, Descs
  <2>5. IsList(f, QSize, Descs, nextFree, next)
    <3>1. \A k \in 0..(QSize - 2) : next[f[k]] = f[k + 1]
      BY <2>1, <2>4
    <3> QED
      BY <2>3, <3>1 DEF IsList, Init, Descs
  <2> QED
    BY <2>1, <2>2, <2>5 DEF Exact, Listed
<1> QED
  BY <1>1, <1>2, <1>4, <1>5 DEF IInv, Sound

(* Where nothing that the free list is made of changes, it stays exact.    *)
LEMMA SameList ==
  ASSUME Exact, Outstanding' = Outstanding,
         ListLength' = ListLength, nextFree' = nextFree, next' = next
  PROVE  Exact'
BY DEF Exact

(* How long the list is.                                                   *)
LEMMA LengthIs ==
  ASSUME TypeOK, Bounded, Loaded
  PROVE  /\ ListLength \in Nat
         /\ pc = "count" /\ hpc # "add" => ListLength = numFree - 1
         /\ pc # "count" /\ hpc = "add" => ListLength = numFree + 1
         /\ pc # "count" /\ hpc # "add" => ListLength = numFree
BY DEF TypeOK, Bounded, Loaded, ListLength

(* A core begins to send.                                                  *)
LEMMA EnterIInv ==
  ASSUME ConstantsAssumption, IInv, NEW c \in Cores, Enter(c)
  PROVE  IInv'
<1> USE DEF coreVars, listVars, poolVars, otherEnd, irqVars, histVars
<1>1. TypeOK'
  BY DEF IInv, TypeOK, Bounded, Enter, NoCore, SendsUntilRaced, Descs, Addrs,
     ConstantsAssumption
<1>2. Bounded'
  BY DEF IInv, TypeOK, Bounded, Enter, NoCore, SendsUntilRaced,
     ConstantsAssumption
<1>3. SUFFICES ASSUME ~ raced'  PROVE Sound'
  BY <1>1, <1>2 DEF IInv
<1>4. ~ raced /\ Loaded /\ OneHolder /\ Exact
  BY <1>3 DEF IInv, Sound, TypeOK, Enter, NoCore, SendsUntilRaced
<1>5. Loaded'
  BY <1>3, <1>4 DEF IInv, TypeOK, Bounded, Loaded, OneHolder, Held, Returning,
     Enter, NoCore, SendsUntilRaced, ConstantsAssumption
<1>6. /\ Range(avail)' = Range(avail) /\ Range(taken)' = Range(taken)
      /\ Range(used)' = Range(used) /\ leaked' = leaked
      /\ Held' = Held /\ Returning' = Returning
  BY <1>4 DEF IInv, Bounded, Held, Returning, Enter, NoCore, SendsUntilRaced
<1>7. OneHolder'
  BY <1>4, <1>6 DEF OneHolder, Others, Outstanding, Enter, NoCore,
     SendsUntilRaced
<1>8. Exact'
  <2>1. Outstanding' = Outstanding
    BY <1>6 DEF Outstanding
  <2>2. ListLength' = ListLength
    BY <1>3, <1>4 DEF IInv, TypeOK, Bounded, Loaded, ListLength, Enter, NoCore,
       SendsUntilRaced
  <2> QED
    BY <1>4, <2>1, <2>2, SameList DEF Enter, NoCore, SendsUntilRaced
<1> QED
  BY <1>5, <1>7, <1>8 DEF Sound

(* A core reads the head of the list: nothing of the list changes.         *)
LEMMA GetFreeIInv ==
  ASSUME ConstantsAssumption, IInv, GetFree
  PROVE  IInv'
<1> USE DEF coreVars, listVars, poolVars, otherEnd, irqVars, histVars
<1>1. TypeOK'
  BY DEF IInv, TypeOK, Bounded, GetFree, Step, HasFreeSlot, Descs, Addrs,
     ConstantsAssumption
<1>2. Bounded'
  BY DEF IInv, TypeOK, Bounded, GetFree, Step, HasFreeSlot, ConstantsAssumption
<1>3. SUFFICES ASSUME ~ raced'  PROVE Sound'
  BY <1>1, <1>2 DEF IInv
<1>4. ~ raced /\ Loaded /\ OneHolder /\ Exact
  BY <1>3 DEF IInv, Sound, TypeOK, GetFree, Step, HasFreeSlot
<1>5. Loaded'
  BY <1>3, <1>4 DEF IInv, TypeOK, Bounded, Loaded, OneHolder, Held, Returning,
     GetFree, Step, HasFreeSlot, ConstantsAssumption
<1>6. /\ Range(avail)' = Range(avail) /\ Range(taken)' = Range(taken)
      /\ Range(used)' = Range(used) /\ leaked' = leaked
      /\ Held' = Held /\ Returning' = Returning
  BY <1>4 DEF IInv, Bounded, Held, Returning, GetFree, Step, HasFreeSlot
<1>7. OneHolder'
  BY <1>4, <1>6 DEF OneHolder, Others, Outstanding, GetFree, Step, HasFreeSlot
<1>8. Exact'
  <2>1. Outstanding' = Outstanding
    BY <1>6 DEF Outstanding
  <2>2. ListLength' = ListLength
    BY <1>3, <1>4 DEF IInv, TypeOK, Bounded, Loaded, ListLength, GetFree, Step,
       HasFreeSlot
  <2> QED
    BY <1>4, <2>1, <2>2, SameList DEF GetFree, Step, HasFreeSlot
<1> QED
  BY <1>5, <1>7, <1>8 DEF Sound

(* The counter follows the list.                                           *)
LEMMA CountDownIInv ==
  ASSUME ConstantsAssumption, IInv, CountDown
  PROVE  IInv'
<1> USE DEF coreVars, listVars, poolVars, otherEnd, irqVars, histVars
<1>1. TypeOK'
  <2>1. numFree' \in 0..QSize
    <3>1. count \in 0..QSize /\ count > 0 /\ numFree' = count - 1
      BY DEF IInv, TypeOK, Bounded, CountDown, Step, OneLess
    <3>2. QSize \in Nat
      BY DEF ConstantsAssumption
    <3> QED
      BY <3>1, <3>2
  <2>2. raced' \in BOOLEAN
    BY DEF CountDown
  <2> QED
    BY <2>1, <2>2 DEF IInv, TypeOK, CountDown
<1>2. Bounded'
  BY DEF IInv, TypeOK, Bounded, CountDown, Step, OneLess, ConstantsAssumption
<1>3. SUFFICES ASSUME ~ raced'  PROVE Sound'
  BY <1>1, <1>2 DEF IInv
<1>4. ~ raced /\ Loaded /\ OneHolder /\ Exact
  BY <1>3 DEF IInv, Sound, TypeOK, CountDown, Step, OneLess
<1>5. Loaded'
  BY <1>3, <1>4 DEF IInv, TypeOK, Bounded, Loaded, OneHolder, Held, Returning,
     CountDown, Step, OneLess, ConstantsAssumption
<1>6. /\ Range(avail)' = Range(avail) /\ Range(taken)' = Range(taken)
      /\ Range(used)' = Range(used) /\ leaked' = leaked
      /\ Held' = Held /\ Returning' = Returning
  BY <1>4 DEF IInv, Bounded, Held, Returning, CountDown, Step, OneLess
<1>7. OneHolder'
  BY <1>4, <1>6 DEF OneHolder, Others, Outstanding, CountDown, Step, OneLess
<1>8. Exact'
  <2>1. Outstanding' = Outstanding
    BY <1>6 DEF Outstanding
  <2>2. ListLength' = ListLength
    BY <1>3, <1>4 DEF IInv, TypeOK, Bounded, Loaded, ListLength, CountDown,
       Step, OneLess
  <2> QED
    BY <1>4, <2>1, <2>2, SameList DEF CountDown, Step, OneLess
<1> QED
  BY <1>5, <1>7, <1>8 DEF Sound

(* A configuration change touches no descriptor.                           *)
LEMMA ConfigChangeIInv ==
  ASSUME ConstantsAssumption, IInv, ConfigChange
  PROVE  IInv'
<1> USE DEF coreVars, listVars, poolVars, otherEnd, irqVars, histVars
<1>1. TypeOK'
  <2>1. status' \in SUBSET {"vring", "config"}
    BY DEF IInv, TypeOK, ConfigChange
  <2> QED
    BY <2>1 DEF IInv, TypeOK, ConfigChange
<1>2. Bounded'
  BY DEF IInv, TypeOK, Bounded, ConfigChange, ConstantsAssumption
<1>3. SUFFICES ASSUME ~ raced'  PROVE Sound'
  BY <1>1, <1>2 DEF IInv
<1>4. ~ raced /\ Loaded /\ OneHolder /\ Exact
  BY <1>3 DEF IInv, Sound, TypeOK, ConfigChange
<1>5. Loaded'
  BY <1>3, <1>4 DEF IInv, TypeOK, Bounded, Loaded, OneHolder, Held, Returning,
     ConfigChange, ConstantsAssumption
<1>6. /\ Range(avail)' = Range(avail) /\ Range(taken)' = Range(taken)
      /\ Range(used)' = Range(used) /\ leaked' = leaked
      /\ Held' = Held /\ Returning' = Returning
  BY <1>4 DEF IInv, Bounded, Held, Returning, ConfigChange
<1>7. OneHolder'
  BY <1>4, <1>6 DEF OneHolder, Others, Outstanding, ConfigChange
<1>8. Exact'
  <2>1. Outstanding' = Outstanding
    BY <1>6 DEF Outstanding
  <2>2. ListLength' = ListLength
    BY <1>3, <1>4 DEF IInv, TypeOK, Bounded, Loaded, ListLength, ConfigChange
  <2> QED
    BY <1>4, <2>1, <2>2, SameList DEF ConfigChange
<1> QED
  BY <1>5, <1>7, <1>8 DEF Sound

(* The handler begins, or returns early.                                   *)
LEMMA InterruptIInv ==
  ASSUME ConstantsAssumption, IInv, Interrupt
  PROVE  IInv'
<1> USE DEF coreVars, listVars, poolVars, otherEnd, irqVars, histVars
<1>1. TypeOK'
  BY DEF IInv, TypeOK, Bounded, Interrupt, Descs, Addrs, ConstantsAssumption
<1>2. Bounded'
  BY DEF IInv, TypeOK, Bounded, Interrupt, ConstantsAssumption
<1>3. SUFFICES ASSUME ~ raced'  PROVE Sound'
  BY <1>1, <1>2 DEF IInv
<1>4. ~ raced /\ Loaded /\ OneHolder /\ Exact
  BY <1>3 DEF IInv, Sound, TypeOK, Interrupt
<1>5. Loaded'
  BY <1>3, <1>4 DEF IInv, TypeOK, Bounded, Loaded, OneHolder, Held, Returning,
     Interrupt, ConstantsAssumption
<1>6. /\ Range(avail)' = Range(avail) /\ Range(taken)' = Range(taken)
      /\ Range(used)' = Range(used) /\ leaked' = leaked
      /\ Held' = Held /\ Returning' = Returning
  BY <1>4 DEF IInv, Bounded, Held, Returning, Interrupt
<1>7. OneHolder'
  BY <1>4, <1>6 DEF OneHolder, Others, Outstanding, Interrupt
<1>8. Exact'
  <2>1. Outstanding' = Outstanding
    BY <1>6 DEF Outstanding
  <2>2. ListLength' = ListLength
    BY <1>3, <1>4 DEF IInv, TypeOK, Bounded, Loaded, ListLength, Interrupt
  <2> QED
    BY <1>4, <2>1, <2>2, SameList DEF Interrupt
<1> QED
  BY <1>5, <1>7, <1>8 DEF Sound

(* The counter follows the list.                                           *)
LEMMA CountUpIInv ==
  ASSUME ConstantsAssumption, IInv, CountUp
  PROVE  IInv'
<1> USE DEF coreVars, listVars, poolVars, otherEnd, irqVars, histVars
<1>1. TypeOK'
  <2>1. numFree' \in 0..QSize
    <3>1. hcount \in 0..QSize /\ hcount < QSize /\ numFree' = hcount + 1
      BY DEF IInv, TypeOK, Bounded, CountUp
    <3>2. QSize \in Nat
      BY DEF ConstantsAssumption
    <3> QED
      BY <3>1, <3>2
  <2>2. raced' \in BOOLEAN
    BY DEF CountUp
  <2> QED
    BY <2>1, <2>2 DEF IInv, TypeOK, CountUp
<1>2. Bounded'
  BY DEF IInv, TypeOK, Bounded, CountUp, ConstantsAssumption
<1>3. SUFFICES ASSUME ~ raced'  PROVE Sound'
  BY <1>1, <1>2 DEF IInv
<1>4. ~ raced /\ Loaded /\ OneHolder /\ Exact
  BY <1>3 DEF IInv, Sound, TypeOK, CountUp
<1>5. Loaded'
  BY <1>3, <1>4 DEF IInv, TypeOK, Bounded, Loaded, OneHolder, Held, Returning,
     CountUp, ConstantsAssumption
<1>6. /\ Range(avail)' = Range(avail) /\ Range(taken)' = Range(taken)
      /\ Range(used)' = Range(used) /\ leaked' = leaked
      /\ Held' = Held /\ Returning' = Returning
  BY <1>4 DEF IInv, Bounded, Held, Returning, CountUp
<1>7. OneHolder'
  BY <1>4, <1>6 DEF OneHolder, Others, Outstanding, CountUp
<1>8. Exact'
  <2>1. Outstanding' = Outstanding
    BY <1>6 DEF Outstanding
  <2>2. ListLength' = ListLength
    BY <1>3, <1>4 DEF IInv, TypeOK, Bounded, Loaded, ListLength, CountUp
  <2> QED
    BY <1>4, <2>1, <2>2, SameList DEF CountUp
<1> QED
  BY <1>5, <1>7, <1>8 DEF Sound

(* Freeing memory touches no descriptor.                                   *)
LEMMA FreeIInv ==
  ASSUME ConstantsAssumption, IInv, Free
  PROVE  IInv'
<1> USE DEF coreVars, listVars, poolVars, otherEnd, irqVars, histVars
<1>1. TypeOK'
  BY DEF IInv, TypeOK, Bounded, Free, NextBuffer, Descs, Addrs,
     ConstantsAssumption
<1>2. Bounded'
  BY DEF IInv, TypeOK, Bounded, Free, NextBuffer, ConstantsAssumption
<1>3. SUFFICES ASSUME ~ raced'  PROVE Sound'
  BY <1>1, <1>2 DEF IInv
<1>4. ~ raced /\ Loaded /\ OneHolder /\ Exact
  BY <1>3 DEF IInv, Sound, TypeOK, Free, NextBuffer
<1>5. Loaded'
  BY <1>3, <1>4 DEF IInv, TypeOK, Bounded, Loaded, OneHolder, Held, Returning,
     Free, NextBuffer, ConstantsAssumption
<1>6. /\ Range(avail)' = Range(avail) /\ Range(taken)' = Range(taken)
      /\ Range(used)' = Range(used) /\ leaked' = leaked
      /\ Held' = Held /\ Returning' = Returning
  BY <1>4 DEF IInv, Bounded, Held, Returning, Free, NextBuffer
<1>7. OneHolder'
  BY <1>4, <1>6 DEF OneHolder, Others, Outstanding, Free, NextBuffer
<1>8. Exact'
  <2>1. Outstanding' = Outstanding
    BY <1>6 DEF Outstanding
  <2>2. ListLength' = ListLength
    BY <1>3, <1>4 DEF IInv, TypeOK, Bounded, Loaded, ListLength, Free,
       NextBuffer
  <2> QED
    BY <1>4, <2>1, <2>2, SameList DEF Free, NextBuffer
<1> QED
  BY <1>5, <1>7, <1>8 DEF Sound

(* The head of the list leaves it for the core that sends, while the       *)
(* handler is not between its load of the head and its store.              *)
LEMMA UnlinkIInv ==
  ASSUME ConstantsAssumption, IInv, Unlink
  PROVE  IInv'
<1> USE DEF coreVars, listVars, poolVars, otherEnd, irqVars, histVars
<1>1. TypeOK'
  <2>1. raced' \in BOOLEAN
    BY DEF Unlink
  <2> QED
    BY <2>1 DEF IInv, TypeOK, Unlink, Step, Successor
<1>2. Bounded'
  BY DEF IInv, TypeOK, Bounded, Unlink, Step, Successor, ConstantsAssumption
<1>3. SUFFICES ASSUME ~ raced'  PROVE Sound'
  BY <1>1, <1>2 DEF IInv
<1>4. ~ raced /\ Loaded /\ OneHolder /\ Exact
  BY <1>3 DEF IInv, Sound, TypeOK, Unlink, Step, Successor
<1>0. /\ ListLength > 0 /\ ListLength \in Nat
      /\ nextFree \in Descs \ Outstanding
      /\ Listed(ListLength - 1, (Descs \ Outstanding) \ {nextFree},
                next[nextFree], next)
  <2>1. ListLength > 0 /\ ListLength \in Nat
    BY <1>4, LengthIs DEF IInv, Bounded, TypeOK, Unlink, Step
  <2> QED
    BY <1>4, <2>1, ListWithoutHead DEF Exact
<1>5. Loaded'
  BY <1>3, <1>4 DEF IInv, TypeOK, Bounded, Loaded, OneHolder, Held, Returning,
     Unlink, Step, Successor, ConstantsAssumption
<1>6. /\ Range(avail)' = Range(avail) /\ Range(taken)' = Range(taken)
      /\ Range(used)' = Range(used) /\ leaked' = leaked
      /\ Held = {} /\ Held' = {nextFree} /\ Returning' = Returning
  BY <1>4 DEF Loaded, Unlink, Step, Held, Returning
<1>7. OneHolder'
  BY <1>0, <1>4, <1>6 DEF OneHolder, Others, Outstanding, Unlink
<1>8. Exact'
  <2>1. Outstanding' = Outstanding \union {nextFree}
    BY <1>6 DEF Outstanding
  <2>2. ListLength' = ListLength - 1
    BY <1>0 DEF IInv, TypeOK, ListLength, Unlink, Step
  <2>3. (Descs \ Outstanding) \ {nextFree} = (Descs \ Outstanding)'
    BY <2>1
  <2>4. nextFree' = next[nextFree] /\ next' = next
    BY <1>4 DEF Loaded, Unlink, Step, Successor
  <2> QED
    BY <1>0, <2>2, <2>3, <2>4 DEF Exact
<1> QED
  BY <1>5, <1>7, <1>8 DEF Sound

(* The descriptor gets memory, or is lost: it is not free either way.      *)
LEMMA AllocIInv ==
  ASSUME ConstantsAssumption, IInv, Alloc
  PROVE  IInv'
<1> USE DEF coreVars, listVars, poolVars, otherEnd, irqVars, histVars
<1>1. TypeOK'
  <2>1. /\ offset \in 0..PoolSize /\ PoolSize \in Nat \ {0}
        /\ msg \in Nat \ {0}
    BY DEF IInv, TypeOK, Bounded, Alloc, Step, ConstantsAssumption
  <2>2. Place(msg) # Nowhere => /\ Place(msg) \in Addrs
                                /\ Place(msg) + msg \in 0..PoolSize
    BY <2>1 DEF Place, Nowhere, Addrs
  <2>3. CASE Place(msg) # Nowhere
    <3>1. addr' \in Addrs /\ offset' \in 0..PoolSize
      BY <2>2, <2>3 DEF Alloc, NextOffset
    <3> QED
      BY <2>3, <3>1 DEF IInv, TypeOK, Alloc
  <2>4. CASE Place(msg) = Nowhere
    BY <2>4 DEF IInv, TypeOK, Alloc, Unlock
  <2> QED
    BY <2>3, <2>4
<1>2. Bounded'
  BY DEF IInv, TypeOK, Bounded, Alloc, Step, Unlock, NoCore,
     ConstantsAssumption
<1>3. SUFFICES ASSUME ~ raced'  PROVE Sound'
  BY <1>1, <1>2 DEF IInv
<1>4. ~ raced /\ Loaded /\ OneHolder /\ Exact
  BY <1>3 DEF IInv, Sound, TypeOK, Alloc, Step, Unlock, NoCore
<1>5. Loaded'
  BY <1>3, <1>4 DEF IInv, TypeOK, Bounded, Loaded, OneHolder, Held, Returning,
     Alloc, Step, Unlock, NoCore, ConstantsAssumption
<1>6. /\ Range(avail)' = Range(avail) /\ Range(taken)' = Range(taken)
      /\ Range(used)' = Range(used)
      /\ Held = {id} /\ Returning' = Returning
      /\ \/ Held' = {id} /\ leaked' = leaked
         \/ Held' = {} /\ leaked' = leaked \union {id}
  BY DEF Alloc, Unlock, Step, Held, Returning
<1>7. OneHolder'
  BY <1>4, <1>6 DEF OneHolder, Others, Outstanding, Alloc, Step, Unlock, NoCore
<1>8. Exact'
  <2>1. Outstanding' = Outstanding
    BY <1>6 DEF Outstanding
  <2>2. ListLength' = ListLength
    BY <1>3, <1>4 DEF IInv, TypeOK, Bounded, Loaded, ListLength, Alloc, Step,
       Unlock, NoCore
  <2> QED
    BY <1>4, <2>1, <2>2, SameList DEF Alloc, Step, Unlock, NoCore
<1> QED
  BY <1>5, <1>7, <1>8 DEF Sound

(* The link that is cleared is neither one of the list nor the one the     *)
(* handler has just set.                                                   *)
LEMMA CopyIInv ==
  ASSUME ConstantsAssumption, IInv, Copy
  PROVE  IInv'
<1> USE DEF coreVars, listVars, poolVars, otherEnd, irqVars, histVars
<1>1. TypeOK'
  <2>1. /\ id \in Descs /\ 0 \in Descs /\ msg \in Messages
    BY DEF IInv, TypeOK, Bounded, Copy, Step, Descs, ConstantsAssumption
  <2>2. pool' \in [Addrs -> Messages \union {0}]
    BY <2>1 DEF IInv, TypeOK, Copy, Copied
  <2>3. /\ buf' \in [Descs -> [addr : Addrs, len : Messages \union {0}]]
        /\ next' \in [Descs -> Descs]
    BY <2>1 DEF IInv, TypeOK, Copy
  <2>4. erased \in BOOLEAN /\ raced \in BOOLEAN /\ Erases \in BOOLEAN
    BY DEF IInv, TypeOK, Erases
  <2>5. erased' \in BOOLEAN /\ raced' \in BOOLEAN
    BY <2>4 DEF Copy
  <2> QED
    BY <2>2, <2>3, <2>5 DEF IInv, TypeOK, Copy
<1>2. Bounded'
  BY DEF IInv, TypeOK, Bounded, Copy, Step, ConstantsAssumption
<1>3. SUFFICES ASSUME ~ raced'  PROVE Sound'
  BY <1>1, <1>2 DEF IInv
<1>4. ~ raced /\ Loaded /\ OneHolder /\ Exact
  BY <1>3 DEF IInv, Sound, TypeOK, Copy, Step
<1>5. Loaded'
  BY <1>3, <1>4 DEF IInv, TypeOK, Bounded, Loaded, OneHolder, Held, Returning,
     Copy, Step, ConstantsAssumption
<1>6. /\ Range(avail)' = Range(avail) /\ Range(taken)' = Range(taken)
      /\ Range(used)' = Range(used) /\ leaked' = leaked
      /\ Held' = Held /\ Returning' = Returning
  BY <1>4 DEF IInv, Bounded, Held, Returning, Copy, Step
<1>7. OneHolder'
  BY <1>4, <1>6 DEF OneHolder, Others, Outstanding, Copy, Step
<1>8. Exact'
  <2>1. Outstanding' = Outstanding /\ id \in Outstanding
    BY <1>6 DEF Outstanding, Held, Copy, Step
  <2>2. /\ ListLength' = ListLength /\ ListLength \in Nat
        /\ nextFree' = nextFree
    BY <1>4, LengthIs DEF IInv, ListLength, Copy, Step
  <2>3. \A d \in Descs \ Outstanding : next'[d] = next[d]
    BY <2>1 DEF IInv, TypeOK, Copy
  <2>4. Listed(ListLength, Descs \ Outstanding, nextFree, next')
    BY <1>4, <2>2, <2>3, ListElsewhere DEF Exact
  <2> QED
    BY <2>1, <2>2, <2>4 DEF Exact
<1> QED
  BY <1>5, <1>7, <1>8 DEF Sound

(* The descriptor goes from the core to the available ring.                *)
LEMMA PublishIInv ==
  ASSUME ConstantsAssumption, IInv, Publish
  PROVE  IInv'
<1> USE DEF coreVars, listVars, poolVars, otherEnd, irqVars, histVars
<1>1. TypeOK'
  <2>1. avail' \in Seq(Descs)
    BY RangeOfAppend DEF IInv, TypeOK, Publish, Behind
  <2> QED
    BY <2>1 DEF IInv, TypeOK, Publish, Unlock
<1>2. Bounded'
  BY DEF IInv, TypeOK, Bounded, Publish, Step, Unlock, NoCore,
     ConstantsAssumption
<1>3. SUFFICES ASSUME ~ raced'  PROVE Sound'
  BY <1>1, <1>2 DEF IInv
<1>4. ~ raced /\ Loaded /\ OneHolder /\ Exact
  BY <1>3 DEF IInv, Sound, TypeOK, Publish, Step, Unlock, NoCore
<1>5. Loaded'
  BY <1>3, <1>4 DEF IInv, TypeOK, Bounded, Loaded, OneHolder, Held, Returning,
     Publish, Step, Unlock, NoCore, ConstantsAssumption
<1>6. /\ Range(avail)' = Range(avail) \union {id}
      /\ Once(avail) /\ id \notin Range(avail) => Once(avail')
      /\ Range(taken)' = Range(taken)
      /\ Range(used)' = Range(used) /\ leaked' = leaked
      /\ Held = {id} /\ Held' = {} /\ Returning' = Returning
  <2>1. /\ Range(avail)' = Range(avail) \union {id}
        /\ Once(avail) /\ id \notin Range(avail) => Once(avail')
    BY RangeOfAppend DEF IInv, TypeOK, Publish, Behind
  <2> QED
    BY <2>1 DEF Publish, Unlock, Step, Held, Returning
<1>7. OneHolder'
  BY <1>4, <1>6 DEF OneHolder, Others, Outstanding, Publish, Step, Unlock,
     NoCore
<1>8. Exact'
  <2>1. Outstanding' = Outstanding
    BY <1>6 DEF Outstanding
  <2>2. ListLength' = ListLength
    BY <1>3, <1>4 DEF IInv, TypeOK, Bounded, Loaded, ListLength, Publish, Step,
       Unlock, NoCore
  <2> QED
    BY <1>4, <2>1, <2>2, SameList DEF Publish, Step, Unlock, NoCore
<1> QED
  BY <1>5, <1>7, <1>8 DEF Sound

(* The descriptor goes from the available ring to the backend.             *)
LEMMA TakeIInv ==
  ASSUME ConstantsAssumption, IInv, Take
  PROVE  IInv'
<1> USE DEF coreVars, listVars, poolVars, otherEnd, irqVars, histVars
<1>1. TypeOK'
  <2>1. avail' \in Seq(Descs) /\ Head(avail) \in Descs
    BY RangeOfTail DEF IInv, TypeOK, Take
  <2>2. taken' \in {<< d >> : d \in Descs}
    BY <2>1 DEF Take
  <2> QED
    BY <2>1, <2>2 DEF IInv, TypeOK, Take
<1>2. Bounded'
  BY DEF IInv, TypeOK, Bounded, Take, ConstantsAssumption
<1>3. SUFFICES ASSUME ~ raced'  PROVE Sound'
  BY <1>1, <1>2 DEF IInv
<1>4. ~ raced /\ Loaded /\ OneHolder /\ Exact
  BY <1>3 DEF IInv, Sound, TypeOK, Take
<1>5. Loaded'
  BY <1>3, <1>4 DEF IInv, TypeOK, Bounded, Loaded, OneHolder, Held, Returning,
     Take, ConstantsAssumption
<1>6. /\ Range(avail) = Range(avail') \union {Head(avail)}
      /\ Once(avail) => Once(avail') /\ Head(avail) \notin Range(avail')
      /\ Range(taken) = {} /\ Range(taken)' = {Head(avail)}
      /\ Range(used)' = Range(used) /\ leaked' = leaked
      /\ Held' = Held /\ Returning' = Returning
  <2>1. /\ Range(avail) = Range(avail') \union {Head(avail)}
        /\ Once(avail) => Once(avail') /\ Head(avail) \notin Range(avail')
    BY RangeOfTail DEF IInv, TypeOK, Take
  <2>2. Range(taken) = {} /\ Range(taken)' = {Head(avail)}
    BY DEF Take, Range
  <2> QED
    BY <2>1, <2>2 DEF Take, Held, Returning
<1>7. OneHolder'
  BY <1>4, <1>6 DEF OneHolder, Others, Outstanding, Take
<1>8. Exact'
  <2>1. Outstanding' = Outstanding
    BY <1>6 DEF Outstanding
  <2>2. ListLength' = ListLength
    BY <1>3, <1>4 DEF IInv, TypeOK, Bounded, Loaded, ListLength, Take
  <2> QED
    BY <1>4, <2>1, <2>2, SameList DEF Take
<1> QED
  BY <1>5, <1>7, <1>8 DEF Sound

(* The descriptor goes from the backend to the used ring.                  *)
LEMMA CompleteIInv ==
  ASSUME ConstantsAssumption, IInv, Complete
  PROVE  IInv'
<1> USE DEF coreVars, listVars, poolVars, otherEnd, irqVars, histVars
<1>1. TypeOK'
  <2>1. Head(taken) \in Descs
    BY DEF IInv, TypeOK, Complete
  <2>2. used' \in Seq(Descs) /\ taken' = << >>
    BY <2>1 DEF IInv, TypeOK, Complete
  <2> QED
    BY <2>2 DEF IInv, TypeOK, Complete
<1>2. Bounded'
  BY DEF IInv, TypeOK, Bounded, Complete, ConstantsAssumption
<1>3. SUFFICES ASSUME ~ raced'  PROVE Sound'
  BY <1>1, <1>2 DEF IInv
<1>4. ~ raced /\ Loaded /\ OneHolder /\ Exact
  BY <1>3 DEF IInv, Sound, TypeOK, Complete
<1>5. Loaded'
  BY <1>3, <1>4 DEF IInv, TypeOK, Bounded, Loaded, OneHolder, Held, Returning,
     Complete, ConstantsAssumption
<1>6. /\ Range(avail)' = Range(avail)
      /\ Range(taken) = {Head(taken)} /\ Range(taken)' = {}
      /\ Range(used)' = Range(used) \union {Head(taken)}
      /\ Once(used) /\ Head(taken) \notin Range(used) => Once(used')
      /\ leaked' = leaked /\ Held' = Held /\ Returning' = Returning
  <2>1. Head(taken) \in Descs /\ used \in Seq(Descs)
    BY DEF IInv, TypeOK, Complete
  <2>2. Range(taken) = {Head(taken)}
    <3>1. PICK d \in Descs : taken = << d >>
      BY DEF IInv, TypeOK, Complete
    <3> QED
      BY <3>1 DEF Range
  <2>3. Range(taken)' = {}
    BY DEF Complete, Range
  <2>4. /\ Range(used)' = Range(used) \union {Head(taken)}
        /\ Once(used) /\ Head(taken) \notin Range(used) => Once(used')
    BY <2>1, RangeOfAppend DEF Complete
  <2> QED
    BY <2>2, <2>3, <2>4 DEF Complete, Held, Returning
<1>7. OneHolder'
  BY <1>4, <1>6 DEF OneHolder, Others, Outstanding, Complete
<1>8. Exact'
  <2>1. Outstanding' = Outstanding
    BY <1>6 DEF Outstanding
  <2>2. ListLength' = ListLength
    BY <1>3, <1>4 DEF IInv, TypeOK, Bounded, Loaded, ListLength, Complete
  <2> QED
    BY <1>4, <2>1, <2>2, SameList DEF Complete
<1> QED
  BY <1>5, <1>7, <1>8 DEF Sound

(* A descriptor goes from the used ring to the handler; as neither it nor  *)
(* one that a core has unlinked and not counted is free, the counter is    *)
(* not at its limit.                                                       *)
LEMMA GetUsedIInv ==
  ASSUME ConstantsAssumption, IInv, GetUsed
  PROVE  IInv'
<1> USE DEF coreVars, listVars, poolVars, otherEnd, irqVars, histVars
<1>1. TypeOK'
  <2>1. ASSUME used # << >>  PROVE used' \in Seq(Descs) /\ hid' \in Descs
    <3>1. Tail(used) \in Seq(Descs) /\ Head(used) \in Descs
      BY <2>1, RangeOfTail DEF IInv, TypeOK
    <3> QED
      BY <2>1, <3>1 DEF GetUsed
  <2> QED
    BY <2>1 DEF IInv, TypeOK, GetUsed
<1>2. Bounded'
  BY DEF IInv, TypeOK, Bounded, GetUsed, ConstantsAssumption
<1>3. SUFFICES ASSUME ~ raced'  PROVE Sound'
  BY <1>1, <1>2 DEF IInv
<1>4. ~ raced /\ Loaded /\ OneHolder /\ Exact
  BY <1>3 DEF IInv, Sound, TypeOK, GetUsed
<1>0. used # << >> => numFree < QSize
  <2> SUFFICES ASSUME used # << >>, numFree = QSize  PROVE FALSE
    BY DEF IInv, TypeOK, ConstantsAssumption
  <2> DEFINE free == Descs \ Outstanding
  <2>1. /\ Head(used) \in Descs /\ Head(used) \in Range(used)
        /\ Head(used) \notin free /\ QSize \in Nat \ {0}
    BY RangeOfTail DEF IInv, TypeOK, Outstanding, ConstantsAssumption
  <2>2. CASE pc # "count"
    <3>1. ListLength = QSize
      BY <1>4, <2>2, LengthIs DEF IInv, GetUsed
    <3>2. free = Descs
      BY <1>4, <3>1, LongListIsComplete DEF Exact
    <3> QED
      BY <2>1, <3>2
  <2>3. CASE pc = "count"
    <3> DEFINE links == [next EXCEPT ![id] = nextFree]
    <3>1. ListLength = QSize - 1 /\ QSize - 1 \in Nat
      BY <1>4, <2>1, <2>3, LengthIs DEF IInv, GetUsed
    <3>2. id \in Descs /\ id \notin free /\ id # Head(used)
      BY <1>4, <2>1, <2>3 DEF IInv, TypeOK, Outstanding, Held, OneHolder,
         Others
    <3>3. links[id] = nextFree /\ \A d \in free : links[d] = next[d]
      BY <3>2 DEF IInv, TypeOK
    <3> HIDE DEF links
    <3>4. Listed(QSize - 1, free, nextFree, links)
      BY <1>4, <3>1, <3>3, ListElsewhere DEF Exact
    <3> HIDE DEF free
    <3>5. Listed((QSize - 1) + 1, free \union {id}, id, links)
      BY <3>1, <3>2, <3>3, <3>4, ListWithHead
    <3>6. free \union {id} \in SUBSET Descs /\ (QSize - 1) + 1 = QSize
      BY <2>1, <3>2 DEF free
    <3>7. free \union {id} = Descs
      BY <3>5, <3>6, LongListIsComplete
    <3> QED
      BY <2>1, <3>2, <3>7
  <2> QED
    BY <2>2, <2>3
<1>5. Loaded'
  BY <1>0, <1>3, <1>4 DEF IInv, TypeOK, Loaded, GetUsed
<1>6. /\ Range(avail)' = Range(avail) /\ Range(taken)' = Range(taken)
      /\ leaked' = leaked /\ Held' = Held /\ Returning = {}
      /\ \/ used' = used /\ Returning' = {}
         \/ /\ Range(used) = Range(used') \union {hid'}
            /\ Once(used) => Once(used') /\ hid' \notin Range(used')
            /\ Returning' = {hid'}
  <2>1. ASSUME used # << >>
        PROVE  /\ Range(used) = Range(used') \union {hid'}
               /\ Once(used) => Once(used') /\ hid' \notin Range(used')
    <3>1. used' = Tail(used) /\ hid' = Head(used)
      BY <2>1 DEF GetUsed
    <3> QED
      BY <2>1, <3>1, RangeOfTail DEF IInv, TypeOK
  <2>2. CASE used = << >>
    BY <2>2 DEF GetUsed, Held, Returning
  <2>3. CASE used # << >>
    BY <1>0, <2>1, <2>3 DEF GetUsed, Held, Returning
  <2> QED
    BY <2>2, <2>3
<1>7. OneHolder'
  BY <1>4, <1>6 DEF OneHolder, Others, Outstanding, GetUsed
<1>8. Exact'
  <2>1. Outstanding' = Outstanding
    BY <1>6 DEF Outstanding
  <2>2. ListLength' = ListLength
    BY <1>3, <1>4 DEF IInv, TypeOK, Bounded, Loaded, ListLength, GetUsed
  <2> QED
    BY <1>4, <2>1, <2>2, SameList DEF GetUsed
<1> QED
  BY <1>5, <1>7, <1>8 DEF Sound

(* The link that is set is not one of the list yet.                        *)
LEMMA LinkIInv ==
  ASSUME ConstantsAssumption, IInv, Link
  PROVE  IInv'
<1> USE DEF coreVars, listVars, poolVars, otherEnd, irqVars, histVars
<1>1. TypeOK'
  BY DEF IInv, TypeOK, Bounded, Link, Descs, Addrs, ConstantsAssumption
<1>2. Bounded'
  BY DEF IInv, TypeOK, Bounded, Link, ConstantsAssumption
<1>3. SUFFICES ASSUME ~ raced'  PROVE Sound'
  BY <1>1, <1>2 DEF IInv
<1>4. ~ raced /\ Loaded /\ OneHolder /\ Exact
  BY <1>3 DEF IInv, Sound, TypeOK, Link
<1>5. Loaded'
  BY <1>3, <1>4 DEF IInv, TypeOK, Bounded, Loaded, OneHolder, Held, Returning,
     Link, ConstantsAssumption
<1>6. /\ Range(avail)' = Range(avail) /\ Range(taken)' = Range(taken)
      /\ Range(used)' = Range(used) /\ leaked' = leaked
      /\ Held' = Held /\ Returning' = Returning
  BY <1>4 DEF IInv, Bounded, Held, Returning, Link
<1>7. OneHolder'
  BY <1>4, <1>6 DEF OneHolder, Others, Outstanding, Link
<1>8. Exact'
  <2>1. Outstanding' = Outstanding /\ hid \in Outstanding
    BY <1>6 DEF Outstanding, Returning, Link
  <2>2. /\ ListLength' = ListLength /\ ListLength \in Nat
        /\ nextFree' = nextFree
    BY <1>4, LengthIs DEF IInv, ListLength, Link
  <2>3. \A d \in Descs \ Outstanding : next'[d] = next[d]
    BY <2>1 DEF IInv, TypeOK, Link
  <2>4. Listed(ListLength, Descs \ Outstanding, nextFree, next')
    BY <1>4, <2>2, <2>3, ListElsewhere DEF Exact
  <2> QED
    BY <2>1, <2>2, <2>4 DEF Exact
<1> QED
  BY <1>5, <1>7, <1>8 DEF Sound

(* The descriptor of the handler becomes the head of the list, while no    *)
(* core is between its load of the head and its store.                     *)
LEMMA SetHeadIInv ==
  ASSUME ConstantsAssumption, IInv, SetHead
  PROVE  IInv'
<1> USE DEF coreVars, listVars, poolVars, otherEnd, irqVars, histVars
<1>1. TypeOK'
  <2>1. raced' \in BOOLEAN
    BY DEF SetHead
  <2> QED
    BY <2>1 DEF IInv, TypeOK, SetHead
<1>2. Bounded'
  BY DEF IInv, TypeOK, Bounded, SetHead, ConstantsAssumption
<1>3. SUFFICES ASSUME ~ raced'  PROVE Sound'
  BY <1>1, <1>2 DEF IInv
<1>4. ~ raced /\ Loaded /\ OneHolder /\ Exact
  BY <1>3 DEF IInv, Sound, TypeOK, SetHead
<1>5. Loaded'
  BY <1>3, <1>4 DEF IInv, TypeOK, Bounded, Loaded, OneHolder, Held, Returning,
     SetHead, ConstantsAssumption
<1>6. /\ Range(avail)' = Range(avail) /\ Range(taken)' = Range(taken)
      /\ Range(used)' = Range(used) /\ leaked' = leaked
      /\ Held' = Held /\ Returning = {hid} /\ Returning' = {}
  BY DEF SetHead, Held, Returning
<1>7. OneHolder'
  BY <1>4, <1>6 DEF OneHolder, Others, Outstanding, SetHead
<1>8. Exact'
  <2>1. Outstanding = Outstanding' \union {hid} /\ hid \notin Outstanding'
    BY <1>4, <1>6 DEF Outstanding, OneHolder, Others
  <2>2. hid \in Descs
    BY DEF IInv, TypeOK
  <2>3. (Descs \ Outstanding)' = (Descs \ Outstanding) \union {hid}
    BY <2>1, <2>2
  <2>4. ListLength \in Nat /\ ListLength' = ListLength + 1
    BY <1>4, LengthIs DEF IInv, TypeOK, ListLength, SetHead
  <2>5. hid \notin Descs \ Outstanding /\ next[hid] = nextFree
    BY <1>4, <2>1 DEF Loaded, SetHead
  <2>6. Listed(ListLength + 1, (Descs \ Outstanding) \union {hid}, hid, next)
    BY <1>4, <2>4, <2>5, ListWithHead DEF Exact
  <2> QED
    BY <2>3, <2>4, <2>6 DEF Exact, SetHead
<1> QED
  BY <1>5, <1>7, <1>8 DEF Sound

(* A stutter changes nothing.                                              *)
LEMMA StutterIInv ==
  ASSUME IInv, UNCHANGED vars
  PROVE  IInv'
<1> USE DEF coreVars, listVars, poolVars, otherEnd, irqVars, histVars, vars
<1>1. TypeOK'
  BY DEF IInv, TypeOK
<1>2. Bounded'
  BY DEF IInv, Bounded
<1>3. Held' = Held /\ Returning' = Returning
  BY DEF Held, Returning
<1>4. Loaded' = Loaded /\ OneHolder' = OneHolder /\ raced' = raced
  BY <1>3 DEF Loaded, OneHolder, Others
<1>5. Outstanding' = Outstanding /\ ListLength' = ListLength
  BY <1>3 DEF Outstanding, ListLength
<1>6. Exact' = Exact
  BY <1>5 DEF Exact
<1> QED
  BY <1>1, <1>2, <1>4, <1>6 DEF IInv, Sound

(* Every step of the senders, the backend and the handler keeps the        *)
(* invariant, in whatever order they come.                                 *)
LEMMA IInvAlways == Spec => []IInv
<1>1. Init => IInv
  BY ConstantsAssumption, InitIInv
<1>2. IInv /\ [Next]_vars => IInv'
  <2> SUFFICES ASSUME IInv, [Next]_vars  PROVE IInv'
    OBVIOUS
  <2> USE ConstantsAssumption
  <2>1. ASSUME NEW c \in Cores, Enter(c)  PROVE IInv'
    BY <2>1, EnterIInv
  <2>2. CASE Transmit
    BY <2>2, GetFreeIInv, UnlinkIInv, CountDownIInv, AllocIInv, CopyIInv,
       PublishIInv DEF Transmit
  <2>3. CASE Take \/ Complete \/ ConfigChange \/ Interrupt
    BY <2>3, TakeIInv, CompleteIInv, ConfigChangeIInv, InterruptIInv
  <2>4. CASE Receive
    BY <2>4, GetUsedIInv, LinkIInv, SetHeadIInv, CountUpIInv, FreeIInv
       DEF Receive
  <2>5. CASE UNCHANGED vars
    BY <2>5, StutterIInv
  <2> QED
    BY <2>1, <2>2, <2>3, <2>4, <2>5 DEF Next
<1> QED
  BY <1>1, <1>2, PTL DEF Spec

(* The variables keep their types, and the counters their bounds, also     *)
(* where the handler and a sender have spoiled the list for each other     *)
(* (virtq_init, virtio_console_transmit and virtio_console_receive).       *)
THEOREM TypeAlwaysOK == Spec => []TypeOK
<1>1. IInv => TypeOK
  BY DEF IInv
<1> QED
  BY <1>1, IInvAlways, PTL

(* The free list holds exactly the descriptors that nobody has, and the    *)
(* counter is its length, whatever the order of the steps, until a store   *)
(* of the handler or a sender has met a load of the other (virtq_put_free  *)
(* _desc and virtq_get_free_desc_id, without a common lock).               *)
THEOREM FreeListAlwaysExact == Spec => []FreeListExact
<1>1. IInv => FreeListExact
  BY DEF IInv, Sound, Exact, FreeListExact
<1> QED
  BY <1>1, IInvAlways, PTL
=============================================================================
