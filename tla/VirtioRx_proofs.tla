--------------------------- MODULE VirtioRx_proofs ---------------------------
(***************************************************************************)
(* For any number of descriptors, any size of a buffer, any messages and   *)
(* any remains in the memory of the receive buffer: it begins with a whole *)
(* text whenever it can be seen, and with that of the first message when   *)
(* the handler has returned true.                                          *)
(***************************************************************************)
EXTENDS VirtioRx, TLAPS

(* The receive buffer begins with the text of m, and with zeros up to the  *)
(* length of a buffer.                                                     *)
Holds(m) ==
  \A i \in 0..(BufSize - 2) : rx[i] = IF i < Cut(m) THEN m ELSE 0

(* Behind that nothing but zero bytes is ever written, and while the       *)
(* handler works the buffer is empty or holds a text.                      *)
BufferInv ==
  /\ \A i \in Places : i >= BufSize - 1 => rx[i] \in {0, Leftover}
  /\ rx[0] = 0 \/ \E m \in Messages : Holds(m)

(* How far the handler is: with the position at the start nothing has been *)
(* appended, else the first message of the batch is in the buffer.         *)
CallInv ==
  /\ hpc = "reset" => batch = << >>
  /\ hpc = "append" => cur \in Messages /\ batch # << >>
  /\ hpc \in {"scan", "append", "null"} /\ pos = 0 =>
       /\ rx[0] = 0
       /\ batch = IF hpc = "append" THEN << cur >> ELSE << >>
  /\ hpc \in {"scan", "append", "null"} /\ pos # 0 =>
       /\ pos >= BufSize - 1
       /\ batch # << >>
       /\ Holds(batch[1])
  /\ Returned /\ got => Holds(batch[1])

PrintInv ==
  /\ printing = lock
  /\ PrintedWhole

IInv == TypeOK /\ BufferInv /\ CallInv /\ PrintInv

-----------------------------------------------------------------------------
(* The numbers                                                             *)

LEMMA Sizes ==
  ASSUME ConstantsAssumption
  PROVE  /\ QSize \in Nat /\ BufSize \in Nat /\ BufSize >= 2
         /\ ConsoleSize = BufSize * 4 /\ ConsoleSize \in Nat
         /\ ConsoleSize > BufSize
         /\ Places = 0..(ConsoleSize - 1)
         /\ 0 \in Places
         /\ BufSize - 1 \in Places
         /\ \A m \in Messages : m \in 1..BufSize /\ Cut(m) \in 1..(BufSize - 1)
         /\ 0 \notin Messages
BY DEF ConstantsAssumption, ConsoleSize, Places, Cut

(* The string in the buffer ends before the first zero byte                *)
(* (the %s of virtio_console_rx_print_buffer).                             *)
LEMMA StringIs ==
  /\ DOMAIN String = {j \in 1..ConsoleSize : \A k \in 0..(j - 1) : rx[k] # 0}
  /\ \A i \in DOMAIN String : String[i] = rx[i - 1]
BY DEF String

LEMMA StringOfText ==
  ASSUME ConstantsAssumption, BufferInv, NEW m \in Messages, Holds(m)
  PROVE  /\ BeginsWith(String, m)
         /\ \A i \in DOMAIN String : i > Cut(m) => String[i] = Leftover
<1> DEFINE k == Cut(m)
<1>1. /\ k \in 1..(BufSize - 1) /\ m # 0
      /\ BufSize \in Nat /\ ConsoleSize \in Nat /\ BufSize < ConsoleSize
      /\ Places = 0..(ConsoleSize - 1)
  BY Sizes
<1>2. \A i \in 0..(BufSize - 2) : rx[i] = IF i < k THEN m ELSE 0
  BY DEF Holds, k
<1> HIDE DEF k
<1>3. \A i \in 0..(k - 1) : rx[i] = m
  BY <1>1, <1>2
<1>4. ASSUME NEW i \in 1..k  PROVE i \in DOMAIN String /\ String[i] = m
  <2>1. i \in 1..ConsoleSize /\ i - 1 \in 0..(k - 1)
    BY <1>1
  <2>2. \A j \in 0..(i - 1) : rx[j] # 0
    BY <1>1, <1>3
  <2>3. i \in DOMAIN String
    BY <2>1, <2>2, StringIs
  <2> QED
    BY <2>1, <2>3, <1>3, StringIs
<1>5. ASSUME NEW i \in DOMAIN String, i > k  PROVE String[i] = Leftover
  <2>1. i \in 1..ConsoleSize /\ \A j \in 0..(i - 1) : rx[j] # 0
    BY StringIs
  <2>2. k \in 0..(i - 1) /\ i - 1 \in 0..(i - 1)
    BY <1>1, <1>5, <2>1
  <2>3. k = BufSize - 1
    <3>1. CASE k \in 0..(BufSize - 2)
      <4>1. rx[k] = 0
        BY <1>1, <1>2, <3>1
      <4> QED
        BY <4>1, <2>1, <2>2
    <3> QED
      BY <1>1, <3>1
  <2>4. i - 1 \in Places /\ i - 1 >= BufSize - 1
    BY <1>1, <1>5, <2>1, <2>3
  <2>5. rx[i - 1] \in {0, Leftover}
    BY <2>4 DEF BufferInv
  <2>6. String[i] = rx[i - 1] /\ rx[i - 1] # 0
    BY <2>1, <2>2, StringIs
  <2> QED
    BY <2>5, <2>6
<1> QED
  BY <1>4, <1>5 DEF BeginsWith, k

LEMMA StringOfNothing ==
  ASSUME ConstantsAssumption, rx[0] = 0
  PROVE  String = << >>
<1> DEFINE S == {j \in 1..ConsoleSize : \A k \in 0..(j - 1) : rx[k] # 0}
<1>1. S = {}
  <2> SUFFICES ASSUME NEW j \in 1..ConsoleSize, \A k \in 0..(j - 1) : rx[k] # 0
               PROVE  FALSE
    OBVIOUS
  <2>1. 0 \in 0..(j - 1)
    BY Sizes
  <2> QED
    BY <2>1
<1>2. String = [i \in S |-> rx[i - 1]]
  BY DEF String
<1> HIDE DEF S
<1>3. S = 1..0
  BY <1>1
<1>4. String = [i \in 1..0 |-> rx[i - 1]]
  BY <1>2, <1>3
<1> QED
  BY <1>4

(* The handler returns true with the text of the first message.            *)
LEMMA FirstText ==
  ASSUME ConstantsAssumption, TypeOK, BufferInv, CallInv
  PROVE  NothingStale
<1> SUFFICES ASSUME Returned, got
             PROVE  /\ BeginsWith(String, batch[1])
                    /\ Range(String) \subseteq Range(batch) \union {Leftover}
  BY DEF NothingStale
<1> DEFINE m == batch[1]
<1>1. m \in Messages /\ 1 \in DOMAIN batch
  BY DEF TypeOK, Returned
<1>2. Holds(m)
  BY DEF CallInv
<1>3. m \in Range(batch)
  BY <1>1 DEF Range
<1> HIDE DEF m
<1>4. Cut(m) \in Nat /\ ConsoleSize \in Nat
  <2>1. Cut(m) \in 1..(BufSize - 1) /\ BufSize \in Nat
    BY <1>1, Sizes
  <2> QED
    BY <2>1, Sizes
<1>5. /\ BeginsWith(String, m)
      /\ \A i \in DOMAIN String : i > Cut(m) => String[i] = Leftover
  BY <1>1, <1>2, StringOfText
<1>6. ASSUME NEW i \in DOMAIN String  PROVE String[i] \in {m, Leftover}
  <2>1. i \in 1..ConsoleSize
    BY StringIs
  <2>2. CASE i > Cut(m)
    BY <1>5, <2>2
  <2>3. CASE ~ (i > Cut(m))
    <3>1. i \in 1..Cut(m)
      BY <1>4, <2>1, <2>3
    <3> QED
      BY <1>5, <3>1 DEF BeginsWith
  <2> QED
    BY <2>2, <2>3
<1>7. Range(String) \subseteq {m, Leftover}
  BY <1>6 DEF Range
<1> QED
  BY <1>3, <1>5, <1>7 DEF m

-----------------------------------------------------------------------------
(* The steps                                                               *)

(* The console begins empty and with all buffers lent (virtio_console_init).*)
LEMMA InitIInv ==
  ASSUME ConstantsAssumption, Init
  PROVE  IInv
<1>1. TypeOK
  <2>1. used \in Seq(Messages) /\ batch \in Seq(Messages)
    BY DEF Init
  <2>2. lent \in 0..QSize /\ pos \in 0..(ConsoleSize - 1)
    BY Sizes DEF Init
  <2>3. rx \in [Places -> Messages \union {0, Leftover}]
    BY DEF Init
  <2> QED
    BY <2>1, <2>2, <2>3 DEF Init, TypeOK
<1>2. BufferInv
  BY Sizes DEF Init, BufferInv
<1>3. CallInv
  BY DEF Init, CallInv, Returned
<1>4. PrintInv
  BY DEF Init, PrintInv, PrintedWhole
<1> QED
  BY <1>1, <1>2, <1>3, <1>4 DEF IInv

(* A step that leaves the receive buffer alone leaves what it says.        *)
LEMMA SameBuffer ==
  ASSUME rx' = rx
  PROVE  /\ \A m : Holds(m)' = Holds(m)
         /\ String' = String
         /\ BufferInv' = BufferInv
BY DEF Holds, String, BufferInv

LEMMA SamePrint ==
  ASSUME PrintInv, rx' = rx, UNCHANGED << lock, printVars >>
  PROVE  PrintInv'
BY SameBuffer DEF PrintInv, PrintedWhole, printVars

(* While nothing is printed the buffer may change.                         *)
LEMMA NotPrinting ==
  ASSUME PrintInv, ~ lock, UNCHANGED << lock, printVars >>
  PROVE  PrintInv'
BY DEF PrintInv, PrintedWhole, printVars

LEMMA BackendSendIInv ==
  ASSUME ConstantsAssumption, IInv, BackendSend
  PROVE  IInv'
<1> USE DEF bufferVars, callVars, printVars
<1>1. TypeOK'
  BY Sizes DEF IInv, TypeOK, BackendSend
<1>2. CallInv'
  BY SameBuffer DEF IInv, CallInv, BackendSend, Returned
<1> QED
  BY <1>1, <1>2, SameBuffer, SamePrint DEF IInv, BackendSend

LEMMA OtherCauseIInv ==
  ASSUME ConstantsAssumption, IInv, OtherCause
  PROVE  IInv'
<1> USE DEF bufferVars, callVars, printVars
<1>1. TypeOK'
  BY DEF IInv, TypeOK, OtherCause
<1>2. CallInv'
  BY SameBuffer DEF IInv, CallInv, OtherCause, Returned
<1> QED
  BY <1>1, <1>2, SameBuffer, SamePrint DEF IInv, OtherCause

LEMMA AcknowledgeIInv ==
  ASSUME ConstantsAssumption, IInv, Acknowledge
  PROVE  IInv'
<1> USE DEF bufferVars, callVars, printVars
<1>1. TypeOK'
  <2>1. batch' \in Seq(Messages)
    BY DEF Acknowledge
  <2> QED
    BY <2>1 DEF IInv, TypeOK, Acknowledge
<1>2. CallInv'
  BY DEF CallInv, Acknowledge, Returned
<1> QED
  BY <1>1, <1>2, SameBuffer, SamePrint DEF IInv, Acknowledge

(* Only the first byte is cleared: the others are those of the last text.  *)
LEMMA ResetIInv ==
  ASSUME ConstantsAssumption, IInv, Reset
  PROVE  IInv'
<1> USE DEF ringVars, printVars
<1>0. rx \in [Places -> Messages \union {0, Leftover}]
  BY DEF IInv, TypeOK
<1>1. rx' \in [Places -> Messages \union {0, Leftover}] /\ pos' = 0
  BY <1>0, Sizes DEF Reset
<1>2. TypeOK'
  BY <1>1, Sizes DEF IInv, TypeOK, Reset
<1>3. rx'[0] = 0 /\ \A i \in Places : i # 0 => rx'[i] = rx[i]
  BY <1>0, Sizes DEF Reset
<1>4. BufferInv'
  BY <1>3, Sizes DEF IInv, BufferInv
<1>5. CallInv'
  BY <1>1, <1>3 DEF IInv, CallInv, Reset, Returned
<1>6. PrintInv'
  BY NotPrinting DEF IInv, Reset, CanLock
<1> QED
  BY <1>2, <1>4, <1>5, <1>6 DEF IInv

LEMMA GetUsedIInv ==
  ASSUME ConstantsAssumption, IInv, GetUsed
  PROVE  IInv'
<1> USE DEF bufferVars, callVars, printVars
<1>1. CASE used = << >>
  <2>1. TypeOK'
    BY <1>1 DEF IInv, TypeOK, GetUsed
  <2>2. CallInv'
    BY <1>1, SameBuffer DEF IInv, CallInv, GetUsed, Returned
  <2> QED
    BY <2>1, <2>2, SameBuffer, SamePrint DEF IInv, GetUsed
<1>2. CASE used # << >>
  <2>1. Head(used) \in Messages /\ Tail(used) \in Seq(Messages)
    BY <1>2 DEF IInv, TypeOK
  <2>2. batch' = Append(batch, Head(used)) /\ batch \in Seq(Messages)
    BY <1>2 DEF IInv, TypeOK, GetUsed
  <2>3. /\ batch' \in Seq(Messages) /\ batch' # << >>
        /\ batch = << >> => batch' = << Head(used) >>
        /\ batch # << >> => batch'[1] = batch[1]
    <3>1. CASE batch = << >>
      BY <2>1, <2>2, <3>1
    <3>2. CASE batch # << >>
      <4>1. Append(batch, Head(used))[1] = batch[1]
        BY <2>1, <2>2, <3>2
      <4> QED
        BY <4>1, <2>1, <2>2, <3>2
    <3> QED
      BY <3>1, <3>2
  <2>4. TypeOK'
    BY <1>2, <2>1, <2>3 DEF IInv, TypeOK, GetUsed
  <2>5. CallInv'
    <3>1. hpc = "scan" /\ hpc' = "append" /\ pos' = pos /\ rx' = rx
          /\ cur' = Head(used)
      BY <1>2 DEF GetUsed
    <3>2. ASSUME pos = 0  PROVE rx[0] = 0 /\ batch' = << cur' >>
      BY <3>1, <3>2, <2>3 DEF IInv, CallInv
    <3>3. ASSUME pos # 0  PROVE pos >= BufSize - 1 /\ Holds(batch[1])'
      <4>1. pos >= BufSize - 1 /\ batch # << >> /\ Holds(batch[1])
        BY <3>1, <3>3 DEF IInv, CallInv
      <4> QED
        BY <4>1, <2>3, <3>1 DEF Holds, Cut
    <3> QED
      BY <3>1, <3>2, <3>3, <2>1, <2>3 DEF CallInv, Returned
  <2> QED
    BY <2>4, <2>5, SameBuffer, SamePrint DEF IInv, GetUsed
<1> QED
  BY <1>1, <1>2

(* The first message fills the buffer up to BufSize - 1, and the others    *)
(* nothing: the copy loop starts at a position where it would have ended.  *)
LEMMA AppendBufferIInv ==
  ASSUME ConstantsAssumption, IInv, AppendBuffer
  PROVE  IInv'
<1> USE DEF ringVars, bufferVars, printVars
<1>0. /\ rx \in [Places -> Messages \union {0, Leftover}]
      /\ pos \in 0..(ConsoleSize - 1)
      /\ cur \in Messages
      /\ batch \in Seq(Messages) /\ batch # << >>
      /\ hpc = "append"
  BY DEF IInv, TypeOK, CallInv, AppendBuffer
<1>1. CASE ~ Fits
  <2>1. hpc' = "idle" /\ got' = FALSE /\ rx' = rx /\ pos' = pos
    BY <1>1 DEF AppendBuffer
  <2>2. TypeOK'
    BY <2>1 DEF IInv, TypeOK, AppendBuffer
  <2>3. CallInv'
    BY <2>1 DEF CallInv, Returned
  <2> QED
    BY <2>1, <2>2, <2>3, SameBuffer, SamePrint DEF IInv, AppendBuffer
<1>2. CASE Fits
  <2>1. rx' = Appended /\ pos' = pos + BufSize - 1 /\ hpc' = "scan"
    BY <1>2 DEF AppendBuffer, NextBuffer
  <2>2. /\ pos' \in 0..(ConsoleSize - 1)
        /\ pos' >= BufSize - 1 /\ pos' # 0
    BY <1>0, <1>2, <2>1, Sizes DEF Fits
  <2>3. \A i \in Places : (IF i \in pos..(BufSize - 2) THEN Data(i) ELSE rx[i])
                            \in Messages \union {0, Leftover}
    BY <1>0 DEF Data
  <2>4. rx' \in [Places -> Messages \union {0, Leftover}]
    BY <2>1, <2>3 DEF Appended
  <2>5. TypeOK'
    BY <2>1, <2>2, <2>4 DEF IInv, TypeOK, AppendBuffer
  <2>6. CASE pos = 0
    <3>1. batch = << cur >>
      BY <1>0, <2>6 DEF IInv, CallInv
    <3>2. \A i \in Places :
            rx'[i] = IF i <= BufSize - 2 THEN Data(i) ELSE rx[i]
      BY <2>1, <2>6, Sizes DEF Appended
    <3>3. \A i \in Places : i >= BufSize - 1 => rx'[i] \in {0, Leftover}
      BY <3>2, Sizes DEF IInv, BufferInv
    <3>4. Holds(cur)'
      <4> SUFFICES ASSUME NEW i \in 0..(BufSize - 2)
                   PROVE  rx'[i] = IF i < Cut(cur) THEN cur ELSE 0
        BY DEF Holds, Cut, AppendBuffer
      <4>1. i \in Places /\ i <= BufSize - 2
        BY Sizes
      <4> QED
        BY <4>1, <3>2, <1>0, Sizes DEF Data, Cut
    <3>5. cur' = cur /\ batch' = batch /\ batch[1] = cur
      BY <3>1 DEF AppendBuffer
    <3>6. BufferInv'
      BY <3>3, <3>4, <3>5, <1>0 DEF BufferInv
    <3>7. CallInv'
      BY <3>4, <3>5, <2>1, <2>2, <1>0 DEF CallInv, Returned
    <3> QED
      BY <2>5, <3>6, <3>7, NotPrinting DEF IInv, AppendBuffer, CanLock
  <2>7. CASE pos # 0
    <3>1. pos >= BufSize - 1
      BY <1>0, <2>7 DEF IInv, CallInv
    <3>2. \A i \in Places : i \notin pos..(BufSize - 2)
      BY <3>1, <1>0, Sizes
    <3>3. rx' = rx
      BY <2>1, <3>2, <1>0 DEF Appended
    <3>4. CallInv'
      BY <3>3, <2>1, <2>2, <2>7, <1>0, SameBuffer
      DEF IInv, CallInv, Returned, AppendBuffer
    <3> QED
      BY <2>5, <3>3, <3>4, SameBuffer, SamePrint DEF IInv, AppendBuffer
  <2> QED
    BY <2>6, <2>7
<1> QED
  BY <1>1, <1>2

(* The zero byte goes behind what was appended, or to the first place.     *)
LEMMA AppendNullIInv ==
  ASSUME ConstantsAssumption, IInv, AppendNull
  PROVE  IInv'
<1> USE DEF ringVars, printVars
<1>0. /\ rx \in [Places -> Messages \union {0, Leftover}]
      /\ pos \in 0..(ConsoleSize - 1)
      /\ hpc = "null"
  BY DEF IInv, TypeOK, AppendNull
<1>1. /\ pos' \in 0..(ConsoleSize - 1)
      /\ got' \in BOOLEAN
      /\ got' => pos # 0
      /\ hpc' = "idle"
  <2>1. CASE pos < ConsoleSize - 1
    <3>1. pos' = pos + 1 /\ (got' = (pos' > 1)) /\ hpc' = "idle"
      BY <2>1 DEF AppendNull
    <3>2. CASE pos' > 1
      <4>1. got' = TRUE
        BY <3>1, <3>2
      <4> QED
        BY <4>1, <3>1, <3>2, <2>1, <1>0, Sizes
    <3>3. CASE ~ (pos' > 1)
      <4>1. pos' \in 0..(ConsoleSize - 1)
        BY <3>1, <2>1, <1>0, Sizes
      <4>2. (pos' > 1) \in BOOLEAN
        BY <4>1, Sizes
      <4>3. got' \in BOOLEAN /\ ~ got'
        BY <4>2, <3>1, <3>3, Zenon
      <4> QED
        BY <4>1, <4>3, <3>1
    <3> QED
      BY <3>2, <3>3
  <2>2. CASE ~ (pos < ConsoleSize - 1)
    BY <2>2, <1>0 DEF AppendNull, bufferVars
  <2> QED
    BY <2>1, <2>2
<1>2. /\ rx' \in [Places -> Messages \union {0, Leftover}]
      /\ \A i \in Places : rx'[i] = rx[i] \/ (i = pos /\ rx'[i] = 0)
  <2>1. CASE pos < ConsoleSize - 1
    <3>1. rx' = [rx EXCEPT ![pos] = 0]
      BY <2>1 DEF AppendNull
    <3> QED
      BY <3>1, <1>0
  <2>2. CASE ~ (pos < ConsoleSize - 1)
    BY <2>2, <1>0 DEF AppendNull, bufferVars
  <2> QED
    BY <2>1, <2>2
<1>3. TypeOK'
  BY <1>1, <1>2 DEF IInv, TypeOK, AppendNull
<1>4. PrintInv'
  BY NotPrinting DEF IInv, AppendNull, CanLock
<1>5. batch' = batch
  BY DEF AppendNull
<1>6. \A i \in Places : i >= BufSize - 1 => rx'[i] \in {0, Leftover}
  BY <1>2 DEF IInv, BufferInv
<1>7. CASE pos = 0
  <2>1. rx[0] = 0
    BY <1>0, <1>7 DEF IInv, CallInv
  <2>2. rx'[0] = 0
    BY <1>2, <2>1, Sizes
  <2>3. BufferInv'
    BY <1>6, <2>2 DEF BufferInv
  <2>4. CallInv'
    BY <1>1, <1>7 DEF CallInv, Returned
  <2> QED
    BY <1>3, <1>4, <2>3, <2>4 DEF IInv
<1>8. CASE pos # 0
  <2>1. pos >= BufSize - 1 /\ batch # << >> /\ Holds(batch[1])
    BY <1>0, <1>8 DEF IInv, CallInv
  <2>2. \A i \in 0..(BufSize - 2) : rx'[i] = rx[i]
    <3> SUFFICES ASSUME NEW i \in 0..(BufSize - 2)
                 PROVE  rx'[i] = rx[i]
      OBVIOUS
    <3>1. i \in Places /\ i # pos
      BY <1>0, <2>1, Sizes
    <3> QED
      BY <1>2, <3>1
  <2>3. Holds(batch[1])'
    BY <2>1, <2>2, <1>5 DEF Holds, Cut
  <2>4. batch[1] \in Messages
    BY <2>1 DEF IInv, TypeOK
  <2>5. BufferInv'
    BY <1>5, <1>6, <2>3, <2>4 DEF BufferInv
  <2>6. CallInv'
    BY <1>1, <2>3 DEF CallInv
  <2> QED
    BY <1>3, <1>4, <2>5, <2>6 DEF IInv
<1> QED
  BY <1>7, <1>8

(* What is printed is what the buffer holds, and that is a text or empty.  *)
LEMMA BeginPrintIInv ==
  ASSUME ConstantsAssumption, IInv, BeginPrint
  PROVE  IInv'
<1> USE DEF ringVars, bufferVars, callVars
<1>1. TypeOK'
  BY DEF IInv, TypeOK, BeginPrint
<1>2. rx' = rx /\ printed' = String
  BY DEF BeginPrint
<1>3. CallInv'
  BY <1>2, SameBuffer DEF IInv, CallInv, BeginPrint, Returned
<1>4. String # << >> =>
        \E m \in Messages :
          /\ BeginsWith(String, m)
          /\ \A i \in DOMAIN String : i > Cut(m) => String[i] = Leftover
  BY StringOfText, StringOfNothing DEF IInv, BufferInv
<1>5. PrintInv'
  BY <1>2, <1>4, SameBuffer DEF PrintInv, PrintedWhole, BeginPrint
<1> QED
  BY <1>1, <1>2, <1>3, <1>5, SameBuffer DEF IInv

LEMMA EndPrintIInv ==
  ASSUME ConstantsAssumption, IInv, EndPrint
  PROVE  IInv'
<1> USE DEF ringVars, bufferVars, callVars
<1>1. TypeOK'
  BY DEF IInv, TypeOK, EndPrint
<1>2. CallInv'
  BY SameBuffer DEF IInv, CallInv, EndPrint, Returned
<1>3. PrintInv'
  BY DEF IInv, PrintInv, PrintedWhole, EndPrint
<1> QED
  BY <1>1, <1>2, <1>3, SameBuffer DEF IInv, EndPrint

LEMMA NextIInv ==
  ASSUME ConstantsAssumption, IInv, [Next]_vars
  PROVE  IInv'
<1>1. CASE UNCHANGED vars
  <2>1. rx' = rx
    BY <1>1 DEF vars, bufferVars
  <2>2. TypeOK'
    BY <1>1 DEF IInv, TypeOK, vars, ringVars, bufferVars, callVars, printVars
  <2>3. CallInv'
    BY <1>1, SameBuffer
    DEF IInv, CallInv, vars, ringVars, bufferVars, callVars, printVars,
        Returned
  <2> QED
    BY <1>1, <2>1, <2>2, <2>3, SameBuffer, SamePrint DEF IInv, vars
<1> QED
  BY <1>1, BackendSendIInv, OtherCauseIInv, AcknowledgeIInv, ResetIInv, GetUsedIInv,
     AppendBufferIInv, AppendNullIInv, BeginPrintIInv, EndPrintIInv
  DEF Next, Receive

LEMMA IInvCorrect == Spec => []IInv
<1>1. Init => IInv
  BY ConstantsAssumption, InitIInv
<1>2. IInv /\ [Next]_vars => IInv'
  BY ConstantsAssumption, NextIInv
<1> QED
  BY <1>1, <1>2, PTL DEF Spec

-----------------------------------------------------------------------------
(* The position stays in the receive buffer, however many messages come    *)
(* (virtio_console_rx_append_buffer and virtio_console_rx_append_null).    *)
THEOREM TypeCorrect == Spec => []TypeOK
<1>1. IInv => TypeOK
  BY DEF IInv
<1> QED
  BY <1>1, IInvCorrect, PTL

(* When virtio_console_receive returns true the receive buffer begins with *)
(* the text of the first message of the batch, and nothing in it is of an  *)
(* earlier call.                                                           *)
THEOREM NeverStale == Spec => []NothingStale
<1>1. IInv => NothingStale
  BY ConstantsAssumption, FirstText DEF IInv
<1> QED
  BY <1>1, IInvCorrect, PTL

(* Whatever the handler does meanwhile, virtio_console_rx_print_buffer     *)
(* prints one whole text or nothing, but for what was in the memory.       *)
THEOREM WholePrinted == Spec => []PrintedWhole
<1>1. IInv => PrintedWhole
  BY DEF IInv, PrintInv
<1> QED
  BY <1>1, IInvCorrect, PTL
=============================================================================
