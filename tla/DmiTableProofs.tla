--------------------------- MODULE DmiTableProofs ---------------------------
(***************************************************************************)
(* Proofs about DmiTable: for every table, whatever its bytes, the walk    *)
(* reads inside of the table, delivers complete structures that follow     *)
(* each other without gap, counts each header once and finds the first     *)
(* match, and dmi_string() stays in its structure for every string number. *)
(* That the walk ends (liveness) is left to TLC.                           *)
(***************************************************************************)
EXTENDS DmiTable, FoldProofs, TLAPS

(* What the walk needs to go on: while the inner loop runs, the header is  *)
(* in the table and next is behind the formatted part; until the walk      *)
(* returns, everything delivered lies before data and nothing was found.   *)
WalkInv ==
  /\ pc = "scan" => /\ data + 4 <= len
                    /\ Length(buf, data) >= 4
                    /\ next >= data + Length(buf, data)
  /\ pc # "return" => /\ \A k \in DOMAIN delivered : delivered[k][2] <= data
                      /\ found = -1

(* The inductive invariant.  DeliveredComplete is part of it because a     *)
(* match must stay a match: the header of a delivered structure lies       *)
(* before the bytes that dmi_string() may overwrite later.                 *)
Inv ==
  /\ TypeOK
  /\ ReadsInTable
  /\ DeliveredComplete
  /\ DeliveredContiguous
  /\ CountedOncePerHeader
  /\ FindsFirst
  /\ WalkInv

-----------------------------------------------------------------------------
(* Bytes are natural numbers. *)
LEMMA ByteIsNat == \A x \in Byte : x \in Nat
BY DEF Byte

(* dmi_string() for the structure at d writes no byte of its header or of  *)
(* its formatted part, nor of a structure before it, and neither writes    *)
(* nor removes a NUL.                                                      *)
LEMMA CallbackEffect ==
  ASSUME TypeOK, NEW d \in 0 .. len - 4, NEW b \in AfterCallback(d)
  PROVE  /\ b \in [0 .. len - 1 -> Byte]
         /\ \A k \in 0 .. len - 1 : b[k] = 0 <=> buf[k] = 0
         /\ \A k \in 0 .. len - 1 : k < d + buf[d + 1] => b[k] = buf[k]
<1>1. CASE b = buf
  BY <1>1 DEF TypeOK
<1>2. CASE \E P \in SUBSET Asked(d) : b = Filtered(P)
  <2>1. PICK P \in SUBSET Asked(d) : b = Filtered(P)
    BY <1>2
  <2>2. /\ len \in Nat
        /\ buf \in [0 .. len - 1 -> Byte]
        /\ Strings(d) = d + buf[d + 1]
        /\ buf[d + 1] \in Byte
    BY DEF TypeOK, Strings, Length
  <2>3. \A p \in P : p \in Int /\ d + buf[d + 1] <= p
    BY <2>1, <2>2 DEF Asked, Byte
  <2>4. DOMAIN buf = 0 .. len - 1
    BY <2>2
  <2>5. b = [k \in 0 .. len - 1 |->
               IF Unprintable(buf[k]) /\ \E p \in P : InString(p, k) THEN 46 ELSE buf[k]]
    BY <2>1, <2>4 DEF Filtered
  <2>6. ASSUME NEW k \in 0 .. len - 1, NEW p \in P
        PROVE  InString(p, k) => k >= p /\ buf[k] # 0
    BY <2>3 DEF InString
  <2>7. ASSUME NEW k \in 0 .. len - 1
        PROVE  /\ b[k] \in Byte
               /\ b[k] = 0 <=> buf[k] = 0
               /\ k < d + buf[d + 1] => b[k] = buf[k]
    <3>1. b[k] = IF Unprintable(buf[k]) /\ \E p \in P : InString(p, k) THEN 46 ELSE buf[k]
      BY <2>5
    <3>2. buf[k] \in Byte
      BY <2>2
    <3>3. CASE Unprintable(buf[k]) /\ \E p \in P : InString(p, k)
      <4>0. PICK p \in P : InString(p, k)
        BY <3>3
      <4>1. b[k] = 46
        BY <3>1, <3>3
      <4>2. k >= p /\ buf[k] # 0
        BY <4>0, <2>6
      <4>3. k \in Int /\ buf[d + 1] \in Int /\ d \in Int
        <5>1. buf[d + 1] \in Nat
          BY <2>2, ByteIsNat
        <5> QED BY <5>1
      <4>4. ~ (k < d + buf[d + 1])
        BY <4>0, <4>2, <4>3, <2>3
      <4> QED BY <4>1, <4>2, <4>4 DEF Byte
    <3>4. CASE ~ (Unprintable(buf[k]) /\ \E p \in P : InString(p, k))
      <4>1. b[k] = buf[k]
        BY <3>1, <3>4
      <4> QED BY <4>1, <3>2
    <3> QED BY <3>3, <3>4
  <2> QED BY <2>5, <2>7
<1>3. b = buf \/ \E P \in SUBSET Asked(d) : b = Filtered(P)
  BY DEF AfterCallback
<1> QED BY <1>1, <1>2, <1>3

(* What stays true of the structures delivered before, and of the current  *)
(* one, when the callback has changed the table to b.                      *)
LEMMA HeaderKept ==
  ASSUME TypeOK, NEW d \in 0 .. len - 4, NEW b \in AfterCallback(d),
         buf[d + 1] >= 4,
         NEW e \in Nat, e <= d
  PROVE  /\ b[e] = buf[e]
         /\ b[e + 1] = buf[e + 1]
         /\ b[e + 2] = buf[e + 2]
         /\ b[e + 3] = buf[e + 3]
<1>1. len \in Nat /\ buf[d + 1] \in Byte
  BY DEF TypeOK
<1>2. \A k \in 0 .. len - 1 : k < d + buf[d + 1] => b[k] = buf[k]
  BY CallbackEffect
<1>3. /\ e \in 0 .. len - 1 /\ e + 1 \in 0 .. len - 1
      /\ e + 2 \in 0 .. len - 1 /\ e + 3 \in 0 .. len - 1
      /\ e + 3 < d + buf[d + 1]
  BY <1>1 DEF Byte
<1> QED BY <1>2, <1>3, <1>1 DEF Byte

(* Whether a structure matches the search depends on its header only. *)
LEMMA MatchesKept ==
  ASSUME NEW e, search' = search,
         buf'[e] = buf[e], buf'[e + 2] = buf[e + 2], buf'[e + 3] = buf[e + 3]
  PROVE  Matches(e)' <=> Matches(e)
BY DEF Matches, Type, Handle

-----------------------------------------------------------------------------
LEMMA InitInv == Init => Inv
<1> SUFFICES ASSUME Init PROVE Inv
  OBVIOUS
<1>1. PICK t \in Tables : len = Len(t) /\ buf = [k \in 0 .. Len(t) - 1 |-> t[k + 1]]
  BY DEF Init
<1>2. t \in Seq(Byte)
  BY TableAssumption
<1>3. buf \in [0 .. len - 1 -> Byte] /\ len \in Nat
  BY <1>1, <1>2
<1>4. /\ num \in Nat /\ stop_at_eot \in BOOLEAN
      /\ search \in [kind : SearchKinds, target : Nat]
  BY TableAssumption DEF Init
<1>5. TypeOK
  BY <1>3, <1>4 DEF Init, TypeOK
<1>6. DOMAIN delivered = {} /\ Len(delivered) = 0
  BY DEF Init
<1> QED
  BY <1>3, <1>4, <1>5, <1>6
     DEF Init, Inv, ReadsInTable, DeliveredComplete, DeliveredContiguous,
         CountedOncePerHeader, FindsFirst, WalkInv

(* Steps that deliver nothing and leave the table alone keep what is said  *)
(* of the structures delivered.                                            *)
LEMMA NothingDelivered ==
  ASSUME Inv, UNCHANGED <<params, buf, delivered, found>>
  PROVE  /\ DeliveredComplete'
         /\ FindsFirst'
<1> QED
  BY DEF Inv, DeliveredComplete, Complete, Length, FindsFirst, Matches, Type, Handle, params

(* The bytes that the two loops read are in the table. *)
LEMMA LoopSteps ==
  ASSUME Inv, Finish \/ ShortEntry \/ Header \/ Scan \/ Truncated
  PROVE  Inv'
<1>1. /\ UNCHANGED <<params, buf, delivered, found, data>>
      /\ len' = len /\ num' = num
  BY DEF Finish, ShortEntry, Header, Scan, Truncated, params
<1>2. DeliveredComplete' /\ FindsFirst'
  BY <1>1, NothingDelivered DEF params
<1>3. /\ len \in Nat /\ num \in Nat /\ i \in Nat /\ data \in Nat /\ next \in Nat /\ last \in Int
      /\ buf \in [0 .. len - 1 -> Byte]
      /\ last < len
      /\ Len(delivered) \in Nat
  BY DEF Inv, TypeOK, ReadsInTable
<1>4. TypeOK
  BY DEF Inv
<1>5. CASE Finish
  BY <1>1, <1>2, <1>3, <1>4, <1>5
     DEF Inv, Finish, TypeOK, ReadsInTable, DeliveredContiguous, CountedOncePerHeader,
         WalkInv, params
<1>6. CASE ShortEntry
  BY <1>1, <1>2, <1>3, <1>4, <1>6
     DEF Inv, ShortEntry, HeaderFits, Upto, TypeOK, ReadsInTable, DeliveredContiguous,
         CountedOncePerHeader, WalkInv, params
<1>7. CASE Header
  <2>1. Length(buf, data) \in Byte /\ Length(buf, data) >= 4 /\ data + 4 <= len
    BY <1>3, <1>7 DEF Header, HeaderFits, Length
  <2>2. /\ pc = "while" /\ pc' = "scan" /\ i' = i + 1 /\ next' = data + Length(buf, data)
        /\ last' = Upto(last, data + 3) /\ (i < num \/ num = 0)
    BY <1>7 DEF Header, HeaderFits
  <2>3. last' \in Int /\ last' < len /\ next' \in Nat
    <3>1. Length(buf, data) \in Nat
      BY <2>1, ByteIsNat
    <3> QED BY <1>3, <2>1, <2>2, <3>1 DEF Upto
  <2>4. TypeOK' /\ ReadsInTable'
    BY <1>1, <1>3, <1>4, <2>2, <2>3 DEF TypeOK, ReadsInTable, params
  <2>5. DeliveredContiguous' /\ CountedOncePerHeader'
    BY <1>1, <1>3, <2>2 DEF Inv, DeliveredContiguous, CountedOncePerHeader
  <2>6. next' >= data + Length(buf, data)
    BY <1>3, <2>1, <2>2 DEF Byte
  <2>7. WalkInv'
    BY <1>1, <2>1, <2>2, <2>6 DEF Inv, WalkInv, Length
  <2> QED BY <1>2, <2>4, <2>5, <2>7 DEF Inv
<1>8. CASE Scan
  <2>1. Length(buf, data) \in Byte
    BY <1>3, <1>8 DEF Inv, WalkInv, Scan, Length
  <2>2. /\ pc = "scan" /\ pc' = "scan" /\ i' = i /\ next' = next + 1
        /\ last' = Upto(last, next + 1) /\ next + 1 < len
    BY <1>8 DEF Scan, InTable
  <2>3. last' \in Int /\ last' < len /\ next' \in Nat
    BY <1>3, <2>1, <2>2 DEF Upto
  <2>4. TypeOK' /\ ReadsInTable'
    BY <1>1, <1>3, <1>4, <2>2, <2>3 DEF TypeOK, ReadsInTable, params
  <2>5. DeliveredContiguous' /\ CountedOncePerHeader'
    BY <1>1, <1>3, <2>2 DEF Inv, DeliveredContiguous, CountedOncePerHeader
  <2>6. next >= data + Length(buf, data)
    BY <2>2 DEF Inv, WalkInv
  <2>7. next' >= data + Length(buf, data)
    <3>1. Length(buf, data) \in Nat
      BY <2>1, ByteIsNat
    <3> QED BY <1>3, <2>2, <2>6, <3>1
  <2>8. WalkInv'
    BY <1>1, <2>2, <2>7 DEF Inv, WalkInv, Length
  <2> QED BY <1>2, <2>4, <2>5, <2>8 DEF Inv
<1>9. CASE Truncated
  BY <1>1, <1>2, <1>3, <1>4, <1>9
     DEF Inv, Truncated, InTable, Read, Upto, TypeOK, ReadsInTable, DeliveredContiguous,
         CountedOncePerHeader, WalkInv, params
<1> QED BY <1>5, <1>6, <1>7, <1>8, <1>9

-----------------------------------------------------------------------------
(* A structure goes to the callback. *)
DeliverStep == DeliverAndStop \/ DeliverAndContinue

(* Its end is two NULs behind the formatted part. *)
LEMMA DeliverFacts ==
  ASSUME Inv, DeliverStep
  PROVE  /\ data \in 0 .. len - 4
         /\ buf[data + 1] \in Byte /\ buf[data + 1] >= 4
         /\ next \in Nat /\ data + buf[data + 1] <= next
         /\ next + 2 <= len
         /\ buf[next] = 0 /\ buf[next + 1] = 0
         /\ last' \in Int /\ last' < len
         /\ next' = next + 2 /\ len' = len /\ num' = num /\ i' = i
         /\ search' = search /\ stop_at_eot' = stop_at_eot
         /\ buf' \in AfterCallback(data)
         /\ delivered' = Append(delivered, <<data, next + 2>>)
         /\ pc = "scan" /\ found = -1
<1>1. TypeOK /\ WalkInv /\ ReadsInTable /\ pc = "scan"
  BY DEF Inv, DeliverStep, DeliverAndStop, DeliverAndContinue
<1>2. /\ next + 2 <= len
      /\ ScanOver
      /\ last' = Read
  BY DEF DeliverStep, DeliverAndStop, DeliverAndContinue, Whole
<1>3. InTable(next)
  BY <1>1, <1>2 DEF InTable, TypeOK
<1>4. data \in 0 .. len - 4 /\ buf[data + 1] \in Byte /\ buf[data + 1] >= 4
      /\ data + buf[data + 1] <= next
  BY <1>1 DEF TypeOK, WalkInv, Length, Byte
<1>5. buf[next] = 0 /\ buf[next + 1] = 0
  BY <1>2, <1>3 DEF ScanOver, AtEnd
<1>6. last' \in Int /\ last' < len
  BY <1>1, <1>2, <1>3 DEF Read, Upto, TypeOK, ReadsInTable, InTable
<1>7. /\ next' = next + 2 /\ len' = len /\ num' = num /\ i' = i
      /\ search' = search /\ stop_at_eot' = stop_at_eot
      /\ buf' \in AfterCallback(data)
      /\ delivered' = Append(delivered, <<data, next + 2>>)
  BY DEF DeliverStep, DeliverAndStop, DeliverAndContinue, params
<1>8. next \in Nat /\ found = -1
  BY <1>1 DEF TypeOK, WalkInv
<1> QED BY <1>1, <1>2, <1>4, <1>5, <1>6, <1>7, <1>8

(* What the sequence of delivered structures looks like afterwards. *)
LEMMA DeliverSeq ==
  ASSUME Inv, DeliverStep
  PROVE  /\ delivered' \in Seq(Nat \X Nat)
         /\ Len(delivered) \in Nat
         /\ Len(delivered') = Len(delivered) + 1
         /\ DOMAIN delivered = 1 .. Len(delivered)
         /\ DOMAIN delivered' = 1 .. Len(delivered) + 1
         /\ delivered' # <<>>
         /\ \A k \in 1 .. Len(delivered) : /\ delivered'[k] = delivered[k]
                                           /\ delivered[k][1] \in Nat
                                           /\ delivered[k][2] \in Nat
                                           /\ delivered[k][2] <= data
         /\ delivered'[Len(delivered) + 1] = <<data, next + 2>>
<1>1. /\ delivered \in Seq(Nat \X Nat) /\ data \in Nat /\ next + 2 \in Nat
      /\ \A k \in DOMAIN delivered : delivered[k][2] <= data
  <2>1. pc = "scan" /\ next \in Nat
    BY DeliverFacts
  <2> QED BY <2>1 DEF Inv, TypeOK, WalkInv
<1>2. delivered' = Append(delivered, <<data, next + 2>>)
  BY DeliverFacts
<1>3. <<data, next + 2>> \in Nat \X Nat
  BY <1>1
<1>4. \A k \in 1 .. Len(delivered) : delivered[k] \in Nat \X Nat
  BY <1>1
<1>5. \A k \in 1 .. Len(delivered) : delivered[k][1] \in Nat /\ delivered[k][2] \in Nat
  BY <1>4
<1>6. delivered' \in Seq(Nat \X Nat) /\ Len(delivered') = Len(delivered) + 1
  BY <1>1, <1>2, <1>3
<1>7. /\ \A k \in 1 .. Len(delivered) : delivered'[k] = delivered[k]
      /\ delivered'[Len(delivered) + 1] = <<data, next + 2>>
  BY <1>1, <1>2, <1>3
<1>8. DOMAIN delivered = 1 .. Len(delivered) /\ DOMAIN delivered' = 1 .. Len(delivered')
      /\ Len(delivered) \in Nat
  BY <1>1, <1>6
<1>9. delivered' # <<>>
  BY <1>6, <1>8
<1> QED BY <1>1, <1>5, <1>6, <1>7, <1>8, <1>9

(* Complete() of the structures delivered, the new one included. *)
LEMMA DeliverComplete ==
  ASSUME Inv, DeliverStep, NEW n, n = Len(delivered) + 1
  PROVE  DeliveredComplete'
<1>1. TypeOK /\ len \in Nat /\ len' = len
  BY DeliverFacts DEF Inv, TypeOK
<1>2. \A k \in 0 .. len - 1 : buf'[k] = 0 <=> buf[k] = 0
  BY <1>1, DeliverFacts, CallbackEffect
<1>3. ASSUME NEW e \in Nat, e <= data PROVE buf'[e + 1] = buf[e + 1]
  BY <1>1, <1>3, DeliverFacts, HeaderKept
<1>4. ASSUME NEW k \in 1 .. Len(delivered) PROVE Complete(delivered[k])'
  <2> DEFINE e == delivered[k][1]
             f == delivered[k][2]
  <2>1. delivered'[k] = delivered[k] /\ e \in Nat /\ f \in Nat /\ f <= data /\ k \in DOMAIN delivered
    BY <1>4, DeliverSeq
  <2>2. /\ e + 4 <= f - 2 /\ e + buf[e + 1] <= f - 2 /\ f <= len
        /\ buf[f - 2] = 0 /\ buf[f - 1] = 0
    BY <2>1 DEF Inv, DeliveredComplete, Complete, Length
  <2>3. f - 2 \in 0 .. len - 1 /\ f - 1 \in 0 .. len - 1 /\ e <= data
    <3>1. data \in Nat
      BY <1>1 DEF TypeOK
    <3>2. e \in Int /\ f \in Int /\ len \in Int /\ data \in Int
      BY <3>1, <2>1, <1>1
    <3> HIDE DEF e, f
    <3> QED BY <2>1, <2>2, <3>2
  <2>4. buf'[f - 2] = 0 /\ buf'[f - 1] = 0 /\ buf'[e + 1] = buf[e + 1]
    BY <2>1, <2>2, <2>3, <1>2, <1>3
  <2> QED BY <2>1, <2>2, <2>4, <1>1 DEF Complete, Length
<1>5. Complete(delivered[n])'
  <2>1. delivered'[n] = <<data, next + 2>>
    BY DeliverSeq
  <2>2. /\ data \in Nat /\ next \in Nat /\ data + 4 <= next /\ data + buf[data + 1] <= next
        /\ next + 2 <= len /\ buf[next] = 0 /\ buf[next + 1] = 0
        /\ next \in 0 .. len - 1 /\ next + 1 \in 0 .. len - 1
    <3>1. /\ data \in 0 .. len - 4 /\ next \in Nat /\ data + buf[data + 1] <= next
          /\ buf[data + 1] \in Byte /\ buf[data + 1] >= 4
          /\ next + 2 <= len /\ buf[next] = 0 /\ buf[next + 1] = 0
      BY DeliverFacts
    <3>2. buf[data + 1] \in Nat
      BY <3>1, ByteIsNat
    <3> QED BY <3>1, <3>2, <1>1
  <2>3. buf'[next] = 0 /\ buf'[next + 1] = 0 /\ buf'[data + 1] = buf[data + 1]
    BY <2>2, <1>2, <1>3
  <2>4. (next + 2) - 2 = next /\ (next + 2) - 1 = next + 1
    BY <2>2
  <2> QED BY <2>1, <2>2, <2>3, <2>4, <1>1 DEF Complete, Length
<1>6. DOMAIN delivered' = 1 .. Len(delivered) + 1 /\ Len(delivered) \in Nat
  BY DeliverSeq
<1>7. ASSUME NEW k \in DOMAIN delivered' PROVE Complete(delivered[k])'
  <2>1. k \in 1 .. Len(delivered) \/ k = n
    BY <1>6
  <2> QED BY <2>1, <1>4, <1>5
<1> QED BY <1>7 DEF DeliveredComplete

(* The structures follow each other, the new one included. *)
LEMMA DeliverContiguous ==
  ASSUME Inv, DeliverStep
  PROVE  DeliveredContiguous'
<1> DEFINE n == Len(delivered)
<1>1. /\ n \in Nat /\ Len(delivered') = n + 1 /\ delivered' # <<>>
      /\ \A k \in 1 .. n : delivered'[k] = delivered[k]
      /\ delivered'[n + 1] = <<data, next + 2>>
  BY DeliverSeq
<1>2. data = IF delivered = <<>> THEN 0 ELSE delivered[n][2]
  <2>1. pc = "scan"
    BY DeliverFacts
  <2> QED BY <2>1 DEF Inv, DeliveredContiguous
<1>3. delivered = <<>> <=> n = 0
  BY DEF Inv, TypeOK
<1>4. delivered'[1][1] = 0
  <2>1. CASE n = 0
    BY <2>1, <1>1, <1>2, <1>3
  <2>2. CASE n # 0
    <3>1. delivered[1][1] = 0
      BY <2>2, <1>3 DEF Inv, DeliveredContiguous
    <3>2. 1 \in 1 .. n
      BY <2>2, <1>1
    <3> QED BY <3>1, <3>2, <1>1
  <2> QED BY <2>1, <2>2
<1>5. ASSUME NEW k \in 1 .. n PROVE delivered'[k][2] = delivered'[k + 1][1]
  <2>1. CASE k = n
    <3>1. delivered[n][2] = data
      BY <2>1, <1>2, <1>3, <1>1
    <3> QED BY <3>1, <2>1, <1>1
  <2>2. CASE k # n
    <3>1. k \in 1 .. n - 1 /\ k + 1 \in 1 .. n
      BY <2>2, <1>1
    <3>2. delivered[k][2] = delivered[k + 1][1]
      BY <3>1 DEF Inv, DeliveredContiguous
    <3> QED BY <3>1, <3>2, <1>1
  <2> QED BY <2>1, <2>2
<1>6. pc' # "return" => data' = delivered'[n + 1][2]
  <2>1. pc' # "return" => data' = next + 2
    BY DEF DeliverStep, DeliverAndStop, DeliverAndContinue, NextStructure
  <2> QED BY <2>1, <1>1
<1>7. (n + 1) - 1 = n
  BY <1>1
<1> HIDE DEF n
<1> QED BY <1>1, <1>4, <1>5, <1>6, <1>7 DEF DeliveredContiguous

(* The match that ends a search is the first one. *)
LEMMA DeliverFindsFirst ==
  ASSUME Inv, DeliverStep
  PROVE  FindsFirst'
<1> DEFINE n == Len(delivered)
<1>1. /\ n \in Nat /\ Len(delivered') = n + 1 /\ delivered' # <<>>
      /\ DOMAIN delivered = 1 .. n /\ DOMAIN delivered' = 1 .. n + 1
      /\ \A k \in 1 .. n : /\ delivered'[k] = delivered[k]
                           /\ delivered[k][1] \in Nat
                           /\ delivered[k][2] \in Nat
                           /\ delivered[k][2] <= data
      /\ delivered'[n + 1] = <<data, next + 2>>
  BY DeliverSeq
<1>2. found = -1 /\ search' = search /\ data \in 0 .. len - 4
  BY DeliverFacts
<1>3. ASSUME NEW e \in Nat, e <= data PROVE Matches(e)' <=> Matches(e)
  <2>1. TypeOK /\ buf' \in AfterCallback(data) /\ buf[data + 1] >= 4
    BY DeliverFacts DEF Inv
  <2>2. buf'[e] = buf[e] /\ buf'[e + 2] = buf[e + 2] /\ buf'[e + 3] = buf[e + 3]
    BY <2>1, <1>2, <1>3, HeaderKept
  <2> QED BY <2>2, <1>2, MatchesKept
<1>4. data \in Nat
  BY <1>2
<1>5. PICK d : d = data
  OBVIOUS
<1>5a. Matches(d)' <=> Matches(data)
  <2>1. d \in Nat /\ d <= data
    BY <1>4, <1>5
  <2>2. Matches(d)' <=> Matches(d)
    BY <2>1, <1>3
  <2> QED BY <2>2, <1>5
<1>6. ASSUME NEW k \in 1 .. n PROVE ~ Matches(delivered[k][1])'
  <2> DEFINE e == delivered[k][1]
  <2>1. delivered'[k] = delivered[k] /\ e \in Nat /\ delivered[k][2] \in Nat /\ delivered[k][2] <= data
    BY <1>1
  <2>2. e + 4 <= delivered[k][2] - 2
    BY <1>1 DEF Inv, DeliveredComplete, Complete
  <2>3. e <= data
    BY <2>1, <2>2, <1>4
  <2>4. Matches(e) => found = e
    BY <1>1 DEF Inv, FindsFirst
  <2>5. ~ Matches(e)
    BY <2>4, <2>1, <1>2
  <2>6. ~ Matches(e)'
    BY <2>5, <1>3, <2>1, <2>3
  <2> QED BY <2>6, <2>1 DEF Matches, Type, Handle
<1>7. found' = IF Matches(data) THEN data ELSE -1
  BY <1>2 DEF DeliverStep, DeliverAndStop, DeliverAndContinue, Continues
<1>8. found' # -1 => found' = data /\ Matches(data)
  BY <1>7
<1>9. Matches(data) => found' = data
  BY <1>7
<1>10. found' # -1 => Matches(found)'
  <2>1. SUFFICES ASSUME found' = d, Matches(d)' PROVE Matches(found)'
    BY <1>8, <1>5, <1>5a
  <2> QED BY <2>1 DEF Matches, Type, Handle
<1>11. found' # -1 => found' = delivered'[n + 1][1]
  BY <1>1, <1>8
<1>12. ASSUME NEW k \in DOMAIN delivered', Matches(delivered[k][1])'
       PROVE  found' = delivered'[k][1]
  <2>1. k = n + 1
    BY <1>1, <1>6, <1>12
  <2>2. delivered'[k][1] = d
    BY <2>1, <1>1, <1>5
  <2>3. Matches(d)'
    BY <2>2, <1>12 DEF Matches, Type, Handle
  <2> QED BY <2>2, <2>3, <1>5a, <1>9, <1>5
<1> HIDE DEF n
<1> QED BY <1>1, <1>10, <1>11, <1>12 DEF FindsFirst

(* A delivery preserves the invariant. *)
LEMMA DeliverInv ==
  ASSUME Inv, DeliverStep
  PROVE  Inv'
<1>1. PICK n : n = Len(delivered) + 1
  OBVIOUS
<1>2. DeliveredComplete' /\ DeliveredContiguous' /\ FindsFirst'
  BY <1>1, DeliverComplete, DeliverContiguous, DeliverFindsFirst
<1>3. /\ next \in Nat /\ next' = next + 2
      /\ last' \in Int /\ last' < len
      /\ len' = len /\ num' = num /\ i' = i
      /\ search' = search /\ stop_at_eot' = stop_at_eot
      /\ pc = "scan" /\ found = -1
      /\ data \in 0 .. len - 4
      /\ data + buf[data + 1] <= next /\ buf[data + 1] \in Byte
  BY DeliverFacts
<1>4. /\ pc' \in {"while", "return"}
      /\ pc' = "while" => data' = next + 2 /\ found' = found
      /\ data' \in {data, next + 2}
      /\ found' \in {found, data}
  BY DEF DeliverStep, DeliverAndStop, DeliverAndContinue, NextStructure
<1>5. buf' \in [0 .. len - 1 -> Byte]
  <2>1. TypeOK /\ buf' \in AfterCallback(data) /\ data \in 0 .. len - 4
    BY DeliverFacts DEF Inv
  <2> QED BY <2>1, CallbackEffect
<1>6. /\ delivered' \in Seq(Nat \X Nat)
      /\ Len(delivered) \in Nat
      /\ Len(delivered') = Len(delivered) + 1
      /\ DOMAIN delivered' = 1 .. Len(delivered) + 1
      /\ \A k \in 1 .. Len(delivered) : /\ delivered'[k] = delivered[k]
                                        /\ delivered[k][2] \in Nat
                                        /\ delivered[k][2] <= data
      /\ delivered'[Len(delivered) + 1] = <<data, next + 2>>
  BY DeliverSeq
<1>7. TypeOK' /\ ReadsInTable'
  <2>1. data' \in Nat /\ next' \in Nat /\ found' \in Int
    BY <1>3, <1>4
  <2> QED BY <1>3, <1>4, <1>5, <1>6, <2>1 DEF Inv, TypeOK, ReadsInTable
<1>8. CountedOncePerHeader'
  BY <1>3, <1>4, <1>6 DEF Inv, CountedOncePerHeader
<1>9. WalkInv'
  <2>1. data <= next
    <3>1. buf[data + 1] \in Nat
      BY <1>3, ByteIsNat
    <3> QED BY <3>1, <1>3
  <2>2. ASSUME pc' = "while", NEW k \in DOMAIN delivered' PROVE delivered'[k][2] <= data'
    <3>1. data' = next + 2
      BY <2>2, <1>4
    <3>2. CASE k \in 1 .. Len(delivered)
      <4>1. /\ delivered'[k] = delivered[k]
            /\ delivered[k][2] \in Nat /\ delivered[k][2] <= data
        BY <3>2, <1>6
      <4>2. data \in Nat /\ next \in Nat
        BY <1>3
      <4>3. delivered[k][2] <= next + 2
        BY <4>1, <4>2, <2>1
      <4> QED BY <4>1, <4>3, <3>1
    <3>3. CASE k = Len(delivered) + 1
      <4>1. delivered'[k][2] = next + 2
        BY <3>3, <1>6
      <4>2. next + 2 <= next + 2
        BY <1>3
      <4> QED BY <4>1, <4>2, <3>1
    <3> QED BY <3>2, <3>3, <1>6
  <2> QED BY <2>2, <1>3, <1>4 DEF WalkInv
<1> QED BY <1>2, <1>7, <1>8, <1>9 DEF Inv

(* The inductive invariant holds in every state. *)
THEOREM Invariance == Spec => []Inv
<1>1. ASSUME Inv, [Next]_vars PROVE Inv'
  <2>1. CASE Finish \/ ShortEntry \/ Header \/ Scan \/ Truncated
    BY <1>1, <2>1, LoopSteps
  <2>2. CASE DeliverStep
    BY <1>1, <2>2, DeliverInv
  <2>3. CASE UNCHANGED vars
    BY <1>1, <2>3
       DEF vars, Inv, TypeOK, ReadsInTable, DeliveredComplete, Complete, DeliveredContiguous,
           CountedOncePerHeader, FindsFirst, Matches, Type, Handle, Length, WalkInv
  <2> QED BY <1>1, <2>1, <2>2, <2>3 DEF Next, DeliverStep
<1> QED BY InitInv, <1>1, PTL DEF Spec

(* The variables keep their types; in particular dmi_string() leaves bytes *)
(* in the table.                                                           *)
THEOREM TypeCorrectness == Spec => []TypeOK
<1>1. Inv => TypeOK
  BY DEF Inv
<1> QED BY Invariance, <1>1, PTL

(* dmi_table_decode_ext() never reads outside of the table, for any bytes, *)
(* length, announced number, flags and callback.                           *)
THEOREM ReadsStayInTable == Spec => []ReadsInTable
<1>1. Inv => ReadsInTable
  BY DEF Inv
<1> QED BY Invariance, <1>1, PTL

(* Callbacks see complete structures only, and each structure from the     *)
(* start of the table on exactly once.                                     *)
THEOREM Deliveries == Spec => [](DeliveredComplete /\ DeliveredContiguous)
<1>1. Inv => DeliveredComplete /\ DeliveredContiguous
  BY DEF Inv
<1> QED BY Invariance, <1>1, PTL

(* The result of dmi_table_decode_ext() is the number of deliveries, or    *)
(* one more, and at most the announced number.                             *)
THEOREM ResultCounts == Spec => []CountedOncePerHeader
<1>1. Inv => CountedOncePerHeader
  BY DEF Inv
<1> QED BY Invariance, <1>1, PTL

(* dmi_table_find_by_type() and dmi_table_find_by_handle() return the      *)
(* first structure that matches.                                           *)
THEOREM SearchFindsFirst == Spec => []FindsFirst
<1>1. Inv => FindsFirst
  BY DEF Inv
<1> QED BY Invariance, <1>1, PTL

-----------------------------------------------------------------------------
(* strlen() from p stops at the first NUL, which a NUL at e bounds. *)
LEMMA NulBefore ==
  ASSUME TypeOK, NEW p \in Nat, NEW e \in p .. len - 1, buf[e] = 0
  PROVE  Nul(p) \in p .. e /\ buf[Nul(p)] = 0
<1> DEFINE Q == {k \in Int : \A r \in p .. k : buf[r] # 0}
<1>0. len \in Nat /\ e \in Int
  BY DEF TypeOK
<1>1. \E q \in p .. e : IsNul(p, q)
  <2> SUFFICES ASSUME \A q \in p .. e : ~ IsNul(p, q) PROVE FALSE
    OBVIOUS
  <2>1. p \in Q
    <3>1. \A r \in p .. p : r = p
      OBVIOUS
    <3>2. p \in p .. e /\ \A r \in p .. p - 1 : FALSE
      OBVIOUS
    <3>3. buf[p] # 0
      BY <3>2 DEF IsNul
    <3> QED BY <3>1, <3>3
  <2>2. ASSUME NEW k \in p .. e - 1, k \in Q PROVE k + 1 \in Q
    <3>1. k + 1 \in p .. e /\ (k + 1) - 1 = k /\ k + 1 \in Int
      BY <1>0
    <3>2. buf[k + 1] # 0
      BY <3>1, <2>2 DEF IsNul
    <3>3. \A r \in p .. k + 1 : r \in p .. k \/ r = k + 1
      BY <3>1
    <3> QED BY <3>1, <3>2, <3>3, <2>2
  <2>3. \A k \in p .. e : k \in Q
    <3> HIDE DEF Q
    <3> QED BY <1>0, <2>1, <2>2, IntervalInduction
  <2> QED BY <2>3
<1>2. Nul(p) \in p .. len - 1 /\ IsNul(p, Nul(p))
  <2>1. \E q \in p .. len - 1 : IsNul(p, q)
    BY <1>0, <1>1
  <2> QED BY <2>1 DEF Nul
<1>3. buf[Nul(p)] = 0 /\ ~ (e \in p .. Nul(p) - 1)
  BY <1>2 DEF IsNul
<1> QED BY <1>0, <1>2, <1>3

(* One round of dmi_string() stays in a complete structure from d to e: a  *)
(* string that starts in it ends before the second of its two NULs.        *)
LEMMA StringRound ==
  ASSUME TypeOK, NEW d \in Nat, NEW e \in Nat, Complete(<<d, e>>),
         NEW q \in Strings(d) .. e - 1
  PROVE  /\ q \in Nat
         /\ IsString(q) <=> buf[q] # 0
         /\ buf[q] # 0 => Nul(q) \in q .. e - 2 /\ Nul(q) + 1 \in Strings(d) .. e - 1
<1>1. /\ d + 4 <= e - 2 /\ d + buf[d + 1] <= e - 2 /\ e <= len
      /\ buf[e - 2] = 0 /\ buf[e - 1] = 0
  BY DEF Complete, Length
<1>2. len \in Nat /\ Strings(d) = d + buf[d + 1] /\ buf[d + 1] \in Nat
  <2>1. len \in Nat /\ d + 1 \in 0 .. len - 1
    BY <1>1 DEF TypeOK
  <2>2. buf[d + 1] \in Byte
    BY <2>1 DEF TypeOK
  <2> QED BY <2>1, <2>2, ByteIsNat DEF Strings, Length
<1>3. q \in Nat /\ q < len
  BY <1>1, <1>2
<1>4. IsString(q) <=> buf[q] # 0
  BY <1>2, <1>3 DEF IsString
<1>5. ASSUME buf[q] # 0 PROVE Nul(q) \in q .. e - 2
  <2>1. q # e - 2 /\ q # e - 1
    BY <1>1, <1>5
  <2>2. e - 2 \in q .. len - 1
    BY <1>1, <1>2, <1>3, <2>1
  <2> QED BY <1>1, <1>3, <2>2, NulBefore
<1>6. ASSUME buf[q] # 0 PROVE Nul(q) + 1 \in Strings(d) .. e - 1
  BY <1>2, <1>3, <1>5, <1>6
<1> QED BY <1>3, <1>4, <1>5, <1>6

(* So does every string number. *)
LEMMA StringAtInStructure ==
  ASSUME TypeOK, NEW d \in Nat, NEW e \in Nat, Complete(<<d, e>>),
         NEW s \in Nat, s > 0
  PROVE  StringAt(d, s) \in Strings(d) .. e - 1
<1> DEFINE W == Strings(d) .. e - 1
           Step(q) == IF IsString(q) THEN Nul(q) + 1 ELSE q
           step == [q \in W |-> Step(q)]
           IsAt(f) == f = [k \in 1 .. s |-> IF k = 1 THEN Strings(d)
                             ELSE IF IsString(f[k - 1]) THEN Nul(f[k - 1]) + 1 ELSE f[k - 1]]
           at == CHOOSE f : IsAt(f)
<1>1. Strings(d) \in W
  <2>1. d + 4 <= e - 2 /\ Strings(d) <= e - 2 /\ e <= len
    BY DEF Complete, Length, Strings
  <2>2. Strings(d) \in Nat
    <3>1. d + 1 \in 0 .. len - 1 /\ len \in Nat
      BY <2>1 DEF TypeOK
    <3>2. buf[d + 1] \in Byte
      BY <3>1 DEF TypeOK
    <3> QED BY <3>2, ByteIsNat DEF Strings, Length
  <2> QED BY <2>1, <2>2
<1>2. ASSUME NEW q \in W PROVE Step(q) \in W
  BY <1>2, StringRound
<1>3. step \in [W -> W]
  <2> HIDE DEF W, Step
  <2> QED BY <1>2
<1>4. PICK f \in [1 .. s -> W] : Rounds(f, 1, s, step, Strings(d))
  <2>1. 1 \in Int /\ s \in Int
    OBVIOUS
  <2> HIDE DEF W, step
  <2> QED BY <1>1, <1>3, <2>1, RoundsExist, ZenonT(60)
<1>5. IsAt(f)
  <2>1. ASSUME NEW k \in 1 .. s, k # 1 PROVE step[f[k - 1]] = Step(f[k - 1])
    <3>1. k - 1 \in 1 .. s
      BY <2>1
    <3>2. f[k - 1] \in W
      BY <3>1, <1>4
    <3> HIDE DEF W, Step
    <3> QED BY <3>2 DEF step
  <2>2. f = [k \in 1 .. s |-> IF k = 1 THEN Strings(d) ELSE step[f[k - 1]]]
    BY <1>4 DEF Rounds
  <2> HIDE DEF W, step
  <2> QED BY <2>1, <2>2
<1>6. IsAt(at)
  <2> HIDE DEF IsAt
  <2> QED BY <1>5
<1>7. StringAt(d, s) = at[s]
  BY DEF StringAt
<1> HIDE DEF at
<1> DEFINE Q == {k \in Int : k <= s => at[k] \in W}
<1>8. 1 \in Q
  BY <1>1, <1>6
<1>9. ASSUME NEW k \in 1 .. s - 1, k \in Q PROVE k + 1 \in Q
  <2>1. k + 1 \in 1 .. s /\ (k + 1) - 1 = k /\ k + 1 # 1 /\ k <= s
    BY <1>9
  <2>2. at[k] \in W
    BY <1>9, <2>1
  <2>3. at[k + 1] = Step(at[k])
    BY <1>6, <2>1
  <2>4. at[k + 1] \in W
    <3> HIDE DEF W, Step
    <3> QED BY <1>2, <2>2, <2>3
  <2> QED BY <2>4
<1>10. s \in Q
  <2>1. 1 \in Int /\ s \in Int /\ s \in 1 .. s
    OBVIOUS
  <2> HIDE DEF Q
  <2>2. \A k \in 1 .. s : k \in Q
    BY <1>8, <1>9, <2>1, IntervalInduction, ZenonT(60)
  <2> QED BY <2>1, <2>2
<1> QED BY <1>7, <1>10

(* dmi_string() stays inside the structure that it was given, for every    *)
(* table, every structure delivered and every string number.               *)
THEOREM StringsStayInStructure == Spec => []StringsInStructure
<1>1. ASSUME Inv PROVE StringsInStructure
  <2> SUFFICES ASSUME NEW k \in DOMAIN delivered, NEW s \in 1 .. MaxString
               PROVE  /\ StringAt(delivered[k][1], s) <= delivered[k][2] - 1
                      /\ buf[StringAt(delivered[k][1], s)] # 0
                           => Nul(StringAt(delivered[k][1], s)) <= delivered[k][2] - 2
    BY DEF StringsInStructure
  <2>1. PICK d, e : d = delivered[k][1] /\ e = delivered[k][2]
    OBVIOUS
  <2>2. TypeOK /\ d \in Nat /\ e \in Nat /\ delivered[k] = <<d, e>>
    <3>1. TypeOK /\ delivered[k] \in Nat \X Nat
      BY <1>1 DEF Inv, TypeOK
    <3> QED BY <2>1, <3>1
  <2>3. Complete(<<d, e>>)
    BY <1>1, <2>2 DEF Inv, DeliveredComplete
  <2>4. s \in Nat /\ s > 0
    BY TableAssumption
  <2>5. PICK p : p = StringAt(d, s)
    OBVIOUS
  <2>6. p \in Strings(d) .. e - 1
    BY <2>2, <2>3, <2>4, <2>5, StringAtInStructure
  <2>7. p \in Nat /\ (buf[p] # 0 => Nul(p) \in p .. e - 2)
    BY <2>2, <2>3, <2>6, StringRound
  <2>8. p <= e - 1
    BY <2>6, <2>7
  <2>9. buf[p] # 0 => Nul(p) <= e - 2
    BY <2>7
  <2> QED BY <2>1, <2>5, <2>8, <2>9
<1> QED BY Invariance, <1>1, PTL
=============================================================================
