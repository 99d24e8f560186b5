------------------------------ MODULE DmiTable ------------------------------
(***************************************************************************)
(* The walk over an SMBIOS table of dmi_ext (dmidecode/dmi_ext/            *)
(* dmi_decode_ext.c): dmi_table_decode_ext() with the callback of a user,  *)
(* of dmi_table_find_by_type() or of dmi_table_find_by_handle(), and       *)
(* dmi_string(), which a user's callback may call and which overwrites the *)
(* unprintable characters of a string in the table itself.                 *)
(*                                                                         *)
(* Offsets into the table count from 0, as in the code; a pointer is an    *)
(* offset.  Each round of the outer and of the inner loop is a step.       *)
(***************************************************************************)
EXTENDS Integers, Sequences, FiniteSetsExt

CONSTANTS
  Tables,      \* the tables: sequences of bytes
  Nums,        \* the announced numbers of structures, 0 if unknown
  Searches,    \* what is looked for, see SearchKinds
  MaxString,   \* bound: the string numbers that a callback asks for
  CharSigned   \* whether plain char is signed in the build

Byte == 0 .. 255

SearchKinds == {"user", "type", "handle"}

ASSUME TableAssumption ==
  /\ Tables \subseteq Seq(Byte)
  /\ Nums \subseteq Nat
  /\ Searches \subseteq [kind : SearchKinds, target : Nat]
  /\ MaxString \in Nat
  /\ CharSigned \in BOOLEAN

VARIABLES
  len,          \* the length of the table
  buf,          \* its bytes
  num,          \* the announced number of structures
  stop_at_eot,  \* DMI_EXT_FLAG_STOP_AT_EOT
  search,       \* the callback and its target
  pc,           \* "while", "scan" or "return"
  i,            \* structures counted, the result
  data,         \* start of the current structure
  next,         \* where the inner loop looks for its end
  last,         \* highest offset that was read, or -1
  delivered,    \* the structures passed to the callback, <<start, end>> each
  found         \* the start of the header copied to out_header, or -1

params == <<len, num, stop_at_eot, search>>
vars == <<len, buf, num, stop_at_eot, search, pc, i, data, next, last, delivered, found>>

-----------------------------------------------------------------------------
(* to_dmi_header_ext(); WORD() is little endian. *)
Type(b, d) == b[d]
Length(b, d) == b[d + 1]
Handle(b, d) == b[d + 2] + 256 * b[d + 3]

Upto(a, b) == IF a >= b THEN a ELSE b

(* The strings of a structure start behind its formatted part. *)
Strings(d) == d + Length(buf, d)

(* strlen() finds the first NUL at or after p; len if it would leave the   *)
(* table.                                                                  *)
IsNul(p, q) == buf[q] = 0 /\ \A r \in p .. q - 1 : buf[r] # 0
Nul(p) == IF \E q \in p .. len - 1 : IsNul(p, q)
          THEN CHOOSE q \in p .. len - 1 : IsNul(p, q) ELSE len

(* `*bp' is not NUL (or outside of the table). *)
IsString(p) == p >= len \/ buf[p] # 0

(* Where the loop of dmi_string() stops for string number s >= 1. *)
StringAt(d, s) ==
  LET at[k \in 1 .. s] ==
        IF k = 1 THEN Strings(d)
        ELSE LET q == at[k - 1] IN IF IsString(q) THEN Nul(q) + 1 ELSE q
  IN  at[s]

Unprintable(c) == c < 32 \/ c = 127 \/ (CharSigned /\ c > 127)

(* k is one of the strlen() characters at p. *)
InString(p, k) == k >= p /\ \A r \in p .. k : buf[r] # 0

(* The table after dmi_string() has filtered the strings that start in P.  *)
(* It writes no NUL and overwrites none, so that each of its calls finds   *)
(* the strings where they were before the others, in whatever order.       *)
Filtered(P) ==
  [k \in DOMAIN buf |-> IF Unprintable(buf[k]) /\ \E p \in P : InString(p, k)
                        THEN 46 ELSE buf[k]]

(* The callback of a user may ask for any number of strings of the         *)
(* structure (they lie behind its formatted part); the others do not.      *)
Asked(d) ==
  {s \in {StringAt(d, n) : n \in 1 .. MaxString} : s \in Strings(d) .. len}

AfterCallback(d) ==
  {buf} \union {Filtered(P) : P \in SUBSET {s \in Asked(d) : search.kind = "user"}}

(* find_type_callback() and find_handle_callback(). *)
Matches(d) ==
  \/ search.kind = "type" /\ Type(buf, d) = search.target
  \/ search.kind = "handle" /\ Handle(buf, d) = search.target

-----------------------------------------------------------------------------
Init ==
  /\ \E t \in Tables : len = Len(t) /\ buf = [k \in 0 .. Len(t) - 1 |-> t[k + 1]]
  /\ num \in Nums
  /\ search \in Searches
  /\ stop_at_eot \in IF search.kind = "user" THEN BOOLEAN ELSE {FALSE}
  /\ pc = "while"
  /\ i = 0
  /\ data = 0
  /\ next = 0
  /\ last = -1
  /\ delivered = <<>>
  /\ found = -1

(* Mutant: the header may reach beyond the table. *)
HeaderMayFit == (i < num \/ num = 0) /\ data + 3 <= len

(* The condition of the outer loop. *)
HeaderFits == (i < num \/ num = 0) /\ data + 4 <= len

Finish ==
  /\ pc = "while"
  /\ ~ HeaderFits
  /\ pc' = "return"
  /\ UNCHANGED <<params, buf, i, data, next, last, delivered, found>>

ShortEntry ==
  /\ pc = "while"
  /\ HeaderFits
  /\ Length(buf, data) < 4
  /\ last' = Upto(last, data + 3)
  /\ pc' = "return"
  /\ UNCHANGED <<params, buf, i, data, next, delivered, found>>

Header ==
  /\ pc = "while"
  /\ HeaderFits
  /\ Length(buf, data) >= 4
  /\ last' = Upto(last, data + 3)
  /\ i' = i + 1
  /\ next' = data + Length(buf, data)
  /\ pc' = "scan"
  /\ UNCHANGED <<params, buf, data, delivered, found>>

(* The bounds check of the inner loop: two bytes are left. *)
InTable(p) == p + 1 < len

(* Mutant: a single NUL ends the structure. *)
AtEndOne(p) == buf[p] = 0

(* Two NULs end the structure. *)
AtEnd(p) == buf[p] = 0 /\ buf[p + 1] = 0

Scan ==
  /\ pc = "scan"
  /\ InTable(next)
  /\ ~ AtEnd(next)
  /\ last' = Upto(last, next + 1)
  /\ next' = next + 1
  /\ UNCHANGED <<params, buf, pc, i, data, delivered, found>>

(* The check that the whole structure fits. *)
Whole(end) == end <= len

(* Mutant: the inner loop does not mind the end of the table. *)
ScanOverUnbounded == InTable(next) /\ AtEnd(next)

ScanOver == InTable(next) => AtEnd(next)

Read == IF InTable(next) THEN Upto(last, next + 1) ELSE last

Truncated ==
  /\ pc = "scan"
  /\ ScanOver
  /\ ~ Whole(next + 2)
  /\ last' = Read
  /\ next' = next + 2
  /\ pc' = "return"
  /\ UNCHANGED <<params, buf, i, data, delivered, found>>

(* Whether the callback may return non-zero... *)
Stops(d) == search.kind = "user" \/ Matches(d)

(* Mutant: a match does not stop the search. *)
ContinuesAlways(d) == TRUE

(* ... and whether it may return 0. *)
Continues(d) == ~ Matches(d)

(* The structure goes to the callback, which stops the walk... *)
DeliverAndStop ==
  /\ pc = "scan"
  /\ ScanOver
  /\ Whole(next + 2)
  /\ Stops(data)
  /\ last' = Read
  /\ next' = next + 2
  /\ delivered' = Append(delivered, <<data, next + 2>>)
  /\ found' = IF Matches(data) THEN data ELSE found
  /\ buf' \in AfterCallback(data)
  /\ pc' = "return"
  /\ UNCHANGED <<params, i, data>>

NextStructure(p) == p + 2

(* ... or lets it go on, unless the structure is the end-of-table marker   *)
(* and the caller asked to stop there.                                     *)
DeliverAndContinue ==
  /\ pc = "scan"
  /\ ScanOver
  /\ Whole(next + 2)
  /\ Continues(data)
  /\ last' = Read
  /\ next' = next + 2
  /\ delivered' = Append(delivered, <<data, next + 2>>)
  /\ buf' \in AfterCallback(data)
  /\ data' = NextStructure(next)
  /\ pc' = IF Type(buf, data) = 127 /\ stop_at_eot THEN "return" ELSE "while"
  /\ UNCHANGED <<params, i, found>>

Next ==
  Finish \/ ShortEntry \/ Header \/ Scan \/ Truncated \/ DeliverAndStop \/ DeliverAndContinue

Spec == Init /\ [][Next]_vars

(* The loops run until they end. *)
FairSpec == Spec /\ WF_vars(Next)

-----------------------------------------------------------------------------
(* Properties.                                                             *)

TypeOK ==
  /\ len \in Nat
  /\ buf \in [0 .. len - 1 -> Byte]
  /\ num \in Nat
  /\ stop_at_eot \in BOOLEAN
  /\ search \in [kind : SearchKinds, target : Nat]
  /\ pc \in {"while", "scan", "return"}
  /\ i \in Nat
  /\ data \in Nat
  /\ next \in Nat
  /\ last \in Int
  /\ delivered \in Seq(Nat \X Nat)
  /\ found \in Int

(* Neither the header nor the search for the end of a structure reads      *)
(* outside of the table, whatever the table holds.                         *)
ReadsInTable == last < len

(* A structure d that went to the callback is complete: its header and its *)
(* formatted part are in the table, and two NULs end its strings.          *)
Complete(d) ==
  /\ d[1] + 4 <= d[2] - 2
  /\ d[1] + Length(buf, d[1]) <= d[2] - 2
  /\ d[2] <= len
  /\ buf[d[2] - 2] = 0 /\ buf[d[2] - 1] = 0

(* Every structure that the callback was given is complete, also after     *)
(* dmi_string() has written into the table.                                *)
DeliveredComplete == \A k \in DOMAIN delivered : Complete(delivered[k])

(* The structures follow each other without gap from the start of the      *)
(* table on, and the walk goes on where the last one ended.                *)
DeliveredContiguous ==
  /\ delivered # <<>> => delivered[1][1] = 0
  /\ \A k \in 1 .. Len(delivered) - 1 : delivered[k][2] = delivered[k + 1][1]
  /\ pc # "return" => data = IF delivered = <<>> THEN 0 ELSE delivered[Len(delivered)][2]

(* The result is the number of structures delivered, plus one when the     *)
(* walk stops at a structure that is truncated; it never exceeds the       *)
(* announced number.                                                       *)
CountedOncePerHeader ==
  /\ pc = "while" => i = Len(delivered)
  /\ pc = "scan" => i = Len(delivered) + 1
  /\ pc = "return" => i \in {Len(delivered), Len(delivered) + 1}
  /\ num > 0 => i <= num

(* dmi_string() for a structure that was delivered stays inside of it, for *)
(* every string number: it stops at the second of the two NULs at the      *)
(* latest.                                                                 *)
StringsInStructure ==
  \A k \in DOMAIN delivered : \A s \in 1 .. MaxString :
    LET p == StringAt(delivered[k][1], s)
    IN  /\ p <= delivered[k][2] - 1
        /\ buf[p] # 0 => Nul(p) <= delivered[k][2] - 2

(* A search finds the first structure of the type or handle: the header it *)
(* returns matches, and no structure delivered before it did.              *)
FindsFirst ==
  /\ found # -1 => /\ delivered # <<>>
                   /\ found = delivered[Len(delivered)][1]
                   /\ Matches(found)
  /\ \A k \in DOMAIN delivered : Matches(delivered[k][1]) => found = delivered[k][1]

(* The walk ends. *)
WalkReturns == <>(pc = "return")
=============================================================================
