------------------------- MODULE NmcliLibraryProofs -------------------------
(***************************************************************************)
(* Proofs about NmcliLibrary, for all vectors that the program may pass,   *)
(* every number of calls and of signals.                                   *)
(*                                                                         *)
(* 1. Parsing.  process_command_line() ends, and gives the same for any    *)
(*    two globals that agree in all but overview, use_colors and           *)
(*    progress_id; what nmcli_execute() resets is enough for that.  So     *)
(*    every call is parsed as in a program that has just started.          *)
(* 2. Effects.  Every handler and every callback is shown to do one of a   *)
(*    few things to should_wait, the result and the sources.               *)
(* 3. The invariant Inv, kept by each of these effects: the arguments do   *)
(*    not look at the commands any more.                                   *)
(* 4. Programs whose commands remove what they add.                        *)
(*                                                                         *)
(* That every call returns (liveness) is left to TLC.                      *)
(***************************************************************************)
EXTENDS NmcliLibrary, FoldProofs, SequenceTheorems, TLAPS

(* The texts and values of the words, and no value. *)
Texts == {w.text : w \in Given} \union {w.val : w \in Given} \union {NoValue}

(* The types of a word, of the results, of nm_cli and of a parse: of a     *)
(* vector with n words, and should_wait in W.                              *)
WordType == [dash : BOOLEAN, text : Texts, val : Texts]

Codes ==
  {SUCCESS, ERROR_UNKNOWN, ERROR_USER_INPUT, ERROR_TIMEOUT_EXPIRED, ERROR_CON_ACTIVATION,
   ERROR_DEV_DISCONNECT, ERROR_NM_NOT_RUNNING, ERROR_NOT_FOUND, TERMINATED_SIGINT}

Nm(W) ==
  [client : BOOLEAN, return_value : Codes, timeout : Int,
   should_wait : W, nowait_flag : BOOLEAN,
   print_output : {"normal", "terse", "pretty"}, multiline_output : BOOLEAN,
   mode_specified : BOOLEAN, escape_values : BOOLEAN, required_fields : Texts,
   ask : BOOLEAN, complete : BOOLEAN, show_secrets : BOOLEAN, overview : BOOLEAN,
   use_colors : BOOLEAN, pager : BOOLEAN, progress_id : Nat]

Parse(n, W) ==
  [nm : Nm(W), argv : [1 .. n -> Words], p : 1 .. n + 1,
   colors : {"auto", "yes", "no"}, status : {"options", "command", "stop"}]

(* Cutting the value off a word gives a word, and cutting it again nothing *)
(* new.                                                                    *)
LEMMA WordFields ==
  ASSUME NEW w \in WordType
  PROVE  /\ [w EXCEPT !.val = NoValue] \in WordType
         /\ [[w EXCEPT !.val = NoValue] EXCEPT !.val = NoValue] = [w EXCEPT !.val = NoValue]
<1>1. PICK v \in Texts : v = NoValue
  BY DEF Texts
<1>2. [w EXCEPT !.val = v] \in WordType
  BY DEF WordType
<1>3. [[w EXCEPT !.val = v] EXCEPT !.val = v] = [w EXCEPT !.val = v]
  BY DEF WordType
<1> QED BY <1>1, <1>2, <1>3

(* The words of the vectors are words, and so is what matches_arg() leaves *)
(* of them.                                                                *)
LEMMA WordsClosed ==
  /\ Words \subseteq WordType
  /\ \A w \in Words : [w EXCEPT !.val = NoValue] \in Words
<1>1. ASSUME NEW w \in Given PROVE w \in WordType
  <2>1. PICK v \in Vectors : w \in Range(v)
    BY <1>1 DEF Given
  <2>2. v \in Seq([dash : BOOLEAN, text : STRING, val : STRING])
    BY LibraryAssumption
  <2>3. w \in [dash : BOOLEAN, text : STRING, val : STRING]
    <3>1. PICK R : R = [dash : BOOLEAN, text : STRING, val : STRING]
      OBVIOUS
    <3>2. v \in Seq(R)
      BY <2>2, <3>1
    <3>3. \A i \in DOMAIN v : v[i] \in R
      BY <3>2
    <3>4. w \in R
      BY <2>1, <3>3 DEF Range
    <3> QED BY <3>1, <3>4
  <2>4. w.text \in Texts /\ w.val \in Texts
    BY <1>1 DEF Texts
  <2> QED BY <2>3, <2>4 DEF WordType
<1> QED BY <1>1, WordFields DEF Words

(* Replacing the global changes nothing else of a parse. *)
LEMMA WithNmFields ==
  ASSUME NEW n \in Nat, NEW W, NEW s \in Parse(n, W), NEW nm \in Nm(W)
  PROVE  /\ WithNm(s, nm) \in Parse(n, W)
         /\ WithNm(s, nm).nm = nm /\ WithNm(s, nm).argv = s.argv /\ WithNm(s, nm).p = s.p
         /\ WithNm(s, nm).colors = s.colors /\ WithNm(s, nm).status = s.status
BY DEF WithNm, Parse

(* The static initialisation of nm_cli has the type, and waits for         *)
(* nothing.                                                                *)
LEMMA InitialNm == InitialNmCli \in Nm({0})
<1>1. NoValue \in Texts
  BY DEF Texts
<1> QED BY <1>1 DEF InitialNmCli, Nm, Codes, SUCCESS

(* next_arg() stops in the vector or at its end, and never stays where it  *)
(* is.                                                                     *)
LEMMA NextStopIn ==
  ASSUME NEW n \in Nat, NEW W, NEW s \in Parse(n, W)
  PROVE  /\ Len(s.argv) = n /\ NextStop(s) \in 1 .. n + 1
         /\ s.p \in 1 .. n => NextStop(s) > s.p
<1> DEFINE stops == {q \in s.p + 1 .. n :
                      \/ s.nm.complete /\ q = n
                      \/ ~ IsGlobal(s.argv[q], "ask") /\ ~ IsGlobal(s.argv[q], "show-secrets")}
<1>1. s.argv \in [1 .. n -> Words] /\ s.p \in 1 .. n + 1
  BY DEF Parse
<1>2. Len(s.argv) = n
  BY <1>1
<1>3. NextStop(s) = IF stops = {} THEN n + 1 ELSE Min(stops)
  BY <1>2 DEF NextStop
<1>4. stops \in SUBSET (s.p + 1 .. n) /\ s.p + 1 \in Int /\ n \in Int
  BY <1>1
<1>5. stops # {} => Min(stops) \in stops
  <2> HIDE DEF stops
  <2> QED BY <1>4, MinOfInterval, ZenonT(30)
<1> HIDE DEF stops
<1>6. CASE stops = {}
  BY <1>1, <1>2, <1>3, <1>6
<1>7. CASE stops # {}
  <2>1. NextStop(s) \in s.p + 1 .. n
    BY <1>3, <1>4, <1>5, <1>7
  <2> QED BY <1>1, <1>2, <2>1
<1> QED BY <1>6, <1>7

(* next_arg() moves the position and records global options, and that is   *)
(* all.                                                                    *)
LEMMA NextArgIn ==
  ASSUME NEW n \in Nat, NEW W, NEW s \in Parse(n, W)
  PROVE  /\ NextArg(s) \in Parse(n, W)
         /\ NextArg(s).p = NextStop(s)
         /\ NextArg(s).argv = s.argv /\ NextArg(s).colors = s.colors
         /\ NextArg(s).status = s.status
         /\ NextArg(s).nm = Recorded(s)
<1>1. NextStop(s) \in 1 .. n + 1
  BY NextStopIn
<1>2. s.nm \in Nm(W)
  BY DEF Parse
<1>3. PICK t : t = [s EXCEPT !.p = NextStop(s)]
  OBVIOUS
<1>4. t \in Parse(n, W) /\ t.p = NextStop(s) /\ t.argv = s.argv /\ t.colors = s.colors
      /\ t.status = s.status
  BY <1>1, <1>3 DEF Parse
<1>5. PICK nm : nm = Recorded(s)
  OBVIOUS
<1>6. nm \in Nm(W)
  <2>1. Skips(s, "ask") \in BOOLEAN /\ Skips(s, "show-secrets") \in BOOLEAN
    BY Zenon DEF Skips
  <2>2. PICK a \in BOOLEAN, b \in BOOLEAN : a = Skips(s, "ask") /\ b = Skips(s, "show-secrets")
    BY <2>1
  <2>3. nm = [s.nm EXCEPT !.ask = @ \/ a, !.show_secrets = @ \/ b]
    BY <1>5, <2>2 DEF Recorded
  <2> QED BY <1>2, <2>3 DEF Nm
<1>7. NextArg(s) = WithNm(t, nm)
  BY <1>3, <1>5 DEF NextArg
<1> QED BY <1>4, <1>5, <1>6, <1>7, WithNmFields

(* Globals that agree in everything but overview, use_colors and           *)
(* progress_id.                                                            *)
AgreeNm(a, b) ==
  /\ a.client = b.client /\ a.return_value = b.return_value /\ a.timeout = b.timeout
  /\ a.should_wait = b.should_wait /\ a.nowait_flag = b.nowait_flag
  /\ a.print_output = b.print_output /\ a.multiline_output = b.multiline_output
  /\ a.mode_specified = b.mode_specified /\ a.escape_values = b.escape_values
  /\ a.required_fields = b.required_fields /\ a.ask = b.ask /\ a.complete = b.complete
  /\ a.show_secrets = b.show_secrets /\ a.pager = b.pager

(* Parses that agree. *)
Agree(s, t) ==
  /\ AgreeNm(s.nm, t.nm)
  /\ s.argv = t.argv /\ s.p = t.p /\ s.colors = t.colors /\ s.status = t.status

(* Both parses are in range, and agree. *)
Both(n, W, s, t) == s \in Parse(n, W) /\ t \in Parse(n, W) /\ Agree(s, t)

(* Two parses go on agreeing with globals that agree. *)
LEMMA WithNmBoth ==
  ASSUME NEW n \in Nat, NEW W, NEW s, NEW t, Both(n, W, s, t),
         NEW a \in Nm(W), NEW b \in Nm(W), AgreeNm(a, b)
  PROVE  Both(n, W, WithNm(s, a), WithNm(t, b))
BY WithNmFields DEF Both, Agree

(* ... after next_arg(), *)
LEMMA NextArgBoth ==
  ASSUME NEW n \in Nat, NEW W, NEW s, NEW t, Both(n, W, s, t)
  PROVE  Both(n, W, NextArg(s), NextArg(t))
<1>1. s \in Parse(n, W) /\ t \in Parse(n, W) /\ Agree(s, t)
  BY DEF Both
<1>2. NextArg(s) \in Parse(n, W) /\ NextArg(t) \in Parse(n, W)
  BY <1>1, NextArgIn
<1>3. NextStop(s) = NextStop(t)
  BY <1>1 DEF NextStop, Agree, AgreeNm
<1>4. Skips(s, "ask") = Skips(t, "ask") /\ Skips(s, "show-secrets") = Skips(t, "show-secrets")
  BY <1>1, <1>3 DEF Skips, Agree
<1>5. NextArg(s).nm = Recorded(s) /\ NextArg(t).nm = Recorded(t)
  BY <1>1, NextArgIn
<1>6. PICK a, b : /\ Recorded(s) = [s.nm EXCEPT !.ask = @ \/ a, !.show_secrets = @ \/ b]
                  /\ Recorded(t) = [t.nm EXCEPT !.ask = @ \/ a, !.show_secrets = @ \/ b]
  BY <1>4 DEF Recorded
<1>7. s.nm \in Nm(W) /\ t.nm \in Nm(W) /\ AgreeNm(s.nm, t.nm)
  BY <1>1 DEF Parse, Agree
<1>8. AgreeNm(Recorded(s), Recorded(t))
  BY <1>6, <1>7 DEF AgreeNm, Nm
<1>9. /\ NextArg(s).p = NextStop(s) /\ NextArg(s).argv = s.argv
      /\ NextArg(s).colors = s.colors /\ NextArg(s).status = s.status
  BY <1>1, NextArgIn
<1>10. /\ NextArg(t).p = NextStop(t) /\ NextArg(t).argv = t.argv
       /\ NextArg(t).colors = t.colors /\ NextArg(t).status = t.status
  BY <1>1, NextArgIn
<1> QED BY <1>1, <1>2, <1>3, <1>5, <1>8, <1>9, <1>10 DEF Both, Agree

(* ... when both are rejected, *)
LEMMA RejectedBoth ==
  ASSUME NEW n \in Nat, NEW W, NEW s, NEW t, Both(n, W, s, t)
  PROVE  Both(n, W, Rejected(s), Rejected(t))
<1> DEFINE a == [s.nm EXCEPT !.return_value = ERROR_USER_INPUT]
           b == [t.nm EXCEPT !.return_value = ERROR_USER_INPUT]
           u == [s EXCEPT !.status = "stop"]
           v == [t EXCEPT !.status = "stop"]
<1>1. s \in Parse(n, W) /\ t \in Parse(n, W) /\ Agree(s, t)
  BY DEF Both
<1>2. s.nm \in Nm(W) /\ t.nm \in Nm(W) /\ AgreeNm(s.nm, t.nm)
  BY <1>1 DEF Parse, Agree
<1>3. ERROR_USER_INPUT \in Codes
  BY DEF Codes
<1>4. a \in Nm(W) /\ b \in Nm(W)
  BY <1>2, <1>3 DEF Nm
<1>5. AgreeNm(a, b)
  BY <1>2 DEF AgreeNm, Nm
<1>6. Both(n, W, u, v)
  <2>1. u \in Parse(n, W) /\ v \in Parse(n, W)
    BY <1>1 DEF Parse
  <2>2. Agree(u, v)
    BY <1>1 DEF Parse, Agree
  <2> QED BY <2>1, <2>2 DEF Both
<1>7. Rejected(s) = WithNm(u, a) /\ Rejected(t) = WithNm(v, b)
  BY DEF Rejected
<1> HIDE DEF a, b, u, v
<1> QED BY <1>4, <1>5, <1>6, <1>7, WithNmBoth

(* ... or answered, *)
LEMMA AnsweredBoth ==
  ASSUME NEW n \in Nat, NEW W, NEW s, NEW t, Both(n, W, s, t)
  PROVE  Both(n, W, Answered(s), Answered(t))
BY DEF Answered, Parse, Agree, Both

(* ... after --terse or --pretty, *)
LEMMA PrintOptionBoth ==
  ASSUME NEW n \in Nat, NEW W, NEW s, NEW t, Both(n, W, s, t), NEW o \in {"terse", "pretty"}
  PROVE  Both(n, W, PrintOption(s, o), PrintOption(t, o))
<1> DEFINE a == [s.nm EXCEPT !.print_output = o]
           b == [t.nm EXCEPT !.print_output = o]
<1>1. s.nm \in Nm(W) /\ t.nm \in Nm(W) /\ AgreeNm(s.nm, t.nm)
  BY DEF Parse, Agree, Both
<1>2. a \in Nm(W) /\ b \in Nm(W)
  BY <1>1 DEF Nm
<1>3. AgreeNm(a, b)
  BY <1>1 DEF AgreeNm, Nm
<1>4. s.nm.print_output = t.nm.print_output
  BY <1>1 DEF AgreeNm
<1>5. Both(n, W, WithNm(s, a), WithNm(t, b))
  <2> HIDE DEF a, b
  <2> QED BY <1>2, <1>3, WithNmBoth
<1>6. Both(n, W, NextArg(WithNm(s, a)), NextArg(WithNm(t, b)))
  <2> HIDE DEF a, b
  <2> QED BY <1>5, NextArgBoth
<1> QED BY <1>4, <1>6, RejectedBoth DEF PrintOption

(* ... after the "=" of the current word has been overwritten, *)
LEMMA ReplaceSeparatorBoth ==
  ASSUME NEW n \in Nat, NEW W, NEW s, NEW t, Both(n, W, s, t), s.p \in 1 .. n
  PROVE  Both(n, W, ReplaceSeparator(s), ReplaceSeparator(t))
<1> DEFINE a == [s.argv EXCEPT ![s.p] = [s.argv[s.p] EXCEPT !.val = NoValue]]
<1>1. s \in Parse(n, W) /\ t \in Parse(n, W) /\ Agree(s, t)
  BY DEF Both
<1>2. s.argv \in [1 .. n -> Words] /\ s.argv[s.p] \in Words
  BY <1>1 DEF Parse
<1>3. [s.argv[s.p] EXCEPT !.val = NoValue] \in Words
  BY <1>2, WordsClosed
<1>4. a \in [1 .. n -> Words]
  BY <1>2, <1>3
<1>5. ReplaceSeparator(s) = [s EXCEPT !.argv = a] /\ ReplaceSeparator(t) = [t EXCEPT !.argv = a]
  BY <1>1 DEF ReplaceSeparator, Agree
<1> HIDE DEF a
<1>6. [s EXCEPT !.argv = a] \in Parse(n, W) /\ [t EXCEPT !.argv = a] \in Parse(n, W)
  BY <1>1, <1>4 DEF Parse
<1>7. Agree([s EXCEPT !.argv = a], [t EXCEPT !.argv = a])
  BY <1>1 DEF Agree, Parse
<1> QED BY <1>5, <1>6, <1>7 DEF Both

(* ... after an option has been given a valid value, *)
LEMMA ValueOptionBoth ==
  ASSUME NEW n \in Nat, NEW W, NEW s, NEW t, Both(n, W, s, t),
         NEW o \in ValueOptions, NEW v \in Texts, ValidValue(o, v)
  PROVE  Both(n, W, ValueOption(s, o, v), ValueOption(t, o, v))
<1>1. s \in Parse(n, W) /\ t \in Parse(n, W) /\ Agree(s, t)
  BY DEF Both
<1>2. s.nm \in Nm(W) /\ t.nm \in Nm(W) /\ AgreeNm(s.nm, t.nm)
  BY <1>1 DEF Parse, Agree
<1>3. CASE o = "colors"
  <2>1. v \in {"auto", "yes", "no"}
    BY <1>3 DEF ValidValue
  <2>2. ValueOption(s, o, v) = [s EXCEPT !.colors = v] /\ ValueOption(t, o, v) = [t EXCEPT !.colors = v]
    BY <1>3 DEF ValueOption
  <2>3. [s EXCEPT !.colors = v] \in Parse(n, W) /\ [t EXCEPT !.colors = v] \in Parse(n, W)
    BY <1>1, <2>1 DEF Parse
  <2>4. Agree([s EXCEPT !.colors = v], [t EXCEPT !.colors = v])
    BY <1>1 DEF Agree, Parse
  <2> QED BY <2>2, <2>3, <2>4 DEF Both
<1>4. ASSUME NEW a \in Nm(W), NEW b \in Nm(W), AgreeNm(a, b),
             ValueOption(s, o, v) = WithNm(s, a), ValueOption(t, o, v) = WithNm(t, b)
      PROVE  Both(n, W, ValueOption(s, o, v), ValueOption(t, o, v))
  BY <1>4, WithNmBoth
<1>5. CASE o = "mode"
  <2>1. PICK m \in BOOLEAN : m = (v = "multiline")
    OBVIOUS
  <2> DEFINE F(nm) == [nm EXCEPT !.mode_specified = TRUE, !.multiline_output = m]
  <2>2. F(s.nm) \in Nm(W) /\ F(t.nm) \in Nm(W) /\ AgreeNm(F(s.nm), F(t.nm))
    BY <1>2 DEF Nm, AgreeNm
  <2>3. ValueOption(s, o, v) = WithNm(s, F(s.nm)) /\ ValueOption(t, o, v) = WithNm(t, F(t.nm))
    BY <1>5, <2>1 DEF ValueOption
  <2> HIDE DEF F
  <2> QED BY <1>4, <2>2, <2>3
<1>6. CASE o = "escape"
  <2>1. PICK m \in BOOLEAN : m = (v = "yes")
    OBVIOUS
  <2> DEFINE F(nm) == [nm EXCEPT !.escape_values = m]
  <2>2. F(s.nm) \in Nm(W) /\ F(t.nm) \in Nm(W) /\ AgreeNm(F(s.nm), F(t.nm))
    BY <1>2 DEF Nm, AgreeNm
  <2>3. ValueOption(s, o, v) = WithNm(s, F(s.nm)) /\ ValueOption(t, o, v) = WithNm(t, F(t.nm))
    BY <1>6, <2>1 DEF ValueOption
  <2> HIDE DEF F
  <2> QED BY <1>4, <2>2, <2>3
<1>7. CASE o = "fields"
  <2> DEFINE F(nm) == [nm EXCEPT !.required_fields = v]
  <2>2. F(s.nm) \in Nm(W) /\ F(t.nm) \in Nm(W) /\ AgreeNm(F(s.nm), F(t.nm))
    BY <1>2 DEF Nm, AgreeNm
  <2>3. ValueOption(s, o, v) = WithNm(s, F(s.nm)) /\ ValueOption(t, o, v) = WithNm(t, F(t.nm))
    BY <1>7 DEF ValueOption
  <2> HIDE DEF F
  <2> QED BY <1>4, <2>2, <2>3
<1>8. CASE o = "get-values"
  <2> DEFINE F(nm) == [nm EXCEPT !.required_fields = v, !.print_output = "terse",
                                 !.mode_specified = TRUE]
  <2>2. F(s.nm) \in Nm(W) /\ F(t.nm) \in Nm(W) /\ AgreeNm(F(s.nm), F(t.nm))
    BY <1>2 DEF Nm, AgreeNm
  <2>3. ValueOption(s, o, v) = WithNm(s, F(s.nm)) /\ ValueOption(t, o, v) = WithNm(t, F(t.nm))
    BY <1>8 DEF ValueOption
  <2> HIDE DEF F
  <2> QED BY <1>4, <2>2, <2>3
<1>9. CASE o = "wait"
  <2>1. Seconds[v] \in Int
    BY <1>9 DEF ValidValue, Seconds
  <2> DEFINE F(nm) == [nm EXCEPT !.timeout = Seconds[v]]
  <2>2. F(s.nm) \in Nm(W) /\ F(t.nm) \in Nm(W) /\ AgreeNm(F(s.nm), F(t.nm))
    BY <1>2, <2>1 DEF Nm, AgreeNm
  <2>3. ValueOption(s, o, v) = WithNm(s, F(s.nm)) /\ ValueOption(t, o, v) = WithNm(t, F(t.nm))
    BY <1>9 DEF ValueOption
  <2> HIDE DEF F
  <2> QED BY <1>4, <2>2, <2>3
<1> QED BY <1>3, <1>5, <1>6, <1>7, <1>8, <1>9 DEF ValueOptions

(* What is done with the value of an option that takes one. *)
Valued(s, o, v) ==
  IF ~ ValidValue(o, v)
  THEN Rejected(IF o = "mode" THEN WithNm(s, [s.nm EXCEPT !.mode_specified = TRUE]) ELSE s)
  ELSE NextArg(ValueOption(s, o, v))

(* ... or a value that may not be valid, *)
LEMMA ValuedBoth ==
  ASSUME NEW n \in Nat, NEW W, NEW s, NEW t, Both(n, W, s, t),
         NEW o \in ValueOptions, NEW v \in Texts
  PROVE  Both(n, W, Valued(s, o, v), Valued(t, o, v))
<1>1. CASE ValidValue(o, v)
  <2>1. Both(n, W, ValueOption(s, o, v), ValueOption(t, o, v))
    BY <1>1, ValueOptionBoth
  <2>2. Both(n, W, NextArg(ValueOption(s, o, v)), NextArg(ValueOption(t, o, v)))
    BY <2>1, NextArgBoth
  <2> QED BY <1>1, <2>2 DEF Valued
<1>2. CASE ~ ValidValue(o, v) /\ o # "mode"
  BY <1>2, RejectedBoth DEF Valued
<1>3. CASE ~ ValidValue(o, v) /\ o = "mode"
  <2> DEFINE F(nm) == [nm EXCEPT !.mode_specified = TRUE]
  <2>1. s.nm \in Nm(W) /\ t.nm \in Nm(W) /\ AgreeNm(s.nm, t.nm)
    BY DEF Parse, Agree, Both
  <2>2. F(s.nm) \in Nm(W) /\ F(t.nm) \in Nm(W) /\ AgreeNm(F(s.nm), F(t.nm))
    BY <2>1 DEF Nm, AgreeNm
  <2>3. Valued(s, o, v) = Rejected(WithNm(s, F(s.nm))) /\ Valued(t, o, v) = Rejected(WithNm(t, F(t.nm)))
    BY <1>3 DEF Valued
  <2> HIDE DEF F
  <2>4. Both(n, W, WithNm(s, F(s.nm)), WithNm(t, F(t.nm)))
    BY <2>2, WithNmBoth
  <2> QED BY <2>3, <2>4, RejectedBoth
<1> QED BY <1>1, <1>2, <1>3

(* A parse that is not at its end is at a word. *)
LEMMA WordAt ==
  ASSUME NEW n \in Nat, NEW W, NEW s \in Parse(n, W)
  PROVE  /\ Argc(s) = n + 1 - s.p /\ s.p \in 1 .. n + 1
         /\ Argc(s) # 0 => s.p \in 1 .. n /\ Current(s) \in WordType
<1>1. s.argv \in [1 .. n -> Words] /\ s.p \in 1 .. n + 1
  BY DEF Parse
<1>2. Len(s.argv) = n
  BY <1>1
<1>3. Argc(s) = n + 1 - s.p
  BY <1>2 DEF Argc
<1>4. ASSUME Argc(s) # 0 PROVE s.p \in 1 .. n
  BY <1>1, <1>3, <1>4
<1>5. ASSUME s.p \in 1 .. n PROVE Current(s) \in WordType
  BY <1>1, <1>5, WordsClosed DEF Current
<1> QED BY <1>1, <1>3, <1>4, <1>5

(* ... after an option that takes a value, *)
LEMMA OptionWithValueBoth ==
  ASSUME NEW n \in Nat, NEW W, NEW s, NEW t, Both(n, W, s, t), Argc(s) # 0,
         NEW o \in ValueOptions
  PROVE  Both(n, W, OptionWithValue(s, o), OptionWithValue(t, o))
<1>1. s \in Parse(n, W) /\ t \in Parse(n, W) /\ Agree(s, t)
  BY DEF Both
<1>2. s.p \in 1 .. n /\ Current(s) \in WordType /\ Current(t) = Current(s)
  <2>1. Current(t) = Current(s)
    BY <1>1 DEF Agree, Current
  <2> QED BY <1>1, <2>1, WordAt
<1>3. CASE Current(s).val # NoValue
  <2>1. PICK v : v = Current(s).val
    OBVIOUS
  <2>2. v \in Texts
    BY <1>2, <2>1 DEF WordType
  <2>3. /\ OptionWithValue(s, o) = Valued(ReplaceSeparator(s), o, v)
        /\ OptionWithValue(t, o) = Valued(ReplaceSeparator(t), o, v)
    BY <1>2, <1>3, <2>1 DEF OptionWithValue, Valued
  <2>4. Both(n, W, ReplaceSeparator(s), ReplaceSeparator(t))
    BY <1>2, ReplaceSeparatorBoth
  <2> QED BY <2>2, <2>3, <2>4, ValuedBoth
<1>4. CASE Current(s).val = NoValue
  <2>1. PICK a, b : a = [s EXCEPT !.p = @ + 1] /\ b = [t EXCEPT !.p = @ + 1]
    OBVIOUS
  <2>2. a \in Parse(n, W) /\ b \in Parse(n, W)
    <3>1. t.p = s.p
      BY <1>1 DEF Agree
    <3> QED BY <1>1, <1>2, <2>1, <3>1 DEF Parse
  <2>3. Agree(a, b)
    BY <1>1, <2>1 DEF Agree, Parse
  <2>4. Both(n, W, a, b) /\ Argc(b) = Argc(a) /\ Current(b) = Current(a)
    BY <2>2, <2>3 DEF Both, Agree, Argc, Current
  <2>5. CASE Argc(a) = 0
    <3>1. OptionWithValue(s, o) = Rejected(a)
      BY <1>4, <2>1, <2>5 DEF OptionWithValue
    <3>2. OptionWithValue(t, o) = Rejected(b)
      BY <1>2, <1>4, <2>1, <2>4, <2>5 DEF OptionWithValue
    <3> QED BY <2>4, <3>1, <3>2, RejectedBoth
  <2>6. CASE Argc(a) # 0
    <3>1. PICK v : v = Current(a).text
      OBVIOUS
    <3>2. v \in Texts
      <4>1. Current(a) \in WordType
        BY <2>2, <2>6, WordAt
      <4> QED BY <3>1, <4>1 DEF WordType
    <3>3. OptionWithValue(s, o) = Valued(a, o, v)
      BY <1>4, <2>1, <2>6, <3>1 DEF OptionWithValue, Valued
    <3>4. OptionWithValue(t, o) = Valued(b, o, v)
      BY <1>2, <1>4, <2>1, <2>4, <2>6, <3>1 DEF OptionWithValue, Valued
    <3> QED BY <2>4, <3>2, <3>3, <3>4, ValuedBoth
  <2> QED BY <2>5, <2>6
<1> QED BY <1>3, <1>4

(* ... when both have reached the command, *)
LEMMA StatusBoth ==
  ASSUME NEW n \in Nat, NEW W, NEW s, NEW t, Both(n, W, s, t)
  PROVE  Both(n, W, [s EXCEPT !.status = "command"], [t EXCEPT !.status = "command"])
BY DEF Parse, Agree, Both

(* ... and so after any round of the loop over the options. *)
LEMMA ParseRoundBoth ==
  ASSUME NEW n \in Nat, NEW W, NEW s, NEW t, Both(n, W, s, t)
  PROVE  Both(n, W, ParseRound(s), ParseRound(t))
<1>1. s \in Parse(n, W) /\ t \in Parse(n, W) /\ Agree(s, t)
  BY DEF Both
<1>2. s.status = t.status /\ Argc(s) = Argc(t) /\ Current(s) = Current(t)
  BY <1>1 DEF Agree, Argc, Current
<1>3. CASE s.status # "options"
  BY <1>2, <1>3 DEF ParseRound
<1>4. CASE s.status = "options"
  <2>1. ParseRound(s) = ParseOption(s) /\ ParseRound(t) = ParseOption(t)
    BY <1>2, <1>4 DEF ParseRound
  <2>2. CASE Argc(s) = 0 \/ ~ Current(s).dash
    <3>1. /\ ParseOption(s) = [s EXCEPT !.status = "command"]
          /\ ParseOption(t) = [t EXCEPT !.status = "command"]
      BY <1>2, <2>2 DEF ParseOption
    <3> QED BY <2>1, <3>1, StatusBoth
  <2>3. CASE ~ (Argc(s) = 0 \/ ~ Current(s).dash)
    <3>1. PICK w, o : w = Current(s) /\ o = w.text
      OBVIOUS
    <3>2. CASE o \in ValueOptions
      <4>1. ParseOption(s) = OptionWithValue(s, o) /\ ParseOption(t) = OptionWithValue(t, o)
        BY <1>2, <2>3, <3>1, <3>2 DEF ParseOption
      <4> QED BY <2>1, <2>3, <3>2, <4>1, OptionWithValueBoth
    <3>3. CASE o \notin ValueOptions /\ w.val # NoValue
      <4>1. ParseOption(s) = Rejected(s) /\ ParseOption(t) = Rejected(t)
        BY <1>2, <2>3, <3>1, <3>3 DEF ParseOption
      <4> QED BY <2>1, <4>1, RejectedBoth
    <3>4. CASE o \notin ValueOptions /\ w.val = NoValue
      <4>1. CASE o = ""
        <5>1. /\ ParseOption(s) = [NextArg(s) EXCEPT !.status = "command"]
              /\ ParseOption(t) = [NextArg(t) EXCEPT !.status = "command"]
          BY <1>2, <2>3, <3>1, <3>4, <4>1 DEF ParseOption
        <5> QED BY <2>1, <5>1, StatusBoth, NextArgBoth
      <4>2. CASE o = "overview"
        <5> DEFINE F(nm) == [nm EXCEPT !.overview = TRUE]
        <5>1. s.nm \in Nm(W) /\ t.nm \in Nm(W) /\ AgreeNm(s.nm, t.nm)
          BY <1>1 DEF Parse, Agree
        <5>2. F(s.nm) \in Nm(W) /\ F(t.nm) \in Nm(W) /\ AgreeNm(F(s.nm), F(t.nm))
          BY <5>1 DEF Nm, AgreeNm
        <5>3. /\ ParseOption(s) = NextArg(WithNm(s, F(s.nm)))
              /\ ParseOption(t) = NextArg(WithNm(t, F(t.nm)))
          BY <1>2, <2>3, <3>1, <3>4, <4>2 DEF ParseOption
        <5> HIDE DEF F
        <5>4. Both(n, W, WithNm(s, F(s.nm)), WithNm(t, F(t.nm)))
          BY <5>2, WithNmBoth
        <5> QED BY <2>1, <5>3, <5>4, NextArgBoth
      <4>3. CASE o \in {"terse", "pretty"}
        <5>1. ParseOption(s) = PrintOption(s, o) /\ ParseOption(t) = PrintOption(t, o)
          BY <1>2, <2>3, <3>1, <3>4, <4>3 DEF ParseOption
        <5> QED BY <2>1, <4>3, <5>1, PrintOptionBoth
      <4>4. CASE o = "nocheck"
        <5>1. ParseOption(s) = NextArg(s) /\ ParseOption(t) = NextArg(t)
          BY <1>2, <2>3, <3>1, <3>4, <4>4 DEF ParseOption
        <5> QED BY <2>1, <5>1, NextArgBoth
      <4>5. CASE o \in {"version", "help"}
        <5>1. ParseOption(s) = Answered(s) /\ ParseOption(t) = Answered(t)
          BY <1>2, <2>3, <3>1, <3>4, <4>5 DEF ParseOption
        <5> QED BY <2>1, <5>1, AnsweredBoth
      <4>6. CASE o \notin {"", "overview", "terse", "pretty", "nocheck", "version", "help"}
        <5>1. ParseOption(s) = Rejected(s) /\ ParseOption(t) = Rejected(t)
          BY <1>2, <2>3, <3>1, <3>4, <4>6 DEF ParseOption
        <5> QED BY <2>1, <5>1, RejectedBoth
      <4> QED BY <4>1, <4>2, <4>3, <4>4, <4>5, <4>6
    <3> QED BY <3>2, <3>3, <3>4
  <2> QED BY <2>2, <2>3
<1> QED BY <1>3, <1>4

(* A parse agrees with itself. *)
LEMMA BothSelf ==
  ASSUME NEW n \in Nat, NEW W, NEW s \in Parse(n, W)
  PROVE  Both(n, W, s, s)
BY DEF Both, Agree, AgreeNm

(* f holds the rounds of the loop over the options. *)
IsRounds(f, n, s) ==
  f = [k \in 0 .. n + 1 |-> IF k = 0 THEN s ELSE ParseRound(f[k - 1])]

(* The recursive definition of the loop over the options has a function    *)
(* that satisfies it, and ParseOptions is the value of that function after *)
(* the last round.                                                         *)
LEMMA RoundsOfParse ==
  ASSUME NEW n \in Nat, NEW W, NEW s \in Parse(n, W)
  PROVE  \E f : IsRounds(f, n, s) /\ ParseOptions(s) = f[n + 1]
<1> DEFINE P == Parse(n, W)
           step == [x \in P |-> ParseRound(x)]
           round == CHOOSE f : IsRounds(f, n, s)
<1>1. ASSUME NEW x \in P PROVE ParseRound(x) \in P
  <2>1. Both(n, W, x, x)
    BY <1>1, BothSelf
  <2>2. Both(n, W, ParseRound(x), ParseRound(x))
    BY <2>1, ParseRoundBoth
  <2> QED BY <2>2 DEF Both
<1> HIDE DEF P
<1>2. step \in [P -> P] /\ s \in P
  BY <1>1 DEF P
<1>3. PICK f \in [0 .. n + 1 -> P] : Rounds(f, 0, n + 1, step, s)
  <2>1. 0 \in Int /\ n + 1 \in Int
    OBVIOUS
  <2> HIDE DEF step
  <2> QED BY <1>2, <2>1, RoundsExist, ZenonT(60)
<1>4. IsRounds(f, n, s)
  <2>1. ASSUME NEW k \in 0 .. n + 1, k # 0 PROVE step[f[k - 1]] = ParseRound(f[k - 1])
    <3>1. k - 1 \in 0 .. n + 1
      BY <2>1
    <3>2. f[k - 1] \in P
      BY <1>3, <3>1
    <3> QED BY <3>2
  <2>2. f = [k \in 0 .. n + 1 |-> IF k = 0 THEN s ELSE step[f[k - 1]]]
    BY <1>3 DEF Rounds
  <2> HIDE DEF step
  <2> QED BY <2>1, <2>2 DEF IsRounds
<1>5. IsRounds(round, n, s)
  BY <1>4
<1>6. Len(s.argv) = n
  BY NextStopIn
<1>7. ParseOptions(s) = round[n + 1]
  BY <1>6 DEF ParseOptions, IsRounds
<1> HIDE DEF round
<1> QED BY <1>5, <1>7

(* Two parses that agree before the loop over the options agree after it:  *)
(* by induction over the rounds.                                           *)
LEMMA ParseOptionsBoth ==
  ASSUME NEW n \in Nat, NEW W, NEW s, NEW t, Both(n, W, s, t)
  PROVE  Both(n, W, ParseOptions(s), ParseOptions(t))
<1>1. s \in Parse(n, W) /\ t \in Parse(n, W)
  BY DEF Both
<1>2. PICK f : IsRounds(f, n, s) /\ ParseOptions(s) = f[n + 1]
  BY <1>1, RoundsOfParse
<1>3. PICK g : IsRounds(g, n, t) /\ ParseOptions(t) = g[n + 1]
  BY <1>1, RoundsOfParse
<1> DEFINE Q == {k \in Int : k \in 0 .. n + 1 => Both(n, W, f[k], g[k])}
<1>4. 0 \in Q
  <2>1. f[0] = s /\ g[0] = t
    BY <1>2, <1>3 DEF IsRounds
  <2> QED BY <2>1
<1>5. ASSUME NEW k \in 0 .. (n + 1) - 1, k \in Q PROVE k + 1 \in Q
  <2>1. k \in 0 .. n + 1 /\ k + 1 \in 0 .. n + 1 /\ (k + 1) - 1 = k /\ k + 1 # 0
    BY <1>5
  <2>2. f[k + 1] = ParseRound(f[k]) /\ g[k + 1] = ParseRound(g[k])
    BY <1>2, <1>3, <2>1 DEF IsRounds
  <2>3. Both(n, W, f[k], g[k])
    BY <1>5, <2>1
  <2>4. Both(n, W, ParseRound(f[k]), ParseRound(g[k]))
    BY <2>3, ParseRoundBoth
  <2> QED BY <2>1, <2>2, <2>4
<1>6. n + 1 \in Q
  <2>1. 0 \in Int /\ n + 1 \in Int /\ n + 1 \in 0 .. n + 1
    OBVIOUS
  <2> HIDE DEF Q
  <2>2. \A k \in 0 .. n + 1 : k \in Q
    BY <1>4, <1>5, <2>1, IntervalInduction, ZenonT(60)
  <2> QED BY <2>1, <2>2
<1>7. Both(n, W, f[n + 1], g[n + 1])
  BY <1>6
<1> QED BY <1>2, <1>3, <1>7

(* They agree after --complete-args, *)
LEMMA CompleteArgsBoth ==
  ASSUME NEW n \in Nat, NEW W, NEW s, NEW t, Both(n, W, s, t)
  PROVE  Both(n, W, CompleteArgs(s), CompleteArgs(t))
<1>1. s \in Parse(n, W) /\ t \in Parse(n, W) /\ Agree(s, t) /\ s.argv = t.argv
  BY DEF Both, Agree
<1>2. CASE ~ (Len(s.argv) > 1 /\ IsGlobal(s.argv[2], "complete-args"))
  BY <1>1, <1>2 DEF CompleteArgs
<1>3. CASE Len(s.argv) > 1 /\ IsGlobal(s.argv[2], "complete-args")
  <2> DEFINE F(nm) == [nm EXCEPT !.complete = TRUE]
  <2>1. PICK v : v = [s.argv EXCEPT ![2] = s.argv[1]]
    OBVIOUS
  <2>2. v \in [1 .. n -> Words]
    <3>1. s.argv \in [1 .. n -> Words] /\ Len(s.argv) = n
      BY <1>1, NextStopIn DEF Parse
    <3>2. 1 \in 1 .. n
      BY <1>3, <3>1
    <3> QED BY <2>1, <3>1, <3>2
  <2>3. PICK a, b : a = [s EXCEPT !.argv = v] /\ b = [t EXCEPT !.argv = v]
    OBVIOUS
  <2>4. Both(n, W, a, b)
    <3>1. a \in Parse(n, W) /\ b \in Parse(n, W)
      BY <1>1, <2>2, <2>3 DEF Parse
    <3>2. Agree(a, b)
      BY <1>1, <2>3 DEF Agree, Parse
    <3> QED BY <3>1, <3>2 DEF Both
  <2>5. s.nm \in Nm(W) /\ t.nm \in Nm(W) /\ AgreeNm(s.nm, t.nm)
    BY <1>1 DEF Parse, Agree
  <2>6. F(s.nm) \in Nm(W) /\ F(t.nm) \in Nm(W) /\ AgreeNm(F(s.nm), F(t.nm))
    BY <2>5 DEF Nm, AgreeNm
  <2>7. /\ CompleteArgs(s) = NextArg(WithNm(a, F(s.nm)))
        /\ CompleteArgs(t) = NextArg(WithNm(b, F(t.nm)))
    BY <1>1, <1>3, <2>1, <2>3 DEF CompleteArgs
  <2> HIDE DEF F
  <2>8. Both(n, W, WithNm(a, F(s.nm)), WithNm(b, F(t.nm)))
    BY <2>4, <2>6, WithNmBoth
  <2> QED BY <2>7, <2>8, NextArgBoth
<1> QED BY <1>2, <1>3

(* ... and after set_colors(), which sets only what the agreement leaves   *)
(* out, whatever standard output is.                                       *)
LEMMA SetColorsBoth ==
  ASSUME NEW n \in Nat, NEW W, NEW s, NEW t, Both(n, W, s, t),
         NEW x \in BOOLEAN, NEW y \in BOOLEAN
  PROVE  Both(n, W, SetColors(s, x), SetColors(t, y))
<1>1. s \in Parse(n, W) /\ t \in Parse(n, W) /\ Agree(s, t)
  BY DEF Both
<1>2. s.nm \in Nm(W) /\ t.nm \in Nm(W) /\ AgreeNm(s.nm, t.nm)
  BY <1>1 DEF Parse, Agree
<1>3. PICK a \in BOOLEAN, b \in BOOLEAN :
         SetColors(s, x) = WithNm(s, [s.nm EXCEPT !.use_colors = a, !.overview = b])
  <2>1. PICK c \in BOOLEAN : c = ((s.colors = "yes") \/ (s.colors = "auto" /\ x))
    OBVIOUS
  <2>2. PICK d \in BOOLEAN : d = (s.nm.overview /\ (s.nm.required_fields = NoValue))
    OBVIOUS
  <2> QED BY <2>1, <2>2 DEF SetColors
<1>4. PICK c \in BOOLEAN, d \in BOOLEAN :
         SetColors(t, y) = WithNm(t, [t.nm EXCEPT !.use_colors = c, !.overview = d])
  <2>1. PICK c \in BOOLEAN : c = ((t.colors = "yes") \/ (t.colors = "auto" /\ y))
    OBVIOUS
  <2>2. PICK d \in BOOLEAN : d = (t.nm.overview /\ (t.nm.required_fields = NoValue))
    OBVIOUS
  <2> QED BY <2>1, <2>2 DEF SetColors
<1> DEFINE F == [s.nm EXCEPT !.use_colors = a, !.overview = b]
           G == [t.nm EXCEPT !.use_colors = c, !.overview = d]
<1>5. F \in Nm(W) /\ G \in Nm(W) /\ AgreeNm(F, G)
  <2>1. F \in Nm(W)
    BY <1>2 DEF Nm
  <2>2. G \in Nm(W)
    BY <1>2 DEF Nm
  <2>3. AgreeNm(F, G)
    BY <1>2 DEF Nm, AgreeNm
  <2> QED BY <2>1, <2>2, <2>3
<1>6. SetColors(s, x) = WithNm(s, F) /\ SetColors(t, y) = WithNm(t, G)
  BY <1>3, <1>4
<1> HIDE DEF F, G
<1> QED BY <1>5, <1>6, WithNmBoth

(* process_command_line() depends on the global only through what agreeing *)
(* globals share: parsing the same vector from agreeing globals gives      *)
(* agreeing results.                                                       *)
LEMMA ProcessBoth ==
  ASSUME NEW n \in Nat, NEW W, NEW a \in Nm(W), NEW b \in Nm(W), AgreeNm(a, b),
         NEW v \in [1 .. n -> Words], NEW x \in BOOLEAN, NEW y \in BOOLEAN
  PROVE  Both(n, W, ProcessCommandLine(a, v, x), ProcessCommandLine(b, v, y))
<1>1. Both(n, W, ParseAt(a, v, 1), ParseAt(b, v, 1))
  <2>1. ParseAt(a, v, 1) \in Parse(n, W) /\ ParseAt(b, v, 1) \in Parse(n, W)
    BY DEF ParseAt, Parse
  <2>2. Agree(ParseAt(a, v, 1), ParseAt(b, v, 1))
    BY DEF ParseAt, Agree
  <2> QED BY <2>1, <2>2 DEF Both
<1>2. Both(n, W, CompleteArgs(ParseAt(a, v, 1)), CompleteArgs(ParseAt(b, v, 1)))
  BY <1>1, CompleteArgsBoth
<1>3. Both(n, W, NextArg(CompleteArgs(ParseAt(a, v, 1))), NextArg(CompleteArgs(ParseAt(b, v, 1))))
  BY <1>2, NextArgBoth
<1>4. PICK s, t : /\ s = ParseOptions(NextArg(CompleteArgs(ParseAt(a, v, 1))))
                  /\ t = ParseOptions(NextArg(CompleteArgs(ParseAt(b, v, 1))))
  OBVIOUS
<1>5. Both(n, W, s, t)
  BY <1>3, <1>4, ParseOptionsBoth
<1>6. s.status = t.status
  BY <1>5 DEF Both, Agree
<1>7. /\ ProcessCommandLine(a, v, x) = IF s.status = "command" THEN SetColors(s, x) ELSE s
      /\ ProcessCommandLine(b, v, y) = IF t.status = "command" THEN SetColors(t, y) ELSE t
  BY <1>4 DEF ProcessCommandLine
<1>8. Both(n, W, SetColors(s, x), SetColors(t, y))
  BY <1>5, SetColorsBoth
<1> QED BY <1>5, <1>6, <1>7, <1>8

-----------------------------------------------------------------------------
(* The loop over the options ends within the rounds that the model gives   *)
(* it: every round ends it or goes on to a later word.                     *)

(* The loop has ended, or is at a later word. *)
Moves(s, t) == t.status # "options" \/ t.p > s.p

(* next_arg() goes on to a later word, *)
LEMMA NextArgMoves ==
  ASSUME NEW n \in Nat, NEW W, NEW s \in Parse(n, W), s.p \in 1 .. n
  PROVE  NextArg(s).p > s.p
BY NextArgIn, NextStopIn

(* ... also when the global has been changed before. *)
LEMMA WithNmMoves ==
  ASSUME NEW n \in Nat, NEW W, NEW s \in Parse(n, W), s.p \in 1 .. n, NEW nm \in Nm(W)
  PROVE  NextArg(WithNm(s, nm)).p > s.p
<1>1. PICK t : t = WithNm(s, nm)
  OBVIOUS
<1>2. t \in Parse(n, W) /\ t.p = s.p
  BY <1>1, WithNmFields
<1>3. NextArg(t).p > t.p
  BY <1>2, NextArgMoves
<1> QED BY <1>1, <1>2, <1>3

(* A rejected command line stops the parse. *)
LEMMA RejectedStops ==
  ASSUME NEW n \in Nat, NEW W, NEW s \in Parse(n, W)
  PROVE  Rejected(s).status = "stop"
<1>1. PICK t : t = [s EXCEPT !.status = "stop"]
  OBVIOUS
<1>2. PICK nm : nm = [s.nm EXCEPT !.return_value = ERROR_USER_INPUT]
  OBVIOUS
<1>3. t \in Parse(n, W) /\ t.status = "stop"
  BY <1>1 DEF Parse
<1>4. WithNm(t, nm).status = "stop"
  BY <1>3 DEF WithNm, Parse
<1> QED BY <1>1, <1>2, <1>4 DEF Rejected

(* Giving an option its value ends the loop or goes on, *)
LEMMA ValuedMoves ==
  ASSUME NEW n \in Nat, NEW W, NEW s \in Parse(n, W), s.p \in 1 .. n,
         NEW o \in ValueOptions, NEW v \in Texts
  PROVE  Moves(s, Valued(s, o, v))
<1>1. CASE ValidValue(o, v)
  <2>1. PICK t : t = ValueOption(s, o, v)
    OBVIOUS
  <2>2. t \in Parse(n, W)
    <3>1. Both(n, W, t, t)
      BY <1>1, <2>1, BothSelf, ValueOptionBoth
    <3> QED BY <3>1 DEF Both
  <2>3. t.p = s.p
    <3>1. \A nm : WithNm(s, nm).p = s.p
      BY DEF WithNm, Parse
    <3>2. (\E nm : t = WithNm(s, nm)) \/ t = [s EXCEPT !.colors = v]
      BY <2>1 DEF ValueOption
    <3> QED BY <3>1, <3>2 DEF Parse
  <2>4. NextArg(t).p > s.p
    BY <2>2, <2>3, NextArgMoves
  <2> QED BY <1>1, <2>1, <2>4 DEF Valued, Moves
<1>2. CASE ~ ValidValue(o, v)
  <2>1. PICK nm : nm = [s.nm EXCEPT !.mode_specified = TRUE]
    OBVIOUS
  <2>2. nm \in Nm(W)
    <3>1. s.nm \in Nm(W)
      BY DEF Parse
    <3> QED BY <2>1, <3>1 DEF Nm
  <2>3. WithNm(s, nm) \in Parse(n, W)
    BY <2>2, WithNmFields
  <2>4. Rejected(s).status = "stop" /\ Rejected(WithNm(s, nm)).status = "stop"
    BY <2>3, RejectedStops
  <2>5. Valued(s, o, v) = Rejected(IF o = "mode" THEN WithNm(s, nm) ELSE s)
    BY <1>2, <2>1 DEF Valued
  <2> QED BY <2>4, <2>5 DEF Moves
<1> QED BY <1>1, <1>2

(* ... wherever the value was found, *)
LEMMA OptionWithValueMoves ==
  ASSUME NEW n \in Nat, NEW W, NEW s \in Parse(n, W), Argc(s) # 0, NEW o \in ValueOptions
  PROVE  Moves(s, OptionWithValue(s, o))
<1>1. s.p \in 1 .. n /\ Current(s) \in WordType
  BY WordAt
<1>2. CASE Current(s).val # NoValue
  <2>1. PICK v : v = Current(s).val
    OBVIOUS
  <2>2. v \in Texts
    BY <1>1, <2>1 DEF WordType
  <2>3. PICK t : t = ReplaceSeparator(s)
    OBVIOUS
  <2>4. t \in Parse(n, W)
    <3>1. Both(n, W, t, t)
      BY <1>1, <2>3, BothSelf, ReplaceSeparatorBoth
    <3> QED BY <3>1 DEF Both
  <2>5. t.p = s.p
    BY <2>3 DEF ReplaceSeparator, Parse
  <2>6. OptionWithValue(s, o) = Valued(t, o, v)
    BY <1>2, <2>1, <2>3 DEF OptionWithValue, Valued
  <2> QED BY <1>1, <2>2, <2>4, <2>5, <2>6, ValuedMoves DEF Moves
<1>3. CASE Current(s).val = NoValue
  <2>1. PICK t : t = [s EXCEPT !.p = @ + 1]
    OBVIOUS
  <2>2. t \in Parse(n, W) /\ t.p = s.p + 1
    BY <1>1, <2>1 DEF Parse
  <2>3. CASE Argc(t) = 0
    <3>1. OptionWithValue(s, o) = Rejected(t)
      BY <1>3, <2>1, <2>3 DEF OptionWithValue
    <3> QED BY <2>2, <3>1, RejectedStops DEF Moves
  <2>4. CASE Argc(t) # 0
    <3>1. PICK v : v = Current(t).text
      OBVIOUS
    <3>2. v \in Texts /\ t.p \in 1 .. n
      <4>1. Current(t) \in WordType /\ t.p \in 1 .. n
        BY <2>2, <2>4, WordAt
      <4> QED BY <3>1, <4>1 DEF WordType
    <3>3. OptionWithValue(s, o) = Valued(t, o, v)
      BY <1>3, <2>1, <2>4, <3>1 DEF OptionWithValue, Valued
    <3>4. Moves(t, Valued(t, o, v))
      BY <2>2, <3>2, ValuedMoves
    <3>5. Valued(t, o, v).p \in Int
      <4>1. Both(n, W, Valued(t, o, v), Valued(t, o, v))
        BY <2>2, <3>2, BothSelf, ValuedBoth
      <4> QED BY <4>1 DEF Both, Parse
    <3> QED BY <1>1, <2>2, <3>3, <3>4, <3>5 DEF Moves
  <2> QED BY <2>3, <2>4
<1> QED BY <1>2, <1>3

(* ... and so does every round. *)
LEMMA ParseRoundMoves ==
  ASSUME NEW n \in Nat, NEW W, NEW s \in Parse(n, W)
  PROVE  s.p \in 1 .. n + 1 /\ Moves(s, ParseRound(s))
<1>1. CASE s.status # "options"
  BY <1>1 DEF ParseRound, Moves, Parse
<1>2. CASE s.status = "options"
  <2>1. ParseRound(s) = ParseOption(s)
    BY <1>2 DEF ParseRound
  <2>2. CASE Argc(s) = 0 \/ ~ Current(s).dash
    <3>1. ParseOption(s) = [s EXCEPT !.status = "command"]
      BY <2>2 DEF ParseOption
    <3>2. [s EXCEPT !.status = "command"].status = "command"
      BY DEF Parse
    <3> QED BY <2>1, <3>1, <3>2 DEF Moves, Parse
  <2>3. CASE ~ (Argc(s) = 0 \/ ~ Current(s).dash)
    <3>1. s.p \in 1 .. n /\ s.nm \in Nm(W)
      BY <2>3, WordAt DEF Parse
    <3>2. PICK w, o : w = Current(s) /\ o = w.text
      OBVIOUS
    <3>3. NextArg(s).p > s.p /\ NextArg(s) \in Parse(n, W)
      BY <3>1, NextArgMoves, NextArgIn
    <3>4. Rejected(s).status = "stop"
      BY RejectedStops
    <3>5. CASE o \in ValueOptions
      <4>1. ParseOption(s) = OptionWithValue(s, o)
        BY <2>3, <3>2, <3>5 DEF ParseOption
      <4> QED BY <2>1, <2>3, <3>1, <3>5, <4>1, OptionWithValueMoves
    <3>6. CASE o \notin ValueOptions /\ w.val # NoValue
      <4>1. ParseOption(s) = Rejected(s)
        BY <2>3, <3>2, <3>6 DEF ParseOption
      <4> QED BY <2>1, <3>1, <3>4, <4>1 DEF Moves
    <3>7. CASE o \notin ValueOptions /\ w.val = NoValue
      <4>1. CASE o = ""
        <5>1. ParseOption(s) = [NextArg(s) EXCEPT !.status = "command"]
          BY <2>3, <3>2, <3>7, <4>1 DEF ParseOption
        <5>2. [NextArg(s) EXCEPT !.status = "command"].status = "command"
          BY <3>3 DEF Parse
        <5> QED BY <2>1, <3>1, <5>1, <5>2 DEF Moves
      <4>2. CASE o = "overview"
        <5>1. PICK nm : nm = [s.nm EXCEPT !.overview = TRUE]
          OBVIOUS
        <5>2. nm \in Nm(W)
          BY <3>1, <5>1 DEF Nm
        <5>3. ParseOption(s) = NextArg(WithNm(s, nm))
          BY <2>3, <3>2, <3>7, <4>2, <5>1 DEF ParseOption
        <5> QED BY <2>1, <3>1, <5>2, <5>3, WithNmMoves DEF Moves
      <4>3. CASE o \in {"terse", "pretty"}
        <5>1. PICK nm : nm = [s.nm EXCEPT !.print_output = o]
          OBVIOUS
        <5>2. nm \in Nm(W)
          BY <3>1, <4>3, <5>1 DEF Nm
        <5>3. ParseOption(s) \in {Rejected(s), NextArg(WithNm(s, nm))}
          BY <2>3, <3>2, <3>7, <4>3, <5>1 DEF ParseOption, PrintOption
        <5> QED BY <2>1, <3>1, <3>4, <5>2, <5>3, WithNmMoves DEF Moves
      <4>4. CASE o = "nocheck"
        <5>1. ParseOption(s) = NextArg(s)
          BY <2>3, <3>2, <3>7, <4>4 DEF ParseOption
        <5> QED BY <2>1, <3>1, <3>3, <5>1 DEF Moves
      <4>5. CASE o \in {"version", "help"}
        <5>1. ParseOption(s) = Answered(s)
          BY <2>3, <3>2, <3>7, <4>5 DEF ParseOption
        <5>2. Answered(s).status = "stop"
          BY DEF Answered, Parse
        <5> QED BY <2>1, <3>1, <5>1, <5>2 DEF Moves
      <4>6. CASE o \notin {"", "overview", "terse", "pretty", "nocheck", "version", "help"}
        <5>1. ParseOption(s) = Rejected(s)
          BY <2>3, <3>2, <3>7, <4>6 DEF ParseOption
        <5> QED BY <2>1, <3>1, <3>4, <5>1 DEF Moves
      <4> QED BY <4>1, <4>2, <4>3, <4>4, <4>5, <4>6
    <3> QED BY <3>5, <3>6, <3>7
  <2> QED BY <2>2, <2>3
<1> QED BY <1>1, <1>2

(* The loop over the options has ended after the rounds that the model     *)
(* gives it: after k rounds it is at word k + 1 at least, and there are n  *)
(* + 1 positions.                                                          *)
LEMMA ParseOptionsEnds ==
  ASSUME NEW n \in Nat, NEW W, NEW s \in Parse(n, W)
  PROVE  ParseOptions(s).status # "options"
<1>1. PICK f : IsRounds(f, n, s) /\ ParseOptions(s) = f[n + 1]
  BY RoundsOfParse
<1> DEFINE Q == {k \in Int : k \in 0 .. n + 1 =>
                   f[k] \in Parse(n, W) /\ (f[k].status = "options" => f[k].p >= k + 1)}
<1>2. 0 \in Q
  <2>1. f[0] = s
    BY <1>1 DEF IsRounds
  <2> QED BY <2>1 DEF Parse
<1>3. ASSUME NEW k \in 0 .. (n + 1) - 1, k \in Q PROVE k + 1 \in Q
  <2>1. k \in 0 .. n + 1 /\ k + 1 \in 0 .. n + 1 /\ (k + 1) - 1 = k /\ k + 1 # 0
    BY <1>3
  <2>2. f[k + 1] = ParseRound(f[k])
    BY <1>1, <2>1 DEF IsRounds
  <2>3. f[k] \in Parse(n, W) /\ (f[k].status = "options" => f[k].p >= k + 1)
    BY <1>3, <2>1
  <2>4. PICK t : t = ParseRound(f[k])
    OBVIOUS
  <2>5. t \in Parse(n, W)
    <3>1. Both(n, W, t, t)
      BY <2>3, <2>4, BothSelf, ParseRoundBoth
    <3> QED BY <3>1 DEF Both
  <2>6. Moves(f[k], t) /\ f[k].p \in 1 .. n + 1 /\ t.p \in 1 .. n + 1
    BY <2>3, <2>4, <2>5, ParseRoundMoves
  <2>7. f[k].status # "options" => t = f[k]
    BY <2>4 DEF ParseRound
  <2>8. t.status = "options" => t.p >= k + 2
    BY <2>3, <2>6, <2>7 DEF Moves
  <2> QED BY <2>1, <2>2, <2>4, <2>5, <2>8
<1>4. n + 1 \in Q
  <2>1. 0 \in Int /\ n + 1 \in Int /\ n + 1 \in 0 .. n + 1
    OBVIOUS
  <2> HIDE DEF Q
  <2>2. \A k \in 0 .. n + 1 : k \in Q
    BY <1>2, <1>3, <2>1, IntervalInduction, ZenonT(60)
  <2> QED BY <2>1, <2>2
<1>5. f[n + 1] \in Parse(n, W) /\ (f[n + 1].status = "options" => f[n + 1].p >= n + 2)
  BY <1>4
<1>6. f[n + 1].p \in 1 .. n + 1
  BY <1>5 DEF Parse
<1> QED BY <1>1, <1>5, <1>6

(* process_command_line() ends for every vector: it reaches a command or   *)
(* returns FALSE, and the number of rounds that ParseOptions allows is     *)
(* never what ends it.                                                     *)
THEOREM CommandLineEnds ==
  ASSUME NEW words \in Seq(Words), NEW nm \in Nm(Int), NEW tty \in BOOLEAN
  PROVE  ProcessCommandLine(nm, words, tty).status \in {"command", "stop"}
<1>1. PICK n \in Nat : n = Len(words)
  OBVIOUS
<1>2. words \in [1 .. n -> Words]
  BY <1>1
<1>3. PICK u : u = ParseAt(nm, words, 1)
  OBVIOUS
<1>4. u \in Parse(n, Int)
  BY <1>2, <1>3 DEF ParseAt, Parse
<1>5. PICK s : s = NextArg(CompleteArgs(u))
  OBVIOUS
<1>6. s \in Parse(n, Int)
  <2>1. Both(n, Int, s, s)
    BY <1>4, <1>5, BothSelf, CompleteArgsBoth, NextArgBoth
  <2> QED BY <2>1 DEF Both
<1>7. PICK t : t = ParseOptions(s)
  OBVIOUS
<1>8. t.status # "options" /\ t \in Parse(n, Int)
  <2>1. Both(n, Int, t, t)
    BY <1>6, <1>7, BothSelf, ParseOptionsBoth
  <2> QED BY <1>6, <1>7, <2>1, ParseOptionsEnds DEF Both
<1>9. t.status \in {"command", "stop"}
  BY <1>8 DEF Parse
<1>10. SetColors(t, tty).status = t.status
  <2>1. \A a : WithNm(t, a).status = t.status
    BY <1>8 DEF WithNm, Parse
  <2> QED BY <2>1 DEF SetColors
<1>11. ProcessCommandLine(nm, words, tty) = IF t.status = "command" THEN SetColors(t, tty) ELSE t
  BY <1>3, <1>5, <1>7 DEF ProcessCommandLine
<1> QED BY <1>9, <1>10, <1>11

(* What nmcli_execute() resets makes nm_cli agree with its static          *)
(* initialisation, whatever the calls before have left in it.              *)
LEMMA ReinitializeFresh ==
  ASSUME NEW nm \in Nm(Int)
  PROVE  Reinitialize(nm) \in Nm({0}) /\ AgreeNm(InitialNmCli, Reinitialize(nm))
<1>1. SUCCESS \in Codes /\ NoValue \in Texts
  BY DEF Codes, Texts
<1>2. PICK c : c = NmcCleanup(nm)
  OBVIOUS
<1>3. c \in Nm(Int) /\ c.client = FALSE /\ c.required_fields = NoValue /\ c.pager = FALSE
  BY <1>1, <1>2 DEF NmcCleanup, Nm
<1>4. PICK r : r = [c EXCEPT
     !.return_value = SUCCESS, !.timeout = -1, !.should_wait = 0,
     !.nowait_flag = TRUE, !.print_output = "normal", !.multiline_output = FALSE,
     !.mode_specified = FALSE, !.escape_values = TRUE, !.ask = FALSE,
     !.complete = FALSE, !.show_secrets = FALSE]
  OBVIOUS
<1>5. r = [client |-> c.client, return_value |-> SUCCESS, timeout |-> -1,
           should_wait |-> 0, nowait_flag |-> TRUE,
           print_output |-> "normal", multiline_output |-> FALSE, mode_specified |-> FALSE,
           escape_values |-> TRUE, required_fields |-> c.required_fields, ask |-> FALSE,
           complete |-> FALSE, show_secrets |-> FALSE, overview |-> c.overview,
           use_colors |-> c.use_colors, pager |-> c.pager, progress_id |-> c.progress_id]
  BY <1>3, <1>4 DEF Nm
<1>6. c.overview \in BOOLEAN /\ c.use_colors \in BOOLEAN /\ c.progress_id \in Nat
  BY <1>3 DEF Nm
<1>7. r \in Nm({0})
  BY <1>1, <1>3, <1>5, <1>6 DEF Nm
<1>8. AgreeNm(InitialNmCli, r)
  BY <1>3, <1>5 DEF AgreeNm, InitialNmCli
<1>9. Reinitialize(nm) = r
  BY <1>2, <1>4 DEF Reinitialize
<1> QED BY <1>7, <1>8, <1>9

(* nmc_do_cmd() chooses the same for parses that agree, *)
LEMMA DoCmdAgree ==
  ASSUME NEW n \in Nat, NEW W, NEW s, NEW t, Both(n, W, s, t), NEW cmds
  PROVE  DoCmd(s, cmds) = DoCmd(t, cmds)
<1>1. s.nm.complete = t.nm.complete /\ Argc(s) = Argc(t) /\ Current(s) = Current(t)
  BY DEF Both, Agree, AgreeNm, Argc, Current
<1> QED BY <1>1 DEF DoCmd, AsksForUsage

(* ... and so do the two nested ones: the same handler. *)
LEMMA DispatchAgree ==
  ASSUME NEW n \in Nat, NEW W, NEW s, NEW t, Both(n, W, s, t), NEW c, NEW d
  PROVE  DispatchCommand(s, c).handler = DispatchCommand(t, d).handler
<1>1. \A cmds : DoCmd(s, cmds) = DoCmd(t, cmds)
  BY DoCmdAgree
<1>2. Both(n, W, NextArg(s), NextArg(t))
  BY NextArgBoth
<1>3. \A cmds : DoCmd(NextArg(s), cmds) = DoCmd(NextArg(t), cmds)
  BY <1>2, DoCmdAgree
<1> QED BY <1>1, <1>3 DEF DispatchCommand

(* nmc_do_cmd() returns one of two codes or calls a handler of its table. *)
LEMMA DoCmdHandler ==
  ASSUME NEW s, NEW cmds
  PROVE  \/ DoCmd(s, cmds).handler = <<>> /\ DoCmd(s, cmds).code \in {SUCCESS, ERROR_USER_INPUT}
         \/ \E c \in cmds.commands \union {cmds.default} : DoCmd(s, cmds) = Calls(Handler(cmds, c))
BY DEF DoCmd, Returned

(* The handlers, one by one. *)
LEMMA HandlersAre ==
  Handlers = {<<"nmcli", "overview">>, <<"general", "status">>, <<"general", "hostname">>,
              <<"general", "permissions">>, <<"general", "reload">>, <<"device", "status">>,
              <<"device", "connect">>, <<"device", "disconnect">>}
BY DEF Handlers, Handler, general_cmds, device_cmds

(* What the two nested nmc_do_cmd() give: a position, a handler or none,   *)
(* and tasks.                                                              *)
LEMMA DispatchIn ==
  ASSUME NEW n \in Nat, NEW W, NEW s \in Parse(n, W), NEW c
  PROVE  /\ DispatchCommand(s, c).s \in Parse(n, W)
         /\ DispatchCommand(s, c).handler \in Handlers \union {<<>>}
         /\ DispatchCommand(s, c).tasks \subseteq
              {Task("outer", c, x) : x \in {SUCCESS, ERROR_USER_INPUT}} \union
              {Task("inner", c, x) : x \in {SUCCESS, ERROR_USER_INPUT}}
<1>1. NextArg(s) \in Parse(n, W)
  BY NextArgIn
<1>2. PICK top : top = DoCmd(s, nmcli_cmds)
  OBVIOUS
<1>3. CASE top.handler \in {<<"nmcli", "general">>, <<"nmcli", "device">>}
  <2>1. PICK cmds \in {general_cmds, device_cmds} :
          cmds = IF top.handler = <<"nmcli", "general">> THEN general_cmds ELSE device_cmds
    OBVIOUS
  <2>2. PICK sub : sub = DoCmd(NextArg(s), cmds)
    OBVIOUS
  <2>3. DispatchCommand(s, c) =
          [s |-> NextArg(s), handler |-> sub.handler,
           tasks |-> {Task("outer", c, SUCCESS)} \union
                     IF sub.handler = <<>> THEN {Task("inner", c, sub.code)} ELSE {}]
    BY <1>2, <1>3, <2>1, <2>2 DEF DispatchCommand
  <2>4. (sub.handler = <<>> /\ sub.code \in {SUCCESS, ERROR_USER_INPUT}) \/ sub.handler \in Handlers
    <3>1. CASE sub.handler = <<>> /\ sub.code \in {SUCCESS, ERROR_USER_INPUT}
      BY <3>1
    <3>2. CASE \E x \in cmds.commands \union {cmds.default} : sub = Calls(Handler(cmds, x))
      <4>1. PICK x \in cmds.commands \union {cmds.default} : sub = Calls(Handler(cmds, x))
        BY <3>2
      <4>2. sub.handler = <<cmds.table, x>>
        BY <4>1 DEF Calls, Handler
      <4>3. CASE cmds = general_cmds
        BY <4>2, <4>3, HandlersAre DEF general_cmds
      <4>4. CASE cmds = device_cmds
        BY <4>2, <4>4, HandlersAre DEF device_cmds
      <4> QED BY <2>1, <4>3, <4>4
    <3> QED BY <2>2, <3>1, <3>2, DoCmdHandler
  <2>5. DispatchCommand(s, c).s = NextArg(s) /\ DispatchCommand(s, c).handler = sub.handler
    BY <2>3
  <2>6. DispatchCommand(s, c).tasks = {Task("outer", c, SUCCESS)} \union
          IF sub.handler = <<>> THEN {Task("inner", c, sub.code)} ELSE {}
    BY <2>3
  <2>7. sub.handler = <<>> => sub.code \in {SUCCESS, ERROR_USER_INPUT}
    <3>1. <<>> \notin Handlers
      BY HandlersAre
    <3> QED BY <2>4, <3>1
  <2> QED BY <1>1, <2>4, <2>5, <2>6, <2>7
<1>4. CASE top.handler \notin {<<"nmcli", "general">>, <<"nmcli", "device">>}
  <2>1. DispatchCommand(s, c) =
          [s |-> s, handler |-> top.handler,
           tasks |-> IF top.handler = <<>> THEN {Task("outer", c, top.code)} ELSE {}]
    BY <1>2, <1>4 DEF DispatchCommand
  <2>2. (top.handler = <<>> /\ top.code \in {SUCCESS, ERROR_USER_INPUT}) \/ top.handler \in Handlers
    <3>1. CASE top.handler = <<>> /\ top.code \in {SUCCESS, ERROR_USER_INPUT}
      BY <3>1
    <3>2. CASE \E x \in nmcli_cmds.commands \union {nmcli_cmds.default} : top = Calls(Handler(nmcli_cmds, x))
      <4>1. PICK x \in {"general", "device", "overview"} : top.handler = <<"nmcli", x>>
        BY <3>2 DEF Calls, Handler, nmcli_cmds
      <4> QED BY <1>4, <4>1, HandlersAre
    <3> QED BY <1>2, <3>1, <3>2, DoCmdHandler
  <2>3. DispatchCommand(s, c).s = s /\ DispatchCommand(s, c).handler = top.handler
    BY <2>1
  <2>4. DispatchCommand(s, c).tasks =
          IF top.handler = <<>> THEN {Task("outer", c, top.code)} ELSE {}
    BY <2>1
  <2>5. top.handler = <<>> => top.code \in {SUCCESS, ERROR_USER_INPUT}
    <3>1. <<>> \notin Handlers
      BY HandlersAre
    <3> QED BY <2>2, <3>1
  <2> QED BY <2>2, <2>3, <2>4, <2>5
<1> QED BY <1>3, <1>4

-----------------------------------------------------------------------------
(* The options that OptionsAreOwn compares. *)
SameOptions(a, b) ==
  /\ a.print_output = b.print_output /\ a.multiline_output = b.multiline_output
  /\ a.mode_specified = b.mode_specified /\ a.escape_values = b.escape_values
  /\ a.required_fields = b.required_fields /\ a.complete = b.complete

(* The type of a source. *)
SourceType ==
  [kind : Kinds, call : Nat, level : {"none", "outer", "inner"}, code : Codes,
   handler : Handlers \union {<<>>}, argv : Seq(Words), p : Nat]

(* The client that is waited for can be used to run a handler; signals     *)
(* belong to no call.                                                      *)
WellFormed(src) ==
  /\ src \in SourceType
  /\ src.kind = "got_client" => /\ src.call > 0
                                /\ src.handler \in Handlers
                                /\ src.p \in 1 .. Len(src.argv) + 1
  /\ src.kind \in {"SIGINT", "SIGTERM"} => src.call = 0

(* The call that runs. *)
Entry == [entry : Entries, passed : Seq(Words)]

(* The types; a source is dispatched only while a loop runs, and belongs   *)
(* to no later call.                                                       *)
TypeInv ==
  /\ nm_cli \in Nm(Int)
  /\ loop \in {"none", "running", "quit", "exited"}
  /\ \A src \in sources : WellFormed(src) /\ src.call <= call
  /\ ready \subseteq sources
  /\ loop \in {"none", "exited"} => ready = {}
  /\ argv \in Seq(Words)
  /\ frame \in Entry
  /\ call \in 0 .. MaxCalls
  /\ loop # "none" => call > 0
  /\ signals \in 0 .. MaxSignals
  /\ stdout_open \in BOOLEAN
  /\ touched \subseteq 0 .. call

(* The clients that are waited for. *)
Awaited == {src \in sources : src.kind = "got_client"}

(* should_wait loses at most one for every client that arrives, and every  *)
(* call waits for at most one.                                             *)
WaitInv ==
  /\ IsFiniteSet(Awaited)
  /\ Cardinality(Awaited) <= call
  /\ nm_cli.should_wait <= 1
  /\ nm_cli.should_wait >= Cardinality(Awaited) - call

(* A handler runs when its client arrives, and then never again. *)
RanInv ==
  /\ ran \in [1 .. MaxCalls -> 0 .. 1]
  /\ \A i \in 1 .. MaxCalls : i > call => ran[i] = 0
  /\ \A src \in Awaited : ran[src.call] = 0
  /\ \A a, b \in Awaited : a.call = b.call => a = b

(* Replies that are waited for alone, and what keeps the loop running. *)
Replies == {"got_client", "save_hostname_cb", "connect_device_cb", "add_and_activate_cb"}
Pending == Replies \union {"disconnect_device_cb", "device_op_timeout_cb"}

(* What `device connect' has in the context. *)
ConnectKinds == {"command_done", "connect_device_cb", "add_and_activate_cb",
                 "connected_state_cb", "timeout_cb", "progress_cb"}

(* A call runs. *)
Running == loop \in {"running", "quit"}

(* While nothing foreign has been dispatched: the tasks that have returned *)
(* are dispatched in the first iteration, the loop runs on and should_wait *)
(* is positive while a reply is pending, and a command waits for one thing *)
(* at a time, showing its progress or not.  The loop runs while            *)
(* progress_id names a source of the call; one that it does not name is    *)
(* the first of the two.                                                   *)
OwnInv ==
  Running /\ Undisturbed =>
    /\ \A a \in sources : a.call = call /\ a.kind = "command_done" =>
         a \in ready \/ (loop = "running" /\ ready = {})
    /\ \A a \in sources : a.call = call /\ a.kind \in Pending =>
         loop = "running" /\ nm_cli.should_wait >= 1
    /\ \A a, b \in sources :
         a.call = call /\ b.call = call /\ a.kind \in Replies /\ b.kind # "command_done"
         => a = b \/ b = Progress(call, 0)
    /\ \A a, b \in sources :
         a.call = call /\ b.call = call /\ a.kind \in DisconnectKinds =>
         b.kind \in DisconnectKinds \union {"command_done"}
    /\ \A a, b \in sources :
         a.call = call /\ b.call = call /\ a.kind = "progress_cb" => b.kind \in ConnectKinds
    /\ \A a \in sources : a.call = call /\ a.kind = "progress_cb" =>
         /\ a.p = nm_cli.progress_id => loop = "running" /\ nm_cli.should_wait >= 1
         /\ a = Progress(call, 0) \/ a.p = nm_cli.progress_id

(* ... and the handler that the command line asks for has run, is about to *)
(* run, or cannot run.                                                     *)
HandlerInv ==
  Running /\ Undisturbed /\ HandlerFor(frame.passed) # <<>> =>
    \/ ran[call] = 1
    \/ nm_cli.return_value # SUCCESS
    \/ \E src \in sources : src.call = call /\ src.kind = "got_client"

(* Every call that has returned has one result. *)
ResultType == [entry : Entries, passed : Seq(Words), value : Codes \union {ERROR_BUFFER_TOO_SMALL},
               touched : SUBSET Nat]

ResultsInv ==
  /\ results \in Seq(ResultType)
  /\ Len(results) = IF loop = "none" THEN call ELSE call - 1

(* OptionsAreOwn, with the options one by one. *)
OptionsInv ==
  Running => SameOptions(nm_cli, ProcessCommandLine(InitialNmCli, frame.passed, Terminal).nm)

(* The inductive invariant.  The three properties among its conjuncts are  *)
(* kept with the help of the others.                                       *)
Inv ==
  /\ TypeInv /\ WaitInv /\ RanInv /\ OwnInv /\ HandlerInv /\ ResultsInv
  /\ LeavesOnlyItsTimeout /\ HandlerRunsOnce /\ OptionsInv

-----------------------------------------------------------------------------
(* a is b after a callback that counts nothing; d more are waited for. *)
Keeps(a, b, d) ==
  a \in Nm(Int) /\ SameOptions(a, b) /\ a.should_wait = b.should_wait + d

(* Keeping the options and the count is transitive. *)
LEMMA KeepsTrans ==
  ASSUME NEW a, NEW b, NEW c, NEW d \in {0, 1}, c \in Nm(Int), Keeps(b, c, 0), Keeps(a, b, d)
  PROVE  Keeps(a, c, d)
<1>1. c.should_wait \in Int
  BY DEF Nm
<1> QED BY <1>1 DEF Keeps, SameOptions

(* A global keeps its own. *)
LEMMA KeepsSelf ==
  ASSUME NEW a \in Nm(Int)
  PROVE  Keeps(a, a, 0)
<1>1. a.should_wait \in Int
  BY DEF Nm
<1> QED BY <1>1 DEF Keeps, SameOptions

(* Setting the result keeps the options and the count, *)
LEMMA KeepsCode ==
  ASSUME NEW nm \in Nm(Int), NEW code \in Codes
  PROVE  Keeps([nm EXCEPT !.return_value = code], nm, 0)
<1>1. nm.should_wait \in Int /\ [nm EXCEPT !.return_value = code] \in Nm(Int)
  BY DEF Nm
<1> QED BY <1>1 DEF Keeps, SameOptions, Nm

(* ... so does starting the pager, *)
LEMMA KeepsPager ==
  ASSUME NEW nm \in Nm(Int)
  PROVE  Keeps(SpawnPager(nm), nm, 0)
<1>1. PICK b \in BOOLEAN : SpawnPager(nm) = [nm EXCEPT !.pager = b]
  <2>1. PICK b \in BOOLEAN : b = (nm.pager \/ (nm.use_colors /\ nm.print_output # "terse"))
    OBVIOUS
  <2> QED BY <2>1 DEF SpawnPager
<1>2. nm.should_wait \in Int /\ [nm EXCEPT !.pager = b] \in Nm(Int)
  BY DEF Nm
<1> QED BY <1>1, <1>2 DEF Keeps, SameOptions, Nm

(* ... and naming another source of the progress, *)
LEMMA KeepsProgress ==
  ASSUME NEW nm \in Nm(Int), NEW i \in Nat
  PROVE  /\ Keeps([nm EXCEPT !.progress_id = i], nm, 0)
         /\ [nm EXCEPT !.progress_id = i].progress_id = i
         /\ [nm EXCEPT !.progress_id = i].return_value = nm.return_value
<1>1. nm.should_wait \in Int /\ [nm EXCEPT !.progress_id = i] \in Nm(Int)
  BY DEF Nm
<1> QED BY <1>1 DEF Keeps, SameOptions, Nm

(* ... and the default of the timeout; *)
LEMMA KeepsTimeout ==
  ASSUME NEW nm \in Nm(Int), NEW seconds \in Int
  PROVE  Keeps(DefaultTimeout(nm, seconds), nm, 0)
<1>1. PICK x \in Int : DefaultTimeout(nm, seconds) = [nm EXCEPT !.timeout = x]
  <2>1. PICK x \in Int : x = IF nm.timeout = -1 THEN seconds ELSE nm.timeout
    BY DEF Nm
  <2> QED BY <2>1 DEF DefaultTimeout
<1>2. nm.should_wait \in Int /\ [nm EXCEPT !.timeout = x] \in Nm(Int)
  BY DEF Nm
<1> QED BY <1>1, <1>2 DEF Keeps, SameOptions, Nm

(* ... waiting for one more counts it, *)
LEMMA KeepsMore ==
  ASSUME NEW nm \in Nm(Int)
  PROVE  Keeps([nm EXCEPT !.should_wait = @ + 1], nm, 1)
<1>1. nm.should_wait \in Int /\ [nm EXCEPT !.should_wait = @ + 1] \in Nm(Int)
  BY DEF Nm
<1> QED BY <1>1 DEF Keeps, SameOptions, Nm

(* ... also with the flag of --wait 0; *)
LEMMA KeepsWaits ==
  ASSUME NEW nm \in Nm(Int)
  PROVE  Keeps(Waits(nm), nm, 1)
<1>1. PICK b \in BOOLEAN : b = (nm.timeout = 0)
  OBVIOUS
<1>2. nm.should_wait \in Int
  BY DEF Nm
<1>3. PICK w \in Int : w = nm.should_wait + 1
  BY <1>2
<1>4. Waits(nm) = [nm EXCEPT !.nowait_flag = b, !.should_wait = w]
  BY <1>1, <1>3 DEF Waits
<1>5. [nm EXCEPT !.nowait_flag = b, !.should_wait = w] \in Nm(Int)
  BY DEF Nm
<1> QED BY <1>3, <1>4, <1>5 DEF Keeps, SameOptions, Nm

(* ... next_arg() keeps both. *)
LEMMA KeepsNext ==
  ASSUME NEW n \in Nat, NEW s \in Parse(n, Int)
  PROVE  Keeps(NextArg(s).nm, s.nm, 0)
<1>1. NextArg(s).nm \in Nm(Int) /\ NextArg(s).nm = Recorded(s) /\ s.nm \in Nm(Int)
  <2>1. NextArg(s) \in Parse(n, Int) /\ NextArg(s).nm = Recorded(s)
    BY NextArgIn
  <2> QED BY <2>1 DEF Parse
<1>2. PICK a, b : Recorded(s) = [s.nm EXCEPT !.ask = a, !.show_secrets = b]
  BY DEF Recorded
<1>3. s.nm.should_wait \in Int
  BY <1>1 DEF Nm
<1> QED BY <1>1, <1>2, <1>3 DEF Keeps, SameOptions, Nm

(* The sources that the handler h of call c may add. *)
Adds(h, c, new) ==
  \/ h = <<"general", "hostname">> /\ new = {Source("save_hostname_cb", c)}
  \/ /\ h = <<"general", "permissions">>
     /\ new = {Source("permission_changed", c), Source("general_timeout_cb", c)}
  \/ h = <<"device", "connect">> /\ new = {Source("connect_device_cb", c)}
  \/ h = <<"device", "connect">> /\ new = {Source("connect_device_cb", c), Progress(c, 0)}
  \/ /\ h = <<"device", "disconnect">>
     /\ \E K \in SUBSET DisconnectKinds : new = {Source(k, c) : k \in K}

(* What a handler may do: nothing that is waited for, or one more reply to *)
(* wait for.                                                               *)
Effect(nm, h, c, o) ==
  \/ Keeps(o.nm, nm, 0) /\ o.new = {} /\ o.quit \in BOOLEAN
  \/ Keeps(o.nm, nm, 1) /\ Adds(h, c, o.new) /\ o.quit = FALSE

(* A handler that only returns a code has an allowed effect, *)
LEMMA EffectReturns ==
  ASSUME NEW nm \in Nm(Int), NEW b, Keeps(b, nm, 0), NEW code \in Codes, NEW h, NEW c
  PROVE  Effect(nm, h, c, Returns(b, code))
<1>1. PICK a : a = [b EXCEPT !.return_value = code]
  OBVIOUS
<1>2. Keeps(a, b, 0)
  BY <1>1, KeepsCode DEF Keeps
<1>3. Keeps(a, nm, 0)
  <2>1. 0 \in {0, 1}
    OBVIOUS
  <2> QED BY <1>2, <2>1, KeepsTrans
<1>4. Returns(b, code) = [nm |-> a, new |-> {}, quit |-> FALSE]
  BY <1>1 DEF Returns, Outcome
<1> QED BY <1>3, <1>4 DEF Effect

(* ... one that adds no source, *)
LEMMA EffectOutcome ==
  ASSUME NEW nm, NEW b, Keeps(b, nm, 0), NEW quit \in BOOLEAN, NEW h, NEW c
  PROVE  Effect(nm, h, c, Outcome(b, {}, quit))
BY DEF Effect, Outcome

(* ... and one that adds sources and waits for one reply. *)
LEMMA EffectAdds ==
  ASSUME NEW nm \in Nm(Int), NEW b, Keeps(b, nm, 0), NEW a, Keeps(a, b, 1),
         NEW h, NEW c, NEW new, Adds(h, c, new)
  PROVE  Effect(nm, h, c, Outcome(a, new, FALSE))
<1>1. Keeps(a, nm, 1)
  BY KeepsTrans
<1> QED BY <1>1 DEF Effect, Outcome

(* What the handler read before does not matter. *)
LEMMA EffectTrans ==
  ASSUME NEW nm \in Nm(Int), NEW b, Keeps(b, nm, 0), NEW h, NEW c, NEW o, Effect(b, h, c, o)
  PROVE  Effect(nm, h, c, o)
<1>1. CASE Keeps(o.nm, b, 0) /\ o.new = {} /\ o.quit \in BOOLEAN
  <2>1. 0 \in {0, 1}
    OBVIOUS
  <2>2. Keeps(o.nm, nm, 0)
    BY <1>1, <2>1, KeepsTrans
  <2> QED BY <1>1, <2>2 DEF Effect
<1>2. CASE Keeps(o.nm, b, 1) /\ Adds(h, c, o.new) /\ o.quit = FALSE
  <2>1. 1 \in {0, 1}
    OBVIOUS
  <2>2. Keeps(o.nm, nm, 1)
    BY <1>2, <2>1, KeepsTrans
  <2> QED BY <1>2, <2>2 DEF Effect
<1> QED BY <1>1, <1>2 DEF Effect

(* The results that nm_cli.return_value can have. *)
LEMMA CodesAre ==
  /\ SUCCESS \in Codes /\ ERROR_UNKNOWN \in Codes /\ ERROR_USER_INPUT \in Codes
  /\ ERROR_NOT_FOUND \in Codes /\ ERROR_TIMEOUT_EXPIRED \in Codes
  /\ ERROR_CON_ACTIVATION \in Codes /\ ERROR_DEV_DISCONNECT \in Codes
  /\ ERROR_NM_NOT_RUNNING \in Codes /\ TERMINATED_SIGINT \in Codes
BY DEF Codes

(* The handlers that only print have an allowed effect. *)
LEMMA StatusEffect ==
  ASSUME NEW n \in Nat, NEW s \in Parse(n, Int), NEW h, NEW c,
         NEW o \in DoGeneralStatus(s) \union DoDevicesStatus(s) \union DoGeneralReload(s)
                     \union DoOverview(s)
  PROVE  Effect(s.nm, h, c, o)
<1>1. s.nm \in Nm(Int) /\ Keeps(s.nm, s.nm, 0) /\ s.nm.return_value \in Codes
  <2>1. s.nm \in Nm(Int)
    BY DEF Parse
  <2> QED BY <2>1, KeepsSelf DEF Nm
<1>2. CASE \E code \in Codes : o = Returns(s.nm, code)
  BY <1>1, <1>2, EffectReturns
<1>3. CASE o = Returns(SpawnPager(s.nm), SUCCESS)
  <2>1. PICK b, code : b = SpawnPager(s.nm) /\ code = SUCCESS
    OBVIOUS
  <2> code \in Codes
    BY <2>1, CodesAre
  <2>2. Keeps(b, s.nm, 0)
    BY <1>1, <2>1, KeepsPager
  <2> QED BY <1>1, <1>3, <2>1, <2>2, EffectReturns
<1> QED BY <1>1, <1>2, <1>3, CodesAre DEF DoGeneralStatus, DoDevicesStatus, DoGeneralReload, DoOverview

(* do_general_hostname() has an allowed effect. *)
LEMMA HostnameEffect ==
  ASSUME NEW n \in Nat, NEW s \in Parse(n, Int), NEW c, NEW o \in DoGeneralHostname(s, c)
  PROVE  Effect(s.nm, <<"general", "hostname">>, c, o)
<1>1. s.nm \in Nm(Int) /\ Keeps(s.nm, s.nm, 0)
  <2>1. s.nm \in Nm(Int)
    BY DEF Parse
  <2> QED BY <2>1, KeepsSelf
<1>2. CASE o = Outcome(s.nm, {}, FALSE)
  BY <1>1, <1>2, EffectOutcome
<1>3. CASE o = Outcome([NextArg(s).nm EXCEPT !.should_wait = @ + 1],
                       {Source("save_hostname_cb", c)}, FALSE)
  <2>1. PICK b, a, new : /\ b = NextArg(s).nm /\ a = [b EXCEPT !.should_wait = @ + 1]
                         /\ new = {Source("save_hostname_cb", c)}
    OBVIOUS
  <2>2. Keeps(b, s.nm, 0)
    BY <2>1, KeepsNext
  <2>3. Keeps(a, b, 1)
    BY <2>1, <2>2, KeepsMore DEF Keeps
  <2>4. Adds(<<"general", "hostname">>, c, new)
    BY <2>1 DEF Adds
  <2>5. o = Outcome(a, new, FALSE)
    BY <1>3, <2>1
  <2> QED BY <1>1, <2>2, <2>3, <2>4, <2>5, EffectAdds
<1> QED BY <1>2, <1>3 DEF DoGeneralHostname

(* print_permissions() sets at most the result, to an error, and quits. *)
LEMMA PermissionsPrinted ==
  ASSUME NEW nm \in Nm(Int)
  PROVE  /\ Keeps(PrintPermissions(nm).nm, nm, 0)
         /\ PrintPermissions(nm).new = {} /\ PrintPermissions(nm).quit = TRUE
         /\ PrintPermissions(nm).nm.return_value \in {nm.return_value, ERROR_USER_INPUT}
         /\ PrintPermissions(nm).nm.progress_id = nm.progress_id
<1>1. PICK b : b = SpawnPager(nm)
  OBVIOUS
<1>2. Keeps(b, nm, 0) /\ b.return_value = nm.return_value /\ b.progress_id = nm.progress_id
  <2>1. Keeps(b, nm, 0)
    BY <1>1, KeepsPager
  <2> QED BY <1>1, <2>1 DEF SpawnPager, Nm
<1>3. PICK code \in Codes : code = IF BadFields(nm) THEN ERROR_USER_INPUT ELSE b.return_value
  BY <1>2, CodesAre DEF Nm
<1>4. PICK a : a = [b EXCEPT !.return_value = code]
  OBVIOUS
<1>5. Keeps(a, nm, 0)
  <2>1. Keeps(a, b, 0)
    BY <1>2, <1>4, KeepsCode DEF Keeps
  <2>2. 0 \in {0, 1}
    OBVIOUS
  <2> QED BY <1>2, <2>1, <2>2, KeepsTrans
<1>6. PrintPermissions(nm) = [nm |-> a, new |-> {}, quit |-> TRUE]
  BY <1>1, <1>3, <1>4 DEF PrintPermissions, Outcome
<1>7. a.return_value \in {nm.return_value, ERROR_USER_INPUT} /\ a.progress_id = nm.progress_id
  BY <1>2, <1>3, <1>4 DEF Keeps, Nm
<1> QED BY <1>5, <1>6, <1>7

(* do_general_permissions() has an allowed effect. *)
LEMMA PermissionsEffect ==
  ASSUME NEW n \in Nat, NEW s \in Parse(n, Int), NEW c, NEW o \in DoGeneralPermissions(s, c)
  PROVE  Effect(s.nm, <<"general", "permissions">>, c, o)
<1>1. s.nm \in Nm(Int)
  BY DEF Parse
<1>2. CASE o = PrintPermissions(s.nm)
  BY <1>1, <1>2, PermissionsPrinted DEF Effect
<1>3. CASE o = Outcome([DefaultTimeout(s.nm, 10) EXCEPT !.should_wait = @ + 1],
                       {Source("permission_changed", c), Source("general_timeout_cb", c)}, FALSE)
  <2>1. PICK b, a, new : /\ b = DefaultTimeout(s.nm, 10) /\ a = [b EXCEPT !.should_wait = @ + 1]
                         /\ new = {Source("permission_changed", c), Source("general_timeout_cb", c)}
    OBVIOUS
  <2>2. Keeps(b, s.nm, 0)
    BY <1>1, <2>1, KeepsTimeout
  <2>3. Keeps(a, b, 1)
    BY <2>1, <2>2, KeepsMore DEF Keeps
  <2>4. Adds(<<"general", "permissions">>, c, new)
    BY <2>1 DEF Adds
  <2>5. o = Outcome(a, new, FALSE)
    BY <1>3, <2>1
  <2> QED BY <1>1, <2>2, <2>3, <2>4, <2>5, EffectAdds
<1> QED BY <1>2, <1>3 DEF DoGeneralPermissions

(* do_devices_disconnect() has an allowed effect. *)
LEMMA DisconnectEffect ==
  ASSUME NEW n \in Nat, NEW s \in Parse(n, Int), NEW c, NEW o \in DoDevicesDisconnect(s, c)
  PROVE  Effect(s.nm, <<"device", "disconnect">>, c, o)
<1>1. s.nm \in Nm(Int)
  BY DEF Parse
<1>2. PICK b : b = DefaultTimeout(s.nm, 10)
  OBVIOUS
<1>3. Keeps(b, s.nm, 0)
  BY <1>1, <1>2, KeepsTimeout
<1>4. CASE \E code \in Codes : o = Returns(b, code)
  BY <1>1, <1>3, <1>4, EffectReturns
<1>5. CASE \E K \in SUBSET DisconnectKinds : o = Outcome(Waits(b), {Source(k, c) : k \in K}, FALSE)
  <2>1. PICK K \in SUBSET DisconnectKinds : o = Outcome(Waits(b), {Source(k, c) : k \in K}, FALSE)
    BY <1>5
  <2>2. PICK new : new = {Source(k, c) : k \in K}
    OBVIOUS
  <2>3. Keeps(Waits(b), b, 1)
    BY <1>3, KeepsWaits DEF Keeps
  <2>4. Adds(<<"device", "disconnect">>, c, new)
    BY <2>2 DEF Adds
  <2> QED BY <1>1, <1>3, <2>1, <2>2, <2>3, <2>4, EffectAdds
<1> QED BY <1>2, <1>4, <1>5, CodesAre DEF DoDevicesDisconnect

(* do_device_connect() has an allowed effect. *)
LEMMA ConnectEffect ==
  ASSUME NEW n \in Nat, NEW s \in Parse(n, Int), NEW c \in Nat, NEW o \in DoDeviceConnect(s, c)
  PROVE  Effect(s.nm, <<"device", "connect">>, c, o)
<1>1. s.nm \in Nm(Int)
  BY DEF Parse
<1>2. PICK b : b = DefaultTimeout(s.nm, 90)
  OBVIOUS
<1>3. Keeps(b, s.nm, 0)
  BY <1>1, <1>2, KeepsTimeout
<1>4. CASE \E code \in Codes : o = Returns(b, code)
  BY <1>1, <1>3, <1>4, EffectReturns
<1>5. PICK u, t : u = [s EXCEPT !.nm = b] /\ t = NextArg(u)
  OBVIOUS
<1>6. u \in Parse(n, Int) /\ u.nm = b
  BY <1>3, <1>5 DEF Parse, Keeps
<1>7. Keeps(t.nm, b, 0)
  BY <1>5, <1>6, KeepsNext
<1>8. Keeps(t.nm, s.nm, 0)
  <2>1. 0 \in {0, 1}
    OBVIOUS
  <2> QED BY <1>1, <1>3, <1>7, <2>1, KeepsTrans
<1>9. CASE \E code \in Codes : o = Returns(t.nm, code)
  BY <1>1, <1>8, <1>9, EffectReturns
<1>10. CASE o = Outcome(Waits(t.nm), {Source("connect_device_cb", c)}, FALSE)
  <2>1. PICK new : new = {Source("connect_device_cb", c)}
    OBVIOUS
  <2>2. Keeps(Waits(t.nm), t.nm, 1)
    BY <1>8, KeepsWaits DEF Keeps
  <2>3. Adds(<<"device", "connect">>, c, new)
    BY <2>1 DEF Adds
  <2> QED BY <1>1, <1>8, <1>10, <2>1, <2>2, <2>3, EffectAdds
<1>11. CASE o = Outcome([Waits(t.nm) EXCEPT !.progress_id = ProgressId(c, 0)],
                        {Source("connect_device_cb", c), Progress(c, 0)}, FALSE)
  <2>1. PICK new, w, i :
           /\ new = {Source("connect_device_cb", c), Progress(c, 0)}
           /\ w = Waits(t.nm) /\ i = ProgressId(c, 0)
    OBVIOUS
  <2> i \in Nat
    BY <2>1 DEF ProgressId
  <2>2. PICK a : a = [w EXCEPT !.progress_id = i]
    OBVIOUS
  <2>3. Keeps(w, t.nm, 1) /\ w \in Nm(Int) /\ t.nm \in Nm(Int)
    BY <1>8, <2>1, KeepsWaits DEF Keeps
  <2>4. Keeps(a, w, 0)
    BY <2>2, <2>3, KeepsProgress
  <2>5. Keeps(a, t.nm, 1)
    BY <2>3, <2>4 DEF Keeps, SameOptions, Nm
  <2>6. Adds(<<"device", "connect">>, c, new)
    BY <2>1 DEF Adds
  <2>7. o = Outcome(a, new, FALSE)
    BY <1>11, <2>1, <2>2
  <2> QED BY <1>1, <1>8, <2>5, <2>6, <2>7, EffectAdds
<1> QED BY <1>2, <1>4, <1>5, <1>9, <1>10, <1>11, CodesAre DEF DoDeviceConnect, Connects

(* Every handler either adds nothing to the context and to should_wait, or *)
(* adds the sources of its command and exactly one to should_wait.         *)
LEMMA HandlerEffect ==
  ASSUME NEW h \in Handlers, NEW nm \in Nm(Int), NEW v \in Seq(Words),
         NEW p \in 1 .. Len(v) + 1, NEW c \in Nat, NEW o \in RunHandler(h, nm, v, p, c)
  PROVE  Effect(nm, h, c, o)
<1>1. PICK n \in Nat : n = Len(v)
  OBVIOUS
<1>2. ParseAt(nm, v, p) \in Parse(n, Int) /\ ParseAt(nm, v, p).nm = nm
  <2>1. v \in [1 .. n -> Words]
    BY <1>1
  <2> QED BY <1>1, <2>1 DEF ParseAt, Parse
<1>3. PICK s : s = NextArg(ParseAt(nm, v, p))
  OBVIOUS
<1>4. s \in Parse(n, Int) /\ Keeps(s.nm, nm, 0)
  BY <1>2, <1>3, NextArgIn, KeepsNext
<1>5. CASE nm.complete
  <2>1. o = Outcome(s.nm, {}, FALSE)
    BY <1>3, <1>5 DEF RunHandler
  <2> QED BY <1>4, <2>1, EffectOutcome
<1>6. CASE ~ nm.complete
  <2>1. Effect(s.nm, h, c, o)
    <3>1. CASE h \in {<<"nmcli", "overview">>, <<"general", "status">>, <<"general", "reload">>,
                      <<"device", "status">>}
      <4>1. o \in DoGeneralStatus(s) \union DoDevicesStatus(s) \union DoGeneralReload(s)
                     \union DoOverview(s)
        BY <1>3, <1>6, <3>1 DEF RunHandler
      <4> QED BY <1>4, <4>1, StatusEffect
    <3>2. CASE h = <<"general", "hostname">>
      <4>1. o \in DoGeneralHostname(s, c)
        BY <1>3, <1>6, <3>2 DEF RunHandler
      <4> QED BY <1>4, <3>2, <4>1, HostnameEffect
    <3>3. CASE h = <<"general", "permissions">>
      <4>1. o \in DoGeneralPermissions(s, c)
        BY <1>3, <1>6, <3>3 DEF RunHandler
      <4> QED BY <1>4, <3>3, <4>1, PermissionsEffect
    <3>4. CASE h = <<"device", "connect">>
      <4>1. o \in DoDeviceConnect(s, c)
        BY <1>3, <1>6, <3>4 DEF RunHandler
      <4> QED BY <1>4, <3>4, <4>1, ConnectEffect
    <3>5. CASE h = <<"device", "disconnect">>
      <4>1. o \in DoDevicesDisconnect(s, c)
        BY <1>3, <1>6, <3>5 DEF RunHandler
      <4> QED BY <1>4, <3>5, <4>1, DisconnectEffect
    <3> QED BY <3>1, <3>2, <3>3, <3>4, <3>5, HandlersAre
  <2> QED BY <1>4, <2>1, EffectTrans
<1> QED BY <1>5, <1>6

-----------------------------------------------------------------------------
(* A source has the type of a source, *)
LEMMA SourceIn ==
  ASSUME NEW k \in Kinds, NEW c \in Nat
  PROVE  /\ Source(k, c) \in SourceType
         /\ Source(k, c).kind = k /\ Source(k, c).call = c
<1>1. <<>> \in Seq(Words) /\ <<>> \in Handlers \union {<<>>} /\ 0 \in Nat /\ SUCCESS \in Codes
  BY CodesAre
<1> QED BY <1>1 DEF Source, SourceType

(* ... so has one that shows the progress, *)
LEMMA ProgressIn ==
  ASSUME NEW c \in Nat, NEW n \in {0, 1}
  PROVE  /\ Progress(c, n) \in SourceType /\ WellFormed(Progress(c, n))
         /\ Progress(c, n).kind = "progress_cb" /\ Progress(c, n).call = c
         /\ Progress(c, n).p = 2 * c + n
<1>1. PICK b \in SourceType : b = Source("progress_cb", c)
  BY SourceIn DEF Kinds
<1>2. b.kind = "progress_cb" /\ b.call = c
  BY <1>1 DEF Source
<1>3. PICK i \in Nat : i = 2 * c + n
  OBVIOUS
<1>4. PICK r : r = [b EXCEPT !.p = i]
  OBVIOUS
<1>5. r \in SourceType /\ r.kind = b.kind /\ r.call = b.call /\ r.p = i
  BY <1>4 DEF SourceType
<1>6. Progress(c, n) = r
  BY <1>1, <1>3, <1>4 DEF Progress, ProgressId
<1> QED BY <1>2, <1>3, <1>5, <1>6 DEF WellFormed

(* ... so has a task, *)
LEMMA TaskIn ==
  ASSUME NEW l \in {"outer", "inner"}, NEW c \in Nat, NEW x \in Codes
  PROVE  /\ Task(l, c, x) \in SourceType
         /\ Task(l, c, x).kind = "command_done" /\ Task(l, c, x).call = c
<1>1. Task(l, c, x) = [kind |-> "command_done", call |-> c, level |-> l, code |-> x,
                       handler |-> <<>>, argv |-> <<>>, p |-> 0]
  <2>1. PICK b \in SourceType : b = Source("command_done", c)
    BY SourceIn DEF Kinds
  <2>2. PICK r : r = [b EXCEPT !.level = l, !.code = x]
    OBVIOUS
  <2>3. r = [kind |-> b.kind, call |-> b.call, level |-> l, code |-> x,
             handler |-> b.handler, argv |-> b.argv, p |-> b.p]
    BY <2>2 DEF SourceType
  <2>4. /\ b.kind = "command_done" /\ b.call = c
        /\ b.handler = <<>> /\ b.argv = <<>> /\ b.p = 0
    BY <2>1 DEF Source
  <2> QED BY <2>1, <2>2, <2>3, <2>4 DEF Task
<1>2. <<>> \in Seq(Words) /\ <<>> \in Handlers \union {<<>>} /\ 0 \in Nat
  OBVIOUS
<1> QED BY <1>1, <1>2 DEF SourceType, Kinds

(* ... and the call that waits for the client, which can run its handler. *)
LEMMA CmdCallIn ==
  ASSUME NEW n \in Nat, NEW W, NEW s \in Parse(n, W), NEW c \in Nat, NEW h \in Handlers
  PROVE  /\ CmdCall(h, c, s) \in SourceType
         /\ CmdCall(h, c, s).kind = "got_client" /\ CmdCall(h, c, s).call = c
         /\ CmdCall(h, c, s).handler = h
         /\ CmdCall(h, c, s).p \in 1 .. Len(CmdCall(h, c, s).argv) + 1
<1>1. CmdCall(h, c, s) = [kind |-> "got_client", call |-> c, level |-> "none", code |-> SUCCESS,
                          handler |-> h, argv |-> s.argv, p |-> s.p]
  <2>1. PICK b \in SourceType : b = Source("got_client", c)
    BY SourceIn DEF Kinds
  <2>a. PICK a, q : a = s.argv /\ q = s.p
    OBVIOUS
  <2>2. PICK r : r = [b EXCEPT !.handler = h, !.argv = a, !.p = q] /\ a = s.argv /\ q = s.p
    BY <2>a
  <2>3. r = [kind |-> b.kind, call |-> b.call, level |-> b.level, code |-> b.code,
             handler |-> h, argv |-> a, p |-> q]
    BY <2>2 DEF SourceType
  <2>4. b.kind = "got_client" /\ b.call = c /\ b.level = "none" /\ b.code = SUCCESS
    BY <2>1 DEF Source
  <2> QED BY <2>1, <2>2, <2>3, <2>4 DEF CmdCall
<1>2. s.argv \in [1 .. n -> Words] /\ s.p \in 1 .. n + 1
  BY DEF Parse
<1>3. s.argv \in Seq(Words) /\ Len(s.argv) = n /\ s.p \in Nat
  BY <1>2
<1> QED BY <1>1, <1>2, <1>3, CodesAre DEF SourceType, Kinds

(* What a callback may do to the progress: nothing, if it is not one of    *)
(* `device connect' that quits; remove the source that progress_id names,  *)
(* or forget it; or show the progress a second time.                       *)
ShowsAfter(src, nm, gone, new, quit) ==
  \/ /\ nm.progress_id = nm_cli.progress_id
     /\ quit => src.kind \notin ConnectKinds \ {"command_done"}
     /\ \A x \in new : x.kind # "progress_cb"
  \/ /\ nm.progress_id = 0
     /\ ProgressOf(nm_cli) \subseteq gone \/ src.kind = "add_and_activate_cb"
     /\ \A x \in new : x.kind # "progress_cb"
  \/ /\ src.kind = "add_and_activate_cb" /\ ~ quit
     /\ nm.progress_id = 2 * src.call + 1

(* A callback other than got_client() and progress_cb(): it leaves         *)
(* should_wait and the options alone and never turns an error into         *)
(* success.                                                                *)
Callback(src, nm, gone, new, quit) ==
  /\ Dispatched(src, nm, gone, new, quit)
  /\ UNCHANGED ran
  /\ src.kind # "got_client" /\ src.kind # "progress_cb"
  /\ Keeps(nm, nm_cli, 0)
  /\ nm.return_value = SUCCESS => nm_cli.return_value = SUCCESS
  /\ quit \in BOOLEAN
  /\ \A x \in gone : x.kind \in DisconnectKinds \union {"print_permissions", "progress_cb"}
  /\ \/ new = {}
     \/ src.kind = "permission_changed" /\ new = {Source("print_permissions", src.call)}
     \/ src.kind = "connect_device_cb" /\ ~ quit /\ new = {Source("add_and_activate_cb", src.call)}
     \/ /\ src.kind \in {"connect_device_cb", "add_and_activate_cb"}
        /\ new \subseteq {Source("connected_state_cb", src.call), Source("timeout_cb", src.call)}
     \/ /\ src.kind = "add_and_activate_cb"
        /\ new \subseteq {Source("connected_state_cb", src.call), Source("timeout_cb", src.call),
                          Progress(src.call, 1)}
  /\ quit => /\ src.kind = "command_done" => nm_cli.should_wait = 0
             /\ src.kind \in DisconnectKinds => DeviceCbInfo(src.call) \subseteq gone
  /\ ShowsAfter(src, nm, gone, new, quit)

(* The result that is set is the result. *)
LEMMA CodeSet ==
  ASSUME NEW nm \in Nm(Int), NEW code \in Codes
  PROVE  [nm EXCEPT !.return_value = code].return_value = code
BY DEF Nm

(* No error is NMC_RESULT_SUCCESS. *)
LEMMA CodesNotSuccess ==
  /\ ERROR_UNKNOWN # SUCCESS /\ ERROR_USER_INPUT # SUCCESS
  /\ ERROR_TIMEOUT_EXPIRED # SUCCESS /\ ERROR_CON_ACTIVATION # SUCCESS
  /\ ERROR_DEV_DISCONNECT # SUCCESS /\ ERROR_NM_NOT_RUNNING # SUCCESS
  /\ TERMINATED_SIGINT # SUCCESS /\ ERROR_BUFFER_TOO_SMALL # SUCCESS
BY DEF SUCCESS, ERROR_UNKNOWN, ERROR_USER_INPUT, ERROR_TIMEOUT_EXPIRED, ERROR_CON_ACTIVATION,
       ERROR_DEV_DISCONNECT, ERROR_NM_NOT_RUNNING, TERMINATED_SIGINT, ERROR_BUFFER_TOO_SMALL

(* src is dispatched as a callback. *)
IsCallback(src) == \E nm, gone, new, quit : Callback(src, nm, gone, new, quit)

(* What a callback may remove ... *)
MayRemove(src, gone) ==
  /\ \A x \in gone : x.kind \in DisconnectKinds
  /\ src.kind \in DisconnectKinds => DeviceCbInfo(src.call) \subseteq gone

(* The sources that callbacks add are of their kind and call, and not of   *)
(* the progress.                                                           *)
LEMMA NewKinds ==
  ASSUME NEW c \in Nat,
         NEW k \in {"print_permissions", "add_and_activate_cb", "connected_state_cb", "timeout_cb"}
  PROVE  Source(k, c).kind = k /\ Source(k, c).call = c /\ Source(k, c).kind # "progress_cb"
<1>1. k \in Kinds
  BY DEF Kinds, Subscriptions, DisconnectKinds
<1> QED BY <1>1, SourceIn

(* A callback outside of devices.c that sets the result and quits. *)
LEMMA CodeCallback ==
  ASSUME nm_cli \in Nm(Int), NEW src, src.kind \notin ConnectKinds \union {"got_client"},
         NEW code \in Codes, code = SUCCESS => nm_cli.return_value = SUCCESS,
         UNCHANGED ran, MayRemove(src, {}),
         Dispatched(src, [nm_cli EXCEPT !.return_value = code], {}, {}, TRUE)
  PROVE  IsCallback(src)
<1>1. PICK nm : nm = [nm_cli EXCEPT !.return_value = code]
  OBVIOUS
<1>2. Keeps(nm, nm_cli, 0) /\ nm.return_value = code /\ nm.progress_id = nm_cli.progress_id
  <2>1. nm.progress_id = nm_cli.progress_id
    BY <1>1 DEF Nm
  <2> QED BY <1>1, <2>1, KeepsCode, CodeSet
<1>3. src.kind # "got_client" /\ src.kind # "command_done" /\ src.kind # "progress_cb" /\ src.kind \notin ConnectKinds
  BY DEF ConnectKinds
<1>4. Dispatched(src, nm, {}, {}, TRUE)
  BY <1>1
<1>5. ShowsAfter(src, nm, {}, {}, TRUE)
  BY <1>2, <1>3 DEF ShowsAfter
<1>6. Callback(src, nm, {}, {}, TRUE)
  BY <1>2, <1>3, <1>4, <1>5 DEF Callback, MayRemove
<1> QED BY <1>6 DEF IsCallback

(* A callback that leaves nm_cli alone and does not quit. *)
LEMMA PlainCallback ==
  ASSUME nm_cli \in Nm(Int), NEW src, src.kind \notin {"got_client", "command_done", "progress_cb"}, src.call \in Nat,
         UNCHANGED ran, NEW gone, NEW new,
         Dispatched(src, nm_cli, gone, new, FALSE),
         \A x \in gone : x.kind = "print_permissions",
         \/ new = {}
         \/ src.kind = "permission_changed" /\ new = {Source("print_permissions", src.call)}
         \/ src.kind = "connect_device_cb" /\ new = {Source("add_and_activate_cb", src.call)}
         \/ /\ src.kind \in {"connect_device_cb", "add_and_activate_cb"}
            /\ new \subseteq {Source("connected_state_cb", src.call), Source("timeout_cb", src.call)}
  PROVE  IsCallback(src)
<1>1. Keeps(nm_cli, nm_cli, 0)
  BY KeepsSelf
<1>2. src.kind # "got_client" /\ src.kind # "command_done" /\ src.kind # "progress_cb"
  OBVIOUS
<1>3. \A x \in new : x.kind # "progress_cb"
  <2>1. ASSUME NEW x \in new
        PROVE  \E k \in {"print_permissions", "add_and_activate_cb", "connected_state_cb", "timeout_cb"} :
                  x = Source(k, src.call)
    OBVIOUS
  <2> QED BY <2>1, NewKinds
<1>4. ShowsAfter(src, nm_cli, gone, new, FALSE)
  BY <1>3 DEF ShowsAfter
<1>5. Callback(src, nm_cli, gone, new, FALSE)
  BY <1>1, <1>2, <1>4 DEF Callback
<1> QED BY <1>5 DEF IsCallback

(* A callback that calls the quit() of devices.c, with b as the global     *)
(* before.                                                                 *)
LEMMA QuitCallback ==
  ASSUME nm_cli \in Nm(Int), NEW src, src.kind \notin {"got_client", "command_done", "progress_cb"}, src.call \in Nat,
         UNCHANGED ran, NEW b, Keeps(b, nm_cli, 0),
         b.return_value = SUCCESS => nm_cli.return_value = SUCCESS,
         b.progress_id = nm_cli.progress_id \/ src.kind = "add_and_activate_cb",
         NEW gone, MayRemove(src, gone), NEW new,
         \/ new = {}
         \/ /\ src.kind \in {"connect_device_cb", "add_and_activate_cb"}
            /\ new = {Source("timeout_cb", src.call)},
         DispatchedAndQuit(src, b, gone, new)
  PROVE  IsCallback(src)
<1>1. PICK nm, all : nm = [b EXCEPT !.progress_id = 0] /\ all = gone \union ProgressOf(b)
  OBVIOUS
<1>2. b \in Nm(Int) /\ Keeps(nm, b, 0) /\ nm.progress_id = 0 /\ nm.return_value = b.return_value
  BY <1>1, KeepsProgress DEF Keeps
<1>3. Keeps(nm, nm_cli, 0)
  <2>1. 0 \in {0, 1}
    OBVIOUS
  <2> QED BY <1>2, <2>1, KeepsTrans
<1>4. Dispatched(src, nm, all, new, TRUE)
  BY <1>1 DEF DispatchedAndQuit
<1>5. /\ \A x \in all : x.kind \in DisconnectKinds \union {"print_permissions", "progress_cb"}
      /\ src.kind \in DisconnectKinds => DeviceCbInfo(src.call) \subseteq all
      /\ ProgressOf(nm_cli) \subseteq all \/ src.kind = "add_and_activate_cb"
  BY <1>1 DEF MayRemove, ProgressOf
<1>6. \A x \in new : x.kind # "progress_cb"
  BY NewKinds
<1>7. ShowsAfter(src, nm, all, new, TRUE)
  BY <1>2, <1>5, <1>6 DEF ShowsAfter
<1>8. src.kind # "got_client" /\ src.kind # "command_done" /\ src.kind # "progress_cb"
  OBVIOUS
<1>9. Callback(src, nm, all, new, TRUE)
  BY <1>2, <1>3, <1>4, <1>5, <1>7, <1>8 DEF Callback
<1> QED BY <1>9 DEF IsCallback

(* ... after it has set the result. *)
LEMMA QuitWithCode ==
  ASSUME nm_cli \in Nm(Int), NEW src, src.kind \notin {"got_client", "command_done", "progress_cb"}, src.call \in Nat,
         UNCHANGED ran, NEW code \in Codes, code # SUCCESS, NEW gone, MayRemove(src, gone),
         DispatchedAndQuit(src, [nm_cli EXCEPT !.return_value = code], gone, {})
  PROVE  IsCallback(src)
<1>1. PICK b : b = [nm_cli EXCEPT !.return_value = code]
  OBVIOUS
<1>2. Keeps(b, nm_cli, 0) /\ b.return_value = code /\ b.progress_id = nm_cli.progress_id
  <2>1. b.progress_id = nm_cli.progress_id
    BY <1>1 DEF Nm
  <2> QED BY <1>1, <2>1, KeepsCode, CodeSet
<1>3. DispatchedAndQuit(src, b, gone, {})
  BY <1>1
<1> QED BY <1>2, <1>3, QuitCallback

(* ... or left the global alone. *)
LEMMA QuitAsItIs ==
  ASSUME nm_cli \in Nm(Int), NEW src, src.kind \notin {"got_client", "command_done", "progress_cb"}, src.call \in Nat,
         UNCHANGED ran, NEW gone, MayRemove(src, gone), DispatchedAndQuit(src, nm_cli, gone, {})
  PROVE  IsCallback(src)
BY KeepsSelf, QuitCallback

(* command_done() is such a callback: it quits only when nothing is waited *)
(* for.                                                                    *)
LEMMA CommandDoneCallback ==
  ASSUME TypeInv, NEW src \in sources, CommandDone(src)
  PROVE  IsCallback(src)
<1>1. PICK nm : nm = IF src.code = SUCCESS THEN nm_cli ELSE [nm_cli EXCEPT !.return_value = src.code]
  OBVIOUS
<1>2. nm_cli \in Nm(Int) /\ src.code \in Codes
  BY DEF TypeInv, WellFormed, SourceType
<1>3. Keeps(nm, nm_cli, 0) /\ (nm.return_value = SUCCESS => nm_cli.return_value = SUCCESS)
  <2>1. CASE src.code = SUCCESS
    BY <1>1, <1>2, <2>1, KeepsSelf
  <2>2. CASE src.code # SUCCESS
    <3>1. nm = [nm_cli EXCEPT !.return_value = src.code]
      BY <1>1, <2>2
    <3> QED BY <1>2, <2>2, <3>1, KeepsCode, CodeSet
  <2> QED BY <2>1, <2>2
<1>4. src.kind = "command_done" /\ Dispatched(src, nm, {}, {}, TaskQuits(nm)) /\ UNCHANGED ran
  BY <1>1 DEF CommandDone
<1>5. PICK q : q = TaskQuits(nm)
  OBVIOUS
<1>6. nm.should_wait = nm_cli.should_wait
  BY <1>2, <1>3 DEF Keeps, Nm
<1>7. q \in BOOLEAN /\ (q => nm_cli.should_wait = 0)
  BY <1>5, <1>6 DEF TaskQuits
<1>8. Dispatched(src, nm, {}, {}, q)
  BY <1>4, <1>5
<1>9. nm.progress_id = nm_cli.progress_id
  BY <1>1, <1>2 DEF Nm
<1>10. ShowsAfter(src, nm, {}, {}, q)
  BY <1>4, <1>9 DEF ShowsAfter
<1>11. Callback(src, nm, {}, {}, q)
  BY <1>3, <1>4, <1>7, <1>8, <1>10 DEF Callback, DisconnectKinds
<1> QED BY <1>11 DEF IsCallback

(* So is the common part of connect_device_cb() and add_and_activate_cb(), *)
LEMMA ActivationCallback ==
  ASSUME nm_cli \in Nm(Int), NEW src, src.kind \in {"connect_device_cb", "add_and_activate_cb"},
         src.call \in Nat, UNCHANGED ran,
         ActivationError(src) \/ ActivationRequested(src) \/ ActivationStarted(src, nm_cli, {})
  PROVE  IsCallback(src)
<1>1. /\ src.kind \notin {"got_client", "command_done", "progress_cb"} /\ src.kind \notin DisconnectKinds
      /\ MayRemove(src, {})
  BY DEF DisconnectKinds, MayRemove
<1>2. CASE ActivationError(src)
  BY <1>1, <1>2, QuitWithCode, CodesAre, CodesNotSuccess DEF ActivationError
<1>3. CASE ActivationRequested(src)
  BY <1>1, <1>3, QuitAsItIs DEF ActivationRequested
<1>4. CASE Dispatched(src, nm_cli, {},
             {Source("connected_state_cb", src.call), Source("timeout_cb", src.call)} \union {}, FALSE)
  <2>1. PICK e, new : /\ e = {}
                       /\ new = {Source("connected_state_cb", src.call), Source("timeout_cb", src.call)}
                                 \union {}
    OBVIOUS
  <2>2. Dispatched(src, nm_cli, e, new, FALSE) /\ (\A x \in e : x.kind = "print_permissions")
    BY <1>4, <2>1
  <2>3. new \subseteq {Source("connected_state_cb", src.call), Source("timeout_cb", src.call)}
    BY <2>1
  <2> QED BY <1>1, <2>2, <2>3, PlainCallback
<1>5. CASE DispatchedAndQuit(src, nm_cli, {}, {Source("timeout_cb", src.call)})
  BY <1>1, <1>5, KeepsSelf, QuitCallback
<1> QED BY <1>2, <1>3, <1>4, <1>5 DEF ActivationStarted

(* ... also when add_and_activate_cb() shows the progress anew,            *)
LEMMA ShowAnewCallback ==
  ASSUME nm_cli \in Nm(Int), NEW src, src.kind = "add_and_activate_cb",
         src.call \in Nat, UNCHANGED ran,
         ActivationStarted(src, [nm_cli EXCEPT !.progress_id = ProgressId(src.call, 1)],
                           {Progress(src.call, 1)})
  PROVE  IsCallback(src)
<1>1. PICK i \in Nat : i = ProgressId(src.call, 1) /\ i = 2 * src.call + 1
  BY DEF ProgressId
<1>2. PICK b : b = [nm_cli EXCEPT !.progress_id = i]
  OBVIOUS
<1>3. Keeps(b, nm_cli, 0) /\ b.progress_id = i /\ b.return_value = nm_cli.return_value
  BY <1>2, KeepsProgress
<1>4. /\ src.kind \notin {"got_client", "command_done", "progress_cb"} /\ src.kind \notin DisconnectKinds
      /\ MayRemove(src, {})
  BY DEF DisconnectKinds, MayRemove
<1>5. PICK new : new = {Source("connected_state_cb", src.call), Source("timeout_cb", src.call)}
                          \union {Progress(src.call, 1)}
  OBVIOUS
<1>6. CASE Dispatched(src, b, {}, new, FALSE)
  <2>1. ShowsAfter(src, b, {}, new, FALSE)
    BY <1>1, <1>3 DEF ShowsAfter
  <2>2. new \subseteq {Source("connected_state_cb", src.call), Source("timeout_cb", src.call),
                      Progress(src.call, 1)}
    BY <1>5
  <2>3. Callback(src, b, {}, new, FALSE)
    BY <1>3, <1>6, <2>1, <2>2 DEF Callback
  <2> QED BY <2>3 DEF IsCallback
<1>7. CASE DispatchedAndQuit(src, b, {}, {Source("timeout_cb", src.call)})
  BY <1>3, <1>4, <1>7, QuitCallback
<1> QED BY <1>1, <1>2, <1>5, <1>6, <1>7 DEF ActivationStarted

(* ... the callbacks of a disconnecting device, which remove each other    *)
(* when they quit,                                                         *)
LEMMA DisconnectCallback ==
  ASSUME nm_cli \in Nm(Int), NEW src, src.call \in Nat, UNCHANGED ran,
         DisconnectDeviceCb(src) \/ DisconnectStateCb(src) \/ DeviceOpTimeoutCb(src)
  PROVE  IsCallback(src)
<1>1. PICK gone : gone = DeviceCbInfo(src.call)
  OBVIOUS
<1>2. src.kind \in DisconnectKinds
  BY DEF DisconnectDeviceCb, DisconnectStateCb, DeviceOpTimeoutCb, DisconnectKinds
<1>3. src.kind \notin {"got_client", "command_done", "progress_cb"}
  BY <1>2 DEF DisconnectKinds
<1>4. MayRemove(src, gone)
  BY <1>1 DEF MayRemove, DeviceCbInfo
<1>5. CASE DispatchedAndQuit(src, [nm_cli EXCEPT !.return_value = ERROR_DEV_DISCONNECT], gone, {})
  BY <1>3, <1>4, <1>5, QuitWithCode, CodesAre, CodesNotSuccess
<1>6. CASE DispatchedAndQuit(src, TimeoutExpired, gone, {})
  BY <1>3, <1>4, <1>6, QuitWithCode, CodesAre, CodesNotSuccess DEF TimeoutExpired
<1>7. CASE DispatchedAndQuit(src, nm_cli, gone, {})
  BY <1>3, <1>4, <1>7, QuitAsItIs
<1>8. CASE Dispatched(src, nm_cli, {}, {}, FALSE)
  <2>1. PICK e \in {{}} : e = {}
    OBVIOUS
  <2>2. Dispatched(src, nm_cli, e, e, FALSE) /\ (\A x \in e : x.kind = "print_permissions")
    BY <1>8, <2>1
  <2> QED BY <1>3, <2>1, <2>2, PlainCallback
<1> QED BY <1>1, <1>5, <1>6, <1>7, <1>8 DEF DisconnectDeviceCb, DisconnectStateCb, DeviceOpTimeoutCb

(* ... permission_changed() and print_permissions(), *)
LEMMA PermissionsCallback ==
  ASSUME nm_cli \in Nm(Int), NEW src, src.call \in Nat, UNCHANGED ran,
         PermissionChanged(src) \/ PrintPermissionsCb(src)
  PROVE  IsCallback(src)
<1>1. src.kind \in {"permission_changed", "print_permissions"}
  BY DEF PermissionChanged, PrintPermissionsCb
<1>2. /\ src.kind \notin {"got_client", "command_done", "progress_cb"} /\ src.kind \notin DisconnectKinds
      /\ src.kind \notin ConnectKinds
  BY <1>1 DEF DisconnectKinds, ConnectKinds
<1>3. CASE PermissionChanged(src)
  <2>1. PICK gone : gone = {old \in sources : old.kind = "print_permissions"}
    OBVIOUS
  <2>2. Dispatched(src, nm_cli, gone, {Source("print_permissions", src.call)}, FALSE)
    BY <1>3, <2>1 DEF PermissionChanged
  <2>3. src.kind = "permission_changed" /\ \A x \in gone : x.kind = "print_permissions"
    BY <1>3, <2>1 DEF PermissionChanged
  <2> QED BY <1>2, <2>2, <2>3, PlainCallback
<1>4. CASE PrintPermissionsCb(src)
  <2>1. PICK nm : nm = PrintPermissions(nm_cli).nm
    OBVIOUS
  <2>2. Keeps(nm, nm_cli, 0) /\ (nm.return_value = SUCCESS => nm_cli.return_value = SUCCESS)
    BY <2>1, PermissionsPrinted, CodesNotSuccess
  <2>3. Dispatched(src, nm, {}, {}, TRUE)
    BY <1>4, <2>1 DEF PrintPermissionsCb
  <2>4. src.kind # "got_client" /\ src.kind # "command_done" /\ src.kind # "progress_cb"
    BY <1>2
  <2>5. nm.progress_id = nm_cli.progress_id
    BY <2>1, PermissionsPrinted
  <2>6. ShowsAfter(src, nm, {}, {}, TRUE)
    BY <1>2, <2>5 DEF ShowsAfter
  <2>7. Callback(src, nm, {}, {}, TRUE)
    BY <1>2, <2>2, <2>3, <2>4, <2>6 DEF Callback
  <2> QED BY <2>7 DEF IsCallback
<1> QED BY <1>3, <1>4

(* ... the callbacks that only set the result and quit, *)
LEMMA QuittingCallback ==
  ASSUME nm_cli \in Nm(Int), NEW src, src.call \in Nat, UNCHANGED ran,
         \/ SaveHostnameCb(src) \/ GeneralTimeoutCb(src) \/ SigintHandler(src)
         \/ TimeoutCb(src) \/ ConnectedStateCb(src)
  PROVE  IsCallback(src)
<1>1. src.kind \in {"save_hostname_cb", "general_timeout_cb", "SIGINT", "timeout_cb", "connected_state_cb"}
  BY DEF SaveHostnameCb, GeneralTimeoutCb, TimeoutCb, SigintHandler, ConnectedStateCb
<1>2. src.kind \notin {"got_client", "command_done", "progress_cb"} /\ src.kind \notin DisconnectKinds
  BY <1>1 DEF DisconnectKinds
<1>3. MayRemove(src, {})
  BY <1>2 DEF MayRemove
<1>4. ASSUME src.kind \in {"save_hostname_cb", "general_timeout_cb", "SIGINT"},
             NEW code \in {nm_cli.return_value, ERROR_UNKNOWN, ERROR_TIMEOUT_EXPIRED, TERMINATED_SIGINT},
             Dispatched(src, [nm_cli EXCEPT !.return_value = code], {}, {}, TRUE)
      PROVE  IsCallback(src)
  <2>1. code \in Codes /\ (code = SUCCESS => nm_cli.return_value = SUCCESS)
    BY CodesAre, CodesNotSuccess DEF Nm
  <2>2. src.kind \notin ConnectKinds \union {"got_client"}
    BY <1>4 DEF ConnectKinds
  <2> QED BY <1>3, <1>4, <2>1, <2>2, CodeCallback
<1>5. CASE DispatchedAndQuit(src, nm_cli, {}, {})
  BY <1>2, <1>3, <1>5, QuitAsItIs
<1>6. CASE DispatchedAndQuit(src, TimeoutExpired, {}, {})
  BY <1>2, <1>3, <1>6, QuitWithCode, CodesAre, CodesNotSuccess DEF TimeoutExpired
<1>7. CASE SaveHostnameCb(src) \/ GeneralTimeoutCb(src) \/ SigintHandler(src)
  BY <1>4, <1>7 DEF SaveHostnameCb, GeneralTimeoutCb, SigintHandler, TimeoutExpired
<1> QED BY <1>5, <1>6, <1>7 DEF TimeoutCb, ConnectedStateCb

(* ... and those of a connecting device. *)
LEMMA ConnectCallback ==
  ASSUME nm_cli \in Nm(Int), NEW src, src.call \in Nat, UNCHANGED ran,
         ConnectDeviceCb(src) \/ AddAndActivateCb(src)
  PROVE  IsCallback(src)
<1>1. src.kind \in {"connect_device_cb", "add_and_activate_cb"}
  BY DEF ConnectDeviceCb, AddAndActivateCb
<1>2. CASE ActivationError(src) \/ ActivationRequested(src) \/ ActivationStarted(src, nm_cli, {})
  BY <1>1, <1>2, ActivationCallback
<1>3. CASE /\ src.kind = "connect_device_cb"
           /\ Dispatched(src, nm_cli, {}, {Source("add_and_activate_cb", src.call)}, FALSE)
  <2>1. src.kind \notin {"got_client", "command_done", "progress_cb"}
    BY <1>3
  <2>2. PICK e \in {{}}, new \in {{Source("add_and_activate_cb", src.call)}} :
          e = {} /\ new = {Source("add_and_activate_cb", src.call)}
    OBVIOUS
  <2>3. Dispatched(src, nm_cli, e, new, FALSE) /\ (\A x \in e : x.kind = "print_permissions")
    BY <1>3, <2>2
  <2> QED BY <1>3, <2>1, <2>2, <2>3, PlainCallback
<1>4. CASE /\ src.kind = "add_and_activate_cb"
           /\ ActivationStarted(src, [nm_cli EXCEPT !.progress_id = ProgressId(src.call, 1)],
                                {Progress(src.call, 1)})
  BY <1>4, ShowAnewCallback
<1> QED BY <1>2, <1>3, <1>4 DEF ConnectDeviceCb, AddAndActivateCb

(* progress_cb() stays where it is. *)
Repeats(src) == Dispatched(src, nm_cli, {}, {src}, FALSE) /\ UNCHANGED ran

(* Every dispatch is the arrival of a client, the end of the process,      *)
(* progress_cb(), or such a callback.                                      *)
LEMMA DispatchCases ==
  ASSUME TypeInv, NEW src \in ready, Dispatch(src)
  PROVE  \/ GotClient(src) \/ IsCallback(src)
         \/ ProcessEnds(src) /\ src.kind \in {"SIGTERM", "progress_cb"}
         \/ Repeats(src) /\ src.kind = "progress_cb"
<1>1. nm_cli \in Nm(Int) /\ src \in sources /\ src.call \in Nat
  BY DEF TypeInv, WellFormed, SourceType
<1>2. CASE CommandDone(src)
  BY <1>1, <1>2, CommandDoneCallback
<1>3. CASE \/ SaveHostnameCb(src) \/ GeneralTimeoutCb(src) \/ SigintHandler(src)
           \/ TimeoutCb(src) \/ ConnectedStateCb(src)
  <2>1. UNCHANGED ran
    BY <1>3 DEF SaveHostnameCb, GeneralTimeoutCb, TimeoutCb, SigintHandler, ConnectedStateCb
  <2> QED BY <1>1, <1>3, <2>1, QuittingCallback
<1>4. CASE PermissionChanged(src) \/ PrintPermissionsCb(src)
  <2>1. UNCHANGED ran
    BY <1>4 DEF PermissionChanged, PrintPermissionsCb
  <2> QED BY <1>1, <1>4, <2>1, PermissionsCallback
<1>5. CASE ConnectDeviceCb(src) \/ AddAndActivateCb(src)
  <2>1. UNCHANGED ran
    BY <1>5 DEF ConnectDeviceCb, AddAndActivateCb
  <2> QED BY <1>1, <1>5, <2>1, ConnectCallback
<1>6. CASE DisconnectDeviceCb(src) \/ DisconnectStateCb(src) \/ DeviceOpTimeoutCb(src)
  <2>1. UNCHANGED ran
    BY <1>6 DEF DisconnectDeviceCb, DisconnectStateCb, DeviceOpTimeoutCb
  <2> QED BY <1>1, <1>6, <2>1, DisconnectCallback
<1>7. CASE ProgressCb(src)
  BY <1>7 DEF ProgressCb, Repeats
<1>8. CASE SigtermHandler(src)
  BY <1>8 DEF SigtermHandler
<1> QED BY <1>2, <1>3, <1>4, <1>5, <1>6, <1>7, <1>8 DEF Dispatch

-----------------------------------------------------------------------------
(* Preservation: callbacks. *)

(* A source other than a client or a signal is well formed for every call. *)
LEMMA SourceWell ==
  ASSUME NEW k \in Kinds, NEW c \in Nat, k \notin {"got_client", "SIGINT", "SIGTERM"}
  PROVE  WellFormed(Source(k, c)) /\ Source(k, c).kind = k /\ Source(k, c).call = c
BY SourceIn DEF WellFormed

(* What a callback may add. *)
AddedKinds == {"print_permissions", "add_and_activate_cb", "connected_state_cb", "timeout_cb",
               "progress_cb"}

(* The sources that a callback adds belong to its own call; a reply is     *)
(* added only by connect_device_cb(), alone, without quitting, and a       *)
(* progress_cb() only by add_and_activate_cb().                            *)
LEMMA CallbackNew ==
  ASSUME TypeInv, NEW src \in sources, NEW nm, NEW gone, NEW new, NEW quit,
         Callback(src, nm, gone, new, quit), NEW x \in new
  PROVE  /\ WellFormed(x) /\ x.call = src.call /\ x.kind \in AddedKinds
         /\ src.kind \in {"permission_changed", "connect_device_cb", "add_and_activate_cb"}
         /\ x.kind = "print_permissions" => src.kind = "permission_changed"
         /\ x.kind = "add_and_activate_cb" =>
              src.kind = "connect_device_cb" /\ ~ quit /\ new = {x}
         /\ x.kind = "progress_cb" => src.kind = "add_and_activate_cb" /\ x.p = 2 * src.call + 1
<1>1. src.call \in Nat
  BY DEF TypeInv, WellFormed, SourceType
<1>2. ASSUME NEW k \in {"print_permissions", "add_and_activate_cb", "connected_state_cb", "timeout_cb"}
      PROVE  /\ WellFormed(Source(k, src.call)) /\ Source(k, src.call).kind = k
             /\ Source(k, src.call).call = src.call /\ k \in AddedKinds /\ k # "progress_cb"
  <2>1. k \in Kinds /\ k \notin {"got_client", "SIGINT", "SIGTERM"}
    BY DEF Kinds, Subscriptions, DisconnectKinds
  <2> QED BY <1>1, <2>1, SourceWell DEF AddedKinds
<1>3. CASE src.kind = "permission_changed" /\ new = {Source("print_permissions", src.call)}
  <2>1. x = Source("print_permissions", src.call)
    BY <1>3
  <2> QED BY <1>2, <1>3, <2>1
<1>4. CASE src.kind = "connect_device_cb" /\ ~ quit /\ new = {Source("add_and_activate_cb", src.call)}
  <2>1. x = Source("add_and_activate_cb", src.call)
    BY <1>4
  <2> QED BY <1>2, <1>4, <2>1
<1>5. CASE /\ src.kind \in {"connect_device_cb", "add_and_activate_cb"}
           /\ x \in {Source("connected_state_cb", src.call), Source("timeout_cb", src.call)}
  <2>1. x = Source("connected_state_cb", src.call) \/ x = Source("timeout_cb", src.call)
    BY <1>5
  <2> QED BY <1>2, <1>5, <2>1
<1>6. CASE src.kind = "add_and_activate_cb" /\ x = Progress(src.call, 1)
  <2>1. /\ WellFormed(x) /\ x.kind = "progress_cb" /\ x.call = src.call /\ x.p = 2 * src.call + 1
    BY <1>1, <1>6, ProgressIn
  <2>2. x.kind \in AddedKinds
    BY <2>1 DEF AddedKinds
  <2> QED BY <1>6, <2>1, <2>2
<1>7. \/ src.kind = "permission_changed" /\ new = {Source("print_permissions", src.call)}
      \/ src.kind = "connect_device_cb" /\ ~ quit /\ new = {Source("add_and_activate_cb", src.call)}
      \/ /\ src.kind \in {"connect_device_cb", "add_and_activate_cb"}
         /\ x \in {Source("connected_state_cb", src.call), Source("timeout_cb", src.call)}
      \/ src.kind = "add_and_activate_cb" /\ x = Progress(src.call, 1)
  BY DEF Callback
<1> QED BY <1>3, <1>4, <1>5, <1>6, <1>7

(* A source is dispatched only while a call runs. *)
LEMMA DispatchRuns ==
  ASSUME TypeInv, NEW src \in ready
  PROVE  Running /\ src \in sources /\ call \in 1 .. MaxCalls /\ src.call \in 0 .. call
BY DEF TypeInv, Running, WellFormed, SourceType

(* What a dispatch leaves of the type. *)
LEMMA DispatchedType ==
  ASSUME TypeInv, NEW src \in ready, NEW nm \in Nm(Int), NEW gone, NEW new, NEW quit \in BOOLEAN,
         Dispatched(src, nm, gone, new, quit),
         \A x \in new : WellFormed(x) /\ x.call = src.call
  PROVE  /\ TypeInv' /\ Running'
         /\ Undisturbed' => Undisturbed /\ src.call = call
<1>1. Running /\ src \in sources /\ call \in 1 .. MaxCalls /\ src.call \in 0 .. call
  BY DispatchRuns
<1>2. loop' \in {"running", "quit"}
  BY <1>1 DEF Dispatched, Running
<1>3. \A x \in sources' : WellFormed(x) /\ x.call <= call
  BY <1>1 DEF Dispatched, TypeInv
<1>4. ready' \subseteq sources'
  BY DEF Dispatched, TypeInv
<1>5. touched' \subseteq 0 .. call
  BY <1>1 DEF Dispatched, TypeInv
<1>6. nm_cli' \in Nm(Int) /\ UNCHANGED <<argv, call, frame, signals, stdout_open>>
  BY DEF Dispatched
<1>7. TypeInv'
  <2>1. \A x \in sources' : WellFormed(x)' /\ x.call <= call'
    BY <1>3, <1>6 DEF WellFormed
  <2> QED BY <1>1, <1>2, <1>4, <1>5, <1>6, <2>1 DEF TypeInv
<1>8. Undisturbed' => Undisturbed /\ src.call = call
  BY <1>6 DEF Dispatched, Undisturbed
<1> QED BY <1>2, <1>7, <1>8 DEF Running

(* A callback keeps the type and the clients waited for. *)
LEMMA CallbackType ==
  ASSUME TypeInv, NEW src \in ready, NEW nm, NEW gone, NEW new, NEW quit,
         Callback(src, nm, gone, new, quit)
  PROVE  /\ TypeInv' /\ Running' /\ Awaited' = Awaited
         /\ Undisturbed' => Undisturbed /\ src.call = call
<1>1. src \in sources
  BY DispatchRuns
<1>2. \A x \in new : WellFormed(x) /\ x.call = src.call /\ x.kind \in AddedKinds
  BY <1>1, CallbackNew
<1>3. nm \in Nm(Int) /\ quit \in BOOLEAN /\ Dispatched(src, nm, gone, new, quit)
  BY DEF Callback, Keeps
<1>4. TypeInv' /\ Running' /\ (Undisturbed' => Undisturbed /\ src.call = call)
  BY <1>2, <1>3, DispatchedType
<1>5. Awaited' = Awaited
  <2>1. src.kind # "got_client" /\ \A x \in gone : x.kind # "got_client"
    BY DEF Callback, DisconnectKinds
  <2>2. sources' = (sources \ ({src} \union gone)) \union new
    BY <1>3 DEF Dispatched
  <2>3. \A x \in new : x.kind # "got_client"
    BY <1>2 DEF AddedKinds
  <2> QED BY <2>1, <2>2, <2>3 DEF Awaited
<1> QED BY <1>4, <1>5

(* A callback keeps OwnInv: whatever quits the loop is the only thing that *)
(* its call waits for, or removes the others that belong to it.            *)
LEMMA CallbackOwn ==
  ASSUME TypeInv, OwnInv, NEW src \in ready, NEW nm, NEW gone, NEW new, NEW quit,
         Callback(src, nm, gone, new, quit)
  PROVE  OwnInv'
<1> SUFFICES ASSUME Running', Undisturbed' PROVE OwnInv'
  BY DEF OwnInv
<1>1. Running /\ src \in sources
  BY DispatchRuns
<1>2. Undisturbed /\ src.call = call
  BY CallbackType
<1>3. /\ Dispatched(src, nm, gone, new, quit) /\ quit \in BOOLEAN
      /\ \A x \in gone : x.kind \in DisconnectKinds \union {"print_permissions", "progress_cb"}
      /\ quit => /\ src.kind = "command_done" => nm_cli.should_wait = 0
                 /\ src.kind \in DisconnectKinds => DeviceCbInfo(src.call) \subseteq gone
  BY DEF Callback
<1>4. nm_cli'.should_wait = nm_cli.should_wait
  BY <1>3 DEF Callback, Keeps, Dispatched, TypeInv, Nm
<1>5. /\ sources' = (sources \ ({src} \union gone)) \union new
      /\ ready' = ready \ ({src} \union gone)
      /\ loop' = IF quit THEN "quit" ELSE loop
      /\ call' = call
  BY <1>3 DEF Dispatched
<1>6. \A x \in new :
        /\ x.kind \in AddedKinds
        /\ src.kind \in {"permission_changed", "connect_device_cb", "add_and_activate_cb"}
        /\ x.kind = "print_permissions" => src.kind = "permission_changed"
        /\ x.kind = "add_and_activate_cb" => src.kind = "connect_device_cb" /\ ~ quit /\ new = {x}
        /\ x.kind = "progress_cb" => src.kind = "add_and_activate_cb" /\ x.p = 2 * src.call + 1
  BY <1>1, CallbackNew
<1>7. \A a \in sources : a.call = call /\ a.kind = "command_done" => a \in ready
  BY <1>1, <1>2 DEF OwnInv
<1>8. \A a \in sources : a.call = call /\ a.kind \in Pending => loop = "running" /\ nm_cli.should_wait >= 1
  BY <1>1, <1>2 DEF OwnInv
<1>9. \A a, b \in sources :
        a.call = call /\ b.call = call /\ a.kind \in Replies /\ b.kind # "command_done"
        => a = b \/ b = Progress(call, 0)
  BY <1>1, <1>2 DEF OwnInv
<1>10. \A a, b \in sources :
         a.call = call /\ b.call = call /\ a.kind \in DisconnectKinds =>
         b.kind \in DisconnectKinds \union {"command_done"}
  BY <1>1, <1>2 DEF OwnInv
<1>a. \A a, b \in sources :
        a.call = call /\ b.call = call /\ a.kind = "progress_cb" => b.kind \in ConnectKinds
  BY <1>1, <1>2 DEF OwnInv
<1>b. \A a \in sources : a.call = call /\ a.kind = "progress_cb" =>
        /\ a.p = nm_cli.progress_id => loop = "running" /\ nm_cli.should_wait >= 1
        /\ a = Progress(call, 0) \/ a.p = nm_cli.progress_id
  BY <1>1, <1>2 DEF OwnInv
<1>c. call \in Nat \ {0} /\ src.kind # "progress_cb" /\ ShowsAfter(src, nm, gone, new, quit)
      /\ nm_cli' = nm
  BY <1>3, DispatchRuns DEF Callback, Dispatched
<1>d. /\ Progress(call, 0).kind = "progress_cb" /\ Progress(call, 0).p = 2 * call
      /\ Progress(call, 0).p # 0 /\ Progress(call, 0)' = Progress(call, 0)
  <2>1. Progress(call, 0)' = Progress(call, 0)
    BY <1>5 DEF Progress, ProgressId, Source
  <2>2. PICK z \in {0, 1} : z = 0
    OBVIOUS
  <2>3. Progress(call, z).kind = "progress_cb" /\ Progress(call, z).p = 2 * call + z
    BY <1>c, ProgressIn
  <2> QED BY <1>c, <2>1, <2>2, <2>3
<1>11. \A a \in sources' : a.call = call' /\ a.kind = "command_done" => a \in ready'
  <2>1. \A x \in gone : x.kind # "command_done"
    BY <1>3 DEF DisconnectKinds
  <2> QED BY <1>5, <1>6, <1>7, <2>1 DEF AddedKinds
<1>12. ASSUME NEW a \in sources', a.call = call', a.kind \in Pending
       PROVE  loop' = "running" /\ nm_cli'.should_wait >= 1
  <2>1. CASE a \in new
    <3>1. a.kind = "add_and_activate_cb"
      BY <1>6, <1>12, <2>1 DEF Pending, Replies, AddedKinds
    <3>2. src.kind = "connect_device_cb" /\ ~ quit
      BY <1>6, <2>1, <3>1
    <3>3. src.kind \in Pending
      BY <3>2 DEF Pending, Replies
    <3>4. loop = "running" /\ nm_cli.should_wait >= 1
      BY <1>1, <1>2, <1>8, <3>3
    <3> QED BY <1>4, <1>5, <3>2, <3>4
  <2>2. CASE a \notin new
    <3>1. a \in sources /\ a # src /\ a \notin gone /\ a.call = call
      BY <1>5, <1>12, <2>2
    <3>2. loop = "running" /\ nm_cli.should_wait >= 1
      BY <1>8, <1>12, <3>1
    <3>3. ASSUME quit PROVE FALSE
      <4>1. src.kind # "command_done"
        BY <1>3, <3>2, <3>3
      <4>2. a.kind \notin Replies
        BY <1>1, <1>2, <1>9, <1>c, <1>d, <3>1, <4>1
      <4>3. a.kind \in DisconnectKinds
        BY <1>12, <4>2 DEF Pending, DisconnectKinds
      <4>4. src.kind \in DisconnectKinds
        BY <1>1, <1>2, <1>10, <3>1, <4>1, <4>3
      <4>5. a \in DeviceCbInfo(src.call)
        BY <1>2, <3>1, <4>3 DEF DeviceCbInfo
      <4> QED BY <1>3, <3>1, <3>3, <4>4, <4>5
    <3> QED BY <1>4, <1>5, <3>2, <3>3
  <2> QED BY <2>1, <2>2
<1>13. ASSUME NEW a \in sources', NEW b \in sources', a.call = call', b.call = call',
              a.kind \in Replies, b.kind # "command_done"
       PROVE  a = b \/ b = Progress(call, 0)
  <2>1. CASE a \in new
    <3>1. a.kind = "add_and_activate_cb"
      BY <1>6, <1>13, <2>1 DEF Replies, AddedKinds
    <3>2. src.kind = "connect_device_cb" /\ new = {a}
      BY <1>6, <2>1, <3>1
    <3>3. src.kind \in Replies
      BY <3>2 DEF Replies
    <3>4. b \in sources => b = src \/ b = Progress(call, 0)
      BY <1>1, <1>2, <1>5, <1>9, <1>13, <3>3
    <3> QED BY <1>5, <3>2, <3>4
  <2>2. CASE a \notin new
    <3>1. a \in sources /\ a # src /\ a.call = call
      BY <1>5, <1>13, <2>2
    <3>2. src.kind = "command_done"
      BY <1>1, <1>2, <1>9, <1>13, <1>c, <1>d, <3>1
    <3>3. b \notin new
      BY <1>6, <3>2
    <3> QED BY <1>5, <1>9, <1>13, <3>1, <3>3
  <2> QED BY <2>1, <2>2
<1>14. ASSUME NEW a \in sources', NEW b \in sources', a.call = call', b.call = call',
              a.kind \in DisconnectKinds
       PROVE  b.kind \in DisconnectKinds \union {"command_done"}
  <2>1. a \in sources /\ a.call = call
    BY <1>5, <1>6, <1>14 DEF DisconnectKinds, AddedKinds
  <2>2. CASE b \in new
    <3>1. src.kind \in DisconnectKinds \union {"command_done"}
      BY <1>1, <1>2, <1>10, <1>14, <2>1
    <3> QED BY <1>6, <2>2, <3>1 DEF DisconnectKinds
  <2>3. CASE b \notin new
    BY <1>5, <1>10, <1>14, <2>1, <2>3
  <2> QED BY <2>2, <2>3
<1>15. ASSUME src.kind = "add_and_activate_cb", NEW b \in sources, b # src, b.call = call,
              b.kind # "command_done"
       PROVE  b = Progress(call, 0)
  <2>1. src.kind \in Replies
    BY <1>15 DEF Replies
  <2> QED BY <1>1, <1>2, <1>9, <1>15, <2>1
<1>16. ASSUME NEW a \in sources', NEW b \in sources', a.call = call', b.call = call',
              a.kind = "progress_cb"
       PROVE  b.kind \in ConnectKinds
  <2>1. CASE a \in new
    <3>1. src.kind = "add_and_activate_cb"
      BY <1>6, <1>16, <2>1
    <3>2. CASE b \in new
      BY <1>6, <3>1, <3>2 DEF AddedKinds, ConnectKinds
    <3>3. CASE b \notin new
      <4>1. b \in sources /\ b # src /\ b.call = call
        BY <1>5, <1>16, <3>3
      <4> QED BY <1>15, <1>d, <3>1, <4>1 DEF ConnectKinds
    <3> QED BY <3>2, <3>3
  <2>2. CASE a \notin new
    <3>1. a \in sources /\ a.call = call
      BY <1>5, <1>16, <2>2
    <3>2. src.kind \in ConnectKinds
      BY <1>1, <1>2, <1>16, <1>a, <3>1
    <3>3. CASE b \in new
      BY <1>6, <3>2, <3>3 DEF AddedKinds, ConnectKinds
    <3>4. CASE b \notin new
      BY <1>5, <1>16, <1>a, <3>1, <3>4
    <3> QED BY <3>3, <3>4
  <2> QED BY <2>1, <2>2
<1>17. ASSUME NEW a \in sources', a.call = call', a.kind = "progress_cb"
       PROVE  /\ a.p = nm_cli'.progress_id => loop' = "running" /\ nm_cli'.should_wait >= 1
              /\ a = Progress(call, 0) \/ a.p = nm_cli'.progress_id
  <2>1. CASE /\ nm.progress_id = nm_cli.progress_id
             /\ quit => src.kind \notin ConnectKinds \ {"command_done"}
             /\ \A x \in new : x.kind # "progress_cb"
    <3>1. a \in sources /\ a.call = call
      BY <1>5, <1>17, <2>1
    <3>2. src.kind \in ConnectKinds
      BY <1>1, <1>2, <1>17, <1>a, <3>1
    <3>3. ASSUME a.p = nm_cli.progress_id PROVE loop' = "running" /\ nm_cli'.should_wait >= 1
      <4>1. loop = "running" /\ nm_cli.should_wait >= 1
        BY <1>17, <1>b, <3>1, <3>3
      <4>2. ~ quit
        BY <1>3, <2>1, <3>2, <4>1
      <4> QED BY <1>4, <1>5, <4>1, <4>2
    <3> QED BY <1>17, <1>b, <1>c, <2>1, <3>1, <3>3
  <2>2. CASE /\ nm.progress_id = 0
             /\ ProgressOf(nm_cli) \subseteq gone \/ src.kind = "add_and_activate_cb"
             /\ \A x \in new : x.kind # "progress_cb"
    <3>1. a \in sources /\ a.call = call /\ a # src /\ a \notin gone
      BY <1>5, <1>17, <2>2
    <3>2. a = Progress(call, 0)
      <4>1. CASE ProgressOf(nm_cli) \subseteq gone
        BY <1>17, <1>b, <3>1, <4>1 DEF ProgressOf
      <4>2. CASE src.kind = "add_and_activate_cb"
        BY <1>15, <1>17, <3>1, <4>2
      <4> QED BY <2>2, <4>1, <4>2
    <3> QED BY <1>c, <1>d, <2>2, <3>2
  <2>3. CASE /\ src.kind = "add_and_activate_cb" /\ ~ quit
             /\ nm.progress_id = 2 * src.call + 1
    <3>1. src.kind \in Pending
      BY <2>3 DEF Pending, Replies
    <3>2. loop' = "running" /\ nm_cli'.should_wait >= 1
      BY <1>1, <1>2, <1>4, <1>5, <1>8, <2>3, <3>1
    <3>3. CASE a \in new
      BY <1>6, <1>17, <1>c, <2>3, <3>2, <3>3
    <3>4. CASE a \notin new
      <4>1. a \in sources /\ a.call = call /\ a # src
        BY <1>5, <1>17, <3>4
      <4> QED BY <1>15, <1>17, <2>3, <3>2, <4>1
    <3> QED BY <3>3, <3>4
  <2> QED BY <1>c, <2>1, <2>2, <2>3 DEF ShowsAfter
<1> QED BY <1>11, <1>12, <1>13, <1>14, <1>16, <1>17, <1>d DEF OwnInv

(* A callback keeps the invariant. *)
LEMMA CallbackInv ==
  ASSUME Inv, NEW src \in ready, NEW nm, NEW gone, NEW new, NEW quit,
         Callback(src, nm, gone, new, quit)
  PROVE  Inv'
<1>1. TypeInv /\ Running /\ src \in sources
  BY DispatchRuns DEF Inv
<1>2. /\ TypeInv' /\ Running' /\ Awaited' = Awaited
      /\ Undisturbed' => Undisturbed /\ src.call = call
  BY <1>1, CallbackType
<1>3. /\ Dispatched(src, nm, gone, new, quit) /\ UNCHANGED ran
      /\ src.kind # "got_client"
      /\ Keeps(nm, nm_cli, 0)
      /\ nm.return_value = SUCCESS => nm_cli.return_value = SUCCESS
      /\ \A x \in gone : x.kind \in DisconnectKinds \union {"print_permissions", "progress_cb"}
  BY DEF Callback
<1>4. UNCHANGED <<argv, call, frame, signals, stdout_open, results, ran>> /\ nm_cli' = nm
  BY <1>3 DEF Dispatched
<1>5. WaitInv'
  <2>1. nm.should_wait = nm_cli.should_wait
    BY <1>1, <1>3 DEF Keeps, TypeInv, Nm
  <2> QED BY <1>2, <1>4, <2>1 DEF WaitInv, Inv
<1>6. RanInv'
  BY <1>2, <1>4 DEF RanInv, Inv
<1>7. OwnInv'
  BY <1>1, CallbackOwn DEF Inv
<1>8. HandlerInv'
  <2> SUFFICES ASSUME Undisturbed', HandlerFor(frame.passed) # <<>> PROVE HandlerInv'
    BY <1>4 DEF HandlerInv
  <2>1. HandlerInv /\ Undisturbed
    BY <1>2 DEF Inv
  <2>2. \A x \in sources : x.kind = "got_client" => x \in sources'
    BY <1>3 DEF Dispatched, DisconnectKinds
  <2> QED BY <1>1, <1>3, <1>4, <2>1, <2>2 DEF HandlerInv
<1>9. ResultsInv' /\ LeavesOnlyItsTimeout'
  <2>1. loop # "none" /\ loop' # "none"
    BY <1>1, <1>2 DEF Running
  <2> QED BY <1>4, <2>1 DEF ResultsInv, LeavesOnlyItsTimeout, Inv
<1>10. HandlerRunsOnce'
  BY <1>4 DEF HandlerRunsOnce, Inv
<1>11. OptionsInv'
  BY <1>1, <1>3, <1>4 DEF OptionsInv, Keeps, SameOptions, Inv
<1> QED BY <1>2, <1>5, <1>6, <1>7, <1>8, <1>9, <1>10, <1>11 DEF Inv

-----------------------------------------------------------------------------
(* Preservation: the client arrives. *)

(* got_client(): it takes back one of should_wait, and the handler may     *)
(* wait for something else.                                                *)
Arrival(src, nm, new, quit) ==
  /\ src.kind = "got_client"
  /\ Dispatched(src, nm, {}, new, quit)
  /\ quit \in BOOLEAN
  /\ \/ new = {} /\ Keeps(nm, nm_cli, -1)
     \/ Adds(src.handler, src.call, new) /\ Keeps(nm, nm_cli, 0) /\ (quit => nm.should_wait = 0)
  /\ \/ ran' = ran /\ nm.return_value # SUCCESS
     \/ ran' = [ran EXCEPT ![src.call] = @ + 1]

(* The arrival of the client takes one from should_wait. *)
LEMMA ClientArrives ==
  ASSUME nm_cli \in Nm(Int)
  PROVE  Keeps(ClientArrived(nm_cli), nm_cli, -1)
<1>1. nm_cli.should_wait \in Int
  BY DEF Nm
<1>2. PICK w \in Int : w = nm_cli.should_wait - 1
  BY <1>1
<1>3. PICK nm : nm = [nm_cli EXCEPT !.should_wait = w, !.client = TRUE]
  OBVIOUS
<1>4. nm \in Nm(Int) /\ SameOptions(nm, nm_cli) /\ nm.should_wait = w
  BY <1>3 DEF Nm, SameOptions
<1>5. ClientArrived(nm_cli) = nm
  BY <1>2, <1>3 DEF ClientArrived
<1> QED BY <1>1, <1>2, <1>4, <1>5 DEF Keeps

(* got_client() is such an arrival, whether or not the handler runs. *)
LEMMA GotClientArrival ==
  ASSUME TypeInv, NEW src \in ready, GotClient(src)
  PROVE  \E nm, new, quit : Arrival(src, nm, new, quit)
<1>1. nm_cli \in Nm(Int) /\ src \in sources /\ WellFormed(src) /\ src.kind = "got_client"
  BY DEF TypeInv, GotClient
<1>2. PICK b : b = ClientArrived(nm_cli)
  OBVIOUS
<1>3. Keeps(b, nm_cli, -1) /\ b \in Nm(Int) /\ nm_cli.should_wait \in Int
  <2>1. Keeps(b, nm_cli, -1)
    BY <1>1, <1>2, ClientArrives
  <2> QED BY <1>1, <2>1 DEF Keeps, Nm
<1>4. ASSUME NEW code \in {ERROR_UNKNOWN, ERROR_NM_NOT_RUNNING}, GotClientFails(src, b, code)
      PROVE  \E nm, new, quit : Arrival(src, nm, new, quit)
  <2>1. PICK x \in BOOLEAN : x = (code # ERROR_UNKNOWN)
    OBVIOUS
  <2>2. PICK nm : nm = [b EXCEPT !.client = x, !.return_value = code]
    OBVIOUS
  <2>3. code \in Codes /\ code # SUCCESS
    BY CodesAre, CodesNotSuccess
  <2>4. nm \in Nm(Int) /\ SameOptions(nm, b) /\ nm.should_wait = b.should_wait /\ nm.return_value = code
    BY <1>3, <2>2, <2>3 DEF Nm, SameOptions
  <2>5. Keeps(nm, nm_cli, -1)
    BY <1>3, <2>4 DEF Keeps, SameOptions
  <2>6. PICK q \in BOOLEAN : q = TaskQuits(nm)
    BY DEF TaskQuits
  <2>7. Dispatched(src, nm, {}, {}, q) /\ UNCHANGED ran
    BY <1>4, <2>1, <2>2, <2>6 DEF GotClientFails
  <2>8. Arrival(src, nm, {}, q)
    BY <1>1, <2>3, <2>4, <2>5, <2>7 DEF Arrival
  <2> QED BY <2>8
<1>5. ASSUME NEW o \in RunHandler(src.handler, b, src.argv, src.p, src.call),
             Dispatched(src, o.nm, {}, o.new, o.quit \/ TaskQuits(o.nm)),
             ran' = [ran EXCEPT ![src.call] = @ + 1]
      PROVE  \E nm, new, quit : Arrival(src, nm, new, quit)
  <2>1. /\ src.handler \in Handlers /\ src.argv \in Seq(Words)
        /\ src.p \in 1 .. Len(src.argv) + 1 /\ src.call \in Nat
    BY <1>1 DEF WellFormed, SourceType
  <2>2. Effect(b, src.handler, src.call, o)
    BY <1>3, <2>1, HandlerEffect
  <2>3. PICK nm, new : nm = o.nm /\ new = o.new
    OBVIOUS
  <2>4. PICK q \in BOOLEAN : q = (o.quit \/ TaskQuits(o.nm))
    OBVIOUS
  <2>5. Dispatched(src, nm, {}, new, q)
    BY <1>5, <2>3, <2>4
  <2>6. CASE Keeps(nm, b, 0) /\ new = {}
    <3>1. Keeps(nm, nm_cli, -1)
      BY <1>3, <2>6 DEF Keeps, SameOptions
    <3>2. Arrival(src, nm, new, q)
      BY <1>1, <1>5, <2>5, <2>6, <3>1 DEF Arrival
    <3> QED BY <3>2
  <2>7. CASE Keeps(nm, b, 1) /\ Adds(src.handler, src.call, new) /\ o.quit = FALSE
    <3>1. Keeps(nm, nm_cli, 0)
      BY <1>3, <2>7 DEF Keeps, SameOptions
    <3>2. q => nm.should_wait = 0
      BY <2>3, <2>4, <2>7 DEF TaskQuits
    <3>3. Arrival(src, nm, new, q)
      BY <1>1, <1>5, <2>5, <2>7, <3>1, <3>2 DEF Arrival
    <3> QED BY <3>3
  <2> QED BY <2>2, <2>3, <2>6, <2>7 DEF Effect
<1> QED BY <1>2, <1>4, <1>5 DEF GotClient

(* A handler adds well-formed sources of its call: one reply, which may be *)
(* accompanied by the progress, or a subscription with its timeout, or     *)
(* those of a disconnecting device.                                        *)
LEMMA AddsWell ==
  ASSUME NEW h, NEW c \in Nat, NEW new, Adds(h, c, new), NEW x \in new
  PROVE  /\ WellFormed(x) /\ x.call = c
         /\ \/ x.kind = "save_hostname_cb" /\ new = {x}
            \/ /\ x.kind \in {"connect_device_cb", "progress_cb"}
               /\ \A y \in new : \/ y = Source("connect_device_cb", c) /\ y.kind = "connect_device_cb"
                                 \/ y = Progress(c, 0) /\ y.kind = "progress_cb"
            \/ /\ x.kind \in {"permission_changed", "general_timeout_cb"}
               /\ \A y \in new : y.kind \in {"permission_changed", "general_timeout_cb"}
            \/ x.kind \in DisconnectKinds /\ \A y \in new : y.kind \in DisconnectKinds
<1>1. ASSUME NEW k \in {"save_hostname_cb", "connect_device_cb", "permission_changed",
                         "general_timeout_cb"} \union DisconnectKinds
      PROVE  WellFormed(Source(k, c)) /\ Source(k, c).kind = k /\ Source(k, c).call = c
  <2>1. k \in Kinds /\ k \notin {"got_client", "SIGINT", "SIGTERM"}
    BY DEF Kinds, Subscriptions, DisconnectKinds
  <2> QED BY <2>1, SourceWell
<1>2. CASE new = {Source("save_hostname_cb", c)}
  <2>1. x = Source("save_hostname_cb", c)
    BY <1>2
  <2> QED BY <1>1, <1>2, <2>1
<1>3. CASE new = {Source("permission_changed", c), Source("general_timeout_cb", c)}
  <2>1. \A y \in new : /\ WellFormed(y) /\ y.call = c
                       /\ y.kind \in {"permission_changed", "general_timeout_cb"}
    BY <1>1, <1>3
  <2> QED BY <2>1
<1>4. CASE \/ new = {Source("connect_device_cb", c)}
           \/ new = {Source("connect_device_cb", c), Progress(c, 0)}
  <2>1. PICK z \in {0, 1} : z = 0
    OBVIOUS
  <2>2. WellFormed(Progress(c, z)) /\ Progress(c, z).kind = "progress_cb" /\ Progress(c, z).call = c
    BY ProgressIn
  <2>3. \A y \in new :
          /\ WellFormed(y) /\ y.call = c
          /\ \/ y = Source("connect_device_cb", c) /\ y.kind = "connect_device_cb"
             \/ y = Progress(c, 0) /\ y.kind = "progress_cb"
    <3>1. \A y \in new : y = Source("connect_device_cb", c) \/ y = Progress(c, z)
      BY <1>4, <2>1
    <3> QED BY <1>1, <2>1, <2>2, <3>1
  <2>4. WellFormed(x) /\ x.call = c /\ x.kind \in {"connect_device_cb", "progress_cb"}
    BY <2>3
  <2> QED BY <2>3, <2>4, Zenon
<1>5. CASE \E K \in SUBSET DisconnectKinds : new = {Source(k, c) : k \in K}
  <2>1. \A y \in new : WellFormed(y) /\ y.call = c /\ y.kind \in DisconnectKinds
    BY <1>1, <1>5
  <2> QED BY <2>1
<1> QED BY <1>2, <1>3, <1>4, <1>5 DEF Adds

(* An arrival keeps the type and ends the wait for its client. *)
LEMMA ArrivalType ==
  ASSUME TypeInv, NEW src \in ready, NEW nm, NEW new, NEW quit, Arrival(src, nm, new, quit)
  PROVE  /\ TypeInv' /\ Running' /\ Awaited' = Awaited \ {src} /\ src \in Awaited
         /\ Undisturbed' => Undisturbed /\ src.call = call
         /\ src.call \in 1 .. call
         /\ nm_cli'.should_wait \in {nm_cli.should_wait, nm_cli.should_wait - 1}
         /\ SameOptions(nm_cli', nm_cli)
<1>1. /\ src \in sources /\ src.call \in 0 .. call /\ src.kind = "got_client" /\ src.call > 0
      /\ src.call \in Nat
  BY DispatchRuns DEF Arrival, TypeInv, WellFormed
<1>2. /\ nm \in Nm(Int) /\ quit \in BOOLEAN /\ Dispatched(src, nm, {}, new, quit)
      /\ nm.should_wait \in {nm_cli.should_wait, nm_cli.should_wait - 1}
      /\ SameOptions(nm, nm_cli)
  BY DEF Arrival, Keeps, TypeInv, Nm
<1>3. \A x \in new : /\ WellFormed(x) /\ x.call = src.call
                     /\ x.kind # "got_client"
  <2>1. CASE new = {}
    BY <2>1
  <2>2. CASE Adds(src.handler, src.call, new)
    <3>1. ASSUME NEW x \in new
          PROVE  WellFormed(x) /\ x.call = src.call /\ x.kind # "got_client"
      BY <1>1, <2>2, AddsWell DEF DisconnectKinds
    <3> QED BY <3>1
  <2> QED BY <2>1, <2>2 DEF Arrival
<1>4. TypeInv' /\ Running' /\ (Undisturbed' => Undisturbed /\ src.call = call)
  BY <1>2, <1>3, DispatchedType
<1>5. Awaited' = Awaited \ {src} /\ src \in Awaited
  BY <1>1, <1>2, <1>3 DEF Awaited, Dispatched
<1>6. src.call \in 1 .. call
  BY <1>1
<1>7. nm_cli' = nm
  BY <1>2 DEF Dispatched
<1> QED BY <1>2, <1>4, <1>5, <1>6, <1>7

(* An arrival keeps OwnInv: what the handler adds is counted before the    *)
(* loop could quit.                                                        *)
LEMMA ArrivalOwn ==
  ASSUME TypeInv, OwnInv, NEW src \in ready, NEW nm, NEW new, NEW quit,
         Arrival(src, nm, new, quit)
  PROVE  OwnInv'
<1> SUFFICES ASSUME Running', Undisturbed' PROVE OwnInv'
  BY DEF OwnInv
<1>1. Running /\ src \in sources /\ src.kind = "got_client"
  BY DispatchRuns DEF Arrival
<1>2. Undisturbed /\ src.call = call /\ call \in Nat
  BY ArrivalType DEF TypeInv
<1>3. Dispatched(src, nm, {}, new, quit) /\ quit \in BOOLEAN
  BY DEF Arrival
<1>4. /\ sources' = (sources \ {src}) \union new
      /\ ready' = ready \ {src}
      /\ loop' = IF quit THEN "quit" ELSE loop
      /\ call' = call /\ nm_cli' = nm
  BY <1>3 DEF Dispatched
<1>5. \A a \in sources : a.call = call /\ a # src => a.kind = "command_done" /\ a \in ready
  <2>1. \A a \in sources : a.call = call => a.kind # "progress_cb"
    BY <1>1, <1>2 DEF OwnInv, ConnectKinds
  <2>2. PICK z \in {0, 1} : z = 0
    OBVIOUS
  <2>3. Progress(call, z).kind = "progress_cb"
    BY <1>2, ProgressIn
  <2>4. src.kind \in Replies
    BY <1>1 DEF Replies
  <2>5. \A a \in sources : a.call = call /\ a # src => a.kind = "command_done"
    BY <1>1, <1>2, <2>1, <2>2, <2>3, <2>4 DEF OwnInv
  <2> QED BY <1>1, <1>2, <2>5 DEF OwnInv
<1>6. loop = "running" /\ nm_cli.should_wait >= 1
  BY <1>1, <1>2 DEF OwnInv, Pending, Replies
<1>7. CASE new = {}
  <2>1. \A a \in sources' : a.call = call' => a.kind = "command_done" /\ a \in ready'
    BY <1>4, <1>5, <1>7
  <2> QED BY <2>1 DEF OwnInv, Pending, Replies, DisconnectKinds, ConnectKinds
<1>8. CASE Adds(src.handler, src.call, new) /\ Keeps(nm, nm_cli, 0) /\ (quit => nm.should_wait = 0)
  <2>1. \A x \in new :
         \/ x.kind = "save_hostname_cb" /\ new = {x}
         \/ /\ x.kind \in {"connect_device_cb", "progress_cb"}
            /\ \A y \in new : \/ y = Source("connect_device_cb", call) /\ y.kind = "connect_device_cb"
                              \/ y = Progress(call, 0) /\ y.kind = "progress_cb"
         \/ /\ x.kind \in {"permission_changed", "general_timeout_cb"}
            /\ \A y \in new : y.kind \in {"permission_changed", "general_timeout_cb"}
         \/ x.kind \in DisconnectKinds /\ \A y \in new : y.kind \in DisconnectKinds
    BY <1>2, <1>8, AddsWell
  <2>2. nm.should_wait >= 1 /\ ~ quit
    BY <1>6, <1>8 DEF Keeps, TypeInv, Nm
  <2>3. loop' = "running" /\ nm_cli'.should_wait >= 1
    BY <1>4, <1>6, <2>2
  <2>4. \A a \in sources' : a.call = call' /\ a \notin new => a.kind = "command_done" /\ a \in ready'
    BY <1>4, <1>5
  <2>5. \A a \in new : a.kind # "command_done"
    BY <2>1 DEF DisconnectKinds
  <2>6. \A a \in sources' : a.call = call' /\ a.kind = "command_done" => a \in ready'
    BY <2>4, <2>5
  <2>7. ASSUME NEW a \in sources', NEW b \in sources', a.call = call', b.call = call',
               a.kind \in Replies, b.kind # "command_done"
        PROVE  a = b \/ b = Progress(call, 0)
    <3>1. a \in new /\ b \in new
      BY <2>4, <2>7 DEF Replies
    <3> QED BY <2>1, <2>7, <3>1 DEF Replies, DisconnectKinds
  <2>8. ASSUME NEW a \in sources', NEW b \in sources', a.call = call', b.call = call',
               a.kind \in DisconnectKinds
        PROVE  b.kind \in DisconnectKinds \union {"command_done"}
    <3>1. a \in new
      BY <2>4, <2>8 DEF DisconnectKinds
    <3>2. \A y \in new : y.kind \in DisconnectKinds
      <4>1. a.kind \notin {"save_hostname_cb", "connect_device_cb", "progress_cb",
                           "permission_changed", "general_timeout_cb"}
        BY <2>8 DEF DisconnectKinds
      <4> QED BY <2>1, <3>1, <4>1
    <3> QED BY <2>4, <2>8, <3>2
  <2>9. ASSUME NEW a \in sources', a.call = call', a.kind = "progress_cb"
        PROVE  /\ a = Progress(call, 0)
               /\ \A b \in sources' : b.call = call' => b.kind \in ConnectKinds
    <3>1. a \in new
      BY <2>4, <2>9
    <3>2. \A y \in new : \/ y = Source("connect_device_cb", call) /\ y.kind = "connect_device_cb"
                         \/ y = Progress(call, 0) /\ y.kind = "progress_cb"
      BY <2>1, <2>9, <3>1 DEF DisconnectKinds
    <3> QED BY <2>4, <2>9, <3>1, <3>2 DEF ConnectKinds
  <2> QED BY <1>4, <2>3, <2>6, <2>7, <2>8, <2>9 DEF OwnInv
<1> QED BY <1>7, <1>8 DEF Arrival

(* An arrival keeps the invariant; the handler had not run before. *)
LEMMA ArrivalInv ==
  ASSUME Inv, NEW src \in ready, NEW nm, NEW new, NEW quit, Arrival(src, nm, new, quit)
  PROVE  Inv'
<1>1. TypeInv /\ Running /\ src \in sources
  BY DispatchRuns DEF Inv
<1>2. /\ TypeInv' /\ Running' /\ Awaited' = Awaited \ {src} /\ src \in Awaited
      /\ Undisturbed' => Undisturbed /\ src.call = call
      /\ src.call \in 1 .. call
      /\ nm_cli'.should_wait \in {nm_cli.should_wait, nm_cli.should_wait - 1}
      /\ SameOptions(nm_cli', nm_cli)
  BY <1>1, ArrivalType
<1>3. UNCHANGED <<argv, call, frame, signals, stdout_open, results>> /\ nm_cli' = nm
  BY DEF Arrival, Dispatched
<1>4. call \in Nat /\ call <= MaxCalls /\ MaxCalls \in Nat /\ nm_cli.should_wait \in Int
  BY <1>1, LibraryAssumption DEF TypeInv, Nm
<1>5. WaitInv'
  <2>1. IsFiniteSet(Awaited) /\ Cardinality(Awaited) \in Nat
    BY FS_CardinalityType DEF Inv, WaitInv
  <2>2. IsFiniteSet(Awaited \ {src}) /\ Cardinality(Awaited \ {src}) = Cardinality(Awaited) - 1
    BY <1>2, <2>1, FS_RemoveElement
  <2> QED BY <1>2, <1>3, <1>4, <2>1, <2>2 DEF WaitInv, Inv
<1>6. src.call \in 1 .. MaxCalls /\ ran[src.call] = 0 /\ ran \in [1 .. MaxCalls -> 0 .. 1]
  BY <1>2, <1>4 DEF Inv, RanInv
<1>7. /\ ran' \in [1 .. MaxCalls -> 0 .. 1]
      /\ \A i \in 1 .. MaxCalls : i # src.call => ran'[i] = ran[i]
      /\ ran'[src.call] = 1 \/ (ran'[src.call] = 0 /\ nm_cli'.return_value # SUCCESS)
  <2>1. CASE ran' = ran /\ nm.return_value # SUCCESS
    BY <1>3, <1>6, <2>1
  <2>2. CASE ran' = [ran EXCEPT ![src.call] = @ + 1]
    <3>1. PICK c \in 1 .. MaxCalls : c = src.call
      BY <1>6
    <3>2. ran' = [ran EXCEPT ![c] = 1] /\ ran \in [1 .. MaxCalls -> 0 .. 1]
      BY <1>6, <2>2, <3>1
    <3>3. ran' \in [1 .. MaxCalls -> 0 .. 1]
      BY <3>1, <3>2
    <3>4. ran'[c] = 1 /\ \A i \in 1 .. MaxCalls : i # c => ran'[i] = ran[i]
      BY <3>1, <3>2
    <3> QED BY <3>1, <3>3, <3>4
  <2> QED BY <2>1, <2>2 DEF Arrival
<1>8. RanInv'
  <2>1. \A i \in 1 .. MaxCalls : i > call' => ran'[i] = 0
    BY <1>2, <1>3, <1>4, <1>7 DEF Inv, RanInv
  <2>2. \A a \in Awaited' : a.call # src.call /\ a \in Awaited
    BY <1>2 DEF Inv, RanInv
  <2>3. \A a \in Awaited' : a.call \in 1 .. MaxCalls
    BY <1>1, <1>4, <2>2 DEF TypeInv, WellFormed, Awaited, SourceType
  <2>4. \A a \in Awaited' : ran'[a.call] = 0
    BY <1>7, <2>2, <2>3 DEF Inv, RanInv
  <2>5. \A a, b \in Awaited' : a.call = b.call => a = b
    BY <2>2 DEF Inv, RanInv
  <2> QED BY <1>7, <2>1, <2>4, <2>5 DEF RanInv
<1>9. OwnInv'
  BY <1>1, ArrivalOwn DEF Inv
<1>10. HandlerInv'
  BY <1>2, <1>3, <1>7 DEF HandlerInv
<1>11. ResultsInv' /\ LeavesOnlyItsTimeout'
  <2>1. loop # "none" /\ loop' # "none"
    BY <1>1, <1>2 DEF Running
  <2> QED BY <1>3, <2>1 DEF ResultsInv, LeavesOnlyItsTimeout, Inv
<1>12. HandlerRunsOnce'
  <2>1. \A i \in 1 .. call' : ran'[i] <= 1
    BY <1>3, <1>4, <1>7
  <2>2. \A i \in DOMAIN results : i \in 1 .. MaxCalls
    <3>1. Len(results) = call - 1 /\ results \in Seq(ResultType)
      BY <1>1 DEF Inv, ResultsInv, Running
    <3> QED BY <1>4, <3>1
  <2>3. \A i \in 1 .. MaxCalls : ran[i] = 1 => ran'[i] = 1
    BY <1>6, <1>7
  <2>4. \A i \in DOMAIN results :
          /\ results[i].value = SUCCESS /\ results[i].touched \subseteq {i}
          /\ HandlerFor(results[i].passed) # <<>> /\ ~ IsCompletion(results[i].passed)
          => ran[i] = 1
    BY DEF Inv, HandlerRunsOnce
  <2> QED BY <1>3, <2>1, <2>2, <2>3, <2>4 DEF HandlerRunsOnce
<1>13. OptionsInv'
  BY <1>1, <1>2, <1>3 DEF OptionsInv, SameOptions, Inv
<1> QED BY <1>2, <1>5, <1>8, <1>9, <1>10, <1>11, <1>12, <1>13 DEF Inv

-----------------------------------------------------------------------------
(* Preservation: the loop. *)

(* The end of the process keeps the invariant, *)
LEMMA ProcessEndsInv ==
  ASSUME Inv, NEW src \in ready, ProcessEnds(src)
  PROVE  Inv'
<1>1. TypeInv /\ Running /\ call \in 1 .. MaxCalls
  BY DispatchRuns DEF Inv
<1>2. /\ UNCHANGED <<nm_cli, sources, argv, call, frame, signals, stdout_open, results, ran, touched>>
      /\ loop' = "exited" /\ ready' = {}
  BY DEF ProcessEnds, history
<1>3. TypeInv'
  <2>1. \A x \in sources' : WellFormed(x)' /\ x.call <= call'
    BY <1>1, <1>2 DEF TypeInv, WellFormed
  <2> QED BY <1>1, <1>2, <2>1 DEF TypeInv
<1>4. Awaited' = Awaited
  BY <1>2 DEF Awaited
<1>5. WaitInv' /\ RanInv'
  BY <1>2, <1>4 DEF Inv, WaitInv, RanInv
<1>6. OwnInv' /\ HandlerInv' /\ OptionsInv'
  BY <1>2 DEF OwnInv, HandlerInv, OptionsInv, Running
<1>7. ResultsInv' /\ LeavesOnlyItsTimeout' /\ HandlerRunsOnce'
  BY <1>1, <1>2 DEF Inv, ResultsInv, LeavesOnlyItsTimeout, HandlerRunsOnce, Running
<1> QED BY <1>3, <1>5, <1>6, <1>7 DEF Inv

(* ... so does progress_cb(), *)
LEMMA RepeatsInv ==
  ASSUME Inv, NEW src \in ready, Repeats(src), src.kind = "progress_cb"
  PROVE  Inv'
<1>1. TypeInv /\ Running /\ src \in sources /\ call \in 1 .. MaxCalls /\ src.call \in 0 .. call
  BY DispatchRuns DEF Inv
<1>2. /\ UNCHANGED <<nm_cli, loop, sources, argv, call, frame, signals, stdout_open, results, ran>>
      /\ ready' = ready \ {src} /\ touched' = touched \union {src.call}
  BY <1>1 DEF Repeats, Dispatched
<1>3. TypeInv'
  <2>1. \A x \in sources' : WellFormed(x)' /\ x.call <= call'
    BY <1>1, <1>2 DEF TypeInv, WellFormed
  <2> QED BY <1>1, <1>2, <2>1 DEF TypeInv, Running
<1>4. Awaited' = Awaited
  BY <1>2 DEF Awaited
<1>5. WaitInv' /\ RanInv'
  BY <1>2, <1>4 DEF Inv, WaitInv, RanInv
<1>6. Undisturbed' => Undisturbed
  BY <1>2 DEF Undisturbed
<1>7. OwnInv'
  <2> SUFFICES ASSUME Undisturbed' PROVE OwnInv'
    BY DEF OwnInv
  <2>1. \A a \in sources : a.call = call /\ a.kind = "command_done" => a \in ready /\ a # src
    BY <1>1, <1>6 DEF Inv, OwnInv
  <2> QED BY <1>1, <1>2, <1>6, <2>1 DEF Inv, OwnInv
<1>8. HandlerInv' /\ OptionsInv'
  BY <1>1, <1>2, <1>6 DEF Inv, HandlerInv, OptionsInv, Running
<1>9. ResultsInv' /\ LeavesOnlyItsTimeout' /\ HandlerRunsOnce'
  BY <1>1, <1>2 DEF Inv, ResultsInv, LeavesOnlyItsTimeout, HandlerRunsOnce, Running
<1> QED BY <1>3, <1>5, <1>7, <1>8, <1>9 DEF Inv

(* ... an iteration that begins, *)
LEMMA PollInv ==
  ASSUME Inv, Poll
  PROVE  Inv'
<1>1. /\ UNCHANGED <<nm_cli, loop, sources, argv, call, frame, signals, stdout_open, results, ran, touched>>
      /\ loop = "running" /\ ready' \subseteq sources
      /\ {src \in sources : src.kind = "command_done"} \subseteq ready'
  BY DEF Poll, history
<1>2. TypeInv'
  <2>1. \A x \in sources' : WellFormed(x)' /\ x.call <= call'
    BY <1>1 DEF Inv, TypeInv, WellFormed
  <2> QED BY <1>1, <2>1 DEF Inv, TypeInv
<1>3. Awaited' = Awaited
  BY <1>1 DEF Awaited
<1>4. WaitInv' /\ RanInv'
  BY <1>1, <1>3 DEF Inv, WaitInv, RanInv
<1>5. OwnInv'
  BY <1>1 DEF Inv, OwnInv, Running, Undisturbed
<1>6. HandlerInv' /\ OptionsInv'
  BY <1>1 DEF Inv, HandlerInv, OptionsInv, Running, Undisturbed
<1>7. ResultsInv' /\ LeavesOnlyItsTimeout' /\ HandlerRunsOnce'
  BY <1>1 DEF Inv, ResultsInv, LeavesOnlyItsTimeout, HandlerRunsOnce
<1> QED BY <1>2, <1>4, <1>5, <1>6, <1>7 DEF Inv

(* ... and a signal, which belongs to no call. *)
LEMMA SignalInv ==
  ASSUME Inv, NEW kind \in {"SIGINT", "SIGTERM"}, SignalArrives(kind)
  PROVE  Inv'
<1>1. /\ UNCHANGED <<nm_cli, loop, ready, argv, call, frame, stdout_open, results, ran, touched>>
      /\ call > 0 /\ signals' = signals + 1 /\ signals < MaxSignals
      /\ sources' = sources \union {Source(kind, 0)}
  BY DEF SignalArrives, history
<1>2. PICK x : x = Source(kind, 0)
  OBVIOUS
<1>3. WellFormed(x) /\ x.kind = kind /\ x.call = 0
  <2>1. kind \in Kinds /\ 0 \in Nat
    BY DEF Kinds
  <2> QED BY <1>2, <2>1, SourceIn DEF WellFormed
<1>4. sources' = sources \union {x}
  BY <1>1, <1>2
<1>5. TypeInv'
  <2>1. \A y \in sources' : WellFormed(y)' /\ y.call <= call'
    BY <1>1, <1>3, <1>4 DEF Inv, TypeInv, WellFormed
  <2>2. signals' \in 0 .. MaxSignals
    BY <1>1, LibraryAssumption DEF Inv, TypeInv
  <2> QED BY <1>1, <1>4, <2>1, <2>2 DEF Inv, TypeInv
<1>6. Awaited' = Awaited
  BY <1>3, <1>4 DEF Awaited
<1>7. WaitInv' /\ RanInv'
  BY <1>1, <1>6 DEF Inv, WaitInv, RanInv
<1>8. x.call # call
  BY <1>1, <1>3
<1>9. OwnInv'
  BY <1>1, <1>4, <1>8 DEF Inv, OwnInv, Running, Undisturbed
<1>10. HandlerInv' /\ OptionsInv'
  BY <1>1, <1>4 DEF Inv, HandlerInv, OptionsInv, Running, Undisturbed
<1>11. ResultsInv' /\ HandlerRunsOnce'
  BY <1>1 DEF Inv, ResultsInv, HandlerRunsOnce
<1>12. LeavesOnlyItsTimeout'
  BY <1>1, <1>4, <1>8 DEF Inv, LeavesOnlyItsTimeout, Undisturbed
<1> QED BY <1>5, <1>7, <1>9, <1>10, <1>11, <1>12 DEF Inv

(* The elements of a sequence to which one was appended. *)
LEMMA Appended ==
  ASSUME NEW T, NEW s \in Seq(T), NEW r \in T, NEW t, t = Append(s, r)
  PROVE  /\ t \in Seq(T) /\ Len(t) = Len(s) + 1
         /\ \A i \in DOMAIN t : (i \in DOMAIN s /\ t[i] = s[i]) \/ (i = Len(s) + 1 /\ t[i] = r)
<1>1. t \in Seq(T) /\ Len(t) = Len(s) + 1
  BY AppendProperties
<1>2. (\A i \in 1 .. Len(s) : t[i] = s[i]) /\ t[Len(s) + 1] = r
  BY AppendProperties
<1>3. PICK m \in Nat : m = Len(s)
  OBVIOUS
<1>4. DOMAIN t = 1 .. m + 1 /\ DOMAIN s = 1 .. m
  BY <1>1, <1>3
<1>5. ASSUME NEW i \in DOMAIN t
      PROVE  (i \in DOMAIN s /\ t[i] = s[i]) \/ (i = Len(s) + 1 /\ t[i] = r)
  <2>1. i \in 1 .. m \/ i = m + 1
    BY <1>4
  <2>2. CASE i \in 1 .. m
    BY <1>2, <1>3, <1>4, <2>2, Zenon
  <2>3. CASE i = m + 1
    BY <1>2, <1>3, <2>3, Zenon
  <2> QED BY <2>1, <2>2, <2>3
<1> QED BY <1>1, <1>5

(* The end of a call keeps the count and gives a known code. *)
LEMMA ReturnNm ==
  ASSUME nm_cli \in Nm(Int)
  PROVE  /\ ExitCode(nm_cli) \in Codes
         /\ NmcCleanup([nm_cli EXCEPT !.return_value = ExitCode(nm_cli)]) \in Nm(Int)
         /\ NmcCleanup([nm_cli EXCEPT !.return_value = ExitCode(nm_cli)]).should_wait
              = nm_cli.should_wait
         /\ NmcCleanup([nm_cli EXCEPT !.return_value = ExitCode(nm_cli)]).progress_id
              = nm_cli.progress_id
<1>1. PICK x \in Codes : x = ExitCode(nm_cli)
  BY CodesAre DEF ExitCode, Nm
<1>2. PICK b : b = [nm_cli EXCEPT !.return_value = x]
  OBVIOUS
<1>3. /\ b \in Nm(Int) /\ b.should_wait = nm_cli.should_wait
      /\ b.progress_id = nm_cli.progress_id
  BY <1>2 DEF Nm
<1>4. PICK e \in Texts : e = NoValue
  BY DEF Texts
<1>5. PICK r : r = [b EXCEPT !.client = FALSE, !.required_fields = e, !.pager = FALSE]
  OBVIOUS
<1>6. r \in Nm(Int) /\ r.should_wait = b.should_wait /\ r.progress_id = b.progress_id
  BY <1>3, <1>5 DEF Nm
<1>7. NmcCleanup(b) = r
  BY <1>4, <1>5 DEF NmcCleanup
<1> QED BY <1>1, <1>2, <1>3, <1>6, <1>7

(* What the current call leaves when its loop has ended. *)
LEMMA ReturnLeaves ==
  ASSUME Inv, loop = "quit", ready = {}, Undisturbed,
         NEW a \in sources, a.call = call
  PROVE  \/ a.kind \in {"timeout_cb", "general_timeout_cb", "print_permissions"} \union Subscriptions
         \/ a = Progress(call, 0) /\ a.kind = "progress_cb" /\ nm_cli.progress_id # a.p
<1>1. /\ a.kind # "command_done" /\ a.kind \notin Pending
      /\ a.kind = "progress_cb" => a = Progress(call, 0) /\ nm_cli.progress_id # a.p
  BY DEF Inv, OwnInv, Running
<1>2. a.kind \in Kinds /\ a.kind \notin {"SIGINT", "SIGTERM"}
  BY DEF Inv, TypeInv, WellFormed, SourceType
<1> QED BY <1>1, <1>2 DEF Kinds, Pending, Replies, DisconnectKinds, Subscriptions

(* The end of a call keeps the invariant: an undisturbed call that         *)
(* succeeds has run its handler.                                           *)
LEMMA ReturnInv ==
  ASSUME Inv, Return
  PROVE  Inv'
<1>1. /\ loop = "quit" /\ ready = {} /\ loop' = "none"
      /\ UNCHANGED <<ready, argv, call, frame, signals, ran, touched>>
      /\ sources' = {src \in sources : src.kind \notin Subscriptions}
      /\ TypeInv
  BY DEF Return, Inv
<1>2. /\ nm_cli' \in Nm(Int) /\ nm_cli'.should_wait = nm_cli.should_wait
      /\ nm_cli'.progress_id = nm_cli.progress_id
      /\ ExitCode(nm_cli) \in Codes
  BY <1>1, ReturnNm DEF Return, TypeInv
<1>3. TypeInv'
  <2>1. \A y \in sources' : WellFormed(y)' /\ y.call <= call'
    BY <1>1 DEF TypeInv, WellFormed
  <2>2. stdout_open' \in BOOLEAN
    BY Zenon DEF Return
  <2> QED BY <1>1, <1>2, <2>1, <2>2 DEF TypeInv
<1>4. Awaited' = Awaited
  BY <1>1 DEF Awaited, Subscriptions
<1>5. WaitInv' /\ RanInv'
  BY <1>1, <1>2, <1>4 DEF Inv, WaitInv, RanInv
<1>6. OwnInv' /\ HandlerInv' /\ OptionsInv'
  BY <1>1 DEF OwnInv, HandlerInv, OptionsInv, Running
<1>7. LeavesOnlyItsTimeout'
  BY <1>1, <1>2, ReturnLeaves DEF LeavesOnlyItsTimeout, Undisturbed
<1>8. call \in Nat /\ results \in Seq(ResultType) /\ Len(results) = call - 1
  BY <1>1 DEF Inv, TypeInv, ResultsInv
<1>9. PICK v \in Codes \union {ERROR_BUFFER_TOO_SMALL} :
         /\ v = SUCCESS => ExitCode(nm_cli) = SUCCESS
         /\ results' = Append(results, Result(v))
  BY <1>2, CodesNotSuccess DEF Return
<1>10. PICK r : r = Result(v)
  OBVIOUS
<1>11. r.value = v /\ r.passed = frame.passed /\ r.touched = touched /\ r \in ResultType
  <2>1. touched \subseteq Nat /\ frame \in Entry
    BY <1>1, <1>8 DEF TypeInv
  <2> QED BY <1>9, <1>10, <2>1 DEF Result, ResultType, Entry
<1>12. /\ results' \in Seq(ResultType) /\ Len(results') = call
       /\ \A i \in DOMAIN results' : (i \in DOMAIN results /\ results'[i] = results[i]) \/ (i = call /\ results'[i] = r)
  <2>1. results' = Append(results, r)
    BY <1>9, <1>10
  <2> QED BY <1>8, <1>11, <2>1, Appended
<1>13. ResultsInv'
  BY <1>1, <1>12 DEF ResultsInv
<1>14. ASSUME r.value = SUCCESS, r.touched \subseteq {call}, HandlerFor(r.passed) # <<>>,
              ~ IsCompletion(r.passed)
       PROVE  ran[call] = 1
  <2>1. ~ nm_cli.complete
    BY <1>1, <1>11, <1>14 DEF Inv, OptionsInv, SameOptions, IsCompletion, Running
  <2>2. nm_cli.return_value = SUCCESS
    BY <1>9, <1>11, <1>14, <2>1 DEF ExitCode
  <2>3. Undisturbed
    BY <1>11, <1>14 DEF Undisturbed
  <2>4. \A a \in sources : a.call = call => a.kind # "got_client"
    BY <1>1, <2>3, ReturnLeaves DEF Subscriptions
  <2> QED BY <1>1, <1>11, <1>14, <2>2, <2>3, <2>4 DEF Inv, HandlerInv, Running
<1>15. HandlerRunsOnce'
  <2>1. \A i \in 1 .. call' : ran'[i] <= 1
    BY <1>1 DEF Inv, HandlerRunsOnce
  <2>2. ASSUME NEW i \in DOMAIN results', results'[i].value = SUCCESS, results'[i].touched \subseteq {i},
               HandlerFor(results'[i].passed) # <<>>, ~ IsCompletion(results'[i].passed)
        PROVE  ran'[i] = 1
    <3>1. CASE i \in DOMAIN results /\ results'[i] = results[i]
      BY <1>1, <2>2, <3>1 DEF Inv, HandlerRunsOnce
    <3>2. CASE i = call /\ results'[i] = r
      BY <1>1, <1>14, <2>2, <3>2
    <3> QED BY <1>12, <3>1, <3>2
  <2> QED BY <2>1, <2>2 DEF HandlerRunsOnce
<1> QED BY <1>3, <1>5, <1>6, <1>7, <1>13, <1>15 DEF Inv

-----------------------------------------------------------------------------
(* Preservation: a call begins. *)

(* The parse in a program that has just started. *)
Fresh(words) == ProcessCommandLine(InitialNmCli, words, Terminal)

(* What a call has done when its loop begins, with the global nm and the   *)
(* sources new.                                                            *)
Started(words, nm, new) ==
  /\ nm_cli' = nm /\ sources' = sources \union new
  /\ argv' = Fresh(words).argv /\ argv' \in Seq(Words)
  /\ loop' \in {"running", "quit"}
  /\ loop' = "quit" => new = {}
  /\ nm \in Nm(Int) /\ SameOptions(nm, Fresh(words).nm)
  /\ \A x \in new : /\ WellFormed(x) /\ x.call = call + 1
                    /\ x.kind \in {"command_done", "got_client"}
                    /\ x.kind = "got_client" => x.handler = HandlerFor(words)
  /\ \/ /\ ran' = ran /\ nm.should_wait = 1
        /\ \E x \in new : /\ x.kind = "got_client"
                          /\ \A y \in new : y.kind = "got_client" => y = x
     \/ /\ \A x \in new : x.kind # "got_client"
        /\ nm.should_wait = 0
        /\ \/ ran' = ran /\ HandlerFor(words) = <<>>
           \/ ran' = [ran EXCEPT ![call + 1] = @ + 1]

(* A parse with a count of zero is a parse. *)
LEMMA ParseWider ==
  ASSUME NEW n \in Nat, NEW s \in Parse(n, {0})
  PROVE  s \in Parse(n, Int) /\ s.nm \in Nm({0}) /\ s.nm \in Nm(Int) /\ s.nm.should_wait = 0
<1>1. s.nm \in Nm({0})
  BY DEF Parse
<1>2. s.nm \in Nm(Int) /\ s.nm.should_wait = 0
  BY <1>1 DEF Nm
<1> QED BY <1>1, <1>2 DEF Parse

(* nmc_do_cmd() keeps the options and the count. *)
LEMMA DispatchKeeps ==
  ASSUME NEW n \in Nat, NEW s \in Parse(n, {0}), NEW c
  PROVE  /\ DispatchCommand(s, c).s \in Parse(n, {0})
         /\ SameOptions(DispatchCommand(s, c).s.nm, s.nm)
<1>1. DispatchCommand(s, c).s \in Parse(n, {0})
  BY DispatchIn
<1>2. DispatchCommand(s, c).s \in {s, NextArg(s)}
  BY DEF DispatchCommand
<1>3. s \in Parse(n, Int)
  BY ParseWider
<1>4. SameOptions(NextArg(s).nm, s.nm)
  BY <1>3, KeepsNext DEF Keeps
<1>5. SameOptions(s.nm, s.nm)
  BY DEF SameOptions
<1> QED BY <1>1, <1>2, <1>4, <1>5

(* The tasks of a call are well-formed sources of it. *)
LEMMA TasksWell ==
  ASSUME NEW n \in Nat, NEW W, NEW s \in Parse(n, W), NEW c \in Nat,
         NEW x \in DispatchCommand(s, c).tasks \union {Task("inner", c, SUCCESS)}
  PROVE  WellFormed(x) /\ x.call = c /\ x.kind = "command_done"
<1>1. PICK l \in {"outer", "inner"}, code \in {SUCCESS, ERROR_USER_INPUT} : x = Task(l, c, code)
  BY DispatchIn
<1>2. code \in Codes
  BY CodesAre
<1> QED BY <1>1, <1>2, TaskIn DEF WellFormed

(* The parse of a call agrees with that of a program that has just         *)
(* started.                                                                *)
LEMMA EntryParse ==
  ASSUME TypeInv, NEW words \in Seq(Words), NEW x \in BOOLEAN, NEW n, n = Len(words)
  PROVE  /\ n \in Nat
         /\ Both(n, {0}, Fresh(words), ProcessCommandLine(Reinitialize(nm_cli), words, x))
<1>1. n \in Nat /\ words \in [1 .. n -> Words]
  OBVIOUS
<1>2. PICK a, b : a = InitialNmCli /\ b = Reinitialize(nm_cli)
  OBVIOUS
<1>3. a \in Nm({0}) /\ b \in Nm({0}) /\ AgreeNm(a, b)
  BY <1>2, InitialNm, ReinitializeFresh DEF TypeInv
<1>4. Terminal \in BOOLEAN
  BY LibraryAssumption
<1>5. Both(n, {0}, ProcessCommandLine(a, words, Terminal), ProcessCommandLine(b, words, x))
  BY <1>1, <1>3, <1>4, ProcessBoth
<1> QED BY <1>1, <1>2, <1>5 DEF Fresh

(* call_cmd() waits for the client, or runs a handler that needs none. *)
LEMMA CallCmdOutcome ==
  ASSUME NEW n \in Nat, NEW s \in Parse(n, {0}), NEW h \in Handlers, NEW c \in Nat,
         NEW o \in CallCmd(h, s, c)
  PROVE  \/ /\ NeedsClient(h) /\ Keeps(o.nm, s.nm, 1) /\ o.new = {CmdCall(h, c, s)}
         \/ /\ ~ NeedsClient(h) /\ Keeps(o.nm, s.nm, 0)
            /\ o.new = {Task("inner", c, SUCCESS)}
<1>1. s \in Parse(n, Int) /\ s.nm \in Nm(Int)
  BY ParseWider
<1>2. CASE NeedsClient(h)
  <2>1. PICK b : b = [s.nm EXCEPT !.should_wait = @ + 1]
    OBVIOUS
  <2>2. Keeps(b, s.nm, 1)
    BY <1>1, <2>1, KeepsMore
  <2>3. o = Outcome(b, {CmdCall(h, c, s)}, FALSE)
    BY <1>2, <2>1 DEF CallCmd
  <2> QED BY <1>2, <2>2, <2>3 DEF Outcome
<1>3. CASE ~ NeedsClient(h)
  <2>1. PICK r \in RunHandler(h, s.nm, s.argv, s.p, c) :
           o = [r EXCEPT !.new = @ \union {Task("inner", c, SUCCESS)}]
    BY <1>3 DEF CallCmd
  <2>2. s.argv \in Seq(Words) /\ s.p \in 1 .. Len(s.argv) + 1
    <3>1. s.argv \in [1 .. n -> Words] /\ s.p \in 1 .. n + 1
      BY DEF Parse
    <3> QED BY <3>1
  <2>3. Effect(s.nm, h, c, r)
    BY <1>1, <2>2, HandlerEffect
  <2>4. h = <<"general", "reload">>
    BY <1>3 DEF NeedsClient
  <2>5. Keeps(r.nm, s.nm, 0) /\ r.new = {}
    BY <2>3, <2>4 DEF Effect, Adds
  <2>6. o.nm = r.nm /\ o.new = r.new \union {Task("inner", c, SUCCESS)}
    <3>1. \E nm, new, quit : r = [nm |-> nm, new |-> new, quit |-> quit]
      <4>1. PICK t : t = NextArg(ParseAt(s.nm, s.argv, s.p))
        OBVIOUS
      <4>2. r = Outcome(t.nm, {}, FALSE) \/ r \in DoGeneralReload(t)
        BY <2>1, <2>4, <4>1 DEF RunHandler
      <4>3. (\E nm : r = Outcome(nm, {}, FALSE)) \/ (\E nm, x : r = Returns(nm, x))
        BY <4>2 DEF DoGeneralReload
      <4>4. \E nm : r = Outcome(nm, {}, FALSE)
        BY <4>3 DEF Returns
      <4> QED BY <4>4 DEF Outcome
    <3> QED BY <2>1, <3>1
  <2> QED BY <1>3, <2>5, <2>6
<1> QED BY <1>2, <1>3

(* nmcli_execute() up to the loop does what Started says. *)
LEMMA ExecuteStarts ==
  ASSUME TypeInv, RanInv, call < MaxCalls, NEW entry \in Entries, NEW words \in Seq(Words),
         Execute(entry, words)
  PROVE  \E nm, new : Started(words, nm, new)
<1>1. PICK c \in Nat : c = call + 1
  BY DEF TypeInv
<1>2. PICK x \in BOOLEAN : x = IsTerminal(entry)
  BY LibraryAssumption DEF IsTerminal
<1>3. PICK s : s = ProcessCommandLine(Reinitialize(nm_cli), words, x)
  OBVIOUS
<1>4. PICK n \in Nat : n = Len(words)
  OBVIOUS
<1>5. Both(n, {0}, Fresh(words), s)
  BY <1>3, <1>4, EntryParse
<1>6. /\ s \in Parse(n, {0}) /\ SameOptions(s.nm, Fresh(words).nm)
      /\ s.argv = Fresh(words).argv /\ s.status = Fresh(words).status
  <2>1. s \in Parse(n, {0}) /\ AgreeNm(Fresh(words).nm, s.nm)
    BY <1>5 DEF Both, Agree
  <2>2. SameOptions(s.nm, Fresh(words).nm)
    BY <2>1 DEF AgreeNm, SameOptions
  <2> QED BY <1>5, <2>1, <2>2 DEF Both, Agree
<1>7. s.argv \in Seq(Words) /\ s.nm \in Nm(Int) /\ s.nm.should_wait = 0
  <2>1. s.argv \in [1 .. n -> Words]
    BY <1>6 DEF Parse
  <2> QED BY <1>6, <2>1, ParseWider
<1>8. PICK d : d = DispatchCommand(s, c)
  OBVIOUS
<1>9. /\ argv' = s.argv
      /\ IF s.status = "stop"
         THEN nm_cli' = s.nm /\ loop' = "quit" /\ UNCHANGED <<sources, ran>>
         ELSE /\ loop' = "running"
              /\ IF d.handler = <<>>
                 THEN nm_cli' = d.s.nm /\ sources' = sources \union d.tasks /\ UNCHANGED ran
                 ELSE \E o \in CallCmd(d.handler, d.s, c) :
                        /\ nm_cli' = o.nm
                        /\ sources' = sources \union d.tasks \union o.new
                        /\ ran' = [ran EXCEPT ![c] = IF NeedsClient(d.handler) THEN @ ELSE @ + 1]
  BY <1>1, <1>2, <1>3, <1>8 DEF Execute
<1>10. CASE s.status = "stop"
  <2>1. HandlerFor(words) = <<>>
    BY <1>6, <1>10 DEF HandlerFor, Fresh
  <2>2. /\ nm_cli' = s.nm /\ loop' = "quit" /\ ran' = ran
        /\ sources' = sources \union {}
    BY <1>9, <1>10
  <2>3. Started(words, s.nm, {})
    BY <1>6, <1>7, <1>9, <2>1, <2>2 DEF Started
  <2> QED BY <2>3
<1>11. CASE s.status # "stop"
  <2>1. d.handler = HandlerFor(words)
    <3>1. DispatchCommand(Fresh(words), 1).handler = d.handler
      BY <1>5, <1>8, DispatchAgree
    <3> QED BY <1>6, <1>11, <3>1 DEF HandlerFor, Fresh
  <2>2. d.s \in Parse(n, {0}) /\ SameOptions(d.s.nm, s.nm)
    BY <1>6, <1>8, DispatchKeeps
  <2>3. /\ d.s.nm \in Nm(Int) /\ d.s.nm.should_wait = 0
        /\ SameOptions(d.s.nm, Fresh(words).nm)
    BY <1>6, <2>2, ParseWider DEF SameOptions
  <2>4. d.handler \in Handlers \union {<<>>}
    BY <1>6, <1>8, DispatchIn
  <2>5. \A y \in d.tasks \union {Task("inner", c, SUCCESS)} :
           WellFormed(y) /\ y.call = c /\ y.kind = "command_done"
    BY <1>6, <1>8, TasksWell
  <2>6. CASE d.handler = <<>>
    <3>1. nm_cli' = d.s.nm /\ loop' = "running" /\ ran' = ran /\ sources' = sources \union d.tasks
      BY <1>9, <1>11, <2>6
    <3>2. Started(words, d.s.nm, d.tasks)
      BY <1>1, <1>6, <1>7, <1>9, <2>1, <2>3, <2>5, <2>6, <3>1 DEF Started
    <3> QED BY <3>2
  <2>7. CASE d.handler # <<>>
    <3>1. PICK o \in CallCmd(d.handler, d.s, c) :
             /\ nm_cli' = o.nm /\ loop' = "running"
             /\ sources' = sources \union d.tasks \union o.new
             /\ ran' = [ran EXCEPT ![c] = IF NeedsClient(d.handler) THEN @ ELSE @ + 1]
      BY <1>9, <1>11, <2>7
    <3>2. PICK new : new = d.tasks \union o.new
      OBVIOUS
    <3>3. sources' = sources \union new
      BY <3>1, <3>2
    <3>4. d.handler \in Handlers
      BY <2>4, <2>7
    <3>5. CASE NeedsClient(d.handler) /\ Keeps(o.nm, d.s.nm, 1) /\ o.new = {CmdCall(d.handler, c, d.s)}
      <4>1. PICK y : y = CmdCall(d.handler, c, d.s)
        OBVIOUS
      <4>2. WellFormed(y) /\ y.call = c /\ y.kind = "got_client" /\ y.handler = d.handler
        <5>1. /\ y \in SourceType /\ y.kind = "got_client" /\ y.call = c /\ y.handler = d.handler
              /\ y.p \in 1 .. Len(y.argv) + 1
          BY <2>2, <3>4, <4>1, CmdCallIn
        <5>2. c > 0
          BY <1>1 DEF TypeInv
        <5> QED BY <3>4, <5>1, <5>2 DEF WellFormed
      <4>3. new = d.tasks \union {y}
        BY <3>2, <3>5, <4>1
      <4>4. ran' = ran
        BY <1>1, <3>1, <3>5, LibraryAssumption DEF TypeInv, RanInv
      <4>5. o.nm \in Nm(Int) /\ SameOptions(o.nm, Fresh(words).nm) /\ o.nm.should_wait = 1
        BY <2>3, <3>5 DEF Keeps, SameOptions
      <4>6. \A z \in new : /\ WellFormed(z) /\ z.call = call + 1
                           /\ z.kind \in {"command_done", "got_client"}
                           /\ z.kind = "got_client" => z = y
        BY <1>1, <2>5, <4>2, <4>3
      <4>7. Started(words, o.nm, new)
        BY <1>6, <1>7, <1>9, <2>1, <3>1, <3>3, <4>2, <4>3, <4>4, <4>5, <4>6 DEF Started
      <4> QED BY <4>7
    <3>6. CASE ~ NeedsClient(d.handler) /\ Keeps(o.nm, d.s.nm, 0) /\ o.new = {Task("inner", c, SUCCESS)}
      <4>1. \A z \in new : WellFormed(z) /\ z.call = call + 1 /\ z.kind = "command_done"
        BY <1>1, <2>5, <3>2, <3>6
      <4>2. ran' = [ran EXCEPT ![call + 1] = @ + 1]
        BY <1>1, <3>1, <3>6
      <4>3. o.nm \in Nm(Int) /\ SameOptions(o.nm, Fresh(words).nm) /\ o.nm.should_wait = 0
        BY <2>3, <3>6 DEF Keeps, SameOptions
      <4>4. Started(words, o.nm, new)
        BY <1>6, <1>7, <1>9, <3>1, <3>3, <4>1, <4>2, <4>3 DEF Started
      <4> QED BY <4>4
    <3> QED BY <1>1, <2>2, <3>4, <3>5, <3>6, CallCmdOutcome
  <2> QED BY <2>6, <2>7
<1> QED BY <1>10, <1>11

(* What a call finds: nothing of its own, and no loop. *)
LEMMA EnterFinds ==
  ASSUME Inv, loop = "none", call < MaxCalls
  PROVE  /\ call \in Nat /\ call + 1 \in 1 .. MaxCalls /\ MaxCalls \in Nat
         /\ ready = {} /\ \A x \in sources : x.call \in Nat /\ x.call <= call
         /\ ran \in [1 .. MaxCalls -> 0 .. 1] /\ ran[call + 1] = 0
         /\ IsFiniteSet(Awaited) /\ Cardinality(Awaited) \in Nat /\ Cardinality(Awaited) <= call
         /\ results \in Seq(ResultType) /\ Len(results) = call
<1>1. call \in Nat /\ call + 1 \in 1 .. MaxCalls /\ MaxCalls \in Nat
  BY LibraryAssumption DEF Inv, TypeInv
<1>2. ready = {} /\ \A x \in sources : x.call \in Nat /\ x.call <= call
  BY DEF Inv, TypeInv, WellFormed, SourceType
<1>3. ran \in [1 .. MaxCalls -> 0 .. 1] /\ ran[call + 1] = 0
  BY <1>1 DEF Inv, RanInv
<1>4. IsFiniteSet(Awaited) /\ Cardinality(Awaited) \in Nat /\ Cardinality(Awaited) <= call
  BY FS_CardinalityType DEF Inv, WaitInv
<1>5. results \in Seq(ResultType) /\ Len(results) = call
  BY DEF Inv, ResultsInv
<1> QED BY <1>1, <1>2, <1>3, <1>4, <1>5

(* A call that has begun keeps the invariant, *)
LEMMA StartedInv ==
  ASSUME Inv, loop = "none", call < MaxCalls, call' = call + 1, touched' = {},
         UNCHANGED <<ready, signals, stdout_open, results>>,
         NEW entry \in Entries, NEW words \in Seq(Words),
         frame' = [entry |-> entry, passed |-> words],
         NEW nm, NEW new, Started(words, nm, new)
  PROVE  Inv'
<1>1. /\ call \in Nat /\ call + 1 \in 1 .. MaxCalls /\ MaxCalls \in Nat
      /\ ready = {} /\ \A x \in sources : x.call \in Nat /\ x.call <= call
      /\ ran \in [1 .. MaxCalls -> 0 .. 1] /\ ran[call + 1] = 0
      /\ IsFiniteSet(Awaited) /\ Cardinality(Awaited) \in Nat /\ Cardinality(Awaited) <= call
      /\ results \in Seq(ResultType) /\ Len(results) = call
  BY EnterFinds
<1>2. /\ nm_cli' = nm /\ sources' = sources \union new /\ argv' \in Seq(Words)
      /\ loop' \in {"running", "quit"} /\ (loop' = "quit" => new = {})
      /\ nm \in Nm(Int) /\ SameOptions(nm, Fresh(words).nm)
      /\ \A x \in new : /\ WellFormed(x) /\ x.call = call + 1
                        /\ x.kind \in {"command_done", "got_client"}
  BY DEF Started
<1>3. frame' \in Entry /\ frame'.passed = words
  BY DEF Entry
<1>4. \A x \in sources' : x.call = call' => x \in new
  BY <1>1, <1>2
<1>5. TypeInv'
  <2>1. \A y \in sources' : WellFormed(y)' /\ y.call <= call'
    BY <1>1, <1>2 DEF Inv, TypeInv, WellFormed
  <2>2. ready' \subseteq sources' /\ (loop' \in {"none", "exited"} => ready' = {})
    BY <1>1
  <2>3. call' \in 0 .. MaxCalls /\ call' > 0
    BY <1>1
  <2> QED BY <1>2, <1>3, <2>1, <2>2, <2>3 DEF Inv, TypeInv
<1>6. ASSUME ran' = ran, nm.should_wait = 1,
             \E x \in new : /\ x.kind = "got_client"
                           /\ \A y \in new : y.kind = "got_client" => y = x
      PROVE  WaitInv' /\ RanInv' /\ OwnInv' /\ HandlerInv' /\ \A i \in 1 .. call : ran'[i] = ran[i]
  <2>1. PICK x \in new : /\ x.kind = "got_client" /\ x.call = call + 1
                         /\ \A y \in new : y.kind = "got_client" => y = x
    BY <1>2, <1>6
  <2>2. x \notin Awaited
    BY <1>1, <2>1 DEF Awaited
  <2>3. Awaited' = Awaited \union {x}
    BY <1>2, <2>1 DEF Awaited
  <2>4. WaitInv'
    <3>1. IsFiniteSet(Awaited \union {x}) /\ Cardinality(Awaited \union {x}) = Cardinality(Awaited) + 1
      BY <1>1, <2>2, FS_AddElement
    <3> QED BY <1>1, <1>2, <1>6, <2>3, <3>1 DEF WaitInv
  <2>5. RanInv'
    <3>1. \A i \in 1 .. MaxCalls : i > call' => ran'[i] = 0
      BY <1>1, <1>6 DEF Inv, RanInv
    <3>2. \A a \in Awaited' : ran'[a.call] = 0
      BY <1>1, <1>6, <2>1, <2>3 DEF Inv, RanInv
    <3>3. \A a \in Awaited : a.call <= call
      BY <1>1 DEF Awaited
    <3>4. \A a, b \in Awaited' : a.call = b.call => a = b
      BY <1>1, <2>1, <2>3, <3>3 DEF Inv, RanInv
    <3> QED BY <1>1, <1>6, <3>1, <3>2, <3>4 DEF RanInv
  <2>6. OwnInv'
    <3>1. loop' = "running" /\ ready' = {} /\ nm_cli'.should_wait >= 1
      BY <1>1, <1>2, <1>6, <2>1
    <3>2. \A a \in sources' : a.call = call' => a.kind = "command_done" \/ a = x
      BY <1>2, <1>4, <2>1
    <3> QED BY <2>1, <3>1, <3>2 DEF OwnInv, Pending, Replies, DisconnectKinds, ConnectKinds
  <2>7. HandlerInv'
    BY <1>2, <2>1 DEF HandlerInv
  <2>8. ran' \in [1 .. MaxCalls -> 0 .. 1] /\ \A i \in 1 .. call : ran'[i] = ran[i]
    BY <1>1, <1>6
  <2> QED BY <2>4, <2>5, <2>6, <2>7, <2>8
<1>7. ASSUME \A x \in new : x.kind # "got_client", nm.should_wait = 0,
             \/ ran' = ran /\ HandlerFor(words) = <<>>
             \/ ran' = [ran EXCEPT ![call + 1] = @ + 1]
      PROVE  WaitInv' /\ RanInv' /\ OwnInv' /\ HandlerInv' /\ \A i \in 1 .. call : ran'[i] = ran[i]
  <2>1. Awaited' = Awaited
    BY <1>2, <1>7 DEF Awaited
  <2>2. WaitInv'
    BY <1>1, <1>2, <1>7, <2>1 DEF WaitInv
  <2>3. /\ ran' \in [1 .. MaxCalls -> 0 .. 1]
        /\ \A i \in 1 .. MaxCalls : i # call + 1 => ran'[i] = ran[i]
        /\ HandlerFor(words) # <<>> => ran'[call + 1] = 1
    <3>1. CASE ran' = ran /\ HandlerFor(words) = <<>>
      BY <1>1, <3>1
    <3>2. CASE ran' = [ran EXCEPT ![call + 1] = @ + 1]
      <4>1. PICK c \in 1 .. MaxCalls : c = call + 1
        BY <1>1
      <4>2. ran' = [ran EXCEPT ![c] = 1] /\ ran \in [1 .. MaxCalls -> 0 .. 1]
        BY <1>1, <3>2, <4>1
      <4>3. ran' \in [1 .. MaxCalls -> 0 .. 1]
        BY <4>1, <4>2
      <4>4. ran'[c] = 1 /\ \A i \in 1 .. MaxCalls : i # c => ran'[i] = ran[i]
        BY <4>1, <4>2
      <4> QED BY <4>1, <4>3, <4>4
    <3> QED BY <1>7, <3>1, <3>2
  <2>4. RanInv'
    <3>1. \A i \in 1 .. MaxCalls : i > call' => ran'[i] = 0
      BY <1>1, <2>3 DEF Inv, RanInv
    <3>2. \A a \in Awaited : a.call \in 1 .. MaxCalls /\ a.call # call + 1
      BY <1>1 DEF Inv, TypeInv, WellFormed, Awaited
    <3>3. \A a \in Awaited' : ran'[a.call] = 0
      BY <2>1, <2>3, <3>2 DEF Inv, RanInv
    <3>4. \A a, b \in Awaited' : a.call = b.call => a = b
      BY <2>1 DEF Inv, RanInv
    <3> QED BY <2>3, <3>1, <3>3, <3>4 DEF RanInv
  <2>5. OwnInv'
    <3>1. \A a \in sources' : a.call = call' => a.kind = "command_done" /\ loop' = "running"
      BY <1>2, <1>4, <1>7
    <3>2. ready' = {}
      BY <1>1
    <3> QED BY <3>1, <3>2 DEF OwnInv, Pending, Replies, DisconnectKinds
  <2>6. HandlerInv'
    BY <1>3, <2>3 DEF HandlerInv
  <2>7. \A i \in 1 .. call : ran'[i] = ran[i]
    BY <1>1, <2>3
  <2> QED BY <2>2, <2>3, <2>4, <2>5, <2>6, <2>7
<1>8. WaitInv' /\ RanInv' /\ OwnInv' /\ HandlerInv' /\ \A i \in 1 .. call : ran'[i] = ran[i]
  BY <1>6, <1>7 DEF Started
<1>9. ResultsInv' /\ LeavesOnlyItsTimeout'
  <2>1. loop' # "none"
    BY <1>2
  <2> QED BY <1>1, <2>1 DEF ResultsInv, LeavesOnlyItsTimeout
<1>10. HandlerRunsOnce'
  <2>1. \A i \in 1 .. call' : ran'[i] <= 1
    BY <1>1, <1>8 DEF RanInv
  <2>2. \A i \in DOMAIN results : i \in 1 .. call
    BY <1>1
  <2> QED BY <1>8, <2>1, <2>2 DEF HandlerRunsOnce, Inv
<1>11. OptionsInv'
  BY <1>2, <1>3 DEF OptionsInv, Fresh
<1> QED BY <1>5, <1>8, <1>9, <1>10, <1>11 DEF Inv

(* ... so does one that cannot create its files, *)
LEMMA OpenFailsInv ==
  ASSUME Inv, loop = "none", call < MaxCalls, call' = call + 1, touched' = {},
         UNCHANGED <<ready, signals, stdout_open>>,
         NEW entry \in Entries, NEW words \in Seq(Words),
         frame' = [entry |-> entry, passed |-> words],
         OpenFails(words)
  PROVE  Inv'
<1>1. /\ call \in Nat /\ call + 1 \in 1 .. MaxCalls /\ MaxCalls \in Nat
      /\ ready = {} /\ \A x \in sources : x.call \in Nat /\ x.call <= call
      /\ ran \in [1 .. MaxCalls -> 0 .. 1] /\ ran[call + 1] = 0
      /\ IsFiniteSet(Awaited) /\ Cardinality(Awaited) \in Nat /\ Cardinality(Awaited) <= call
      /\ results \in Seq(ResultType) /\ Len(results) = call
  BY EnterFinds
<1>2. UNCHANGED <<loop, sources, ran>> /\ argv' = words
  BY DEF OpenFails
<1>3. nm_cli' \in Nm(Int) /\ nm_cli'.should_wait = 0
  <2>1. nm_cli' \in Nm({0})
    BY ReinitializeFresh DEF OpenFails, Inv, TypeInv
  <2> QED BY <2>1 DEF Nm
<1>4. frame' \in Entry
  BY DEF Entry
<1>5. TypeInv'
  <2>1. \A y \in sources' : WellFormed(y)' /\ y.call <= call'
    BY <1>1, <1>2 DEF Inv, TypeInv, WellFormed
  <2>2. call' \in 0 .. MaxCalls /\ call' > 0
    BY <1>1
  <2> QED BY <1>1, <1>2, <1>3, <1>4, <2>1, <2>2 DEF Inv, TypeInv
<1>6. Awaited' = Awaited
  BY <1>2 DEF Awaited
<1>7. WaitInv'
  BY <1>1, <1>3, <1>6 DEF WaitInv
<1>8. RanInv'
  <2>1. \A i \in 1 .. MaxCalls : i > call' => ran'[i] = 0
    BY <1>1, <1>2 DEF Inv, RanInv
  <2> QED BY <1>2, <1>6, <2>1 DEF Inv, RanInv
<1>9. OwnInv' /\ HandlerInv' /\ OptionsInv'
  BY <1>2 DEF OwnInv, HandlerInv, OptionsInv, Running
<1>10. LeavesOnlyItsTimeout'
  <2>1. \A x \in sources' : x.call # call'
    BY <1>1, <1>2
  <2> QED BY <2>1 DEF LeavesOnlyItsTimeout
<1>11. PICK r : r = [entry |-> "nmcli_execute_with_output", passed |-> words,
                     value |-> ERROR_UNKNOWN, touched |-> {}]
  OBVIOUS
<1>12. r \in ResultType /\ r.value # SUCCESS
  BY <1>11, CodesAre, CodesNotSuccess DEF ResultType, Entries
<1>13. /\ results' \in Seq(ResultType) /\ Len(results') = call + 1
       /\ \A i \in DOMAIN results' :
            (i \in DOMAIN results /\ results'[i] = results[i]) \/ (i = call + 1 /\ results'[i] = r)
  <2>1. results' = Append(results, r)
    BY <1>11 DEF OpenFails
  <2> QED BY <1>1, <1>12, <2>1, Appended
<1>14. ResultsInv'
  BY <1>2, <1>13 DEF ResultsInv
<1>15. HandlerRunsOnce'
  <2>1. \A i \in 1 .. call' : ran'[i] <= 1
    BY <1>1, <1>2
  <2> QED BY <1>2, <1>12, <1>13, <2>1 DEF HandlerRunsOnce, Inv
<1> QED BY <1>5, <1>7, <1>8, <1>9, <1>10, <1>14, <1>15 DEF Inv

(* ... and so any call. *)
LEMMA EnterInv ==
  ASSUME Inv, NEW entry \in Entries, NEW words \in Seq(Words), Enter(entry, words)
  PROVE  Inv'
<1>1. /\ loop = "none" /\ call < MaxCalls /\ call' = call + 1 /\ touched' = {}
      /\ UNCHANGED <<ready, signals, stdout_open>>
      /\ frame' = [entry |-> entry, passed |-> words]
      /\ Execute(entry, words) \/ OpenFails(words)
  BY DEF Enter
<1>2. CASE OpenFails(words)
  BY <1>1, <1>2, OpenFailsInv
<1>3. CASE Execute(entry, words)
  <2>1. UNCHANGED results
    BY <1>3 DEF Execute
  <2>2. \E nm, new : Started(words, nm, new)
    BY <1>1, <1>3, ExecuteStarts DEF Inv
  <2> QED BY <1>1, <2>1, <2>2, StartedInv
<1> QED BY <1>1, <1>2, <1>3

(* The vectors that the program passes consist of words. *)
LEMMA VectorsAreWords == Vectors \subseteq Seq(Words)
<1>1. ASSUME NEW v \in Vectors
      PROVE  v \in Seq(Words)
  <2>1. PICK R : R = [dash : BOOLEAN, text : STRING, val : STRING]
    OBVIOUS
  <2>2. v \in Seq(R)
    BY <2>1, LibraryAssumption
  <2>3. PICK n \in Nat : n = Len(v)
    BY <2>2
  <2>4. v = [i \in 1 .. n |-> v[i]]
    BY <2>2, <2>3
  <2>5. \A i \in 1 .. n : v[i] \in Words
    BY <2>2, <2>3 DEF Words, Given, Range
  <2>6. v \in [1 .. n -> Words]
    BY <2>4, <2>5
  <2> QED BY <2>6
<1> QED BY <1>1

(* The invariant holds in a program that has just started, *)
LEMMA InitInv ==
  ASSUME Init
  PROVE  Inv
<1>1. nm_cli \in Nm(Int) /\ nm_cli.should_wait = 0
  <2>1. nm_cli \in Nm({0})
    BY InitialNm DEF Init
  <2> QED BY <2>1 DEF Nm
<1>2. TypeInv
  BY <1>1, LibraryAssumption DEF Init, TypeInv, Entry, Entries
<1>3. Awaited = {}
  BY DEF Init, Awaited
<1>4. WaitInv
  <2>1. IsFiniteSet({}) /\ Cardinality({}) = 0
    BY FS_EmptySet
  <2> QED BY <1>1, <1>3, <2>1 DEF WaitInv, Init
<1>5. RanInv
  BY <1>3 DEF RanInv, Init
<1>6. OwnInv /\ HandlerInv /\ OptionsInv
  BY DEF Init, OwnInv, HandlerInv, OptionsInv, Running
<1>7. ResultsInv /\ LeavesOnlyItsTimeout
  BY DEF Init, ResultsInv, LeavesOnlyItsTimeout
<1>8. HandlerRunsOnce
  BY DEF Init, HandlerRunsOnce
<1> QED BY <1>2, <1>4, <1>5, <1>6, <1>7, <1>8 DEF Inv

(* ... is kept by every step, *)
LEMMA NextInv ==
  ASSUME Inv, Next
  PROVE  Inv'
<1>1. TypeInv
  BY DEF Inv
<1>2. ASSUME NEW entry \in Entries, NEW words \in Vectors, Call(entry, words)
      PROVE  Inv'
  BY <1>2, EnterInv, VectorsAreWords DEF Call
<1>3. CASE Retry
  <2>1. "nmcli_execute_with_output" \in Entries /\ argv \in Seq(Words)
    BY <1>1 DEF Entries, TypeInv
  <2> QED BY <1>3, <2>1, EnterInv DEF Retry
<1>4. ASSUME NEW kind \in {"SIGINT", "SIGTERM"}, SignalArrives(kind)
      PROVE  Inv'
  BY <1>4, SignalInv
<1>5. CASE Poll
  BY <1>5, PollInv
<1>6. ASSUME NEW src \in ready, Dispatch(src)
      PROVE  Inv'
  <2>1. CASE GotClient(src)
    <3>1. PICK nm, new, quit : Arrival(src, nm, new, quit)
      BY <1>1, <2>1, GotClientArrival
    <3> QED BY <3>1, ArrivalInv
  <2>2. CASE ProcessEnds(src)
    BY <2>2, ProcessEndsInv
  <2>3. CASE IsCallback(src)
    <3>1. PICK nm, gone, new, quit : Callback(src, nm, gone, new, quit)
      BY <2>3 DEF IsCallback
    <3> QED BY <3>1, CallbackInv
  <2>4. CASE Repeats(src) /\ src.kind = "progress_cb"
    BY <2>4, RepeatsInv
  <2> QED BY <1>1, <1>6, <2>1, <2>2, <2>3, <2>4, DispatchCases
<1>7. CASE Return
  BY <1>7, ReturnInv
<1> QED BY <1>2, <1>3, <1>4, <1>5, <1>6, <1>7 DEF Next, LoopStep

(* ... and by stuttering. *)
LEMMA StutterInv ==
  ASSUME Inv, UNCHANGED vars
  PROVE  Inv'
<1>1. UNCHANGED <<nm_cli, loop, sources, ready, argv, call, frame, signals, stdout_open,
                  results, ran, touched>>
  BY DEF vars
<1>2. TypeInv'
  BY <1>1 DEF Inv, TypeInv, WellFormed
<1>3. Awaited' = Awaited
  BY <1>1 DEF Awaited
<1>4. WaitInv' /\ RanInv'
  BY <1>1, <1>3 DEF Inv, WaitInv, RanInv
<1>5. OwnInv' /\ HandlerInv' /\ OptionsInv'
  BY <1>1 DEF Inv, OwnInv, HandlerInv, OptionsInv, Running, Undisturbed
<1>6. ResultsInv' /\ LeavesOnlyItsTimeout' /\ HandlerRunsOnce'
  BY <1>1 DEF Inv, ResultsInv, LeavesOnlyItsTimeout, HandlerRunsOnce, Undisturbed
<1> QED BY <1>2, <1>4, <1>5, <1>6 DEF Inv

(* The invariant holds always: for any vectors, any number of calls,       *)
(* retries and signals, any order in which replies, timeouts and signals   *)
(* are dispatched, also in the loop of a later call.                       *)
THEOREM Invariance == Spec => []Inv
<1>1. Init => Inv
  BY InitInv
<1>2. Inv /\ [Next]_vars => Inv'
  BY NextInv, StutterInv
<1> QED BY <1>1, <1>2, PTL DEF Spec

(* A call in whose loop nothing foreign was dispatched leaves nothing in   *)
(* the default main context but a timeout_cb(), an idle                    *)
(* print_permissions(), or the progress_cb() of do_device_connect() when   *)
(* add_and_activate_cb() has overwritten progress_id (devices.c:1945): no  *)
(* reply to it is dispatched by the loop of a later call.                  *)
THEOREM LeavesOnlyTimeouts == Spec => []LeavesOnlyItsTimeout
<1>1. Inv => LeavesOnlyItsTimeout
  BY DEF Inv
<1> QED BY <1>1, Invariance, PTL

(* The handler of a call never runs twice, and an undisturbed call that    *)
(* returns NMC_RESULT_SUCCESS has run the handler that its command line    *)
(* asks for (completion apart).                                            *)
THEOREM HandlersRunOnce == Spec => []HandlerRunsOnce
<1>1. Inv => HandlerRunsOnce
  BY DEF Inv
<1> QED BY <1>1, Invariance, PTL

(* OptionsInv is OptionsAreOwn, field by field. *)
LEMMA OptionsInvMeans ==
  ASSUME OptionsInv
  PROVE  OptionsAreOwn
<1>1. ASSUME Running,
             NEW f \in {"print_output", "multiline_output", "mode_specified", "escape_values",
                        "required_fields", "complete"}
      PROVE  nm_cli[f] = Fresh(frame.passed).nm[f]
  <2>1. SameOptions(nm_cli, Fresh(frame.passed).nm)
    BY <1>1 DEF OptionsInv, Fresh
  <2> QED BY <2>1 DEF SameOptions
<1> QED BY <1>1 DEF OptionsAreOwn, Running, Fresh

(* While a call runs, the options in nm_cli are those that its own command *)
(* line gives to a program that has just started: nothing of an earlier    *)
(* call is left in them.                                                   *)
THEOREM OptionsStayOwn == Spec => []OptionsAreOwn
<1>1. Inv => OptionsAreOwn
  BY OptionsInvMeans DEF Inv
<1> QED BY <1>1, Invariance, PTL

(* The invariant implies the type. *)
LEMMA InvType ==
  ASSUME Inv
  PROVE  TypeOK
<1>1. MaxCalls \in Nat /\ call \in 0 .. MaxCalls
  BY LibraryAssumption DEF Inv, TypeInv
<1>2. nm_cli \in Nm(Int)
  BY DEF Inv, TypeInv
<1>3. nm_cli.return_value \in {SUCCESS, ERROR_UNKNOWN, ERROR_USER_INPUT,
       ERROR_TIMEOUT_EXPIRED, ERROR_CON_ACTIVATION, ERROR_DEV_DISCONNECT,
       ERROR_NM_NOT_RUNNING, ERROR_NOT_FOUND, 128 + 2}
  <2>1. TERMINATED_SIGINT = 128 + 2
    BY DEF TERMINATED_SIGINT
  <2>2. nm_cli.return_value \in Codes
    BY <1>2 DEF Nm
  <2> QED BY <2>1, <2>2 DEF Codes
<1>4. nm_cli.should_wait \in -MaxCalls .. MaxCalls + 1
  <2>1. Cardinality(Awaited) \in Nat /\ nm_cli.should_wait \in Int
    BY <1>2, FS_CardinalityType DEF Inv, WaitInv, Nm
  <2> QED BY <1>1, <2>1 DEF Inv, WaitInv
<1>5. nm_cli.print_output \in {"normal", "terse", "pretty"}
  BY <1>2 DEF Nm
<1>6. \A f \in {"client", "nowait_flag", "multiline_output", "mode_specified",
               "escape_values", "ask", "complete", "show_secrets", "overview",
               "use_colors", "pager"} : nm_cli[f] \in BOOLEAN
  BY <1>2 DEF Nm
<1>7. \A v \in Seq(Words) : IsVector(v)
  BY DEF IsVector
<1>8. \A src \in sources :
       /\ src.kind \in Kinds
       /\ src.call \in 0 .. call
       /\ src.handler \in Handlers \union {<<>>}
       /\ IsVector(src.argv)
  BY <1>1, <1>7 DEF Inv, TypeInv, WellFormed, SourceType
<1>9. IsVector(argv) /\ IsVector(frame.passed)
  BY <1>7 DEF Inv, TypeInv, Entry
<1>10. Len(results) \in {call, call - 1}
  BY DEF Inv, ResultsInv
<1>11. nm_cli.progress_id \in Nat
  BY <1>2 DEF Nm
<1> QED BY <1>3, <1>4, <1>5, <1>6, <1>8, <1>9, <1>10, <1>11 DEF Inv, TypeInv, TypeOK

(* Every variable has its type; nm_cli.should_wait never exceeds 1 and     *)
(* falls by at most one for every call, also when leftovers of earlier     *)
(* calls are dispatched.                                                   *)
THEOREM TypeCorrect == Spec => []TypeOK
<1>1. Inv => TypeOK
  BY InvType
<1> QED BY <1>1, Invariance, PTL

-----------------------------------------------------------------------------
(* Programs that use only commands that remove what they add, and receive  *)
(* no signal.                                                              *)

(* Everything in the context belongs to the call that runs, and is removed *)
(* when the loop quits.                                                    *)
TidyInv(V) ==
  /\ Undisturbed
  /\ \A x \in sources :
       /\ x.call = call
       /\ x.kind \in {"command_done", "got_client", "save_hostname_cb"} \union DisconnectKinds
       /\ x.kind = "got_client" =>
            x.handler \notin {<<"general", "permissions">>, <<"device", "connect">>}
  /\ call > 0 => argv \in V
  /\ loop = "none" => sources = {}

(* A tidy handler adds a reply, or the sources of a disconnecting device. *)
LEMMA AddsTidy ==
  ASSUME NEW h, h \notin {<<"general", "permissions">>, <<"device", "connect">>},
         NEW c \in Nat, NEW new, Adds(h, c, new), NEW x \in new
  PROVE  x.call = c /\ x.kind \in {"save_hostname_cb"} \union DisconnectKinds
<1>1. x.call = c
  BY AddsWell
<1>2. CASE new = {Source("save_hostname_cb", c)}
  BY <1>1, <1>2 DEF Source
<1>3. CASE \E K \in SUBSET DisconnectKinds : new = {Source(k, c) : k \in K}
  BY <1>1, <1>3 DEF Source
<1> QED BY <1>2, <1>3 DEF Adds

(* A call with a tidy vector keeps TidyInv, *)
LEMMA EnterTidy ==
  ASSUME NEW V \in SUBSET Seq(Words), Tidy(V), Inv, TidyInv(V),
         NEW entry \in Entries, NEW words \in V, Enter(entry, words)
  PROVE  TidyInv(V)'
<1>1. /\ loop = "none" /\ call < MaxCalls /\ call' = call + 1 /\ touched' = {}
      /\ Execute(entry, words) \/ OpenFails(words)
  BY DEF Enter
<1>2. sources = {} /\ Undisturbed'
  BY <1>1 DEF TidyInv, Undisturbed
<1>3. CASE OpenFails(words)
  BY <1>1, <1>2, <1>3 DEF OpenFails, TidyInv
<1>4. CASE Execute(entry, words)
  <2>1. PICK nm, new : Started(words, nm, new)
    BY <1>1, <1>4, ExecuteStarts DEF Inv
  <2>2. /\ sources' = new /\ argv' = Fresh(words).argv /\ loop' # "none"
        /\ \A x \in new : /\ x.call = call + 1
                          /\ x.kind \in {"command_done", "got_client"}
                          /\ x.kind = "got_client" => x.handler = HandlerFor(words)
    BY <1>2, <2>1 DEF Started
  <2>3. /\ HandlerFor(words) \notin {<<"general", "permissions">>, <<"device", "connect">>}
        /\ Fresh(words).argv \in V
    BY DEF Tidy, Fresh
  <2> QED BY <1>1, <1>2, <2>2, <2>3 DEF TidyInv
<1> QED BY <1>1, <1>3, <1>4

(* ... so does a dispatch, *)
LEMMA DispatchTidy ==
  ASSUME NEW V, Inv, TidyInv(V), NEW src \in ready, Dispatch(src)
  PROVE  TidyInv(V)'
<1>1. /\ TypeInv /\ Running /\ src \in sources /\ src.call = call /\ call \in Nat
      /\ src.kind \in {"command_done", "got_client", "save_hostname_cb"} \union DisconnectKinds
  BY DispatchRuns DEF Inv, TidyInv
<1>2. ASSUME NEW nm, NEW gone, NEW new, NEW quit, Dispatched(src, nm, gone, new, quit), loop' # "none",
             \A x \in new : x.call = call /\ x.kind \in {"save_hostname_cb"} \union DisconnectKinds
      PROVE  TidyInv(V)'
  <2>1. /\ sources' = (sources \ ({src} \union gone)) \union new
        /\ UNCHANGED <<argv, call>> /\ touched' = touched \union {src.call}
    BY <1>2 DEF Dispatched
  <2>2. Undisturbed'
    BY <1>1, <2>1 DEF TidyInv, Undisturbed
  <2>3. \A x \in sources' :
          /\ x.call = call
          /\ x.kind \in {"command_done", "got_client", "save_hostname_cb"} \union DisconnectKinds
          /\ x.kind = "got_client" =>
               x.handler \notin {<<"general", "permissions">>, <<"device", "connect">>}
    BY <1>2, <2>1 DEF TidyInv, DisconnectKinds
  <2> QED BY <1>2, <2>1, <2>2, <2>3 DEF TidyInv
<1>3. CASE GotClient(src)
  <2>1. PICK nm, new, quit : Arrival(src, nm, new, quit)
    BY <1>1, <1>3, GotClientArrival
  <2>2. Dispatched(src, nm, {}, new, quit) /\ src.kind = "got_client"
    BY <2>1 DEF Arrival
  <2>3. loop' # "none"
    BY <1>1, <2>1, ArrivalType DEF Running
  <2>4. src.handler \notin {<<"general", "permissions">>, <<"device", "connect">>}
    BY <1>1, <2>2 DEF TidyInv
  <2>5. \A x \in new : x.call = call /\ x.kind \in {"save_hostname_cb"} \union DisconnectKinds
    <3>1. CASE new = {}
      BY <3>1
    <3>2. CASE Adds(src.handler, src.call, new)
      BY <1>1, <2>4, <3>2, AddsTidy
    <3> QED BY <2>1, <3>1, <3>2 DEF Arrival
  <2> QED BY <1>2, <2>2, <2>3, <2>5
<1>4. CASE IsCallback(src)
  <2>1. PICK nm, gone, new, quit : Callback(src, nm, gone, new, quit)
    BY <1>4 DEF IsCallback
  <2>2. loop' # "none"
    BY <1>1, <2>1, CallbackType DEF Running
  <2>3. \A x \in new : src.kind \in {"permission_changed", "connect_device_cb", "add_and_activate_cb"}
    BY <1>1, <2>1, CallbackNew
  <2>4. new = {}
    BY <1>1, <2>3 DEF DisconnectKinds
  <2> QED BY <1>2, <2>1, <2>2, <2>4 DEF Callback
<1>5. src.kind \notin {"SIGTERM", "progress_cb"}
  BY <1>1 DEF DisconnectKinds
<1> QED BY <1>1, <1>3, <1>4, <1>5, DispatchCases

(* ... and the end of a call, which leaves nothing, *)
LEMMA ReturnTidy ==
  ASSUME NEW V, Inv, TidyInv(V), Return
  PROVE  TidyInv(V)'
<1>1. /\ loop = "quit" /\ ready = {} /\ loop' = "none"
      /\ UNCHANGED <<argv, call, touched>>
      /\ sources' = {x \in sources : x.kind \notin Subscriptions}
  BY DEF Return
<1>2. ASSUME NEW x \in sources, x.kind \notin Subscriptions PROVE FALSE
  <2>1. x.kind \in {"timeout_cb", "general_timeout_cb", "print_permissions", "progress_cb"}
                     \union Subscriptions
    BY <1>1, ReturnLeaves DEF TidyInv
  <2> QED BY <1>2, <2>1 DEF TidyInv, DisconnectKinds
<1>3. sources' = {}
  BY <1>1, <1>2
<1> QED BY <1>1, <1>3 DEF TidyInv, Undisturbed

(* ... and so every step. *)
LEMMA NextTidy ==
  ASSUME NEW V \in SUBSET Seq(Words), Vectors \subseteq V, Tidy(V), MaxSignals = 0,
         Inv, TidyInv(V), [Next]_vars
  PROVE  TidyInv(V)'
<1>1. ASSUME NEW entry \in Entries, NEW words \in Vectors, Call(entry, words)
      PROVE  TidyInv(V)'
  BY <1>1, EnterTidy DEF Call
<1>2. CASE Retry
  <2>1. loop = "none" /\ results # <<>> /\ Enter("nmcli_execute_with_output", argv)
    BY <1>2 DEF Retry, Enter
  <2>2. call > 0
    <3>1. results \in Seq(ResultType) /\ Len(results) = call
      BY <2>1 DEF Inv, ResultsInv
    <3> QED BY <2>1, <3>1
  <2>3. argv \in V /\ "nmcli_execute_with_output" \in Entries
    BY <2>2 DEF TidyInv, Entries
  <2> QED BY <2>1, <2>3, EnterTidy
<1>3. ~ \E kind \in {"SIGINT", "SIGTERM"} : SignalArrives(kind)
  BY DEF SignalArrives, Inv, TypeInv
<1>4. CASE Poll
  BY <1>4 DEF Poll, history, TidyInv, Undisturbed
<1>5. ASSUME NEW src \in ready, Dispatch(src)
      PROVE  TidyInv(V)'
  BY <1>5, DispatchTidy
<1>6. CASE Return
  BY <1>6, ReturnTidy
<1>7. CASE UNCHANGED vars
  BY <1>7 DEF vars, TidyInv, Undisturbed
<1> QED BY <1>1, <1>2, <1>3, <1>4, <1>5, <1>6, <1>7 DEF Next, LoopStep

(* A program that receives no signal and whose vectors, parsed any number  *)
(* of times, ask for no command that leaves a timeout, finds an empty main *)
(* context between calls.                                                  *)
THEOREM TidyProgramsLeaveNothing ==
  ASSUME NEW V \in SUBSET Seq(Words), Vectors \subseteq V, Tidy(V), MaxSignals = 0
  PROVE  Spec => []NothingLeftBehind
<1>1. Init => TidyInv(V)
  BY DEF Init, TidyInv, Undisturbed
<1>2. Inv /\ TidyInv(V) /\ [Next]_vars => TidyInv(V)'
  BY NextTidy
<1>3. TidyInv(V) => NothingLeftBehind
  BY DEF TidyInv, NothingLeftBehind
<1> QED BY <1>1, <1>2, <1>3, Invariance, PTL DEF Spec
=============================================================================
