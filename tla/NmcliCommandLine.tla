-------------------------- MODULE NmcliCommandLine --------------------------
(***************************************************************************)
(* The command line of nmcli: process_command_line() and what it calls     *)
(* (clients/cli/nmcli.c), next_arg() (clients/cli/utils.c) and the choice  *)
(* of a command by nmc_do_cmd() (clients/cli/common.c).                    *)
(*                                                                         *)
(* A word of the argument vector is a record: `dash' tells an option from  *)
(* a plain word, `text' is the word without its dashes and abbreviations,  *)
(* `val' what follows a "=" in it.  matches_arg() overwrites that "=" with *)
(* a NUL in the caller's vector, so the vector is part of the result.      *)
(* The vector is NULL terminated, as that of main() is.                    *)
(***************************************************************************)
EXTENDS Integers, Sequences, FiniteSetsExt

NoValue == ""

Word(t) == [dash |-> FALSE, text |-> t, val |-> NoValue]
Option(o) == [dash |-> TRUE, text |-> o, val |-> NoValue]
OptionEq(o, v) == [dash |-> TRUE, text |-> o, val |-> v]

(* NMCResultCode, and the exit code of a SIGINT. *)
SUCCESS == 0
ERROR_UNKNOWN == 1
ERROR_USER_INPUT == 2
ERROR_TIMEOUT_EXPIRED == 3
ERROR_CON_ACTIVATION == 4
ERROR_DEV_DISCONNECT == 6
ERROR_NM_NOT_RUNNING == 8
ERROR_NOT_FOUND == 10
ERROR_BUFFER_TOO_SMALL == 11
COMPLETE_FILE == 65

(* Mutant: the number of the signal is not added. *)
TerminatedNoSignal == 128

TERMINATED_SIGINT == 130

(* The global nm_cli as it is initialised statically, without return_text, *)
(* the agents and the editor.  progress_id, a static variable of devices.c *)
(* (0 for no source), is kept with it.                                     *)
InitialNmCli ==
  [client |-> FALSE, return_value |-> SUCCESS, timeout |-> -1,
   should_wait |-> 0, nowait_flag |-> TRUE,
   print_output |-> "normal", multiline_output |-> FALSE, mode_specified |-> FALSE,
   escape_values |-> TRUE, required_fields |-> NoValue, ask |-> FALSE,
   complete |-> FALSE, show_secrets |-> FALSE, overview |-> FALSE,
   use_colors |-> FALSE, pager |-> FALSE, progress_id |-> 0]

(* A parse in progress: the global, the vector, the index of the current   *)
(* word, the --colors option and whether the parse goes on with options,   *)
(* has reached the command, or has made process_command_line() return      *)
(* FALSE.                                                                  *)
ParseAt(nm, argv, p) ==
  [nm |-> nm, argv |-> argv, p |-> p, colors |-> "auto", status |-> "options"]

Argc(s) == Len(s.argv) + 1 - s.p
Current(s) == s.argv[s.p]

-----------------------------------------------------------------------------
IsGlobal(w, o) == w.dash /\ w.text = o

(* A parse with nm as the global. *)
WithNm(s, nm) == [s EXCEPT !.nm = nm]

(* Where next_arg() stops, without options of its own: at the next word    *)
(* that is not one of the global options.  In completion the last word is  *)
(* never skipped.                                                          *)
NextStop(s) ==
  LET n     == Len(s.argv)
      stops == {q \in s.p + 1 .. n :
                  \/ s.nm.complete /\ q = n
                  \/ ~ IsGlobal(s.argv[q], "ask") /\ ~ IsGlobal(s.argv[q], "show-secrets")}
  IN  IF stops = {} THEN n + 1 ELSE Min(stops)

(* Option o is among the words skipped. *)
Skips(s, o) == \E q \in s.p + 1 .. NextStop(s) - 1 : IsGlobal(s.argv[q], o)

(* The global options among them are recorded. *)
Recorded(s) ==
  [s.nm EXCEPT !.ask = @ \/ Skips(s, "ask"),
               !.show_secrets = @ \/ Skips(s, "show-secrets")]

NextArg(s) == WithNm([s EXCEPT !.p = NextStop(s)], Recorded(s))

Rejected(s) ==
  WithNm([s EXCEPT !.status = "stop"], [s.nm EXCEPT !.return_value = ERROR_USER_INPUT])

(* --version and --help return NMC_RESULT_SUCCESS, that is FALSE. *)
Answered(s) == [s EXCEPT !.status = "stop"]

(* --terse and --pretty: each only once, and not both. *)
PrintOption(s, output) ==
  IF s.nm.print_output # "normal" THEN Rejected(s)
  ELSE NextArg(WithNm(s, [s.nm EXCEPT !.print_output = output]))

ValueOptions == {"mode", "colors", "escape", "fields", "get-values", "wait"}

Seconds == [v \in {"0", "5"} |-> IF v = "0" THEN 0 ELSE 5]

ValidValue(o, v) ==
  \/ o \in {"fields", "get-values"}
  \/ o = "mode" /\ v \in {"tabular", "multiline"}
  \/ o = "colors" /\ v \in {"auto", "yes", "no"}
  \/ o = "escape" /\ v \in {"yes", "no"}
  \/ o = "wait" /\ v \in DOMAIN Seconds

(* What an option with the valid value v does to the parse. *)
ValueOption(s, o, v) ==
  IF o = "colors" THEN [s EXCEPT !.colors = v]
  ELSE WithNm(s,
    IF o = "mode" THEN [s.nm EXCEPT !.mode_specified = TRUE,
                                    !.multiline_output = (v = "multiline")]
    ELSE IF o = "escape" THEN [s.nm EXCEPT !.escape_values = (v = "yes")]
    ELSE IF o = "fields" THEN [s.nm EXCEPT !.required_fields = v]
    ELSE IF o = "get-values" THEN [s.nm EXCEPT !.required_fields = v,
                                               !.print_output = "terse",
                                               !.mode_specified = TRUE]
    ELSE [s.nm EXCEPT !.timeout = Seconds[v]])

(* matches_arg() leaves the NUL that it wrote over the "=" of the option   *)
(* that matched.                                                           *)
ReplaceSeparator(s) ==
  [s EXCEPT !.argv = [s.argv EXCEPT ![s.p] = [s.argv[s.p] EXCEPT !.val = NoValue]]]

(* An option that takes a value: after "=", or else the next word. *)
OptionWithValue(s, o) ==
  LET inline == Current(s).val # NoValue
      t      == IF inline THEN ReplaceSeparator(s) ELSE [s EXCEPT !.p = @ + 1]
      v      == IF inline THEN Current(s).val ELSE Current(t).text
  IN  IF ~ inline /\ Argc(t) = 0 THEN Rejected(t)
      ELSE IF ~ ValidValue(o, v)
      THEN Rejected(IF o = "mode" THEN WithNm(t, [t.nm EXCEPT !.mode_specified = TRUE]) ELSE t)
      ELSE NextArg(ValueOption(t, o, v))

(* One round of the loop over the options. *)
ParseOption(s) ==
  IF Argc(s) = 0 \/ ~ Current(s).dash THEN [s EXCEPT !.status = "command"]
  ELSE LET w == Current(s)
           o == w.text
       IN  IF o \in ValueOptions THEN OptionWithValue(s, o)
           ELSE IF w.val # NoValue THEN Rejected(s)
           ELSE IF o = "" THEN [NextArg(s) EXCEPT !.status = "command"]
           ELSE IF o = "overview" THEN NextArg(WithNm(s, [s.nm EXCEPT !.overview = TRUE]))
           ELSE IF o \in {"terse", "pretty"} THEN PrintOption(s, o)
           ELSE IF o = "nocheck" THEN NextArg(s)
           ELSE IF o \in {"version", "help"} THEN Answered(s)
           ELSE Rejected(s)

ParseRound(s) == IF s.status = "options" THEN ParseOption(s) ELSE s

(* The loop takes at least one word a round, and one round more to notice  *)
(* the end of the vector.                                                  *)
ParseOptions(s) ==
  LET n == Len(s.argv) + 1
      round[k \in 0 .. n] == IF k = 0 THEN s ELSE ParseRound(round[k - 1])
  IN  round[n]

(* --complete-args is overwritten with the program's name. *)
CompleteArgs(s) ==
  IF Len(s.argv) > 1 /\ IsGlobal(s.argv[2], "complete-args")
  THEN NextArg(WithNm([s EXCEPT !.argv = [s.argv EXCEPT ![2] = s.argv[1]]],
                      [s.nm EXCEPT !.complete = TRUE]))
  ELSE s

(* set_colors(): `tty' tells whether check_colors() finds a terminal that  *)
(* takes colours when the option is "auto".                                *)
SetColors(s, tty) ==
  WithNm(s, [s.nm EXCEPT !.use_colors = (s.colors = "yes") \/ (s.colors = "auto" /\ tty),
                         !.overview = @ /\ (s.nm.required_fields = NoValue)])

(* process_command_line() up to its call of nmc_do_cmd(). *)
ProcessCommandLine(nm, argv, tty) ==
  LET s == ParseOptions(NextArg(CompleteArgs(ParseAt(nm, argv, 1))))
  IN  IF s.status = "command" THEN SetColors(s, tty) ELSE s

-----------------------------------------------------------------------------
(* Command tables: the names, the handler of an empty command, whether the *)
(* commands have a usage callback.  A handler is named by its table and    *)
(* command.  The commands of the tables that are modelled are listed.      *)
nmcli_cmds == [table |-> "nmcli", commands |-> {"general", "device"},
               default |-> "overview", usage |-> FALSE]
general_cmds == [table |-> "general",
                 commands |-> {"status", "hostname", "permissions", "reload"},
                 default |-> "status", usage |-> TRUE]
device_cmds == [table |-> "device", commands |-> {"status", "connect", "disconnect"},
                default |-> "status", usage |-> TRUE]

(* matches(): a word stands for the first command that it abbreviates, one *)
(* with dashes for none.  "h" abbreviates both "hostname" and "help".      *)
CommandOf(w, cmds) ==
  IF w.dash THEN ""
  ELSE IF w.text = "h" /\ "hostname" \in cmds.commands THEN "hostname" ELSE w.text

(* nmc_arg_is_help(), with or without dashes *)
IsHelp(w) == w.text \in {"help", "h"}

Handler(cmds, c) == <<cmds.table, c>>
Returned(code) == [handler |-> <<>>, code |-> code]
Calls(h) == [handler |-> h, code |-> SUCCESS]

(* The condition for the usage of a command: the word that is looked at is *)
(* the command itself.                                                     *)
AsksForUsage(s) == IsHelp(Current(s))

(* nmc_do_cmd(): its task returns at once with a code, or it calls         *)
(* call_cmd() for a handler.                                               *)
DoCmd(s, cmds) ==
  IF s.nm.complete /\ Argc(s) <= 1 THEN Returned(SUCCESS)
  ELSE IF Argc(s) = 0 THEN Calls(Handler(cmds, cmds.default))
  ELSE LET c == CommandOf(Current(s), cmds)
       IN  IF c \in cmds.commands
           THEN IF ~ s.nm.complete /\ cmds.usage /\ AsksForUsage(s)
                THEN Returned(SUCCESS) ELSE Calls(Handler(cmds, c))
           ELSE IF IsHelp(Current(s)) THEN Returned(SUCCESS) ELSE Returned(ERROR_USER_INPUT)
=============================================================================
