--------------------------- MODULE MCNmcliLibrary ---------------------------
(* Argument vectors for checking NmcliLibrary with TLC. *)
EXTENDS NmcliLibrary

Nmcli(words) == <<Word("nmcli")>> \o words

HelpVector == Nmcli(<<Word("help")>>)
StatusVector == Nmcli(<<Option("terse"), OptionEq("fields", "STATE"),
                        Word("general"), Word("status")>>)
DeviceStatusVector == Nmcli(<<Option("mode"), Word("multiline"), Word("device"), Option("ask")>>)
HostnameVector == Nmcli(<<Word("general"), Word("hostname"), Word("host1")>>)
PermissionsVector == Nmcli(<<OptionEq("colors", "yes"), Word("general"), Word("permissions")>>)
ConnectVector == Nmcli(<<Word("device"), Word("connect"), Word("eth0")>>)
ConnectNoWaitVector == Nmcli(<<Option("wait"), Word("0"), Word("device"), Word("connect"),
                               Word("eth0")>>)
PrettyConnectVector == Nmcli(<<Option("pretty"), Word("device"), Word("connect"), Word("eth0")>>)
DisconnectVector == Nmcli(<<OptionEq("wait", "5"), Word("device"), Word("disconnect"),
                            Word("eth0")>>)
DisconnectNoWaitVector == Nmcli(<<OptionEq("wait", "0"), Word("device"), Word("disconnect"),
                                  Word("eth0")>>)
ReloadVector == Nmcli(<<Option("show-secrets"), Word("general"), Word("reload"), Word("conf")>>)
OverviewVector == Nmcli(<<Option("overview"), Option("pretty"), OptionEq("escape", "no")>>)
CompleteVector == Nmcli(<<Option("complete-args"), Word("general"), Word("hostname"),
                          Word("x")>>)
UnknownVector == Nmcli(<<Option("get-values"), Word("bogus"), Option(""), Word("general"),
                         Word("bogus")>>)
BadFieldsVector == Nmcli(<<OptionEq("get-values", "bogus"), Word("general")>>)
RejectedVector == Nmcli(<<Option("terse"), Option("pretty"), Word("general")>>)
MissingVector == Nmcli(<<Option("mode")>>)
BadModeVector == Nmcli(<<OptionEq("mode", "x"), Word("general")>>)
VersionVector == Nmcli(<<Option("nocheck"), Option("version")>>)
AbbreviatedVector == Nmcli(<<Word("general"), Word("h")>>)
DashVector == Nmcli(<<Option(""), Option("general")>>)

(* Commands that remove what they add, and command lines without one. *)
TidyVectors ==
  {HelpVector, StatusVector, DeviceStatusVector, HostnameVector, DisconnectVector,
   DisconnectNoWaitVector, ReloadVector, OverviewVector, CompleteVector, UnknownVector,
   BadFieldsVector, RejectedVector, MissingVector, BadModeVector, VersionVector, AbbreviatedVector,
   DashVector}

(* They are tidy, however often they are parsed and passed again. *)
Reparsed(V) == V \union {ProcessCommandLine(InitialNmCli, v, Terminal).argv : v \in V}

ASSUME TidyVectorsAreTidy == Tidy(Reparsed(Reparsed(TidyVectors)))

(* Commands that leave a timeout or a progress_cb() behind, some that it   *)
(* can meet, and a completion.                                             *)
LeavingVectors ==
  {HelpVector, HostnameVector, PermissionsVector, ConnectVector, PrettyConnectVector,
   ConnectNoWaitVector, DisconnectVector, CompleteVector}

HangVectors == {ConnectVector, HostnameVector, HelpVector}
=============================================================================
