------------------------------ MODULE Metadata ------------------------------
(***************************************************************************)
(* internal/metadata: what a cloud-init drive says and the plan made of it.*)
(*                                                                         *)
(* A drive is a function from file names to documents. A document's kind   *)
(* is "unreadable" (it exists and cannot be read), "empty", "other" (not a *)
(* cloud-config), "bad" (does not parse) or "yaml". A user-data document   *)
(* has machine, files ([path, decodes]) and runcmd ([form, argv]), where   *)
(* form is "list", "plain", "shell" (a string with shell syntax) or "type" *)
(* (neither a string nor a list). Words of a command are strings; what the *)
(* code reads inside a word is given by the constants.                     *)
(***************************************************************************)
EXTENDS Naturals, Sequences, SequencesExt

CONSTANTS
    Base,     \* Base[w]: path.Base of a word, for words with a directory
    EnvEq,    \* EnvEq[w]: the value of a word "--env=value" or "-e=value"
    Dashed,   \* the words that begin with a dash
    Octals,   \* the words that parse as an octal mode
    SymFlags, \* the words hasFlag takes for -s
    Owners    \* the words owner() resolves

EnvFlags == {"--env", "-e"}
InstallOnlyFlags == {"--force"}

\* A word with a value is not a word for a flag alone.
ASSUME EnvWords ==
    /\ EnvEq \in [DOMAIN EnvEq -> STRING]
    /\ DOMAIN EnvEq \cap (EnvFlags \cup InstallOnlyFlags) = {}

NoMachine == [ip |-> "", iface |-> "", gw |-> "", dns |-> ""]

NoUserData == [machine |-> NoMachine, files |-> << >>, runcmd |-> << >>]

Absent == [kind |-> "empty"]

UserDataPaths == << "user-data", "openstack/latest/user_data" >>
MetaDataPaths == << "meta-data", "openstack/latest/meta_data.json" >>

-----------------------------------------------------------------------------
(* Faulty variants.                                                        *)

\* a later `k0s install` does not replace the earlier one
InstallFirstWins(p, t) ==
    IF p.workload = << >>
    THEN [p EXCEPT !.workload = t.argv, !.env = @ \o t.env] ELSE p

-----------------------------------------------------------------------------
(* Reading the drive.                                                      *)

\* The first candidate that can be read.
ReadFirst(drive, names) ==
    LET ok == {i \in DOMAIN names : /\ names[i] \in DOMAIN drive
                                   /\ drive[names[i]].kind # "unreadable"}
    IN IF ok = {} THEN Absent ELSE drive[names[Min(ok)]]

\* A command that needs a shell, is of another type or is empty is skipped with a
\* warning.
Plain(entry) == entry.form \in {"list", "plain"} /\ entry.argv # << >>

TakeCommand(cmds, entry) == IF Plain(entry) THEN Append(cmds, entry.argv) ELSE cmds

Commands(entries) ==
    LET run[i \in 0 .. Len(entries)] ==
            IF i = 0 THEN << >> ELSE TakeCommand(run[i - 1], entries[i])
    IN run[Len(entries)]

\* Files that do not decode are skipped as well.
ParseUserData(doc) ==
    IF doc.kind # "yaml" THEN NoUserData
    ELSE [machine |-> doc.machine,
          files |-> SelectSeq(doc.files, LAMBDA f : f.decodes),
          runcmd |-> Commands(doc.runcmd)]

\* local-hostname, then hostname, then name.
ParseMetaData(doc) ==
    IF doc.kind # "yaml" THEN ""
    ELSE IF doc.local # "" THEN doc.local
    ELSE IF doc.hostname # "" THEN doc.hostname
    ELSE doc.name

\* A document that does not parse is an error for the whole drive, and the
\* caller keeps nothing of it.
Load(drive) ==
    LET user == ReadFirst(drive, UserDataPaths)
        meta == ReadFirst(drive, MetaDataPaths)
    IN IF user.kind = "bad" \/ meta.kind = "bad"
       THEN [ud |-> NoUserData, hostname |-> ""]
       ELSE [ud |-> ParseUserData(user), hostname |-> ParseMetaData(meta)]

-----------------------------------------------------------------------------
(* The plan.                                                               *)

ServiceManagers == {"systemctl", "service", "rc-update", "rc-service"}

Bin(cmd) == IF cmd[1] \in DOMAIN Base THEN Base[cmd[1]] ELSE cmd[1]

IsInstall(cmd) == Bin(cmd) = "k0s" /\ Len(cmd) >= 3 /\ cmd[2] = "install"

IsDropped(cmd) ==
    \/ Bin(cmd) = "k0s" /\ Len(cmd) >= 2 /\ cmd[2] \in {"start", "stop"}
    \/ Bin(cmd) \in ServiceManagers

\* The word after the role, or after an environment flag its value.
TranslateWord(t, w) ==
    IF t.value THEN [t EXCEPT !.env = Append(@, w), !.value = FALSE]
    ELSE IF w \in InstallOnlyFlags THEN t
    ELSE IF w \in EnvFlags THEN [t EXCEPT !.value = TRUE]
    ELSE IF w \in DOMAIN EnvEq THEN [t EXCEPT !.env = Append(@, EnvEq[w])]
    ELSE [t EXCEPT !.argv = Append(@, w)]

\* The binary and the role.
Leading(cmd) == [argv |-> <<cmd[1], cmd[3]>>, env |-> << >>, value |-> FALSE]

\* `k0s install <role> args` as the foreground command and its environment.
TranslateInstall(cmd) ==
    LET t[i \in 3 .. Len(cmd)] ==
            IF i = 3 THEN Leading(cmd) ELSE TranslateWord(t[i - 1], cmd[i])
    IN t[Len(cmd)]

\* The last install is the workload; the environments of all of them add up.
Install(p, t) == [p EXCEPT !.workload = t.argv, !.env = @ \o t.env]

\* The file actions a command stands for, or none when it is not understood.
Interpret(bin, cmd) ==
    LET args == Tail(cmd)
        rest == SelectSeq(args, LAMBDA w : w \notin Dashed)
        each(kind, paths) == [i \in DOMAIN paths |->
                                 [kind |-> kind, path |-> paths[i]]]
    IN CASE bin = "mkdir" -> each("mkdir", rest)
         [] bin = "chmod" /\ Len(rest) >= 2 /\ rest[1] \in Octals ->
               each("chmod", Tail(rest))
         [] bin = "chown" /\ Len(rest) >= 2 /\ rest[1] \in Owners ->
               each("chown", Tail(rest))
         [] bin = "ln" /\ Len(rest) = 2 /\ ToSet(args) \cap SymFlags # {} ->
               each("symlink", Tail(rest))
         [] OTHER -> << >>

PlanCommand(p, cmd) ==
    IF IsInstall(cmd) THEN Install(p, TranslateInstall(cmd))
    ELSE IF IsDropped(cmd) THEN p
    ELSE LET acts == Interpret(Bin(cmd), cmd)
         IN IF acts = << >> THEN [p EXCEPT !.unsupported = Append(@, cmd)]
            ELSE [p EXCEPT !.actions = @ \o acts]

NoPlan ==
    [workload |-> << >>, env |-> << >>, actions |-> << >>, unsupported |-> << >>]

Plan(runcmd) ==
    LET p[i \in 0 .. Len(runcmd)] ==
            IF i = 0 THEN NoPlan ELSE PlanCommand(p[i - 1], runcmd[i])
    IN p[Len(runcmd)]
=============================================================================
