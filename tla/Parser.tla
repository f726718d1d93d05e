------------------------------- MODULE Parser -------------------------------
(* How cfagent reads a policy.  The lexer hands each token to a routine of  *)
(* parse.c, which collects the promise that is being read in global         *)
(* variables.  The promise is installed in the list of its section only     *)
(* when a later token shows that it is over (InstallPending); the variables *)
(* are then set back for the next one (InitializeAction).                   *)
(*                                                                          *)
(* The text is chosen token by token, as the grammar cfparse.y allows.      *)
(* Names and values are left out: a promise is known by its place in the    *)
(* text, and the value of a variable by the promise that set it.            *)
EXTENDS Integers, FiniteSets, Sequences

CONSTANTS
    Section,        \* the sections that are written
    Class,          \* the class predicates that are written
    Option,         \* the variables whose options are written
    Any,            \* the class that always holds
    Heap,           \* classes that are defined when the policy is read
    Made,           \* classes that every define= and elsedefine= names
    MaxPromises,    \* bound: promises in the text
    MaxOptions,     \* bound: options in the text
    MaxMarks        \* bound: sections, class predicates and ends of files

ASSUME ParserAssumption ==
    /\ Any \in Class /\ Any \in Heap
    /\ Heap \subseteq Class /\ Made \subseteq Class
    /\ MaxPromises \in Nat /\ MaxOptions \in Nat /\ MaxMarks \in Nat

---------------------------------------------------------------------------
(* The variables an option of each section sets *)

Timing == {"ifelapsed", "expireafter"}
Owners == {"uid", "gid"}
Defines == {"define", "elsedef"}
Output == {"log", "inform"}

HandleOptionalFileAttribute ==
    {"recurse", "mode", "flags", "fileaction", "links", "exclude", "include",
     "ignore", "acl", "filter", "checksum", "xdev"}
    \cup Owners \cup Defines \cup Output \cup Timing
HandleOptionalImageAttribute ==
    {"findertype", "mode", "flags", "destination", "imageaction", "compat",
     "force", "forcedirs", "forceipv4", "backup", "recurse", "copytype",
     "exclude", "symlink", "include", "ignore", "linktype", "server",
     "encrypt", "verify", "failover", "imgsize", "acl", "purge", "stealth",
     "typecheck", "repository", "filter", "trustkey", "timestamps", "xdev"}
    \cup Owners \cup Defines \cup Output \cup Timing
HandleOptionalRequired ==
    {"imgsize", "scan", "force"} \cup Defines \cup Output \cup Timing
HandleOptionalInterface == {"netmask", "broadcast", "ipaddress"}
HandleOptionalMountablesAttribute == {"mountopts", "readonly"}
HandleOptionalUnMountAttribute == {"deletedir", "deletefstab", "force"} \cup Timing
HandleOptionalMiscMountsAttribute == {"mountmode", "mountoptlist"} \cup Timing
HandleOptionalTidyAttribute ==
    {"recurse", "exclude", "ignore", "pattern", "age", "links", "tidysize",
     "agetype", "dirlinks", "rmdirs", "compress", "filter", "xdev"}
    \cup Defines \cup Output \cup Timing
HandleOptionalDirAttribute ==
    {"mode", "flags"} \cup Owners \cup Defines \cup Output \cup Timing
HandleOptionalDisableAttribute ==
    {"proaction", "pattern", "rotate", "disablesize", "repository",
     "destination"} \cup Defines \cup Output \cup Timing
HandleOptionalLinkAttribute ==
    {"linkaction", "linktype", "exclude", "include", "filter", "ignore",
     "symlink", "recurse", "copytype", "nofile"}
    \cup Defines \cup Output \cup Timing
HandleOptionalProcessAttribute ==
    {"proaction", "matches", "signal", "useshell", "exclude", "include",
     "filter", "chdir", "chroot", "umask"}
    \cup Owners \cup Defines \cup Output \cup Timing
HandleOptionalPackagesAttribute ==
    {"pkgver", "cmpsense", "pkgmgr"} \cup Defines \cup Output \cup Timing
HandleOptionalMethodsAttribute ==
    {"server", "actionbuff", "methodfilename", "methodreturnclasses",
     "methodforce", "methodreplyto", "chdir", "chroot"} \cup Owners \cup Timing
HandleOptionalScriptAttribute ==
    {"timeout", "useshell", "umask", "fork", "chdir", "chroot", "preview"}
    \cup Owners \cup Defines \cup Output \cup Timing
HandleOptionalAlertsAttribute == Timing

(* HandleOption: the variables options may set in section s. *)
HandleOption(s) ==
    CASE s = "files"         -> HandleOptionalFileAttribute
      [] s = "copy"          -> HandleOptionalImageAttribute
      [] s \in {"disks", "required"} -> HandleOptionalRequired
      [] s = "interfaces"    -> HandleOptionalInterface
      [] s = "mountables"    -> HandleOptionalMountablesAttribute
      [] s = "unmount"       -> HandleOptionalUnMountAttribute
      [] s = "miscmounts"    -> HandleOptionalMiscMountsAttribute
      [] s = "tidy"          -> HandleOptionalTidyAttribute
      [] s = "directories"   -> HandleOptionalDirAttribute
      [] s \in {"disable", "rename"} -> HandleOptionalDisableAttribute
      [] s = "links"         -> HandleOptionalLinkAttribute
      [] s = "processes"     -> HandleOptionalProcessAttribute
      [] s = "packages"      -> HandleOptionalPackagesAttribute
      [] s = "methods"       -> HandleOptionalMethodsAttribute
      [] s = "shellcommands" -> HandleOptionalScriptAttribute
      [] s = "alerts"        -> HandleOptionalAlertsAttribute
      [] OTHER               -> {}

(* Options that are prepended to a list instead of replacing a value. *)
Lists == {"exclude", "include", "ignore", "acl", "filter", "symlink"}

(* mode= of a mount sets two variables, every other option one. *)
OptionsOf(s) == IF s = "miscmounts"
                THEN {{"mountmode", "mountoptlist"}} \cup {{v} : v \in Timing \cap Option}
                ELSE {{v} : v \in HandleOption(s) \cap Option}

---------------------------------------------------------------------------
(* How the entries of each section are written *)

(* HandleVarObject installs these at once. *)
DirectSections == {"import", "resolve", "broadcast", "defaultroute",
                   "mailserver", "binservers", "homeservers"}
PathSections == {"files", "copy", "disks", "required", "mountables",
                 "unmount", "tidy", "directories", "disable", "rename",
                 "packages", "shellcommands", "ignore"}
FunctionSections == {"alerts", "methods"}
BraceSections == {"strategies", "filters", "editfiles"}
OtherSections == {"links", "miscmounts", "processes", "interfaces"}

ASSUME SectionAssumption ==
    Section \subseteq DirectSections \cup PathSections \cup FunctionSections
                      \cup BraceSections \cup OtherSections

VARIABLES
    g,          \* the global variables of the parser, and the lists
    after,      \* what was read last, for the grammar
    marks,      \* sections, class predicates and ends of files read so far
    options,    \* options read so far
    written     \* the promises of the text, as its reader understands them

vars == <<g, after, marks, options, written>>

None == "none"

Initial ==
    [action |-> None,       \* g_action
     pending |-> FALSE,     \* g_actionpending
     class |-> Any,         \* g_classbuff
     object |-> 0,          \* g_currentobject, g_expr, g_vifname
     restart |-> 0,         \* g_restart
     haveRestart |-> FALSE,
     item |-> 0,            \* g_currentitem
     brace |-> 0,           \* g_strategyname, g_filtername
     link |-> None,         \* g_action_is_link, g_action_is_linkchildren
     linkfrom |-> 0, linkto |-> 0,
     mountfrom |-> 0, mountonto |-> 0,
     values |-> {},         \* <<variable, promise that set it>>
     strategies |-> {},     \* names in g_vstrategylist and g_vfilterlist
     imports |-> 0,         \* files in g_vimport still to be read
     heap |-> Heap,         \* g_vheap
     installable |-> {},    \* g_valladdclasses
     installed |-> <<>>,    \* all lists, in the order of installation
     errors |-> FALSE]      \* g_errorcount > 0

Init ==
    /\ g = Initial
    /\ after = "file" /\ marks = 0 /\ options = 0
    /\ written = <<>>

---------------------------------------------------------------------------
(* InitializeAction *)

(* What it does not reset, or only when no link or mount is being read. *)
NeverReset == {"failover", "forceipv4", "mountoptlist", "actionbuff"}
Kept(s) ==
    NeverReset
    \cup (IF s.mountfrom # 0 /\ s.mountonto # 0 THEN {} ELSE {"mountmode"})
    \cup (IF s.link # None THEN {"linkaction", "linktype", "nofile"} ELSE {})

\* MUTANT of InitializeAction: the options of the promise stay.
InitializeNothing(s) ==
    [s EXCEPT !.pending = FALSE, !.object = 0, !.restart = 0,
              !.haveRestart = FALSE, !.item = 0, !.brace = 0,
              !.mountfrom = IF s.mountonto # 0 THEN 0 ELSE @,
              !.mountonto = IF s.mountfrom # 0 THEN 0 ELSE @,
              !.linkfrom = IF s.link = None THEN 0 ELSE @,
              !.linkto = IF s.link = None THEN 0 ELSE @]

InitializeAction(s) ==
    [s EXCEPT !.pending = FALSE, !.object = 0, !.restart = 0,
              !.haveRestart = FALSE, !.item = 0, !.brace = 0,
              !.mountfrom = IF s.mountonto # 0 THEN 0 ELSE @,
              !.mountonto = IF s.mountfrom # 0 THEN 0 ELSE @,
              !.linkfrom = IF s.link = None THEN 0 ELSE @,
              !.linkto = IF s.link = None THEN 0 ELSE @,
              !.values = {v \in @ : v[1] \in Kept(s)}]

---------------------------------------------------------------------------
(* Installing a promise *)

IsDefinedClass(s) == s.class \in s.heap
IsInstallable(s) == s.class \in s.heap \cup s.installable
yyerror(s) == [s EXCEPT !.errors = TRUE]

(* The entry the values make; the classes it may define can guard promises  *)
(* from now on (AddInstallable).                                            *)
Entry(s, name, to, used) ==
    [section |-> s.action, class |-> s.class, name |-> name, to |-> to,
     values |-> {v \in s.values : v[1] \in used}]
AddInstallable(s, entry) ==
    IF \E v \in entry.values : v[1] \in Defines
    THEN s.installable \cup Made ELSE s.installable
Add(s, name, to, used) ==
    LET entry == Entry(s, name, to, used)
    IN  [s EXCEPT !.installed = Append(@, entry),
                  !.installable = AddInstallable(s, entry)]

(* The usual installer: files, copies, directories, required disks,         *)
(* packages, methods, processes.                                            *)
Install(s) ==
    InitializeAction(IF IsInstallable(s)
                     THEN Add(s, s.object, s.object, HandleOption(s.action))
                     ELSE s)

InstallFileListItem(s) == Install(s)
InstallImageItem(s) ==
    IF IsInstallable(s) /\ \E v, w \in s.values : v[1] = "compat" /\ w[1] = "encrypt"
    THEN yyerror(s) ELSE Install(s)
InstallRequiredPath(s) == Install(s)
InstallMakePath(s) == Install(s)
InstallPackagesItem(s) == Install(s)
InstallMethod(s) == Install(s)
AppendDisable(s) == Install(s)
AppendScript(s) == Install(s)

(* Without an age nothing is installed, and nothing is reset. *)
InstallTidyItem(s) ==
    IF \E v \in s.values : v[1] = "age" THEN Install(s) ELSE yyerror(s)

(* The restart command is the second part of a process. *)
InstallProcessItem(s) ==
    InitializeAction(IF IsInstallable(s)
                     THEN Add(s, s.object, s.restart, HandleOption(s.action))
                     ELSE s)

(* Alerts wait for their class, whatever it is, but not for their times. *)
InstallAlert(s) ==
    InitializeAction(IF s.class = Any THEN yyerror(s)
                     ELSE Add(s, s.object, s.object, {}))

(* These do not reset anything once they have installed the entry. *)
AppendIgnore(s) ==
    IF IsInstallable(s) THEN Add(s, s.object, s.object, {}) ELSE s
AppendUmount(s) ==
    IF IsInstallable(s)
    THEN Add(s, s.object, s.object, HandleOption("unmount"))
    ELSE InitializeAction(s)
InstallMountableItem(s) ==
    IF ~IsDefinedClass(s) THEN s
    ELSE IF \E i \in DOMAIN s.installed :
                s.installed[i].section = "mountables"
                /\ s.installed[i].name = s.object
    THEN yyerror(s)
    ELSE Add(s, s.object, s.object, HandleOption("mountables"))

(* A mount needs both of its paths; without the second the first is kept. *)
AppendMiscMount(s) ==
    InitializeAction(IF s.mountfrom # 0 /\ s.mountonto # 0 /\ IsInstallable(s)
                     THEN Add(s, s.mountfrom, s.mountonto,
                              HandleOption("miscmounts"))
                     ELSE s)

(* A link needs its destination.  Children are linked without filters and   *)
(* without copytype.                                                        *)
InstallLinkItem(s) ==
    LET used == HandleOption("links")
                \ (IF s.link = "children" THEN {"copytype", "filter"} ELSE {})
        done == InitializeAction(IF IsInstallable(s)
                                 THEN Add(s, s.linkfrom, s.linkto, used)
                                 ELSE s)
    IN  IF s.linkto = 0 \/ s.link = None THEN s
        ELSE [done EXCEPT !.link = None]

AppendInterface(s) ==
    LET set == {v[1] : v \in s.values}
    IN  InitializeAction(IF ~IsInstallable(s) THEN s
                         ELSE IF {"netmask", "broadcast"} \subseteq set
                         THEN Add(s, s.object, s.object, HandleOption("interfaces"))
                         ELSE yyerror(s))

(* A line of a strategy, if the strategy itself has been installed. *)
AddClassToStrategy(s) ==
    IF s.item = 0 THEN yyerror(s)
    ELSE IF s.brace \in s.strategies
    THEN LET added == Add(s, s.item, s.brace, {})
         IN  [added EXCEPT !.installable = @ \cup Made]
    ELSE s
InstallFilterTest(s) ==
    [IF s.item # 0 /\ s.brace \in s.strategies
     THEN Add(s, s.item, s.brace, {}) ELSE s EXCEPT !.item = 0]

AppendNameServer(s) ==
    IF IsInstallable(s) THEN Add(s, s.object, s.object, {}) ELSE s

InstallPending(s) ==
    IF ~s.pending THEN s ELSE
    CASE s.action = "filters"       -> InstallFilterTest(s)
      [] s.action = "strategies"    -> AddClassToStrategy(s)
      [] s.action = "resolve"       -> AppendNameServer(s)
      [] s.action = "files"         -> InstallFileListItem(s)
      [] s.action = "processes"     -> InstallProcessItem(s)
      [] s.action = "copy"          -> InstallImageItem(s)
      [] s.action = "ignore"        -> AppendIgnore(s)
      [] s.action = "tidy"          -> InstallTidyItem(s)
      [] s.action = "directories"   -> InstallMakePath(s)
      [] s.action = "methods"       -> InstallMethod(s)
      [] s.action \in {"rename", "disable"} -> AppendDisable(s)
      [] s.action = "shellcommands" -> AppendScript(s)
      [] s.action = "alerts"        -> InstallAlert(s)
      [] s.action = "interfaces"    -> AppendInterface(s)
      [] s.action \in {"disks", "required"} -> InstallRequiredPath(s)
      [] s.action = "mountables"    -> InstallMountableItem(s)
      [] s.action = "miscmounts"    -> AppendMiscMount(s)
      [] s.action = "unmount"       -> AppendUmount(s)
      [] s.action = "links"         -> InstallLinkItem(s)
      [] s.action = "packages"      -> InstallPackagesItem(s)
      [] OTHER                      -> s

(* What the lexer does before most tokens. *)
Flush(s) == InitializeAction(InstallPending(s))

---------------------------------------------------------------------------
(* The tokens *)

Last == Len(written)
(* The text goes on with a promise of section s. *)
Promise(s, to) ==
    [section |-> s, class |-> g.class, to |-> to, values |-> {},
     complete |-> s \notin {"links", "miscmounts", "processes", "interfaces",
                            "tidy"}]
Writes(p) == /\ Last < MaxPromises
             /\ written' = Append(written, p)
(* The last mark is the end of the text. *)
Marks == marks + 1 < MaxMarks /\ marks' = marks + 1
(* A statement, an entry or an end may come here. *)
Between == after \in {"section", "class", "entry"}

(* Every strategy draws one of its classes, once.  They are all Made here,  *)
(* and a number drawn on the border of two classes is left out.             *)
SetStrategies(s) ==
    IF \E i \in DOMAIN s.installed : s.installed[i].section = "strategies"
    THEN [s EXCEPT !.heap = @ \cup Made] ELSE s

(* The name of a section.  SetAction flushes once more. *)
SetAction(s, a) ==
    LET flushed == SetStrategies(InstallPending(s))
    IN  [flushed EXCEPT !.action = a, !.class = Any,
                        !.values = {v \in @ : v[1] # "actionbuff"}]
\* MUTANT of ReadSection: what is pending is not flushed.
ReadSectionAtOnce(a) ==
    /\ Between \/ after = "file"
    /\ Marks
    /\ g' = SetAction(InitializeAction(g), a)
    /\ after' = "section"
    /\ UNCHANGED <<options, written>>

ReadSection(a) ==
    /\ Between \/ after = "file"
    /\ Marks
    /\ g' = SetAction(Flush(g), a)
    /\ after' = "section"
    /\ UNCHANGED <<options, written>>

(* A class predicate. *)
HandleClass(s, c) == [InstallPending(s) EXCEPT !.class = c]
ReadClass(c) ==
    /\ Between
    /\ Marks
    /\ g' = HandleClass(Flush(g), c)
    /\ after' = "class"
    /\ UNCHANGED <<options, written>>

(* An unquoted name.  The lexer flushes what is pending, unless the name is *)
(* the destination of a link.                                               *)
HandleVarObject(s, n) ==
    LET named == [s EXCEPT !.object = n, !.pending = TRUE]
    IN  CASE s.link # None -> [named EXCEPT !.linkto = n]
          [] s.link = None /\ s.action = "miscmounts" ->
                IF s.mountfrom = 0 THEN [named EXCEPT !.mountfrom = n]
                ELSE IF s.mountonto = 0 THEN [named EXCEPT !.mountonto = n]
                ELSE yyerror(named)
          [] s.link = None /\ s.action \in DirectSections ->
                IF ~IsInstallable(s) THEN named
                ELSE LET added == Add(named, n, n, {})
                     IN  [added EXCEPT !.imports =
                             @ + IF s.action = "import" /\ IsDefinedClass(s)
                                 THEN 1 ELSE 0]
          [] OTHER -> named

LexVarObject(n) ==
    HandleVarObject(IF (g.link # None /\ g.linkto = 0) \/ ~g.pending THEN g
                    ELSE Flush(g), n)

ReadName ==
    /\ Between
    /\ g.action \in DirectSections \cup PathSections \cup {"links", "miscmounts"}
    /\ g' = LexVarObject(Last + 1)
    /\ Writes(Promise(g.action, Last + 1))
    /\ after' = IF g.action \in {"links", "miscmounts"} THEN "from" ELSE "entry"
    /\ UNCHANGED <<marks, options>>

(* An arrow, for a link or for the links of all children. *)
ReadArrow(kind) ==
    /\ after = "from" /\ g.action = "links"
    /\ g' = [g EXCEPT !.linkfrom = g.object, !.link = kind]
    /\ after' = "arrow"
    /\ UNCHANGED <<marks, options, written>>

(* The destination of a link, or the mount point of a file system. *)
ReadTo ==
    /\ after = "arrow" \/ (after = "from" /\ g.action = "miscmounts")
    /\ g' = LexVarObject(Last)
    /\ written' = [written EXCEPT ![Last].complete = TRUE]
    /\ after' = "entry"
    /\ UNCHANGED <<marks, options>>

(* A quoted string. *)
HandleQuotedString(s, n) ==
    CASE s.action = "processes" ->
            LET over == s.restart # 0 \/ (~s.haveRestart /\ s.object # 0)
                ready == IF ~over THEN s
                         ELSE IF s.pending THEN Flush(s)
                         ELSE Flush(yyerror(s))
            IN  IF ready.object = 0
                THEN [(IF ready.haveRestart THEN yyerror(ready) ELSE ready)
                         EXCEPT !.object = n, !.haveRestart = FALSE]
                ELSE IF ready.haveRestart
                THEN [ready EXCEPT !.restart = n, !.pending = TRUE]
                ELSE ready
      [] s.action = "interfaces" -> [s EXCEPT !.object = n]
      [] OTHER -> [InstallPending(s) EXCEPT !.object = n, !.pending = TRUE]

ReadQuoted ==
    /\ Between
    /\ g.action \in PathSections \cup {"processes", "interfaces"}
    /\ g' = HandleQuotedString(g, Last + 1)
    /\ Writes(Promise(g.action, IF g.action = "processes" THEN 0 ELSE Last + 1))
    /\ after' = "entry"
    /\ UNCHANGED <<marks, options>>

(* "restart", and the command after it. *)
ReadRestart ==
    /\ after = "entry" /\ g.action = "processes" /\ ~written[Last].complete
    /\ g' = [(IF g.haveRestart THEN yyerror(g) ELSE g)
                EXCEPT !.pending = TRUE, !.haveRestart = TRUE]
    /\ after' = "restart"
    /\ UNCHANGED <<marks, options, written>>
ReadRestartCommand ==
    /\ after = "restart"
    /\ g' = HandleQuotedString(g, Last)
    /\ written' = [written EXCEPT ![Last].complete = TRUE, ![Last].to = Last]
    /\ after' = "entry"
    /\ UNCHANGED <<marks, options>>

(* An alert or a method. *)
HandleFunctionObject(s, n) == [s EXCEPT !.object = n, !.pending = TRUE]
ReadFunction ==
    /\ Between /\ g.action \in FunctionSections
    /\ g' = HandleFunctionObject(Flush(g), Last + 1)
    /\ Writes(Promise(g.action, Last + 1))
    /\ after' = "entry"
    /\ UNCHANGED <<marks, options>>

\* MUTANT of SetValues: the options before it are cleared.
SetOnlyValue(s, set, n) ==
    [s EXCEPT !.values = {<<v, n>> : v \in set},
              !.pending = @ \/ set \cap {"matches", "signal"} # {}]

(* An option: the variables set are those of the last promise. *)
SetValues(s, set, n) ==
    LET kept == {v \in s.values : v[1] \notin set \ Lists}
        again == s.action = "interfaces" /\ \E v \in s.values : v[1] \in set
        now == [s EXCEPT !.values = kept \cup {<<v, n>> : v \in set},
                         !.errors = @ \/ again]
        names == {v[1] : v \in now.values}
        complete ==
            CASE s.action = "processes" -> set \cap {"matches", "signal"} # {}
              [] s.action = "interfaces" ->
                    {"netmask", "broadcast"} \subseteq names /\ s.object # 0
              [] OTHER -> FALSE
    IN  [now EXCEPT !.pending = @ \/ complete]

ReadOption(set) ==
    /\ after = "entry" /\ options < MaxOptions
    /\ options' = options + 1
    /\ g' = SetValues(g, set, Last)
    /\ written' =
          LET values == written[Last].values \cup set
              complete == CASE g.action = "processes" ->
                                 set \cap {"matches", "signal"} # {}
                            [] g.action = "tidy" -> "age" \in set
                            [] g.action = "interfaces" ->
                                 {"netmask", "broadcast"} \subseteq values
                            [] OTHER -> FALSE
          IN  [written EXCEPT ![Last].values = values,
                              ![Last].complete = @ \/ complete]
    /\ UNCHANGED <<after, marks>>

(* A brace and the name after it. *)
HandleBraceObjectID(s, n) ==
    CASE s.action = "editfiles" -> IF s.object = 0
                                   THEN [s EXCEPT !.object = n] ELSE yyerror(s)
      [] s.action = "strategies" ->
            [s EXCEPT !.brace = n,
                      !.strategies = IF IsInstallable(s) THEN @ \cup {n} ELSE @]
      [] s.action = "filters" ->
            IF IsInstallable(s)
            THEN [s EXCEPT !.brace = n, !.strategies = @ \cup {n}]
            ELSE InitializeAction([s EXCEPT !.brace = n])
OpenBrace ==
    /\ Between /\ g.action \in BraceSections /\ Last < MaxPromises
    /\ g' = HandleBraceObjectID([g EXCEPT !.brace = 0], Last + 1)
    /\ after' = "brace"
    /\ UNCHANGED <<marks, options, written>>

(* A line between braces: edits are installed at once. *)
HandleEdit(s, n) ==
    IF IsInstallable(s) THEN Add(s, n, s.object, {}) ELSE InitializeAction(s)
ReadLine ==
    /\ after \in {"brace", "line"}
    /\ LET n == Last + 1
           s == [g EXCEPT !.item = n]
       IN  /\ g' = IF g.action = "editfiles" THEN HandleEdit(s, n)
                   ELSE InstallPending([s EXCEPT !.pending = TRUE])
           /\ Writes(Promise(g.action,
                             IF after = "brace" THEN n ELSE written[Last].to))
    /\ after' = "line"
    /\ UNCHANGED <<marks, options>>

CloseBrace ==
    /\ after = "line"
    /\ g' = Flush(g)
    /\ after' = "entry"
    /\ UNCHANGED <<marks, options, written>>

(* ParseFile flushes at the end of a file; ParseInputFile goes on with the  *)
(* next import.                                                             *)
EndFile ==
    /\ Between
    /\ marks < MaxMarks /\ marks' = marks + 1
    /\ g' = [InstallPending(g) EXCEPT !.imports = IF @ > 0 THEN @ - 1 ELSE 0]
    /\ after' = IF g.imports > 0 THEN "file" ELSE "end"
    /\ UNCHANGED <<options, written>>

Next ==
    \/ \E a \in Section : ReadSection(a)
    \/ \E c \in Class : ReadClass(c)
    \/ ReadName \/ ReadTo \/ ReadQuoted \/ ReadRestart \/ ReadRestartCommand
    \/ ReadFunction \/ OpenBrace \/ ReadLine \/ CloseBrace \/ EndFile
    \/ \E kind \in {"link", "children"} : ReadArrow(kind)
    \/ \E set \in OptionsOf(g.action) : ReadOption(set)

Spec == Init /\ [][Next]_vars

---------------------------------------------------------------------------
(* What the text means *)

(* The text is read to its end, every promise has all its parts, alerts     *)
(* have a class, there is one interface at most, and no file is imported    *)
(* where there are mountables: the last of a file is refused as already     *)
(* defined when the next file begins.                                       *)
WellFormed ==
    /\ after = "end"
    /\ \A i \in DOMAIN written :
          /\ written[i].complete
          /\ written[i].section = "alerts" => written[i].class # Any
          /\ written[i].section = "interfaces" =>
                \A j \in DOMAIN written \ {i} : written[j].section # "interfaces"
          /\ written[i].section = "mountables" =>
                \A j \in DOMAIN written : written[j].section # "import"
          /\ ~{"compat", "encrypt"} \subseteq written[i].values

(* The promises to be kept: their class is defined, or may be by a promise  *)
(* to be kept that was written before.                                      *)
Due ==
    LET MayDefine(p) == p.values \cap Defines # {} \/ p.section = "strategies"
        due[i \in 0..Last] ==
            IF i = 0 THEN {}
            ELSE LET p == written[i]
                     made == IF \E j \in due[i - 1] : MayDefine(written[j])
                             THEN Made ELSE {}
                     drawn == IF \E j \in due[i - 1] :
                                        written[j].section = "strategies"
                              THEN Made ELSE {}
                     holds == CASE p.section = "alerts" -> p.class # Any
                                [] p.section = "mountables" ->
                                       p.class \in Heap \cup drawn
                                [] OTHER -> p.class \in Heap \cup made
                 IN  IF holds THEN due[i - 1] \cup {i} ELSE due[i - 1]
    IN  due[Last]

(* The lists these go to take an entry twice: a name server when it is read *)
(* and when it is flushed, the last line of a strategy at the brace, the    *)
(* last entry of a file when another file follows.                          *)
Repeated == {"resolve", "strategies", "ignore", "unmount"}
(* The variables are not reset when a quoted entry of these follows. *)
Unreset == {"mountables", "unmount", "interfaces"}

---------------------------------------------------------------------------
(* Properties *)

(* Nothing is lost and nothing is made up: of a well formed text exactly    *)
(* the promises whose class may hold are installed, in the order of the     *)
(* text, each with its own class and its own second part, and once but for  *)
(* the lists of Repeated; and the text is accepted.                         *)
InstalledAsWritten ==
    WellFormed =>
        /\ ~g.errors
        /\ \A k \in DOMAIN g.installed :
              LET e == g.installed[k]
              IN  /\ e.name \in Due
                  /\ e.section = written[e.name].section
                  /\ e.class = written[e.name].class
                  /\ e.to = written[e.name].to
                  /\ k > 1 => g.installed[k - 1].name <= e.name
        /\ \A i \in Due :
              LET entries == {k \in DOMAIN g.installed : g.installed[k].name = i}
              IN  IF written[i].section \in Repeated THEN entries # {}
                  ELSE Cardinality(entries) = 1

(* A promise has all the options that were written for it, but for the      *)
(* times of an alert and two options of a link to children.                 *)
OptionsReachPromise ==
    WellFormed => \A k \in DOMAIN g.installed :
        LET e == g.installed[k]
        IN  \/ e.section = "alerts"
            \/ \A v \in written[e.name].values \ {"copytype", "filter"} :
                  <<v, e.name>> \in e.values

(* While no error is found an installed promise has no option of another    *)
(* promise, but for the variables that InitializeAction forgets and the     *)
(* sections that do not call it.                                            *)
OptionsStayWithPromise ==
    ~g.errors => \A k \in DOMAIN g.installed :
        LET e == g.installed[k]
        IN  e.section \notin Unreset =>
                \A v \in e.values : v[1] \in NeverReset \/ v[2] = e.name
=============================================================================
