-------------------------------- MODULE Startup --------------------------------
(***************************************************************************)
(* How main () of dmapd.c gets from the environment, the configuration     *)
(* file and the command line to the shares it creates, and how it then     *)
(* takes one RAOP service for the renderer, creates the share that remotes *)
(* speak to, and pairs with them.  What serve () does with the directories *)
(* and the formats it is given is MediaDb's; the daemon's life is          *)
(* Lifecycle's.                                                            *)
(***************************************************************************)
EXTENDS Naturals, Sequences, FiniteSets

CONSTANTS
    Dirs,       \* the directories
    Formats,    \* the formats
    Users,      \* the values of a string option; -u stands for all of them
    Hosts,      \* hosts of RAOP services
    Ports,      \* their ports
    Remotes,    \* the remotes; a remote is its own guid
    Plugins,    \* what can follow the name of the renderer's module: sequences of items
    Modules,    \* the sets of modules that can be there: of "av", "photo", "render"
    ListsOf,    \* what a list of the configuration file can be: a set -> sequences
    MaxArgs,    \* bound: options on the command line
    Bare,       \* an item of a plugin option that is a word without "="
    None        \* an option that is not given; a share that does not exist

ASSUME ConstantsAssumption ==
    /\ MaxArgs \in Nat
    /\ Modules \subseteq SUBSET {"av", "photo", "render"}
    /\ Plugins \subseteq Seq({Bare} \cup [key : {"host", "other"}, value : Hosts])
    /\ \A S \in {Dirs, Formats} : ListsOf[S] \subseteq Seq(S)
    /\ None \notin Users \cup Hosts \cup Ports \cup Remotes
    /\ None \notin [dirs : Seq(Dirs \cup Formats), formats : Seq(Dirs \cup Formats)]

VARIABLES
    modules,    \* the modules that were loaded
    plugin,     \* the renderer's module option
    host,       \* the renderer's host
    keyfile,    \* the configuration file; one that cannot be read is an empty one
    cmdline,    \* the command line
    next,       \* the option g_option_context_parse has come to
    lists,      \* music_dirs, picture_dirs, music_formats, picture_formats
    user,       \* user
    flags,      \* those of enable_render, exit_after_loading and enable_version that are set
    state,      \* how far main () is, or how it ended
    shares,     \* daap_share and dpap_share
    remote,     \* the renderer's port, and dacp_share: the database it was given
    asking,     \* the remote whose passcode the terminal is asked for
    pairing,    \* the remotes that were sent their passcode
    guid,       \* _guid
    paired,     \* history: the remotes that have been paired with
    connected   \* the remotes that were let in

given == <<modules, plugin, host, keyfile, cmdline>>
options == <<lists, user, flags>>
pairs == <<asking, pairing, guid, paired, connected>>
vars == <<given, next, options, state, shares, remote, pairs>>

Kinds == {"music", "picture"}
ListOptions == {"-m", "-p", "-M", "-P"}
Flags == {"-o", "-x", "-v"}
LongNames == {"--music-dir", "--picture-dir", "--music-format", "--picture-format"}
Ended == {"unsupported", "refused", "exited", "crashed"}

(* An option by one of its names, with its value.  add_to_opt_list is      *)
(* called with the name that was used, and knows the short ones only.      *)
Arguments ==
    [name : {"-m", "-p", "--music-dir", "--picture-dir"}, value : Dirs]
        \cup [name : {"-M", "-P", "--music-format", "--picture-format"}, value : Formats]
        \cup [name : {"-u"}, value : Users]
        \cup [name : Flags, value : {None}]

CommandLines == UNION {[1..n -> Arguments] : n \in 0..MaxArgs}

KeyFiles == [musicDirs : ListsOf[Dirs], pictureDirs : ListsOf[Dirs],
             musicFormats : ListsOf[Formats], pictureFormats : ListsOf[Formats],
             user : Users \cup {None}]

-----------------------------------------------------------------------------
(* Slips. *)

(* The command line's list takes the place of the file's. *)
Slip_ParseList ==
    /\ state = "args" /\ next <= Len(cmdline)
    /\ cmdline[next].name \in ListOptions
    /\ lists' = [lists EXCEPT ![cmdline[next].name] = <<cmdline[next].value>>]
    /\ next' = next + 1
    /\ UNCHANGED <<given, user, flags, state, shares, remote, pairs>>

(* As soon as a remote has been paired with, any is let in. *)
Slip_LookupGuid(r) ==
    /\ state = "loop" /\ remote.db # None
    /\ guid # None
    /\ connected' = connected \cup {r}
    /\ UNCHANGED <<given, next, options, state, shares, remote, asking, pairing, guid, paired>>

-----------------------------------------------------------------------------
(* The list of each option after read_keyfile: the acceptable formats of   *)
(* the [Picture] group go where its directories go.                        *)
FromFile(option) ==
    CASE option = "-m" -> keyfile.musicDirs
      [] option = "-M" -> keyfile.musicFormats
      [] option = "-p" -> keyfile.pictureDirs \o keyfile.pictureFormats
      [] option = "-P" -> <<>>

Init ==
    /\ modules \in Modules
    /\ plugin \in Plugins /\ host = None
    /\ keyfile \in KeyFiles
    /\ cmdline \in CommandLines
    /\ next = 1
    /\ lists = [o \in ListOptions |-> <<>>]
    /\ user = None
    /\ flags = {}
    /\ state = "plugin"
    /\ shares = [k \in Kinds |-> None]
    /\ remote = [port |-> None, db |-> None]
    /\ asking = None /\ pairing = {} /\ guid = None
    /\ paired = {} /\ connected = {}

(* parse_plugin_option.  A key reaches to the next "=", so that a word     *)
(* without one becomes part of the key behind it.                          *)
IsHost(items, i) ==
    /\ items[i] # Bare /\ (i > 1 => items[i - 1] # Bare)
    /\ items[i].key = "host"

(* The value that stays in the table of options is the last.               *)
HostOf(items) ==
    LET hosts == {i \in DOMAIN items : IsHost(items, i)}
    IN  IF hosts = {} THEN None
        ELSE items[CHOOSE i \in hosts : \A j \in hosts : j <= i].value

ParsePlugin ==
    /\ state = "plugin" /\ (plugin # <<>> => plugin[Len(plugin)] # Bare)
    /\ host' = HostOf(plugin)
    /\ state' = "file"
    /\ UNCHANGED <<modules, plugin, keyfile, cmdline, next, options, shares, remote, pairs>>

(* g_error: nothing comes behind the last word.                            *)
BadPlugin ==
    /\ state = "plugin" /\ plugin # <<>> /\ plugin[Len(plugin)] = Bare
    /\ state' = "unsupported"
    /\ UNCHANGED <<given, next, options, shares, remote, pairs>>

(* key_file_s_or_default: what the file says, or the default. *)
ReadKeyfile ==
    /\ state = "file"
    /\ lists' = [o \in ListOptions |-> FromFile(o)]
    /\ user' = IF keyfile.user = None THEN user ELSE keyfile.user
    /\ state' = "args"
    /\ UNCHANGED <<given, next, flags, shares, remote, pairs>>

(* The next option of the command line. *)
Arg == cmdline[next]
AtArg == state = "args" /\ next <= Len(cmdline)

ParseList ==
    /\ AtArg /\ Arg.name \in ListOptions
    /\ lists' = [lists EXCEPT ![Arg.name] = Append(@, Arg.value)]
    /\ next' = next + 1
    /\ UNCHANGED <<given, user, flags, state, shares, remote, pairs>>

(* g_error: the process is aborted. *)
ParseLongName ==
    /\ AtArg /\ Arg.name \in LongNames
    /\ state' = "unsupported"
    /\ UNCHANGED <<given, next, options, shares, remote, pairs>>

ParseString ==
    /\ AtArg /\ Arg.name = "-u"
    /\ user' = Arg.value
    /\ next' = next + 1
    /\ UNCHANGED <<given, lists, flags, state, shares, remote, pairs>>

ParseFlag ==
    /\ AtArg /\ Arg.name \in Flags
    /\ flags' = flags \cup {Arg.name}
    /\ next' = next + 1
    /\ UNCHANGED <<given, lists, user, state, shares, remote, pairs>>

(* Is there a reader for the directories, and anything to do? *)
Sound ==
    /\ modules \cap {"av", "photo"} # {}
    /\ lists["-m"] # <<>> => "av" \in modules
    /\ lists["-p"] # <<>> => "photo" \in modules
    /\ lists["-m"] # <<>> \/ lists["-p"] # <<>> \/ "-o" \in flags

Check ==
    /\ state = "args" /\ next > Len(cmdline)
    /\ state' = CASE "-v" \in flags -> "exited"
                  [] "-v" \notin flags /\ Sound -> "music"
                  [] OTHER -> "refused"
    /\ UNCHANGED <<given, next, options, shares, remote, pairs>>

(* serve () is called for a kind that has directories and a reader. *)
Serve(kind, reader, dirs, formats) ==
    shares' = IF lists[dirs] # <<>> /\ reader \in modules
              THEN [shares EXCEPT ![kind] = [dirs |-> lists[dirs], formats |-> lists[formats]]]
              ELSE shares

ServeMusic ==
    /\ state = "music"
    /\ Serve("music", "av", "-m", "-M")
    /\ state' = "picture"
    /\ UNCHANGED <<given, next, options, remote, pairs>>

(* Then the browser is started if there is a renderer, and the main loop   *)
(* is run.                                                                 *)
ServePictures ==
    /\ state = "picture"
    /\ Serve("picture", "photo", "-p", "-P")
    /\ state' = IF "-x" \in flags THEN "exited" ELSE "loop"
    /\ UNCHANGED <<given, next, options, remote, pairs>>

Browsing == state = "loop" /\ "-o" \in flags /\ "render" \in modules

(* raop_service_added_cb: the first service of the renderer's host.  The   *)
(* database is that of the music share.  If there is none g_object_get     *)
(* does nothing, and what dacp_share_new is given is what the variable     *)
(* happened to hold.                                                       *)
ServiceAdded(h, p) ==
    /\ Browsing
    /\ host # None /\ h = host
    /\ remote.db = None
    /\ IF shares["music"] # None
       THEN /\ remote' = [port |-> p, db |-> "music"]
            /\ UNCHANGED state
       ELSE \/ /\ remote' = [port |-> p, db |-> "undefined"]
               /\ UNCHANGED state
            \/ /\ state' = "crashed"
               /\ UNCHANGED remote
    /\ UNCHANGED <<given, next, options, shares, pairs>>

(* The remote's share tells of a remote: dacp_remote_found_cb asks for its *)
(* passcode, and the main loop stands still.                               *)
RemoteFound(r) ==
    /\ state = "loop" /\ remote.db # None
    /\ asking' = r
    /\ state' = "asking"
    /\ UNCHANGED <<given, next, options, shares, remote, pairing, guid, paired, connected>>

(* dacp_share_pair, with what was entered: the remote takes it or not.     *)
EnterPasscode(right) ==
    /\ state = "asking"
    /\ pairing' = IF right THEN pairing \cup {asking} ELSE pairing
    /\ asking' = None
    /\ state' = "loop"
    /\ UNCHANGED <<given, next, options, shares, remote, guid, paired, connected>>

(* scanf stores an entry of more than four characters past the end of      *)
(* passcode, which is undefined: the process dies of it, or goes on as if  *)
(* another passcode had been entered.                                      *)
OverrunPasscode ==
    /\ state = "asking"
    /\ state' = "crashed"
    /\ UNCHANGED <<given, next, options, shares, remote, pairs>>

(* dacp_add_guid_cb: there is one guid.                                    *)
AddGuid(r) ==
    /\ state = "loop" /\ r \in pairing
    /\ guid' = r
    /\ pairing' = pairing \ {r} /\ paired' = paired \cup {r}
    /\ UNCHANGED <<given, next, options, state, shares, remote, asking, connected>>

(* dacp_lookup_guid_cb: a remote wants to be let in.                       *)
LookupGuid(r) ==
    /\ state = "loop" /\ remote.db # None
    /\ guid = r
    /\ connected' = connected \cup {r}
    /\ UNCHANGED <<given, next, options, state, shares, remote, asking, pairing, guid, paired>>

Leave(r) ==
    /\ state = "loop" /\ r \in connected
    /\ connected' = connected \ {r}
    /\ UNCHANGED <<given, next, options, state, shares, remote, asking, pairing, guid, paired>>

Next ==
    \/ ParsePlugin \/ BadPlugin
    \/ ReadKeyfile
    \/ ParseList \/ ParseLongName \/ ParseString \/ ParseFlag
    \/ Check
    \/ ServeMusic \/ ServePictures
    \/ \E h \in Hosts, p \in Ports : ServiceAdded(h, p)
    \/ \E r \in Remotes : RemoteFound(r) \/ AddGuid(r) \/ LookupGuid(r) \/ Leave(r)
    \/ \E right \in BOOLEAN : EnterPasscode(right)
    \/ OverrunPasscode

Spec == Init /\ [][Next]_vars

-----------------------------------------------------------------------------
(* What was asked for: by the configuration file, then by the command line *)
(* under either name of the option.                                        *)

(* How many of the first n arguments have one of the names.                *)
Count(args, names, n) == Cardinality({i \in 1..n : args[i].name \in names})

(* The list is that of the file, and behind it the values that the first n *)
(* options give under the names, in their order.                           *)
AddsUp(list, file, args, names, n) ==
    /\ Len(list) = Len(file) + Count(args, names, n)
    /\ \A i \in 1..Len(file) : list[i] = file[i]
    /\ \A i \in 1..n : args[i].name \in names =>
          list[Len(file) + Count(args, names, i)] = args[i].value

MusicDirs      == {"-m", "--music-dir"}
MusicFormats   == {"-M", "--music-format"}
PictureDirs    == {"-p", "--picture-dir"}

(* Directories were asked for by the file or under the names.              *)
Asks(file, names) == file # <<>> \/ Count(cmdline, names, Len(cmdline)) > 0

Members(seq) == {seq[i] : i \in 1..Len(seq)}

(* The variables hold values of their types. *)
TypeOK ==
    /\ modules \in Modules /\ plugin \in Plugins /\ host \in Hosts \cup {None}
    /\ keyfile \in KeyFiles
    /\ next \in 1..(Len(cmdline) + 1)
    /\ \A o \in ListOptions : Members(lists[o]) \subseteq Dirs \cup Formats
    /\ user \in Users \cup {None} /\ flags \subseteq Flags
    /\ state \in {"plugin", "file", "args", "music", "picture", "loop", "asking"} \cup Ended
    /\ \A k \in Kinds : shares[k] # None => shares[k].dirs # <<>>
    /\ remote.port \in Ports \cup {None} /\ remote.db \in {None, "music", "undefined"}
    /\ asking \in Remotes \cup {None} /\ guid \in Remotes \cup {None}
    /\ pairing \cup paired \cup connected \subseteq Remotes

(* Every directory that was asked for, by file or by option, is served,    *)
(* for music in the order it was asked for and restricted to the formats   *)
(* asked for.                                                              *)
DirsAskedFor ==
    /\ Asks(keyfile.musicDirs, MusicDirs) =>
          /\ shares["music"] # None
          /\ AddsUp(shares["music"].dirs, keyfile.musicDirs, cmdline, MusicDirs, Len(cmdline))
          /\ AddsUp(shares["music"].formats, keyfile.musicFormats, cmdline, MusicFormats, Len(cmdline))
    /\ Asks(keyfile.pictureDirs, PictureDirs) =>
          /\ shares["picture"] # None
          /\ Members(keyfile.pictureDirs) \subseteq Members(shares["picture"].dirs)
          /\ \A i \in 1..Len(cmdline) : cmdline[i].name \in PictureDirs =>
                cmdline[i].value \in Members(shares["picture"].dirs)

(* A string option is what the first n options of the command line say     *)
(* last, else what the file says.                                          *)
UserAskedFor(n) ==
    \/ user = keyfile.user /\ \A j \in 1..n : cmdline[j].name # "-u"
    \/ \E i \in 1..n : /\ cmdline[i].name = "-u" /\ user = cmdline[i].value
                       /\ \A j \in (i + 1)..n : cmdline[j].name # "-u"

(* Once main () runs its loop it does what was asked for.  The two sources *)
(* are added up for lists (add_to_opt_list), the command line, which is    *)
(* parsed after read_keyfile, has the last word on strings, and no list is *)
(* passed over for want of a reader (the checks before daemonize).         *)
AskedFor == state \in {"loop", "asking"} => DirsAskedFor /\ UserAskedFor(Len(cmdline))

(* Whatever comes later, in any order, does not change whom the daemon     *)
(* plays for: the renderer's port and share are those of the first service *)
(* of its host, and a remote is let in after it was paired with and never  *)
(* because another one was.                                                *)
RemoteSide ==
    [][ /\ remote.db # None => UNCHANGED remote
        /\ connected' \ connected \subseteq paired ]_vars
=============================================================================
