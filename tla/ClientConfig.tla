---------------------------- MODULE ClientConfig ----------------------------
(***************************************************************************)
(* The configuration file of the command line client (config.rs of         *)
(* boardswarm-client, and the auth commands of boardswarm-cli).  Every     *)
(* command reads the whole file when it starts and writes all of it at its *)
(* end, which truncates it first; an initialisation waits for a login in   *)
(* between.  Nothing keeps two commands apart: each writes from the start   *)
(* of the file, over what the other may have written since.                *)
(***************************************************************************)
EXTENDS Integers, Sequences, SequencesExt, FiniteSets

CONSTANTS Servers,   \* names of servers
          NoServer,  \* of the empty list
          Unread,    \* not a list of servers
          NoFile,    \* none yet
          MaxRuns,   \* bound: commands given
          Size       \* Size[r]: parts of a server as command r writes it

ASSUME ClientConfigAssumption ==
  MaxRuns \in Nat /\ Size \in [1 .. MaxRuns -> Nat \ {0}]

VARIABLES
  file,        \* the file: a sequence of parts of servers, or NoFile
  runs,        \* the commands: [op, name]
  stage,       \* stage[r]: what command r is at
  own,         \* own[r]: Config of command r
  overlapped,  \* history: a command was started during another, or killed
  mixed,       \* history: a list was written over a longer one
  finished     \* history: the commands that succeeded, in order

configVars == <<file, runs, stage, own, overlapped, mixed, finished>>

Commands == DOMAIN runs
Ops == {"init", "default", "remove", "modify"}
Entries == [name : Servers, auth : 1 .. MaxRuns]
Parts == [server : Entries \cup {NoServer}, part : Nat]

ConfigTypeOK ==
  /\ file \in Seq(Parts) \cup {NoFile}
  /\ runs \in Seq([op : Ops, name : Servers]) /\ Len(runs) <= MaxRuns
  /\ stage \in [Commands -> {"read", "opened", "done", "failed"}]
  /\ own \in [Commands -> Seq(Entries)]
  /\ overlapped \in BOOLEAN /\ mixed \in BOOLEAN
  /\ finished \in Seq(Commands)

ConfigInit ==
  /\ file = NoFile
  /\ runs = << >> /\ stage = << >> /\ own = << >>
  /\ overlapped = FALSE /\ mixed = FALSE
  /\ finished = << >>

-----------------------------------------------------------------------------
\* A list as it is written; that it is empty has to be written too.
PartsOf(entry) == [i \in 1 .. Size[entry.auth] |-> [server |-> entry, part |-> i]]
Written(servers) ==
  IF servers = << >> THEN <<[server |-> NoServer, part |-> 0]>>
                     ELSE FlattenSeq([i \in DOMAIN servers |-> PartsOf(servers[i])])

\* What a file can be read as.  The rest of a server behind a list makes most files
\* unreadable, but passes for a key nobody knows or for an empty line in some.
FirstParts(content) == SelectSeq(content, LAMBDA c : c.part = 1)
Begun(content) == [i \in DOMAIN FirstParts(content) |-> FirstParts(content)[i].server]
Readings(content) ==
  CASE content = NoFile -> {<< >>}
    [] content # NoFile /\ content = Written(Begun(content)) -> {Begun(content)}
    [] content # NoFile /\ IsStrictPrefix(Written(Begun(content)), content)
         -> {Unread} \cup ({Begun(content)} \ {<< >>})
    [] OTHER -> {Unread}
IsReadable(content) == Unread \notin Readings(content)
InFile(content) == CHOOSE servers \in Readings(content) : TRUE

Names(servers) == {servers[i].name : i \in DOMAIN servers}
IndexOf(servers, name) == SelectInSeq(servers, LAMBDA s : s.name = name)

\* set_default, when the server is there
SwapFirst(servers, name) ==
  LET i == IndexOf(servers, name)
  IN  [servers EXCEPT ![1] = servers[i], ![i] = servers[1]]

\* A wrong Changed: the default server takes the place of another.
ChangedOver(servers, run, r) ==
  CASE run.op = "init" -> Append(servers, [name |-> run.name, auth |-> r])
    [] run.op = "default" -> [servers EXCEPT ![1] = servers[IndexOf(servers, run.name)]]
    [] run.op = "remove" -> SelectSeq(servers, LAMBDA s : s.name # run.name)
    [] run.op = "modify" -> [servers EXCEPT ![IndexOf(servers, run.name)].auth = r]

Changed(servers, run, r) ==
  CASE run.op = "init" -> Append(servers, [name |-> run.name, auth |-> r])
    [] run.op = "default" -> SwapFirst(servers, run.name)
    [] run.op = "remove" -> SelectSeq(servers, LAMBDA s : s.name # run.name)
    [] run.op = "modify" -> [servers EXCEPT ![IndexOf(servers, run.name)].auth = r]

\* A wrong Refused: what is there can be added again.
RefusedUnlessInit(servers, run) == run.op # "init" /\ run.name \notin Names(servers)

\* A server can be added once, and must be there for all else.
Refused(servers, run) == (run.op = "init") = (run.name \in Names(servers))

\* Reading the file, and the checks of a command.  Who cannot read the file fails.
Start ==
  \E op \in Ops, n \in Servers, servers \in Readings(file) :
    LET run == [op |-> op, name |-> n]
        apply == servers # Unread /\ ~ Refused(servers, run)
    IN  /\ Len(runs) < MaxRuns
        /\ runs' = Append(runs, run)
        /\ stage' = Append(stage, IF apply THEN "read" ELSE "failed")
        /\ own' = Append(own, IF apply THEN Changed(servers, run, Len(runs) + 1) ELSE << >>)
        /\ overlapped' = (overlapped \/ \E s \in Commands : stage[s] \in {"read", "opened"})
        /\ UNCHANGED <<file, mixed, finished>>

\* The login fails or the token cannot be read, or the command is interrupted,
\* perhaps between truncating and writing the file.
Fail(r) ==
  /\ stage[r] \in {"read", "opened"}
  /\ stage' = [stage EXCEPT ![r] = "failed"]
  /\ overlapped' = (overlapped \/ stage[r] = "opened")
  /\ UNCHANGED <<file, runs, own, mixed, finished>>

\* write(): opening the file truncates it ...
Truncate(r) ==
  /\ stage[r] = "read"
  /\ stage' = [stage EXCEPT ![r] = "opened"]
  /\ file' = << >>
  /\ UNCHANGED <<runs, own, overlapped, mixed, finished>>

\* ... and what another has written since may be longer than what is written over it.
Store(r) ==
  LET new == Written(own[r]) IN
  /\ stage[r] = "opened"
  /\ stage' = [stage EXCEPT ![r] = "done"]
  /\ file' = new \o SubSeq(file, Len(new) + 1, Len(file))
  /\ mixed' = (mixed \/ Len(file) > Len(new))
  /\ finished' = Append(finished, r)
  /\ UNCHANGED <<runs, own, overlapped>>

ConfigNext == Start \/ \E r \in Commands : Fail(r) \/ Truncate(r) \/ Store(r)

ConfigSpec == ConfigInit /\ [][ConfigNext]_configVars

-----------------------------------------------------------------------------
(* Properties. *)

\* Whatever commands overlap, no file that can be read has two servers of a name, of
\* which all but one could never be found or changed, unless a list was written over
\* a longer one.
UniqueNames(servers) == Cardinality(Names(servers)) = Len(servers)
NamesAreUnique ==
  ~ mixed => \A servers \in Readings(file) \ {Unread} : UniqueNames(servers)

\* Does not hold without that: of the longer list, whole servers may be left at the end.
NamesStayUnique == \A servers \in Readings(file) \ {Unread} : UniqueNames(servers)

\* Even then, what can be read begins with all that the last command wrote: a server it
\* added, set or made the default is the one its name finds.
LastIsFirst ==
  (finished # << >> /\ file # << >>) =>
    \A servers \in Readings(file) \ {Unread} : IsPrefix(own[Last(finished)], servers)

\* The last of the commands that succeeded of which Is holds, or 0.
LastOf(Is(_)) ==
  LET is == {i \in DOMAIN finished : Is(runs[finished[i]])}
  IN  IF is = {} THEN 0 ELSE CHOOSE i \in is : \A j \in is : j <= i

\* When no commands have overlapped, the file has every server that was added and
\* not removed since, as it was last set, and the default is first.
AsCommanded ==
  (~ overlapped /\ \A r \in Commands : stage[r] # "opened") =>
    LET servers == InFile(file)
        Added(n) == LastOf(LAMBDA c : c.op = "init" /\ c.name = n)
        Gone(n) == LastOf(LAMBDA c : c.op = "remove" /\ c.name = n)
        Set(n) == LastOf(LAMBDA c : c.op \in {"init", "modify"} /\ c.name = n)
        default == LastOf(LAMBDA c : c.op = "default")
    IN  /\ Names(servers) = {n \in Servers : Added(n) > Gone(n)}
        /\ \A i \in DOMAIN servers : servers[i].auth = finished[Set(servers[i].name)]
        /\ default > 0 /\ default > Gone(runs[finished[default]].name) =>
             servers[1].name = runs[finished[default]].name

\* The file of servers is what the commands made of it.
ConfigInv == ConfigTypeOK /\ NamesAreUnique /\ LastIsFirst /\ AsCommanded

\* What a command that succeeded has added is there until it is removed.  Does not
\* hold when commands overlap: each writes what it has read.
AddedIsKept ==
  (IsReadable(file) /\ \A r \in Commands : stage[r] # "opened") =>
    \A r \in Commands : (stage[r] = "done" /\ runs[r].op = "init") =>
      \/ runs[r].name \in Names(InFile(file))
      \/ \E s \in Commands : runs[s].op = "remove" /\ runs[s].name = runs[r].name

\* A command that is interrupted leaves a file that can be read.  Does not hold.
FileIsReadable == (\A r \in Commands : stage[r] # "opened") => IsReadable(file)
=============================================================================
