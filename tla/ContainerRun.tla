---------------------------- MODULE ContainerRun ----------------------------
(***************************************************************************)
(* The commands a LinuxContainer runs for its clients.  Run: the command   *)
(* line of wsh that starts a process in a container, put together from the *)
(* process spec and the container's own environment variables, with the    *)
(* helpers dedup and setRLimitsEnv.  Attach.  StreamIn and StreamOut: nstar *)
(* in the container, reading the client's stream or writing into a pipe    *)
(* whose other end the client reads.                                       *)
(*                                                                         *)
(* Model simplifications:                                                  *)
(*  - one stream out of the container at a time, and a Run only between    *)
(*    two streams: the two share no state;                                 *)
(*  - the client reads its stream to the end before it closes it;          *)
(*  - an environment variable is a record: [key, value] stands for         *)
(*    "key=value", [key] for a string without "=";                         *)
(*  - the command is a record of what its arguments say (user, variables,  *)
(*    directory, path), not a list of strings;                             *)
(*  - the process tracker answers with a process or with an error.         *)
(***************************************************************************)
EXTENDS Naturals, Sequences, FiniteSets, SequencesExt

CONSTANTS
  EnvVar,         \* the environment variables that occur
  Users,          \* the user names a spec may give ("" for none)
  ResourceLimits, \* the resource limits a spec may give
  MaxEnv,         \* bound on the length of c.envvars and of spec.Env
  MaxLeaked,      \* bound on the descriptors no one closes
  Nil             \* a nil pointer

VARIABLES
  envvars,        \* c.envvars
  pipe,           \* the ends of the pipe of StreamOut the server holds open
  tar,            \* nstar of StreamOut: none, running, exited
  leaked,         \* the descriptors that stay open with no one to close them
  ret             \* the last call: its error, and the command of a Run

streamVars == <<pipe, tar, leaked>>
vars == <<envvars, pipe, tar, leaked, ret>>

-----------------------------------------------------------------------------
(* Values *)

\* The fields of api.ResourceLimits, in the order setRLimitsEnv tests them.
RLimitNames ==
  <<"As", "Core", "Cpu", "Data", "Fsize", "Locks", "Memlock", "Msgqueue",
    "Nice", "Nofile", "Nproc", "Rss", "Rtprio", "Sigpending", "Stack">>

\* api.ProcessSpec, as far as Run reads it.
ProcessSpec ==
  [Privileged : BOOLEAN, User : Users, Env : BoundedSeq(EnvVar, MaxEnv),
   Limits : ResourceLimits]

OK == "ok"

ASSUME /\ MaxEnv \in Nat
       /\ \A e \in EnvVar : DOMAIN e \in {{"key"}, {"key", "value"}}
       /\ \A l \in ResourceLimits : DOMAIN l = ToSet(RLimitNames)

-----------------------------------------------------------------------------
(* Helpers *)

\* strings.SplitN(envVar, "=", 2): one part when there is no "=".
SplitN(envVar) ==
  IF "value" \in DOMAIN envVar THEN <<envVar.key, envVar.value>> ELSE <<envVar.key>>

\* Seeded fault: the walk starts at the first variable, the first
\* assignment of a key wins.
dedupFromFront(envVars) ==
  LET Visit(acc, envVar) ==
        LET keyValue == SplitN(envVar)
        IN  IF Len(keyValue) = 2 /\ keyValue[1] \notin acc.seenArgs
            THEN [seenArgs |-> acc.seenArgs \cup {keyValue[1]},
                  result |-> Append(acc.result, envVar)]
            ELSE acc
  IN  FoldLeft(Visit, [seenArgs |-> {}, result |-> <<>>], envVars).result

\* c.dedup(envVars): walk from the last variable to the first, keep a
\* variable that has a "=" and whose key was not seen, in front of the
\* ones kept so far.
dedup(envVars) ==
  LET Visit(envVar, acc) ==
        LET keyValue == SplitN(envVar)
        IN  IF Len(keyValue) = 2 /\ keyValue[1] \notin acc.seenArgs
            THEN [seenArgs |-> acc.seenArgs \cup {keyValue[1]},
                  result |-> <<envVar>> \o acc.result]
            ELSE acc
  IN  FoldRight(Visit, envVars, [seenArgs |-> {}, result |-> <<>>]).result

\* Seeded fault: a limit is passed on whether it was given or not.
setRLimitsEnvUnguarded(env, rlimits) ==
  env \o [i \in DOMAIN RLimitNames |->
            [name |-> RLimitNames[i], value |-> rlimits[RLimitNames[i]]]]

\* setRLimitsEnv(cmd, rlimits): one RLIMIT_ variable for every limit that
\* is given, in the order of the fields.
setRLimitsEnv(env, rlimits) ==
  LET given == SelectSeq(RLimitNames, LAMBDA n : rlimits[n] # Nil)
  IN  env \o [i \in DOMAIN given |-> [name |-> given[i], value |-> rlimits[given[i]]]]

\* The user of the process: vcap, root for a privileged process, and the
\* user of the spec when it names one.
User(spec) ==
  IF spec.User # "" THEN spec.User
  ELSE IF spec.Privileged THEN "root" ELSE "vcap"

-----------------------------------------------------------------------------
(* Operations *)

\* NewLinuxContainer(..., envvars)
Init ==
  /\ envvars \in BoundedSeq(EnvVar, MaxEnv)
  /\ pipe = {} /\ tar = "none" /\ leaked = 0
  /\ ret = [op |-> "New", err |-> OK]

\* No stream out of the container is under way.
NoStream == pipe = {} /\ tar = "none"

\* c.Run(spec, processIO)
Run(spec) ==
  /\ NoStream
  /\ \E err \in {OK, "RunFailed"} :
       ret' = [op |-> "Run", err |-> err,
               wsh |-> [spec |-> spec,
                        user |-> User(spec),
                        env |-> dedup(envvars \o spec.Env),
                        Env |-> setRLimitsEnv(<<>>, spec.Limits)]]
  /\ UNCHANGED <<envvars, streamVars>>

\* c.Attach(processID, processIO): the answer of the process tracker.
Attach ==
  /\ \E err \in {OK, "AttachFailed"} : ret' = [op |-> "Attach", err |-> err]
  /\ UNCHANGED <<envvars, streamVars>>

\* c.wshdPid(): the file is not there, does not hold a number, or does.
wshdPid == {"OpenFailed", "ScanFailed", OK}

\* c.StreamIn(dstPath, tarStream): nstar run to its end on the stream.
StreamIn ==
  /\ \E err \in wshdPid \cup {"RunFailed"} : ret' = [op |-> "StreamIn", err |-> err]
  /\ UNCHANGED <<envvars, streamVars>>

\* c.StreamOut(srcPath) that fails before nstar is started.  After
\* os.Pipe both ends of the pipe are open and nothing closes them.
StreamOutFailed ==
  /\ NoStream
  /\ \/ /\ \E err \in (wshdPid \ {OK}) \cup {"PipeFailed"} :
             ret' = [op |-> "StreamOut", err |-> err]
        /\ UNCHANGED leaked
     \/ /\ leaked < MaxLeaked
        /\ leaked' = leaked + 2
        /\ ret' = [op |-> "StreamOut", err |-> "BackgroundFailed"]
  /\ UNCHANGED <<envvars, pipe, tar>>

\* Seeded fault: the server keeps its end of the pipe for writing.
PipeOfWriter == {"tarRead", "tarWrite"}

\* The ends the server holds when StreamOut returns: tarWrite is closed.
PipeOfReader == {"tarRead"}

\* c.StreamOut(srcPath): nstar is started with the pipe as its output, the
\* goroutine that waits for it is spawned, the client is given tarRead.
StreamOut ==
  /\ NoStream
  /\ tar' = "running"
  /\ pipe' = PipeOfReader
  /\ ret' = [op |-> "StreamOut", err |-> OK]
  /\ UNCHANGED <<envvars, leaked>>

\* nstar has written the last byte and exits.
TarExit ==
  /\ tar = "running"
  /\ tar' = "exited"
  /\ UNCHANGED <<envvars, pipe, leaked, ret>>

\* go c.runner.Wait(tar)
Wait ==
  /\ tar = "exited"
  /\ tar' = "none"
  /\ UNCHANGED <<envvars, pipe, leaked, ret>>

\* A read of tarRead returns io.EOF: no process holds the pipe for writing.
EOF == "tarRead" \in pipe /\ "tarWrite" \notin pipe /\ tar # "running"

\* The client has read the stream to its end and closes it.
CloseStream ==
  /\ EOF
  /\ pipe' = pipe \ {"tarRead"}
  /\ UNCHANGED <<envvars, tar, leaked, ret>>

Next ==
  \/ \E spec \in ProcessSpec : Run(spec)
  \/ Attach \/ StreamIn
  \/ StreamOutFailed \/ StreamOut
  \/ TarExit \/ Wait \/ CloseStream

\* nstar ends when its output is read, the goroutine of Wait is scheduled,
\* and the client goes on reading.
Spec ==
  Init /\ [][Next]_vars /\ WF_vars(TarExit) /\ WF_vars(Wait) /\ WF_vars(CloseStream)

-----------------------------------------------------------------------------
(* Properties *)

IsAssignment(envVar) == "value" \in DOMAIN envVar

\* The variables of s that assign a key no later variable of s assigns, in
\* the order they have in s.
LastAssignments(s) ==
  LET kept == { i \in DOMAIN s :
                  /\ IsAssignment(s[i])
                  /\ \A j \in DOMAIN s :
                       (j > i /\ IsAssignment(s[j])) => s[j].key # s[i].key }
      index == SetToSortSeq(kept, <)
  IN  [n \in DOMAIN index |-> s[index[n]]]

\* The types of the command; a resource limit that is passed on has a value.
TypeOK ==
  /\ envvars \in BoundedSeq(EnvVar, MaxEnv)
  /\ pipe \subseteq {"tarRead", "tarWrite"} /\ leaked \in 0 .. MaxLeaked
  /\ tar \in {"none", "running", "exited"}
  /\ ret.op = "Run" =>
       /\ ret.wsh.user \in (Users \ {""}) \cup {"root", "vcap"}
       /\ ret.wsh.env \in BoundedSeq(EnvVar, 2 * MaxEnv)
       /\ \A i \in DOMAIN ret.wsh.Env :
            ret.wsh.Env[i].name \in ToSet(RLimitNames) /\ ret.wsh.Env[i].value # Nil

\* The process sees one value per variable, and the spec wins: Run passes
\* the container's variables followed by the spec's through dedup, so of
\* several assignments of a key the one given last stays, at its place,
\* and strings without "=" are dropped without hiding an earlier assignment
\* of their key.
RunEnvIsLastAssignment ==
  ret.op = "Run" => ret.wsh.env = LastAssignments(envvars \o ret.wsh.spec.Env)

\* The client of StreamOut comes to the end of its stream, and nothing of
\* the stream is left in the server: once nstar has exited a read of
\* tarRead returns io.EOF, because the server closed its own tarWrite when
\* it had started nstar, and the goroutine of Wait takes the process away.
\* With tarWrite left open the client waits for ever on a pipe that has a
\* writer and no data.
StreamEndsWithTar == (tar = "running") ~> NoStream

\* A call that fails leaves nothing open: StreamOut closes the pipe it made
\* when nstar cannot be started.
FailedStreamOutLeavesNothingOpen == leaked = 0

=============================================================================
