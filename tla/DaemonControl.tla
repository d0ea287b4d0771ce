---------------------------- MODULE DaemonControl ----------------------------
(***************************************************************************)
(* The daemon as a process: `junco start` and its three claims, the main   *)
(* loop up to its shutdown, the configuration it follows, the service unit *)
(* that supervises it, and the commands that look at it through its        *)
(* pidfile: restart, update, the dashboard's ensureDaemon, and status.     *)
(*                                                                         *)
(* A claim is taken and given up in one step (PidfileLock has the file     *)
(* system calls): a pidfile names a pid, and counts while that pid lives.  *)
(* Two installations are two configuration directories; their data roots   *)
(* or their queue roots may be one.                                        *)
(***************************************************************************)
EXTENDS Integers, FiniteSets

CONSTANTS
    Installs,       \* configuration directories
    Supervised,     \* those a service unit starts
    Ports,          \* of each installation: observability.healthPort
    Scenarios,      \* where their roots lie, and how often each thing may happen
    MaxPids         \* bound on the processes ever started

ASSUME DaemonAssumption ==
    /\ Supervised \subseteq Installs /\ MaxPids \in Nat \ {0}
    /\ 0 \notin Installs
    /\ Scenarios \subseteq
        [data : [Installs -> Nat], queue : [Installs -> Nat], edits : Nat, hands : Nat, boots : Nat,
         commands : Nat, mishaps : Nat, signals : Nat, tickets : Nat, outages : Nat]

VARIABLES
    daemons,    \* the processes `junco start` ever was, by pid
    claims,     \* the pid each pidfile names; 0 where there is none
    units,      \* of each installation: its unit's process, and what it was told
    file,       \* of each installation: config.json
    installed,  \* the version of the code on disk
    endpoint,   \* the inference endpoint answers
    command,    \* the command an operator runs (one in a behaviour)
    spare       \* the scenario, with what is left of its counts

daemonVars == <<daemons, claims, units, file, installed, endpoint, command, spare>>

Pids == DOMAIN daemons
Spend(what) == spare[what] > 0 /\ spare' = [spare EXCEPT ![what] = @ - 1]
Mishap == Spend("mishaps")

\* daemonLockPaths: the worker lock is the configuration's, the others' names
\* are the roots'.
Worker(i) == <<"worker", i>>
Tree(i) == <<"tree", spare.data[i]>>
Queue(i) == <<"queue", spare.queue[i]>>
Claimed(i) == {Worker(i), Tree(i), Queue(i)}
Pidfiles == UNION {Claimed(i) : i \in Installs}

Live(p) == daemons[p].at # "gone"
Holder(name) == IF claims[name] # 0 /\ Live(claims[name]) THEN claims[name] ELSE 0

\* The configuration is one lever that is applied live, and one that is not.
Config == [hot : {0, 1}, frozen : {0, 1}]
NoConfig == [hot |-> 0 - 1, frozen |-> 0 - 1]
Zero == [hot |-> 0, frozen |-> 0]

Born(i) ==
    [of |-> i, at |-> "loading", code |-> installed, cfg |-> Zero, held |-> Zero, prev |-> NoConfig,
     watching |-> FALSE, due |-> FALSE, told |-> FALSE, blind |-> FALSE, stops |-> 0,
     fatal |-> FALSE, exit |-> "none"]

NoCommand == [name |-> "none", of |-> 0, at |-> "idle", old |-> 0, count |-> 0, kick |-> TRUE,
              starting |-> FALSE, late |-> FALSE, verdict |-> "none", pid |-> 0]

DaemonInit ==
    /\ spare \in Scenarios
    /\ daemons = <<>> /\ installed = 0 /\ endpoint = TRUE
    /\ claims = [n \in Pidfiles |-> 0]
    /\ units = [i \in Installs |-> [pid |-> 0, job |-> "none"]]
    /\ file = [i \in Installs |-> [ok |-> TRUE, value |-> Zero]]
    /\ command = NoCommand

Launch(i) ==
    /\ Cardinality(Pids) < MaxPids
    /\ daemons' = [p \in 1 .. Cardinality(Pids) + 1 |-> IF p \in Pids THEN daemons[p] ELSE Born(i)]
NewPid == Cardinality(Pids) + 1

-----------------------------------------------------------------------------
(* runStartCommand.                                                        *)

At(p, where) == p \in Pids /\ daemons[p].at = where
Go(p, where) == daemons' = [daemons EXCEPT ![p].at = where]
\* The one `finally`: what was taken is handed back, and the process exits.
Gone(p, how) ==
    daemons' = [daemons EXCEPT ![p] =
        [Born(@.of) EXCEPT !.at = "gone", !.code = daemons[p].code, !.exit = how]]
Exit(p, how) ==
    /\ Gone(p, how)
    /\ claims' = [n \in Pidfiles |-> IF claims[n] = p THEN 0 ELSE claims[n]]
\* It dies where it stands, and leaves its pidfiles.
Die(p, how) == Gone(p, how) /\ UNCHANGED claims

startVars == <<units, file, installed, endpoint, command>>

Load(p) ==
    /\ At(p, "loading")
    /\ LET f == file[daemons[p].of] IN
       IF f.ok
       THEN /\ daemons' = [daemons EXCEPT ![p].at = "auth", ![p].cfg = f.value, ![p].held = f.value]
            /\ UNCHANGED claims
       ELSE Exit(p, "failed")
    /\ UNCHANGED <<startVars, spare>>

\* withBotAuth: before any claim, and it may refuse.
Auth(p) ==
    /\ At(p, "auth")
    /\ \/ Go(p, "worker") /\ UNCHANGED <<claims, spare>>
       \/ Mishap /\ Exit(p, "failed")
    /\ UNCHANGED startVars

\* Whoever lives keeps its claim; a dead owner's is stolen. A refusal is no
\* failure: the supervisor is to stay down.
Claim(p, here, name, next) ==
    /\ At(p, here)
    /\ \/ /\ Holder(name) = 0 /\ claims' = [claims EXCEPT ![name] = p] /\ Go(p, next)
          /\ UNCHANGED spare
       \/ Holder(name) # 0 /\ Exit(p, "refused") /\ UNCHANGED spare
       \/ Mishap /\ Exit(p, "failed")               \* the directory cannot be written
    /\ UNCHANGED startVars
ClaimWorker(p) == Claim(p, "worker", Worker(daemons[p].of), "tree")
ClaimTree(p) == Claim(p, "tree", Tree(daemons[p].of), "queue")
ClaimQueue(p) == Claim(p, "queue", Queue(daemons[p].of), "watch")

\* Signal handlers and watchConfig: the baseline is read from the file again.
\* No watcher is no reason to stop.
WatchConfig(p) ==
    /\ At(p, "watch")
    /\ LET f == file[daemons[p].of] IN
       \/ /\ daemons' = [daemons EXCEPT ![p].at = "setup", ![p].watching = TRUE,
                                        ![p].prev = IF f.ok THEN f.value ELSE NoConfig,
                                        ![p].blind = @ \/ ~f.ok]
          /\ UNCHANGED spare
       \/ Mishap /\ Go(p, "setup")
    /\ UNCHANGED <<claims, startVars>>

-----------------------------------------------------------------------------
(* mainLoop.                                                               *)

\* Migration, directories, orphan recovery and pruning, in one go.
Setup(p) ==
    /\ At(p, "setup")
    /\ \/ Go(p, "wait") /\ UNCHANGED <<claims, spare>>
       \/ Mishap /\ Exit(p, "failed")
    /\ UNCHANGED startVars

\* Mutant: only the endpoint ends the wait.
WaitDeaf(p) == At(p, "wait") /\ endpoint /\ Go(p, "serve") /\ UNCHANGED <<claims, startVars, spare>>
WaitForEndpoint(p) ==
    /\ At(p, "wait") /\ (endpoint \/ daemons[p].stops > 0) /\ Go(p, "serve")
    /\ UNCHANGED <<claims, startVars, spare>>

TakeTicket(p) ==
    /\ At(p, "serve") /\ daemons[p].stops = 0 /\ Spend("tickets") /\ Go(p, "busy")
    /\ UNCHANGED <<claims, startVars>>
EndTicket(p) ==
    /\ At(p, "busy") /\ Go(p, "serve")
    /\ UNCHANGED <<claims, startVars, spare>>

LeaveLoop(p) ==
    /\ At(p, "serve")
    /\ \/ daemons[p].stops > 0 /\ Go(p, "closing") /\ UNCHANGED spare
       \/ Mishap /\ daemons' = [daemons EXCEPT ![p].at = "closing", ![p].fatal = TRUE]
    /\ UNCHANGED <<claims, startVars>>

\* The chat drains, the health server closes, the claims are handed back.
\* Mutant: the claims are handed back before the loop has ended its work.
CloseEarly(p) ==
    /\ \/ At(p, "closing") /\ Exit(p, IF daemons[p].fatal THEN "failed" ELSE "clean")
       \/ /\ At(p, "busy") /\ daemons[p].stops > 0
          /\ claims' = [n \in Pidfiles |-> IF claims[n] = p THEN 0 ELSE claims[n]]
          /\ UNCHANGED daemons
    /\ UNCHANGED <<startVars, spare>>
Close(p) ==
    /\ At(p, "closing") /\ Exit(p, IF daemons[p].fatal THEN "failed" ELSE "clean")
    /\ UNCHANGED <<startVars, spare>>

\* SIGTERM. Before the handlers it is the process's end; then it asks for a
\* stop, forces one, and at the third time exits at once.
Handling == {"setup", "wait", "serve", "busy", "closing"}
Term(p) ==
    IF daemons[p].at \notin Handling THEN Die(p, "signal")
    ELSE IF daemons[p].stops = 2 THEN Die(p, "failed")
    ELSE daemons' = [daemons EXCEPT ![p].stops = @ + 1] /\ UNCHANGED claims
Signal(p) == p \in Pids /\ Live(p) /\ Spend("signals") /\ Term(p) /\ UNCHANGED startVars
Kill(p) == p \in Pids /\ Live(p) /\ Mishap /\ Die(p, "killed") /\ UNCHANGED startVars

-----------------------------------------------------------------------------
(* The configuration file, and configWatcher.ts.                           *)

\* A processes' watcher is told; one that has not got one yet is not.
EditConfig(i) ==
    /\ Spend("edits")
    /\ \E ok \in BOOLEAN, v \in Config :
        /\ [ok |-> ok, value |-> v] # file[i] /\ (~ok => v = file[i].value)
        /\ file' = [file EXCEPT ![i] = [ok |-> ok, value |-> v]]
    /\ daemons' = [p \in Pids |-> [daemons[p] EXCEPT
            !.due = @ \/ (daemons[p].of = i /\ daemons[p].watching),
            !.blind = @ \/ (daemons[p].of = i /\ daemons[p].at \in
                                {"auth", "worker", "tree", "queue", "watch"})]]
    /\ UNCHANGED <<claims, units, installed, endpoint, command>>

\* Mutant: a second edit is compared with the configuration of the start.
ReloadFromStart(p) ==
    /\ p \in Pids /\ daemons[p].due /\ Live(p)
    /\ LET f == file[daemons[p].of] IN
       daemons' = [daemons EXCEPT ![p].due = FALSE, ![p].held = IF f.ok THEN f.value ELSE @]
    /\ UNCHANGED <<claims, startVars, spare>>
\* The debounced reload. What does not parse is not adopted.
Reload(p) ==
    /\ p \in Pids /\ daemons[p].due /\ Live(p)
    /\ LET f == file[daemons[p].of]
           d == [daemons[p] EXCEPT !.due = FALSE]
       IN  daemons' = [daemons EXCEPT ![p] =
            IF ~f.ok THEN d
            ELSE [d EXCEPT !.held = f.value, !.prev = f.value,
                           !.told = @ \/ (d.prev # NoConfig /\ d.prev.frozen # f.value.frozen)]]
    /\ UNCHANGED <<claims, startVars, spare>>

-----------------------------------------------------------------------------
(* The unit (service.ts): started again after a failure, 30 seconds later, *)
(* and not after a clean exit. Death by SIGTERM is a failure to launchd    *)
(* and none to systemd.                                                    *)

UnitOf(i) == units[i].pid
Over(i) == UnitOf(i) # 0 /\ ~Live(UnitOf(i))
\* Mutant: a refusal exits with 1.
ExitCodeLoud(how) == IF how = "clean" THEN 0 ELSE 1
ExitCode(how) == IF how \in {"clean", "refused"} THEN 0 ELSE 1

unitRest == <<claims, file, installed, endpoint, command>>
Start(i, job) == Launch(i) /\ units' = [units EXCEPT ![i] = [pid |-> NewPid, job |-> job]]

\* The unit is loaded: RunAtLoad, or enabled.
Boot(i) ==
    /\ i \in Supervised /\ UnitOf(i) = 0 /\ Spend("boots") /\ Start(i, "none") /\ UNCHANGED unitRest
Respawn(i) ==
    /\ Over(i) /\ units[i].job = "none" /\ ExitCode(daemons[UnitOf(i)].exit) # 0
    /\ Start(i, "none") /\ UNCHANGED <<unitRest, spare>>
StayDown(i) ==
    /\ Over(i) /\ units[i].job = "none"
    /\ ExitCode(daemons[UnitOf(i)].exit) = 0 \/ daemons[UnitOf(i)].exit = "signal"
    /\ units' = [units EXCEPT ![i].pid = 0]
    /\ UNCHANGED <<daemons, unitRest, spare>>
\* A restart job waits for the old process, whatever it exits with.
RestartJob(i) ==
    /\ units[i].job = "restart" /\ (UnitOf(i) = 0 \/ Over(i))
    /\ Start(i, "none") /\ UNCHANGED <<unitRest, spare>>

\* `junco start` in a terminal.
HandStart(i) == Spend("hands") /\ Launch(i) /\ UNCHANGED <<unitRest, units>>

EndpointTurns ==
    /\ Spend("outages") /\ endpoint' = ~endpoint
    /\ UNCHANGED <<daemons, claims, units, file, installed, command>>

-----------------------------------------------------------------------------
(* Commands. Each reads the worker lock, and judges by what it reads.      *)

Asking(name, at) == command.name \in name /\ command.at = at
Next1(at) == command' = [command EXCEPT !.at = at]
Verdict(v, p) == command' = [command EXCEPT !.at = "done", !.verdict = v, !.pid = p]
WorkerOf(i) == Holder(Worker(i))
askVars == <<daemons, claims, units, file, installed, endpoint, spare>>

\* A process of the installation that does not hold its lock yet.
Starting(i) ==
    \E p \in Pids : daemons[p].of = i /\ daemons[p].at \in {"loading", "auth", "worker"}

Ask(i, name) ==
    /\ command.at = "idle" /\ Spend("commands")
    /\ command' = [command EXCEPT !.name = name, !.of = i, !.at = "begin"]
    /\ UNCHANGED <<daemons, claims, units, file, installed, endpoint>>
\* runRestartCommand: the checkout's preflight, the unit, the old pid.
RestartBegins ==
    /\ Asking({"restart"}, "begin")
    /\ \/ Verdict("refused", 0)
       \/ command.of \notin Supervised /\ Verdict("no unit", 0)
       \/ command.of \in Supervised /\ Next1("old")
    /\ UNCHANGED askVars
ReadOld ==
    /\ Asking({"restart", "update"}, "old")
    /\ command' = [command EXCEPT !.at = "kick", !.old = WorkerOf(command.of),
                                  !.count = Cardinality(Pids), !.starting = Starting(command.of)]
    /\ UNCHANGED askVars

\* kickstartService. What it says is no verdict: it may fail with nothing
\* done, with the job done, or with the unit stopped and not started.
StopUnit(i) == IF UnitOf(i) # 0 /\ Live(UnitOf(i)) THEN Term(UnitOf(i)) ELSE UNCHANGED <<daemons, claims>>
Kick ==
    LET i == command.of IN
    /\ Asking({"restart", "update", "ensure"}, "kick")
    /\ \/ /\ StopUnit(i) /\ units' = [units EXCEPT ![i].job = "restart"]
          /\ \/ command' = [command EXCEPT !.at = "poll", !.kick = TRUE] /\ UNCHANGED spare
             \/ Mishap /\ command' = [command EXCEPT !.at = "poll", !.kick = FALSE]
       \/ /\ Mishap /\ command' = [command EXCEPT !.at = "poll", !.kick = FALSE]
          /\ UNCHANGED <<daemons, claims, units>>
       \/ /\ Mishap /\ command' = [command EXCEPT !.at = "poll", !.kick = FALSE]
          /\ UnitOf(i) # 0 /\ StopUnit(i) /\ UNCHANGED units
    /\ UNCHANGED <<file, installed, endpoint>>

\* Mutant: any holder will do.
ChangedAny(p) == p # 0
Changed(p) == p # 0 /\ p # command.old
Poll ==
    /\ Asking({"restart", "update"}, "poll")
    /\ IF Changed(WorkerOf(command.of)) THEN Verdict("restarted", WorkerOf(command.of))
       ELSE Next1("conclude")                          \* the time is up
    /\ UNCHANGED askVars
Conclude ==
    LET now == WorkerOf(command.of) IN
    /\ Asking({"restart", "update"}, "conclude")
    /\ IF command.kick THEN Verdict("no change", 0)
       ELSE IF now = 0 THEN Verdict("down", 0)
       ELSE command' = [command EXCEPT !.at = "done", !.verdict = "still running", !.pid = now,
                                       !.late = now # command.old]
    /\ UNCHANGED askVars

\* runUpdateCommand: the install strictly before the restart.
UpdateBegins ==
    /\ Asking({"update"}, "begin")
    /\ \/ Verdict("nothing to do", 0) /\ UNCHANGED installed
       \/ installed = 0 /\ installed' = 1 /\ Next1("look")
    /\ UNCHANGED <<daemons, claims, units, file, endpoint, spare>>
UpdateLooks ==
    /\ Asking({"update"}, "look")
    /\ IF WorkerOf(command.of) = 0
       THEN command' = [command EXCEPT !.at = "done", !.verdict = "not running",
                                       !.starting = Starting(command.of)]
       ELSE IF command.of \notin Supervised THEN Verdict("manual", WorkerOf(command.of))
       ELSE Next1("old")
    /\ UNCHANGED askVars

\* ensureDaemon.
EnsureBegins ==
    /\ Asking({"ensure"}, "begin")
    /\ IF WorkerOf(command.of) # 0 THEN Verdict("running", WorkerOf(command.of))
       ELSE IF command.of \notin Supervised THEN Verdict("no unit", 0) ELSE Next1("kick")
    /\ UNCHANGED askVars
EnsurePolls ==
    /\ Asking({"ensure"}, "poll")
    /\ IF ~command.kick \/ WorkerOf(command.of) = 0 THEN Verdict("start-failed", 0)
       ELSE Verdict("started", WorkerOf(command.of))
    /\ UNCHANGED askVars

\* runStatusCommand: /health answers for whoever got the port, and only then
\* the lock is asked.
Answering == {"serve", "busy", "closing"}
StatusFetches ==
    /\ Asking({"status"}, "begin")
    /\ \/ \E p \in Pids : /\ daemons[p].at \in Answering /\ Ports[daemons[p].of] = Ports[command.of]
                          /\ Verdict("running", p)
       \/ Next1("lock")                             \* nobody, or not in time
    /\ UNCHANGED askVars
StatusReads ==
    /\ Asking({"status"}, "lock")
    /\ IF WorkerOf(command.of) = 0 THEN Verdict("not running", 0)
       ELSE Verdict("not responding", WorkerOf(command.of))
    /\ UNCHANGED askVars

-----------------------------------------------------------------------------
Advance(p) ==
    \/ Load(p) \/ Auth(p) \/ ClaimWorker(p) \/ ClaimTree(p) \/ ClaimQueue(p) \/ WatchConfig(p)
    \/ Setup(p) \/ WaitForEndpoint(p) \/ EndTicket(p) \/ LeaveLoop(p) \/ Close(p)
Supervise(i) == Respawn(i) \/ StayDown(i) \/ RestartJob(i)
Ongoing ==
    \/ RestartBegins \/ ReadOld \/ Kick \/ Poll \/ Conclude \/ UpdateBegins \/ UpdateLooks
    \/ EnsureBegins \/ EnsurePolls \/ StatusFetches \/ StatusReads

DaemonNext ==
    \/ \E p \in Pids : Advance(p) \/ TakeTicket(p) \/ Signal(p) \/ Kill(p) \/ Reload(p)
    \/ \E i \in Installs :
        \/ Supervise(i) \/ Boot(i) \/ HandStart(i) \/ EditConfig(i)
        \/ \E name \in {"restart", "update", "ensure", "status"} : Ask(i, name)
    \/ EndpointTurns \/ Ongoing

-----------------------------------------------------------------------------
DaemonTypeOK ==
    /\ \A n \in Pidfiles : claims[n] \in 0 .. MaxPids
    /\ \A p \in Pids : daemons[p].held \in Config /\ daemons[p].stops \in 0 .. 2
    /\ \A i \in Installs : units[i].pid \in Pids \cup {0} /\ units[i].job \in {"none", "restart"}

Working == {"watch"} \cup Handling

\* Two daemons never work on one data root or on one queue, whichever
\* configurations started them (startCmd.ts; #310).
OneDaemonPerRoot ==
    \A p, q \in Pids :
        p # q /\ daemons[p].at \in Working /\ daemons[q].at \in Working
        => Claimed(daemons[p].of) \cap Claimed(daemons[q].of) = {}

\* A process that works has all of its claims, and one that came to its end by
\* itself has none.
ClaimsFollow ==
    \A p \in Pids :
        /\ daemons[p].at \in Working => \A n \in Claimed(daemons[p].of) : claims[n] = p
        /\ daemons[p].exit \in {"clean", "refused"} => \A n \in Pidfiles : claims[n] # p

\* What the daemon goes by is what the file says: the live lever is the file's,
\* and a lever that needs a restart has been reported - once the reload has run,
\* and unless the file was edited, or did not parse, between the load of the
\* configuration and the watcher's own (configWatcher.ts:97-102).
ConfigFollows ==
    \A p \in Pids :
        LET d == daemons[p]
            f == file[d.of]
        IN  d.watching /\ d.at \in Handling /\ ~d.due /\ ~d.blind /\ f.ok
            => d.held = f.value /\ (f.value.frozen # d.cfg.frozen => d.told)

\* What a command says is so: "restarted" names a process started after the old
\* one was looked up, and after an update one of the new code; "still running"
\* the old one. Exempt is a process that was about to take the lock and did not
\* show yet (restartCmd.ts:262, updateCmd.ts:133), and a holder that came
\* between the last poll and the verdict (restartCmd.ts:295).
VerdictsAreTrue ==
    command.at = "done" =>
        /\ command.verdict = "restarted" /\ ~command.starting =>
            /\ command.pid > command.count
            /\ command.name = "update" => daemons[command.pid].code = installed
        /\ command.verdict = "still running" /\ ~command.late => command.pid = command.old
        /\ command.name = "update" /\ command.verdict = "not running" /\ ~command.starting =>
            \A p \in Pids : Live(p) /\ daemons[p].of = command.of => daemons[p].code = installed

\* What the daemon goes by, and what a command says of it, is true.
DaemonTellsTheTruth == ConfigFollows /\ VerdictsAreTrue

\* A refused start is not tried again by the unit (startCmd.ts:222-232).
RefusedStaysDown ==
    [][\A i \in Installs :
        Over(i) /\ daemons[UnitOf(i)].exit = "refused" /\ units[i].job = "none"
            => units'[i].pid \in {UnitOf(i), 0}]_daemonVars

\* A daemon that was asked to stop stops, also while it waits for its endpoint;
\* a command comes to its verdict; and a unit whose daemon failed has one that
\* works, or waits for the endpoint, in the end.
StopsAreHeeded == \A p \in Pids : Live(p) => daemons[p].stops = 0
CommandEnds == command.at \in {"idle", "done"}
UnitsAreBack ==
    \A i \in Supervised :
        \/ UnitOf(i) = 0 \/ Cardinality(Pids) = MaxPids
        \/ daemons[UnitOf(i)].at \in {"serve", "busy"}
        \/ daemons[UnitOf(i)].at = "wait" /\ ~endpoint
=============================================================================
