---------------------------- MODULE Configuration ---------------------------
(***************************************************************************)
(* internal/config: the settings a process starts with (config.go) and the *)
(* watcher and reloader that pass a changed file on (hot_reload.go).       *)
(*                                                                         *)
(* A value is a number: a switch is 0 or 1, a text 1 when it is there and  *)
(* well formed.  The settings are those the validators relate to each      *)
(* other, and one of each kind of the others.                              *)
(***************************************************************************)
EXTENDS Integers, Sequences, FiniteSets

CONSTANTS
  Files,      \* the contents the .env file may have, functions on Settings
  Handlers,   \* registered ConfigReloadHandlers, 1..n in their order
  MaxEdits    \* bound of the model: edits of the file

Settings == {"JIRA_TOKEN", "MIN_WORKERS", "MAX_WORKERS", "SCALE_UP_THRESHOLD",
             "SCALE_DOWN_THRESHOLD", "JWT_ENABLED", "JWT_EXPECTED_AUDIENCE",
             "BIDIRECTIONAL_ENABLED", "BIDIRECTIONAL_CONFLICT_STRATEGY", "JIRA_AUTH_METHOD"}

Unset == -1000

ASSUME ConfigurationAssumption ==
  /\ Files \subseteq [Settings -> Int] /\ MaxEdits \in Nat
  /\ Handlers \in Nat \ {0}

VARIABLES
  file,       \* the file: its content and the version its stat shows
  environ,    \* the environment of the process
  process,    \* "starting", "running" or "exited"
  current,    \* cw.currentCfg, and how many configurations came before it
  watcher,    \* the version in cw.fileInfo, and whether it waits to send
  reloads,    \* reloadChan, of capacity one
  reloader,   \* the configuration handleReloads passes on and to whom next
  handled,    \* per handler: the number of the last configuration it was given
  watchStop   \* Stop has cancelled the context

configVars == <<file, environ, process, current, watcher, reloads, reloader, handled, watchStop>>

-----------------------------------------------------------------------------
(* Load and validate                                                       *)

\* godotenv.Load sets what the environment does not have yet.
DotEnvOverrides(f, env) == [s \in Settings |-> IF f[s] = Unset THEN env[s] ELSE f[s]]

DotEnv(f, env) == [s \in Settings |-> IF env[s] = Unset THEN f[s] ELSE env[s]]

Default == [s \in Settings |->
  CASE s = "MIN_WORKERS" -> 2
    [] s = "MAX_WORKERS" -> 32
    [] s = "SCALE_UP_THRESHOLD" -> 10
    [] s = "SCALE_DOWN_THRESHOLD" -> 2
    [] OTHER -> 0]

\* The settings only NewConfigFromEnv reads, which no one calls at start-up.
NotRead == {"BIDIRECTIONAL_ENABLED", "BIDIRECTIONAL_CONFLICT_STRATEGY", "JIRA_AUTH_METHOD"}

Load(env) == [s \in Settings |-> IF s \in NotRead \/ env[s] = Unset THEN Default[s] ELSE env[s]]

ValidWorkerPool(c) ==
  /\ 1 <= c["MIN_WORKERS"] /\ c["MIN_WORKERS"] <= c["MAX_WORKERS"] /\ c["MAX_WORKERS"] <= 1000
  /\ c["SCALE_UP_THRESHOLD"] >= 1 /\ c["SCALE_DOWN_THRESHOLD"] >= 0
  /\ c["SCALE_UP_THRESHOLD"] > c["SCALE_DOWN_THRESHOLD"]

ValidBidirectionalSync(c) ==
  c["BIDIRECTIONAL_ENABLED"] = 1 => c["BIDIRECTIONAL_CONFLICT_STRATEGY"] = 1

ValidJWT(c) == c["JWT_ENABLED"] = 1 => c["JWT_EXPECTED_AUDIENCE"] = 1

Valid(c) ==
  /\ c["JIRA_TOKEN"] = 1
  /\ ValidWorkerPool(c) /\ ValidBidirectionalSync(c) /\ ValidJWT(c)

-----------------------------------------------------------------------------
Empty == [s \in Settings |-> Unset]

ConfigInit ==
  /\ \E f \in Files : file = [content |-> f, version |-> 0]
  /\ environ = Empty
  /\ process = "starting"
  /\ current = [config |-> Default, number |-> 0]
  /\ watcher = [seen |-> 0, pc |-> "watching"]
  /\ reloads = <<>>
  /\ reloader = [number |-> 0, next |-> 0]
  /\ handled = [h \in 1..Handlers |-> 0]
  /\ watchStop = FALSE

\* main: Load, or exit.  The watcher is started with what was loaded.
StartUp ==
  LET env == DotEnv(file.content, environ) IN
  /\ process = "starting"
  /\ environ' = env
  /\ IF Valid(Load(env))
       THEN /\ process' = "running"
            /\ current' = [config |-> Load(env), number |-> 0]
            /\ watcher' = [watcher EXCEPT !.seen = file.version]
       ELSE process' = "exited" /\ UNCHANGED <<current, watcher>>
  /\ UNCHANGED <<file, reloads, reloader, handled, watchStop>>

\* Someone writes the file.
EditFile ==
  /\ file.version < MaxEdits
  /\ \E f \in Files : file' = [content |-> f, version |-> file.version + 1]
  /\ UNCHANGED <<environ, process, current, watcher, reloads, reloader, handled, watchStop>>

\* checkForChanges: the new stat is stored first, so a load that fails is not
\* tried again.  checkEnvironmentChanges compares the environment with itself.
CheckForChanges ==
  LET env == DotEnv(file.content, environ) IN
  /\ process = "running" /\ watcher.pc = "watching"
  /\ file.version > watcher.seen
  /\ environ' = env
  /\ IF Valid(Load(env))
       THEN /\ current' = [config |-> Load(env), number |-> current.number + 1]
            /\ watcher' = [seen |-> file.version, pc |-> "sending"]
       ELSE /\ watcher' = [watcher EXCEPT !.seen = file.version]
            /\ UNCHANGED current
  /\ UNCHANGED <<file, process, reloads, reloader, handled, watchStop>>

\* A full channel is not waited for.
SendDropping ==
  /\ process = "running" /\ watcher.pc = "sending"
  /\ reloads' = IF reloads = <<>> THEN <<current.number>> ELSE reloads
  /\ watcher' = [watcher EXCEPT !.pc = "watching"]
  /\ UNCHANGED <<file, environ, process, current, reloader, handled, watchStop>>

Send ==
  /\ process = "running" /\ watcher.pc = "sending"
  /\ reloads = <<>>
  /\ reloads' = <<current.number>>
  /\ watcher' = [watcher EXCEPT !.pc = "watching"]
  /\ UNCHANGED <<file, environ, process, current, reloader, handled, watchStop>>

\* handleReloads takes a configuration and calls the handlers one by one.
TakeReload ==
  /\ reloader.next = 0 /\ reloads # <<>>
  /\ reloader' = [number |-> Head(reloads), next |-> 1]
  /\ reloads' = Tail(reloads)
  /\ UNCHANGED <<file, environ, process, current, watcher, handled, watchStop>>

\* OnConfigReload; an error is logged, and the next handler called.
CallHandler ==
  /\ reloader.next > 0
  /\ handled' = [handled EXCEPT ![reloader.next] = reloader.number]
  /\ reloader' = [reloader EXCEPT !.next = IF @ = Handlers THEN 0 ELSE @ + 1]
  /\ UNCHANGED <<file, environ, process, current, watcher, reloads, watchStop>>

StopWatching ==
  /\ process = "running" /\ ~watchStop
  /\ watchStop' = TRUE
  /\ UNCHANGED <<file, environ, process, current, watcher, reloads, reloader, handled>>

\* Both goroutines meet ctx.Done, the watcher also while it waits to send.
WatchLoopExit ==
  /\ watchStop /\ watcher.pc # "stopped"
  /\ watcher' = [watcher EXCEPT !.pc = "stopped"]
  /\ UNCHANGED <<file, environ, process, current, reloads, reloader, handled, watchStop>>

ReloaderExit ==
  /\ watchStop /\ reloader.next = 0
  /\ reloader' = [reloader EXCEPT !.next = -1]
  /\ UNCHANGED <<file, environ, process, current, watcher, reloads, handled, watchStop>>

ConfigNext ==
  \/ StartUp \/ EditFile
  \/ CheckForChanges \/ Send \/ StopWatching \/ WatchLoopExit
  \/ TakeReload \/ CallHandler \/ ReloaderExit

ConfigSpec == ConfigInit /\ [][ConfigNext]_configVars

\* The ticker ticks, and the goroutines and the handlers get on.
ConfigFairness ==
  /\ WF_configVars(CheckForChanges) /\ WF_configVars(Send)
  /\ WF_configVars(TakeReload) /\ WF_configVars(CallHandler)

-----------------------------------------------------------------------------
(* Properties                                                              *)

ConfigTypeOK ==
  /\ file \in [content : Files, version : 0..MaxEdits]
  /\ environ \in [Settings -> Int]
  /\ process \in {"starting", "running", "exited"}
  /\ current \in [config : [Settings -> Int], number : 0..MaxEdits]
  /\ watcher \in [seen : 0..MaxEdits, pc : {"watching", "sending", "stopped"}]
  /\ reloads \in {<<>>} \cup {<<n>> : n \in 1..MaxEdits}
  /\ reloader \in [number : 0..MaxEdits, next : -1..Handlers]
  /\ handled \in [1..Handlers -> 0..MaxEdits]
  /\ watchStop \in BOOLEAN

\* A handler is never further behind than the one configuration that waits
\* to be sent, the one in the channel and the one being handed round; none is
\* ahead of a handler registered before it, and what runs has been validated.
ReloadsInOrder ==
  /\ \A h \in 1..Handlers : current.number - handled[h] <= 3
  /\ \A h \in 2..Handlers : handled[h] <= handled[h - 1]
  /\ handled[1] <= current.number
  /\ process = "running" => Valid(current.config)

\* A setting in effect with another value than its default is not changed by
\* any reload, whatever files were refused in between: a new file only adds.
\* (What a refused file has added stays in the environment, and comes into
\* effect with a later file that makes the whole valid.)
SetOnceStays ==
  [][process = "running" =>
       \A s \in Settings : current.config[s] # Default[s] =>
         current'.config[s] = current.config[s]]_configVars

\* Reloads reach every handler in order, and change nothing that was set.
ReloadsAddInOrder == []ReloadsInOrder /\ SetOnceStays

\* Every handler comes to the current configuration, or to a later one,
\* unless the watcher is stopped.
HandlersCatchUp ==
  \A h \in 1..Handlers, n \in 1..MaxEdits : current.number = n ~> (handled[h] >= n \/ watchStop)
=============================================================================
