---------------------------- MODULE ServerConfig ----------------------------
(***************************************************************************)
(* How the server comes by its settings (src/main.go, src/server/          *)
(* configuration.go, factory.go, src/logger/logger.go): flags, the         *)
(* configuration file, which the first start writes, environment variables *)
(* and defaults, over starts that may be cut short anywhere.               *)
(*                                                                         *)
(* viper is a library: a value set (from the environment) comes before one *)
(* of the file, and that before a default.  Five settings stand for all.   *)
(* The environment gives those of the five whose value decides anything:   *)
(* sub_dicks, the level and the log file.                                  *)
(***************************************************************************)
EXTENDS Integers

CONSTANTS Password,        \* passwords GenerateRandomString may return
          AvailSubDicks,   \* AVAIL_SUBDICKS
          SubDicks,        \* sub_dicks as an operator may write it
          LevelName,       \* LOGLEVEL as an operator may write it
          LogName          \* log files, by name

Unset == "(not set)"
Blank == ""      \* what a variable says that is set to nothing
Off   == -1

ASSUME ConfigAssumption == /\ {"100", "1000"} \subseteq AvailSubDicks
                           /\ Unset \notin Password \cup AvailSubDicks \cup LogName
                           /\ Blank \notin AvailSubDicks \cup LogName
                           /\ "ndb.log" \in LogName

\* The settings in the order WriteConfigAs writes them, section by section.
Line == <<"log", "level", "rto", "pass", "sub">>

Empty == [pass |-> Unset, sub |-> Unset, level |-> Unset, log |-> Unset, rto |-> Unset]

VARIABLES disk,      \* the configuration file: "absent", "torn" or "parses"
          saved,     \* what it says
          env,       \* the environment of this start: settings, Blank or Unset
          flag,      \* -logfile
          opens,     \* the log files that can be opened in this start
          at,        \* where main is, or "off"
          default, conf, set,  \* viper: defaults, the file as read, the environment
          level,     \* LOGLEVEL of the logger
          LogFile,   \* its open file, or Unset
          sub_dicks, \* what NewViperConf returns
          RTO        \* the web server's timeouts

sys   == <<disk, saved>>
start == <<env, flag, opens>>
viper == <<default, conf, set>>
logger == <<level, LogFile>>
out   == <<sub_dicks, RTO>>
cfgVars == <<sys, start, at, viper, logger, out>>

Get(f) == IF set[f] # Unset THEN set[f] ELSE IF conf[f] # Unset THEN conf[f] ELSE default[f]

GetLOGLEVEL(s) == CASE s = "INFO" -> 1 [] s = "WARN" -> 2 [] s = "DEBUG" -> 3
                    [] OTHER -> Off
ToUpper(s) == IF s = "debug" THEN "DEBUG" ELSE s

\* Mutant: an open file is replaced.
LogStartAgain(current, name) == IF name \in opens THEN name ELSE current

\* A file that cannot be opened leaves LogFile nil, and the next call tries its own.
LogStart(current, name) == IF current # Unset THEN current
                           ELSE IF name \in opens THEN name ELSE Unset

CfgInit == /\ disk = "absent" /\ saved = Empty
           /\ at = "off"
           /\ env = Empty /\ flag = Unset /\ opens = {}
           /\ default = Empty /\ conf = Empty /\ set = Empty
           /\ level = Off /\ LogFile = Unset
           /\ sub_dicks = Unset /\ RTO = Unset

\* A process that ends leaves the file behind.
MemoryGone == /\ at' = "off"
              /\ env' = Empty /\ flag' = Unset /\ opens' = {}
              /\ default' = Empty /\ conf' = Empty /\ set' = Empty
              /\ level' = Off /\ LogFile' = Unset
              /\ sub_dicks' = Unset /\ RTO' = Unset
              /\ UNCHANGED sys
----------------------------------------------------------------------------
(* main *)

\* The first level is that of LOGLEVEL as it is spelt.
NewLogger == /\ at = "off" /\ at' = "stat"
             /\ \E s \in SubDicks \cup {Unset, Blank}, l \in LevelName \cup {Unset, Blank},
                   n \in LogName \cup {Unset, Blank} :
                   /\ env' = [Empty EXCEPT !.sub = s, !.level = l, !.log = n]
                   /\ level' = IF l = Unset THEN 1 ELSE GetLOGLEVEL(l)
             /\ flag' \in LogName \cup {Unset}
             /\ opens' \in SUBSET LogName
             /\ LogFile' = IF flag' \in opens' THEN flag' ELSE Unset
             /\ UNCHANGED <<sys, viper, out>>

\* Mutant: the file is created anew on every start.
FindFileAlways == /\ at = "stat" /\ at' = "defaults"
                  /\ UNCHANGED <<sys, start, viper, logger, out>>

FindFile == /\ at = "stat" /\ at' = IF disk = "absent" THEN "defaults" ELSE "read"
            /\ UNCHANGED <<sys, start, viper, logger, out>>
----------------------------------------------------------------------------
(* createDefaultConfigFile *)

SetDefaults == /\ at = "defaults" /\ at' = "create"
               /\ \E p \in Password :
                     default' = [pass |-> p, sub |-> "100", level |-> "INFO",
                                 log |-> "ndb.log", rto |-> "5"]
               /\ level' = GetLOGLEVEL(default'.level)
               /\ UNCHANGED <<sys, start, conf, set, LogFile, out>>

\* WriteConfigAs creates an empty file, then writes it; its error is ignored.
CreateFile == /\ at = "create" /\ at' = "fill"
              /\ \/ disk' = "parses" /\ saved' = Empty
                 \/ UNCHANGED sys
              /\ UNCHANGED <<start, viper, logger, out>>

\* What a file says that was cut after n lines: it parses all the same.
Cut(n) == [f \in DOMAIN Empty |-> IF \E i \in 1..n : Line[i] = f THEN default[f] ELSE Unset]

FillFile == /\ at = "fill" /\ at' = "read"
            /\ \/ /\ disk = "parses" /\ disk' = "parses"
                  /\ \E n \in 0..5 : saved' = Cut(n)
               \/ disk = "parses" /\ disk' = "torn" /\ UNCHANGED saved
               \/ UNCHANGED sys
            /\ UNCHANGED <<start, viper, logger, out>>
----------------------------------------------------------------------------
(* NewViperConf *)

\* log.Fatalf when the file is missing or does not parse.
ReadInConfig == /\ at = "read"
                /\ \/ disk = "parses" /\ at' = "envs" /\ conf' = saved
                      /\ UNCHANGED <<sys, start, default, set, logger, out>>
                   \/ disk # "parses" /\ MemoryGone

ReadConfigsFromEnvs ==
    /\ at = "envs" /\ at' = "init"
    /\ set' = [env EXCEPT !.level = ToUpper(@)]
    /\ level' = IF env.level = Unset THEN level ELSE GetLOGLEVEL(ToUpper(env.level))
    /\ UNCHANGED <<sys, start, default, conf, LogFile, out>>

\* A valid sub_dicks returns before the timeouts are read.
initDB == /\ at = "init" /\ at' = "factory"
          /\ IF Get("sub") \in AvailSubDicks
             THEN sub_dicks' = Get("sub") /\ UNCHANGED RTO
             ELSE sub_dicks' = "1000" /\ RTO' = Get("rto")
          /\ UNCHANGED <<sys, start, viper, logger>>

\* NewNDBServer opens the log file of the configuration, unless -logfile did.
NewNDBServer == /\ at = "factory" /\ at' = "run"
                /\ LogFile' = LogStart(LogFile, Get("log"))
                /\ UNCHANGED <<sys, start, viper, level, out>>
----------------------------------------------------------------------------
\* The process is killed, anywhere, or told to stop.
ProcessEnds == at # "off" /\ MemoryGone

\* Between starts the operator edits a file that parses, or removes it.
Edit == /\ at = "off" /\ disk # "absent"
        /\ \/ disk = "parses" /\ UNCHANGED disk
              /\ \E s \in SubDicks, l \in LevelName, n \in LogName :
                    saved' = [saved EXCEPT !.sub = s, !.level = l, !.log = n]
           \/ disk' = "absent" /\ saved' = Empty
        /\ UNCHANGED <<start, at, viper, logger, out>>

CfgNext == \/ NewLogger \/ FindFile \/ SetDefaults \/ CreateFile \/ FillFile
           \/ ReadInConfig \/ ReadConfigsFromEnvs \/ initDB \/ NewNDBServer
           \/ ProcessEnds \/ Edit

CfgSpec == CfgInit /\ [][CfgNext]_cfgVars
----------------------------------------------------------------------------
(* Properties *)

\* The database is never built with a number of sub-dictionaries it does not
\* support, whatever file, environment and crashes led there: "always return at
\* least 10 so we don't fail" (src/server/configuration.go:176).
SubDicksValid == at = "run" => sub_dicks \in AvailSubDicks

\* Credentials once written are kept by every later start, complete or not; only
\* the operator loses them.  A first start cut short may have written none.
CredentialsKept == [][at # "off" /\ saved.pass # Unset => saved'.pass = saved.pass]_cfgVars

\* "capture the flags: overwrites config file settings!" (src/main.go:30): with
\* -logfile, logs go there if the file can be opened, else to the configured one.
LogFileInForce ==
    at = "run" => LogFile = IF flag \in opens THEN flag
                            ELSE IF Get("log") \in opens THEN Get("log") ELSE Unset

\* The server runs with the level LOGLEVEL names in either case, or with INFO,
\* on the first start as on the others; log.loglevel of a file does not count.
LevelInForce ==
    at = "run" => level = IF env.level = Unset THEN 1 ELSE GetLOGLEVEL(ToUpper(env.level))

\* What the server runs with is what flag, environment, file and defaults say,
\* in their order, after any crash of an earlier start.
SettingsInForce == SubDicksValid /\ LogFileInForce /\ LevelInForce
=============================================================================
