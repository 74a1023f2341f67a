------------------------------ MODULE Logging ------------------------------
(***************************************************************************)
(* What the server writes about itself: the loggers of easylogging++, how  *)
(* main() configures the one called "connection" by -v, and what becomes   *)
(* of a line on the screen and in the log file, up to LOG(FATAL), which    *)
(* ends the process.  The log file may be impossible to create, and the    *)
(* disk may be full for a time.  The worker does the same but never logs a *)
(* fatal error.                                                            *)
(***************************************************************************)
EXTENDS LogConfiguration

CONSTANTS
  MaxLines,    \* log statements run
  MaxOutages   \* times the disk fills up

ASSUME LoggingAssumption == MaxLines \in Nat /\ MaxOutages \in Nat

VARIABLES
  pc,        \* how far the process has got
  verbose,   \* -v was given
  creatable, \* the log file can be opened
  logConf,   \* main()'s own el::Configurations
  loggers,   \* the registered loggers, by name
  streams,   \* the streams of the log file
  full,      \* the disk is full
  outages,   \* how often it has been
  file,      \* the lines in the file
  screen,    \* the lines on standard output
  informed,  \* CLOG(INFO, "connection") statements run
  lines      \* all log statements run

logVars == <<pc, verbose, creatable, logConf, loggers, streams, full, outages, file, screen,
          informed, lines>>

-----------------------------------------------------------------------------
(* Loggers.  Unflushed counts are of lines since the last flush.  The      *)
(* flush with which configure() begins finds nothing: no line is written   *)
(* before main() is done with the loggers.                                 *)
NoneUnflushed == [l \in LevelSet |-> 0]

Configured(conf, strs, can) ==
  LET built == Build(conf, strs, can)
  IN [logger  |-> [conf |-> conf, typed |-> built.typed, unflushed |-> NoneUnflushed],
      streams |-> built.streams]

(* A new logger takes the default configuration.                           *)
NewLogger(strs, can) == Configured(DefaultConfiguration, strs, can)

Registered(regs, id, logger) ==
  [i \in DOMAIN regs \cup {id} |-> IF i = id THEN logger ELSE regs[i]]

(* The default and the performance logger, for a log file that can be      *)
(* opened or not.                                                          *)
FirstLoggers ==
  [can \in BOOLEAN |->
     LET d == NewLogger(NoStreams, can)
         p == NewLogger(d.streams, can)
         c == Configured(SetGlobally(p.logger.conf, "Format", "performance"), p.streams, can)
     IN [loggers |-> Registered(Registered(<<>>, "default", d.logger), "performance", c.logger),
         streams |-> c.streams]]

(* They are registered before main().                                      *)
Storage ==
  /\ pc = "static"
  /\ loggers' = FirstLoggers[creatable].loggers
  /\ streams' = FirstLoggers[creatable].streams
  /\ pc' = "main"
  /\ UNCHANGED <<verbose, creatable, logConf, full, outages, file, screen, informed, lines>>

-----------------------------------------------------------------------------
(* main(): six calls.                                                      *)
ConfSteps == [main |-> "format", format |-> "enabled", enabled |-> "logger"]

SetConf ==
  /\ pc \in DOMAIN ConfSteps
  /\ logConf' = CASE pc = "main"    -> SetToDefault(logConf)
                  [] pc = "format"  -> SetLevel(logConf, "Info", "Format", "connection")
                  [] pc = "enabled" -> SetLevel(logConf, "Global", "Enabled", verbose)
  /\ pc' = ConfSteps[pc]
  /\ UNCHANGED <<verbose, creatable, loggers, streams, full, outages, file, screen, informed,
                 lines>>

GetLogger ==
  /\ pc = "logger"
  /\ LET n == NewLogger(streams, creatable)
     IN /\ loggers' = Registered(loggers, "connection", n.logger)
        /\ streams' = n.streams
  /\ pc' = "reconfigure"
  /\ UNCHANGED <<verbose, creatable, logConf, full, outages, file, screen, informed, lines>>

ReconfigureLogger ==
  /\ pc = "reconfigure"
  /\ LET n == Configured(SetFromBase(loggers["connection"].conf, logConf), streams, creatable)
     IN /\ loggers' = [loggers EXCEPT !["connection"] = n.logger]
        /\ streams' = n.streams
  /\ pc' = "running"
  /\ UNCHANGED <<verbose, creatable, logConf, full, outages, file, screen, informed, lines>>

-----------------------------------------------------------------------------
(* One line.  s is [loggers, streams, file, screen].                       *)
Proceed(s, id, l) == Lookup(s.loggers[id].typed, "Enabled", l)

Line(s, id, l) ==
  [logger |-> id, level |-> l, shown |-> Lookup(s.loggers[id].typed, "Format", l).shown,
   number |-> lines]

(* A stream that fails to hand its buffer over keeps it and is bad.        *)
\* mutant: it drops what it could not write and goes on
FlushedOrDropped(s, h) ==
  LET stream == s.streams.handles[h]
  IN IF full THEN [s EXCEPT !.streams.handles[h].buffer = <<>>]
     ELSE [s EXCEPT !.streams.handles[h].buffer = <<>>, !.file = @ \o stream.buffer]
Flushed(s, h) ==
  LET stream == s.streams.handles[h]
  IN IF stream.buffer = <<>> THEN s
     ELSE IF full THEN [s EXCEPT !.streams.handles[h].bad = TRUE]
     ELSE [s EXCEPT !.streams.handles[h].buffer = <<>>, !.file = @ \o stream.buffer]

(* isFlushNeeded() counts the line first.                                  *)
\* mutant: a line waits for the next one
FlushIsLate(s, id, l) ==
  s.loggers[id].unflushed[l] + 1 > Lookup(s.loggers[id].typed, "LogFlushThreshold", l) + 1
IsFlushNeeded(s, id, l) ==
  s.loggers[id].unflushed[l] + 1 >= Lookup(s.loggers[id].typed, "LogFlushThreshold", l)

WriteToFile(s, id, l, h) ==
  IF s.streams.handles[h].bad THEN s
  ELSE LET written == [s EXCEPT !.streams.handles[h].buffer = Append(@, Line(s, id, l))]
       IN IF IsFlushNeeded(s, id, l)
          THEN [Flushed(written, h) EXCEPT !.loggers[id].unflushed[l] = 0]
          ELSE [written EXCEPT !.loggers[id].unflushed[l] = @ + 1]

Dispatch(s, id, l) ==
  LET typed == s.loggers[id].typed
      h     == Lookup(typed, "FileStream", l)
      s1    == IF Lookup(typed, "ToFile", l) /\ h # 0 THEN WriteToFile(s, id, l, h) ELSE s
  IN IF Lookup(typed, "ToStandardOutput", l)
     THEN [s1 EXCEPT !.screen = Append(@, Line(s, id, l))] ELSE s1

(* The dispatcher of a statement whose logger is switched off does nothing.*)
LogDispatcher(proceed, s, id, l) == IF proceed THEN Dispatch(s, id, l) ELSE s

Written(s, id, l) == LogDispatcher(Proceed(s, id, l), s, id, l)

Now == [loggers |-> loggers, streams |-> streams, file |-> file, screen |-> screen]

Become(s) ==
  /\ loggers' = s.loggers
  /\ streams' = s.streams
  /\ file' = s.file
  /\ screen' = s.screen
  /\ lines' = lines + 1
  /\ UNCHANGED <<verbose, creatable, logConf, full, outages>>

(* The connections' CLOG(INFO, "connection").                              *)
Inform ==
  /\ pc = "running" /\ lines < MaxLines
  /\ Become(Written(Now, "connection", "Info"))
  /\ informed' = informed + 1
  /\ UNCHANGED pc

(* LOG(FATAL) in standingBy(): a dispatched fatal line is followed by a    *)
(* warning and abort(), which hands no buffer over.  What stands after     *)
(* LOG(FATAL) is a throw.                                                  *)
StandingByMessage ==
  /\ pc = "running" /\ lines < MaxLines
  /\ IF Proceed(Now, "default", "Fatal")
     THEN /\ Become(Written(Dispatch(Now, "default", "Fatal"), "default", "Warning"))
          /\ pc' = "aborted"
     ELSE Become(Now) /\ pc' = "threw"
  /\ UNCHANGED informed

(* The end of main(): the streams are flushed and closed.                  *)
Exit ==
  /\ pc = "running"
  /\ LET handed == FoldLeft(Flushed, Now, [h \in DOMAIN streams.handles |-> h])
     IN /\ streams' = handed.streams
        /\ file' = handed.file
  /\ pc' = "ended"
  /\ UNCHANGED <<verbose, creatable, logConf, loggers, full, outages, screen, informed, lines>>

-----------------------------------------------------------------------------
(* The environment: the disk fills up, and is freed again.                 *)
FillUp ==
  /\ ~full /\ outages < MaxOutages
  /\ full' = TRUE
  /\ outages' = outages + 1
  /\ UNCHANGED <<pc, verbose, creatable, logConf, loggers, streams, file, screen, informed,
                 lines>>

FreeUp ==
  /\ full
  /\ full' = FALSE
  /\ UNCHANGED <<pc, verbose, creatable, logConf, loggers, streams, outages, file, screen,
                 informed, lines>>

LogInit ==
  /\ pc = "static"
  /\ verbose \in BOOLEAN
  /\ creatable \in BOOLEAN
  /\ logConf = Empty
  /\ loggers = <<>>
  /\ streams = NoStreams
  /\ full = FALSE /\ outages = 0
  /\ file = <<>> /\ screen = <<>>
  /\ informed = 0 /\ lines = 0

LogNext ==
  \/ Storage \/ SetConf \/ GetLogger \/ ReconfigureLogger
  \/ Inform \/ StandingByMessage \/ Exit
  \/ FillUp \/ FreeUp

LogSpec == LogInit /\ [][LogNext]_logVars

-----------------------------------------------------------------------------
LineRecords ==
  {r \in [logger : {"default", "connection"}, level : LevelSet, shown : LevelSet,
           number : 0..MaxLines] : r.shown = r.level}

(* The variables have their types.  Every line shows its own level: the    *)
(* format of Level::Global, in which "%level" is left as it is, is never   *)
(* what a level falls back to, nor is the format of another level.         *)
LogTypeOK ==
  /\ pc \in {"static", "main", "format", "enabled", "logger", "reconfigure", "running",
             "aborted", "threw", "ended"}
  /\ verbose \in BOOLEAN /\ creatable \in BOOLEAN /\ full \in BOOLEAN
  /\ outages \in 0..MaxOutages /\ lines \in 0..MaxLines /\ informed \in 0..lines
  /\ DOMAIN loggers \subseteq {"default", "performance", "connection"}
  /\ \A i \in DOMAIN screen : screen[i] \in LineRecords
  /\ \A i \in DOMAIN file : file[i] \in LineRecords
  /\ \A h \in DOMAIN streams.handles : streams.handles[h].bad \in BOOLEAN

(* The log file has the lines of the screen, in their order and without a  *)
(* gap: after a full disk nothing more is written to it, though two        *)
(* loggers write the same file.                                            *)
FileFollowsScreen ==
  LET handed == FoldLeft(LAMBDA s, h : s \o streams.handles[h].buffer, file,
                         [h \in DOMAIN streams.handles |-> h])
  IN IsPrefix(handed, screen)

(* A message to a connection that stands by ends the server by abort(),    *)
(* -v or not: the throw that follows LOG(FATAL) is never reached.  The     *)
(* reason is in the log file then, unless the file could not be opened or  *)
(* written: abort() loses what is buffered.                                *)
AbortIsOnRecord ==
  /\ pc # "threw"
  /\ pc = "aborted" =>
       \/ ~creatable
       \/ \E h \in DOMAIN streams.handles : streams.handles[h].bad
       \/ \E i \in DOMAIN file : file[i].level = "Fatal"
=============================================================================
