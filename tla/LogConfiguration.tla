-------------------------- MODULE LogConfiguration --------------------------
(***************************************************************************)
(* The configuration of one logger of easylogging++.  el::Configurations   *)
(* is an ordered list of (level, type, value); as no type meets another in *)
(* it, it is kept here as one list of (level, value) for every type.       *)
(* TypedConfigurations is what a logger looks its settings up in: for      *)
(* every type a map with the value of Level::Global and of those levels    *)
(* only whose value differs.  Of a format only what it does with %level is *)
(* kept; a handle is an open stream of the log file, 0 the null pointer.   *)
(***************************************************************************)
EXTENDS Naturals, Sequences, SequencesExt

(* forEachLevel() doubles the enumeration's value from Trace to Info.      *)
Levels == <<"Trace", "Debug", "Fatal", "Error", "Warning", "Verbose", "Info">>
LevelSet == {Levels[i] : i \in DOMAIN Levels}

FlagTypes == {"Enabled", "ToFile", "ToStandardOutput", "PerformanceTracking"}
NumberTypes == {"MillisecondsWidth", "MaxLogFileSize", "LogFlushThreshold"}
ConfigurationTypes == FlagTypes \cup NumberTypes \cup {"Format", "Filename"}

LogFile == "logs/myeasylog.log"

-----------------------------------------------------------------------------
(* el::Configurations.  A value goes to its level if that is there, and is *)
(* put at the end if it is not.                                            *)
Empty == [t \in ConfigurationTypes |-> <<>>]

HasLevel(list, l) == \E i \in DOMAIN list : list[i].level = l

SetOne(list, c) ==
  IF HasLevel(list, c.level)
  THEN [i \in DOMAIN list |-> IF list[i].level = c.level THEN c ELSE list[i]]
  ELSE Append(list, c)

SetEach(list, cs) == FoldLeft(SetOne, list, cs)

AllLevels(v) == [i \in DOMAIN Levels |-> [level |-> Levels[i], value |-> v]]

(* A value of Level::Global is given to every level as well.               *)
SetList(list, c) ==
  IF c.level = "Global" THEN SetEach(SetOne(list, c), AllLevels(c.value)) ELSE SetOne(list, c)

\* mutant: it is stored for Level::Global only
SetOneLevel(conf, l, t, v) == [conf EXCEPT ![t] = SetOne(@, [level |-> l, value |-> v])]
SetLevel(conf, l, t, v) == [conf EXCEPT ![t] = SetList(@, [level |-> l, value |-> v])]

SetGlobally(conf, t, v) == [conf EXCEPT ![t] = SetEach(@, AllLevels(v))]

SetFromBase(conf, base) ==
  [t \in ConfigurationTypes |-> FoldLeft(SetList, conf[t], base[t])]

Defaults ==
  [Enabled |-> TRUE, Filename |-> LogFile, ToFile |-> TRUE, ToStandardOutput |-> TRUE,
   MillisecondsWidth |-> 3, PerformanceTracking |-> TRUE, MaxLogFileSize |-> 0,
   LogFlushThreshold |-> 0, Format |-> "default"]

DefaultFormats ==
  <<[level |-> "Debug", value |-> "debug"], [level |-> "Error", value |-> "default"],
    [level |-> "Fatal", value |-> "default"], [level |-> "Verbose", value |-> "verbose"],
    [level |-> "Trace", value |-> "trace"]>>

(* setGlobally() sets every level once more, which changes nothing.        *)
SetToDefault(conf) ==
  [t \in ConfigurationTypes |->
     LET list == SetList(conf[t], [level |-> "Global", value |-> Defaults[t]])
     IN IF t = "Format" THEN FoldLeft(SetList, list, DefaultFormats) ELSE list]

(* What a new logger has.                                                  *)
DefaultConfiguration == SetFromBase(Empty, SetToDefault(Empty))

-----------------------------------------------------------------------------
(* LogFormat: the name of the level is put into the text when the format   *)
(* is made; Level::Global leaves "%level" as it is.                        *)
LogFormat(l, f) == [level |-> l, user |-> f, shown |-> IF l \in LevelSet THEN l ELSE "%level"]

\* mutant: formats of different levels are equal
SameText(t, a, b) == IF t = "Format" THEN a.user = b.user ELSE a = b
SameValue(t, a, b) == a = b

(* LogFormat's assignment leaves the text it replaces in place.            *)
Assigned(t, old, v) == IF t = "Format" THEN [v EXCEPT !.shown = old.shown] ELSE v

(* The first value of a type is taken for all levels; later ones are kept  *)
(* where they differ from it.                                              *)
SetValue(map, c) ==
  CASE DOMAIN map = {} -> [m \in {"Global"} |-> c.value]
    [] "Global" \in DOMAIN map /\ SameValue(c.type, map["Global"], c.value) -> map
    [] OTHER -> [m \in DOMAIN map \cup {c.level} |->
                   IF m # c.level THEN map[m]
                   ELSE IF m \in DOMAIN map THEN Assigned(c.type, map[m], c.value) ELSE c.value]

(* The value of a level, and where it has none the one of Level::Global.   *)
Lookup(typed, t, l) == IF l \in DOMAIN typed[t] THEN typed[t][l] ELSE typed[t]["Global"]

TypedLevel(t, l) == IF t \in {"MillisecondsWidth", "PerformanceTracking"} THEN "Global" ELSE l

TypedValue(t, l, v) == IF t = "Format" THEN LogFormat(l, v) ELSE v

SetTyped(t, list) ==
  FoldLeft(SetValue, <<>>,
           [i \in DOMAIN list |-> [type |-> t, level |-> TypedLevel(t, list[i].level),
                                   value |-> TypedValue(t, list[i].level, list[i].value)]])

-----------------------------------------------------------------------------
(* The streams: handles opened so far, and the one that is shared under    *)
(* the file's name, <<>> before the first.  creatable: newFileStream()     *)
(* succeeds.                                                               *)
NoStreams == [handles |-> <<>>, shared |-> <<>>]

NewFileStream(streams, creatable) ==
  IF creatable
  THEN [handles |-> Append(streams.handles, [buffer |-> <<>>, bad |-> FALSE]),
        shared  |-> <<Len(streams.handles) + 1>>]
  ELSE [streams EXCEPT !.shared = <<0>>]

OpenStream(streams, creatable) ==
  IF streams.shared # <<>> THEN streams ELSE NewFileStream(streams, creatable)

(* map::insert() keeps an entry that is there.                             *)
Inserted(map, l, v) == IF l \in DOMAIN map THEN map
                       ELSE [m \in DOMAIN map \cup {l} |-> IF m = l THEN v ELSE map[m]]

InsertFile(b, e, creatable) ==
  LET l  == IF DOMAIN b.typed["FileStream"] = {} THEN "Global" ELSE e.level
      s  == OpenStream(b.streams, creatable)
      ty == [b.typed EXCEPT !["Filename"] = Inserted(@, l, e.value),
                            !["FileStream"] = Inserted(@, l, s.shared[1])]
  IN [streams |-> s, typed |-> IF s.shared # <<0>> THEN ty
        ELSE [ty EXCEPT !["ToFile"] = SetValue(@, [type |-> "ToFile", level |-> l,
                                                   value |-> FALSE])]]

(* Two passes: the file last, so that it can switch ToFile off.  With a    *)
(* MaxLogFileSize of 0 the check of the file's size does nothing.          *)
Build(conf, streams, creatable) ==
  LET typed == [t \in ConfigurationTypes \cup {"FileStream"} |->
                  IF t \in {"Filename", "FileStream"} THEN <<>> ELSE SetTyped(t, conf[t])]
  IN FoldLeft(LAMBDA b, e : InsertFile(b, e, creatable),
              [typed |-> typed, streams |-> streams], conf["Filename"])
=============================================================================
