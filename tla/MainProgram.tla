---------------------------- MODULE MainProgram ----------------------------
(***************************************************************************)
(* main() of both programs from the call to the end: the arguments and     *)
(* what is made of them (Startup) together with the loggers that depend on *)
(* the flag -v, and the lines the loop then writes (Logging).              *)
(***************************************************************************)
EXTENDS Startup, Logging, FiniteSets

mainVars == <<startupVars, logVars>>

(* The storage of the loggers is made before main() is called.             *)
StaticStorage == Storage /\ UNCHANGED startupVars

HandleArguments ==
  /\ pc = "main"
  /\ PrintUsage \/ RefuseParameter \/ AcceptParameters
  /\ UNCHANGED logVars

ConfigureLogger ==
  /\ phase = "accepted"
  /\ SetConf \/ GetLogger \/ ReconfigureLogger
  /\ UNCHANGED startupVars

StartUp ==
  /\ pc = "running"
  /\ OpenSocket \/ SocketFails \/ Configure \/ GetInstance \/ GetInstanceThrows
  /\ UNCHANGED logVars

(* The loop, and the disk; before the first line it does not matter        *)
(* whether the disk is full.  Only the server has a state standingBy that  *)
(* is fatal.                                                               *)
Loop ==
  /\ phase = "running"
  /\ \/ Inform
     \/ program = "server" /\ StandingByMessage
     \/ Exit
     \/ FillUp \/ FreeUp
  /\ UNCHANGED startupVars

MainInit == StartupInit /\ LogInit /\ verbose = Verbose

MainNext == StaticStorage \/ HandleArguments \/ ConfigureLogger \/ StartUp \/ Loop

MainSpec == MainInit /\ [][MainNext]_mainVars

-----------------------------------------------------------------------------
(* The types, and what StartupTypeOK and LogTypeOK say with them.          *)
MainTypeOK == StartupTypeOK /\ LogTypeOK

(* The connections are heard exactly when -v was among the arguments,      *)
(* whatever its place and whatever the defaults of the levels were before. *)
VerboseObeyed ==
  Cardinality({n \in DOMAIN screen : screen[n].logger = "connection"}) =
    IF \E n \in DOMAIN args : args[n] = Flag THEN informed ELSE 0
=============================================================================
