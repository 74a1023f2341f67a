------------------------------- MODULE Startup -------------------------------
(***************************************************************************)
(* From the command line to the loop (main() in src/server_main.cpp and    *)
(* src/server_worker.cpp, configure() and getInstance() of                 *)
(* src/solution_manager.cpp).  An argument is a word; what matters of it   *)
(* is which number it begins with and whether it is an address.            *)
(***************************************************************************)
EXTENDS Integers, Sequences, SequencesExt

CONSTANTS
  Words,       \* arguments users give; the flag -v is one of them
  Numbers,     \* those that stoi() takes for a number ...
  NumberOf,    \* ... and for which
  Addresses,   \* those inet_aton() takes for an address
  MaxArgs,     \* bound on the number of arguments, for TLC
  MaxSide, MaxPoints, MaxDigits, MaxPort   \* the upper limits of main()

Flag == "-v"

ASSUME StartupAssumption ==
  /\ Numbers \subseteq Words /\ Addresses \subseteq Words
  /\ Flag \in Words /\ Flag \notin Numbers \union Addresses
  /\ NumberOf \in [Numbers -> Int] /\ MaxArgs \in Nat
  /\ {MaxSide, MaxPoints, MaxDigits, MaxPort} \subseteq Nat \ {0}

Programs == {"server", "worker"}

None == [side |-> 0, points |-> 0, digits |-> 0]

VARIABLES
  program,     \* which of the two programs was called
  args,        \* its arguments, without the name of the program
  phase,       \* how far main() has got
  configured,  \* what configure() has stored
  instance     \* the side, points and digits of the SolutionManager

startupVars == <<program, args, phase, configured, instance>>

-----------------------------------------------------------------------------
(* The index of the first -v, 0 if there is none.                          *)
VerboseArgIndex ==
  IF \E i \in 1..Len(args) : args[i] = Flag
  THEN CHOOSE i \in 1..Len(args) : args[i] = Flag /\ \A j \in 1..i - 1 : args[j] # Flag
  ELSE 0

Verbose == VerboseArgIndex # 0

(* The arguments after the flag move up by one place.                      *)
\* mutant: > instead of >=
GetArgAfterFlag(p) == IF Verbose /\ p > VerboseArgIndex THEN args[p + 1] ELSE args[p]
GetArgAtPos(p) == IF Verbose /\ p >= VerboseArgIndex THEN args[p + 1] ELSE args[p]

(* The least and the greatest value of every number.                       *)
Limits ==
  [side |-> <<1, MaxSide>>, points |-> <<1, MaxPoints>>, digits |-> <<0, MaxDigits>>,
   port |-> <<1, MaxPort>>]

(* stoi() and stoll() throw what handleParameter() catches for words that  *)
(* are no numbers or out of range.                                         *)
HandleParameter(w, min, max) == w \in Numbers /\ NumberOf[w] >= min /\ NumberOf[w] <= max

HandleArgument(p, limits) == HandleParameter(GetArgAtPos(p), limits[1], limits[2])

Parameters == Len(args) - (IF Verbose THEN 1 ELSE 0)

ArgumentCountRight ==
  IF program = "server" THEN Parameters \in {3, 4} ELSE Parameters = 2

ParametersAccepted ==
  IF program = "server"
  THEN /\ HandleArgument(1, Limits.side)
       /\ HandleArgument(2, Limits.points)
       /\ HandleArgument(3, Limits.digits)
       /\ Parameters = 4 => HandleArgument(4, Limits.port)
  ELSE /\ GetArgAtPos(1) \in Addresses
       /\ HandleArgument(2, Limits.port)

-----------------------------------------------------------------------------
(* main() up to the call of SolutionManager or ConnectionWorker.           *)
PrintUsage ==
  /\ phase = "called" /\ ~ArgumentCountRight
  /\ phase' = "refused"
  /\ UNCHANGED <<program, args, configured, instance>>

RefuseParameter ==
  /\ phase = "called" /\ ArgumentCountRight /\ ~ParametersAccepted
  /\ phase' = "refused"
  /\ UNCHANGED <<program, args, configured, instance>>

AcceptParameters ==
  /\ phase = "called" /\ ArgumentCountRight /\ ParametersAccepted
  /\ phase' = "accepted"
  /\ UNCHANGED <<program, args, configured, instance>>

OpenSocket ==
  /\ phase = "accepted"
  /\ phase' = IF program = "server" THEN "opened" ELSE "running"
  /\ UNCHANGED <<program, args, configured, instance>>

(* The server catches what a socket's constructor throws and returns, the  *)
(* worker is aborted by it.                                                *)
SocketFails ==
  /\ phase = "accepted"
  /\ phase' = IF program = "server" THEN "failed" ELSE "aborted"
  /\ UNCHANGED <<program, args, configured, instance>>

\* mutant: digits and points change places
ConfigureSwapped ==
  /\ phase = "opened"
  /\ configured' = [side |-> NumberOf[GetArgAtPos(1)], points |-> NumberOf[GetArgAtPos(3)],
                    digits |-> NumberOf[GetArgAtPos(2)]]
  /\ phase' = "configured"
  /\ UNCHANGED <<program, args, instance>>
Configure ==
  /\ phase = "opened"
  /\ configured' = [side |-> NumberOf[GetArgAtPos(1)], points |-> NumberOf[GetArgAtPos(2)],
                    digits |-> NumberOf[GetArgAtPos(3)]]
  /\ phase' = "configured"
  /\ UNCHANGED <<program, args, instance>>

(* What the constructor of SolutionManager throws for.                     *)
ConstructorAccepts(c) == c.side \in 1..MaxSide /\ c.points # 0 /\ c.digits # 0

(* getInstance() makes the one instance of what configure() has stored.    *)
GetInstance ==
  /\ phase = "configured" /\ ConstructorAccepts(configured)
  /\ instance' = configured
  /\ phase' = "running"
  /\ UNCHANGED <<program, args, configured>>

GetInstanceThrows ==
  /\ phase = "configured" /\ ~ConstructorAccepts(configured)
  /\ phase' = "aborted"
  /\ UNCHANGED <<program, args, configured, instance>>

-----------------------------------------------------------------------------
StartupInit ==
  /\ program \in Programs
  /\ \E n \in 0..MaxArgs : args \in [1..n -> Words]
  /\ phase = "called"
  /\ configured = None /\ instance = None

StartupNext ==
  \/ PrintUsage \/ RefuseParameter \/ AcceptParameters
  \/ OpenSocket \/ SocketFails
  \/ Configure \/ GetInstance \/ GetInstanceThrows

StartupSpec == StartupInit /\ [][StartupNext]_startupVars

-----------------------------------------------------------------------------
(* Types, and: the server never gives up once it is configured but for a   *)
(* number of digits of 0.                                                  *)
StartupTypeOK ==
  /\ program \in Programs
  /\ phase \in {"called", "refused", "accepted", "opened", "configured", "running",
                "failed", "aborted"}
  /\ configured.side \in 0..MaxSide /\ configured.points \in 0..MaxPoints
  /\ configured.digits \in 0..MaxDigits
  /\ phase = "aborted" /\ program = "server" => configured.digits = 0

(* How the arguments can be read: as they are, or without a -v among them. *)
Readings ==
  {args} \union {RemoveAt(args, i) : i \in {j \in DOMAIN args : args[j] = Flag}}

InRange(w, min, max) == w \in Numbers /\ NumberOf[w] \in min..max

(* What the usage of the two programs says they are to be called with:     *)
(* the parameters in their order and ranges, and -v anywhere among them.   *)
AreParameters(given) ==
  IF program = "server"
  THEN /\ Len(given) \in {3, 4}
       /\ InRange(given[1], 1, MaxSide) /\ InRange(given[2], 1, MaxPoints)
       /\ InRange(given[3], 0, MaxDigits)
       /\ Len(given) = 4 => InRange(given[4], 1, MaxPort)
  ELSE Len(given) = 2 /\ given[1] \in Addresses /\ InRange(given[2], 1, MaxPort)

IsProperCall == \E given \in Readings : AreParameters(given)

(* Exactly the proper calls are accepted, wherever the flag stands.        *)
ProperCallsAccepted ==
  phase # "called" => (phase # "refused" <=> IsProperCall)

(* What the server computes with is what it was called with.               *)
ServesWhatWasAsked ==
  phase = "running" /\ program = "server" =>
    \E given \in Readings :
      /\ AreParameters(given)
      /\ instance = [side |-> NumberOf[given[1]], points |-> NumberOf[given[2]],
                     digits |-> NumberOf[given[3]]]
=============================================================================
